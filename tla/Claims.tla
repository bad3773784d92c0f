-------------------------------- MODULE Claims --------------------------------
(***************************************************************************)
(* The evidence claims of class Blackboard and the vote on each of them    *)
(* in class ConsensusManager (src/src/core/hivemind/blackboard.ts and      *)
(* consensus.ts).  Every claim opens one proposal; a verification is an    *)
(* approving vote, a contest a rejecting one.  verifyClaim and contestClaim*)
(* are synchronous; submitClaim and saveSnapshot run one after the other   *)
(* in the write queue, and what they find may have changed since the call. *)
(* The clock is the action Expire; what a claim says is left out.          *)
(***************************************************************************)
EXTENDS FiniteSets, Naturals, TLC

CONSTANTS
    AgentIds,     \* ids that registerAgent may draw
    ClaimIds,     \* ids that submitClaim may draw
    Distrusted,   \* agents whose trust score is below trustThreshold
    MaxSaves      \* bound: snapshots ever captured

ASSUME AgentsAssumption == IsFiniteSet(AgentIds)
ASSUME MaxSavesAssumption == MaxSaves \in Nat

Quorum == 2

VARIABLES
    agents,    \* Blackboard.agents, all of them with a trust score
    claims,    \* Blackboard.claims
    records,   \* ConsensusManager.records, by the claim that is their topic
    waiting,   \* claims in the write queue, with their authors
    saving,    \* snapshots that saveSnapshot captured and is writing
    saved,     \* blackboard.json
    saves      \* snapshots captured, for the bound

board == <<agents, claims, records>>
vars == <<agents, claims, records, waiting, saving, saved, saves>>

Labels == {"proposed", "verified", "contested", "rejected", "consensus"}
Decisions == {"none", "approved", "rejected"}

Claim == [author : AgentIds, verifiedBy : SUBSET AgentIds,
          contestedBy : SUBSET AgentIds, status : Labels]

\* Votes are kept as the sets of those who approve and of those who reject;
\* expired says that expiresAt is in the past.
Record == [approvers : SUBSET AgentIds, rejecters : SUBSET AgentIds,
           status : {"voting", "reached", "timeout"}, decision : Decisions,
           expired : BOOLEAN]

Tables(Value) == UNION {[C -> Value] : C \in SUBSET ClaimIds}

Nothing == [c \in {} |-> "none"]
Snapshot == [agents |-> agents, claims |-> claims, records |-> records]
NoSnapshot == [agents |-> {}, claims |-> Nothing, records |-> Nothing]

Init ==
    /\ agents = {} /\ claims = Nothing /\ records = Nothing
    /\ waiting = Nothing /\ saving = {} /\ saved = NoSnapshot
    /\ saves = 0

(***************************************************************************)
(* The two ways to judge a claim: by the counts of its reviewers, and by   *)
(* the majority of the votes that are eligible.                            *)
(***************************************************************************)
\* determineClaimStatus
Label(verifications, contests) ==
    CASE contests >= 2 -> "rejected"
      [] contests = 1 -> "contested"
      [] contests = 0 /\ verifications >= 2 -> "consensus"
      [] contests = 0 /\ verifications = 1 -> "verified"
      [] contests = 0 /\ verifications = 0 -> "proposed"

\* Faulty variant: one eligible vote is enough.
EvaluateAlone(approvers, rejecters) ==
    LET a == Cardinality(approvers \ Distrusted)
        r == Cardinality(rejecters \ Distrusted)
    IN  CASE a > r -> "approved"
          [] r > a -> "rejected"
          [] OTHER -> "none"

\* evaluateConsensus: every vote carries the hash of the claim and the trust score
\* of the voter, and nobody abstains.
Evaluate(approvers, rejecters) ==
    LET a == Cardinality(approvers \ Distrusted)
        r == Cardinality(rejecters \ Distrusted)
    IN  CASE a + r >= Quorum /\ a > r -> "approved"
          [] a + r >= Quorum /\ r > a -> "rejected"
          [] OTHER -> "none"

\* closeVoting with the reason timeout
TimedOut(r) == [r EXCEPT !.status = "timeout",
                         !.decision = Evaluate(r.approvers, r.rejecters)]

Decided(r) ==
    LET decision == Evaluate(r.approvers, r.rejecters)
    IN  IF decision = "none" THEN r
        ELSE [r EXCEPT !.status = "reached", !.decision = decision]

\* Faulty variant: closed votes are counted again.
VoteReopened(r, a, vote) ==
    Decided([r EXCEPT !.approvers = IF vote = "approve" THEN @ \cup {a} ELSE @ \ {a},
                      !.rejecters = IF vote = "approve" THEN @ \ {a} ELSE @ \cup {a}])

\* vote, which verifyClaim and contestClaim call when the proposal is still open
Vote(r, a, vote) ==
    CASE r.status # "voting" -> r
      [] r.status = "voting" /\ r.expired -> TimedOut(r)
      [] r.status = "voting" /\ ~r.expired /\ a \in r.approvers \cup r.rejecters -> r
      [] OTHER -> Decided(IF vote = "approve" THEN [r EXCEPT !.approvers = @ \cup {a}]
                              ELSE [r EXCEPT !.rejecters = @ \cup {a}])

\* applyConsensusDecision, after the vote on an open proposal
Judged(claim, before, after) ==
    IF before.status = "voting" /\ after.status # "voting" /\ after.decision = "rejected"
    THEN [claim EXCEPT !.status = "rejected"] ELSE claim

(***************************************************************************)
(* Operations.                                                             *)
(***************************************************************************)
registerAgent(a) ==
    /\ a \notin agents
    /\ agents' = agents \cup {a}
    /\ UNCHANGED <<claims, records, waiting, saving, saved, saves>>

\* The call: the author is known, the write is queued.
submitClaim(a, c) ==
    /\ a \in agents /\ c \notin DOMAIN claims \cup DOMAIN waiting
    /\ \A s \in saving \cup {saved} : c \notin DOMAIN s.claims
    /\ waiting' = [d \in DOMAIN waiting \cup {c} |-> IF d = c THEN a ELSE waiting[d]]
    /\ UNCHANGED <<agents, claims, records, saving, saved, saves>>

\* Its turn in the queue: the claim and its proposal appear together.
ClaimWritten(c) ==
    /\ c \in DOMAIN waiting /\ saving = {}
    /\ claims' = [d \in DOMAIN claims \cup {c} |->
           IF d = c THEN [author |-> waiting[c], verifiedBy |-> {}, contestedBy |-> {},
                          status |-> "proposed"]
           ELSE claims[d]]
    /\ records' = [d \in DOMAIN records \cup {c} |->
           IF d = c THEN [approvers |-> {}, rejecters |-> {}, status |-> "voting",
                          decision |-> "none", expired |-> FALSE]
           ELSE records[d]]
    /\ waiting' = [d \in DOMAIN waiting \ {c} |-> waiting[d]]
    /\ UNCHANGED <<agents, saving, saved, saves>>

verifyClaim(c, a) ==
    /\ c \in DOMAIN claims /\ a \in agents
    /\ a # claims[c].author /\ a \notin claims[c].verifiedBy
    /\ LET by == claims[c].verifiedBy \cup {a}
           claim == [claims[c] EXCEPT !.verifiedBy = by,
                       !.status = Label(Cardinality(by), Cardinality(claims[c].contestedBy))]
           record == Vote(records[c], a, "approve")
       IN  /\ claims' = [claims EXCEPT ![c] = Judged(claim, records[c], record)]
           /\ records' = [records EXCEPT ![c] = record]
    /\ UNCHANGED <<agents, waiting, saving, saved, saves>>

contestClaim(c, a) ==
    /\ c \in DOMAIN claims /\ a \in agents
    /\ a # claims[c].author /\ a \notin claims[c].contestedBy
    /\ LET by == claims[c].contestedBy \cup {a}
           claim == [claims[c] EXCEPT !.contestedBy = by,
                       !.status = Label(Cardinality(claims[c].verifiedBy), Cardinality(by))]
           record == Vote(records[c], a, "reject")
       IN  /\ claims' = [claims EXCEPT ![c] = Judged(claim, records[c], record)]
           /\ records' = [records EXCEPT ![c] = record]
    /\ UNCHANGED <<agents, waiting, saving, saved, saves>>

checkTimeouts ==
    /\ \E c \in DOMAIN records : records[c].status = "voting" /\ records[c].expired
    /\ records' = [c \in DOMAIN records |->
           IF records[c].status = "voting" /\ records[c].expired THEN TimedOut(records[c])
           ELSE records[c]]
    /\ UNCHANGED <<agents, claims, waiting, saving, saved, saves>>

resetForNewMission ==
    /\ agents' = {} /\ claims' = Nothing /\ records' = Nothing
    /\ UNCHANGED <<waiting, saving, saved, saves>>

\* saveSnapshot captures the state when its turn comes, and writes it in one step.
saveSnapshot ==
    /\ saving = {} /\ saves < MaxSaves
    /\ saving' = {Snapshot} /\ saves' = saves + 1
    /\ UNCHANGED <<agents, claims, records, waiting, saved>>

SnapshotWritten ==
    /\ saving # {}
    /\ saved' \in saving /\ saving' = {}
    /\ UNCHANGED <<agents, claims, records, waiting, saves>>

SnapshotFails ==
    /\ saving # {} /\ saving' = {}
    /\ UNCHANGED <<agents, claims, records, waiting, saved, saves>>

(***************************************************************************)
(* The environment.                                                        *)
(***************************************************************************)
Late(table, c) ==
    [d \in DOMAIN table |-> IF d = c THEN [table[d] EXCEPT !.expired = TRUE] ELSE table[d]]

\* The date expiresAt of a proposal passes, for every copy of the proposal.
Expire(c) ==
    /\ c \in DOMAIN records \cup DOMAIN saved.records
    /\ records' = Late(records, c)
    /\ saved' = [saved EXCEPT !.records = Late(@, c)]
    /\ saving' = {[s EXCEPT !.records = Late(@, c)] : s \in saving}
    /\ UNCHANGED <<agents, claims, waiting, saves>>

\* Faulty variant: importRecords is forgotten.
RestartUnvoted ==
    /\ agents' = saved.agents /\ claims' = saved.claims /\ records' = Nothing
    /\ waiting' = Nothing /\ saving' = {}
    /\ UNCHANGED <<saved, saves>>

\* The process dies and another one creates the blackboard: loadSnapshot.
Restart ==
    /\ agents' = saved.agents /\ claims' = saved.claims /\ records' = saved.records
    /\ waiting' = Nothing /\ saving' = {}
    /\ UNCHANGED <<saved, saves>>

Next ==
    \/ \E a \in AgentIds : registerAgent(a)
    \/ \E c \in ClaimIds :
          \/ \E a \in AgentIds : submitClaim(a, c) \/ verifyClaim(c, a) \/ contestClaim(c, a)
          \/ ClaimWritten(c) \/ Expire(c)
    \/ checkTimeouts \/ resetForNewMission \/ Restart
    \/ saveSnapshot \/ SnapshotWritten \/ SnapshotFails

Spec == Init /\ [][Next]_vars

-----------------------------------------------------------------------------
(***************************************************************************)
(* Properties.                                                             *)
(***************************************************************************)
SnapshotType == [agents : SUBSET AgentIds, claims : Tables(Claim), records : Tables(Record)]

Typed(table, Value) == DOMAIN table \subseteq ClaimIds /\ table \in [DOMAIN table -> Value]

WellTyped(s) == s.agents \subseteq AgentIds /\ Typed(s.claims, Claim) /\ Typed(s.records, Record)

\* Every variable, and every copy of the blackboard, has its type.
TypeOK ==
    /\ WellTyped(Snapshot) /\ WellTyped(saved)
    /\ \A s \in saving : WellTyped(s)
    /\ Typed(waiting, AgentIds)
    /\ saves \in 0..MaxSaves

Reviewed(s) ==
    /\ DOMAIN s.records = DOMAIN s.claims
    /\ \A c \in DOMAIN s.claims :
          /\ s.records[c].approvers \subseteq s.claims[c].verifiedBy
          /\ s.records[c].rejecters \subseteq s.claims[c].contestedBy
          /\ s.records[c].approvers \cap s.records[c].rejecters = {}
          /\ s.claims[c].author \notin s.claims[c].verifiedBy \cup s.claims[c].contestedBy

\* Every claim has its proposal, and every vote on it is the vote of an agent, not
\* its author, whose review the claim records: verifyClaim and contestClaim update
\* the two one after the other, and they are saved and restored separately.
VotesMatchReviews == Reviewed(Snapshot)

Counted(claim) == Label(Cardinality(claim.verifiedBy), Cardinality(claim.contestedBy))

\* The label that the reporter reads is the one determineClaimStatus gives for the
\* counts, whatever the vote, a timeout or a restart did: a vote that rejects finds
\* a claim that the counts have rejected already.
LabelFollowsCounts == \A c \in DOMAIN claims : claims[c].status = Counted(claims[c])

\* A proposal is decided exactly when it is reached, by a strict majority of at
\* least two trusted agents; what times out decides nothing (evaluateConsensus).
DecisionHasMajority ==
    \A c \in DOMAIN records :
        LET r == records[c]
            for == Cardinality(r.approvers \ Distrusted)
            against == Cardinality(r.rejecters \ Distrusted)
        IN  /\ r.status = "reached" <=> r.decision # "none"
            /\ r.decision # "none" => for + against >= Quorum
            /\ r.decision = "approved" => for > against
            /\ r.decision = "rejected" => against > for

\* A closed proposal never opens or changes its decision, and a rejected claim stays
\* rejected, until a restart goes back to the snapshot (vote, closeVoting).
VerdictsAreFinal ==
    [][\/ board' = <<saved.agents, saved.claims, saved.records>>
       \/ \A c \in DOMAIN claims \cap DOMAIN claims' :
             /\ records[c].status # "voting" =>
                   /\ records'[c].status = records[c].status
                   /\ records'[c].decision = records[c].decision
                   /\ records'[c].approvers = records[c].approvers
                   /\ records'[c].rejecters = records[c].rejecters
             /\ claims[c].status = "rejected" => claims'[c].status = "rejected"]_vars

\* Not so after a vote that timed out: what vote promises, that a claim has the label consensus only if its proposal, which
\* counts no vote of a distrusted agent, was approved.
ConsensusIsDecided ==
    \A c \in DOMAIN claims : claims[c].status = "consensus" => records[c].decision = "approved"

\* Trusted agents are interchangeable, and so are claims.
Symmetry == Permutations(AgentIds \ Distrusted) \cup Permutations(ClaimIds)
=============================================================================
