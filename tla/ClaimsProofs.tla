----------------------------- MODULE ClaimsProofs -----------------------------
(***************************************************************************)
(* What is proved of Claims, for every finite set of agents, every set of  *)
(* claims, and every set of distrusted agents.                             *)
(*                                                                         *)
(* The argument is about one claim and its proposal at a time: the decision*)
(* is always what evaluateConsensus makes of the votes, the votes are among*)
(* the reviews, and so a vote that rejects has at least two reviews behind *)
(* it that contest the claim: applyConsensusDecision writes the label that *)
(* determineClaimStatus has already given.                                 *)
(***************************************************************************)
EXTENDS Claims, FiniteSetTheorems, TLAPS

\* The decision is what the votes make of it.
Sound(r) ==
    /\ r.decision = Evaluate(r.approvers, r.rejecters)
    /\ r.status = "reached" <=> r.decision # "none"

\* A claim and its proposal agree.
Fit(claim, r) ==
    /\ claim.status = Counted(claim)
    /\ r.approvers \subseteq claim.verifiedBy
    /\ r.rejecters \subseteq claim.contestedBy
    /\ r.approvers \cap r.rejecters = {}
    /\ claim.author \notin claim.verifiedBy \cup claim.contestedBy
    /\ Sound(r)

Agreed(s) ==
    /\ WellTyped(s)
    /\ DOMAIN s.records = DOMAIN s.claims
    /\ \A c \in DOMAIN s.claims : Fit(s.claims[c], s.records[c])

IInv ==
    /\ TypeOK
    /\ Agreed(Snapshot) /\ Agreed(saved)
    /\ \A s \in saving : Agreed(s)

-----------------------------------------------------------------------------
(***************************************************************************)
(* Lemmas about votes and labels.                                          *)
(***************************************************************************)
LEMMA CardinalityIsNat ==
    ASSUME NEW S \in SUBSET AgentIds
    PROVE  IsFiniteSet(S) /\ Cardinality(S) \in Nat
  BY AgentsAssumption, FS_Subset, FS_CardinalityType

LEMMA LabelType ==
    ASSUME NEW v \in Nat, NEW n \in Nat
    PROVE  Label(v, n) \in Labels /\ (Label(v, n) = "rejected" <=> n >= 2)
  BY DEF Label, Labels

\* What a decision says of the votes.
LEMMA EvaluateMeans ==
    ASSUME NEW A \in SUBSET AgentIds, NEW R \in SUBSET AgentIds
    PROVE  LET for == Cardinality(A \ Distrusted)
               against == Cardinality(R \ Distrusted)
           IN  /\ Evaluate(A, R) \in Decisions
               /\ Evaluate(A, R) # "none" => for + against >= Quorum
               /\ Evaluate(A, R) = "approved" => for > against
               /\ Evaluate(A, R) = "rejected" => against > for /\ against >= 2
<1>1. A \ Distrusted \in SUBSET AgentIds /\ R \ Distrusted \in SUBSET AgentIds
  OBVIOUS
<1>2. Cardinality(A \ Distrusted) \in Nat /\ Cardinality(R \ Distrusted) \in Nat
  BY <1>1, CardinalityIsNat
<1> QED
  BY <1>2 DEF Evaluate, Decisions, Quorum

\* A new proposal is undecided.
LEMMA NoVotesNoDecision == Evaluate({}, {}) = "none"
<1>1. {} \ Distrusted = {}
  OBVIOUS
<1> QED
  BY <1>1, FS_EmptySet DEF Evaluate, Quorum

\* A vote keeps the decision sound, and adds at most the vote of the agent.
LEMMA VoteKeeps ==
    ASSUME NEW r \in Record, Sound(r), NEW a \in AgentIds, NEW vote \in {"approve", "reject"},
           r.approvers \cap r.rejecters = {}
    PROVE  LET v == Vote(r, a, vote)
           IN  /\ v \in Record /\ Sound(v)
               /\ v.approvers \subseteq r.approvers \cup (IF vote = "approve" THEN {a} ELSE {})
               /\ v.rejecters \subseteq r.rejecters \cup (IF vote = "approve" THEN {} ELSE {a})
               /\ v.approvers \cap v.rejecters = {}
               /\ r.status # "voting" => v = r
<1> DEFINE add == IF vote = "approve" THEN [r EXCEPT !.approvers = @ \cup {a}]
                              ELSE [r EXCEPT !.rejecters = @ \cup {a}]
<1>1. CASE r.status # "voting"
  BY <1>1 DEF Vote
<1>2. CASE r.status = "voting" /\ r.expired
  <2>1. Vote(r, a, vote) = TimedOut(r)
    BY <1>2 DEF Vote
  <2>2. r.decision = "none" /\ Evaluate(r.approvers, r.rejecters) = "none"
    BY <1>2 DEF Sound
  <2>3. /\ TimedOut(r) \in Record /\ TimedOut(r).status = "timeout"
        /\ TimedOut(r).decision = "none"
        /\ TimedOut(r).approvers = r.approvers /\ TimedOut(r).rejecters = r.rejecters
    BY <2>2 DEF TimedOut, Record, Decisions
  <2> QED
    BY <1>2, <2>1, <2>2, <2>3 DEF Sound
<1>3. CASE r.status = "voting" /\ ~r.expired /\ a \in r.approvers \cup r.rejecters
  BY <1>3 DEF Vote
<1>4. CASE r.status = "voting" /\ ~r.expired /\ a \notin r.approvers \cup r.rejecters
  <2>1. Vote(r, a, vote) = Decided(add)
    BY <1>4 DEF Vote
  <2>2. /\ add \in Record /\ add.status = "voting" /\ add.decision = "none"
        /\ add.approvers = r.approvers \cup (IF vote = "approve" THEN {a} ELSE {})
        /\ add.rejecters = r.rejecters \cup (IF vote = "approve" THEN {} ELSE {a})
        /\ add.approvers \cap add.rejecters = {}
    BY <1>4 DEF Record, Sound
  <2> HIDE DEF add
  <2>3. add.approvers \in SUBSET AgentIds /\ add.rejecters \in SUBSET AgentIds
    BY <2>2 DEF Record
  <2>4. Evaluate(add.approvers, add.rejecters) \in Decisions
    BY <2>3, EvaluateMeans
  <2>5. /\ Decided(add) \in Record /\ Sound(Decided(add))
        /\ Decided(add).approvers = add.approvers /\ Decided(add).rejecters = add.rejecters
    BY <2>2, <2>4 DEF Decided, Record, Sound, Decisions
  <2> QED
    BY <1>4, <2>1, <2>2, <2>5
<1> QED
  BY <1>1, <1>2, <1>3, <1>4 DEF Record

\* The decision never changes a label that counts the reviews behind the votes.
LEMMA JudgedChangesNothing ==
    ASSUME NEW claim \in Claim, NEW r, NEW v \in Record, Fit(claim, v)
    PROVE  Judged(claim, r, v) = claim
<1>1. CASE v.decision = "rejected"
  <2>1. /\ v.approvers \in SUBSET AgentIds /\ v.rejecters \in SUBSET AgentIds
        /\ claim.contestedBy \in SUBSET AgentIds /\ claim.verifiedBy \in SUBSET AgentIds
    BY DEF Record, Claim
  <2>2. Cardinality(v.rejecters \ Distrusted) >= 2
    BY <1>1, <2>1, EvaluateMeans DEF Fit, Sound
  <2>3. v.rejecters \ Distrusted \subseteq claim.contestedBy /\ IsFiniteSet(claim.contestedBy)
    BY <2>1, CardinalityIsNat DEF Fit
  <2>4. Cardinality(v.rejecters \ Distrusted) <= Cardinality(claim.contestedBy)
    BY <2>3, FS_Subset
  <2>5. /\ Cardinality(claim.contestedBy) \in Nat /\ Cardinality(claim.verifiedBy) \in Nat
        /\ Cardinality(v.rejecters \ Distrusted) \in Nat
    <3>1. v.rejecters \ Distrusted \in SUBSET AgentIds
      BY <2>1
    <3> QED
      BY <2>1, <3>1, CardinalityIsNat
  <2>6. claim.status = "rejected"
    BY <2>2, <2>4, <2>5, LabelType DEF Fit, Counted
  <2> QED
    BY <2>6 DEF Judged, Claim
<1>2. CASE v.decision # "rejected"
  BY <1>2 DEF Judged
<1> QED
  BY <1>1, <1>2

\* A review keeps a claim and its proposal in agreement.
LEMMA ReviewFits ==
    ASSUME NEW claim \in Claim, NEW r \in Record, Fit(claim, r), NEW a \in AgentIds,
           a # claim.author, NEW vote \in {"approve", "reject"}, NEW new \in Claim,
           new.author = claim.author, new.status = Counted(new),
           new.verifiedBy = claim.verifiedBy \cup (IF vote = "approve" THEN {a} ELSE {}),
           new.contestedBy = claim.contestedBy \cup (IF vote = "approve" THEN {} ELSE {a})
    PROVE  LET v == Vote(r, a, vote)
           IN  v \in Record /\ Fit(new, v) /\ Judged(new, r, v) = new
<1> DEFINE v == Vote(r, a, vote)
<1>1. /\ v \in Record /\ Sound(v)
      /\ v.approvers \subseteq r.approvers \cup (IF vote = "approve" THEN {a} ELSE {})
      /\ v.rejecters \subseteq r.rejecters \cup (IF vote = "approve" THEN {} ELSE {a})
      /\ v.approvers \cap v.rejecters = {}
  BY VoteKeeps DEF Fit
<1> HIDE DEF v
<1>2. Fit(new, v)
  BY <1>1 DEF Fit
<1>3. Judged(new, r, v) = new
  BY <1>1, <1>2, JudgedChangesNothing
<1> QED
  BY <1>1, <1>2, <1>3 DEF v

-----------------------------------------------------------------------------
(***************************************************************************)
(* The invariant.                                                          *)
(***************************************************************************)
\* The operations that change one claim and its proposal, or the proposal alone.
LEMMA ReplaceKeeps ==
    ASSUME IInv, NEW c \in DOMAIN claims, NEW new \in Claim, NEW v \in Record, Fit(new, v),
           claims' = [claims EXCEPT ![c] = new], records' = [records EXCEPT ![c] = v],
           UNCHANGED <<agents, waiting, saving, saved, saves>>
    PROVE  IInv'
<1>1. /\ WellTyped(Snapshot) /\ DOMAIN records = DOMAIN claims
      /\ \A d \in DOMAIN claims : Fit(claims[d], records[d])
  BY DEF IInv, Agreed, Snapshot
<1>2. /\ agents \subseteq AgentIds
      /\ DOMAIN claims \subseteq ClaimIds /\ claims \in [DOMAIN claims -> Claim]
      /\ records \in [DOMAIN claims -> Record]
  BY <1>1 DEF WellTyped, Typed, Snapshot
<1>3. /\ DOMAIN claims' = DOMAIN claims /\ DOMAIN records' = DOMAIN claims
      /\ claims' \in [DOMAIN claims -> Claim] /\ records' \in [DOMAIN claims -> Record]
      /\ claims'[c] = new /\ records'[c] = v
      /\ \A d \in DOMAIN claims : d # c => claims'[d] = claims[d] /\ records'[d] = records[d]
  BY <1>1, <1>2
<1>4. WellTyped(Snapshot)'
  BY <1>2, <1>3 DEF WellTyped, Typed, Snapshot
<1>5. \A d \in DOMAIN claims' : Fit(claims'[d], records'[d])
  BY <1>1, <1>3
<1>6. Agreed(Snapshot)'
  BY <1>3, <1>4, <1>5 DEF Agreed, Snapshot
<1>7. TypeOK'
  BY <1>4 DEF IInv, TypeOK, WellTyped, Typed
<1>8. Agreed(saved)' /\ (\A s \in saving : Agreed(s))'
  BY DEF IInv, Agreed, WellTyped, Typed, Fit, Sound
<1> QED
  BY <1>6, <1>7, <1>8 DEF IInv

LEMMA NothingAgrees == Agreed(NoSnapshot) /\ Typed(Nothing, AgentIds)
<1>1. DOMAIN Nothing = {}
  BY DEF Nothing
<1>2. Typed(Nothing, Claim) /\ Typed(Nothing, Record) /\ Typed(Nothing, AgentIds)
  BY <1>1 DEF Nothing, Typed
<1> QED
  BY <1>1, <1>2 DEF Agreed, WellTyped, NoSnapshot

LEMMA InitIInv == Init => IInv
<1> SUFFICES ASSUME Init PROVE IInv
  OBVIOUS
<1>1. Snapshot = NoSnapshot
  BY DEF Init, Snapshot, NoSnapshot
<1> QED
  BY <1>1, NothingAgrees, MaxSavesAssumption DEF Init, IInv, TypeOK, Agreed

LEMMA VerifyKeeps ==
    ASSUME IInv, NEW c \in ClaimIds, NEW a \in AgentIds, verifyClaim(c, a)
    PROVE  IInv'
<1> DEFINE by == claims[c].verifiedBy \cup {a}
           new == [claims[c] EXCEPT !.verifiedBy = by,
                     !.status = Label(Cardinality(by), Cardinality(claims[c].contestedBy))]
           v == Vote(records[c], a, "approve")
<1>1. /\ c \in DOMAIN claims /\ a # claims[c].author
      /\ claims' = [claims EXCEPT ![c] = Judged(new, records[c], v)]
      /\ records' = [records EXCEPT ![c] = v]
      /\ UNCHANGED <<agents, waiting, saving, saved, saves>>
  BY DEF verifyClaim
<1>2. claims[c] \in Claim /\ records[c] \in Record /\ Fit(claims[c], records[c])
  BY <1>1 DEF IInv, Agreed, WellTyped, Typed, Snapshot
<1>3. /\ new \in Claim /\ new.author = claims[c].author
      /\ new.verifiedBy = by /\ new.contestedBy = claims[c].contestedBy
      /\ new.status = Counted(new)
  <2>1. by \in SUBSET AgentIds /\ claims[c].contestedBy \in SUBSET AgentIds
    BY <1>2 DEF Claim
  <2>2. Label(Cardinality(by), Cardinality(claims[c].contestedBy)) \in Labels
    BY <2>1, CardinalityIsNat, LabelType
  <2> QED
    BY <1>2, <2>1, <2>2 DEF Claim, Counted
<1> HIDE DEF new
<1>4. v \in Record /\ Fit(new, v) /\ Judged(new, records[c], v) = new
  BY <1>1, <1>2, <1>3, ReviewFits
<1> HIDE DEF v
<1> QED
  BY <1>1, <1>3, <1>4, ReplaceKeeps

LEMMA ContestKeeps ==
    ASSUME IInv, NEW c \in ClaimIds, NEW a \in AgentIds, contestClaim(c, a)
    PROVE  IInv'
<1> DEFINE by == claims[c].contestedBy \cup {a}
           new == [claims[c] EXCEPT !.contestedBy = by,
                     !.status = Label(Cardinality(claims[c].verifiedBy), Cardinality(by))]
           v == Vote(records[c], a, "reject")
<1>1. /\ c \in DOMAIN claims /\ a # claims[c].author
      /\ claims' = [claims EXCEPT ![c] = Judged(new, records[c], v)]
      /\ records' = [records EXCEPT ![c] = v]
      /\ UNCHANGED <<agents, waiting, saving, saved, saves>>
  BY DEF contestClaim
<1>2. claims[c] \in Claim /\ records[c] \in Record /\ Fit(claims[c], records[c])
  BY <1>1 DEF IInv, Agreed, WellTyped, Typed, Snapshot
<1>3. /\ new \in Claim /\ new.author = claims[c].author
      /\ new.contestedBy = by /\ new.verifiedBy = claims[c].verifiedBy
      /\ new.status = Counted(new)
  <2>1. by \in SUBSET AgentIds /\ claims[c].verifiedBy \in SUBSET AgentIds
    BY <1>2 DEF Claim
  <2>2. Label(Cardinality(claims[c].verifiedBy), Cardinality(by)) \in Labels
    BY <2>1, CardinalityIsNat, LabelType
  <2> QED
    BY <1>2, <2>1, <2>2 DEF Claim, Counted
<1> HIDE DEF new
<1>4. v \in Record /\ Fit(new, v) /\ Judged(new, records[c], v) = new
  BY <1>1, <1>2, <1>3, ReviewFits
<1> HIDE DEF v
<1> QED
  BY <1>1, <1>3, <1>4, ReplaceKeeps

LEMMA WrittenKeeps ==
    ASSUME IInv, NEW c \in ClaimIds, ClaimWritten(c)
    PROVE  IInv'
<1> DEFINE new == [author |-> waiting[c], verifiedBy |-> {}, contestedBy |-> {},
                   status |-> "proposed"]
           v == [approvers |-> {}, rejecters |-> {}, status |-> "voting",
                 decision |-> "none", expired |-> FALSE]
<1>1. /\ c \in DOMAIN waiting
      /\ claims' = [d \in DOMAIN claims \cup {c} |-> IF d = c THEN new ELSE claims[d]]
      /\ records' = [d \in DOMAIN records \cup {c} |-> IF d = c THEN v ELSE records[d]]
      /\ waiting' = [d \in DOMAIN waiting \ {c} |-> waiting[d]]
      /\ UNCHANGED <<agents, saving, saved, saves>>
  BY DEF ClaimWritten
<1>2. /\ agents \subseteq AgentIds /\ DOMAIN records = DOMAIN claims
      /\ DOMAIN claims \subseteq ClaimIds /\ claims \in [DOMAIN claims -> Claim]
      /\ records \in [DOMAIN claims -> Record]
      /\ DOMAIN waiting \subseteq ClaimIds /\ waiting \in [DOMAIN waiting -> AgentIds]
      /\ \A d \in DOMAIN claims : Fit(claims[d], records[d])
  BY DEF IInv, TypeOK, Agreed, WellTyped, Typed, Snapshot
<1>3. new \in Claim /\ v \in Record
  BY <1>1, <1>2 DEF Claim, Record, Labels, Decisions
<1>4. Fit(new, v)
  <2>1. Cardinality({}) = 0
    BY FS_EmptySet
  <2> QED
    BY <2>1, NoVotesNoDecision DEF Fit, Sound, Counted, Label
<1> HIDE DEF new, v
<1>5. /\ DOMAIN claims' = DOMAIN claims \cup {c} /\ DOMAIN records' = DOMAIN claims'
      /\ claims' \in [DOMAIN claims' -> Claim] /\ records' \in [DOMAIN records' -> Record]
      /\ \A d \in DOMAIN claims' : Fit(claims'[d], records'[d])
      /\ DOMAIN waiting' \subseteq ClaimIds /\ waiting' \in [DOMAIN waiting' -> AgentIds]
  BY <1>1, <1>2, <1>3, <1>4
<1>6. WellTyped(Snapshot)'
  BY <1>1, <1>2, <1>5 DEF WellTyped, Typed, Snapshot
<1>7. Agreed(Snapshot)'
  BY <1>5, <1>6 DEF Agreed, Snapshot
<1>8. TypeOK'
  BY <1>1, <1>5, <1>6 DEF IInv, TypeOK, WellTyped, Typed
<1>9. Agreed(saved)' /\ (\A s \in saving : Agreed(s))'
  BY <1>1 DEF IInv, Agreed, WellTyped, Typed, Fit, Sound
<1> QED
  BY <1>7, <1>8, <1>9 DEF IInv

\* A proposal that times out, or whose date passes, keeps its votes.
LEMMA ClosedFits ==
    ASSUME NEW claim, NEW r \in Record, Fit(claim, r), r.status = "voting"
    PROVE  TimedOut(r) \in Record /\ Fit(claim, TimedOut(r))
<1>1. r.decision = "none" /\ Evaluate(r.approvers, r.rejecters) = "none"
  BY DEF Fit, Sound
<1> QED
  BY <1>1 DEF TimedOut, Record, Decisions, Fit, Sound

LEMMA LateAgrees ==
    ASSUME NEW s, Agreed(s), NEW c
    PROVE  /\ Agreed([s EXCEPT !.records = Late(s.records, c)])
           /\ WellTyped([s EXCEPT !.records = Late(s.records, c)])
<1> DEFINE l == Late(s.records, c)
<1>1. /\ DOMAIN s.records \subseteq ClaimIds
      /\ s.records \in [DOMAIN s.records -> Record]
  BY DEF Agreed, WellTyped, Typed
<1>2. /\ DOMAIN l = DOMAIN s.records /\ l \in [DOMAIN l -> Record]
      /\ \A d \in DOMAIN l :
            /\ l[d].approvers = s.records[d].approvers
            /\ l[d].rejecters = s.records[d].rejecters
            /\ l[d].status = s.records[d].status
            /\ l[d].decision = s.records[d].decision
  BY <1>1 DEF Late, Record
<1> HIDE DEF l
<1> QED
  BY <1>1, <1>2 DEF Agreed, WellTyped, Typed, Fit, Sound, l

LEMMA TimeoutsKeep ==
    ASSUME IInv, checkTimeouts
    PROVE  IInv'
<1>1. /\ agents \subseteq AgentIds /\ DOMAIN records = DOMAIN claims
      /\ DOMAIN claims \subseteq ClaimIds /\ claims \in [DOMAIN claims -> Claim]
      /\ records \in [DOMAIN claims -> Record]
      /\ \A d \in DOMAIN claims : Fit(claims[d], records[d])
  BY DEF IInv, Agreed, WellTyped, Typed, Snapshot
<1>2. /\ UNCHANGED <<agents, claims, waiting, saving, saved, saves>>
      /\ DOMAIN records' = DOMAIN claims
      /\ \A d \in DOMAIN claims :
            records'[d] = IF records[d].status = "voting" /\ records[d].expired
                          THEN TimedOut(records[d]) ELSE records[d]
  BY <1>1 DEF checkTimeouts
<1>3. \A d \in DOMAIN claims : records'[d] \in Record /\ Fit(claims[d], records'[d])
  BY <1>1, <1>2, ClosedFits
<1>4. records' \in [DOMAIN claims -> Record]
  BY <1>2, <1>3 DEF checkTimeouts
<1>5. WellTyped(Snapshot)'
  BY <1>1, <1>2, <1>4 DEF WellTyped, Typed, Snapshot
<1>6. Agreed(Snapshot)'
  BY <1>2, <1>3, <1>5 DEF Agreed, Snapshot
<1>7. TypeOK'
  BY <1>2, <1>5 DEF IInv, TypeOK, WellTyped, Typed
<1>8. Agreed(saved)' /\ (\A s \in saving : Agreed(s))'
  BY <1>2 DEF IInv, Agreed, WellTyped, Typed, Fit, Sound
<1> QED
  BY <1>6, <1>7, <1>8 DEF IInv

LEMMA ExpireKeeps ==
    ASSUME IInv, NEW c \in ClaimIds, Expire(c)
    PROVE  IInv'
<1> DEFINE late(s) == [s EXCEPT !.records = Late(s.records, c)]
<1>1. Snapshot' = late(Snapshot)
  BY DEF Expire, Snapshot
<1>2. saved' = late(saved) /\ saving' = {late(s) : s \in saving}
  BY DEF Expire
<1>3. Agreed(late(Snapshot)) /\ Agreed(late(saved)) /\ \A s \in saving : Agreed(late(s))
  BY LateAgrees DEF IInv
<1>4. WellTyped(late(Snapshot)) /\ WellTyped(late(saved)) /\ \A s \in saving : WellTyped(late(s))
  BY LateAgrees DEF IInv
<1> HIDE DEF late
<1>5. Agreed(Snapshot)' /\ WellTyped(Snapshot)'
  <2>1. Agreed(Snapshot)' <=> Agreed(Snapshot')
    BY DEF Agreed, WellTyped, Typed, Fit, Sound
  <2>2. WellTyped(Snapshot)' <=> WellTyped(Snapshot')
    BY DEF WellTyped, Typed
  <2> QED
    BY <1>1, <1>3, <1>4, <2>1, <2>2
<1>6. Agreed(saved)' /\ WellTyped(saved)'
  BY <1>2, <1>3, <1>4 DEF Agreed, WellTyped, Typed, Fit, Sound
<1>7. (\A s \in saving : Agreed(s) /\ WellTyped(s))'
  BY <1>2, <1>3, <1>4 DEF Agreed, WellTyped, Typed, Fit, Sound
<1>8. TypeOK'
  BY <1>5, <1>6, <1>7 DEF IInv, TypeOK, Typed, Expire
<1> QED
  BY <1>5, <1>6, <1>7, <1>8 DEF IInv

\* Where the blackboard becomes a copy of an agreed one.
LEMMA CopyAgrees ==
    ASSUME NEW s, Agreed(s),
           agents' = s.agents, claims' = s.claims, records' = s.records
    PROVE  Agreed(Snapshot)' /\ WellTyped(Snapshot)'
  BY DEF Agreed, WellTyped, Typed, Fit, Sound, Snapshot

LEMMA ResetKeeps ==
    ASSUME IInv, resetForNewMission
    PROVE  IInv'
<1>1. Agreed(Snapshot)' /\ WellTyped(Snapshot)'
  BY NothingAgrees, CopyAgrees DEF resetForNewMission, NoSnapshot
<1>2. TypeOK' /\ Agreed(saved)' /\ (\A s \in saving : Agreed(s))'
  BY <1>1 DEF resetForNewMission, IInv, TypeOK, Agreed, WellTyped, Typed, Fit, Sound
<1> QED
  BY <1>1, <1>2 DEF IInv

LEMMA RestartKeeps ==
    ASSUME IInv, Restart
    PROVE  IInv'
<1>1. Agreed(Snapshot)' /\ WellTyped(Snapshot)'
  BY CopyAgrees DEF Restart, IInv
<1>2. TypeOK'
  BY <1>1, NothingAgrees DEF Restart, IInv, TypeOK, WellTyped, Typed
<1>3. Agreed(saved)' /\ (\A s \in saving : Agreed(s))'
  BY DEF Restart, IInv, Agreed, WellTyped, Typed, Fit, Sound
<1> QED
  BY <1>1, <1>2, <1>3 DEF IInv

LEMMA RegisterKeeps ==
    ASSUME IInv, NEW a \in AgentIds, registerAgent(a)
    PROVE  IInv'
<1>1. Agreed(Snapshot)' /\ WellTyped(Snapshot)'
  BY DEF registerAgent, IInv, Agreed, WellTyped, Typed, Fit, Sound, Snapshot
<1>2. TypeOK' /\ Agreed(saved)' /\ (\A s \in saving : Agreed(s))'
  BY <1>1 DEF registerAgent, IInv, TypeOK, Agreed, WellTyped, Typed, Fit, Sound
<1> QED
  BY <1>1, <1>2 DEF IInv

\* The steps that leave the board alone: calls and snapshots.
LEMMA FilesKeep ==
    ASSUME IInv, UNCHANGED board,
           \A s \in saving' \cup {saved'} : s \in saving \cup {saved, Snapshot},
           Typed(waiting, AgentIds)', saves' \in 0..MaxSaves
    PROVE  IInv'
<1>1. Agreed(Snapshot)' /\ WellTyped(Snapshot)'
  BY CopyAgrees DEF board, Snapshot, IInv
<1>2. \A s \in saving' \cup {saved'} : Agreed(s) /\ WellTyped(s)
  BY DEF IInv, Agreed
<1>3. Agreed(saved)' /\ (\A s \in saving : Agreed(s))'
  BY <1>2 DEF Agreed, WellTyped, Typed, Fit, Sound
<1>4. TypeOK'
  BY <1>1, <1>2 DEF TypeOK, WellTyped, Typed
<1> QED
  BY <1>1, <1>3, <1>4 DEF IInv

LEMMA SubmitKeeps ==
    ASSUME IInv, NEW a \in AgentIds, NEW c \in ClaimIds, submitClaim(a, c)
    PROVE  IInv'
<1>1. DOMAIN waiting \subseteq ClaimIds /\ waiting \in [DOMAIN waiting -> AgentIds]
  BY DEF IInv, TypeOK, Typed
<1>2. Typed(waiting, AgentIds)'
  BY <1>1 DEF submitClaim, Typed
<1> QED
  BY <1>2, FilesKeep DEF submitClaim, board, IInv, TypeOK

LEMMA SavingKeeps ==
    ASSUME IInv, saveSnapshot \/ SnapshotWritten \/ SnapshotFails
    PROVE  IInv'
<1>1. Typed(waiting, AgentIds)'
  BY DEF IInv, TypeOK, Typed, saveSnapshot, SnapshotWritten, SnapshotFails
<1>2. saves \in 0..MaxSaves /\ MaxSaves \in Nat
  BY MaxSavesAssumption DEF IInv, TypeOK
<1>3. CASE saveSnapshot
  BY <1>1, <1>2, <1>3, FilesKeep DEF saveSnapshot, board
<1>4. CASE SnapshotWritten
  BY <1>1, <1>2, <1>4, FilesKeep DEF SnapshotWritten, board
<1>5. CASE SnapshotFails
  BY <1>1, <1>2, <1>5, FilesKeep DEF SnapshotFails, board
<1> QED
  BY <1>3, <1>4, <1>5

LEMMA NextIInv == IInv /\ [Next]_vars => IInv'
<1> SUFFICES ASSUME IInv, [Next]_vars PROVE IInv'
  OBVIOUS
<1>1. CASE \E a \in AgentIds : registerAgent(a)
  BY <1>1, RegisterKeeps
<1>2. CASE \E c \in ClaimIds, a \in AgentIds :
               submitClaim(a, c) \/ verifyClaim(c, a) \/ contestClaim(c, a)
  BY <1>2, SubmitKeeps, VerifyKeeps, ContestKeeps
<1>3. CASE \E c \in ClaimIds : ClaimWritten(c) \/ Expire(c)
  BY <1>3, WrittenKeeps, ExpireKeeps
<1>4. CASE checkTimeouts \/ resetForNewMission \/ Restart
  BY <1>4, TimeoutsKeep, ResetKeeps, RestartKeeps
<1>5. CASE saveSnapshot \/ SnapshotWritten \/ SnapshotFails
  BY <1>5, SavingKeeps
<1>6. CASE UNCHANGED vars
  <2>1. Typed(waiting, AgentIds)' /\ saves' \in 0..MaxSaves
    BY <1>6 DEF vars, IInv, TypeOK, Typed
  <2> QED
    BY <1>6, <2>1, FilesKeep DEF vars, board
<1> QED
  BY <1>1, <1>2, <1>3, <1>4, <1>5, <1>6 DEF Next

LEMMA SpecIInv == Spec => []IInv
<1> QED
  BY InitIInv, NextIInv, PTL DEF Spec

-----------------------------------------------------------------------------
(***************************************************************************)
(* The theorems.                                                           *)
(***************************************************************************)
\* Every variable and every copy of the blackboard keeps its type.
THEOREM ClaimsTyped == Spec => []TypeOK
<1>1. IInv => TypeOK
  BY DEF IInv
<1> QED
  BY <1>1, SpecIInv, PTL

\* applyConsensusDecision never changes a label: the label that the reporter reads is
\* the one of the counts, through every vote, timeout, snapshot and restart.
THEOREM LabelsFollowCounts == Spec => []LabelFollowsCounts
<1>1. IInv => LabelFollowsCounts
  BY DEF IInv, Agreed, Fit, LabelFollowsCounts, Snapshot
<1> QED
  BY <1>1, SpecIInv, PTL

\* Every vote is backed by a review, nobody votes both ways or on a claim of their
\* own, and each claim has its proposal, whatever is saved and restored when.
THEOREM VotesAreReviews == Spec => []VotesMatchReviews
<1>1. IInv => VotesMatchReviews
  BY DEF IInv, Agreed, Fit, VotesMatchReviews, Reviewed, Snapshot
<1> QED
  BY <1>1, SpecIInv, PTL

\* A decision has its quorum and its strict majority of trusted votes.
THEOREM DecisionsAreMajorities == Spec => []DecisionHasMajority
<1>1. ASSUME IInv PROVE DecisionHasMajority
  <2> SUFFICES ASSUME NEW c \in DOMAIN records
               PROVE  LET r == records[c]
                          for == Cardinality(r.approvers \ Distrusted)
                          against == Cardinality(r.rejecters \ Distrusted)
                      IN  /\ r.status = "reached" <=> r.decision # "none"
                          /\ r.decision # "none" => for + against >= Quorum
                          /\ r.decision = "approved" => for > against
                          /\ r.decision = "rejected" => against > for
    BY DEF DecisionHasMajority
  <2>1. records[c] \in Record /\ Sound(records[c])
    BY <1>1 DEF IInv, Agreed, WellTyped, Typed, Fit, Snapshot
  <2>2. records[c].approvers \in SUBSET AgentIds /\ records[c].rejecters \in SUBSET AgentIds
    BY <2>1 DEF Record
  <2> QED
    BY <2>1, <2>2, EvaluateMeans DEF Sound
<1> QED
  BY <1>1, SpecIInv, PTL

-----------------------------------------------------------------------------
(***************************************************************************)
(* Verdicts are final.  Reviews only accumulate, and a closed vote is left *)
(* alone; a claim whose write is queued is not on the board yet.           *)
(***************************************************************************)
Fresh == DOMAIN waiting \cap DOMAIN claims = {}

Final(c) ==
    /\ records[c].status # "voting" =>
          /\ records'[c].status = records[c].status
          /\ records'[c].decision = records[c].decision
          /\ records'[c].approvers = records[c].approvers
          /\ records'[c].rejecters = records[c].rejecters
    /\ claims[c].status = "rejected" => claims'[c].status = "rejected"

LEMMA SpecFresh == Spec => []Fresh
<1>1. Init => Fresh
  BY DEF Init, Nothing, Fresh
<1>2. IInv /\ Fresh /\ [Next]_vars => Fresh'
  <2> SUFFICES ASSUME IInv, Fresh, [Next]_vars PROVE Fresh'
    OBVIOUS
  <2>1. CASE \E c \in ClaimIds, a \in AgentIds : verifyClaim(c, a) \/ contestClaim(c, a)
    <3>1. DOMAIN claims' = DOMAIN claims /\ waiting' = waiting
      BY <2>1 DEF verifyClaim, contestClaim, IInv, TypeOK, WellTyped, Typed, Snapshot
    <3> QED
      BY <3>1 DEF Fresh
  <2>2. CASE \E c \in ClaimIds, a \in AgentIds : submitClaim(a, c)
    BY <2>2 DEF submitClaim, Fresh
  <2>3. CASE \E c \in ClaimIds : ClaimWritten(c)
    BY <2>3 DEF ClaimWritten, Fresh
  <2>4. CASE resetForNewMission
    BY <2>4 DEF resetForNewMission, Nothing, Fresh
  <2>5. CASE Restart
    BY <2>5 DEF Restart, Nothing, Fresh
  <2>6. CASE UNCHANGED <<claims, waiting>>
    BY <2>6 DEF Fresh
  <2> QED
    BY <2>1, <2>2, <2>3, <2>4, <2>5, <2>6
    DEF Next, vars, registerAgent, Expire, checkTimeouts, saveSnapshot, SnapshotWritten,
        SnapshotFails
<1> QED
  BY <1>1, <1>2, SpecIInv, PTL DEF Spec

\* Reviews only add up: a claim that is rejected stays rejected.
LEMMA ReviewIsFinal ==
    ASSUME IInv, NEW c \in DOMAIN claims, NEW a \in AgentIds,
           verifyClaim(c, a) \/ contestClaim(c, a)
    PROVE  Final(c)
<1>1. /\ claims[c] \in Claim /\ records[c] \in Record /\ Fit(claims[c], records[c])
      /\ c \in ClaimIds /\ claims \in [DOMAIN claims -> Claim]
      /\ records \in [DOMAIN claims -> Record]
  BY DEF IInv, Agreed, WellTyped, Typed, Snapshot
<1>2. \E vote \in {"approve", "reject"} : records'[c] = Vote(records[c], a, vote)
  BY <1>1 DEF verifyClaim, contestClaim
<1>3. records[c].status # "voting" => records'[c] = records[c]
  BY <1>1, <1>2, VoteKeeps DEF Fit
<1>4. /\ claims'[c] \in Claim /\ claims'[c].status = Counted(claims'[c])
      /\ claims[c].contestedBy \subseteq claims'[c].contestedBy
  <2>1. claims'[c] \in Claim /\ claims'[c].status = Counted(claims'[c])
    <3>1. IInv'
      BY <1>1, VerifyKeeps, ContestKeeps
    <3>2. c \in DOMAIN claims'
      BY <1>1 DEF verifyClaim, contestClaim
    <3> QED
      BY <3>1, <3>2 DEF IInv, Agreed, WellTyped, Typed, Fit, Snapshot, Counted
  <2>2. claims[c].contestedBy \subseteq claims'[c].contestedBy
    <3>1. CASE verifyClaim(c, a)
      BY <1>1, <3>1 DEF verifyClaim, Judged, Claim
    <3>2. CASE contestClaim(c, a)
      BY <1>1, <3>2 DEF contestClaim, Judged, Claim
    <3> QED
      BY <3>1, <3>2
  <2> QED
    BY <2>1, <2>2
<1>5. /\ Cardinality(claims[c].contestedBy) \in Nat
      /\ Cardinality(claims'[c].contestedBy) \in Nat
      /\ Cardinality(claims[c].verifiedBy) \in Nat
      /\ Cardinality(claims'[c].verifiedBy) \in Nat
      /\ Cardinality(claims[c].contestedBy) <= Cardinality(claims'[c].contestedBy)
  <2>1. /\ claims[c].contestedBy \in SUBSET AgentIds /\ claims'[c].contestedBy \in SUBSET AgentIds
        /\ claims[c].verifiedBy \in SUBSET AgentIds /\ claims'[c].verifiedBy \in SUBSET AgentIds
    BY <1>1, <1>4 DEF Claim
  <2> QED
    BY <1>4, <2>1, CardinalityIsNat, FS_Subset
<1>6. claims[c].status = "rejected" => claims'[c].status = "rejected"
  <2>1. claims[c].status = "rejected" <=> Cardinality(claims[c].contestedBy) >= 2
    BY <1>1, <1>5, LabelType DEF Fit, Counted
  <2>2. claims'[c].status = "rejected" <=> Cardinality(claims'[c].contestedBy) >= 2
    BY <1>4, <1>5, LabelType DEF Counted
  <2> QED
    BY <1>5, <2>1, <2>2
<1> QED
  BY <1>3, <1>6 DEF Final

LEMMA StepIsFinal ==
    ASSUME IInv, Fresh, [Next]_vars
    PROVE  \/ board' = <<saved.agents, saved.claims, saved.records>>
           \/ \A c \in DOMAIN claims \cap DOMAIN claims' : Final(c)
<1>1. /\ DOMAIN records = DOMAIN claims /\ claims \in [DOMAIN claims -> Claim]
      /\ records \in [DOMAIN claims -> Record]
  BY DEF IInv, Agreed, WellTyped, Typed, Snapshot
<1>2. CASE Restart
  BY <1>2 DEF Restart, board
<1>3. CASE resetForNewMission
  BY <1>3 DEF resetForNewMission, Nothing
<1>4. ASSUME NEW c \in ClaimIds, NEW a \in AgentIds, verifyClaim(c, a) \/ contestClaim(c, a)
      PROVE  \A d \in DOMAIN claims \cap DOMAIN claims' : Final(d)
  <2>1. Final(c)
    BY <1>4, ReviewIsFinal DEF verifyClaim, contestClaim
  <2>2. \A d \in DOMAIN claims : d # c => claims'[d] = claims[d] /\ records'[d] = records[d]
    BY <1>1, <1>4 DEF verifyClaim, contestClaim
  <2> QED
    BY <2>1, <2>2 DEF Final
<1>5. ASSUME NEW c \in ClaimIds, ClaimWritten(c)
      PROVE  \A d \in DOMAIN claims \cap DOMAIN claims' : Final(d)
  BY <1>1, <1>5 DEF ClaimWritten, Fresh, Final
<1>6. ASSUME NEW c \in ClaimIds, Expire(c)
      PROVE  \A d \in DOMAIN claims \cap DOMAIN claims' : Final(d)
  BY <1>1, <1>6 DEF Expire, Late, Record, Final
<1>7. CASE checkTimeouts
  BY <1>1, <1>7 DEF checkTimeouts, Final
<1>8. CASE UNCHANGED <<claims, records>>
  BY <1>8 DEF Final
<1> QED
  BY <1>2, <1>3, <1>4, <1>5, <1>6, <1>7, <1>8
  DEF Next, vars, registerAgent, submitClaim, saveSnapshot, SnapshotWritten, SnapshotFails

\* A closed proposal keeps its decision and its votes, and a rejected claim stays
\* rejected, until a restart goes back to the snapshot.
THEOREM VerdictsFinal == Spec => VerdictsAreFinal
<1>1. IInv /\ Fresh /\ [Next]_vars =>
         [\/ board' = <<saved.agents, saved.claims, saved.records>>
          \/ \A c \in DOMAIN claims \cap DOMAIN claims' :
                /\ records[c].status # "voting" =>
                      /\ records'[c].status = records[c].status
                      /\ records'[c].decision = records[c].decision
                      /\ records'[c].approvers = records[c].approvers
                      /\ records'[c].rejecters = records[c].rejecters
                /\ claims[c].status = "rejected" => claims'[c].status = "rejected"]_vars
  BY StepIsFinal DEF Final
<1> QED
  BY <1>1, SpecIInv, SpecFresh, PTL DEF Spec, VerdictsAreFinal
=============================================================================
