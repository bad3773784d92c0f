--------------------------- MODULE EvidenceStore ---------------------------
(***************************************************************************)
(* Signed execution evidence (evidence-store.ts): what the host saw a      *)
(* sandbox do is signed with a key pair that all sessions of the host      *)
(* share, kept with the run, and read again when the run is resumed.  The  *)
(* two halves of the pair are two files, written at the same time.  Each   *)
(* session works on a run of its own; its process may crash.               *)
(***************************************************************************)
EXTENDS Naturals, FiniteSetsExt

CONSTANTS
    Sessions, Findings,
    MaxRecords, MaxCrashes         \* bounds: artifacts, crashes and disposals

EvidenceAssumption == IsFiniteSet(Sessions) /\ MaxRecords \in Nat /\ MaxCrashes \in Nat

VARIABLES
    privateFile, publicFile,   \* the pair each half is of, 0 if there is no such file
    artifacts,                 \* of each run: the files in its directory
    pc,
    seen,                      \* of each session: whether it found the private key, the public key
    pair, keys,                \* of each session: the pair it generated, the halves it read
    loaded,                    \* of each session: the artifacts it knows
    acknowledged,              \* artifacts whose id the agent was given
    records, crashes

evidenceVars == <<privateFile, publicFile, artifacts, pc, seen, pair, keys, loaded, acknowledged, records, crashes>>

Steps == {"closed", "private", "public", "generate", "write", "writePrivate", "writePublic", "read", "open", "failed"}

Init ==
    /\ privateFile = 0 /\ publicFile = 0
    /\ artifacts = [s \in Sessions |-> {}] /\ pc = [s \in Sessions |-> "closed"]
    /\ seen = [s \in Sessions |-> <<FALSE, FALSE>>]
    /\ pair = [s \in Sessions |-> 0] /\ keys = [s \in Sessions |-> <<0, 0>>]
    /\ loaded = [s \in Sessions |-> {}] /\ acknowledged = {} /\ records = 0 /\ crashes = 0

TypeOK ==
    /\ pc \in [Sessions -> Steps] /\ seen \in [Sessions -> BOOLEAN \X BOOLEAN]
    /\ pair \in [Sessions -> Nat] /\ keys \in [Sessions -> Nat \X Nat]
    /\ \A s \in Sessions : \A a \in artifacts[s] \cup loaded[s] : a.run = s /\ a.finding \in Findings
    /\ acknowledged \subseteq UNION {artifacts[s] : s \in Sessions}

-----------------------------------------------------------------------------
Step(s, from, to) == pc[s] = from /\ pc' = [pc EXCEPT ![s] = to]

\* SignedExecutionEvidenceStore.create looks for the two halves, one after the other.
create(s) ==
    /\ Step(s, "closed", "private")
    /\ seen' = [seen EXCEPT ![s] = <<privateFile # 0, FALSE>>]
    /\ UNCHANGED <<privateFile, publicFile, artifacts, pair, keys, loaded, acknowledged, records, crashes>>

PublicExists(s) ==
    /\ Step(s, "private", "public")
    /\ seen' = [seen EXCEPT ![s][2] = publicFile # 0]
    /\ UNCHANGED <<privateFile, publicFile, artifacts, pair, keys, loaded, acknowledged, records, crashes>>

NoPair(s) == ~seen[s][1] /\ ~seen[s][2]
HalfAPair(s) == seen[s][1] # seen[s][2]

Generate(s) ==
    /\ pc[s] = "public"
    /\ pc' = [pc EXCEPT ![s] = IF NoPair(s) THEN "write" ELSE IF HalfAPair(s) THEN "failed" ELSE "read"]
    /\ pair' = [pair EXCEPT ![s] = IF NoPair(s)
          THEN 1 + Max({privateFile, publicFile} \cup {pair[t] : t \in Sessions}) ELSE @]
    /\ UNCHANGED <<privateFile, publicFile, artifacts, seen, keys, loaded, acknowledged, records, crashes>>

\* The halves are written at the same time; one of them is there first.
WritePrivate(s) ==
    /\ pc[s] \in {"write", "writePrivate"} /\ privateFile' = pair[s]
    /\ pc' = [pc EXCEPT ![s] = IF @ = "write" THEN "writePublic" ELSE "read"]
    /\ UNCHANGED <<publicFile, artifacts, seen, pair, keys, loaded, acknowledged, records, crashes>>

WritePublic(s) ==
    /\ pc[s] \in {"write", "writePublic"} /\ publicFile' = pair[s]
    /\ pc' = [pc EXCEPT ![s] = IF @ = "write" THEN "writePrivate" ELSE "read"]
    /\ UNCHANGED <<privateFile, artifacts, seen, pair, keys, loaded, acknowledged, records, crashes>>

\* assertValidSignature
IsValid(a, k) == a.signedWith = k[2]

\* Faulty variant: artifacts that cannot be verified are left out.
OpensWithout(s, k) == k[1] = k[2]

\* The keys are tried against each other, and the artifacts of the run against the keys.
OpensWith(s, k) == k[1] = k[2] /\ \A a \in artifacts[s] : IsValid(a, k)

Opens(s) ==
    LET k == <<privateFile, publicFile>>
    IN  /\ pc[s] = "read" /\ keys' = [keys EXCEPT ![s] = k]
        /\ pc' = [pc EXCEPT ![s] = IF OpensWith(s, k) THEN "open" ELSE "failed"]
        /\ loaded' = [loaded EXCEPT ![s] = IF OpensWith(s, k) THEN {a \in artifacts[s] : IsValid(a, k)} ELSE {}]
        /\ UNCHANGED <<privateFile, publicFile, artifacts, seen, pair, acknowledged, records, crashes>>

\* recordSandboxExecution: signed, written, and then known to the session.
recordSandboxExecution(s, f) ==
    /\ pc[s] = "open" /\ records < MaxRecords /\ records' = records + 1
    /\ LET a == [id |-> records + 1, run |-> s, finding |-> f, signedWith |-> keys[s][1]]
       IN  /\ artifacts' = [artifacts EXCEPT ![s] = @ \cup {a}]
           /\ \/ loaded' = [loaded EXCEPT ![s] = @ \cup {a}] /\ acknowledged' = acknowledged \cup {a} /\ UNCHANGED <<pc, crashes>>
              \/ /\ crashes < MaxCrashes /\ crashes' = crashes + 1
                 /\ pc' = [pc EXCEPT ![s] = "closed"] /\ UNCHANGED <<loaded, acknowledged>>
    /\ UNCHANGED <<privateFile, publicFile, seen, pair, keys>>

\* A crash, or the end of the session.
Close(s) ==
    /\ pc[s] # "closed" /\ crashes < MaxCrashes /\ crashes' = crashes + 1
    /\ pc' = [pc EXCEPT ![s] = "closed"] /\ loaded' = [loaded EXCEPT ![s] = {}]
    /\ UNCHANGED <<privateFile, publicFile, artifacts, seen, pair, keys, acknowledged, records>>

\* verifyForFinding, of artifacts the agent names.
verifyForFinding(s, ids, f) == \A i \in ids :
    \E a \in loaded[s] : a.id = i /\ a.run = s /\ a.finding = f /\ IsValid(a, keys[s])

Next == \E s \in Sessions :
    \/ create(s) \/ PublicExists(s) \/ Generate(s) \/ WritePrivate(s) \/ WritePublic(s) \/ Opens(s)
    \/ \E f \in Findings : recordSandboxExecution(s, f)
    \/ Close(s)

Spec == Init /\ [][Next]_evidenceVars

-----------------------------------------------------------------------------
\* What the agent was told is evidence of a finding is accepted as such by every session that
\* opens the run again, whatever other sessions did to the keys meanwhile, and as evidence of
\* no other finding; an artifact that was written and not acknowledged is one too.
EvidenceIsSound == \A s \in Sessions : pc[s] = "open" =>
    /\ \A a \in acknowledged : a.run = s => verifyForFinding(s, {a.id}, a.finding)
    /\ \A a \in artifacts[s], f \in Findings : verifyForFinding(s, {a.id}, f) => f = a.finding

\* Not so: after a crash between the halves, or with two sessions that generate a pair, no
\* session opens its run.
StoreOpens == \A s \in Sessions : pc[s] # "failed"
=============================================================================
