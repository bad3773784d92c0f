-------------------------- MODULE SharedFilesProofs --------------------------
(***************************************************************************)
(* What is proved of the files that several sessions write, for any number *)
(* of them: the cache of the license, signed evidence, the memory of false *)
(* positives, the semantic index and the transcripts.  As in StorageProofs,*)
(* each part of StorageMC is read alone, with an inductive invariant of    *)
(* its own.                                                                *)
(***************************************************************************)
EXTENDS StorageProofs

-----------------------------------------------------------------------------
(***************************************************************************)
(* The license: what any process knows of a key is not older than the day  *)
(* that it will count.                                                     *)
(***************************************************************************)
\* The license takes its own steps, or none.
LEMMA LicensePart ==
    /\ Init => License!Init
    /\ [Next]_StorageVars => [License!Next]_licenseVars
BY DEF Init, Next, StorageVars, Others

\* Answers, and those that the cache may hold: the service has had the tier since, and they expire within a day.
Answers == [key : Keys \cup {License!NoKey}, tier : License!Tiers, validated : Int, expires : Int]
IsTrue(c) ==
    c.key \in Keys => c.validated <= until[c.key][c.tier] /\ c.expires <= c.validated + License!TTL

LicenseTyped ==
    /\ License!TypeOK /\ cache \in Answers
    /\ licenseSeen \in [Processes -> Answers] /\ entry \in [Processes -> Answers]
    /\ result \in [Processes -> [allowed : BOOLEAN, tier : License!Tiers]]

\* Whatever tier a check knows is of the last days.
Recent ==
    /\ \A k \in Keys : until[k][granted[k]] = time /\ \A t \in License!Tiers : until[k][t] <= time
    /\ IsTrue(cache) /\ \A p \in Processes : IsTrue(licenseSeen[p]) /\ IsTrue(entry[p])
    /\ \A p \in Processes :
          /\ now[p] <= time
          /\ licensePc[p] # "idle" => licenseKey[p] \in Keys
          /\ licensePc[p] = "write" => entry[p].key = licenseKey[p] /\ entry[p].validated >= now[p]
    /\ License!LicenceIsRecent

\* A check ends with an answer of its key.
LEMMA LicenseEnds ==
  ASSUME LicenseTyped, Recent, NEW p \in Processes, NEW t \in License!Tiers, License!Ends(p, t),
         licensePc[p] # "idle", UNCHANGED <<time, granted, until, licenseKey, request, now>>,
         t # "free" => now[p] - until[licenseKey[p]][t] < License!Grace
  PROVE  /\ licensePc' \in [Processes -> {"idle", "read", "ask", "write"}]
         /\ result' \in [Processes -> [allowed : BOOLEAN, tier : License!Tiers]]
         /\ \A q \in Processes : licensePc'[q] = IF q = p THEN "idle" ELSE licensePc[q]
         /\ License!LicenceIsRecent'
<1>1. /\ licensePc' = [licensePc EXCEPT ![p] = "idle"]
      /\ result' = [result EXCEPT ![p] = [allowed |-> License!allows(t, request[p]), tier |-> t]]
  BY DEF License!Ends
<1>2. License!allows(t, request[p]) \in BOOLEAN /\ (License!allows(t, request[p]) => t # "free")
  BY DEF License!allows
<1>3. /\ licensePc' \in [Processes -> {"idle", "read", "ask", "write"}]
      /\ result' \in [Processes -> [allowed : BOOLEAN, tier : License!Tiers]]
      /\ \A q \in Processes : licensePc'[q] = IF q = p THEN "idle" ELSE licensePc[q]
      /\ \A q \in Processes : q # p => result'[q] = result[q]
      /\ result'[p].tier = t /\ (result'[p].allowed => t # "free")
  BY <1>1, <1>2 DEF LicenseTyped, License!TypeOK
<1>4. ASSUME NEW q \in Processes, licensePc'[q] = "idle", licenseKey[q] # License!NoKey
      PROVE  /\ result'[q].tier # "free" => now[q] - until[licenseKey[q]][result'[q].tier] < License!Grace
             /\ result'[q].allowed /\ License!isGated(request[q]) => result'[q].tier # "free"
  <2>1. CASE q = p
    BY <2>1, <1>3
  <2>2. CASE q # p
    BY <2>2, <1>3, <1>4 DEF Recent, License!LicenceIsRecent
  <2> QED
    BY <2>1, <2>2
<1>5. License!LicenceIsRecent'
  BY <1>4 DEF License!LicenceIsRecent, License!isGated
<1> QED
  BY <1>3, <1>5

LEMMA LicenseStep == LicenseTyped /\ Recent /\ [License!Next]_licenseVars => LicenseTyped' /\ Recent'
<1> SUFFICES ASSUME LicenseTyped, Recent, [License!Next]_licenseVars PROVE LicenseTyped' /\ Recent'
  OBVIOUS
<1> USE DEF License!Tiers, License!NoKey, License!TTL, License!Grace
<1>0. /\ License!NoKey \notin Keys /\ MaxTime \in Nat /\ \A r \in Requests : r[2] \in BOOLEAN
  BY StorageAssumption DEF License!LicenceAssumption
<1>1. CASE License!Tick
  <2>1. /\ time' = time + 1 /\ time' \in 0..MaxTime
        /\ until' = [k \in Keys |-> [until[k] EXCEPT ![granted[k]] = time']]
        /\ UNCHANGED <<granted, cache, licensePc, licenseKey, request, now, licenseSeen, entry, result>>
    BY <1>1, <1>0 DEF License!Tick, LicenseTyped, License!TypeOK
  <2>2. until' \in [Keys -> [License!Tiers -> (-1)..MaxTime]]
    BY <2>1 DEF LicenseTyped, License!TypeOK
  <2>3. \A k \in Keys, t \in License!Tiers : until'[k][t] = IF t = granted[k] THEN time' ELSE until[k][t]
    BY <2>1 DEF LicenseTyped, License!TypeOK
  <2>4. \A k \in Keys, t \in License!Tiers : until[k][t] <= until'[k][t] /\ until'[k][t] <= time'
                                             /\ until[k][t] \in Int /\ until'[k][t] \in Int
    BY <2>1, <2>2, <2>3 DEF LicenseTyped, License!TypeOK, Recent
  <2>5. LicenseTyped'
    BY <2>1, <2>2 DEF LicenseTyped, License!TypeOK
  <2>6. \A k \in Keys : until'[k][granted[k]] = time'
    BY <2>3 DEF LicenseTyped, License!TypeOK
  <2>7. \A c \in Answers : IsTrue(c) => (c.key \in Keys => c.validated <= until'[c.key][c.tier] /\ c.expires <= c.validated + License!TTL)
    BY <2>4 DEF IsTrue, Answers
  <2>8. License!LicenceIsRecent'
    BY <2>1, <2>4 DEF LicenseTyped, License!TypeOK, Recent, License!LicenceIsRecent, License!isGated
  <2>9. \A p \in Processes : now'[p] <= time'
    BY <2>1 DEF Recent, LicenseTyped, License!TypeOK
  <2> QED
    BY <2>1, <2>4, <2>5, <2>6, <2>7, <2>8, <2>9 DEF Recent, IsTrue, LicenseTyped
<1>2. ASSUME NEW k \in Keys, NEW t \in License!Tiers, License!Change(k, t) PROVE LicenseTyped' /\ Recent'
  <2>1. /\ granted' = [granted EXCEPT ![k] = t] /\ until' = [until EXCEPT ![k][t] = time]
        /\ UNCHANGED <<time, cache, licensePc, licenseKey, request, now, licenseSeen, entry, result>>
    BY <1>2 DEF License!Change
  <2>2. until' \in [Keys -> [License!Tiers -> (-1)..MaxTime]] /\ granted' \in [Keys -> License!Tiers]
    BY <2>1, <1>0 DEF LicenseTyped, License!TypeOK
  <2>3. \A j \in Keys, u \in License!Tiers : until'[j][u] = IF j = k /\ u = t THEN time ELSE until[j][u]
    BY <2>1 DEF LicenseTyped, License!TypeOK
  <2>4. \A j \in Keys, u \in License!Tiers : until[j][u] <= until'[j][u] /\ until'[j][u] <= time
                                             /\ until[j][u] \in Int /\ until'[j][u] \in Int
    BY <2>1, <2>2, <2>3 DEF LicenseTyped, License!TypeOK, Recent
  <2>5. LicenseTyped'
    BY <2>1, <2>2 DEF LicenseTyped, License!TypeOK
  <2>6. \A j \in Keys : until'[j][granted'[j]] = time
    BY <2>1, <2>3 DEF LicenseTyped, License!TypeOK, Recent
  <2>7. \A c \in Answers : IsTrue(c) => (c.key \in Keys => c.validated <= until'[c.key][c.tier] /\ c.expires <= c.validated + License!TTL)
    BY <2>4 DEF IsTrue, Answers
  <2>8. License!LicenceIsRecent'
    BY <2>1, <2>4 DEF LicenseTyped, License!TypeOK, Recent, License!LicenceIsRecent, License!isGated
  <2> QED
    BY <2>1, <2>4, <2>5, <2>6, <2>7, <2>8 DEF Recent, IsTrue, LicenseTyped
<1>3. ASSUME NEW p \in Processes, License!readCache(p) PROVE LicenseTyped' /\ Recent'
  <2>1. /\ licensePc[p] = "read" /\ licenseKey[p] \in Keys /\ now[p] \in Int
        /\ UNCHANGED <<time, granted, until, cache, licenseKey, request, now, entry>>
    BY <1>3 DEF License!readCache, Recent, LicenseTyped, License!TypeOK
  <2>2. CASE License!IsFor(cache, licenseKey[p]) /\ now[p] < cache.expires
    <3>1. License!Ends(p, cache.tier) /\ UNCHANGED licenseSeen
      BY <1>3, <2>2 DEF License!readCache
    <3>2. cache.tier \in License!Tiers /\ now[p] - until[licenseKey[p]][cache.tier] < License!Grace
      BY <2>1, <2>2 DEF License!IsFor, Recent, IsTrue, LicenseTyped, Answers, License!TypeOK
    <3>3. /\ licensePc' \in [Processes -> {"idle", "read", "ask", "write"}]
          /\ result' \in [Processes -> [allowed : BOOLEAN, tier : License!Tiers]]
          /\ \A q \in Processes : licensePc'[q] = IF q = p THEN "idle" ELSE licensePc[q]
          /\ License!LicenceIsRecent'
      BY <2>1, <3>1, <3>2, LicenseEnds
    <3> QED
      BY <2>1, <3>1, <3>3 DEF LicenseTyped, License!TypeOK, Recent, IsTrue
  <2>3. CASE ~(License!IsFor(cache, licenseKey[p]) /\ now[p] < cache.expires)
    <3>1. /\ licensePc' = [licensePc EXCEPT ![p] = "ask"] /\ licenseSeen' = [licenseSeen EXCEPT ![p] = cache]
          /\ UNCHANGED result
      BY <1>3, <2>3 DEF License!readCache
    <3>2. LicenseTyped'
      BY <2>1, <3>1 DEF LicenseTyped, License!TypeOK
    <3>3. Recent'
      BY <2>1, <3>1, <3>2 DEF LicenseTyped, License!TypeOK, Recent, IsTrue, License!LicenceIsRecent, License!isGated
    <3> QED
      BY <3>2, <3>3
  <2> QED
    BY <2>2, <2>3
<1>4. ASSUME NEW p \in Processes, License!Answer(p) PROVE LicenseTyped' /\ Recent'
  <2> DEFINE e == [key |-> licenseKey[p], tier |-> granted[licenseKey[p]], validated |-> time,
                   expires |-> now[p] + License!TTL]
  <2>1. /\ licensePc[p] = "ask" /\ licensePc' = [licensePc EXCEPT ![p] = "write"]
        /\ licenseSeen' = [licenseSeen EXCEPT ![p] = License!NoCache] /\ entry' = [entry EXCEPT ![p] = e]
        /\ licenseKey[p] \in Keys
        /\ UNCHANGED <<time, granted, until, cache, licenseKey, request, now, result>>
    BY <1>4 DEF License!Answer, Recent
  <2>2. e \in Answers /\ License!NoCache \in Answers /\ License!NoCache.key \notin Keys
    BY <2>1, <1>0 DEF LicenseTyped, License!TypeOK, Answers, License!NoCache
  <2>3. LicenseTyped'
    BY <2>1, <2>2 DEF LicenseTyped, License!TypeOK
  <2>4. IsTrue(e) /\ e.validated >= now[p]
    BY <2>1, <1>0 DEF LicenseTyped, License!TypeOK, IsTrue, Recent
  <2>5. Recent'
    BY <2>1, <2>2, <2>3, <2>4 DEF LicenseTyped, License!TypeOK, Recent, IsTrue, License!LicenceIsRecent, License!isGated
  <2> QED
    BY <2>3, <2>5
<1>5. ASSUME NEW p \in Processes, License!NoAnswer(p) PROVE LicenseTyped' /\ Recent'
  <2> DEFINE t == IF License!IsFor(licenseSeen[p], licenseKey[p]) /\ License!IsInGrace(p) THEN licenseSeen[p].tier ELSE "free"
  <2>1. /\ licensePc[p] = "ask" /\ License!Ends(p, t) /\ licenseKey[p] \in Keys
        /\ licenseSeen' = [licenseSeen EXCEPT ![p] = License!NoCache]
        /\ UNCHANGED <<time, granted, until, cache, licenseKey, request, now, entry>>
    BY <1>5 DEF License!NoAnswer, Recent
  <2>2. t \in License!Tiers
    BY DEF LicenseTyped, Answers
  <2>3. t # "free" => now[p] - until[licenseKey[p]][t] < License!Grace
    BY <2>1, <2>2 DEF License!IsFor, License!IsInGrace, Recent, IsTrue, LicenseTyped, Answers, License!TypeOK
  <2>4. /\ licensePc' \in [Processes -> {"idle", "read", "ask", "write"}]
        /\ result' \in [Processes -> [allowed : BOOLEAN, tier : License!Tiers]]
        /\ \A q \in Processes : licensePc'[q] = IF q = p THEN "idle" ELSE licensePc[q]
        /\ License!LicenceIsRecent'
    BY <2>1, <2>2, <2>3, LicenseEnds
  <2>5. License!NoCache \in Answers /\ License!NoCache.key \notin Keys
    BY <1>0 DEF Answers, License!NoCache
  <2>6. LicenseTyped'
    BY <2>1, <2>4, <2>5 DEF LicenseTyped, License!TypeOK
  <2> QED
    BY <2>1, <2>4, <2>5, <2>6 DEF LicenseTyped, License!TypeOK, Recent, IsTrue
<1>6. ASSUME NEW p \in Processes, License!writeCache(p) PROVE LicenseTyped' /\ Recent'
  <2>1. /\ licensePc[p] = "write" /\ License!Ends(p, entry[p].tier) /\ licenseKey[p] \in Keys
        /\ cache' \in {cache, entry[p]} /\ entry' = [entry EXCEPT ![p] = License!NoCache]
        /\ UNCHANGED <<time, granted, until, licenseKey, request, now, licenseSeen>>
    BY <1>6 DEF License!writeCache, Recent
  <2>2. entry[p].tier \in License!Tiers /\ now[p] - until[licenseKey[p]][entry[p].tier] < License!Grace
    BY <2>1 DEF Recent, IsTrue, LicenseTyped, Answers, License!TypeOK
  <2>3. /\ licensePc' \in [Processes -> {"idle", "read", "ask", "write"}]
        /\ result' \in [Processes -> [allowed : BOOLEAN, tier : License!Tiers]]
        /\ \A q \in Processes : licensePc'[q] = IF q = p THEN "idle" ELSE licensePc[q]
        /\ License!LicenceIsRecent'
    BY <2>1, <2>2, LicenseEnds
  <2>4. License!NoCache \in Answers /\ License!NoCache.key \notin Keys
    BY <1>0 DEF Answers, License!NoCache
  <2>5. cache' \in Answers
    BY <2>1 DEF LicenseTyped
  <2>6. LicenseTyped'
    BY <2>1, <2>3, <2>4, <2>5 DEF LicenseTyped, License!TypeOK, Answers
  <2> QED
    BY <2>1, <2>3, <2>4, <2>6 DEF LicenseTyped, License!TypeOK, Recent, IsTrue
<1>7. ASSUME NEW p \in Processes, NEW k \in Keys \cup {License!NoKey}, NEW r \in Requests,
             License!enforceLicenseGate(p, k, r)
      PROVE  LicenseTyped' /\ Recent'
  <2>1. /\ licensePc[p] = "idle" /\ licenseKey' = [licenseKey EXCEPT ![p] = k]
        /\ request' = [request EXCEPT ![p] = r] /\ now' = [now EXCEPT ![p] = time]
        /\ UNCHANGED <<time, granted, until, cache, licenseSeen, entry>>
    BY <1>7 DEF License!enforceLicenseGate
  <2>2. CASE License!isGated(r) /\ k # License!NoKey
    <3>1. licensePc' = [licensePc EXCEPT ![p] = "read"] /\ UNCHANGED result
      BY <1>7, <2>2 DEF License!enforceLicenseGate
    <3>2. LicenseTyped'
      BY <2>1, <3>1 DEF LicenseTyped, License!TypeOK
    <3>3. Recent'
      BY <2>1, <2>2, <3>1, <3>2, <1>0 DEF LicenseTyped, License!TypeOK, Recent, IsTrue, License!LicenceIsRecent, License!isGated
    <3> QED
      BY <3>2, <3>3
  <2>3. CASE ~(License!isGated(r) /\ k # License!NoKey)
    <3>1. UNCHANGED licensePc /\ result' = [result EXCEPT ![p] = [License!NoResult EXCEPT !.allowed = ~License!isGated(r)]]
      BY <1>7, <2>3 DEF License!enforceLicenseGate
    <3>2. License!isGated(r) \in BOOLEAN
      BY <1>0 DEF License!isGated
    <3>3. /\ [License!NoResult EXCEPT !.allowed = ~License!isGated(r)] \in [allowed : BOOLEAN, tier : License!Tiers]
          /\ [License!NoResult EXCEPT !.allowed = ~License!isGated(r)].tier = "free"
          /\ [License!NoResult EXCEPT !.allowed = ~License!isGated(r)].allowed = ~License!isGated(r)
      BY <3>2 DEF License!NoResult
    <3>4. LicenseTyped'
      BY <2>1, <3>1, <3>3 DEF LicenseTyped, License!TypeOK
    <3>5. License!LicenceIsRecent'
      BY <2>1, <2>3, <3>1, <3>3 DEF LicenseTyped, License!TypeOK, Recent, License!LicenceIsRecent, License!isGated
    <3>6. Recent'
      BY <2>1, <3>1, <3>4, <3>5 DEF LicenseTyped, License!TypeOK, Recent, IsTrue
    <3> QED
      BY <3>4, <3>6
  <2> QED
    BY <2>2, <2>3
<1>8. CASE UNCHANGED licenseVars
  <2>1. LicenseTyped'
    BY <1>8 DEF licenseVars, LicenseTyped, License!TypeOK
  <2> QED
    BY <1>8, <2>1 DEF licenseVars, Recent, IsTrue, License!LicenceIsRecent, License!isGated
<1> QED
  BY <1>1, <1>2, <1>3, <1>4, <1>5, <1>6, <1>7, <1>8 DEF License!Next

LEMMA LicenseBegins == License!Init => LicenseTyped /\ Recent
<1> SUFFICES ASSUME License!Init PROVE LicenseTyped /\ Recent
  OBVIOUS
<1>0. /\ License!NoKey \notin Keys /\ MaxTime \in Nat /\ Requests # {} /\ Grants \subseteq [Keys -> License!Tiers]
  BY StorageAssumption DEF License!LicenceAssumption
<1>1. License!NoCache \in Answers /\ License!NoCache.key \notin Keys
  BY <1>0 DEF Answers, License!NoCache, License!Tiers
<1>2. granted \in [Keys -> License!Tiers] /\ until \in [Keys -> [License!Tiers -> (-1)..MaxTime]]
  BY <1>0 DEF License!Init
<1>3. (CHOOSE r \in Requests : TRUE) \in Requests
  BY <1>0
<1>4. LicenseTyped
  BY <1>0, <1>1, <1>2, <1>3 DEF License!Init, LicenseTyped, License!TypeOK, License!NoCache, License!NoResult, License!Tiers, License!NoKey
<1> QED
  BY <1>0, <1>1, <1>2, <1>4 DEF License!Init, Recent, IsTrue, License!LicenceIsRecent, License!NoKey, License!NoResult

LEMMA LicenseHolds == Spec => [](LicenseTyped /\ Recent)
<1>1. Init => LicenseTyped /\ Recent
  BY LicensePart, LicenseBegins
<1>2. LicenseTyped /\ Recent /\ [Next]_StorageVars => (LicenseTyped /\ Recent)'
  BY LicensePart, LicenseStep
<1> QED
  BY <1>1, <1>2, PTL DEF Spec, StorageVars

\* Whatever answers overwrite one another in the cache, and however long the service is silent: the tier that a
\* check of the license ends with is one that the service had for that key less than three days before.
THEOREM LicencesAreRecent == Spec => []LicenceIsRecent
<1>1. Recent => LicenceIsRecent
  BY DEF Recent, LicenceIsRecent
<1> QED
  BY <1>1, LicenseHolds, PTL

-----------------------------------------------------------------------------
(***************************************************************************)
(* Evidence: a session that is open knows every artifact of its run, and   *)
(* all of them are signed with the pair it has.                            *)
(***************************************************************************)
\* Evidence takes its own steps, or none.
LEMMA EvidencePart ==
    /\ Init => Evidence!Init
    /\ [Next]_StorageVars => [Evidence!Next]_evidenceVars
BY DEF Init, Next, StorageVars, Others

\* A finite set of numbers that is not empty has a greatest element.
LEMMA GreatestExists ==
  ASSUME NEW S \in SUBSET Nat, S # {}, IsFiniteSet(S)
  PROVE  \E x \in S : \A y \in S : x >= y
<1> DEFINE Bad(T) == T # {} /\ \A x \in T : \E y \in T : ~(x >= y)
           Sizes == {n \in Nat : \E T \in SUBSET S : Bad(T) /\ Cardinality(T) = n}
<1> SUFFICES ASSUME Bad(S) PROVE FALSE
  OBVIOUS
<1>1. Cardinality(S) \in Sizes
  BY FS_CardinalityType
<1>2. PICK n \in Sizes : \A m \in Sizes : n <= m
  BY <1>1, LeastExists
<1>3. PICK T \in SUBSET S : Bad(T) /\ Cardinality(T) = n
  BY <1>2
<1>a. n \in Nat
  BY <1>2
<1>4. PICK x \in T : TRUE
  BY <1>3
<1>5. IsFiniteSet(T) /\ Cardinality(T) \in Nat
  BY FS_Subset, FS_CardinalityType
<1>6. Cardinality(T \ {x}) = Cardinality(T) - 1 /\ IsFiniteSet(T \ {x})
  BY <1>4, <1>5, FS_RemoveElement
<1>7. ~Bad(T \ {x})
  <2> SUFFICES ASSUME Bad(T \ {x}) PROVE FALSE
    OBVIOUS
  <2>1. Cardinality(T \ {x}) \in Nat
    BY <1>6, FS_CardinalityType
  <2>2. Cardinality(T \ {x}) \in Sizes
    BY <2>1
  <2>3. n <= Cardinality(T \ {x}) /\ Cardinality(T \ {x}) = n - 1
    BY <1>2, <1>3, <1>6, <2>2
  <2> QED
    BY <1>a, <2>3
<1>8. CASE T \ {x} = {}
  BY <1>3, <1>4, <1>8
<1>9. CASE T \ {x} # {}
  <2>1. PICK m \in T \ {x} : \A y \in T \ {x} : m >= y
    BY <1>7, <1>9
  <2>2. m \in Nat /\ x \in Nat /\ \A y \in T : y \in Nat
    BY <1>4, <2>1
  <2>3. \A y \in T : (IF m >= x THEN m ELSE x) >= y
    BY <2>1, <2>2
  <2> QED
    BY <1>3, <1>4, <2>1, <2>3
<1> QED
  BY <1>8, <1>9

Artifacts == [id : Nat, run : Sessions, finding : Findings, signedWith : Nat]

EvidenceTyped ==
    /\ Evidence!TypeOK /\ privateFile \in Nat /\ publicFile \in Nat /\ evidenceRecords \in Nat
    /\ artifacts \in [Sessions -> SUBSET Artifacts]
    /\ loaded \in [Sessions -> SUBSET Artifacts]

\* Artifacts of a run are told apart by their ids, and those that were acknowledged are in their run.
Filed ==
    /\ \A s \in Sessions : \A a \in artifacts[s] : a.run = s /\ a.id \in 1..evidenceRecords
    /\ \A s \in Sessions : \A a, b \in artifacts[s] : a.id = b.id => a = b
    /\ \A a \in evidenceAcknowledged : a.run \in Sessions /\ a \in artifacts[a.run]

\* What an open session knows.
Verifiable == \A s \in Sessions : evidencePc[s] = "open" =>
    /\ keys[s][1] = keys[s][2] /\ loaded[s] = artifacts[s]
    /\ \A a \in artifacts[s] : a.signedWith = keys[s][2]

\* The pair that a session generates has a number.
LEMMA PairIsNew ==
  ASSUME EvidenceTyped
  PROVE  1 + Evidence!Max({privateFile, publicFile} \cup {pair[t] : t \in Sessions}) \in Nat
<1> DEFINE P == {pair[t] : t \in Sessions}
           S == {privateFile, publicFile} \cup P
<1>1. IsFiniteSet(Sessions)
  BY StorageAssumption DEF Evidence!EvidenceAssumption, IsFiniteSet, Evidence!IsFiniteSet
<1>2. pair \in Surjection(Sessions, P)
  BY DEF EvidenceTyped, Evidence!TypeOK, Surjection
<1>3. IsFiniteSet(P)
  BY <1>1, <1>2, FS_Surjection
<1>4. IsFiniteSet(P \cup {privateFile})
  BY <1>3, FS_AddElement
<1>5. IsFiniteSet((P \cup {privateFile}) \cup {publicFile})
  BY <1>4, FS_AddElement
<1>6. S = (P \cup {privateFile}) \cup {publicFile}
  OBVIOUS
<1>7. S \in SUBSET Nat /\ S # {} /\ IsFiniteSet(S)
  <2>1. P \subseteq Nat
    BY DEF EvidenceTyped, Evidence!TypeOK
  <2>2. privateFile \in Nat /\ publicFile \in Nat
    BY DEF EvidenceTyped
  <2> QED
    BY <1>5, <1>6, <2>1, <2>2
<1>8. \E x \in S : \A y \in S : x >= y
  BY <1>7, GreatestExists
<1>9. Evidence!Max(S) \in S
  BY <1>8 DEF Evidence!Max
<1> QED
  BY <1>7, <1>9

\* A step that writes no artifact, and does not open the session.
LEMMA EvidenceQuiet ==
  ASSUME EvidenceTyped, Filed, Verifiable, NEW s \in Sessions, NEW t \in Evidence!Steps \ {"open"},
         evidencePc' = [evidencePc EXCEPT ![s] = t],
         evidenceSeen' \in [Sessions -> BOOLEAN \X BOOLEAN], pair' \in [Sessions -> Nat],
         privateFile' \in Nat, publicFile' \in Nat, loaded' \in {loaded, [loaded EXCEPT ![s] = {}]},
         UNCHANGED <<artifacts, keys, evidenceAcknowledged, evidenceRecords>>
  PROVE  EvidenceTyped' /\ Filed' /\ Verifiable'
<1>1. evidencePc' \in [Sessions -> Evidence!Steps] /\ \A u \in Sessions : evidencePc'[u] = "open" => u # s /\ evidencePc[u] = "open"
  BY DEF EvidenceTyped, Evidence!TypeOK
<1>2. loaded' \in [Sessions -> SUBSET Artifacts] /\ \A u \in Sessions : loaded'[u] \subseteq loaded[u] /\ (u # s => loaded'[u] = loaded[u])
  BY DEF EvidenceTyped
<1>7. \A u \in Sessions : \A a \in artifacts'[u] \cup loaded'[u] : a.run = u /\ a.finding \in Findings
  BY <1>2, Zenon DEF EvidenceTyped, Evidence!TypeOK
<1>5. Filed'
  BY DEF Filed
<1>8. evidenceAcknowledged' \subseteq UNION {artifacts'[u] : u \in Sessions}
  BY <1>5 DEF Filed
<1>9. keys' \in [Sessions -> Nat \X Nat]
  BY DEF EvidenceTyped, Evidence!TypeOK
<1>3. Evidence!TypeOK'
  BY <1>1, <1>7, <1>8, <1>9, Zenon DEF Evidence!TypeOK
<1>4. EvidenceTyped'
  BY <1>2, <1>3 DEF EvidenceTyped
<1>6. Verifiable'
  BY <1>1, <1>2 DEF Verifiable
<1> QED
  BY <1>4, <1>5, <1>6

LEMMA EvidenceStep ==
  EvidenceTyped /\ Filed /\ Verifiable /\ [Evidence!Next]_evidenceVars => EvidenceTyped' /\ Filed' /\ Verifiable'
<1> SUFFICES ASSUME EvidenceTyped, Filed, Verifiable, [Evidence!Next]_evidenceVars
    PROVE  EvidenceTyped' /\ Filed' /\ Verifiable'
  OBVIOUS
<1>0. /\ evidenceSeen \in [Sessions -> BOOLEAN \X BOOLEAN] /\ pair \in [Sessions -> Nat]
      /\ privateFile \in Nat /\ publicFile \in Nat
      /\ {"private", "public", "write", "failed", "read", "writePublic", "writePrivate", "closed"} \subseteq Evidence!Steps \ {"open"}
  BY DEF EvidenceTyped, Evidence!TypeOK, Evidence!Steps
<1>1. ASSUME NEW s \in Sessions, Evidence!create(s) PROVE EvidenceTyped' /\ Filed' /\ Verifiable'
  <2> DEFINE b == (privateFile # 0)
  <2>1. evidenceSeen' = [evidenceSeen EXCEPT ![s] = <<b, FALSE>>] /\ <<b, FALSE>> \in BOOLEAN \X BOOLEAN
    BY <1>1 DEF Evidence!create
  <2>2. evidenceSeen' \in [Sessions -> BOOLEAN \X BOOLEAN]
    BY <1>0, <2>1, Zenon
  <2>3. /\ evidencePc' = [evidencePc EXCEPT ![s] = "private"]
        /\ UNCHANGED <<privateFile, publicFile, artifacts, pair, keys, loaded, evidenceAcknowledged, evidenceRecords>>
    BY <1>1 DEF Evidence!create, Evidence!Step
  <2> QED
    BY <1>0, <2>2, <2>3, EvidenceQuiet
<1>2. ASSUME NEW s \in Sessions, Evidence!PublicExists(s) PROVE EvidenceTyped' /\ Filed' /\ Verifiable'
  <2> DEFINE b == (publicFile # 0)
  <2>1. evidenceSeen' = [evidenceSeen EXCEPT ![s] = [evidenceSeen[s] EXCEPT ![2] = b]]
    BY <1>0, <1>2 DEF Evidence!PublicExists
  <2>a. \A p \in BOOLEAN \X BOOLEAN : \A c \in BOOLEAN : [p EXCEPT ![2] = c] \in BOOLEAN \X BOOLEAN
    OBVIOUS
  <2>b. evidenceSeen[s] \in BOOLEAN \X BOOLEAN /\ b \in BOOLEAN
    BY <1>0
  <2>c. [evidenceSeen[s] EXCEPT ![2] = b] \in BOOLEAN \X BOOLEAN
    BY <2>a, <2>b, Zenon
  <2>2. evidenceSeen' \in [Sessions -> BOOLEAN \X BOOLEAN]
    BY <1>0, <2>1, <2>c, Zenon
  <2>3. /\ evidencePc' = [evidencePc EXCEPT ![s] = "public"]
        /\ UNCHANGED <<privateFile, publicFile, artifacts, pair, keys, loaded, evidenceAcknowledged, evidenceRecords>>
    BY <1>2 DEF Evidence!PublicExists, Evidence!Step
  <2> QED
    BY <1>0, <2>2, <2>3, EvidenceQuiet
<1>3. ASSUME NEW s \in Sessions, Evidence!Generate(s) PROVE EvidenceTyped' /\ Filed' /\ Verifiable'
  <2>1. PICK t \in {"write", "failed", "read"} : evidencePc' = [evidencePc EXCEPT ![s] = t]
    BY <1>3 DEF Evidence!Generate
  <2>2. /\ UNCHANGED <<privateFile, publicFile, artifacts, evidenceSeen, keys, loaded, evidenceAcknowledged, evidenceRecords>>
        /\ pair' \in [Sessions -> Nat]
    BY <1>0, <1>3, PairIsNew DEF Evidence!Generate
  <2> QED
    BY <1>0, <2>1, <2>2, EvidenceQuiet
<1>4. ASSUME NEW s \in Sessions, Evidence!WritePrivate(s) \/ Evidence!WritePublic(s)
      PROVE  EvidenceTyped' /\ Filed' /\ Verifiable'
  <2>1. PICK t \in {"writePublic", "writePrivate", "read"} : evidencePc' = [evidencePc EXCEPT ![s] = t]
    BY <1>4 DEF Evidence!WritePrivate, Evidence!WritePublic
  <2>2. /\ UNCHANGED <<artifacts, evidenceSeen, pair, keys, loaded, evidenceAcknowledged, evidenceRecords>>
        /\ privateFile' \in Nat /\ publicFile' \in Nat
    BY <1>0, <1>4 DEF Evidence!WritePrivate, Evidence!WritePublic
  <2> QED
    BY <1>0, <2>1, <2>2, EvidenceQuiet
<1>6. ASSUME NEW s \in Sessions, Evidence!Close(s) PROVE EvidenceTyped' /\ Filed' /\ Verifiable'
  <2>1. /\ evidencePc' = [evidencePc EXCEPT ![s] = "closed"] /\ loaded' = [loaded EXCEPT ![s] = {}]
        /\ UNCHANGED <<privateFile, publicFile, artifacts, evidenceSeen, pair, keys, evidenceAcknowledged, evidenceRecords>>
    BY <1>6 DEF Evidence!Close
  <2> QED
    BY <1>0, <2>1, EvidenceQuiet
<1>8. ASSUME NEW s \in Sessions, Evidence!Opens(s) PROVE EvidenceTyped' /\ Filed' /\ Verifiable'
  <2> DEFINE k == <<privateFile, publicFile>>
  <2>1. /\ keys' = [keys EXCEPT ![s] = k]
        /\ evidencePc' = [evidencePc EXCEPT ![s] = IF Evidence!OpensWith(s, k) THEN "open" ELSE "failed"]
        /\ loaded' = [loaded EXCEPT ![s] = IF Evidence!OpensWith(s, k)
              THEN {a \in artifacts[s] : Evidence!IsValid(a, k)} ELSE {}]
        /\ UNCHANGED <<privateFile, publicFile, artifacts, evidenceSeen, pair, evidenceAcknowledged, evidenceRecords>>
    BY <1>8 DEF Evidence!Opens
  <2>2. k \in Nat \X Nat /\ k[1] = privateFile /\ k[2] = publicFile
    BY DEF EvidenceTyped
  <2>3. /\ loaded' \in [Sessions -> SUBSET Artifacts] /\ keys' \in [Sessions -> Nat \X Nat]
        /\ evidencePc' \in [Sessions -> Evidence!Steps]
    BY <2>1, <2>2 DEF EvidenceTyped, Evidence!TypeOK, Evidence!Steps
  <2>4. \A t \in Sessions : /\ loaded'[t] \subseteq IF t = s THEN artifacts[t] ELSE loaded[t]
                            /\ t # s => /\ loaded'[t] = loaded[t] /\ keys'[t] = keys[t]
                                        /\ evidencePc'[t] = evidencePc[t]
    BY <2>1 DEF EvidenceTyped, Evidence!TypeOK
  <2>a. \A u \in Sessions : \A a \in artifacts'[u] \cup loaded'[u] : a.run = u /\ a.finding \in Findings
    <3>1. \A u \in Sessions : \A a \in artifacts[u] \cup loaded[u] : a.run = u /\ a.finding \in Findings
      BY DEF EvidenceTyped, Evidence!TypeOK
    <3>2. artifacts' = artifacts /\ \A u \in Sessions : loaded'[u] \subseteq artifacts[u] \cup loaded[u]
      BY <2>1, <2>4
    <3> QED
      BY <3>1, <3>2
  <2>9. Filed'
    BY <2>1 DEF Filed
  <2>b. evidenceAcknowledged' \subseteq UNION {artifacts'[u] : u \in Sessions}
    BY <2>9 DEF Filed
  <2>c. evidenceSeen' \in [Sessions -> BOOLEAN \X BOOLEAN] /\ pair' \in [Sessions -> Nat]
    BY <1>0, <2>1
  <2>5. Evidence!TypeOK'
    BY <2>3, <2>a, <2>b, <2>c, Zenon DEF Evidence!TypeOK
  <2>6. EvidenceTyped'
    BY <2>1, <2>3, <2>5 DEF EvidenceTyped
  <2>7. ASSUME evidencePc'[s] = "open"
        PROVE /\ keys'[s] = k /\ k[1] = k[2] /\ \A a \in artifacts[s] : a.signedWith = k[2]
              /\ loaded'[s] = artifacts[s]
    BY <2>1, <2>7 DEF Evidence!OpensWith, Evidence!IsValid, EvidenceTyped, Evidence!TypeOK
  <2>8. Verifiable'
    BY <2>1, <2>4, <2>7 DEF Verifiable
  <2> QED
    BY <2>6, <2>8, <2>9
<1>5. ASSUME NEW s \in Sessions, NEW f \in Findings, Evidence!recordSandboxExecution(s, f)
      PROVE  EvidenceTyped' /\ Filed' /\ Verifiable'
  <2> DEFINE a == [id |-> evidenceRecords + 1, run |-> s, finding |-> f, signedWith |-> keys[s][1]]
  <2>1. /\ evidencePc[s] = "open" /\ evidenceRecords' = evidenceRecords + 1
        /\ artifacts' = [artifacts EXCEPT ![s] = @ \cup {a}]
        /\ UNCHANGED <<privateFile, publicFile, evidenceSeen, pair, keys>>
        /\ \/ /\ loaded' = [loaded EXCEPT ![s] = @ \cup {a}] /\ evidenceAcknowledged' = evidenceAcknowledged \cup {a}
              /\ UNCHANGED evidencePc
           \/ evidencePc' = [evidencePc EXCEPT ![s] = "closed"] /\ UNCHANGED <<loaded, evidenceAcknowledged>>
    BY <1>5 DEF Evidence!recordSandboxExecution
  <2>2. a \in Artifacts /\ a.id = evidenceRecords + 1 /\ a.run = s /\ a.finding = f /\ a.signedWith = keys[s][1]
    BY DEF EvidenceTyped, Evidence!TypeOK, Artifacts
  <2>3. artifacts' \in [Sessions -> SUBSET Artifacts] /\ loaded' \in [Sessions -> SUBSET Artifacts]
    BY <2>1, <2>2 DEF EvidenceTyped
  <2> HIDE DEF a
  <2>4. \A t \in Sessions : artifacts'[t] = IF t = s THEN artifacts[t] \cup {a} ELSE artifacts[t]
    BY <2>1 DEF EvidenceTyped
  <2>5. \A t \in Sessions : loaded'[t] = loaded[t] \/ (t = s /\ loaded'[t] = loaded[t] \cup {a})
    BY <2>1 DEF EvidenceTyped
  <2>6. evidencePc' \in [Sessions -> Evidence!Steps]
    BY <2>1 DEF EvidenceTyped, Evidence!TypeOK, Evidence!Steps
  <2>7. Filed'
    <3>1. \A t \in Sessions : \A b \in artifacts'[t] : b.run = t /\ b.id \in 1..evidenceRecords'
      BY <2>1, <2>2, <2>4 DEF Filed, EvidenceTyped
    <3>a. \A b \in artifacts[s] : b.id \in 1..evidenceRecords /\ evidenceRecords \in Nat
      BY DEF Filed, EvidenceTyped
    <3>b. \A b \in artifacts[s] : b.id # a.id
      BY <2>2, <3>a
    <3>2. \A t \in Sessions : \A b, c \in artifacts'[t] : b.id = c.id => b = c
      <4>1. ASSUME NEW t \in Sessions, NEW b \in artifacts'[t], NEW c \in artifacts'[t], b.id = c.id PROVE b = c
        <5>1. CASE b \in artifacts[t] /\ c \in artifacts[t]
          BY <4>1, <5>1 DEF Filed
        <5>2. CASE ~(b \in artifacts[t] /\ c \in artifacts[t])
          <6>1. t = s /\ artifacts'[t] = artifacts[s] \cup {a}
            BY <2>4, <4>1, <5>2
          <6> QED
            BY <3>b, <4>1, <5>2, <6>1
        <5> QED
          BY <5>1, <5>2
      <4> QED
        BY <4>1
    <3>3. \A b \in evidenceAcknowledged' : b.run \in Sessions /\ b \in artifacts'[b.run]
      <4>1. ASSUME NEW b \in evidenceAcknowledged' PROVE b.run \in Sessions /\ b \in artifacts'[b.run]
        <5>1. CASE b = a
          BY <2>2, <2>4, <5>1
        <5>2. CASE b \in evidenceAcknowledged
          BY <2>4, <5>2 DEF Filed
        <5> QED
          BY <2>1, <4>1, <5>1, <5>2
      <4> QED
        BY <4>1
    <3> QED
      BY <3>1, <3>2, <3>3 DEF Filed
  <2>8. EvidenceTyped'
    <3>1. \A t \in Sessions : \A b \in artifacts'[t] \cup loaded'[t] : b.run = t /\ b.finding \in Findings
      <4>1. \A t \in Sessions : \A b \in artifacts[t] \cup loaded[t] : b.run = t /\ b.finding \in Findings
        BY DEF EvidenceTyped, Evidence!TypeOK
      <4>2. ASSUME NEW t \in Sessions, NEW b \in artifacts'[t] \cup loaded'[t] PROVE b.run = t /\ b.finding \in Findings
        <5>1. b \in artifacts[t] \cup loaded[t] \/ (t = s /\ b = a)
          BY <2>4, <2>5
        <5> QED
          BY <2>2, <4>1, <5>1
      <4> QED
        BY <4>2
    <3>2. evidenceAcknowledged' \subseteq UNION {artifacts'[t] : t \in Sessions}
      BY <2>7 DEF Filed
    <3> QED
      BY <2>1, <2>3, <2>6, <3>1, <3>2 DEF EvidenceTyped, Evidence!TypeOK
  <2>9. Verifiable'
    <3>1. ASSUME NEW t \in Sessions, evidencePc'[t] = "open"
          PROVE  /\ keys'[t][1] = keys'[t][2] /\ loaded'[t] = artifacts'[t]
                 /\ \A b \in artifacts'[t] : b.signedWith = keys'[t][2]
      <4>0. evidencePc \in [Sessions -> Evidence!Steps] /\ loaded \in [Sessions -> SUBSET Artifacts]
        BY DEF EvidenceTyped, Evidence!TypeOK
      <4>1. evidencePc[t] = "open" /\ keys' = keys
        BY <2>1, <3>1, <4>0
      <4>2. CASE t # s
        BY <2>4, <2>5, <4>1, <4>2 DEF Verifiable
      <4>3. CASE t = s
        <5>1. loaded'[s] = loaded[s] \cup {a}
          BY <2>1, <3>1, <4>0, <4>3
        <5> QED
          BY <2>2, <2>4, <4>1, <4>3, <5>1 DEF Verifiable
      <4> QED
        BY <4>2, <4>3
    <3> QED
      BY <3>1 DEF Verifiable
  <2> QED
    BY <2>7, <2>8, <2>9
<1>7. CASE UNCHANGED evidenceVars
  BY <1>7 DEF evidenceVars, EvidenceTyped, Evidence!TypeOK, Filed, Verifiable
<1> QED
  BY <1>1, <1>2, <1>3, <1>4, <1>5, <1>6, <1>7, <1>8 DEF Evidence!Next

LEMMA EvidenceBegins == Evidence!Init => EvidenceTyped /\ Filed /\ Verifiable
<1>1. Evidence!Init => EvidenceTyped
  <2> SUFFICES ASSUME Evidence!Init PROVE EvidenceTyped
    OBVIOUS
  <2>1. evidenceSeen \in [Sessions -> BOOLEAN \X BOOLEAN]
    BY DEF Evidence!Init
  <2>2. evidenceAcknowledged \subseteq UNION {artifacts[s] : s \in Sessions}
    BY DEF Evidence!Init
  <2> QED
    BY <2>1, <2>2 DEF Evidence!Init, EvidenceTyped, Evidence!TypeOK, Evidence!Steps
<1>2. Evidence!Init => Filed /\ Verifiable
  BY DEF Evidence!Init, Filed, Verifiable
<1> QED
  BY <1>1, <1>2

LEMMA EvidenceHolds == Spec => [](EvidenceTyped /\ Filed /\ Verifiable)
<1>1. Init => EvidenceTyped /\ Filed /\ Verifiable
  BY EvidencePart, EvidenceBegins
<1>2. EvidenceTyped /\ Filed /\ Verifiable /\ [Next]_StorageVars => (EvidenceTyped /\ Filed /\ Verifiable)'
  BY EvidencePart, EvidenceStep
<1> QED
  BY <1>1, <1>2, PTL DEF Spec, StorageVars

\* Evidence that the agent was told of is accepted by every session that opens the run again, as that of its own
\* finding and of no other: whatever sessions generate, write or lose of the keys meanwhile, a session opens only
\* with keys that fit all there is.
THEOREM EvidenceIsAccepted == Spec => []EvidenceIsSound
<1>1. EvidenceTyped /\ Filed /\ Verifiable => Evidence!EvidenceIsSound
  <2> SUFFICES ASSUME EvidenceTyped, Filed, Verifiable, NEW s \in Sessions, evidencePc[s] = "open"
      PROVE  /\ \A a \in evidenceAcknowledged : a.run = s => Evidence!verifyForFinding(s, {a.id}, a.finding)
             /\ \A a \in artifacts[s], f \in Findings : Evidence!verifyForFinding(s, {a.id}, f) => f = a.finding
    BY DEF Evidence!EvidenceIsSound
  <2>1. loaded[s] = artifacts[s] /\ \A a \in artifacts[s] : a.run = s /\ Evidence!IsValid(a, keys[s])
    BY DEF Verifiable, Filed, Evidence!IsValid
  <2>2. ASSUME NEW a \in evidenceAcknowledged, a.run = s PROVE Evidence!verifyForFinding(s, {a.id}, a.finding)
    BY <2>1, <2>2 DEF Filed, Evidence!verifyForFinding
  <2>3. ASSUME NEW a \in artifacts[s], NEW f \in Findings, Evidence!verifyForFinding(s, {a.id}, f) PROVE f = a.finding
    BY <2>1, <2>3 DEF Filed, Evidence!verifyForFinding
  <2> QED
    BY <2>2, <2>3
<1> QED
  BY <1>1, EvidenceHolds, PTL DEF EvidenceIsSound

-----------------------------------------------------------------------------
(***************************************************************************)
(* The memory of false positives: who works on the file has the lock, and  *)
(* who is about to take a lock away has seen that its owner is dead.       *)
(***************************************************************************)
\* The memory takes its own steps, or none.
LEMMA MemoryPart ==
    /\ Init => Memory!Init
    /\ [Next]_StorageVars => [Memory!Next]_memoryVars
BY DEF Init, Next, StorageVars, Others

MemoryTyped ==
    /\ Memory!TypeOK /\ memorySource \in Nat /\ memoryCrashes \in 0..MaxReviewerCrashes
    /\ life \in [Reviewers -> Nat] /\ \A p \in Reviewers : life[p] <= memoryCrashes
    /\ memoryOp \in [Reviewers -> [kind : Memory!Kinds, id : Nat]] /\ match \in [Reviewers -> Memory!Ids \cup {0}]
    /\ DOMAIN memoryRecords = Reviewers

\* Each lock has its owner, alive or dead.
Held ==
    /\ \A p \in Reviewers : memoryPc[p] \in Memory!Locked <=> memoryLock = Memory!Pid(p)
    /\ memoryLock # Memory!None => memoryLock[2] <= life[memoryLock[1]]
    /\ \A p \in Reviewers : memoryPc[p] \in {"reading", "renaming"} => reclaim = Memory!Pid(p)
    /\ \A p \in Reviewers : memoryPc[p] = "renaming" =>
          memoryLock # Memory!None /\ memoryLock[2] < life[memoryLock[1]]

\* What was decided is in the file, and in what will replace it.
Decided ==
    /\ \A p \in Reviewers : memoryPc[p] = "work" => memoryRecords[p] = memoryFile
    /\ \A p \in Reviewers : memoryPc[p] = "persist" =>
          /\ DOMAIN memoryFile \subseteq DOMAIN memoryRecords[p]
          /\ \A i \in DOMAIN memoryFile : memoryFile[i].status = "revoked" => memoryRecords[p][i].status = "revoked"
          /\ memoryOp[p].id \in DOMAIN memoryRecords[p]
          /\ memoryOp[p].kind = "revoke" => memoryRecords[p][memoryOp[p].id].status = "revoked"
    /\ \A p \in Reviewers : memoryPc[p] = "release" =>
          /\ memoryOp[p].kind \in {"approve", "revoke"} => memoryOp[p].id \in DOMAIN memoryFile
          /\ memoryOp[p].kind = "revoke" => memoryFile[memoryOp[p].id].status = "revoked"
          /\ match[p] \notin revoked
    /\ approved \subseteq DOMAIN memoryFile
    /\ \A i \in revoked : i \in DOMAIN memoryFile /\ memoryFile[i].status = "revoked"
    /\ \A p \in Reviewers : match[p] # 0 => memoryPc[p] \in {"release", "idle"}

\* A process goes to another step.
LEMMA ReviewerMoves ==
  ASSUME MemoryTyped, NEW p \in Reviewers, NEW t \in Memory!Steps, Memory!Goto(p, t)
  PROVE  /\ memoryPc' \in [Reviewers -> Memory!Steps] /\ memoryPc'[p] = t
         /\ \A q \in Reviewers : q # p => memoryPc'[q] = memoryPc[q]
BY DEF MemoryTyped, Memory!TypeOK, Memory!Goto

\* A process is told from another by its id, and every id from none.
LEMMA PidsDiffer ==
  /\ \A p, q \in Reviewers : Memory!Pid(p) = Memory!Pid(q) => p = q
  /\ \A p \in Reviewers : Memory!Pid(p) # Memory!None
  /\ \A p \in Reviewers : Memory!Pid(p)[1] = p /\ Memory!Pid(p)[2] = life[p]
BY DEF Memory!Pid, Memory!None

LEMMA OwnersAre ==
  ASSUME MemoryTyped
  PROVE  /\ memoryLock # Memory!None =>
              memoryLock[1] \in Reviewers /\ memoryLock[2] \in Nat /\ memoryLock = <<memoryLock[1], memoryLock[2]>>
         /\ \A p \in Reviewers : Memory!Pid(p) \in Reviewers \X (0..MaxReviewerCrashes)
<1>1. memoryLock # Memory!None => memoryLock \in Reviewers \X (0..MaxReviewerCrashes)
  BY Zenon DEF MemoryTyped, Memory!TypeOK
<1>2. \A p \in Reviewers : life[p] \in 0..MaxReviewerCrashes
  BY StorageAssumption DEF MemoryTyped, Memory!FalsePositivesAssumption
<1>3. \A p \in Reviewers : Memory!Pid(p) \in Reviewers \X (0..MaxReviewerCrashes)
  BY <1>2 DEF Memory!Pid
<1> QED
  BY <1>1, <1>3

\* Who holds the lock does so alone.
LEMMA HolderIsAlone ==
  ASSUME Held
  PROVE  Memory!OneAtATime
BY PidsDiffer DEF Held, Memory!OneAtATime

\* A step of a process that does not hold the lock, and does not take one.
LEMMA ReviewerWaits ==
  ASSUME MemoryTyped, Held, Decided, NEW p \in Reviewers,
         NEW t \in Memory!Steps \ (Memory!Locked \cup {"reading", "renaming"}), Memory!Goto(p, t),
         memoryPc[p] \notin Memory!Locked,
         reclaim' = reclaim \/ (memoryPc[p] = "reading" /\ reclaim' = Memory!None),
         \A q \in Reviewers : q # p => memoryOp'[q] = memoryOp[q] /\ match'[q] = match[q],
         match'[p] = 0,
         UNCHANGED <<memoryFile, memoryLock, life, memoryRecords, approved, revoked>>
  PROVE  Held' /\ Decided'
<1>1. /\ memoryPc'[p] = t /\ \A q \in Reviewers : q # p => memoryPc'[q] = memoryPc[q]
  BY ReviewerMoves
<1>2. /\ \A q \in Reviewers : Memory!Pid(q)' = Memory!Pid(q)
      /\ \A q \in Reviewers : memoryPc'[q] \in Memory!Locked \cup {"reading", "renaming"} =>
            q # p /\ memoryPc'[q] = memoryPc[q]
      /\ \A q \in Reviewers : memoryPc'[q] \in Memory!Locked <=> memoryPc[q] \in Memory!Locked
  BY <1>1 DEF Memory!Pid
<1>3. \A q \in Reviewers : memoryPc'[q] \in {"reading", "renaming"} => reclaim' = Memory!Pid(q)'
  BY <1>1, <1>2, PidsDiffer DEF Held
<1>4. Held'
  BY <1>2, <1>3 DEF Held
<1>5. {"work", "persist", "release"} \subseteq Memory!Locked
  BY DEF Memory!Locked
<1>6. \A q \in Reviewers : memoryPc'[q] \in {"work", "persist", "release"} => q # p /\ memoryPc'[q] = memoryPc[q]
  BY <1>2, <1>5
<1>7. \A q \in Reviewers : match'[q] # 0 => q # p /\ memoryPc'[q] = memoryPc[q] /\ match[q] # 0
  BY <1>1
<1> QED
  BY <1>4, <1>6, <1>7 DEF Decided

\* Where a process waits, nothing was found for it yet.
LEMMA NothingMatched ==
  ASSUME MemoryTyped, Decided, NEW p \in Reviewers, memoryPc[p] \notin {"release", "idle"}
  PROVE  match[p] = 0
BY DEF Decided

LEMMA StepsAre ==
  /\ {"closed", "createKey", "writeKey", "waitKey", "idle", "failed", "acquire", "contended", "wait"}
        \subseteq Memory!Steps \ (Memory!Locked \cup {"reading", "renaming"})
  /\ Memory!Locked \cup {"reading", "renaming"} \subseteq Memory!Steps
  /\ "reading" \notin Memory!Locked /\ "renaming" \notin Memory!Locked
BY DEF Memory!Steps, Memory!Locked

\* The key, the start of an operation, and waiting.
LEMMA WaitingSteps ==
  ASSUME MemoryTyped, Held, Decided, NEW p \in Reviewers,
         \/ Memory!open(p) \/ Memory!CreateKey(p) \/ Memory!WriteKey(p) \/ Memory!WaitForKey(p)
         \/ \E o \in Memory!Operation : Memory!serialize(p, o)
         \/ Memory!Retry(p) \/ Memory!TimeOut(p)
  PROVE  MemoryTyped' /\ Held' /\ Decided'
<1> DEFINE Waits(t) ==
         /\ Memory!Goto(p, t) /\ memoryPc[p] \notin Memory!Locked /\ match'[p] = 0
         /\ \A q \in Reviewers : q # p => memoryOp'[q] = memoryOp[q] /\ match'[q] = match[q]
         /\ memoryKey' \in {"none", "empty", "full"}
         /\ memoryOp' \in [Reviewers -> [kind : Memory!Kinds, id : Nat]]
         /\ match' \in [Reviewers -> Memory!Ids \cup {0}]
         /\ UNCHANGED <<memoryFile, memorySource, memoryLock, reclaim, life, memoryRecords, approved, revoked,
                        memoryCrashes>>
       Targets == {"createKey", "writeKey", "waitKey", "idle", "failed", "acquire"}
<1>0. /\ memoryOp \in [Reviewers -> [kind : Memory!Kinds, id : Nat]] /\ match \in [Reviewers -> Memory!Ids \cup {0}]
      /\ memoryKey \in {"none", "empty", "full"}
  BY DEF MemoryTyped, Memory!TypeOK
<1>1. ASSUME Memory!open(p) \/ Memory!CreateKey(p) \/ Memory!WriteKey(p) \/ Memory!WaitForKey(p)
      PROVE  \E t \in Targets : Waits(t)
  <2>1. \E t \in Targets : Memory!Goto(p, t)
    BY <1>1 DEF Memory!open, Memory!CreateKey, Memory!WriteKey, Memory!WaitForKey, Memory!Step
  <2>2. memoryPc[p] \in {"closed", "createKey", "writeKey", "waitKey"}
    BY <1>1 DEF Memory!open, Memory!CreateKey, Memory!WriteKey, Memory!WaitForKey, Memory!Step
  <2>3. memoryPc[p] \notin Memory!Locked /\ match[p] = 0
    BY <2>2, NothingMatched DEF Memory!Locked
  <2>4. memoryKey' \in {"none", "empty", "full"}
    BY <1>0, <1>1 DEF Memory!open, Memory!CreateKey, Memory!WriteKey, Memory!WaitForKey
  <2>5. UNCHANGED <<memoryFile, memorySource, memoryLock, reclaim, life, memoryOp, memoryRecords, approved, revoked, match,
                    memoryCrashes>>
    BY <1>1 DEF Memory!open, Memory!CreateKey, Memory!WriteKey, Memory!WaitForKey
  <2> QED
    BY <1>0, <2>1, <2>3, <2>4, <2>5
<1>2. ASSUME NEW o \in Memory!Operation, Memory!serialize(p, o) PROVE \E t \in Targets : Waits(t)
  <2>1. /\ Memory!Goto(p, "acquire") /\ memoryPc[p] = "idle"
        /\ memoryOp' = [memoryOp EXCEPT ![p] = o] /\ match' = [match EXCEPT ![p] = 0]
        /\ UNCHANGED <<memoryKey, memoryFile, memorySource, memoryLock, reclaim, life, memoryRecords, approved, revoked,
                       memoryCrashes>>
    BY <1>2 DEF Memory!serialize, Memory!Step
  <2>2. o \in [kind : Memory!Kinds, id : Nat]
    <3>1. DOMAIN memoryFile \subseteq Nat
      BY DEF MemoryTyped, Memory!TypeOK, Memory!IsRecords, Memory!Ids
    <3> QED
      BY <3>1 DEF Memory!Operation, Memory!Kinds
  <2>3. memoryOp' \in [Reviewers -> [kind : Memory!Kinds, id : Nat]]
    BY <1>0, <2>1, <2>2
  <2>4. match' \in [Reviewers -> Memory!Ids \cup {0}] /\ match'[p] = 0
    BY <1>0, <2>1
  <2>5. \A q \in Reviewers : q # p => memoryOp'[q] = memoryOp[q] /\ match'[q] = match[q]
    BY <1>0, <2>1
  <2>6. memoryPc[p] \notin Memory!Locked
    BY <2>1 DEF Memory!Locked
  <2> QED
    BY <1>0, <2>1, <2>3, <2>4, <2>5, <2>6
<1>3. ASSUME Memory!Retry(p) \/ Memory!TimeOut(p) PROVE \E t \in Targets : Waits(t)
  <2>1. /\ \E t \in Targets : Memory!Goto(p, t)
        /\ memoryPc[p] = "wait"
        /\ UNCHANGED <<memoryKey, memoryFile, memorySource, memoryLock, reclaim, life, memoryOp, memoryRecords, approved,
                       revoked, match, memoryCrashes>>
    BY <1>3 DEF Memory!Retry, Memory!TimeOut, Memory!Step, Memory!keyUnchanged
  <2>2. memoryPc[p] \notin Memory!Locked /\ match[p] = 0
    BY <2>1, NothingMatched DEF Memory!Locked
  <2> QED
    BY <1>0, <2>1, <2>2
<1>4. PICK t \in Targets : Waits(t)
  BY <1>1, <1>2, <1>3
<1>5. t \in Memory!Steps \ (Memory!Locked \cup {"reading", "renaming"}) /\ t \in Memory!Steps
  BY StepsAre
<1>6. Held' /\ Decided'
  BY <1>4, <1>5, ReviewerWaits
<1>7. memoryPc' \in [Reviewers -> Memory!Steps]
  BY <1>4, <1>5, ReviewerMoves
<1>8. Memory!TypeOK'
  BY <1>4, <1>7 DEF MemoryTyped, Memory!TypeOK, Memory!IsRecords
<1>9. MemoryTyped'
  BY <1>4, <1>8 DEF MemoryTyped
<1> QED
  BY <1>6, <1>9

\* The two locks: a lock is taken if it is free, and taken away if its owner is dead.
LEMMA LockSteps ==
  ASSUME MemoryTyped, Held, Decided, NEW p \in Reviewers,
         Memory!Acquire(p) \/ Memory!TakeReclaim(p) \/ Memory!ReadOwner(p) \/ Memory!RenameLock(p)
  PROVE  MemoryTyped' /\ Held' /\ Decided'
<1>0. UNCHANGED <<memoryKey, memoryFile, memorySource, life, memoryOp, memoryRecords, approved, revoked, match,
                  memoryCrashes>>
  BY DEF Memory!Acquire, Memory!TakeReclaim, Memory!ReadOwner, Memory!RenameLock, Memory!keyUnchanged
<1>1. memoryPc[p] \in {"acquire", "contended", "reading", "renaming"} /\ match[p] = 0
  BY NothingMatched DEF Memory!Acquire, Memory!TakeReclaim, Memory!ReadOwner, Memory!RenameLock, Memory!Step
<1>2. memoryPc[p] \notin Memory!Locked
  BY <1>1 DEF Memory!Locked
<1>3. PICK t \in {"load", "contended", "reading", "wait", "acquire", "renaming"} : Memory!Goto(p, t)
  BY DEF Memory!Acquire, Memory!TakeReclaim, Memory!ReadOwner, Memory!RenameLock, Memory!Step
<1>4. t \in Memory!Steps
  BY DEF Memory!Steps, Memory!Locked
<1>5. /\ memoryPc' \in [Reviewers -> Memory!Steps] /\ memoryPc'[p] = t
      /\ \A q \in Reviewers : q # p => memoryPc'[q] = memoryPc[q]
  BY <1>3, <1>4, ReviewerMoves
<1>6. memoryLock' \in {memoryLock, Memory!None, Memory!Pid(p)} /\ reclaim' \in {reclaim, Memory!None, Memory!Pid(p)}
  BY DEF Memory!Acquire, Memory!TakeReclaim, Memory!ReadOwner, Memory!RenameLock
<1>7. {memoryLock', reclaim'} \subseteq {Memory!None} \cup (Reviewers \X (0..MaxReviewerCrashes))
  BY <1>6, OwnersAre, Zenon DEF MemoryTyped, Memory!TypeOK
<1>8. Memory!TypeOK'
  BY <1>0, <1>5, <1>7 DEF MemoryTyped, Memory!TypeOK, Memory!IsRecords
<1>9. MemoryTyped'
  BY <1>0, <1>8 DEF MemoryTyped
<1>10. Decided'
  <2>1. {"work", "persist", "release"} \subseteq Memory!Locked /\ t \notin {"work", "persist", "release"}
    BY DEF Memory!Locked
  <2>2. \A q \in Reviewers : memoryPc'[q] \in {"work", "persist", "release"} => memoryPc'[q] = memoryPc[q]
    BY <1>5, <2>1
  <2>3. \A q \in Reviewers : match'[q] # 0 => memoryPc'[q] = memoryPc[q]
    BY <1>0, <1>1, <1>5
  <2> QED
    BY <1>0, <2>2, <2>3 DEF Decided
<1>11. \A q \in Reviewers : Memory!Pid(q)' = Memory!Pid(q)
  BY <1>0 DEF Memory!Pid
<1>12. CASE t \in {"contended", "wait", "acquire"} /\ memoryPc[p] # "renaming"
  <2>1. t \in Memory!Steps \ (Memory!Locked \cup {"reading", "renaming"})
    BY <1>12, StepsAre
  <2>2. UNCHANGED memoryLock
    <3>1. t # "load"
      BY <1>12
    <3> QED
      BY <1>5, <1>12, <3>1 DEF Memory!Acquire, Memory!TakeReclaim, Memory!ReadOwner, Memory!RenameLock,
         Memory!Goto, Memory!Step, MemoryTyped, Memory!TypeOK
  <2>3. reclaim' = reclaim \/ (memoryPc[p] = "reading" /\ reclaim' = Memory!None)
    <3>1. t # "reading"
      BY <1>12
    <3> QED
      BY <1>5, <1>12, <3>1 DEF Memory!Acquire, Memory!TakeReclaim, Memory!ReadOwner, Memory!RenameLock,
         Memory!Goto, Memory!Step, MemoryTyped, Memory!TypeOK
  <2> QED
    BY <1>0, <1>1, <1>2, <1>3, <1>9, <2>1, <2>2, <2>3, ReviewerWaits
<1>13. CASE t = "load"
  <2>1. memoryLock = Memory!None /\ memoryLock' = Memory!Pid(p) /\ UNCHANGED reclaim
    BY <1>5, <1>13 DEF Memory!Acquire, Memory!TakeReclaim, Memory!ReadOwner, Memory!RenameLock, Memory!Goto, Memory!Step, MemoryTyped, Memory!TypeOK
  <2>2. "load" \in Memory!Locked /\ "load" \notin {"reading", "renaming"}
    BY DEF Memory!Locked
  <2>3. \A q \in Reviewers : memoryPc[q] \notin Memory!Locked /\ memoryPc[q] # "renaming"
    BY <2>1, PidsDiffer DEF Held
  <2>4. \A q \in Reviewers : memoryPc'[q] \in Memory!Locked <=> memoryLock' = Memory!Pid(q)'
    BY <1>5, <1>11, <1>13, <2>1, <2>2, <2>3, PidsDiffer
  <2>5. memoryLock'[2] <= life'[memoryLock'[1]]
    BY <1>0, <2>1, PidsDiffer DEF MemoryTyped
  <2>6. \A q \in Reviewers : memoryPc'[q] \in {"reading", "renaming"} => reclaim' = Memory!Pid(q)' /\ memoryPc'[q] = "reading"
    BY <1>5, <1>11, <1>13, <2>1, <2>2, <2>3 DEF Held
  <2> QED
    BY <1>9, <1>10, <2>4, <2>5, <2>6 DEF Held
<1>14. CASE t = "reading"
  <2>1. reclaim = Memory!None /\ reclaim' = Memory!Pid(p) /\ UNCHANGED memoryLock
    BY <1>5, <1>14 DEF Memory!Acquire, Memory!TakeReclaim, Memory!MayReclaim, Memory!ReadOwner, Memory!RenameLock, Memory!Goto, Memory!Step, MemoryTyped, Memory!TypeOK
  <2>2. "reading" \notin Memory!Locked
    BY StepsAre
  <2>3. \A q \in Reviewers : memoryPc'[q] \in Memory!Locked <=> memoryPc[q] \in Memory!Locked
    BY <1>2, <1>5, <1>14, <2>2
  <2>4. \A q \in Reviewers : memoryPc[q] \notin {"reading", "renaming"}
    BY <2>1, PidsDiffer DEF Held
  <2>5. \A q \in Reviewers : memoryPc'[q] \in {"reading", "renaming"} => q = p /\ memoryPc'[q] = "reading"
    BY <1>5, <1>14, <2>4
  <2> QED
    BY <1>0, <1>9, <1>10, <1>11, <2>1, <2>3, <2>5 DEF Held
<1>15. CASE t = "renaming"
  <2>1. /\ memoryPc[p] = "reading" /\ memoryLock # Memory!None /\ Memory!IsAbandoned /\ UNCHANGED <<reclaim, memoryLock>>
    BY <1>5, <1>15 DEF Memory!Acquire, Memory!TakeReclaim, Memory!ReadOwner, Memory!RenameLock, Memory!Goto, Memory!Step, MemoryTyped, Memory!TypeOK
  <2>2. "renaming" \notin Memory!Locked
    BY StepsAre
  <2>3. \A q \in Reviewers : memoryPc'[q] \in Memory!Locked <=> memoryPc[q] \in Memory!Locked
    BY <1>2, <1>5, <1>15, <2>2
  <2>4. memoryLock[2] < life[memoryLock[1]]
    <3>1. /\ memoryLock[1] \in Reviewers /\ memoryLock[2] \in Nat /\ memoryLock = <<memoryLock[1], memoryLock[2]>>
          /\ memoryLock[2] <= life[memoryLock[1]] /\ life[memoryLock[1]] \in Nat
      BY <2>1, OwnersAre DEF Held, MemoryTyped
    <3>2. CASE life[memoryLock[1]] # memoryLock[2]
      BY <3>1, <3>2
    <3>3. CASE life[memoryLock[1]] = memoryLock[2]
      <4>1. memoryLock = Memory!Pid(memoryLock[1])
        BY <3>1, <3>3 DEF Memory!Pid
      <4>2. memoryPc[memoryLock[1]] \in Memory!Locked
        BY <3>1, <4>1 DEF Held
      <4>3. memoryPc[memoryLock[1]] # "closed"
        BY <4>2 DEF Memory!Locked
      <4> QED
        BY <2>1, <3>3, <4>3 DEF Memory!IsAbandoned, Memory!processIsAlive
    <3> QED
      BY <3>2, <3>3
  <2>5. \A q \in Reviewers : memoryPc'[q] \in {"reading", "renaming"} => memoryPc[q] \in {"reading", "renaming"}
    BY <1>5, <2>1
  <2> QED
    BY <1>0, <1>9, <1>10, <1>11, <2>1, <2>3, <2>4, <2>5 DEF Held
<1>16. CASE memoryPc[p] = "renaming"
  <2>1. memoryLock' = Memory!None /\ t = "acquire"
    BY <1>3, <1>5, <1>16 DEF Memory!Acquire, Memory!TakeReclaim, Memory!ReadOwner, Memory!RenameLock, Memory!Goto, Memory!Step, MemoryTyped, Memory!TypeOK
  <2>2. memoryLock[2] < life[memoryLock[1]] /\ reclaim = Memory!Pid(p) /\ memoryLock # Memory!None
    BY <1>16 DEF Held
  <2>3. \A q \in Reviewers : memoryPc[q] \notin Memory!Locked
    <3>1. ASSUME NEW q \in Reviewers, memoryPc[q] \in Memory!Locked PROVE FALSE
      <4>1. memoryLock = Memory!Pid(q)
        BY <3>1 DEF Held
      <4>2. memoryLock[1] = q /\ memoryLock[2] = life[q] /\ life[q] \in Nat
        BY <4>1, PidsDiffer DEF MemoryTyped
      <4> QED
        BY <2>2, <4>2
    <3> QED
      BY <3>1
  <2>4. \A q \in Reviewers : memoryPc[q] \in {"reading", "renaming"} => q = p
    BY <2>2, PidsDiffer DEF Held
  <2>5. "acquire" \notin Memory!Locked \cup {"reading", "renaming"}
    BY StepsAre
  <2>6. \A q \in Reviewers : memoryPc'[q] \notin Memory!Locked \cup {"reading", "renaming"}
    BY <1>5, <2>1, <2>3, <2>4, <2>5
  <2> QED
    BY <1>9, <1>10, <1>11, <2>1, <2>6, PidsDiffer DEF Held
<1> QED
  BY <1>12, <1>13, <1>14, <1>15, <1>16

\* A step of the process that has the lock, under the lock: no other process works on the file.
LEMMA WorkerMoves ==
  ASSUME MemoryTyped, Held, NEW p \in Reviewers, memoryPc[p] \in Memory!Locked,
         NEW t \in Memory!Locked, Memory!Goto(p, t), UNCHANGED <<memoryLock, reclaim, life>>
  PROVE  /\ Held' /\ memoryPc' \in [Reviewers -> Memory!Steps] /\ memoryPc'[p] = t
         /\ \A q \in Reviewers : q # p => memoryPc'[q] = memoryPc[q]
         /\ \A q \in Reviewers : memoryPc'[q] \in {"work", "persist", "release"} => q = p
<1>1. t \in Memory!Steps /\ t \notin {"reading", "renaming"}
  BY StepsAre
<1>2. /\ memoryPc' \in [Reviewers -> Memory!Steps] /\ memoryPc'[p] = t
      /\ \A q \in Reviewers : q # p => memoryPc'[q] = memoryPc[q]
  BY <1>1, ReviewerMoves
<1>3. \A q \in Reviewers : memoryPc[q] \in Memory!Locked => q = p
  BY HolderIsAlone DEF Memory!OneAtATime
<1>4. \A q \in Reviewers : Memory!Pid(q)' = Memory!Pid(q)
  BY DEF Memory!Pid
<1>5. \A q \in Reviewers : memoryPc'[q] \in Memory!Locked <=> memoryPc[q] \in Memory!Locked
  BY <1>2
<1>6. \A q \in Reviewers : memoryPc'[q] \in {"reading", "renaming"} => memoryPc'[q] = memoryPc[q]
  BY <1>1, <1>2
<1>7. Held'
  BY <1>4, <1>5, <1>6 DEF Held
<1>8. {"work", "persist", "release"} \subseteq Memory!Locked
  BY DEF Memory!Locked
<1> QED
  BY <1>2, <1>3, <1>5, <1>7, <1>8

\* What is loaded under the lock is what the file holds.
LEMMA LoadStep ==
  ASSUME MemoryTyped, Held, Decided, NEW p \in Reviewers, Memory!Load(p)
  PROVE  MemoryTyped' /\ Held' /\ Decided'
<1>1. /\ memoryPc[p] = "load" /\ memoryRecords' = [memoryRecords EXCEPT ![p] = memoryFile]
      /\ UNCHANGED <<memoryKey, memoryFile, memorySource, memoryLock, reclaim, life, memoryOp, approved, revoked, match,
                     memoryCrashes>>
  BY DEF Memory!Load, Memory!LoadedBy, Memory!keyUnchanged
<1>2. PICK t \in {"release", "work"} :
        Memory!Goto(p, t) /\ (t = "release" => memoryOp[p] = Memory!NoOp)
  BY DEF Memory!Load
<1>3. t \in Memory!Locked /\ memoryPc[p] \in Memory!Locked
  BY <1>1 DEF Memory!Locked
<1>4. /\ Held' /\ memoryPc' \in [Reviewers -> Memory!Steps] /\ memoryPc'[p] = t
      /\ \A q \in Reviewers : q # p => memoryPc'[q] = memoryPc[q]
      /\ \A q \in Reviewers : memoryPc'[q] \in {"work", "persist", "release"} => q = p
  BY <1>1, <1>2, <1>3, WorkerMoves
<1>5. /\ memoryRecords'[p] = memoryFile /\ DOMAIN memoryRecords' = Reviewers
      /\ \A q \in Reviewers : q # p => memoryRecords'[q] = memoryRecords[q]
  BY <1>1 DEF MemoryTyped
<1>6. MemoryTyped'
  <2>1. Memory!TypeOK'
    BY <1>1, <1>4, <1>5 DEF MemoryTyped, Memory!TypeOK, Memory!IsRecords
  <2> QED
    BY <1>1, <1>5, <2>1 DEF MemoryTyped
<1>7. match[p] = 0 /\ 0 \notin revoked
  <2>1. DOMAIN memoryFile \subseteq 1..MaxDecisions
    BY DEF MemoryTyped, Memory!TypeOK, Memory!IsRecords, Memory!Ids
  <2> QED
    BY <1>1, <2>1, NothingMatched DEF Decided
<1>8. \A q \in Reviewers : match[q] # 0 => memoryPc'[q] \in {"release", "idle"}
  BY <1>4, <1>7 DEF Decided
<1>9. t = "release" => memoryOp[p].kind = "none"
  BY <1>2 DEF Memory!NoOp
<1> QED
  BY <1>1, <1>4, <1>5, <1>6, <1>7, <1>8, <1>9 DEF Decided

\* A decision is put beside what the file holds, under an id of its own.
LEMMA ApproveStep ==
  ASSUME MemoryTyped, Held, Decided, NEW p \in Reviewers, Memory!Approve(p)
  PROVE  MemoryTyped' /\ Held' /\ Decided'
<1> DEFINE i == Memory!NewId(p)
           r == [status |-> "approved", digest |-> memorySource]
<1>1. /\ memoryPc[p] = "work" /\ memoryOp[p].kind = "approve" /\ Memory!HasNewId(p) /\ Memory!Goto(p, "persist")
      /\ memoryRecords' = [memoryRecords EXCEPT ![p] = Memory!With(memoryRecords[p], i, r)]
      /\ memoryOp' = [memoryOp EXCEPT ![p].id = i]
      /\ UNCHANGED <<memoryKey, memoryFile, memorySource, memoryLock, reclaim, life, approved, revoked, match,
                     memoryCrashes>>
  BY DEF Memory!Approve, Memory!keyUnchanged
<1>2. i \in Memory!Ids /\ i \notin DOMAIN memoryFile
  <2>1. \E j \in Memory!Ids : j \notin DOMAIN memoryFile /\ \A q \in Reviewers : j \notin DOMAIN memoryRecords[q]
    BY <1>1 DEF Memory!HasNewId
  <2> QED
    BY <2>1 DEF Memory!NewId
<1> HIDE DEF i
<1>3. "persist" \in Memory!Locked /\ memoryPc[p] \in Memory!Locked
  BY <1>1 DEF Memory!Locked
<1>4. /\ Held' /\ memoryPc' \in [Reviewers -> Memory!Steps] /\ memoryPc'[p] = "persist"
      /\ \A q \in Reviewers : q # p => memoryPc'[q] = memoryPc[q]
      /\ \A q \in Reviewers : memoryPc'[q] \in {"work", "persist", "release"} => q = p
  BY <1>1, <1>3, WorkerMoves
<1>5. memoryRecords[p] = memoryFile /\ match[p] = 0
  BY <1>1, NothingMatched DEF Decided
<1>6. /\ memoryRecords'[p] = Memory!With(memoryFile, i, r) /\ DOMAIN memoryRecords' = Reviewers
      /\ \A q \in Reviewers : q # p => memoryRecords'[q] = memoryRecords[q]
  BY <1>1, <1>5 DEF MemoryTyped
<1>7. /\ DOMAIN memoryRecords'[p] = DOMAIN memoryFile \cup {i}
      /\ \A j \in DOMAIN memoryFile : memoryRecords'[p][j] = memoryFile[j]
      /\ memoryRecords'[p][i] = r
  BY <1>2, <1>6 DEF Memory!With
<1>8. /\ memoryOp'[p].id = i /\ memoryOp'[p].kind = "approve"
      /\ memoryOp' \in [Reviewers -> [kind : Memory!Kinds, id : Nat]]
  BY <1>1, <1>2 DEF MemoryTyped, Memory!Ids
<1>9. MemoryTyped'
  <2>1. r \in Memory!Record
    BY DEF MemoryTyped, Memory!Record
  <2>2. Memory!IsRecords(memoryRecords'[p])
    BY <1>2, <1>7, <2>1 DEF MemoryTyped, Memory!TypeOK, Memory!IsRecords
  <2>3. \A q \in Reviewers : Memory!IsRecords(memoryRecords'[q])
    BY <1>6, <2>2 DEF MemoryTyped, Memory!TypeOK
  <2>4. Memory!TypeOK'
    BY <1>1, <1>4, <1>8, <2>3 DEF MemoryTyped, Memory!TypeOK, Memory!IsRecords
  <2> QED
    BY <1>1, <1>6, <1>8, <2>4 DEF MemoryTyped
<1>10. \A q \in Reviewers : match[q] # 0 => memoryPc'[q] \in {"release", "idle"}
  BY <1>4, <1>5 DEF Decided
<1> QED
  BY <1>1, <1>4, <1>7, <1>8, <1>9, <1>10 DEF Decided

\* A revocation changes the status of its record and keeps the others.
LEMMA RevokeStep ==
  ASSUME MemoryTyped, Held, Decided, NEW p \in Reviewers, Memory!Revoke(p)
  PROVE  MemoryTyped' /\ Held' /\ Decided'
<1> DEFINE i == memoryOp[p].id
<1>1. /\ memoryPc[p] = "work" /\ memoryOp[p].kind = "revoke"
      /\ UNCHANGED <<memoryKey, memoryFile, memorySource, memoryLock, reclaim, life, memoryOp, approved, revoked, match,
                     memoryCrashes>>
  BY DEF Memory!Revoke, Memory!keyUnchanged
<1>2. memoryRecords[p] = memoryFile /\ match[p] = 0
  BY <1>1, NothingMatched DEF Decided
<1>3. PICK t \in {"persist", "releaseError"} :
        /\ Memory!Goto(p, t)
        /\ t = "persist" => i \in DOMAIN memoryFile /\ memoryRecords' = [memoryRecords EXCEPT ![p][i].status = "revoked"]
        /\ t = "releaseError" => UNCHANGED memoryRecords
  BY <1>2 DEF Memory!Revoke
<1>4. t \in Memory!Locked /\ memoryPc[p] \in Memory!Locked
  BY <1>1 DEF Memory!Locked
<1>5. /\ Held' /\ memoryPc' \in [Reviewers -> Memory!Steps] /\ memoryPc'[p] = t
      /\ \A q \in Reviewers : q # p => memoryPc'[q] = memoryPc[q]
      /\ \A q \in Reviewers : memoryPc'[q] \in {"work", "persist", "release"} => q = p
  BY <1>1, <1>3, <1>4, WorkerMoves
<1>6. \A q \in Reviewers : match[q] # 0 => memoryPc'[q] \in {"release", "idle"}
  BY <1>2, <1>5 DEF Decided
<1>7. CASE t = "releaseError"
  <2>1. MemoryTyped'
    <3>1. Memory!TypeOK'
      BY <1>1, <1>3, <1>5, <1>7 DEF MemoryTyped, Memory!TypeOK, Memory!IsRecords
    <3> QED
      BY <1>1, <1>3, <1>7, <3>1 DEF MemoryTyped
  <2>2. \A q \in Reviewers : memoryPc'[q] \notin {"work", "persist", "release"}
    BY <1>5, <1>7
  <2> QED
    BY <1>1, <1>5, <1>6, <2>1, <2>2 DEF Decided
<1>8. CASE t = "persist"
  <2>1. /\ i \in DOMAIN memoryFile /\ memoryRecords'[p] = [memoryFile EXCEPT ![i].status = "revoked"]
        /\ DOMAIN memoryRecords' = Reviewers
        /\ \A q \in Reviewers : q # p => memoryRecords'[q] = memoryRecords[q]
    BY <1>2, <1>3, <1>8 DEF MemoryTyped
  <2>2. \A j \in DOMAIN memoryFile : memoryFile[j] \in Memory!Record
    BY DEF MemoryTyped, Memory!TypeOK, Memory!IsRecords
  <2>3. /\ DOMAIN memoryRecords'[p] = DOMAIN memoryFile
        /\ \A j \in DOMAIN memoryFile : j # i => memoryRecords'[p][j] = memoryFile[j]
        /\ memoryRecords'[p][i] = [memoryFile[i] EXCEPT !.status = "revoked"]
    BY <2>1
  <2>4. memoryRecords'[p][i] \in Memory!Record /\ memoryRecords'[p][i].status = "revoked"
    BY <2>1, <2>2, <2>3 DEF Memory!Record
  <2>5. Memory!IsRecords(memoryRecords'[p])
    <3>1. DOMAIN memoryFile \subseteq Memory!Ids
      BY DEF MemoryTyped, Memory!TypeOK, Memory!IsRecords
    <3>2. \A j \in DOMAIN memoryFile : memoryRecords'[p][j] \in Memory!Record
      BY <2>2, <2>3, <2>4
    <3> QED
      BY <2>3, <3>1, <3>2 DEF Memory!IsRecords
  <2>6. MemoryTyped'
    <3>1. \A q \in Reviewers : Memory!IsRecords(memoryRecords'[q])
      BY <2>1, <2>5 DEF MemoryTyped, Memory!TypeOK
    <3>2. Memory!TypeOK'
      BY <1>1, <1>5, <3>1 DEF MemoryTyped, Memory!TypeOK, Memory!IsRecords
    <3> QED
      BY <1>1, <2>1, <3>2 DEF MemoryTyped
  <2>7. /\ DOMAIN memoryFile \subseteq DOMAIN memoryRecords'[p]
        /\ \A j \in DOMAIN memoryFile : memoryFile[j].status = "revoked" => memoryRecords'[p][j].status = "revoked"
        /\ memoryOp'[p].id \in DOMAIN memoryRecords'[p]
        /\ memoryRecords'[p][memoryOp'[p].id].status = "revoked"
    BY <1>1, <2>1, <2>3, <2>4
  <2> QED
    BY <1>1, <1>5, <1>6, <1>8, <2>6, <2>7 DEF Decided
<1> QED
  BY <1>3, <1>7, <1>8

\* A match applies the first approval of the file that fits, and no revoked one.
LEMMA MatchStep ==
  ASSUME MemoryTyped, Held, Decided, NEW p \in Reviewers, Memory!Match(p)
  PROVE  MemoryTyped' /\ Held' /\ Decided'
<1> DEFINE m == {i \in DOMAIN memoryFile : Memory!Matches(memoryFile, i)}
           c == CHOOSE i \in m : \A j \in m : i <= j
<1>1. /\ memoryPc[p] = "work" /\ memoryOp[p].kind = "match" /\ Memory!Goto(p, "release")
      /\ UNCHANGED <<memoryKey, memoryFile, memorySource, memoryLock, reclaim, life, memoryOp, memoryRecords, approved,
                     revoked, memoryCrashes>>
  BY DEF Memory!Match, Memory!Step, Memory!keyUnchanged
<1>2. memoryRecords[p] = memoryFile
  BY <1>1 DEF Decided
<1>3. match' = [match EXCEPT ![p] = IF m = {} THEN 0 ELSE c]
  BY <1>2 DEF Memory!Match
<1>4. DOMAIN memoryFile \subseteq Memory!Ids /\ DOMAIN memoryFile \subseteq Nat /\ 0 \notin DOMAIN memoryFile
  <2>1. DOMAIN memoryFile \subseteq 1..MaxDecisions
    BY DEF MemoryTyped, Memory!TypeOK, Memory!IsRecords, Memory!Ids
  <2> QED
    BY <2>1 DEF Memory!Ids
<1>5. m # {} => c \in m
  <2>1. m \subseteq Nat
    BY <1>4
  <2>2. m # {} => \E i \in m : \A j \in m : i <= j
    BY <2>1, LeastExists
  <2> QED
    BY <2>2
<1>6. \A i \in m : memoryFile[i].status = "approved" /\ i \in DOMAIN memoryFile
  BY DEF Memory!Matches
<1> HIDE DEF m, c
<1>7. "release" \in Memory!Locked /\ memoryPc[p] \in Memory!Locked
  BY <1>1 DEF Memory!Locked
<1>8. /\ Held' /\ memoryPc' \in [Reviewers -> Memory!Steps] /\ memoryPc'[p] = "release"
      /\ \A q \in Reviewers : q # p => memoryPc'[q] = memoryPc[q]
      /\ \A q \in Reviewers : memoryPc'[q] \in {"work", "persist", "release"} => q = p
  BY <1>1, <1>7, WorkerMoves
<1>9. /\ match' \in [Reviewers -> Memory!Ids \cup {0}] /\ match'[p] = (IF m = {} THEN 0 ELSE c)
      /\ \A q \in Reviewers : q # p => match'[q] = match[q]
  BY <1>3, <1>4, <1>5, <1>6 DEF MemoryTyped
<1>10. match'[p] \notin revoked
  <2>1. 0 \notin revoked
    BY <1>4 DEF Decided
  <2>2. m # {} => c \notin revoked
    BY <1>5, <1>6 DEF Decided
  <2> QED
    BY <1>9, <2>1, <2>2
<1>11. MemoryTyped'
  <2>1. Memory!TypeOK'
    BY <1>1, <1>8, <1>9 DEF MemoryTyped, Memory!TypeOK, Memory!IsRecords
  <2> QED
    BY <1>1, <1>9, <2>1 DEF MemoryTyped
<1>12. \A q \in Reviewers : match'[q] # 0 => memoryPc'[q] \in {"release", "idle"}
  BY <1>8, <1>9 DEF Decided
<1> QED
  BY <1>1, <1>8, <1>10, <1>11, <1>12 DEF Decided

\* The file is replaced by what was made of it under the lock.
LEMMA PersistStep ==
  ASSUME MemoryTyped, Held, Decided, NEW p \in Reviewers, Memory!Persist(p)
  PROVE  MemoryTyped' /\ Held' /\ Decided'
<1>1. /\ memoryPc[p] = "persist"
      /\ UNCHANGED <<memoryKey, memorySource, memoryLock, reclaim, life, memoryOp, memoryRecords, approved, revoked,
                     match, memoryCrashes>>
  BY DEF Memory!Persist, Memory!keyUnchanged
<1>2. PICK t \in {"release", "releaseError"} :
        /\ Memory!Goto(p, t)
        /\ t = "release" => memoryFile' = memoryRecords[p]
        /\ t = "releaseError" => UNCHANGED memoryFile
  BY DEF Memory!Persist
<1>3. t \in Memory!Locked /\ memoryPc[p] \in Memory!Locked /\ match[p] = 0
  BY <1>1, NothingMatched DEF Memory!Locked
<1>4. /\ Held' /\ memoryPc' \in [Reviewers -> Memory!Steps] /\ memoryPc'[p] = t
      /\ \A q \in Reviewers : q # p => memoryPc'[q] = memoryPc[q]
      /\ \A q \in Reviewers : memoryPc'[q] \in {"work", "persist", "release"} => q = p
  BY <1>1, <1>2, <1>3, WorkerMoves
<1>5. \A q \in Reviewers : match[q] # 0 => memoryPc'[q] \in {"release", "idle"}
  BY <1>3, <1>4 DEF Decided
<1>6. memoryFile' \in {memoryFile, memoryRecords[p]}
  BY <1>2
<1>7. MemoryTyped'
  <2>1. Memory!IsRecords(memoryFile')
    BY <1>6 DEF MemoryTyped, Memory!TypeOK
  <2>2. Memory!TypeOK'
    BY <1>1, <1>4, <2>1 DEF MemoryTyped, Memory!TypeOK, Memory!IsRecords
  <2> QED
    BY <1>1, <2>2 DEF MemoryTyped
<1>8. CASE t = "releaseError"
  <2>1. \A q \in Reviewers : memoryPc'[q] \notin {"work", "persist", "release"}
    BY <1>4, <1>8
  <2> QED
    BY <1>1, <1>2, <1>4, <1>5, <1>7, <1>8, <2>1 DEF Decided
<1>9. CASE t = "release"
  <2>1. memoryFile' = memoryRecords[p]
    BY <1>2, <1>9
  <2>2. approved \subseteq DOMAIN memoryFile'
    BY <1>1, <2>1 DEF Decided
  <2>3. \A i \in revoked : i \in DOMAIN memoryFile' /\ memoryFile'[i].status = "revoked"
    BY <1>1, <2>1 DEF Decided
  <2>4. 0 \notin revoked
    <3>1. DOMAIN memoryFile \subseteq 1..MaxDecisions
      BY DEF MemoryTyped, Memory!TypeOK, Memory!IsRecords, Memory!Ids
    <3> QED
      BY <3>1 DEF Decided
  <2>5. /\ memoryOp[p].id \in DOMAIN memoryFile'
        /\ memoryOp[p].kind = "revoke" => memoryFile'[memoryOp[p].id].status = "revoked"
    BY <1>1, <2>1 DEF Decided
  <2>6. \A q \in Reviewers : memoryPc'[q] = "release" => q = p
    BY <1>4
  <2>7. \A q \in Reviewers : memoryPc'[q] \notin {"work", "persist"}
    BY <1>4, <1>9
  <2> QED
    BY <1>1, <1>3, <1>4, <1>5, <1>7, <2>2, <2>3, <2>4, <2>5, <2>6, <2>7 DEF Decided
<1> QED
  BY <1>2, <1>8, <1>9

\* The lock is given back, and only then is the decision the answer to the caller.
LEMMA ReleaseStep ==
  ASSUME MemoryTyped, Held, Decided, NEW p \in Reviewers, Memory!Release(p)
  PROVE  MemoryTyped' /\ Held' /\ Decided'
<1>1. /\ memoryPc[p] \in {"release", "releaseError"} /\ Memory!Goto(p, "idle")
      /\ UNCHANGED <<memoryKey, memoryFile, memorySource, reclaim, life, memoryOp, memoryRecords, match, memoryCrashes>>
  BY DEF Memory!Release
<1>2. memoryPc[p] \in Memory!Locked /\ memoryLock = Memory!Pid(p)
  BY <1>1 DEF Memory!Locked, Held
<1>3. memoryLock' = Memory!None
  BY <1>2 DEF Memory!Release
<1>4. /\ approved' \in {approved, approved \cup {memoryOp[p].id}}
      /\ revoked' \in {revoked, revoked \cup {memoryOp[p].id}}
      /\ approved' # approved => memoryPc[p] = "release" /\ memoryOp[p].kind = "approve"
      /\ revoked' # revoked => memoryPc[p] = "release" /\ memoryOp[p].kind = "revoke"
  BY DEF Memory!Release
<1>5. "idle" \in Memory!Steps /\ "idle" \notin Memory!Locked \cup {"reading", "renaming"}
  BY StepsAre
<1>6. /\ memoryPc' \in [Reviewers -> Memory!Steps] /\ memoryPc'[p] = "idle"
      /\ \A q \in Reviewers : q # p => memoryPc'[q] = memoryPc[q]
  BY <1>1, <1>5, ReviewerMoves
<1>7. \A q \in Reviewers : memoryPc[q] \in Memory!Locked => q = p
  BY <1>2, HolderIsAlone DEF Memory!OneAtATime
<1>8. \A q \in Reviewers : memoryPc'[q] \notin Memory!Locked
  BY <1>5, <1>6, <1>7
<1>9. \A q \in Reviewers : Memory!Pid(q)' = Memory!Pid(q) /\ memoryLock' # Memory!Pid(q)'
  BY <1>1, <1>3, PidsDiffer DEF Memory!Pid
<1>10. \A q \in Reviewers : memoryPc'[q] \in {"reading", "renaming"} => memoryPc[q] = memoryPc'[q] /\ memoryPc'[q] = "reading"
  <2>1. \A q \in Reviewers : memoryPc[q] # "renaming"
    <3> SUFFICES ASSUME NEW q \in Reviewers, memoryPc[q] = "renaming" PROVE FALSE
      OBVIOUS
    <3>1. memoryLock[2] < life[memoryLock[1]]
      BY DEF Held
    <3>2. memoryLock[1] = p /\ memoryLock[2] = life[p] /\ life[p] \in Nat
      BY <1>2, PidsDiffer DEF MemoryTyped
    <3> QED
      BY <3>1, <3>2
  <2> QED
    BY <1>5, <1>6, <2>1
<1>11. Held'
  BY <1>1, <1>3, <1>8, <1>9, <1>10 DEF Held
<1>12. MemoryTyped'
  <2>1. Memory!TypeOK'
    BY <1>1, <1>3, <1>6, Zenon DEF MemoryTyped, Memory!TypeOK, Memory!IsRecords
  <2> QED
    BY <1>1, <2>1 DEF MemoryTyped
<1>13. \A i \in revoked' : i \in DOMAIN memoryFile' /\ memoryFile'[i].status = "revoked"
  BY <1>1, <1>4 DEF Decided
<1>14. approved' \subseteq DOMAIN memoryFile'
  BY <1>1, <1>4 DEF Decided
<1>15. \A q \in Reviewers : memoryPc'[q] \notin {"work", "persist", "release"}
  BY <1>8 DEF Memory!Locked
<1>16. \A q \in Reviewers : match'[q] # 0 => memoryPc'[q] \in {"release", "idle"}
  BY <1>1, <1>6 DEF Decided
<1> QED
  BY <1>11, <1>12, <1>13, <1>14, <1>15, <1>16 DEF Decided

\* A process that dies leaves its locks, which are of an incarnation that is over.
LEMMA MemoryCrashStep ==
  ASSUME MemoryTyped, Held, Decided, NEW p \in Reviewers, Memory!Crash(p)
  PROVE  MemoryTyped' /\ Held' /\ Decided'
<1>1. /\ memoryCrashes < MaxReviewerCrashes /\ memoryCrashes' = memoryCrashes + 1 /\ Memory!Goto(p, "closed")
      /\ life' = [life EXCEPT ![p] = @ + 1] /\ memoryOp' = [memoryOp EXCEPT ![p] = Memory!NoOp]
      /\ memoryRecords' = [memoryRecords EXCEPT ![p] = <<>>] /\ match' = [match EXCEPT ![p] = 0]
      /\ UNCHANGED <<memoryKey, memoryFile, memorySource, memoryLock, reclaim, approved, revoked>>
  BY DEF Memory!Crash
<1>2. "closed" \in Memory!Steps /\ "closed" \notin Memory!Locked \cup {"reading", "renaming"}
  BY StepsAre
<1>3. /\ memoryPc' \in [Reviewers -> Memory!Steps] /\ memoryPc'[p] = "closed"
      /\ \A q \in Reviewers : q # p => memoryPc'[q] = memoryPc[q]
  BY <1>1, <1>2, ReviewerMoves
<1>4. /\ life' \in [Reviewers -> Nat] /\ life'[p] = life[p] + 1 /\ life[p] \in Nat
      /\ \A q \in Reviewers : (q # p => life'[q] = life[q]) /\ life[q] <= life'[q]
  BY <1>1 DEF MemoryTyped
<1>5. memoryCrashes' \in 0..MaxReviewerCrashes /\ memoryCrashes' > memoryCrashes /\ memoryCrashes \in Nat
  BY <1>1, StorageAssumption DEF MemoryTyped, Memory!FalsePositivesAssumption
<1>6. \A q \in Reviewers : life'[q] <= memoryCrashes'
  BY <1>1, <1>4, <1>5 DEF MemoryTyped
<1>7. \A q \in Reviewers : q # p => Memory!Pid(q)' = Memory!Pid(q)
  BY <1>4 DEF Memory!Pid
<1>8. memoryLock # Memory!None =>
        /\ memoryLock[1] \in Reviewers /\ memoryLock[2] \in Nat
        /\ memoryLock[2] <= life[memoryLock[1]] /\ life[memoryLock[1]] \in Nat
        /\ life[memoryLock[1]] <= life'[memoryLock[1]] /\ life'[memoryLock[1]] \in Nat
  BY <1>4, OwnersAre DEF Held, MemoryTyped
<1>9. memoryLock # Memory!Pid(p)'
  <2> SUFFICES ASSUME memoryLock = Memory!Pid(p)' PROVE FALSE
    OBVIOUS
  <2>1. memoryLock[1] = p /\ memoryLock[2] = life'[p] /\ memoryLock # Memory!None
    BY DEF Memory!Pid, Memory!None
  <2> QED
    BY <1>4, <1>8, <2>1
<1>10. Held'
  <2>1. \A q \in Reviewers : memoryPc'[q] \in Memory!Locked <=> memoryLock' = Memory!Pid(q)'
    BY <1>1, <1>2, <1>3, <1>7, <1>9 DEF Held
  <2>2. memoryLock' # Memory!None => memoryLock'[2] <= life'[memoryLock'[1]]
    BY <1>1, <1>8
  <2>3. \A q \in Reviewers : memoryPc'[q] \in {"reading", "renaming"} => q # p /\ memoryPc'[q] = memoryPc[q]
    BY <1>2, <1>3
  <2>4. \A q \in Reviewers : memoryPc'[q] \in {"reading", "renaming"} => reclaim' = Memory!Pid(q)'
    BY <1>1, <1>7, <2>3 DEF Held
  <2>5. \A q \in Reviewers : memoryPc'[q] = "renaming" =>
            memoryLock' # Memory!None /\ memoryLock'[2] < life'[memoryLock'[1]]
    BY <1>1, <1>8, <2>3 DEF Held
  <2> QED
    BY <2>1, <2>2, <2>4, <2>5 DEF Held
<1>11. /\ memoryOp' \in [Reviewers -> [kind : Memory!Kinds, id : Nat]] /\ match' \in [Reviewers -> Memory!Ids \cup {0}]
       /\ match'[p] = 0 /\ memoryRecords'[p] = <<>> /\ DOMAIN memoryRecords' = Reviewers
       /\ \A q \in Reviewers : q # p =>
             match'[q] = match[q] /\ memoryRecords'[q] = memoryRecords[q] /\ memoryOp'[q] = memoryOp[q]
  BY <1>1 DEF MemoryTyped, Memory!NoOp, Memory!Kinds
<1>12. Memory!IsRecords(<<>>)
  BY DEF Memory!IsRecords
<1>13. \A q \in Reviewers : Memory!IsRecords(memoryRecords'[q])
  BY <1>11, <1>12 DEF MemoryTyped, Memory!TypeOK
<1>14. Memory!TypeOK'
  BY <1>1, <1>3, <1>11, <1>13 DEF MemoryTyped, Memory!TypeOK, Memory!IsRecords
<1>15. MemoryTyped'
  BY <1>1, <1>4, <1>5, <1>6, <1>11, <1>14 DEF MemoryTyped
<1>16. \A q \in Reviewers : memoryPc'[q] \in {"work", "persist", "release"} => q # p /\ memoryPc'[q] = memoryPc[q]
  BY <1>3
<1>17. \A q \in Reviewers : match'[q] # 0 => q # p /\ memoryPc'[q] = memoryPc[q] /\ match[q] # 0
  BY <1>3, <1>11
<1> QED
  BY <1>1, <1>10, <1>11, <1>15, <1>16, <1>17 DEF Decided

LEMMA MemoryStep ==
  ASSUME MemoryTyped, Held, Decided, [Memory!Next]_memoryVars
  PROVE  MemoryTyped' /\ Held' /\ Decided'
<1>1. ASSUME NEW p \in Reviewers, Memory!Load(p) \/ Memory!Approve(p) \/ Memory!Revoke(p) \/ Memory!Match(p)
                                    \/ Memory!Persist(p) \/ Memory!Release(p) \/ Memory!Crash(p)
      PROVE  MemoryTyped' /\ Held' /\ Decided'
  BY <1>1, LoadStep, ApproveStep, RevokeStep, MatchStep, PersistStep, ReleaseStep, MemoryCrashStep
<1>2. ASSUME memorySource' \in Nat, UNCHANGED <<memoryKey, memoryFile, memoryLock, reclaim, memoryPc, life, memoryOp,
                                               memoryRecords, approved, revoked, match, memoryCrashes>>
      PROVE  MemoryTyped' /\ Held' /\ Decided'
  <2>1. \A q \in Reviewers : Memory!Pid(q)' = Memory!Pid(q)
    BY <1>2 DEF Memory!Pid
  <2>2. Held'
    BY <1>2, <2>1 DEF Held
  <2>3. Decided'
    BY <1>2 DEF Decided
  <2>4. Memory!TypeOK'
    BY <1>2 DEF MemoryTyped, Memory!TypeOK, Memory!IsRecords
  <2>5. MemoryTyped'
    BY <1>2, <2>4 DEF MemoryTyped
  <2> QED
    BY <2>2, <2>3, <2>5
<1>3. CASE Memory!Edit \/ (\E i \in Memory!Ids : Memory!Expire(i)) \/ UNCHANGED memoryVars
  <2>1. memorySource' \in Nat
    BY <1>3 DEF Memory!Edit, Memory!Expire, memoryVars, MemoryTyped
  <2>2. UNCHANGED <<memoryKey, memoryFile, memoryLock, reclaim, memoryPc, life, memoryOp, memoryRecords, approved,
                    revoked, match, memoryCrashes>>
    BY <1>3 DEF Memory!Edit, Memory!Expire, memoryVars
  <2> QED
    BY <1>2, <2>1, <2>2
<1> QED
  BY <1>1, <1>3, WaitingSteps, LockSteps DEF Memory!Next

LEMMA MemoryBegins ==
  ASSUME Memory!Init
  PROVE  MemoryTyped /\ Held /\ Decided
<1>1. MaxReviewerCrashes \in Nat
  BY StorageAssumption DEF Memory!FalsePositivesAssumption
<1>2. Memory!IsRecords(<<>>)
  BY DEF Memory!IsRecords
<1>3. "closed" \in Memory!Steps /\ "closed" \notin Memory!Locked \cup {"reading", "renaming"}
  BY StepsAre
<1>4. Memory!TypeOK
  BY <1>2, <1>3 DEF Memory!Init, Memory!TypeOK, Memory!NoOp, Memory!Kinds
<1>5. MemoryTyped
  BY <1>1, <1>4 DEF MemoryTyped, Memory!Init, Memory!NoOp, Memory!Kinds
<1>6. Held
  BY <1>3, PidsDiffer DEF Held, Memory!Init
<1>7. Decided
  BY DEF Decided, Memory!Init
<1> QED
  BY <1>5, <1>6, <1>7

LEMMA MemoryHolds == Spec => [](MemoryTyped /\ Held /\ Decided)
<1>1. Init => MemoryTyped /\ Held /\ Decided
  BY MemoryPart, MemoryBegins
<1>2. MemoryTyped /\ Held /\ Decided /\ [Next]_StorageVars => (MemoryTyped /\ Held /\ Decided)'
  BY MemoryPart, MemoryStep
<1> QED
  BY <1>1, <1>2, PTL DEF Spec, StorageVars

\* FalsePositives, for any number of processes that die at any step, of decisions and of operations:
\* however many processes find the lock of one that died, one of them works on the file at a time; an
\* approval or a revocation that a reviewer was told of is never undone by what another process writes
\* back; and what was revoked before a match is not applied by it.
THEOREM ReviewsAreKept == Spec => []MemoryIsSound
<1>1. MemoryTyped /\ Held /\ Decided => Memory!MemoryIsSound
  <2> SUFFICES ASSUME MemoryTyped, Held, Decided PROVE Memory!MemoryIsSound
    OBVIOUS
  <2>1. Memory!OneAtATime
    BY HolderIsAlone
  <2>2. Memory!DecisionsAreKept
    BY DEF Decided, Memory!DecisionsAreKept
  <2>3. 0 \notin revoked
    <3>1. DOMAIN memoryFile \subseteq 1..MaxDecisions
      BY DEF MemoryTyped, Memory!TypeOK, Memory!IsRecords, Memory!Ids
    <3> QED
      BY <3>1 DEF Decided
  <2>4. Memory!RevokedIsNotMatched
    BY <2>3, NothingMatched DEF Decided, Memory!RevokedIsNotMatched
  <2> QED
    BY <2>1, <2>2, <2>4 DEF Memory!MemoryIsSound
<1> QED
  BY <1>1, MemoryHolds, PTL DEF MemoryIsSound

-----------------------------------------------------------------------------
(***************************************************************************)
(* The semantic index: what a session knows of a file is what the file     *)
(* held at some time, and its vectors are those of its chunks.             *)
(***************************************************************************)
\* The index takes its own steps, or none.
LEMMA IndexPart ==
    /\ Init => Index!Init
    /\ [Next]_StorageVars => [Index!Next]_indexVars
BY DEF Init, Next, StorageVars, Others

LEMMA SameIndexCardinality ==
    ASSUME NEW S
    PROVE  Index!Cardinality(S) = Cardinality(S)
BY Zenon DEF Index!Cardinality, Cardinality

\* Chunks, one at a line.
Ordered(A) ==
    /\ IsFiniteSet(A) /\ \A a \in A : a.id[2] \in Nat
    /\ \A a, b \in A : a.id[2] = b.id[2] => a = b
Before(A, a) == {x \in A : x.id[2] < a.id[2]}

LEMMA RankBound ==
  ASSUME NEW A, Ordered(A), NEW a \in A
  PROVE  Cardinality(A) \in Nat /\ Cardinality(Before(A, a)) \in 0..Cardinality(A) - 1
<1>1. IsFiniteSet(A) /\ Cardinality(A) \in Nat /\ Before(A, a) \in SUBSET A /\ a \notin Before(A, a)
  BY FS_CardinalityType DEF Ordered, Before
<1>2. IsFiniteSet(A \ {a}) /\ Cardinality(A \ {a}) = Cardinality(A) - 1
  BY <1>1, FS_RemoveElement
<1>3. Before(A, a) \in SUBSET (A \ {a})
  BY <1>1
<1>4. IsFiniteSet(Before(A, a)) /\ Cardinality(Before(A, a)) <= Cardinality(A \ {a})
  BY <1>2, <1>3, FS_Subset
<1>5. Cardinality(Before(A, a)) \in Nat
  BY <1>4, FS_CardinalityType
<1> QED
  BY <1>1, <1>2, <1>4, <1>5

\* Every number up to that of the chunks is how many are before one of them.
LEMMA RanksCover ==
  ASSUME NEW A, Ordered(A), NEW r \in 0..Cardinality(A) - 1
  PROVE  \E a \in A : Cardinality(Before(A, a)) = r
<1> DEFINE n == Cardinality(A)
           R == [a \in A |-> Cardinality(Before(A, a))]
<1>1. n \in Nat /\ IsFiniteSet(A)
  BY FS_CardinalityType DEF Ordered
<1>2. ASSUME NEW a \in A, NEW b \in A, a.id[2] < b.id[2]
      PROVE  Cardinality(Before(A, a)) < Cardinality(Before(A, b))
  <2>1. a.id[2] \in Nat /\ b.id[2] \in Nat /\ \A x \in A : x.id[2] \in Nat
    BY DEF Ordered
  <2>2. Before(A, b) \in SUBSET A /\ a \in Before(A, b) /\ a \notin Before(A, a)
    BY <1>2, <2>1 DEF Before
  <2>3. Before(A, a) \in SUBSET (Before(A, b) \ {a})
    BY <1>2, <2>1, <2>2 DEF Before
  <2>4. IsFiniteSet(Before(A, b))
    BY <1>1, <2>2, FS_Subset
  <2>5. IsFiniteSet(Before(A, b) \ {a}) /\ Cardinality(Before(A, b) \ {a}) = Cardinality(Before(A, b)) - 1
    BY <2>2, <2>4, FS_RemoveElement
  <2>6. IsFiniteSet(Before(A, a)) /\ Cardinality(Before(A, a)) <= Cardinality(Before(A, b) \ {a})
    BY <2>3, <2>5, FS_Subset
  <2>7. Cardinality(Before(A, a)) \in Nat /\ Cardinality(Before(A, b)) \in Nat
    BY <2>4, <2>6, FS_CardinalityType
  <2> QED
    BY <2>5, <2>6, <2>7
<1>3. R \in [A -> 0..n - 1]
  BY RankBound
<1>4. \A a, b \in A : R[a] = R[b] => a = b
  <2> SUFFICES ASSUME NEW a \in A, NEW b \in A, R[a] = R[b], a # b PROVE FALSE
    OBVIOUS
  <2>1. a.id[2] \in Nat /\ b.id[2] \in Nat /\ a.id[2] # b.id[2]
    BY DEF Ordered
  <2>2. a.id[2] < b.id[2] \/ b.id[2] < a.id[2]
    BY <2>1
  <2>3. Cardinality(Before(A, a)) \in Nat /\ Cardinality(Before(A, b)) \in Nat
    BY RankBound
  <2>4. Cardinality(Before(A, a)) = Cardinality(Before(A, b))
    OBVIOUS
  <2> QED
    BY <1>2, <2>2, <2>3, <2>4
<1> HIDE DEF R
<1>5. R \in Injection(A, 0..n - 1)
  BY <1>3, <1>4 DEF Injection, IsInjective
<1>6. IsFiniteSet(0..n - 1) /\ Cardinality(0..n - 1) = n
  BY <1>1, FS_Interval
<1>7. R \in Surjection(A, 0..n - 1)
  BY <1>5, <1>6, FS_Injection
<1>8. PICK a \in A : R[a] = r
  BY <1>7 DEF Surjection
<1> QED
  BY <1>8 DEF R

\* Two sequences of chunks that have the same hashes in their order have the same hashes.
LEMMA SameHashes ==
  ASSUME NEW A, NEW B, Ordered(A), Ordered(B), Cardinality(A) = Cardinality(B),
         \A a \in A, b \in B : Cardinality(Before(A, a)) = Cardinality(Before(B, b)) => a.hash = b.hash
  PROVE  Index!Hashes(A) = Index!Hashes(B)
<1>1. \A a \in A : \E b \in B : a.hash = b.hash
  <2> TAKE a \in A
  <2>1. Cardinality(Before(A, a)) \in 0..Cardinality(B) - 1
    BY RankBound
  <2>2. PICK b \in B : Cardinality(Before(B, b)) = Cardinality(Before(A, a))
    BY <2>1, RanksCover
  <2> QED
    BY <2>2
<1>2. \A b \in B : \E a \in A : a.hash = b.hash
  <2> TAKE b \in B
  <2>1. Cardinality(Before(B, b)) \in 0..Cardinality(A) - 1
    BY RankBound
  <2>2. PICK a \in A : Cardinality(Before(A, a)) = Cardinality(Before(B, b))
    BY <2>1, RanksCover
  <2> QED
    BY <2>2
<1> QED
  BY <1>1, <1>2 DEF Index!Hashes

\* The chunks of a file with some content.
ChunksOf(f, c) == {[id |-> <<f, b[1]>>, hash |-> b[2]] : b \in c}
Of(ch, f) == {x \in ch : x.id[1] = f}

LEMMA ContentsAreOrdered ==
  ASSUME NEW f \in Files, NEW c \in Contents
  PROVE  Ordered(ChunksOf(f, c)) /\ \A x \in ChunksOf(f, c) : x.id[1] = f /\ x.id = <<f, x.id[2]>>
<1>1. IsFiniteSet(c) /\ (\A x \in c : x[1] \in Nat) /\ \A x, y \in c : x[1] = y[1] => x = y
  BY StorageAssumption DEF Index!IndexAssumption, IsFiniteSet, Index!IsFiniteSet
<1> DEFINE G == [b \in c |-> [id |-> <<f, b[1]>>, hash |-> b[2]]]
<1>2. G \in Surjection(c, ChunksOf(f, c))
  <2>1. G \in [c -> ChunksOf(f, c)]
    BY DEF ChunksOf
  <2>2. \A t \in ChunksOf(f, c) : \E b \in c : G[b] = t
    BY DEF ChunksOf
  <2> HIDE DEF G
  <2> QED
    BY <2>1, <2>2 DEF Surjection
<1>3. IsFiniteSet(ChunksOf(f, c))
  BY <1>1, <1>2, FS_Surjection
<1>4. \A x \in ChunksOf(f, c) : \E b \in c : x = [id |-> <<f, b[1]>>, hash |-> b[2]]
  BY DEF ChunksOf
<1>5. \A x \in ChunksOf(f, c) : x.id[2] \in Nat /\ x.id[1] = f /\ x.id = <<f, x.id[2]>>
  BY <1>1, <1>4
<1>6. \A x, y \in ChunksOf(f, c) : x.id[2] = y.id[2] => x = y
  <2> SUFFICES ASSUME NEW x \in ChunksOf(f, c), NEW y \in ChunksOf(f, c), x.id[2] = y.id[2] PROVE x = y
    OBVIOUS
  <2>1. PICK a \in c : x = [id |-> <<f, a[1]>>, hash |-> a[2]]
    BY <1>4
  <2>2. PICK b \in c : y = [id |-> <<f, b[1]>>, hash |-> b[2]]
    BY <1>4
  <2>3. a[1] = b[1]
    BY <2>1, <2>2
  <2>4. a = b
    BY <1>1, <2>3
  <2> QED
    BY <2>1, <2>2, <2>4
<1> QED
  BY <1>3, <1>5, <1>6 DEF Ordered
\* A set of chunks has, of each file, all that the file held at some time.
Whole(ch) ==
    /\ \A x \in ch : x.id[1] \in Files
    /\ \A f \in Files : \E c \in Contents : Of(ch, f) = ChunksOf(f, c)
\* Each chunk has vectors, all of what it holds.
Fits(st, ch) == \A c \in ch :
    /\ \E e \in st : e.id = c.id
    /\ \A e \in st : e.id = c.id => e.of = c.hash

IndexTyped ==
    /\ Index!TypeOK /\ DOMAIN store = Sessions /\ DOMAIN chunks = Sessions
    /\ DOMAIN vectors = Index!Dirs /\ DOMAIN metadata = Index!Dirs
    /\ \A d \in Index!Dirs : \A e \in vectors[d].entries : e.id[1] \in Files
    /\ \A d \in Index!Dirs : Whole(metadata[d].chunks)
    /\ \A s \in Sessions : Whole(chunks[s])

Working == {"vectors", "metadata", "collect", "index", "save"}

\* A session that works on a directory has its lock.
Locking == \A s \in Sessions : indexPc[s] \in Working => indexLock[Index!dir(s)] = s

\* On disk and in each session, vectors are of their chunks.
Matching ==
    /\ \A d \in Index!Dirs :
          metadata[d].generation = vectors[d].generation => Fits(vectors[d].entries, metadata[d].chunks)
    /\ \A s \in Sessions : indexPc[s] \in {"metadata", "save"} => store[s] = vectors[Index!dir(s)].entries
    /\ \A s \in Sessions : indexPc[s] \in {"collect", "index", "save", "done"} => Fits(store[s], chunks[s])

\* What is not to be indexed any more, and was not edited, is indexed as it is.
Current ==
    /\ \A s \in Sessions : indexPc[s] \in {"index", "save", "done"} =>
          \A f \in Files \ (dirty[s] \cup todo[s]) :
              Index!Hashes(Index!getChunksForFile(s, f)) = Index!Hashes(Index!ChunkSource(f))
    /\ \A s \in Sessions : indexPc[s] \in {"save", "done"} => todo[s] = {}

IndexGood == IndexTyped /\ Locking /\ Matching /\ Current

LEMMA NothingIsWhole == Whole({})
<1>1. {} \in Contents
  BY StorageAssumption DEF Index!IndexAssumption
<1>2. \A f \in Files : Of({}, f) = ChunksOf(f, {})
  BY DEF Of, ChunksOf
<1> QED
  BY <1>1, <1>2 DEF Whole

\* The chunks of files that are gone are taken out, with their vectors.
LEMMA CleanedIsWhole ==
  ASSUME IndexTyped, NEW ch, NEW st, Whole(ch), Fits(st, ch),
         NEW ids, ids = {c.id : c \in {x \in ch : indexSource[x.id[1]] = {}}}
  PROVE  /\ Whole(Index!Without(ch, ids)) /\ Fits(Index!Without(st, ids), Index!Without(ch, ids))
         /\ \A f \in Files : indexSource[f] = {} => Of(Index!Without(ch, ids), f) = {}
<1> DEFINE new == Index!Without(ch, ids)
<1>1. \A x : x \in new <=> x \in ch /\ x.id \notin ids
  BY DEF Index!Without
<1>2. \A x \in ch : x.id \in ids <=> indexSource[x.id[1]] = {}
  <2> TAKE x \in ch
  <2>1. ASSUME x.id \in ids PROVE indexSource[x.id[1]] = {}
    <3>1. PICK y \in ch : indexSource[y.id[1]] = {} /\ y.id = x.id
      BY <2>1
    <3> QED
      BY <3>1
  <2> QED
    BY <2>1
<1> HIDE DEF new
<1>3. \A f \in Files : indexSource[f] = {} => Of(new, f) = {}
  BY <1>1, <1>2 DEF Of
<1>4. \A f \in Files : indexSource[f] # {} => Of(new, f) = Of(ch, f)
  BY <1>1, <1>2 DEF Of
<1>5. Whole(new)
  <2>1. \A x \in new : x.id[1] \in Files
    BY <1>1 DEF Whole
  <2>2. ASSUME NEW f \in Files PROVE \E c \in Contents : Of(new, f) = ChunksOf(f, c)
    <3>1. CASE indexSource[f] = {}
      <4>1. {} \in Contents /\ ChunksOf(f, {}) = {}
        BY StorageAssumption DEF Index!IndexAssumption, ChunksOf
      <4> QED
        BY <1>3, <3>1, <4>1
    <3>2. CASE indexSource[f] # {}
      BY <1>4, <3>2 DEF Whole
    <3> QED
      BY <3>1, <3>2
  <2> QED
    BY <2>1, <2>2 DEF Whole
<1>6. Fits(Index!Without(st, ids), new)
  <2>1. \A e : e \in Index!Without(st, ids) <=> e \in st /\ e.id \notin ids
    BY DEF Index!Without
  <2> QED
    BY <1>1, <2>1 DEF Fits
<1> QED
  BY <1>3, <1>5, <1>6 DEF new

\* The vector of a chunk.
Embedded(s, c) ==
    [id |-> c.id, of |-> IF Index!Reusable(s, c) = {} THEN c.hash ELSE CHOOSE h \in Index!Reusable(s, c) : TRUE]

IndexedChunks(s, f) ==
    Index!Without(chunks[s], Index!Ids(Index!getChunksForFile(s, f))) \cup Index!ChunkSource(f)
IndexedVectors(s, f) ==
    Index!Without(store[s], Index!Ids(Index!getChunksForFile(s, f)) \cup Index!Ids(Index!ChunkSource(f)))
        \cup {Embedded(s, c) : c \in Index!ChunkSource(f)}

\* A file is indexed: its chunks are those of its content, and their vectors are new or of chunks with the same hash.
LEMMA IndexedIsWhole ==
  ASSUME IndexTyped, NEW s \in Sessions, NEW f \in Files, Fits(store[s], chunks[s])
  PROVE  /\ Whole(IndexedChunks(s, f)) /\ Fits(IndexedVectors(s, f), IndexedChunks(s, f))
         /\ \A e \in IndexedVectors(s, f) : e.id[1] \in Files
         /\ Of(IndexedChunks(s, f), f) = Index!ChunkSource(f)
         /\ \A g \in Files : g # f => Of(IndexedChunks(s, f), g) = Of(chunks[s], g)
<1> DEFINE old == Index!Ids(Index!getChunksForFile(s, f))
           entries == {Embedded(s, c) : c \in Index!ChunkSource(f)}
           ch == IndexedChunks(s, f)
           st == IndexedVectors(s, f)
<1>a. /\ ch = Index!Without(chunks[s], old) \cup Index!ChunkSource(f)
      /\ st = Index!Without(store[s], old \cup Index!Ids(Index!ChunkSource(f))) \cup entries
  BY DEF IndexedChunks, IndexedVectors
<1> HIDE DEF ch, st
<1> DEFINE CS == Index!ChunkSource(f)
<1>1. Whole(chunks[s]) /\ indexSource[f] \in Contents /\ CS = ChunksOf(f, indexSource[f])
      /\ \A e \in store[s] : e.id[1] \in Files
  BY DEF IndexTyped, Index!TypeOK, Index!ChunkSource, ChunksOf
<1>2. Ordered(CS) /\ \A x \in CS : x.id[1] = f /\ x.id = <<f, x.id[2]>>
  BY <1>1, ContentsAreOrdered
<1>3. \A x, y \in CS : x.id = y.id => x = y
  BY <1>2 DEF Ordered
<1>4. \A x \in chunks[s] : x.id \in old <=> x.id[1] = f
  <2> TAKE x \in chunks[s]
  <2>1. ASSUME x.id \in old PROVE x.id[1] = f
    <3>1. PICK y \in chunks[s] : y.id[1] = f /\ y.id = x.id
      BY <2>1 DEF Index!Ids, Index!getChunksForFile
    <3> QED
      BY <3>1
  <2>2. ASSUME x.id[1] = f PROVE x.id \in old
    BY <2>2 DEF Index!Ids, Index!getChunksForFile
  <2> QED
    BY <2>1, <2>2
<1>5. \A i \in Index!Ids(CS) : i[1] = f
  BY <1>2 DEF Index!Ids
<1>6. \A x : x \in ch <=> (x \in chunks[s] /\ x.id[1] # f) \/ x \in CS
  BY <1>a, <1>4 DEF Index!Without
<1>7. \A c \in CS : c.id \in Index!Ids(CS)
  BY DEF Index!Ids
<1> HIDE DEF CS
<1>8. Of(ch, f) = CS /\ \A g \in Files : g # f => Of(ch, g) = Of(chunks[s], g)
  BY <1>2, <1>6 DEF Of
<1>9. Whole(ch)
  BY <1>1, <1>2, <1>6, <1>8 DEF Whole
<1>10. \A e \in entries : \E c \in CS : e.id = c.id /\ e.of = c.hash
  <2> SUFFICES ASSUME NEW c \in CS PROVE Embedded(s, c).id = c.id /\ Embedded(s, c).of = c.hash
    BY DEF CS
  <2>1. \A h \in Index!Reusable(s, c) : h = c.hash
    <3> TAKE h \in Index!Reusable(s, c)
    <3>1. PICK e \in store[s] : h = e.of /\ \E d \in Index!getChunksForFile(s, c.id[1]) : d.hash = c.hash /\ d.id = e.id
      BY DEF Index!Reusable
    <3>2. PICK d \in chunks[s] : d.hash = c.hash /\ d.id = e.id
      BY <3>1 DEF Index!getChunksForFile
    <3> QED
      BY <3>1, <3>2 DEF Fits
  <2> QED
    BY <2>1 DEF Embedded
<1>11. \A c \in CS : \E e \in entries : e.id = c.id
  <2> TAKE c \in CS
  <2>1. Embedded(s, c) \in entries
    BY DEF CS
  <2>2. Embedded(s, c).id = c.id
    BY DEF Embedded
  <2> QED
    BY <2>1, <2>2
<1>12. \A e : e \in st <=> (e \in store[s] /\ e.id \notin old /\ e.id \notin Index!Ids(CS)) \/ e \in entries
  BY <1>a DEF Index!Without, CS
<1>13. \A e \in st : e.id[1] \in Files
  <2>1. \A e \in entries : e.id[1] = f
    BY <1>2, <1>10
  <2> QED
    BY <1>1, <1>12, <2>1
<1>14. Fits(st, ch)
  <2> SUFFICES ASSUME NEW c \in ch PROVE (\E e \in st : e.id = c.id) /\ \A e \in st : e.id = c.id => e.of = c.hash
    BY DEF Fits
  <2>1. CASE c \in CS
    <3>1. \E e \in st : e.id = c.id
      BY <1>11, <1>12, <2>1
    <3>2. ASSUME NEW e \in st, e.id = c.id PROVE e.of = c.hash
      <4>1. e \in entries
        BY <1>7, <1>12, <2>1, <3>2
      <4>2. PICK d \in CS : e.id = d.id /\ e.of = d.hash
        BY <1>10, <4>1
      <4> QED
        BY <1>3, <2>1, <3>2, <4>2
    <3> QED
      BY <3>1, <3>2
  <2>2. CASE c \in chunks[s] /\ c.id[1] # f
    <3>1. c.id \notin old /\ c.id \notin Index!Ids(CS)
      BY <1>4, <1>5, <2>2
    <3>2. \E e \in st : e.id = c.id
      BY <1>12, <2>2, <3>1 DEF Fits
    <3>3. ASSUME NEW e \in st, e.id = c.id PROVE e.of = c.hash
      <4>1. e \notin entries
        BY <1>2, <1>10, <2>2, <3>3
      <4> QED
        BY <1>12, <2>2, <3>3, <4>1 DEF Fits
    <3> QED
      BY <3>2, <3>3
  <2> QED
    BY <1>6, <2>1, <2>2
<1> QED
  BY <1>8, <1>9, <1>13, <1>14 DEF CS, ch, st

\* A file that is not indexed again has the hashes that it has in the index.
LEMMA UnchangedIsCurrent ==
  ASSUME IndexTyped, NEW s \in Sessions, NEW f \in Files, Index!IsIndexed(s, f)
  PROVE  Index!Hashes(Index!getChunksForFile(s, f)) = Index!Hashes(Index!ChunkSource(f))
<1> DEFINE A == Index!getChunksForFile(s, f)
           B == Index!ChunkSource(f)
<1>1. PICK c \in Contents : A = ChunksOf(f, c)
  BY DEF IndexTyped, Whole, Of, Index!getChunksForFile
<1>2. indexSource[f] \in Contents /\ B = ChunksOf(f, indexSource[f])
  BY DEF IndexTyped, Index!TypeOK, Index!ChunkSource, ChunksOf
<1>3. Ordered(A) /\ Ordered(B)
  BY <1>1, <1>2, ContentsAreOrdered
<1>4. /\ Index!Cardinality(A) = Index!Cardinality(B)
      /\ \A a \in A, b \in B :
            Index!Cardinality({x \in A : x.id[2] < a.id[2]}) = Index!Cardinality({y \in B : y.id[2] < b.id[2]})
               => a.hash = b.hash
  BY DEF Index!IsIndexed
<1> HIDE DEF A, B
<1>5. Cardinality(A) = Cardinality(B)
  BY <1>4, SameIndexCardinality
<1>6. ASSUME NEW a \in A, NEW b \in B, Cardinality(Before(A, a)) = Cardinality(Before(B, b)) PROVE a.hash = b.hash
  <2>1. Index!Cardinality(Before(A, a)) = Index!Cardinality(Before(B, b))
    BY <1>6, SameIndexCardinality
  <2> QED
    BY <1>4, <2>1 DEF Before
<1>7. Index!Hashes(A) = Index!Hashes(B)
  BY <1>3, <1>5, <1>6, SameHashes
<1> QED
  BY <1>7 DEF A, B

IndexSteps == {"idle", "locking", "vectors", "metadata", "collect", "index", "save", "commit", "done", "failed"}

\* Types, as the steps need them.
LEMMA IndexTypes ==
  ASSUME IndexTyped
  PROVE  /\ indexSource \in [Files -> Contents] /\ indexLock \in [Index!Dirs -> Sessions \cup {"free"}]
         /\ indexPc \in [Sessions -> IndexSteps] /\ attempt \in [Sessions -> 0..2]
         /\ provider \in [Sessions -> {"model", "null"}]
         /\ todo \in [Sessions -> SUBSET Files] /\ dirty \in [Sessions -> SUBSET Files]
         /\ \A s \in Sessions : \A e \in store[s] : e.id[1] \in Files
         /\ \A s \in Sessions : Index!dir(s) \in Index!Dirs
BY DEF IndexTyped, Index!TypeOK, IndexSteps, Index!dir, Index!Dirs

LEMMA IndexStaysTyped ==
  ASSUME indexSource' \in [Files -> Contents], indexLock' \in [Index!Dirs -> Sessions \cup {"free"}],
         indexPc' \in [Sessions -> IndexSteps], attempt' \in [Sessions -> 0..2],
         provider' \in [Sessions -> {"model", "null"}],
         todo' \in [Sessions -> SUBSET Files], dirty' \in [Sessions -> SUBSET Files],
         DOMAIN store' = Sessions, DOMAIN chunks' = Sessions,
         DOMAIN vectors' = Index!Dirs, DOMAIN metadata' = Index!Dirs,
         \A s \in Sessions : Whole(chunks'[s]) /\ \A e \in store'[s] : e.id[1] \in Files,
         \A d \in Index!Dirs : Whole(metadata'[d].chunks) /\ \A e \in vectors'[d].entries : e.id[1] \in Files
  PROVE  IndexTyped'
<1>1. \A s \in Sessions : \A e \in store'[s] \cup chunks'[s] : e.id[1] \in Files
  BY DEF Whole
<1>2. Index!TypeOK'
  BY <1>1 DEF Index!TypeOK, IndexSteps
<1> QED
  BY <1>2 DEF IndexTyped, Index!Dirs

\* A step of one session, which changes on disk at most what it has the lock of.
LEMMA IndexElsewhere ==
  ASSUME IndexTyped, Locking, Matching, Current, NEW s \in Sessions, UNCHANGED indexSource,
         \A t \in Sessions \ {s} :
            /\ indexPc'[t] = indexPc[t] /\ attempt'[t] = attempt[t] /\ store'[t] = store[t] /\ chunks'[t] = chunks[t]
            /\ todo'[t] = todo[t] /\ dirty'[t] = dirty[t],
         \A d \in Index!Dirs : indexLock'[d] = indexLock[d] \/ indexLock[d] \in {"free", s},
         \A d \in Index!Dirs : vectors'[d] = vectors[d] \/ indexLock[d] = s,
         indexPc'[s] \in Working => indexLock'[Index!dir(s)'] = s,
         \A d \in Index!Dirs :
            metadata'[d].generation = vectors'[d].generation => Fits(vectors'[d].entries, metadata'[d].chunks),
         indexPc'[s] \in {"metadata", "save"} => store'[s] = vectors'[Index!dir(s)'].entries,
         indexPc'[s] \in {"collect", "index", "save", "done"} => Fits(store'[s], chunks'[s]),
         indexPc'[s] \in {"index", "save", "done"} =>
            \A f \in Files \ (dirty'[s] \cup todo'[s]) : Index!Hashes(Of(chunks'[s], f)) = Index!Hashes(Index!ChunkSource(f)),
         indexPc'[s] \in {"save", "done"} => todo'[s] = {}
  PROVE  Locking' /\ Matching' /\ Current'
<1>1. \A t \in Sessions \ {s} : Index!dir(t)' = Index!dir(t)
  BY DEF Index!dir
<1>2. \A t \in Sessions : t # "free"
  BY StorageAssumption DEF Index!IndexAssumption
<1>3. \A t \in Sessions \ {s} : indexPc[t] \in Working => indexLock[Index!dir(t)] = t /\ Index!dir(t) \in Index!Dirs
  BY IndexTypes DEF Locking
<1>4. Locking'
  BY <1>1, <1>2, <1>3 DEF Locking
<1>5. \A t \in Sessions \ {s} : indexPc[t] \in Working => vectors'[Index!dir(t)] = vectors[Index!dir(t)]
  BY <1>3
<1>6. \A t \in Sessions \ {s} : indexPc[t] \in {"metadata", "save"} => indexPc[t] \in Working
  BY DEF Working
<1>7. Matching'
  BY <1>1, <1>5, <1>6 DEF Matching
<1>8. \A f \in Files : Index!ChunkSource(f)' = Index!ChunkSource(f)
  BY DEF Index!ChunkSource
<1>9. \A t \in Sessions, f \in Files : Index!getChunksForFile(t, f)' = Of(chunks'[t], f)
  BY DEF Index!getChunksForFile, Of
<1>10. \A t \in Sessions, f \in Files : Index!getChunksForFile(t, f) = Of(chunks[t], f)
  BY DEF Index!getChunksForFile, Of
<1>11. \A t \in Sessions, f \in Files :
          Index!Hashes(Index!getChunksForFile(t, f))' = Index!Hashes(Of(chunks'[t], f))
  BY <1>9 DEF Index!Hashes
<1>12. \A f \in Files : Index!Hashes(Index!ChunkSource(f))' = Index!Hashes(Index!ChunkSource(f))
  BY <1>8 DEF Index!Hashes
<1>13. \A t \in Sessions \ {s} : indexPc[t] \in {"index", "save", "done"} =>
          \A f \in Files \ (dirty[t] \cup todo[t]) :
             Index!Hashes(Of(chunks[t], f)) = Index!Hashes(Index!ChunkSource(f))
  BY <1>10 DEF Current
<1>14. Current'
  <2>1. ASSUME NEW t \in Sessions, indexPc'[t] \in {"index", "save", "done"}, NEW f \in Files \ (dirty'[t] \cup todo'[t])
        PROVE  Index!Hashes(Of(chunks'[t], f)) = Index!Hashes(Index!ChunkSource(f))
    BY <1>13, <2>1
  <2>2. \A t \in Sessions : indexPc'[t] \in {"save", "done"} => todo'[t] = {}
    BY DEF Current
  <2> QED
    BY <1>11, <1>12, <2>1, <2>2 DEF Current
<1> QED
  BY <1>4, <1>7, <1>14

\* The user edits a file, which every session may have read before.
LEMMA EditStep ==
  ASSUME IndexGood, NEW f \in Files, Index!Edit(f)
  PROVE  IndexGood'
<1>1. /\ \E c \in Contents : indexSource' = [indexSource EXCEPT ![f] = c]
      /\ dirty' = [s \in Sessions |-> dirty[s] \cup {f}]
      /\ UNCHANGED <<vectors, metadata, indexLock, indexPc, attempt, provider, store, chunks, todo>>
  BY DEF Index!Edit, Index!diskVars, Index!sessionVars
<1>2. /\ indexSource' \in [Files -> Contents] /\ \A g \in Files : g # f => indexSource'[g] = indexSource[g]
      /\ dirty' \in [Sessions -> SUBSET Files] /\ \A s \in Sessions : dirty'[s] = dirty[s] \cup {f}
  BY <1>1, IndexTypes DEF IndexGood
<1>3. IndexTyped'
  BY <1>1, <1>2, IndexTypes, IndexStaysTyped DEF IndexGood, IndexTyped
<1>4. Locking' /\ Matching'
  <2>1. \A s \in Sessions : Index!dir(s)' = Index!dir(s)
    BY <1>1 DEF Index!dir
  <2> QED
    BY <1>1, <2>1 DEF IndexGood, Locking, Matching
<1>5. Current'
  <2>1. \A g \in Files : g # f => Index!ChunkSource(g)' = Index!ChunkSource(g)
    BY <1>2 DEF Index!ChunkSource
  <2>2. \A g \in Files : g # f => Index!Hashes(Index!ChunkSource(g))' = Index!Hashes(Index!ChunkSource(g))
    BY <2>1 DEF Index!Hashes
  <2>3. \A s \in Sessions, g \in Files : Index!Hashes(Index!getChunksForFile(s, g))' = Index!Hashes(Index!getChunksForFile(s, g))
    BY <1>1 DEF Index!getChunksForFile, Index!Hashes
  <2>4. \A s \in Sessions : Files \ (dirty'[s] \cup todo'[s]) \subseteq (Files \ (dirty[s] \cup todo[s])) \ {f}
    BY <1>1, <1>2
  <2> QED
    BY <1>1, <2>2, <2>3, <2>4 DEF IndexGood, Current
<1> QED
  BY <1>3, <1>4, <1>5 DEF IndexGood

\* A session begins, or waits for a lock that is free.
LEMMA StartStep ==
  ASSUME IndexGood, NEW s \in Sessions, Index!Start(s) \/ Index!TakeLock(s)
  PROVE  IndexGood'
<1>1. UNCHANGED <<indexSource, vectors, metadata, store, chunks, todo, dirty>>
  BY DEF Index!Start, Index!TakeLock, Index!diskVars
<1>2. PICK t \in {"locking", "vectors"} : indexPc' = [indexPc EXCEPT ![s] = t]
  BY DEF Index!Start, Index!TakeLock, Index!Step
<1>3. /\ provider' \in [Sessions -> {"model", "null"}] /\ attempt' \in [Sessions -> 0..2]
      /\ \A u \in Sessions \ {s} : attempt'[u] = attempt[u]
  BY IndexTypes DEF IndexGood, Index!Start, Index!TakeLock
<1>4. /\ indexPc' \in [Sessions -> IndexSteps] /\ indexPc'[s] = t
      /\ \A u \in Sessions \ {s} : indexPc'[u] = indexPc[u]
  BY <1>2, IndexTypes DEF IndexGood, IndexSteps
<1>5. /\ indexLock' \in [Index!Dirs -> Sessions \cup {"free"}]
      /\ \A d \in Index!Dirs : indexLock'[d] = indexLock[d] \/ indexLock[d] \in {"free", s}
      /\ t \in Working => indexLock'[Index!dir(s)'] = s
  <2>1. CASE Index!Start(s)
    <3>1. UNCHANGED indexLock /\ indexPc'[s] = "locking"
      BY <2>1, IndexTypes DEF Index!Start, Index!diskVars, IndexGood
    <3> QED
      BY <1>4, <3>1, IndexTypes DEF IndexGood, Working
  <2>2. CASE Index!TakeLock(s)
    <3>1. /\ indexLock[Index!dir(s)] = "free" /\ indexLock' = [indexLock EXCEPT ![Index!dir(s)] = s]
          /\ Index!dir(s)' = Index!dir(s)
      BY <2>2 DEF Index!TakeLock, Index!dir
    <3> QED
      BY <3>1, IndexTypes DEF IndexGood
  <2> QED
    BY <2>1, <2>2
<1>6. IndexTyped'
  BY <1>1, <1>3, <1>4, <1>5, IndexTypes, IndexStaysTyped DEF IndexGood, IndexTyped
<1>7. Locking' /\ Matching' /\ Current'
  BY <1>1, <1>3, <1>4, <1>5, IndexElsewhere DEF IndexGood, Matching
<1> QED
  BY <1>6, <1>7 DEF IndexGood

\* What is on disk is loaded under the lock: the vectors, and then the chunks that were saved with them.
LEMMA LoadVectorsStep ==
  ASSUME IndexGood, NEW s \in Sessions, Index!LoadVectors(s)
  PROVE  IndexGood'
<1>1. /\ indexPc[s] = "vectors" /\ chunks' = [chunks EXCEPT ![s] = {}]
      /\ UNCHANGED <<indexSource, vectors, metadata, indexLock, attempt, provider, todo, dirty>>
  BY DEF Index!LoadVectors, Index!diskVars
<1>2. PICK t \in {"metadata", "collect"}, st \in {vectors[Index!dir(s)].entries, {}} :
        /\ indexPc' = [indexPc EXCEPT ![s] = t] /\ store' = [store EXCEPT ![s] = st]
        /\ t = "metadata" => st = vectors[Index!dir(s)].entries
  BY DEF Index!LoadVectors
<1>3. /\ indexPc' \in [Sessions -> IndexSteps] /\ indexPc'[s] = t
      /\ \A u \in Sessions \ {s} : indexPc'[u] = indexPc[u]
  BY <1>2, IndexTypes DEF IndexGood, IndexSteps
<1>4. /\ DOMAIN store' = Sessions /\ store'[s] = st /\ DOMAIN chunks' = Sessions /\ chunks'[s] = {}
      /\ \A u \in Sessions \ {s} : store'[u] = store[u] /\ chunks'[u] = chunks[u]
  BY <1>1, <1>2 DEF IndexGood, IndexTyped
<1>5. Index!dir(s) \in Index!Dirs /\ Index!dir(s)' = Index!dir(s)
  BY <1>1, IndexTypes DEF IndexGood, Index!dir
<1>6. \A e \in st : e.id[1] \in Files
  BY <1>5 DEF IndexGood, IndexTyped
<1>7. IndexTyped'
  <2>1. \A u \in Sessions : Whole(chunks'[u]) /\ \A e \in store'[u] : e.id[1] \in Files
    BY <1>4, <1>6, NothingIsWhole, IndexTypes DEF IndexGood, IndexTyped
  <2> QED
    BY <1>1, <1>3, <1>4, <2>1, IndexTypes, IndexStaysTyped DEF IndexGood, IndexTyped
<1>8. indexLock[Index!dir(s)] = s
  BY <1>1 DEF IndexGood, Locking, Working
<1>9. Fits(store'[s], chunks'[s])
  BY <1>4 DEF Fits
<1>10. indexPc'[s] \in {"metadata", "save"} => store'[s] = vectors'[Index!dir(s)'].entries
  BY <1>1, <1>2, <1>3, <1>4, <1>5
<1> QED
  BY <1>1, <1>3, <1>4, <1>5, <1>7, <1>8, <1>9, <1>10, IndexElsewhere DEF IndexGood, Matching

LEMMA LoadChunksStep ==
  ASSUME IndexGood, NEW s \in Sessions, Index!loadChunkMetadata(s)
  PROVE  IndexGood'
<1> DEFINE d == Index!dir(s)
           ch == IF Index!AreTogether(metadata[d], vectors[d]) THEN metadata[d].chunks ELSE {}
<1>1. /\ indexPc[s] = "metadata" /\ indexPc' = [indexPc EXCEPT ![s] = "collect"]
      /\ chunks' = [chunks EXCEPT ![s] = ch]
      /\ UNCHANGED <<indexSource, vectors, metadata, indexLock, attempt, provider, store, todo, dirty>>
  BY DEF Index!loadChunkMetadata, Index!Step, Index!diskVars
<1>2. d \in Index!Dirs /\ Index!dir(s)' = d /\ indexLock[d] = s /\ store[s] = vectors[d].entries
  BY <1>1, IndexTypes DEF IndexGood, Index!dir, Locking, Working, Matching
<1>3. Whole(ch) /\ Fits(store[s], ch)
  <2>1. CASE metadata[d].generation = vectors[d].generation
    <3>1. Fits(store[s], metadata[d].chunks) /\ Whole(metadata[d].chunks)
      BY <1>2, <2>1 DEF IndexGood, Matching, IndexTyped
    <3> QED
      BY <3>1, NothingIsWhole DEF Fits
  <2>2. CASE metadata[d].generation # vectors[d].generation
    <3>1. ch = {}
      BY <2>2 DEF Index!AreTogether
    <3> QED
      BY <3>1, NothingIsWhole DEF Fits
  <2> QED
    BY <2>1, <2>2
<1> HIDE DEF ch
<1>4. /\ indexPc' \in [Sessions -> IndexSteps] /\ indexPc'[s] = "collect"
      /\ \A u \in Sessions \ {s} : indexPc'[u] = indexPc[u]
  BY <1>1, IndexTypes DEF IndexGood, IndexSteps
<1>5. DOMAIN chunks' = Sessions /\ chunks'[s] = ch /\ \A u \in Sessions \ {s} : chunks'[u] = chunks[u]
  BY <1>1 DEF IndexGood, IndexTyped
<1>6. IndexTyped'
  <2>1. \A u \in Sessions : Whole(chunks'[u]) /\ \A e \in store'[u] : e.id[1] \in Files
    BY <1>1, <1>3, <1>5, IndexTypes DEF IndexGood, IndexTyped
  <2> QED
    BY <1>1, <1>4, <1>5, <2>1, IndexTypes, IndexStaysTyped DEF IndexGood, IndexTyped
<1> QED
  BY <1>1, <1>2, <1>3, <1>4, <1>5, <1>6, IndexElsewhere DEF IndexGood, Matching

\* The files are listed, and those that are gone leave the index.
LEMMA CollectStep ==
  ASSUME IndexGood, NEW s \in Sessions, Index!collectSourceFiles(s)
  PROVE  IndexGood'
<1> DEFINE ids == {c.id : c \in {x \in chunks[s] : indexSource[x.id[1]] = {}}}
           ch == Index!Without(chunks[s], ids)
           st == Index!Without(store[s], ids)
<1>1. /\ indexPc[s] = "collect" /\ indexPc' = [indexPc EXCEPT ![s] = "index"]
      /\ chunks' = [chunks EXCEPT ![s] = ch] /\ store' = [store EXCEPT ![s] = st]
      /\ todo' = [todo EXCEPT ![s] = {f \in Files : indexSource[f] # {}}] /\ dirty' = [dirty EXCEPT ![s] = {}]
      /\ UNCHANGED <<indexSource, vectors, metadata, indexLock, attempt, provider>>
  BY DEF Index!collectSourceFiles, Index!Step, Index!diskVars
<1>2. Whole(chunks[s]) /\ Fits(store[s], chunks[s]) /\ IndexTyped
  BY <1>1 DEF IndexGood, IndexTyped, Matching
<1>3. Whole(ch) /\ Fits(st, ch) /\ \A f \in Files : indexSource[f] = {} => Of(ch, f) = {}
  BY <1>2, CleanedIsWhole
<1>4. \A e \in st : e.id[1] \in Files
  BY <1>2, IndexTypes DEF Index!Without
<1> HIDE DEF ch, st
<1>5. /\ indexPc' \in [Sessions -> IndexSteps] /\ indexPc'[s] = "index"
      /\ \A u \in Sessions \ {s} : indexPc'[u] = indexPc[u]
  BY <1>1, <1>2, IndexTypes DEF IndexSteps
<1>6. /\ todo' \in [Sessions -> SUBSET Files] /\ todo'[s] = {f \in Files : indexSource[f] # {}}
      /\ dirty' \in [Sessions -> SUBSET Files] /\ dirty'[s] = {}
      /\ \A u \in Sessions \ {s} : todo'[u] = todo[u] /\ dirty'[u] = dirty[u]
  BY <1>1, <1>2, IndexTypes
<1>7. /\ DOMAIN store' = Sessions /\ store'[s] = st /\ DOMAIN chunks' = Sessions /\ chunks'[s] = ch
      /\ \A u \in Sessions \ {s} : store'[u] = store[u] /\ chunks'[u] = chunks[u]
  BY <1>1, <1>2 DEF IndexTyped
<1>8. IndexTyped'
  <2>1. \A u \in Sessions : Whole(chunks'[u]) /\ \A e \in store'[u] : e.id[1] \in Files
    BY <1>2, <1>3, <1>4, <1>7, IndexTypes DEF IndexTyped
  <2> QED
    BY <1>1, <1>2, <1>5, <1>6, <1>7, <2>1, IndexTypes, IndexStaysTyped DEF IndexTyped
<1>9. indexLock'[Index!dir(s)'] = s
  BY <1>1 DEF IndexGood, Locking, Working, Index!dir
<1>10. \A f \in Files \ (dirty'[s] \cup todo'[s]) : Index!Hashes(Of(chunks'[s], f)) = Index!Hashes(Index!ChunkSource(f))
  <2> SUFFICES ASSUME NEW f \in Files, indexSource[f] = {}
               PROVE  Index!Hashes(Of(ch, f)) = Index!Hashes(Index!ChunkSource(f))
    BY <1>6, <1>7
  <2>1. Of(ch, f) = {} /\ Index!ChunkSource(f) = {}
    BY <1>3 DEF Index!ChunkSource
  <2> QED
    BY <2>1
<1> QED
  BY <1>1, <1>3, <1>5, <1>6, <1>7, <1>8, <1>9, <1>10, IndexElsewhere DEF IndexGood, Matching

LEMMA IndexFileStep ==
  ASSUME IndexGood, NEW s \in Sessions, NEW f \in Files, Index!indexFile(s, f)
  PROVE  IndexGood'
<1>1. /\ indexPc[s] = "index" /\ f \in todo[s] /\ todo' = [todo EXCEPT ![s] = todo[s] \ {f}]
      /\ UNCHANGED <<indexSource, vectors, metadata, indexLock, indexPc, attempt, provider, dirty>>
  BY DEF Index!indexFile, Index!diskVars
<1>2. IndexTyped /\ Whole(chunks[s]) /\ Fits(store[s], chunks[s]) /\ \A e \in store[s] : e.id[1] \in Files
  BY <1>1, IndexTypes DEF IndexGood, IndexTyped, Matching
<1>3. \E ch, st :
        /\ DOMAIN store' = Sessions /\ store'[s] = st /\ DOMAIN chunks' = Sessions /\ chunks'[s] = ch
        /\ \A u \in Sessions \ {s} : store'[u] = store[u] /\ chunks'[u] = chunks[u]
        /\ Whole(ch) /\ Fits(st, ch) /\ \A e \in st : e.id[1] \in Files
        /\ Index!Hashes(Of(ch, f)) = Index!Hashes(Index!ChunkSource(f))
        /\ \A g \in Files : g # f => Of(ch, g) = Of(chunks[s], g)
  <2>1. CASE indexSource[f] # {} /\ Index!IsIndexed(s, f)
    <3>1. UNCHANGED <<store, chunks>>
      BY <2>1 DEF Index!indexFile
    <3>2. DOMAIN store = Sessions /\ DOMAIN chunks = Sessions
      BY <1>2 DEF IndexTyped
    <3>3. Index!Hashes(Of(chunks[s], f)) = Index!Hashes(Index!ChunkSource(f))
      BY <1>2, <2>1, UnchangedIsCurrent DEF Of, Index!getChunksForFile
    <3> QED
      BY <1>2, <3>1, <3>2, <3>3
  <2>2. CASE ~(indexSource[f] # {} /\ Index!IsIndexed(s, f))
    <3> DEFINE ch == IndexedChunks(s, f)
               st == IndexedVectors(s, f)
    <3>1. chunks' = [chunks EXCEPT ![s] = ch] /\ store' = [store EXCEPT ![s] = st]
      BY <2>2 DEF Index!indexFile, IndexedChunks, IndexedVectors, Embedded
    <3>2. /\ Whole(ch) /\ Fits(st, ch) /\ \A e \in st : e.id[1] \in Files
          /\ Of(ch, f) = Index!ChunkSource(f) /\ \A g \in Files : g # f => Of(ch, g) = Of(chunks[s], g)
      BY <1>2, IndexedIsWhole
    <3> HIDE DEF ch, st
    <3>3. /\ DOMAIN store' = Sessions /\ store'[s] = st /\ DOMAIN chunks' = Sessions /\ chunks'[s] = ch
          /\ \A u \in Sessions \ {s} : store'[u] = store[u] /\ chunks'[u] = chunks[u]
      BY <1>2, <3>1 DEF IndexTyped
    <3> QED
      BY <3>2, <3>3
  <2> QED
    BY <2>1, <2>2
<1>4. PICK ch, st :
        /\ DOMAIN store' = Sessions /\ store'[s] = st /\ DOMAIN chunks' = Sessions /\ chunks'[s] = ch
        /\ \A u \in Sessions \ {s} : store'[u] = store[u] /\ chunks'[u] = chunks[u]
        /\ Whole(ch) /\ Fits(st, ch) /\ \A e \in st : e.id[1] \in Files
        /\ Index!Hashes(Of(ch, f)) = Index!Hashes(Index!ChunkSource(f))
        /\ \A g \in Files : g # f => Of(ch, g) = Of(chunks[s], g)
  BY <1>3
<1>5. /\ DOMAIN store' = Sessions /\ store'[s] = st /\ DOMAIN chunks' = Sessions /\ chunks'[s] = ch
      /\ \A u \in Sessions \ {s} : store'[u] = store[u] /\ chunks'[u] = chunks[u]
  BY <1>4
<1>6. /\ todo' \in [Sessions -> SUBSET Files] /\ todo'[s] = todo[s] \ {f}
      /\ \A u \in Sessions \ {s} : todo'[u] = todo[u]
  BY <1>1, <1>2, IndexTypes
<1>7. IndexTyped'
  <2>1. \A u \in Sessions : Whole(chunks'[u]) /\ \A e \in store'[u] : e.id[1] \in Files
    BY <1>2, <1>4, <1>5, IndexTypes DEF IndexTyped
  <2> QED
    BY <1>1, <1>2, <1>5, <1>6, <2>1, IndexTypes, IndexStaysTyped DEF IndexTyped
<1>8. indexLock'[Index!dir(s)'] = s
  BY <1>1 DEF IndexGood, Locking, Working, Index!dir
<1>9. ASSUME NEW g \in Files \ (dirty'[s] \cup todo'[s])
      PROVE  Index!Hashes(Of(chunks'[s], g)) = Index!Hashes(Index!ChunkSource(g))
  <2>1. CASE g = f
    BY <1>4, <1>5, <2>1
  <2>2. CASE g # f
    <3>1. g \in Files \ (dirty[s] \cup todo[s])
      BY <1>1, <1>6, <2>2
    <3>2. Index!Hashes(Of(chunks[s], g)) = Index!Hashes(Index!ChunkSource(g))
      BY <1>1, <3>1 DEF IndexGood, Current, Of, Index!getChunksForFile
    <3> QED
      BY <1>4, <1>5, <2>2, <3>2
  <2> QED
    BY <2>1, <2>2
<1> QED
  BY <1>1, <1>4, <1>5, <1>6, <1>7, <1>8, <1>9, IndexElsewhere DEF IndexGood, Matching

\* A failure: the lock is released, and the session starts over somewhere else, or gives up.
LEMMA FallBackStep ==
  ASSUME IndexGood, NEW s \in Sessions, Index!EmbeddingFails(s) \/ Index!SaveFails(s)
  PROVE  IndexGood'
<1>1. indexPc[s] \in Working /\ Index!FallBack(s)
  BY DEF Index!EmbeddingFails, Index!SaveFails, Working
<1>2. /\ indexLock' = [indexLock EXCEPT ![Index!dir(s)] = "free"] /\ indexLock[Index!dir(s)] = s
      /\ provider' = [provider EXCEPT ![s] = "null"]
      /\ UNCHANGED <<indexSource, vectors, metadata, store, chunks, todo, dirty>>
  BY <1>1 DEF Index!FallBack, IndexGood, Locking
<1>3. PICK t \in {"locking", "failed"} : indexPc' = [indexPc EXCEPT ![s] = t]
  BY <1>1 DEF Index!FallBack
<1>4. attempt' \in [Sessions -> 0..2] /\ \A u \in Sessions \ {s} : attempt'[u] = attempt[u]
  <2>1. CASE attempt[s] < 2
    <3>1. attempt' = [attempt EXCEPT ![s] = attempt[s] + 1] /\ attempt[s] + 1 \in 0..2
      BY <1>1, <2>1, IndexTypes DEF Index!FallBack, IndexGood
    <3> QED
      BY <3>1, IndexTypes DEF IndexGood
  <2>2. CASE ~(attempt[s] < 2)
    BY <1>1, <2>2, IndexTypes DEF Index!FallBack, IndexGood
  <2> QED
    BY <2>1, <2>2
<1>5. /\ indexPc' \in [Sessions -> IndexSteps] /\ indexPc'[s] = t
      /\ \A u \in Sessions \ {s} : indexPc'[u] = indexPc[u]
  BY <1>3, IndexTypes DEF IndexGood, IndexSteps
<1>6. /\ indexLock' \in [Index!Dirs -> Sessions \cup {"free"}]
      /\ \A d \in Index!Dirs : indexLock'[d] = indexLock[d] \/ indexLock[d] \in {"free", s}
      /\ provider' \in [Sessions -> {"model", "null"}]
  BY <1>2, IndexTypes DEF IndexGood
<1>7. IndexTyped'
  BY <1>2, <1>4, <1>5, <1>6, IndexTypes, IndexStaysTyped DEF IndexGood, IndexTyped
<1>8. t \notin Working
  BY DEF Working
<1> QED
  BY <1>2, <1>4, <1>5, <1>6, <1>7, <1>8, IndexElsewhere DEF IndexGood, Matching

\* The vectors are written under a number that is new, so that the chunks on disk are not theirs.
LEMMA SaveVectorsStep ==
  ASSUME IndexGood, NEW s \in Sessions, Index!SaveVectors(s)
  PROVE  IndexGood'
<1> DEFINE d == Index!dir(s)
           Unused(n) == \A e \in Index!Dirs : n \notin {vectors[e].generation, metadata[e].generation}
           g == CHOOSE n \in 1..5 : Unused(n)
           v == [provider |-> provider[s], entries |-> store[s], generation |-> g]
<1>1. /\ indexPc[s] = "index" /\ indexPc' = [indexPc EXCEPT ![s] = "save"] /\ todo[s] = {}
      /\ vectors' = [vectors EXCEPT ![d] = v]
      /\ UNCHANGED <<indexSource, metadata, indexLock, attempt, provider, store, chunks, todo, dirty>>
  BY DEF Index!SaveVectors, Index!Step
<1>2. Unused(g)
  <2> DEFINE a == vectors["semantic"].generation
             b == vectors["lexical"].generation
             h == metadata["semantic"].generation
             k == metadata["lexical"].generation
  <2>1. \A n : n \notin {a, b, h, k} => Unused(n)
    BY DEF Index!Dirs
  <2>2. \E n \in {1, 2, 3, 4, 5} : n \notin {a, b, h, k}
    <3> HIDE DEF a, b, h, k
    <3> QED
      OBVIOUS
  <2>3. \E n \in 1..5 : Unused(n)
    <3> HIDE DEF Unused, a, b, h, k
    <3> QED
      BY <2>1, <2>2
  <2> HIDE DEF Unused
  <2> QED
    BY <2>3
<1>3. d \in Index!Dirs /\ Index!dir(s)' = d /\ indexLock[d] = s
  BY <1>1, IndexTypes DEF IndexGood, Index!dir, Locking, Working
<1>4. g # metadata[d].generation
  BY <1>2, <1>3
<1> HIDE DEF g
<1>5. /\ DOMAIN vectors' = Index!Dirs /\ vectors'[d] = v /\ \A e \in Index!Dirs : e # d => vectors'[e] = vectors[e]
  BY <1>1, <1>3 DEF IndexGood, IndexTyped
<1>6. v.entries = store[s] /\ v.generation = g
  OBVIOUS
<1> HIDE DEF v, d
<1>7. /\ indexPc' \in [Sessions -> IndexSteps] /\ indexPc'[s] = "save"
      /\ \A u \in Sessions \ {s} : indexPc'[u] = indexPc[u]
  BY <1>1, IndexTypes DEF IndexGood, IndexSteps
<1>8. IndexTyped'
  <2>1. \A e \in Index!Dirs : Whole(metadata'[e].chunks) /\ \A x \in vectors'[e].entries : x.id[1] \in Files
    BY <1>1, <1>5, <1>6, IndexTypes DEF IndexGood, IndexTyped
  <2>2. \A u \in Sessions : Whole(chunks'[u]) /\ \A e \in store'[u] : e.id[1] \in Files
    BY <1>1, IndexTypes DEF IndexGood, IndexTyped
  <2> QED
    BY <1>1, <1>5, <1>7, <2>1, <2>2, IndexTypes, IndexStaysTyped DEF IndexGood, IndexTyped
<1>9. \A e \in Index!Dirs :
         metadata'[e].generation = vectors'[e].generation => Fits(vectors'[e].entries, metadata'[e].chunks)
  BY <1>1, <1>4, <1>5, <1>6 DEF IndexGood, Matching
<1>10. Fits(store[s], chunks[s])
  BY <1>1 DEF IndexGood, Matching
<1>11. \A f \in Files \ (dirty'[s] \cup todo'[s]) : Index!Hashes(Of(chunks'[s], f)) = Index!Hashes(Index!ChunkSource(f))
  BY <1>1 DEF IndexGood, Current, Of, Index!getChunksForFile
<1> QED
  BY <1>1, <1>3, <1>5, <1>6, <1>7, <1>8, <1>9, <1>10, <1>11, IndexElsewhere DEF IndexGood

\* The chunks are written with the number of their vectors, and the lock is released.
LEMMA SaveChunksStep ==
  ASSUME IndexGood, NEW s \in Sessions, Index!saveChunkMetadata(s)
  PROVE  IndexGood'
<1> DEFINE d == Index!dir(s)
           m == [generation |-> vectors[d].generation, chunks |-> chunks[s]]
<1>1. /\ indexPc[s] = "save" /\ indexPc' = [indexPc EXCEPT ![s] = "done"]
      /\ metadata' = [metadata EXCEPT ![d] = m] /\ indexLock' = [indexLock EXCEPT ![d] = "free"]
      /\ UNCHANGED <<indexSource, vectors, attempt, provider, store, chunks, todo, dirty>>
  BY DEF Index!saveChunkMetadata, Index!Step
<1>2. d \in Index!Dirs /\ Index!dir(s)' = d /\ indexLock[d] = s
  BY <1>1, IndexTypes DEF IndexGood, Index!dir, Locking, Working
<1>3. Fits(store[s], chunks[s]) /\ store[s] = vectors[d].entries /\ todo[s] = {} /\ Whole(chunks[s])
  BY <1>1 DEF IndexGood, Matching, Current, IndexTyped
<1>4. m.chunks = chunks[s] /\ m.generation = vectors[d].generation
  OBVIOUS
<1> HIDE DEF m, d
<1>5. DOMAIN metadata' = Index!Dirs /\ metadata'[d] = m /\ \A e \in Index!Dirs : e # d => metadata'[e] = metadata[e]
  BY <1>1, <1>2 DEF IndexGood, IndexTyped
<1>6. /\ indexLock' \in [Index!Dirs -> Sessions \cup {"free"}]
      /\ \A e \in Index!Dirs : indexLock'[e] = indexLock[e] \/ indexLock[e] \in {"free", s}
  BY <1>1, <1>2, IndexTypes DEF IndexGood
<1>7. /\ indexPc' \in [Sessions -> IndexSteps] /\ indexPc'[s] = "done" /\ "done" \notin Working
      /\ \A u \in Sessions \ {s} : indexPc'[u] = indexPc[u]
  BY <1>1, IndexTypes DEF IndexGood, IndexSteps, Working
<1>8. IndexTyped'
  <2>1. \A e \in Index!Dirs : Whole(metadata'[e].chunks) /\ \A x \in vectors'[e].entries : x.id[1] \in Files
    BY <1>1, <1>3, <1>4, <1>5 DEF IndexGood, IndexTyped
  <2>2. \A u \in Sessions : Whole(chunks'[u]) /\ \A e \in store'[u] : e.id[1] \in Files
    BY <1>1, IndexTypes DEF IndexGood, IndexTyped
  <2> QED
    BY <1>1, <1>5, <1>6, <1>7, <2>1, <2>2, IndexTypes, IndexStaysTyped DEF IndexGood, IndexTyped
<1>9. \A e \in Index!Dirs :
         metadata'[e].generation = vectors'[e].generation => Fits(vectors'[e].entries, metadata'[e].chunks)
  BY <1>1, <1>3, <1>4, <1>5 DEF IndexGood, Matching
<1>10. \A f \in Files \ (dirty'[s] \cup todo'[s]) : Index!Hashes(Of(chunks'[s], f)) = Index!Hashes(Index!ChunkSource(f))
  BY <1>1 DEF IndexGood, Current, Of, Index!getChunksForFile
<1> QED
  BY <1>1, <1>2, <1>3, <1>5, <1>6, <1>7, <1>8, <1>9, <1>10, IndexElsewhere DEF IndexGood

\* A session dies, or is aborted: its lock is taken away, and it knows nothing any more.
LEMMA StopStep ==
  ASSUME IndexGood, NEW s \in Sessions, Index!Stop(s)
  PROVE  IndexGood'
<1>1. /\ indexPc' = [indexPc EXCEPT ![s] = "idle"]
      /\ indexLock' = [indexLock EXCEPT ![Index!dir(s)] = IF @ = s THEN "free" ELSE @]
      /\ store' = [store EXCEPT ![s] = {}] /\ chunks' = [chunks EXCEPT ![s] = {}]
      /\ UNCHANGED <<indexSource, vectors, metadata, attempt, provider, todo, dirty>>
  BY DEF Index!Stop
<1>2. /\ indexLock' \in [Index!Dirs -> Sessions \cup {"free"}]
      /\ \A e \in Index!Dirs : indexLock'[e] = indexLock[e] \/ indexLock[e] \in {"free", s}
  BY <1>1, IndexTypes DEF IndexGood
<1>3. /\ indexPc' \in [Sessions -> IndexSteps] /\ indexPc'[s] = "idle" /\ "idle" \notin Working
      /\ \A u \in Sessions \ {s} : indexPc'[u] = indexPc[u]
  BY <1>1, IndexTypes DEF IndexGood, IndexSteps, Working
<1>4. /\ DOMAIN store' = Sessions /\ store'[s] = {} /\ DOMAIN chunks' = Sessions /\ chunks'[s] = {}
      /\ \A u \in Sessions \ {s} : store'[u] = store[u] /\ chunks'[u] = chunks[u]
  BY <1>1 DEF IndexGood, IndexTyped
<1>5. IndexTyped'
  <2>1. \A u \in Sessions : Whole(chunks'[u]) /\ \A e \in store'[u] : e.id[1] \in Files
    BY <1>4, NothingIsWhole, IndexTypes DEF IndexGood, IndexTyped
  <2> QED
    BY <1>1, <1>2, <1>3, <1>4, <2>1, IndexTypes, IndexStaysTyped DEF IndexGood, IndexTyped
<1> QED
  BY <1>1, <1>2, <1>3, <1>4, <1>5, IndexElsewhere DEF IndexGood, Matching

LEMMA IndexStep ==
  ASSUME IndexGood, [Index!Next]_indexVars
  PROVE  IndexGood'
<1>1. CASE UNCHANGED indexVars
  <2>1. UNCHANGED <<indexSource, vectors, metadata, indexLock, indexPc, attempt, provider, store, chunks, todo, dirty>>
    BY <1>1 DEF indexVars
  <2>2. IndexTyped'
    BY <2>1, IndexTypes, IndexStaysTyped DEF IndexGood, IndexTyped
  <2>3. Locking' /\ Matching'
    BY <2>1 DEF IndexGood, Locking, Matching, Index!dir
  <2>4. Current'
    BY <2>1 DEF IndexGood, Current, Index!Hashes, Index!getChunksForFile, Index!ChunkSource
  <2> QED
    BY <2>2, <2>3, <2>4 DEF IndexGood
<1>2. CASE Index!Next
  BY <1>2, EditStep, StartStep, LoadVectorsStep, LoadChunksStep, CollectStep, IndexFileStep, FallBackStep,
     SaveVectorsStep, SaveChunksStep, StopStep DEF Index!Next
<1> QED
  BY <1>1, <1>2

LEMMA IndexBegins ==
  ASSUME Index!Init
  PROVE  IndexGood
<1>1. /\ indexSource \in [Files -> Contents] /\ indexPc = [s \in Sessions |-> "idle"]
      /\ vectors = [d \in Index!Dirs |-> [provider |-> "none", generation |-> 0, entries |-> {}]]
      /\ metadata = [d \in Index!Dirs |-> [generation |-> 0, chunks |-> {}]]
      /\ store = [s \in Sessions |-> {}] /\ chunks = [s \in Sessions |-> {}]
  BY DEF Index!Init
<1>2. Index!TypeOK
  BY <1>1 DEF Index!Init, Index!TypeOK
<1>3. IndexTyped
  BY <1>1, <1>2, NothingIsWhole DEF IndexTyped
<1>4. Locking /\ Current
  BY <1>1 DEF Locking, Working, Current
<1>5. Matching
  BY <1>1 DEF Matching, Fits
<1> QED
  BY <1>3, <1>4, <1>5 DEF IndexGood

LEMMA IndexHolds == Spec => []IndexGood
<1>1. Init => IndexGood
  BY IndexPart, IndexBegins
<1>2. IndexGood /\ [Next]_StorageVars => IndexGood'
  BY IndexPart, IndexStep
<1> QED
  BY <1>1, <1>2, PTL DEF Spec, StorageVars

\* The index, for any number of sessions, files and edits: the vectors by which a session finds a chunk are of what
\* the chunk holds, whichever sessions died between the two files that hold them; and an index that is ready
\* has what every file holds that was not edited meanwhile.
THEOREM IndexIsOfTheSources == Spec => []IndexIsSound
<1>1. IndexGood => Index!IndexIsSound
  <2> SUFFICES ASSUME IndexGood PROVE Index!IndexIsSound
    OBVIOUS
  <2>1. ASSUME NEW s \in Sessions, indexPc[s] \in {"collect", "index", "save", "done"}, NEW c \in chunks[s]
        PROVE  {e.of : e \in {x \in store[s] : x.id = c.id}} = {c.hash}
    BY <2>1 DEF IndexGood, Matching, Fits
  <2>2. Index!VectorsAreOfTheirChunks
    BY <2>1 DEF Index!VectorsAreOfTheirChunks
  <2>3. Index!IndexIsCurrent
    BY DEF Index!IndexIsCurrent, IndexGood, Current
  <2> QED
    BY <2>2, <2>3 DEF Index!IndexIsSound
<1> QED
  BY <1>1, IndexHolds, PTL DEF IndexIsSound

-----------------------------------------------------------------------------
(***************************************************************************)
(* The transcripts: while appends do not overlap, the current file alone   *)
(* has an unfinished line, at its end, until the next append cuts it off;  *)
(* and while no rename is refused, a rotation moves a file to a free place.*)
(***************************************************************************)
\* A transcript takes its own steps, or none.
LEMMA LinesPart ==
    /\ Init => Lines!Init
    /\ [Next]_StorageVars => [Lines!Next]_transcriptVars
BY DEF Init, Next, StorageVars, Others

\* The whole lines of some files, and whether, the oldest file first, their numbers increase.
ReadFrom(f) == {n \in 1..MaxRecords : \E i \in DOMAIN f : \E k \in 1..Len(f[i]) : f[i][k] = n}
Increasing(f) == \A i, j \in DOMAIN f : \A k \in 1..Len(f[i]), l \in 1..Len(f[j]) :
    (i > j \/ (i = j /\ k < l)) /\ f[j][l] # Lines!Part => f[i][k] < f[j][l]
\* No record is merged into another, and what is not a whole line is the last one of the current file.
Unmerged(f) == \A i \in DOMAIN f : \A k \in 1..Len(f[i]) :
    /\ f[i][k] \in 0..MaxRecords
    /\ f[i][k] = Lines!Part => i = 0 /\ k = Len(f[i])
\* The current file ends with a whole line.
Repaired(f) == 0 \in DOMAIN f => \A k \in 1..Len(f[0]) : f[0][k] # Lines!Part

\* One append at a time, of the record that began last; it cuts off the unfinished line and nothing else, and goes
\* on with whole lines.
InTurn ==
    /\ \A a, b \in Appenders : linePc[a] # "idle" /\ linePc[b] # "idle" => a = b
    /\ \A a \in Appenders : linePc[a] # "idle" => record[a] = lineRecords /\ lineRecords # 0
    /\ \A a \in Appenders : linePc[a] = "truncate" =>
          /\ handle[a] = 0 /\ 0 \in DOMAIN lineFile /\ lineFile[0] # <<>>
          /\ lineSeen[a] = Len(lineFile[0]) - 1 /\ lineFile[0][Len(lineFile[0])] = Lines!Part
    /\ \A a \in Appenders : linePc[a] \notin {"idle", "repair", "truncate"} => Repaired(lineFile)

\* Where a rotation goes on, the place of the next file is free; and what is numbered like a record was begun.
Rotating == \A a \in Appenders :
    /\ linePc[a] = "shift2" => 3 \notin DOMAIN lineFile
    /\ linePc[a] = "shift1" => 2 \notin DOMAIN lineFile
    /\ linePc[a] = "rotate" => 1 \notin DOMAIN lineFile
    /\ linePc[a] \notin {"copy", "empty"}
Begun ==
    /\ \A n \in Lines!ToSet(lineAcknowledged) : n \in 1..lineRecords /\ \A a \in Appenders : linePc[a] # "idle" => n < lineRecords
    /\ dropped \subseteq Lines!ToSet(lineAcknowledged)
    /\ \A k, l \in 1..Len(lineAcknowledged) : k < l => lineAcknowledged[k] < lineAcknowledged[l]
Kept == ReadFrom(lineFile) = Lines!ToSet(lineAcknowledged) \ dropped

Uncrossed == "overlap" \notin disturbed => InTurn /\ Unmerged(lineFile)
Calm == disturbed \subseteq {"crash"} => Rotating /\ Begun /\ Kept /\ Increasing(lineFile)
LineGood == Lines!TypeOK /\ Uncrossed /\ Calm

LEMMA LineNumbers ==
    /\ MaxRecords \in Nat /\ Lines!Part = 0 /\ Lines!Merged = MaxRecords + 1 /\ Lines!Gone = 4
    /\ Lines!Part..Lines!Merged = 0..(MaxRecords + 1)
BY StorageAssumption DEF Lines!TranscriptAssumption, Lines!Part, Lines!Merged, Lines!Gone

LEMMA LinesOf ==
  ASSUME NEW s \in Seq(Lines!Part..Lines!Merged)
  PROVE  /\ Len(s) \in Nat /\ DOMAIN s = 1..Len(s) /\ \A k \in 1..Len(s) : s[k] \in 0..(MaxRecords + 1)
         /\ Lines!ToSet(s) = {s[k] : k \in 1..Len(s)}
BY LineNumbers DEF Lines!ToSet

\* What the operators on files and lines give.
LEMMA WithIs ==
  ASSUME NEW f, NEW i, NEW s
  PROVE  /\ DOMAIN Lines!With(f, i, s) = DOMAIN f \cup {i} /\ Lines!With(f, i, s)[i] = s
         /\ \A j \in DOMAIN f \ {i} : Lines!With(f, i, s)[j] = f[j]
BY DEF Lines!With

LEMMA WithoutIs ==
  ASSUME NEW f, NEW i
  PROVE  /\ DOMAIN Lines!Without(f, i) = DOMAIN f \ {i}
         /\ \A j \in DOMAIN f \ {i} : Lines!Without(f, i)[j] = f[j]
BY DEF Lines!Without

LEMMA MovedIs ==
  ASSUME NEW i \in 0..2
  PROVE  /\ DOMAIN Lines!Moved(i, i + 1) = (DOMAIN lineFile \ {i}) \cup {i + 1}
         /\ Lines!Moved(i, i + 1)[i + 1] = lineFile[i]
         /\ \A j \in DOMAIN lineFile \ {i, i + 1} : Lines!Moved(i, i + 1)[j] = lineFile[j]
<1>1. i + 1 # i
  OBVIOUS
<1> DEFINE f == Lines!Without(lineFile, i)
<1>2. DOMAIN f = DOMAIN lineFile \ {i} /\ \A j \in DOMAIN lineFile \ {i} : f[j] = lineFile[j]
  BY WithoutIs
<1>3. Lines!Moved(i, i + 1) = Lines!With(f, i + 1, lineFile[i])
  BY DEF Lines!Moved
<1> HIDE DEF f
<1>4. /\ DOMAIN Lines!With(f, i + 1, lineFile[i]) = DOMAIN f \cup {i + 1}
      /\ Lines!With(f, i + 1, lineFile[i])[i + 1] = lineFile[i]
      /\ \A j \in DOMAIN f \ {i + 1} : Lines!With(f, i + 1, lineFile[i])[j] = f[j]
  BY DEF Lines!With
<1> QED
  BY <1>1, <1>2, <1>3, <1>4

LEMMA CutIs ==
  ASSUME NEW S, Lines!Part \in S, NEW s \in Seq(S), NEW n \in Nat
  PROVE  /\ Lines!Cut(s, n) \in Seq(S)
         /\ n <= Len(s) => Len(Lines!Cut(s, n)) = n /\ \A k \in 1..n : Lines!Cut(s, n)[k] = s[k]
<1>2. CASE n <= Len(s)
  <2>1. Lines!Cut(s, n) = SubSeq(s, 1, n)
    BY <1>2 DEF Lines!Cut
  <2>2. \A k \in 1..n : s[k] \in S
    BY <1>2
  <2>3. /\ SubSeq(s, 1, n) \in Seq(S) /\ Len(SubSeq(s, 1, n)) = n
        /\ \A k \in 1..n : SubSeq(s, 1, n)[k] = s[k]
    BY <1>2, <2>2
  <2> QED
    BY <2>1, <2>3
<1>3. CASE ~(n <= Len(s))
  BY <1>3 DEF Lines!Cut
<1> QED
  BY <1>2, <1>3

LEMMA AppendedIs ==
  ASSUME NEW S, Lines!Part \in S, Lines!Merged \in S, NEW s \in Seq(S), NEW n \in S
  PROVE  /\ Lines!Appended(s, n) \in Seq(S)
         /\ (\A k \in 1..Len(s) : s[k] # Lines!Part) => /\ Len(Lines!Appended(s, n)) = Len(s) + 1
                                                        /\ \A k \in 1..Len(s) : Lines!Appended(s, n)[k] = s[k]
                                                        /\ Lines!Appended(s, n)[Len(s) + 1] = n
<1>2. CASE s # <<>> /\ Lines!Last(s) = Lines!Part
  <2>1. Len(s) \in Nat \ {0} /\ s[Len(s)] = Lines!Part /\ Len(s) - 1 \in 0..Len(s)
    BY <1>2 DEF Lines!Last
  <2>2. \A k \in 1..Len(s) - 1 : s[k] \in S
    BY <2>1
  <2>3. Lines!Front(s) \in Seq(S)
    BY <2>1, <2>2 DEF Lines!Front
  <2>4. \A x \in S : Append(Lines!Front(s), x) \in Seq(S)
    BY <2>3
  <2>5. Lines!Appended(s, n) \in Seq(S)
    BY <1>2, <2>4 DEF Lines!Appended
  <2> QED
    BY <2>1, <2>5
<1>3. CASE ~(s # <<>> /\ Lines!Last(s) = Lines!Part)
  <2>1. Lines!Appended(s, n) = Append(s, n)
    BY <1>3 DEF Lines!Appended
  <2> QED
    BY <2>1
<1> QED
  BY <1>2, <1>3

LineSteps ==
    {"idle", "repair", "truncate", "size", "remove", "shift2", "shift1", "rotate", "copy", "empty", "append"}

LEMMA LineTypes ==
  ASSUME Lines!TypeOK
  PROVE  /\ DOMAIN lineFile \subseteq 0..3 /\ \A i \in DOMAIN lineFile : lineFile[i] \in Seq(Lines!Part..Lines!Merged)
         /\ linePc \in [Appenders -> LineSteps] /\ record \in [Appenders -> 0..MaxRecords]
         /\ handle \in [Appenders -> 0..4] /\ lineSeen \in [Appenders -> Nat] /\ lineRecords \in 0..MaxRecords
         /\ lineAcknowledged \in Seq(Lines!Part..Lines!Merged) /\ dropped \subseteq Lines!Part..Lines!Merged
         /\ Lines!Lines \in Seq(Lines!Part..Lines!Merged)
         /\ Lines!Lines = IF 0 \in DOMAIN lineFile THEN lineFile[0] ELSE <<>>
<1>1. /\ DOMAIN lineFile \subseteq 0..3 /\ \A i \in DOMAIN lineFile : lineFile[i] \in Seq(Lines!Part..Lines!Merged)
      /\ lineAcknowledged \in Seq(Lines!Part..Lines!Merged) /\ dropped \subseteq Lines!Part..Lines!Merged
  BY DEF Lines!TypeOK
<1>2. linePc \in [Appenders -> LineSteps]
  BY DEF Lines!TypeOK, LineSteps
<1>3. /\ record \in [Appenders -> 0..MaxRecords] /\ handle \in [Appenders -> 0..4]
      /\ lineSeen \in [Appenders -> Nat] /\ lineRecords \in 0..MaxRecords
  BY LineNumbers DEF Lines!TypeOK
<1>4. Lines!Lines = IF 0 \in DOMAIN lineFile THEN lineFile[0] ELSE <<>>
  BY DEF Lines!Lines, Lines!Exists
<1>5. Lines!Lines \in Seq(Lines!Part..Lines!Merged)
  <2>1. \A S : <<>> \in Seq(S)
    OBVIOUS
  <2> QED
    BY <1>1, <1>4, <2>1
<1> QED
  BY <1>1, <1>2, <1>3, <1>4, <1>5

LEMMA LineStaysTyped ==
  ASSUME DOMAIN lineFile' \subseteq 0..3 /\ \A i \in DOMAIN lineFile' : lineFile'[i] \in Seq(Lines!Part..Lines!Merged),
         linePc' \in [Appenders -> LineSteps], record' \in [Appenders -> 0..MaxRecords],
         handle' \in [Appenders -> 0..4], lineSeen' \in [Appenders -> Nat], lineRecords' \in 0..MaxRecords,
         lineAcknowledged' \in Seq(Lines!Part..Lines!Merged), dropped' \subseteq Lines!Part..Lines!Merged,
         disturbed' \subseteq {"overlap", "refusal", "crash"}
  PROVE  Lines!TypeOK'
<1>1. linePc' \in [Appenders -> {"idle", "repair", "truncate", "size", "remove", "shift2", "shift1", "rotate", "copy",
                                 "empty", "append"}]
  BY DEF LineSteps
<1> QED
  BY <1>1, LineNumbers DEF Lines!TypeOK

\* An append begins while no other is under way, or overlaps with it.
LEMMA LineBeginStep ==
  ASSUME LineGood, NEW a \in Appenders, Lines!Begin(a)
  PROVE  LineGood'
<1> USE DEF Lines!Goes
<1>0. Lines!TypeOK /\ MaxRecords \in Nat
  BY LineNumbers DEF LineGood
<1>1. /\ linePc[a] = "idle" /\ lineRecords < MaxRecords /\ lineRecords' = lineRecords + 1
      /\ record' = [record EXCEPT ![a] = lineRecords + 1] /\ linePc' = [linePc EXCEPT ![a] = "repair"]
      /\ disturbed' = disturbed \cup {d \in {"overlap"} : \E b \in Appenders : linePc[b] # "idle"}
      /\ UNCHANGED <<lineFile, handle, lineSeen, lineAcknowledged, dropped, lineCrashes, refusals>>
  BY DEF Lines!Begin
<1>2. lineRecords' \in 0..MaxRecords /\ record' \in [Appenders -> 0..MaxRecords]
  BY <1>0, <1>1, LineTypes
<1>3. linePc' \in [Appenders -> LineSteps] /\ disturbed' \subseteq {"overlap", "refusal", "crash"}
  BY <1>0, <1>1, LineTypes DEF LineSteps, Lines!TypeOK
<1>4. Lines!TypeOK'
  BY <1>0, <1>1, <1>2, <1>3, LineTypes, LineStaysTyped
<1>5. ASSUME "overlap" \notin disturbed'
      PROVE  "overlap" \notin disturbed /\ \A b \in Appenders : linePc[b] = "idle"
  BY <1>1, <1>5
<1>6. \A b \in Appenders : (b = a => linePc'[b] = "repair" /\ record'[b] = lineRecords + 1)
                            /\ (b # a => linePc'[b] = linePc[b] /\ record'[b] = record[b])
  BY <1>0, <1>1, LineTypes
<1>7. Uncrossed'
  <2> SUFFICES ASSUME "overlap" \notin disturbed' PROVE InTurn' /\ Unmerged(lineFile')
    BY DEF Uncrossed
  <2>1. InTurn'
    BY <1>0, <1>1, <1>5, <1>6, LineTypes DEF InTurn
  <2>2. Unmerged(lineFile')
    BY <1>1, <1>5 DEF LineGood, Uncrossed
  <2> QED
    BY <2>1, <2>2
<1>8. Calm'
  <2> SUFFICES ASSUME disturbed' \subseteq {"crash"}
               PROVE  Rotating' /\ Begun' /\ Kept' /\ Increasing(lineFile')
    BY DEF Calm
  <2>1. Rotating /\ Begun /\ Kept /\ Increasing(lineFile) /\ \A b \in Appenders : linePc[b] = "idle"
    BY <1>1, <1>5 DEF LineGood, Calm
  <2>2. Rotating'
    BY <1>1, <1>6, <2>1 DEF Rotating
  <2>3. Begun'
    BY <1>0, <1>1, <1>6, <2>1, LineTypes DEF Begun
  <2> QED
    BY <1>1, <2>1, <2>2, <2>3 DEF Kept
<1> QED
  BY <1>4, <1>7, <1>8 DEF LineGood

\* A step of an append that leaves the files alone.
LEMMA LineMoves ==
  ASSUME LineGood, NEW a \in Appenders, NEW step \in LineSteps, linePc[a] \notin {"idle", "truncate"},
         linePc' = [linePc EXCEPT ![a] = step],
         UNCHANGED <<lineFile, record, lineAcknowledged, lineRecords, dropped, disturbed>>,
         handle' \in [Appenders -> 0..4], lineSeen' \in [Appenders -> Nat], step # "idle",
         "overlap" \notin disturbed =>
            /\ step = "truncate" => /\ handle'[a] = 0 /\ 0 \in DOMAIN lineFile /\ lineFile[0] # <<>>
                                    /\ lineSeen'[a] = Len(lineFile[0]) - 1
                                    /\ lineFile[0][Len(lineFile[0])] = Lines!Part
            /\ step \notin {"repair", "truncate"} => Repaired(lineFile),
         disturbed \subseteq {"crash"} =>
            /\ step = "shift2" => 3 \notin DOMAIN lineFile
            /\ step = "shift1" => 2 \notin DOMAIN lineFile
            /\ step = "rotate" => 1 \notin DOMAIN lineFile
            /\ step \notin {"copy", "empty"}
  PROVE  LineGood'
<1>0. Lines!TypeOK
  BY DEF LineGood
<1>1. linePc' \in [Appenders -> LineSteps]
  BY <1>0, LineTypes
<1>2. Lines!TypeOK'
  BY <1>0, <1>1, LineTypes, LineStaysTyped DEF Lines!TypeOK
<1>3. \A b \in Appenders : linePc'[b] = IF b = a THEN step ELSE linePc[b]
  BY <1>0, LineTypes
<1>4. Uncrossed'
  <2> SUFFICES ASSUME "overlap" \notin disturbed PROVE InTurn' /\ Unmerged(lineFile)
    BY DEF Uncrossed
  <2>1. InTurn /\ Unmerged(lineFile)
    BY DEF LineGood, Uncrossed
  <2>2. \A b \in Appenders : linePc'[b] # "idle" => b = a
    BY <1>3, <2>1 DEF InTurn
  <2>3. InTurn'
    BY <1>3, <2>1, <2>2 DEF InTurn
  <2> QED
    BY <2>1, <2>3
<1>5. Calm'
  <2> SUFFICES ASSUME disturbed \subseteq {"crash"}
               PROVE  Rotating' /\ Begun' /\ Kept' /\ Increasing(lineFile)
    BY DEF Calm
  <2>1. Rotating /\ Begun /\ Kept /\ Increasing(lineFile)
    BY DEF LineGood, Calm
  <2>2. Rotating'
    BY <1>3, <2>1 DEF Rotating
  <2>3. Begun'
    BY <1>3, <2>1 DEF Begun
  <2> QED
    BY <2>1, <2>2, <2>3 DEF Kept
<1> QED
  BY <1>2, <1>4, <1>5 DEF LineGood

LEMMA LineRepairStep ==
  ASSUME LineGood, NEW a \in Appenders, Lines!repairInterruptedTail(a)
  PROVE  LineGood'
<1> USE DEF Lines!Goes
<1>0. Lines!TypeOK /\ linePc[a] = "repair"
      /\ UNCHANGED <<lineFile, record, lineAcknowledged, lineRecords, dropped, disturbed>>
  BY DEF LineGood, Lines!repairInterruptedTail
<1>1. CASE Lines!Exists(0) /\ lineFile[0] # <<>> /\ Lines!Last(lineFile[0]) = Lines!Part
  <2>1. /\ handle' = [handle EXCEPT ![a] = 0] /\ lineSeen' = [lineSeen EXCEPT ![a] = Len(lineFile[0]) - 1]
        /\ linePc' = [linePc EXCEPT ![a] = "truncate"]
    BY <1>1 DEF Lines!repairInterruptedTail
  <2>2. 0 \in DOMAIN lineFile /\ lineFile[0] # <<>> /\ lineFile[0][Len(lineFile[0])] = Lines!Part
    BY <1>1 DEF Lines!Exists, Lines!Last
  <2>3. Len(lineFile[0]) - 1 \in Nat
    BY <1>0, <2>2, LineTypes
  <2>4. /\ handle' \in [Appenders -> 0..4] /\ lineSeen' \in [Appenders -> Nat]
        /\ handle'[a] = 0 /\ lineSeen'[a] = Len(lineFile[0]) - 1
    BY <1>0, <2>1, <2>3, LineTypes
  <2> QED
    BY <1>0, <2>1, <2>2, <2>4, LineMoves DEF LineSteps
<1>2. CASE ~(Lines!Exists(0) /\ lineFile[0] # <<>> /\ Lines!Last(lineFile[0]) = Lines!Part)
  <2>1. UNCHANGED <<handle, lineSeen>> /\ linePc' = [linePc EXCEPT ![a] = "size"]
    BY <1>2 DEF Lines!repairInterruptedTail
  <2>2. ASSUME "overlap" \notin disturbed PROVE Repaired(lineFile)
    <3>1. Unmerged(lineFile)
      BY <2>2 DEF LineGood, Uncrossed
    <3>2. 0 \in DOMAIN lineFile => Len(lineFile[0]) \in Nat /\ (lineFile[0] = <<>> => Len(lineFile[0]) = 0)
      BY <1>0, LineTypes
    <3> QED
      BY <1>2, <3>1, <3>2 DEF Unmerged, Repaired, Lines!Exists, Lines!Last
  <2>3. handle' \in [Appenders -> 0..4] /\ lineSeen' \in [Appenders -> Nat]
    BY <1>0, <2>1, LineTypes
  <2> QED
    BY <1>0, <2>1, <2>2, <2>3, LineMoves DEF LineSteps
<1> QED
  BY <1>1, <1>2

LEMMA LineSizeStep ==
  ASSUME LineGood, NEW a \in Appenders, Lines!CheckSize(a)
  PROVE  LineGood'
<1> USE DEF Lines!Goes
<1>0. /\ Lines!TypeOK /\ linePc[a] = "size"
      /\ UNCHANGED <<lineFile, handle, lineSeen, record, lineAcknowledged, lineRecords, dropped, disturbed>>
  BY DEF LineGood, Lines!CheckSize, Lines!others
<1>1. PICK step \in {"remove", "append"} : linePc' = [linePc EXCEPT ![a] = step]
  BY DEF Lines!CheckSize
<1>2. handle' \in [Appenders -> 0..4] /\ lineSeen' \in [Appenders -> Nat]
  BY <1>0, LineTypes
<1>3. "overlap" \notin disturbed => Repaired(lineFile)
  BY <1>0 DEF LineGood, Uncrossed, InTurn
<1> QED
  BY <1>0, <1>1, <1>2, <1>3, LineMoves DEF LineSteps

\* A step of an append that changes the files, or what disturbed it.
LEMMA LineFilesChange ==
  ASSUME LineGood, NEW a \in Appenders, NEW step \in LineSteps \ {"idle", "repair", "truncate"}, linePc[a] # "idle",
         linePc' = [linePc EXCEPT ![a] = step], UNCHANGED <<record, lineSeen, lineAcknowledged, lineRecords>>,
         handle' \in [Appenders -> 0..4],
         DOMAIN lineFile' \subseteq 0..3 /\ \A i \in DOMAIN lineFile' : lineFile'[i] \in Seq(Lines!Part..Lines!Merged),
         dropped' \subseteq Lines!Part..Lines!Merged,
         disturbed' \subseteq {"overlap", "refusal", "crash"}, disturbed \subseteq disturbed',
         "overlap" \notin disturbed' => Unmerged(lineFile') /\ Repaired(lineFile'),
         disturbed' \subseteq {"crash"} =>
            /\ step = "shift2" => 3 \notin DOMAIN lineFile'
            /\ step = "shift1" => 2 \notin DOMAIN lineFile'
            /\ step = "rotate" => 1 \notin DOMAIN lineFile'
            /\ step \notin {"copy", "empty"}
            /\ dropped' \subseteq Lines!ToSet(lineAcknowledged)
            /\ ReadFrom(lineFile') = Lines!ToSet(lineAcknowledged) \ dropped'
            /\ Increasing(lineFile')
  PROVE  LineGood'
<1>0. Lines!TypeOK
  BY DEF LineGood
<1>1. linePc' \in [Appenders -> LineSteps]
  BY <1>0, LineTypes
<1>2. Lines!TypeOK'
  BY <1>0, <1>1, LineTypes, LineStaysTyped
<1>3. \A b \in Appenders : linePc'[b] = IF b = a THEN step ELSE linePc[b]
  BY <1>0, LineTypes
<1>4. Uncrossed'
  <2> SUFFICES ASSUME "overlap" \notin disturbed' PROVE InTurn' /\ Unmerged(lineFile')
    BY DEF Uncrossed
  <2>1. InTurn /\ Unmerged(lineFile') /\ Repaired(lineFile')
    BY DEF LineGood, Uncrossed
  <2>2. \A b \in Appenders : linePc'[b] # "idle" => b = a
    BY <1>3, <2>1 DEF InTurn
  <2>3. InTurn'
    BY <1>3, <2>1, <2>2 DEF InTurn
  <2> QED
    BY <2>1, <2>3
<1>5. Calm'
  <2> SUFFICES ASSUME disturbed' \subseteq {"crash"}
               PROVE  Rotating' /\ Begun' /\ Kept' /\ Increasing(lineFile')
    BY DEF Calm
  <2>1. Rotating /\ Begun /\ disturbed \subseteq {"crash"}
    BY DEF LineGood, Calm
  <2>2. \A b \in Appenders : linePc[b] # "idle" => b = a
    BY <2>1 DEF LineGood, Uncrossed, InTurn
  <2>3. \A b \in Appenders : linePc'[b] = (IF b = a THEN step ELSE "idle")
    BY <1>3, <2>2
  <2>4. Rotating'
    BY <2>1, <2>3 DEF Rotating
  <2>5. Begun'
    BY <1>3, <2>1 DEF Begun
  <2> QED
    BY <2>1, <2>4, <2>5 DEF Kept
<1> QED
  BY <1>2, <1>4, <1>5 DEF LineGood

\* What is known of the append that is under way.
LEMMA LineWorks ==
  ASSUME LineGood, NEW a \in Appenders, linePc[a] \notin {"idle", "repair", "truncate"}
  PROVE  /\ "overlap" \notin disturbed => Unmerged(lineFile) /\ Repaired(lineFile)
         /\ disturbed \subseteq {"crash"} =>
              /\ Begun /\ Kept /\ Increasing(lineFile)
              /\ linePc[a] = "shift2" => 3 \notin DOMAIN lineFile
              /\ linePc[a] = "shift1" => 2 \notin DOMAIN lineFile
              /\ linePc[a] = "rotate" => 1 \notin DOMAIN lineFile
              /\ linePc[a] \notin {"copy", "empty"}
              /\ dropped \subseteq Lines!ToSet(lineAcknowledged)
              /\ ReadFrom(lineFile) = Lines!ToSet(lineAcknowledged) \ dropped
<1>1. "overlap" \notin disturbed => Unmerged(lineFile) /\ Repaired(lineFile)
  BY DEF LineGood, Uncrossed, InTurn
<1>2. ASSUME disturbed \subseteq {"crash"}
      PROVE  Rotating /\ Begun /\ Kept /\ Increasing(lineFile)
  BY <1>2 DEF LineGood, Calm
<1> QED
  BY <1>1, <1>2 DEF Rotating, Begun, Kept

LEMMA LineTruncateStep ==
  ASSUME LineGood, NEW a \in Appenders, Lines!Truncate(a)
  PROVE  LineGood'
<1> USE DEF Lines!Goes
<1>0. /\ Lines!TypeOK /\ linePc[a] = "truncate" /\ linePc' = [linePc EXCEPT ![a] = "size"]
      /\ handle' = [handle EXCEPT ![a] = Lines!Gone]
      /\ UNCHANGED <<record, lineSeen, lineAcknowledged, lineRecords, dropped, disturbed>>
  BY DEF LineGood, Lines!Truncate, Lines!others
<1>1. handle' \in [Appenders -> 0..4] /\ handle[a] \in 0..4 /\ lineSeen[a] \in Nat
  BY <1>0, LineTypes, LineNumbers
<1>2. CASE handle[a] \notin DOMAIN lineFile
  <2>1. lineFile' = lineFile
    BY <1>2 DEF Lines!Truncate, Lines!Exists
  <2>2. "overlap" \in disturbed
    BY <1>0, <1>2 DEF LineGood, Uncrossed, InTurn
  <2> QED
    BY <1>0, <1>1, <2>1, <2>2, LineTypes, LineFilesChange DEF LineSteps, Lines!TypeOK
<1>3. CASE handle[a] \in DOMAIN lineFile
  <2> DEFINE h == handle[a]
             c == Lines!Cut(lineFile[h], lineSeen[a])
  <2>1. lineFile' = Lines!With(lineFile, h, c)
    BY <1>3 DEF Lines!Truncate, Lines!Exists
  <2>2. Lines!Part \in Lines!Part..Lines!Merged /\ lineFile[h] \in Seq(Lines!Part..Lines!Merged)
    BY <1>0, <1>3, LineNumbers, LineTypes
  <2>3. /\ c \in Seq(Lines!Part..Lines!Merged)
        /\ lineSeen[a] <= Len(lineFile[h]) => Len(c) = lineSeen[a] /\ \A k \in 1..lineSeen[a] : c[k] = lineFile[h][k]
    BY <1>1, <2>2, CutIs
  <2> HIDE DEF c
  <2>4. /\ DOMAIN lineFile' = DOMAIN lineFile /\ lineFile'[h] = c
        /\ \A j \in DOMAIN lineFile \ {h} : lineFile'[j] = lineFile[j]
    BY <1>3, <2>1 DEF Lines!With
  <2>5. DOMAIN lineFile' \subseteq 0..3 /\ \A i \in DOMAIN lineFile' : lineFile'[i] \in Seq(Lines!Part..Lines!Merged)
    BY <1>0, <2>3, <2>4, LineTypes
  <2>6. ASSUME "overlap" \notin disturbed
        PROVE  /\ h = 0 /\ Unmerged(lineFile) /\ Len(lineFile[0]) \in Nat \ {0}
               /\ lineFile[0][Len(lineFile[0])] = Lines!Part
               /\ Len(c) = Len(lineFile[0]) - 1 /\ \A k \in 1..Len(c) : c[k] = lineFile[0][k]
    <3>1. /\ h = 0 /\ lineFile[0] # <<>> /\ lineSeen[a] = Len(lineFile[0]) - 1 /\ Unmerged(lineFile)
          /\ lineFile[0][Len(lineFile[0])] = Lines!Part
      BY <1>0, <2>6 DEF LineGood, Uncrossed, InTurn
    <3>2. Len(lineFile[0]) \in Nat \ {0}
      BY <2>2, <3>1
    <3> QED
      BY <2>3, <3>1, <3>2
  <2> HIDE DEF h
  <2>7. ASSUME "overlap" \notin disturbed PROVE Unmerged(lineFile') /\ Repaired(lineFile')
    <3>1. \A k \in 1..Len(c) : c[k] \in 0..MaxRecords /\ c[k] # Lines!Part
      BY <1>3, <2>6, <2>7 DEF Unmerged, h
    <3> QED
      BY <2>4, <2>6, <2>7, <3>1 DEF Unmerged, Repaired
  <2>8. ASSUME disturbed \subseteq {"crash"}
        PROVE  /\ dropped \subseteq Lines!ToSet(lineAcknowledged)
               /\ ReadFrom(lineFile') = Lines!ToSet(lineAcknowledged) \ dropped
               /\ Increasing(lineFile')
    <3>1. Begun /\ Kept /\ Increasing(lineFile)
      BY <2>8 DEF LineGood, Calm
    <3>2. /\ h = 0 /\ Len(lineFile[0]) \in Nat \ {0} /\ lineFile[0][Len(lineFile[0])] = 0
          /\ Len(c) = Len(lineFile[0]) - 1 /\ \A k \in 1..Len(c) : c[k] = lineFile[0][k]
      BY <2>6, <2>8, LineNumbers
    <3>3. ReadFrom(lineFile') = ReadFrom(lineFile)
      <4>1. ASSUME NEW n \in 1..MaxRecords, NEW i \in DOMAIN lineFile, NEW k \in 1..Len(lineFile[i]), lineFile[i][k] = n
            PROVE  k \in 1..Len(lineFile'[i]) /\ lineFile'[i][k] = n
        BY <2>4, <3>2, <4>1
      <4>2. ASSUME NEW n \in 1..MaxRecords, NEW i \in DOMAIN lineFile, NEW k \in 1..Len(lineFile'[i]), lineFile'[i][k] = n
            PROVE  k \in 1..Len(lineFile[i]) /\ lineFile[i][k] = n
        BY <2>4, <3>2, <4>2
      <4> QED
        BY <2>4, <4>1, <4>2 DEF ReadFrom
    <3>4. Increasing(lineFile')
      <4>1. \A i \in DOMAIN lineFile : \A k \in 1..Len(lineFile'[i]) :
                k \in 1..Len(lineFile[i]) /\ lineFile'[i][k] = lineFile[i][k]
        BY <2>4, <3>2
      <4> QED
        BY <2>4, <3>1, <4>1 DEF Increasing
    <3> QED
      BY <3>1, <3>3, <3>4 DEF Begun, Kept
  <2> QED
    BY <1>0, <1>1, <2>5, <2>7, <2>8, LineTypes, LineFilesChange DEF LineSteps, Lines!TypeOK
<1> QED
  BY <1>2, <1>3

LEMMA LineRemoveStep ==
  ASSUME LineGood, NEW a \in Appenders, Lines!RemoveOldest(a)
  PROVE  LineGood'
<1> USE DEF Lines!Goes
<1>0. /\ Lines!TypeOK /\ linePc[a] = "remove" /\ linePc' = [linePc EXCEPT ![a] = "shift2"]
      /\ lineFile' = Lines!Without(lineFile, 3)
      /\ handle' = [b \in Appenders |-> IF handle[b] = 3 THEN Lines!Gone ELSE handle[b]]
      /\ dropped' = dropped \cup (IF 3 \in DOMAIN lineFile THEN Lines!ToSet(lineFile[3]) ELSE {})
      /\ UNCHANGED <<record, lineSeen, lineAcknowledged, lineRecords, disturbed>>
  BY DEF LineGood, Lines!RemoveOldest, Lines!others, Lines!Exists
<1>1. handle' \in [Appenders -> 0..4]
  BY <1>0, LineTypes, LineNumbers
<1>2. DOMAIN lineFile' = DOMAIN lineFile \ {3} /\ \A j \in DOMAIN lineFile \ {3} : lineFile'[j] = lineFile[j]
  BY <1>0 DEF Lines!Without
<1>3. DOMAIN lineFile' \subseteq 0..3 /\ \A i \in DOMAIN lineFile' : lineFile'[i] \in Seq(Lines!Part..Lines!Merged)
  BY <1>0, <1>2, LineTypes
<1>4. 3 \in DOMAIN lineFile =>
        /\ Len(lineFile[3]) \in Nat /\ \A k \in 1..Len(lineFile[3]) : lineFile[3][k] \in Lines!Part..Lines!Merged
        /\ Lines!ToSet(lineFile[3]) = {lineFile[3][k] : k \in 1..Len(lineFile[3])}
  <2> SUFFICES ASSUME 3 \in DOMAIN lineFile
               PROVE  /\ Len(lineFile[3]) \in Nat
                      /\ \A k \in 1..Len(lineFile[3]) : lineFile[3][k] \in Lines!Part..Lines!Merged
                      /\ Lines!ToSet(lineFile[3]) = {lineFile[3][k] : k \in 1..Len(lineFile[3])}
    OBVIOUS
  <2>1. lineFile[3] \in Seq(Lines!Part..Lines!Merged)
    BY <1>0, LineTypes
  <2> QED
    BY <2>1, LinesOf, LineNumbers
<1>5. dropped' \subseteq Lines!Part..Lines!Merged
  BY <1>0, <1>4, LineTypes
<1>6. ASSUME "overlap" \notin disturbed PROVE Unmerged(lineFile') /\ Repaired(lineFile')
  <2>1. Unmerged(lineFile) /\ Repaired(lineFile)
    BY <1>0, <1>6, LineWorks
  <2> QED
    BY <1>2, <2>1 DEF Unmerged, Repaired
<1>7. ASSUME disturbed \subseteq {"crash"}
      PROVE  /\ dropped' \subseteq Lines!ToSet(lineAcknowledged)
             /\ ReadFrom(lineFile') = Lines!ToSet(lineAcknowledged) \ dropped'
             /\ Increasing(lineFile')
  <2>1. /\ Increasing(lineFile) /\ dropped \subseteq Lines!ToSet(lineAcknowledged)
        /\ ReadFrom(lineFile) = Lines!ToSet(lineAcknowledged) \ dropped
    BY <1>0, <1>7, LineWorks
  <2>2. Increasing(lineFile')
    BY <1>2, <2>1 DEF Increasing
  <2>3. CASE 3 \notin DOMAIN lineFile
    <3>1. ReadFrom(lineFile') = ReadFrom(lineFile)
      BY <1>2, <2>3 DEF ReadFrom
    <3> QED
      BY <1>0, <2>1, <2>2, <2>3, <3>1
  <2>4. CASE 3 \in DOMAIN lineFile
    <3>1. Unmerged(lineFile)
      BY <1>0, <1>7, LineWorks
    <3>2. \A k \in 1..Len(lineFile[3]) : lineFile[3][k] \in 1..MaxRecords
      BY <2>4, <3>1, LineNumbers DEF Unmerged
    <3>3. Lines!ToSet(lineFile[3]) \subseteq ReadFrom(lineFile)
      BY <1>4, <2>4, <3>2 DEF ReadFrom
    <3>4. ASSUME NEW j \in DOMAIN lineFile \ {3}, NEW l \in 1..Len(lineFile[j]), lineFile[j][l] \in 1..MaxRecords
          PROVE  lineFile[j][l] \notin Lines!ToSet(lineFile[3])
      <4>0. DOMAIN lineFile \subseteq 0..3
        BY <1>0, LineTypes
      <4>1. 3 > j /\ lineFile[j][l] # Lines!Part
        <5>1. 3 > j
          BY <4>0
        <5>2. lineFile[j][l] # Lines!Part
          BY <3>4, LineNumbers
        <5> QED
          BY <5>1, <5>2
      <4>2. \A k \in 1..Len(lineFile[3]) : lineFile[3][k] < lineFile[j][l]
        BY <2>1, <2>4, <4>1 DEF Increasing
      <4>3. \A k \in 1..Len(lineFile[3]) : lineFile[3][k] # lineFile[j][l]
        BY <3>2, <3>4, <4>2, LineNumbers
      <4> QED
        BY <1>4, <2>4, <4>3
    <3>5. ReadFrom(lineFile') = ReadFrom(lineFile) \ Lines!ToSet(lineFile[3])
      <4>1. ASSUME NEW n \in ReadFrom(lineFile') PROVE n \in ReadFrom(lineFile) \ Lines!ToSet(lineFile[3])
        BY <1>2, <3>4, <4>1 DEF ReadFrom
      <4>2. ASSUME NEW n \in ReadFrom(lineFile) \ Lines!ToSet(lineFile[3]) PROVE n \in ReadFrom(lineFile')
        <5>1. PICK i \in DOMAIN lineFile : \E k \in 1..Len(lineFile[i]) : lineFile[i][k] = n
          BY <4>2 DEF ReadFrom
        <5>2. i # 3
          BY <1>4, <4>2, <5>1
        <5> QED
          BY <1>2, <4>2, <5>1, <5>2 DEF ReadFrom
      <4> QED
        BY <4>1, <4>2
    <3> QED
      BY <1>0, <2>1, <2>2, <2>4, <3>3, <3>5
  <2> QED
    BY <2>3, <2>4
<1> QED
  BY <1>0, <1>1, <1>2, <1>3, <1>5, <1>6, <1>7, LineFilesChange DEF LineSteps, Lines!TypeOK

\* A file that is renamed to the next place.
LEMMA LineRenamed ==
  ASSUME LineGood, NEW a \in Appenders, linePc[a] \notin {"idle", "repair", "truncate"}, NEW i \in 0..2,
         i \in DOMAIN lineFile, lineFile' = Lines!Moved(i, i + 1), handle' = Lines!HandlesMoved(i, i + 1)
  PROVE  /\ handle' \in [Appenders -> 0..4] /\ i \notin DOMAIN lineFile'
         /\ \A j \in 0..3 : j # i /\ j # i + 1 /\ j \notin DOMAIN lineFile => j \notin DOMAIN lineFile'
         /\ DOMAIN lineFile' \subseteq 0..3
         /\ \A j \in DOMAIN lineFile' : lineFile'[j] \in Seq(Lines!Part..Lines!Merged)
         /\ "overlap" \notin disturbed => Unmerged(lineFile') /\ Repaired(lineFile')
         /\ disturbed \subseteq {"crash"} /\ i + 1 \notin DOMAIN lineFile =>
               ReadFrom(lineFile') = ReadFrom(lineFile) /\ Increasing(lineFile')
<1>0. Lines!TypeOK
  BY DEF LineGood
<1>1. /\ DOMAIN lineFile' = (DOMAIN lineFile \ {i}) \cup {i + 1} /\ lineFile'[i + 1] = lineFile[i]
      /\ \A j \in DOMAIN lineFile \ {i, i + 1} : lineFile'[j] = lineFile[j]
  BY MovedIs
<1>2. handle' \in [Appenders -> 0..4]
  BY <1>0, LineTypes, LineNumbers DEF Lines!HandlesMoved
<1>3. /\ DOMAIN lineFile' \subseteq 0..3
      /\ \A j \in DOMAIN lineFile' : lineFile'[j] \in Seq(Lines!Part..Lines!Merged)
  <2>1. /\ DOMAIN lineFile \subseteq 0..3
        /\ \A j \in DOMAIN lineFile : lineFile[j] \in Seq(Lines!Part..Lines!Merged)
    BY <1>0, LineTypes
  <2>2. DOMAIN lineFile' \subseteq 0..3
    BY <1>1, <2>1
  <2>3. \A j \in DOMAIN lineFile' : j = i + 1 \/ j \in DOMAIN lineFile \ {i, i + 1}
    BY <1>1
  <2> QED
    BY <1>1, <2>1, <2>2, <2>3
<1>4. ASSUME "overlap" \notin disturbed PROVE Unmerged(lineFile') /\ Repaired(lineFile')
  <2>1. Unmerged(lineFile) /\ Repaired(lineFile)
    BY <1>4, LineWorks
  <2>2. \A k \in 1..Len(lineFile[i]) : lineFile[i][k] \in 0..MaxRecords /\ lineFile[i][k] # Lines!Part
    BY <2>1 DEF Unmerged, Repaired
  <2>3. Unmerged(lineFile')
    BY <1>1, <2>1, <2>2 DEF Unmerged
  <2>4. Repaired(lineFile')
    BY <1>1, <2>1 DEF Repaired
  <2> QED
    BY <2>3, <2>4
<1>5. ASSUME disturbed \subseteq {"crash"}, i + 1 \notin DOMAIN lineFile
      PROVE  ReadFrom(lineFile') = ReadFrom(lineFile) /\ Increasing(lineFile')
  <2>1. Increasing(lineFile)
    BY <1>5, LineWorks
  <2>2. ReadFrom(lineFile') = ReadFrom(lineFile)
    <3>1. \A j \in DOMAIN lineFile : \E m \in DOMAIN lineFile' : lineFile'[m] = lineFile[j]
      BY <1>1, <1>5
    <3>2. \A j \in DOMAIN lineFile' : \E m \in DOMAIN lineFile : lineFile[m] = lineFile'[j]
      BY <1>1, <1>5
    <3> QED
      BY <3>1, <3>2 DEF ReadFrom
  <2>3. Increasing(lineFile')
    <3> DEFINE Old(j) == IF j = i + 1 THEN i ELSE j
    <3>1. \A j \in DOMAIN lineFile' : Old(j) \in DOMAIN lineFile /\ lineFile'[j] = lineFile[Old(j)] /\ j \in 0..3
      BY <1>1, <1>3, <1>5
    <3>2. \A j, m \in DOMAIN lineFile' : (j > m => Old(j) > Old(m)) /\ (j = m => Old(j) = Old(m))
      <4>1. DOMAIN lineFile' \subseteq 0..3 /\ i \notin DOMAIN lineFile'
        BY <1>1, <1>3
      <4>2. \A j, m \in 0..3 : j # i /\ m # i => /\ (j > m => Old(j) > Old(m)) /\ (j = m => Old(j) = Old(m))
        OBVIOUS
      <4> QED
        BY <4>1, <4>2
    <3> HIDE DEF Old
    <3> QED
      BY <2>1, <3>1, <3>2 DEF Increasing
  <2> QED
    BY <2>2, <2>3
<1> QED
  BY <1>1, <1>2, <1>3, <1>4, <1>5

LEMMA LineSecondStep ==
  ASSUME LineGood, NEW a \in Appenders, Lines!Shift(a, "shift2", 2, "shift1")
  PROVE  LineGood'
<1> USE DEF Lines!Goes
<1>0. /\ Lines!TypeOK /\ linePc[a] = "shift2" /\ linePc' = [linePc EXCEPT ![a] = "shift1"]
      /\ UNCHANGED <<record, lineSeen, lineAcknowledged, lineRecords, dropped>>
  BY DEF LineGood, Lines!Shift, Lines!others
<1>1. CASE lineFile' = lineFile /\ handle' = handle /\ disturbed' \in {disturbed, disturbed \cup {"refusal"}}
           /\ (2 \in DOMAIN lineFile => "refusal" \in disturbed')
  <2>1. "overlap" \notin disturbed => Unmerged(lineFile) /\ Repaired(lineFile)
    BY <1>0, LineWorks
  <2>2. disturbed \subseteq {"crash"} =>
           /\ dropped \subseteq Lines!ToSet(lineAcknowledged)
           /\ ReadFrom(lineFile) = Lines!ToSet(lineAcknowledged) \ dropped
           /\ Increasing(lineFile)
    BY <1>0, LineWorks
  <2>3. /\ DOMAIN lineFile' \subseteq 0..3
        /\ \A j \in DOMAIN lineFile' : lineFile'[j] \in Seq(Lines!Part..Lines!Merged)
        /\ handle' \in [Appenders -> 0..4] /\ dropped' \subseteq Lines!Part..Lines!Merged
    BY <1>0, <1>1, LineTypes
  <2>4. disturbed' \subseteq {"overlap", "refusal", "crash"} /\ disturbed \subseteq disturbed'
    BY <1>0, <1>1 DEF Lines!TypeOK
  <2> QED
    BY <1>0, <1>1, <2>1, <2>2, <2>3, <2>4, LineFilesChange DEF LineSteps
<1>2. CASE 2 \in DOMAIN lineFile /\ lineFile' = Lines!Moved(2, 2 + 1) /\ handle' = Lines!HandlesMoved(2, 2 + 1)
           /\ disturbed' = disturbed
  <2>1. /\ handle' \in [Appenders -> 0..4] /\ 2 \notin DOMAIN lineFile'
        /\ DOMAIN lineFile' \subseteq 0..3
        /\ \A j \in DOMAIN lineFile' : lineFile'[j] \in Seq(Lines!Part..Lines!Merged)
        /\ "overlap" \notin disturbed => Unmerged(lineFile') /\ Repaired(lineFile')
        /\ disturbed \subseteq {"crash"} /\ 2 + 1 \notin DOMAIN lineFile =>
              ReadFrom(lineFile') = ReadFrom(lineFile) /\ Increasing(lineFile')
    BY <1>0, <1>2, LineRenamed
  <2>2. disturbed \subseteq {"crash"} =>
           /\ dropped \subseteq Lines!ToSet(lineAcknowledged) /\ 2 + 1 \notin DOMAIN lineFile
           /\ ReadFrom(lineFile) = Lines!ToSet(lineAcknowledged) \ dropped
    BY <1>0, LineWorks
  <2>3. dropped' \subseteq Lines!Part..Lines!Merged /\ disturbed' \subseteq {"overlap", "refusal", "crash"}
    BY <1>0, <1>2, LineTypes DEF Lines!TypeOK
  <2> QED
    BY <1>0, <1>2, <2>1, <2>2, <2>3, LineFilesChange DEF LineSteps
<1> QED
  BY <1>1, <1>2 DEF Lines!Shift, Lines!Refuse, Lines!Exists

LEMMA LineFirstStep ==
  ASSUME LineGood, NEW a \in Appenders, Lines!Shift(a, "shift1", 1, "rotate")
  PROVE  LineGood'
<1> USE DEF Lines!Goes
<1>0. /\ Lines!TypeOK /\ linePc[a] = "shift1" /\ linePc' = [linePc EXCEPT ![a] = "rotate"]
      /\ UNCHANGED <<record, lineSeen, lineAcknowledged, lineRecords, dropped>>
  BY DEF LineGood, Lines!Shift, Lines!others
<1>1. CASE lineFile' = lineFile /\ handle' = handle /\ disturbed' \in {disturbed, disturbed \cup {"refusal"}}
           /\ (1 \in DOMAIN lineFile => "refusal" \in disturbed')
  <2>1. "overlap" \notin disturbed => Unmerged(lineFile) /\ Repaired(lineFile)
    BY <1>0, LineWorks
  <2>2. disturbed \subseteq {"crash"} =>
           /\ dropped \subseteq Lines!ToSet(lineAcknowledged)
           /\ ReadFrom(lineFile) = Lines!ToSet(lineAcknowledged) \ dropped
           /\ Increasing(lineFile)
    BY <1>0, LineWorks
  <2>3. /\ DOMAIN lineFile' \subseteq 0..3
        /\ \A j \in DOMAIN lineFile' : lineFile'[j] \in Seq(Lines!Part..Lines!Merged)
        /\ handle' \in [Appenders -> 0..4] /\ dropped' \subseteq Lines!Part..Lines!Merged
    BY <1>0, <1>1, LineTypes
  <2>4. disturbed' \subseteq {"overlap", "refusal", "crash"} /\ disturbed \subseteq disturbed'
    BY <1>0, <1>1 DEF Lines!TypeOK
  <2> QED
    BY <1>0, <1>1, <2>1, <2>2, <2>3, <2>4, LineFilesChange DEF LineSteps
<1>2. CASE 1 \in DOMAIN lineFile /\ lineFile' = Lines!Moved(1, 1 + 1) /\ handle' = Lines!HandlesMoved(1, 1 + 1)
           /\ disturbed' = disturbed
  <2>1. /\ handle' \in [Appenders -> 0..4] /\ 1 \notin DOMAIN lineFile'
        /\ DOMAIN lineFile' \subseteq 0..3
        /\ \A j \in DOMAIN lineFile' : lineFile'[j] \in Seq(Lines!Part..Lines!Merged)
        /\ "overlap" \notin disturbed => Unmerged(lineFile') /\ Repaired(lineFile')
        /\ disturbed \subseteq {"crash"} /\ 1 + 1 \notin DOMAIN lineFile =>
              ReadFrom(lineFile') = ReadFrom(lineFile) /\ Increasing(lineFile')
    BY <1>0, <1>2, LineRenamed
  <2>2. disturbed \subseteq {"crash"} =>
           /\ dropped \subseteq Lines!ToSet(lineAcknowledged) /\ 1 + 1 \notin DOMAIN lineFile
           /\ ReadFrom(lineFile) = Lines!ToSet(lineAcknowledged) \ dropped
    BY <1>0, LineWorks
  <2>3. dropped' \subseteq Lines!Part..Lines!Merged /\ disturbed' \subseteq {"overlap", "refusal", "crash"}
    BY <1>0, <1>2, LineTypes DEF Lines!TypeOK
  <2> QED
    BY <1>0, <1>2, <2>1, <2>2, <2>3, LineFilesChange DEF LineSteps
<1> QED
  BY <1>1, <1>2 DEF Lines!Shift, Lines!Refuse, Lines!Exists

LEMMA LineRotateStep ==
  ASSUME LineGood, NEW a \in Appenders, Lines!Rotate(a)
  PROVE  LineGood'
<1> USE DEF Lines!Goes
<1>0. /\ Lines!TypeOK /\ linePc[a] = "rotate"
      /\ UNCHANGED <<record, lineSeen, lineAcknowledged, lineRecords, dropped>>
  BY DEF LineGood, Lines!Rotate, Lines!others
<1>1. CASE linePc' = [linePc EXCEPT ![a] = IF 0 \in DOMAIN lineFile THEN "copy" ELSE "append"]
           /\ lineFile' = lineFile /\ handle' = handle /\ disturbed' \in {disturbed, disturbed \cup {"refusal"}}
           /\ (0 \in DOMAIN lineFile => "refusal" \in disturbed')
  <2>1. "overlap" \notin disturbed => Unmerged(lineFile) /\ Repaired(lineFile)
    BY <1>0, LineWorks
  <2>2. disturbed \subseteq {"crash"} =>
           /\ dropped \subseteq Lines!ToSet(lineAcknowledged)
           /\ ReadFrom(lineFile) = Lines!ToSet(lineAcknowledged) \ dropped
           /\ Increasing(lineFile)
    BY <1>0, LineWorks
  <2>3. /\ DOMAIN lineFile' \subseteq 0..3
        /\ \A j \in DOMAIN lineFile' : lineFile'[j] \in Seq(Lines!Part..Lines!Merged)
        /\ handle' \in [Appenders -> 0..4] /\ dropped' \subseteq Lines!Part..Lines!Merged
    BY <1>0, <1>1, LineTypes
  <2>4. disturbed' \subseteq {"overlap", "refusal", "crash"} /\ disturbed \subseteq disturbed'
    BY <1>0, <1>1 DEF Lines!TypeOK
  <2> QED
    BY <1>0, <1>1, <2>1, <2>2, <2>3, <2>4, LineFilesChange DEF LineSteps
<1>2. CASE 0 \in DOMAIN lineFile /\ lineFile' = Lines!Moved(0, 0 + 1) /\ handle' = Lines!HandlesMoved(0, 0 + 1)
           /\ disturbed' = disturbed /\ linePc' = [linePc EXCEPT ![a] = "append"]
  <2>1. /\ handle' \in [Appenders -> 0..4] /\ 0 \notin DOMAIN lineFile'
        /\ DOMAIN lineFile' \subseteq 0..3
        /\ \A j \in DOMAIN lineFile' : lineFile'[j] \in Seq(Lines!Part..Lines!Merged)
        /\ "overlap" \notin disturbed => Unmerged(lineFile') /\ Repaired(lineFile')
        /\ disturbed \subseteq {"crash"} /\ 0 + 1 \notin DOMAIN lineFile =>
              ReadFrom(lineFile') = ReadFrom(lineFile) /\ Increasing(lineFile')
    BY <1>0, <1>2, LineRenamed
  <2>2. disturbed \subseteq {"crash"} =>
           /\ dropped \subseteq Lines!ToSet(lineAcknowledged) /\ 0 + 1 \notin DOMAIN lineFile
           /\ ReadFrom(lineFile) = Lines!ToSet(lineAcknowledged) \ dropped
    BY <1>0, LineWorks
  <2>3. dropped' \subseteq Lines!Part..Lines!Merged /\ disturbed' \subseteq {"overlap", "refusal", "crash"}
    BY <1>0, <1>2, LineTypes DEF Lines!TypeOK
  <2> QED
    BY <1>0, <1>2, <2>1, <2>2, <2>3, LineFilesChange DEF LineSteps
<1> QED
  BY <1>1, <1>2 DEF Lines!Rotate, Lines!Refuse, Lines!Exists

LEMMA LineCopyStep ==
  ASSUME LineGood, NEW a \in Appenders, Lines!Copy(a)
  PROVE  LineGood'
<1> USE DEF Lines!Goes
<1>0. /\ Lines!TypeOK /\ linePc[a] = "copy" /\ UNCHANGED <<handle, record, lineSeen, lineAcknowledged, lineRecords, dropped>>
      /\ disturbed' \in {disturbed, disturbed \cup {"refusal"}}
  BY DEF LineGood, Lines!Copy, Lines!others, Lines!Refuse
<1>1. "overlap" \notin disturbed => Unmerged(lineFile) /\ Repaired(lineFile)
  BY <1>0, LineWorks
<1>2. ~(disturbed' \subseteq {"crash"})
  BY <1>0, LineWorks
<1>3. handle' \in [Appenders -> 0..4] /\ dropped' \subseteq Lines!Part..Lines!Merged
  BY <1>0, LineTypes
<1>4. disturbed' \subseteq {"overlap", "refusal", "crash"} /\ disturbed \subseteq disturbed'
  BY <1>0 DEF Lines!TypeOK
<1>5. CASE lineFile' = lineFile /\ linePc' = [linePc EXCEPT ![a] = "append"]
  <2>1. /\ DOMAIN lineFile' \subseteq 0..3
        /\ \A j \in DOMAIN lineFile' : lineFile'[j] \in Seq(Lines!Part..Lines!Merged)
    BY <1>0, <1>5, LineTypes
  <2> QED
    BY <1>0, <1>1, <1>2, <1>3, <1>4, <1>5, <2>1, LineFilesChange DEF LineSteps
<1>6. CASE 0 \in DOMAIN lineFile /\ lineFile' = Lines!With(lineFile, 1, lineFile[0])
           /\ linePc' = [linePc EXCEPT ![a] = "empty"]
  <2>1. /\ DOMAIN lineFile' = DOMAIN lineFile \cup {1} /\ lineFile'[1] = lineFile[0]
        /\ \A j \in DOMAIN lineFile \ {1} : lineFile'[j] = lineFile[j]
    BY <1>6 DEF Lines!With
  <2>2. /\ DOMAIN lineFile \subseteq 0..3
        /\ \A j \in DOMAIN lineFile : lineFile[j] \in Seq(Lines!Part..Lines!Merged)
    BY <1>0, LineTypes
  <2>3. /\ DOMAIN lineFile' \subseteq 0..3
        /\ \A j \in DOMAIN lineFile' : lineFile'[j] \in Seq(Lines!Part..Lines!Merged)
    BY <1>6, <2>1, <2>2
  <2>4. ASSUME "overlap" \notin disturbed' PROVE Unmerged(lineFile') /\ Repaired(lineFile')
    <3>1. Unmerged(lineFile) /\ Repaired(lineFile)
      BY <1>1, <1>4, <2>4
    <3>2. \A k \in 1..Len(lineFile[0]) : lineFile[0][k] \in 0..MaxRecords /\ lineFile[0][k] # Lines!Part
      BY <1>6, <3>1 DEF Unmerged, Repaired
    <3> QED
      BY <1>6, <2>1, <3>1, <3>2 DEF Unmerged, Repaired
  <2> QED
    BY <1>0, <1>2, <1>3, <1>4, <1>6, <2>3, <2>4, LineFilesChange DEF LineSteps
<1> QED
  BY <1>5, <1>6 DEF Lines!Copy, Lines!Exists

LEMMA LineEmptyStep ==
  ASSUME LineGood, NEW a \in Appenders, Lines!Empty(a)
  PROVE  LineGood'
<1> USE DEF Lines!Goes
<1>0. /\ Lines!TypeOK /\ linePc[a] = "empty" /\ linePc' = [linePc EXCEPT ![a] = "append"]
      /\ UNCHANGED <<handle, record, lineSeen, lineAcknowledged, lineRecords, dropped, disturbed>>
      /\ lineFile' = IF 0 \in DOMAIN lineFile THEN Lines!With(lineFile, 0, <<>>) ELSE lineFile
  BY DEF LineGood, Lines!Empty, Lines!others, Lines!Exists
<1>1. "overlap" \notin disturbed => Unmerged(lineFile) /\ Repaired(lineFile)
  BY <1>0, LineWorks
<1>2. ~(disturbed \subseteq {"crash"})
  BY <1>0, LineWorks
<1>3. /\ DOMAIN lineFile' = DOMAIN lineFile /\ (0 \in DOMAIN lineFile => lineFile'[0] = <<>>)
      /\ \A j \in DOMAIN lineFile \ {0} : lineFile'[j] = lineFile[j]
  BY <1>0 DEF Lines!With
<1>4. /\ DOMAIN lineFile' \subseteq 0..3
      /\ \A j \in DOMAIN lineFile' : lineFile'[j] \in Seq(Lines!Part..Lines!Merged)
  <2>1. /\ DOMAIN lineFile \subseteq 0..3
        /\ \A j \in DOMAIN lineFile : lineFile[j] \in Seq(Lines!Part..Lines!Merged)
    BY <1>0, LineTypes
  <2>2. \A S : <<>> \in Seq(S)
    OBVIOUS
  <2> QED
    BY <1>3, <2>1, <2>2
<1>5. ASSUME "overlap" \notin disturbed PROVE Unmerged(lineFile') /\ Repaired(lineFile')
  <2>1. Len(<<>>) = 0
    OBVIOUS
  <2> QED
    BY <1>1, <1>3, <1>5, <2>1 DEF Unmerged, Repaired
<1>6. handle' \in [Appenders -> 0..4] /\ dropped' \subseteq Lines!Part..Lines!Merged
  BY <1>0, LineTypes
<1> QED
  BY <1>0, <1>2, <1>4, <1>5, <1>6, LineFilesChange DEF LineSteps, Lines!TypeOK

\* A line, or a part of one, that is written at the end of the current file.
LEMMA LineAdded ==
  ASSUME LineGood, NEW a \in Appenders, linePc[a] = "append", NEW n \in 0..MaxRecords,
         lineFile' = Lines!With(lineFile, 0, Lines!Appended(Lines!Lines, n))
  PROVE  /\ DOMAIN lineFile' \subseteq 0..3
         /\ \A i \in DOMAIN lineFile' : lineFile'[i] \in Seq(Lines!Part..Lines!Merged)
         /\ "overlap" \notin disturbed => Unmerged(lineFile')
         /\ disturbed \subseteq {"crash"} /\ (\A m \in ReadFrom(lineFile) : n # 0 => m < n) =>
               ReadFrom(lineFile') = ReadFrom(lineFile) \cup ({n} \ {0}) /\ Increasing(lineFile')
<1> DEFINE s == Lines!Lines
           c == Lines!Appended(s, n)
<1>0. /\ Lines!TypeOK /\ s \in Seq(Lines!Part..Lines!Merged)
      /\ s = IF 0 \in DOMAIN lineFile THEN lineFile[0] ELSE <<>>
      /\ DOMAIN lineFile \subseteq 0..3
      /\ \A i \in DOMAIN lineFile : lineFile[i] \in Seq(Lines!Part..Lines!Merged)
  BY LineTypes DEF LineGood
<1>1. Lines!Part \in Lines!Part..Lines!Merged /\ Lines!Merged \in Lines!Part..Lines!Merged
      /\ n \in Lines!Part..Lines!Merged
  BY LineNumbers
<1> HIDE DEF s
<1>2. /\ c \in Seq(Lines!Part..Lines!Merged) /\ Len(s) \in Nat
      /\ (\A k \in 1..Len(s) : s[k] # Lines!Part) => /\ Len(c) = Len(s) + 1
                                                     /\ \A k \in 1..Len(s) : c[k] = s[k]
                                                     /\ c[Len(s) + 1] = n
  <2>1. Len(s) \in Nat
    BY <1>0
  <2> HIDE DEF c
  <2>2. c = Lines!Appended(s, n)
    BY DEF c
  <2>3. /\ Lines!Appended(s, n) \in Seq(Lines!Part..Lines!Merged)
        /\ (\A k \in 1..Len(s) : s[k] # Lines!Part) => /\ Len(Lines!Appended(s, n)) = Len(s) + 1
                                                       /\ \A k \in 1..Len(s) : Lines!Appended(s, n)[k] = s[k]
                                                       /\ Lines!Appended(s, n)[Len(s) + 1] = n
    <3> DEFINE S == Lines!Part..Lines!Merged
    <3>1. Lines!Part \in S /\ Lines!Merged \in S /\ n \in S /\ s \in Seq(S)
      BY <1>0, <1>1
    <3> HIDE DEF S
    <3>2. /\ Lines!Appended(s, n) \in Seq(S)
          /\ (\A k \in 1..Len(s) : s[k] # Lines!Part) => /\ Len(Lines!Appended(s, n)) = Len(s) + 1
                                                         /\ \A k \in 1..Len(s) : Lines!Appended(s, n)[k] = s[k]
                                                         /\ Lines!Appended(s, n)[Len(s) + 1] = n
      BY <3>1, AppendedIs
    <3> QED
      BY <3>2 DEF S
  <2> QED
    BY <2>1, <2>2, <2>3
<1>3. lineFile' = Lines!With(lineFile, 0, c)
  BY DEF s
<1> HIDE DEF c
<1>4. /\ DOMAIN lineFile' = DOMAIN lineFile \cup {0} /\ lineFile'[0] = c
      /\ \A j \in DOMAIN lineFile \ {0} : lineFile'[j] = lineFile[j]
  BY <1>3 DEF Lines!With
<1>5. /\ DOMAIN lineFile' \subseteq 0..3
      /\ \A i \in DOMAIN lineFile' : lineFile'[i] \in Seq(Lines!Part..Lines!Merged)
  <2>1. DOMAIN lineFile' \subseteq 0..3
    BY <1>0, <1>4
  <2>2. \A i \in DOMAIN lineFile' : i = 0 \/ i \in DOMAIN lineFile \ {0}
    BY <1>4
  <2> QED
    BY <1>0, <1>2, <1>4, <2>1, <2>2
<1>6. ASSUME "overlap" \notin disturbed
      PROVE  /\ Unmerged(lineFile) /\ Len(c) = Len(s) + 1 /\ c[Len(s) + 1] = n
             /\ \A k \in 1..Len(s) : c[k] = s[k] /\ 0 \in DOMAIN lineFile /\ s[k] = lineFile[0][k] /\ s[k] # Lines!Part
  <2>1. Unmerged(lineFile) /\ Repaired(lineFile)
    BY <1>6, LineWorks
  <2>2. Len(<<>>) = 0
    OBVIOUS
  <2>3. \A k \in 1..Len(s) : 0 \in DOMAIN lineFile /\ s = lineFile[0]
    BY <1>0, <2>2
  <2>4. \A k \in 1..Len(s) : s[k] # Lines!Part
    BY <2>1, <2>3 DEF Repaired
  <2> QED
    BY <1>2, <2>1, <2>3, <2>4
<1>7. ASSUME "overlap" \notin disturbed PROVE Unmerged(lineFile')
  <2>1. \A k \in 1..Len(c) : c[k] \in 0..MaxRecords /\ (c[k] = Lines!Part => k = Len(c))
    <3> SUFFICES ASSUME NEW k \in 1..Len(c) PROVE c[k] \in 0..MaxRecords /\ (c[k] = Lines!Part => k = Len(c))
      OBVIOUS
    <3>1. CASE k = Len(s) + 1
      BY <1>6, <1>7, <3>1
    <3>2. CASE k \in 1..Len(s)
      <4>1. 0 \in DOMAIN lineFile /\ k \in 1..Len(lineFile[0]) /\ c[k] = lineFile[0][k] /\ c[k] # Lines!Part
        BY <1>0, <1>6, <1>7, <3>2
      <4> QED
        BY <1>6, <1>7, <4>1 DEF Unmerged
    <3> QED
      BY <1>2, <1>6, <1>7, <3>1, <3>2
  <2>2. Unmerged(lineFile)
    BY <1>6, <1>7
  <2> QED
    BY <1>4, <2>1, <2>2 DEF Unmerged
<1>8. ASSUME disturbed \subseteq {"crash"}, \A m \in ReadFrom(lineFile) : n # 0 => m < n
      PROVE  ReadFrom(lineFile') = ReadFrom(lineFile) \cup ({n} \ {0}) /\ Increasing(lineFile')
  <2>1. /\ Unmerged(lineFile) /\ Len(c) = Len(s) + 1 /\ c[Len(s) + 1] = n /\ Len(s) \in Nat
        /\ \A k \in 1..Len(s) : c[k] = s[k] /\ 0 \in DOMAIN lineFile /\ s[k] = lineFile[0][k] /\ s[k] # Lines!Part
    BY <1>2, <1>6, <1>8
  <2>2. 0 \in DOMAIN lineFile => Len(lineFile[0]) = Len(s)
    BY <1>0
  <2>3. \A i \in DOMAIN lineFile' : \A k \in 1..Len(lineFile'[i]) :
          \/ i = 0 /\ k = Len(s) + 1 /\ lineFile'[i][k] = n
          \/ i \in DOMAIN lineFile /\ k \in 1..Len(lineFile[i]) /\ lineFile'[i][k] = lineFile[i][k]
    <3> SUFFICES ASSUME NEW i \in DOMAIN lineFile', NEW k \in 1..Len(lineFile'[i])
                 PROVE  \/ i = 0 /\ k = Len(s) + 1 /\ lineFile'[i][k] = n
                        \/ i \in DOMAIN lineFile /\ k \in 1..Len(lineFile[i]) /\ lineFile'[i][k] = lineFile[i][k]
      OBVIOUS
    <3>1. CASE i = 0
      <4>1. k \in 1..Len(s) \/ k = Len(s) + 1
        BY <1>4, <2>1, <3>1
      <4> QED
        BY <1>4, <2>1, <2>2, <3>1, <4>1
    <3>2. CASE i # 0
      BY <1>4, <3>2
    <3> QED
      BY <3>1, <3>2
  <2>4. \A i \in DOMAIN lineFile : \A k \in 1..Len(lineFile[i]) :
          i \in DOMAIN lineFile' /\ k \in 1..Len(lineFile'[i]) /\ lineFile'[i][k] = lineFile[i][k]
    BY <1>4, <2>1, <2>2
  <2>5. 0 \in DOMAIN lineFile' /\ Len(s) + 1 \in 1..Len(lineFile'[0]) /\ lineFile'[0][Len(s) + 1] = n
    BY <1>4, <2>1
  <2>6. ReadFrom(lineFile') = ReadFrom(lineFile) \cup ({n} \ {0})
    <3>1. ASSUME NEW m \in ReadFrom(lineFile') PROVE m \in ReadFrom(lineFile) \cup ({n} \ {0})
      BY <2>3, <3>1, LineNumbers DEF ReadFrom
    <3>2. ASSUME NEW m \in ReadFrom(lineFile) PROVE m \in ReadFrom(lineFile')
      BY <2>4, <3>2 DEF ReadFrom
    <3>3. n # 0 => n \in ReadFrom(lineFile')
      BY <2>5, LineNumbers DEF ReadFrom
    <3> QED
      BY <3>1, <3>2, <3>3
  <2>7. ASSUME NEW i \in DOMAIN lineFile, NEW k \in 1..Len(lineFile[i]), n # 0 PROVE lineFile[i][k] < n
    <3>1. lineFile[i][k] \in 0..MaxRecords
      BY <2>1 DEF Unmerged
    <3>2. CASE lineFile[i][k] = 0
      BY <2>7, <3>2
    <3>3. CASE lineFile[i][k] # 0
      <4>1. lineFile[i][k] \in 1..MaxRecords
        BY <3>1, <3>3, LineNumbers
      <4>2. lineFile[i][k] \in ReadFrom(lineFile)
        BY <4>1 DEF ReadFrom
      <4> QED
        BY <1>8, <2>7, <4>2
    <3> QED
      BY <3>2, <3>3
  <2>8. Increasing(lineFile')
    <3> SUFFICES ASSUME NEW i \in DOMAIN lineFile', NEW j \in DOMAIN lineFile',
                        NEW k \in 1..Len(lineFile'[i]), NEW l \in 1..Len(lineFile'[j]),
                        i > j \/ (i = j /\ k < l), lineFile'[j][l] # Lines!Part
                 PROVE  lineFile'[i][k] < lineFile'[j][l]
      BY DEF Increasing
    <3>1. i \in 0..3 /\ j \in 0..3 /\ Len(lineFile'[0]) = Len(s) + 1 /\ k \in Nat /\ l \in Nat
      BY <1>4, <1>5, <2>1
    <3>2. CASE i = 0 /\ k = Len(s) + 1
      BY <3>1, <3>2
    <3>3. CASE i \in DOMAIN lineFile /\ k \in 1..Len(lineFile[i]) /\ lineFile'[i][k] = lineFile[i][k]
      <4>1. CASE j = 0 /\ l = Len(s) + 1 /\ lineFile'[j][l] = n
        BY <2>7, <3>3, <4>1, LineNumbers
      <4>2. CASE j \in DOMAIN lineFile /\ l \in 1..Len(lineFile[j]) /\ lineFile'[j][l] = lineFile[j][l]
        <5>1. Increasing(lineFile)
          BY <1>8, LineWorks
        <5> QED
          BY <3>3, <4>2, <5>1 DEF Increasing
      <4> QED
        BY <2>3, <4>1, <4>2
    <3> QED
      BY <2>3, <3>2, <3>3
  <2> QED
    BY <2>6, <2>8
<1> QED
  BY <1>5, <1>7, <1>8

LEMMA LineAppendStep ==
  ASSUME LineGood, NEW a \in Appenders, Lines!AppendLine(a)
  PROVE  LineGood'
<1> USE DEF Lines!Goes
<1>0. /\ Lines!TypeOK /\ linePc[a] = "append" /\ linePc' = [linePc EXCEPT ![a] = "idle"]
      /\ lineFile' = Lines!With(lineFile, 0, Lines!Appended(Lines!Lines, record[a]))
      /\ lineAcknowledged' = Append(lineAcknowledged, record[a])
      /\ UNCHANGED <<record, handle, lineSeen, dropped, disturbed, lineRecords>>
  BY DEF LineGood, Lines!AppendLine
<1> DEFINE n == record[a]
<1>1. /\ n \in 0..MaxRecords /\ lineRecords \in 0..MaxRecords /\ lineAcknowledged \in Seq(Lines!Part..Lines!Merged)
      /\ linePc' \in [Appenders -> LineSteps] /\ n \in Lines!Part..Lines!Merged
  <2>1. n \in 0..MaxRecords /\ lineRecords \in 0..MaxRecords /\ lineAcknowledged \in Seq(Lines!Part..Lines!Merged)
    BY <1>0, LineTypes
  <2>2. linePc' \in [Appenders -> LineSteps]
    BY <1>0, LineTypes DEF LineSteps
  <2>3. n \in Lines!Part..Lines!Merged
    BY <2>1, LineNumbers
  <2> QED
    BY <2>1, <2>2, <2>3
<1> HIDE DEF n
<1>2. lineFile' = Lines!With(lineFile, 0, Lines!Appended(Lines!Lines, n)) /\ lineAcknowledged' = Append(lineAcknowledged, n)
  BY <1>0 DEF n
<1>3. /\ DOMAIN lineFile' \subseteq 0..3
      /\ \A i \in DOMAIN lineFile' : lineFile'[i] \in Seq(Lines!Part..Lines!Merged)
      /\ "overlap" \notin disturbed => Unmerged(lineFile')
      /\ disturbed \subseteq {"crash"} /\ (\A m \in ReadFrom(lineFile) : n # 0 => m < n) =>
            ReadFrom(lineFile') = ReadFrom(lineFile) \cup ({n} \ {0}) /\ Increasing(lineFile')
  BY <1>0, <1>1, <1>2, LineAdded
<1>4. Lines!TypeOK'
  <2>1. lineAcknowledged' \in Seq(Lines!Part..Lines!Merged)
    BY <1>1, <1>2
  <2> QED
    BY <1>0, <1>1, <1>3, <2>1, LineTypes, LineStaysTyped DEF Lines!TypeOK
<1>5. \A b \in Appenders : linePc'[b] = IF b = a THEN "idle" ELSE linePc[b]
  BY <1>0, LineTypes
<1>6. "overlap" \notin disturbed => InTurn /\ (\A b \in Appenders : linePc'[b] = "idle") /\ n = lineRecords /\ n # 0
  BY <1>0, <1>5 DEF LineGood, Uncrossed, InTurn, n
<1>7. Uncrossed'
  BY <1>0, <1>3, <1>6 DEF Uncrossed, InTurn
<1>8. Calm'
  <2> SUFFICES ASSUME disturbed \subseteq {"crash"}
               PROVE  Rotating' /\ Begun' /\ Kept' /\ Increasing(lineFile')
    BY <1>0 DEF Calm
  <2>1. Begun /\ ReadFrom(lineFile) = Lines!ToSet(lineAcknowledged) \ dropped
    BY DEF LineGood, Calm, Kept
  <2>2. n = lineRecords /\ n # 0 /\ \A m \in Lines!ToSet(lineAcknowledged) : m \in Nat /\ m < n
    BY <1>0, <1>1, <1>6, <2>1 DEF Begun
  <2>3. /\ Lines!ToSet(lineAcknowledged) = {lineAcknowledged[k] : k \in 1..Len(lineAcknowledged)}
        /\ Len(lineAcknowledged) \in Nat
    BY <1>1, LinesOf
  <2>4. /\ Len(lineAcknowledged') = Len(lineAcknowledged) + 1
        /\ lineAcknowledged'[Len(lineAcknowledged) + 1] = n
        /\ \A k \in 1..Len(lineAcknowledged) : lineAcknowledged'[k] = lineAcknowledged[k]
    BY <1>1, <1>2
  <2>5. Lines!ToSet(lineAcknowledged') = {lineAcknowledged'[k] : k \in 1..Len(lineAcknowledged')}
    <3>1. lineAcknowledged' \in Seq(Lines!Part..Lines!Merged)
      BY <1>1, <1>2
    <3> QED
      BY <3>1, LinesOf
  <2>6. Lines!ToSet(lineAcknowledged)' = Lines!ToSet(lineAcknowledged) \cup {n}
    <3>1. \A k \in 1..Len(lineAcknowledged') : k \in 1..Len(lineAcknowledged) \/ k = Len(lineAcknowledged) + 1
      BY <2>3, <2>4
    <3>2. Len(lineAcknowledged) + 1 \in 1..Len(lineAcknowledged')
          /\ \A k \in 1..Len(lineAcknowledged) : k \in 1..Len(lineAcknowledged')
      BY <2>3, <2>4
    <3>3. Lines!ToSet(lineAcknowledged)' = {lineAcknowledged'[k] : k \in 1..Len(lineAcknowledged')}
      BY <2>5 DEF Lines!ToSet
    <3> QED
      BY <2>3, <2>4, <3>1, <3>2, <3>3
  <2>7. /\ ReadFrom(lineFile') = ReadFrom(lineFile) \cup {n} /\ Increasing(lineFile')
    BY <1>3, <2>1, <2>2
  <2>8. n \notin dropped
    BY <1>1, <2>1, <2>2 DEF Begun
  <2>9. Kept'
    BY <1>0, <2>1, <2>6, <2>7, <2>8 DEF Kept
  <2>10. Begun'
    <3>1. \A m \in Lines!ToSet(lineAcknowledged)' : m \in 1..lineRecords
      BY <1>1, <2>1, <2>2, <2>6 DEF Begun
    <3>2. \A k, l \in 1..Len(lineAcknowledged') : k < l => lineAcknowledged'[k] < lineAcknowledged'[l]
      <4> SUFFICES ASSUME NEW k \in 1..Len(lineAcknowledged'), NEW l \in 1..Len(lineAcknowledged'), k < l
                   PROVE  lineAcknowledged'[k] < lineAcknowledged'[l]
        OBVIOUS
      <4>1. k \in 1..Len(lineAcknowledged) /\ lineAcknowledged'[k] = lineAcknowledged[k]
        BY <2>3, <2>4
      <4>2. CASE l = Len(lineAcknowledged) + 1
        BY <2>2, <2>3, <2>4, <4>1, <4>2
      <4>3. CASE l \in 1..Len(lineAcknowledged)
        BY <2>1, <2>4, <4>1, <4>3 DEF Begun
      <4> QED
        BY <2>3, <2>4, <4>2, <4>3
    <3>3. dropped \subseteq Lines!ToSet(lineAcknowledged)'
      BY <2>1, <2>6 DEF Begun
    <3> QED
      BY <1>0, <1>6, <3>1, <3>2, <3>3 DEF Begun
  <2>11. Rotating'
    BY <1>6 DEF Rotating
  <2> QED
    BY <2>7, <2>9, <2>10, <2>11
<1> QED
  BY <1>4, <1>7, <1>8 DEF LineGood

LEMMA LineCrashStep ==
  ASSUME LineGood, Lines!Crash
  PROVE  LineGood'
<1>0. /\ Lines!TypeOK /\ linePc' = [b \in Appenders |-> "idle"] /\ handle' = [b \in Appenders |-> Lines!Gone]
      /\ disturbed' = disturbed \cup {"crash"}
      /\ UNCHANGED <<record, lineSeen, lineAcknowledged, dropped, lineRecords>>
  BY DEF LineGood, Lines!Crash
<1>1. /\ DOMAIN lineFile' \subseteq 0..3
      /\ \A i \in DOMAIN lineFile' : lineFile'[i] \in Seq(Lines!Part..Lines!Merged)
      /\ "overlap" \notin disturbed => Unmerged(lineFile')
      /\ disturbed \subseteq {"crash"} => ReadFrom(lineFile') = ReadFrom(lineFile) /\ Increasing(lineFile')
  <2>1. CASE lineFile' = lineFile
    BY <1>0, <2>1, LineTypes DEF LineGood, Uncrossed, Calm
  <2>2. ASSUME NEW a \in Appenders, linePc[a] = "append",
               lineFile' = Lines!With(lineFile, 0, Lines!Appended(Lines!Lines, Lines!Part))
        PROVE  /\ DOMAIN lineFile' \subseteq 0..3
               /\ \A i \in DOMAIN lineFile' : lineFile'[i] \in Seq(Lines!Part..Lines!Merged)
               /\ "overlap" \notin disturbed => Unmerged(lineFile')
               /\ disturbed \subseteq {"crash"} => ReadFrom(lineFile') = ReadFrom(lineFile) /\ Increasing(lineFile')
    <3>1. 0 \in 0..MaxRecords /\ lineFile' = Lines!With(lineFile, 0, Lines!Appended(Lines!Lines, 0))
      BY <2>2, LineNumbers
    <3>2. /\ DOMAIN lineFile' \subseteq 0..3
          /\ \A i \in DOMAIN lineFile' : lineFile'[i] \in Seq(Lines!Part..Lines!Merged)
          /\ "overlap" \notin disturbed => Unmerged(lineFile')
          /\ disturbed \subseteq {"crash"} /\ (\A m \in ReadFrom(lineFile) : 0 # 0 => m < 0) =>
                ReadFrom(lineFile') = ReadFrom(lineFile) \cup ({0} \ {0}) /\ Increasing(lineFile')
      BY <2>2, <3>1, LineAdded
    <3> QED
      BY <3>2
  <2> QED
    BY <2>1, <2>2 DEF Lines!Crash
<1>2. Lines!TypeOK'
  <2>1. linePc' \in [Appenders -> LineSteps] /\ handle' \in [Appenders -> 0..4]
    BY <1>0, LineNumbers DEF LineSteps
  <2>2. disturbed' \subseteq {"overlap", "refusal", "crash"}
    BY <1>0 DEF Lines!TypeOK
  <2> QED
    BY <1>0, <1>1, <2>1, <2>2, LineTypes, LineStaysTyped
<1>3. Uncrossed'
  BY <1>0, <1>1 DEF Uncrossed, InTurn
<1>4. Calm'
  <2> SUFFICES ASSUME disturbed' \subseteq {"crash"}
               PROVE  Rotating' /\ Begun' /\ Kept' /\ Increasing(lineFile')
    BY DEF Calm
  <2>1. Begun /\ Kept /\ disturbed \subseteq {"crash"}
    BY <1>0 DEF LineGood, Calm
  <2>2. Rotating'
    BY <1>0 DEF Rotating
  <2>3. Begun'
    BY <1>0, <2>1 DEF Begun
  <2> QED
    BY <1>0, <1>1, <2>1, <2>2, <2>3 DEF Kept
<1> QED
  BY <1>2, <1>3, <1>4 DEF LineGood

LEMMA LineStep ==
  ASSUME LineGood, [Lines!Next]_transcriptVars
  PROVE  LineGood'
<1>1. CASE UNCHANGED transcriptVars
  <2>1. UNCHANGED <<lineFile, linePc, record, handle, lineSeen, lineAcknowledged, dropped, disturbed, lineRecords>>
    BY <1>1 DEF transcriptVars
  <2>2. Lines!TypeOK'
    BY <2>1, LineTypes, LineStaysTyped DEF LineGood, Lines!TypeOK
  <2>3. Uncrossed'
    BY <2>1 DEF LineGood, Uncrossed, InTurn
  <2>4. Calm'
    BY <2>1 DEF LineGood, Calm, Rotating, Begun, Kept
  <2> QED
    BY <2>2, <2>3, <2>4 DEF LineGood
<1>2. CASE Lines!Next
  BY <1>2, LineCrashStep, LineBeginStep, LineRepairStep, LineTruncateStep, LineSizeStep, LineRemoveStep,
     LineSecondStep, LineFirstStep, LineRotateStep, LineCopyStep, LineEmptyStep, LineAppendStep DEF Lines!Next
<1> QED
  BY <1>1, <1>2

LEMMA LineStart ==
  ASSUME Lines!Init
  PROVE  LineGood
<1>1. /\ DOMAIN lineFile = {} /\ linePc = [a \in Appenders |-> "idle"] /\ lineAcknowledged = <<>> /\ dropped = {}
      /\ disturbed = {} /\ lineRecords = 0
  BY DEF Lines!Init
<1>2. Lines!ToSet(lineAcknowledged) = {} /\ Len(lineAcknowledged) = 0 /\ ReadFrom(lineFile) = {}
  BY <1>1 DEF Lines!ToSet, ReadFrom
<1>3. Lines!TypeOK
  BY <1>1, LineNumbers DEF Lines!Init, Lines!TypeOK
<1>4. Uncrossed
  BY <1>1 DEF Uncrossed, InTurn, Unmerged
<1>5. Calm
  BY <1>1, <1>2 DEF Calm, Rotating, Begun, Kept, Increasing
<1> QED
  BY <1>3, <1>4, <1>5 DEF LineGood

LEMMA LineHolds == Spec => []LineGood
<1>1. Init => LineGood
  BY LinesPart, LineStart
<1>2. LineGood /\ [Next]_StorageVars => LineGood'
  BY LinesPart, LineStep
<1> QED
  BY <1>1, <1>2, PTL DEF Spec, StorageVars

\* Transcripts, for any number of records, of lines in a file and of crashes: while appends do not overlap, no record is
\* merged into the line that a crash left; and while no rename is refused either, the files have every record that
\* was appended and that a rotation did not drop with the oldest file, once, and in the order of the appends.
THEOREM TranscriptsAreWhole == Spec => []TranscriptIsSound
<1>1. LineGood => TranscriptIsSound
  <2> SUFFICES ASSUME LineGood PROVE Lines!TranscriptIsSound
    BY DEF TranscriptIsSound
  <2>0. /\ MaxRecords \in Nat /\ Lines!Part = 0 /\ Lines!Merged = MaxRecords + 1
        /\ \A i \in DOMAIN lineFile : lineFile[i] \in Seq(Lines!Part..Lines!Merged)
        /\ lineAcknowledged \in Seq(Lines!Part..Lines!Merged)
    BY LineNumbers, LineTypes DEF LineGood
  <2>1. \A i \in DOMAIN lineFile : /\ DOMAIN lineFile[i] = 1..Len(lineFile[i])
                                   /\ Lines!ToSet(lineFile[i]) = {lineFile[i][k] : k \in 1..Len(lineFile[i])}
    BY <2>0, LinesOf
  <2>2. DOMAIN lineAcknowledged = 1..Len(lineAcknowledged)
    BY <2>0, LinesOf
  <2>3. ASSUME "overlap" \notin disturbed, NEW i \in DOMAIN lineFile
        PROVE  \A n \in Lines!ToSet(lineFile[i]) : n \in 0..MaxRecords
    BY <2>1, <2>3 DEF LineGood, Uncrossed, Unmerged
  <2>4. ASSUME "overlap" \notin disturbed, NEW i \in DOMAIN lineFile
        PROVE  Lines!Merged \notin Lines!ToSet(lineFile[i])
    BY <2>0, <2>3, <2>4
  <2>5. ASSUME disturbed \subseteq {"crash"}
        PROVE  /\ (UNION {Lines!ToSet(lineFile[i]) : i \in DOMAIN lineFile}) \ {Lines!Part}
                    = Lines!ToSet(lineAcknowledged) \ dropped
               /\ Begun /\ Increasing(lineFile)
    <3>1. Begun /\ Increasing(lineFile) /\ ReadFrom(lineFile) = Lines!ToSet(lineAcknowledged) \ dropped
      BY <2>5 DEF LineGood, Calm, Kept
    <3>2. \A i \in DOMAIN lineFile : \A n \in Lines!ToSet(lineFile[i]) : n \in 0..MaxRecords
      BY <2>3, <2>5
    <3>3. ASSUME NEW n \in ReadFrom(lineFile)
          PROVE  n # Lines!Part /\ \E i \in DOMAIN lineFile : n \in Lines!ToSet(lineFile[i])
      <4>1. n \in 1..MaxRecords
        BY DEF ReadFrom
      <4>2. PICK i \in DOMAIN lineFile : \E k \in 1..Len(lineFile[i]) : lineFile[i][k] = n
        BY <3>3 DEF ReadFrom
      <4> QED
        BY <2>0, <2>1, <4>1, <4>2
    <3>4. ASSUME NEW i \in DOMAIN lineFile, NEW n \in Lines!ToSet(lineFile[i]), n # Lines!Part
          PROVE  n \in ReadFrom(lineFile)
      <4>1. n \in 1..MaxRecords
        BY <2>0, <3>2, <3>4
      <4> QED
        BY <2>1, <4>1 DEF ReadFrom
    <3> QED
      BY <3>1, <3>3, <3>4
  <2>6. ASSUME disturbed \subseteq {"crash"}
        PROVE  /\ \A i, j \in DOMAIN lineFile : \A k \in DOMAIN lineFile[i], l \in DOMAIN lineFile[j] :
                     (i > j \/ (i = j /\ k < l)) /\ lineFile[j][l] # Lines!Part => lineFile[i][k] < lineFile[j][l]
               /\ \A k, l \in DOMAIN lineAcknowledged : k < l => lineAcknowledged[k] < lineAcknowledged[l]
    BY <2>1, <2>2, <2>5, <2>6 DEF Increasing, Begun
  <2> QED
    BY <2>4, <2>5, <2>6 DEF Lines!TranscriptIsSound
<1> QED
  BY <1>1, LineHolds, PTL

-----------------------------------------------------------------------------
(***************************************************************************)
(* The types of every part, for any value of the constants.                *)
(***************************************************************************)
LEMMA ReplacingStaysTyped ==
  ASSUME Replacing!TypeOK, [Replacing!Next]_replacingVars
  PROVE  Replacing!TypeOK'
<1> USE DEF Replacing!At, Replacing!To, Replacing!Failed, Replacing!AfterRecovery, Replacing!Fault, Replacing!NoFault,
            Replacing!fileVars, Replacing!lockVars
<1> DEFINE Places == Replacing!Inside \cup {"idle", "open", "held", "steal", "dead"}
           Data == /\ dest \in Replacing!Revisions /\ backup \in Replacing!Revisions
                   /\ settled \in Replacing!Revisions /\ fileAcked \in Replacing!Revisions
                   /\ fsLock \in Procs \cup {NoFile} /\ fsOp \in [Procs -> Replacing!Revisions]
                   /\ writes \in 0..MaxWrites /\ fsFaults \in 0..MaxFaults
           Flags == journal \in BOOLEAN /\ stale \in BOOLEAN
           Steps == fsPc \in [Procs -> Places]
<1>0. Replacing!FsAssumption /\ Data /\ Flags /\ Steps
  BY StorageAssumption DEF Replacing!TypeOK
<1>a. NoFile \in Replacing!Revisions /\ MaxFaults \in Nat /\ MaxWrites \in Nat /\ Replacing!Recovered \in Replacing!Revisions
  BY <1>0 DEF Replacing!FsAssumption, Replacing!Revisions, Replacing!Recovered
<1>b. Data' /\ Flags' /\ Steps' => Replacing!TypeOK'
  BY DEF Replacing!TypeOK
<1>c. ASSUME NEW p \in Procs, NEW there \in Places, fsPc' = [fsPc EXCEPT ![p] = there] PROVE Steps'
  BY <1>0, <1>c
<1>d. \A there \in {"recover", "recoverJournal", "rename", "journal", "aside", "replace", "dropBackup", "dropJournal",
                     "restore", "undoJournal", "done", "failed", "idle", "open", "held", "steal", "dead"} : there \in Places
  BY DEF Replacing!Inside
<1> HIDE DEF Places
<1>1. CASE Replacing!LockAges
  BY <1>0, <1>1, <1>b DEF Replacing!LockAges
<1>2. ASSUME NEW p \in Procs, Replacing!Call(p) PROVE Replacing!TypeOK'
  <2>1. Data'
    BY <1>0, <1>a, <1>2 DEF Replacing!Call, Replacing!Revisions
  <2>2. Flags'
    BY <1>0, <1>2 DEF Replacing!Call
  <2>3. Steps'
    BY <1>c, <1>d, <1>2 DEF Replacing!Call
  <2> QED
    BY <1>b, <2>1, <2>2, <2>3
<1>3. ASSUME NEW p \in Procs, Replacing!OpenLock(p) PROVE Replacing!TypeOK'
  <2>1. Data'
    BY <1>0, <1>a, <1>3 DEF Replacing!OpenLock, Replacing!Revisions
  <2>2. Flags'
    BY <1>0, <1>3 DEF Replacing!OpenLock
  <2>3. Steps'
    BY <1>c, <1>d, <1>3 DEF Replacing!OpenLock
  <2> QED
    BY <1>b, <2>1, <2>2, <2>3
<1>4. ASSUME NEW p \in Procs, Replacing!LookAtLock(p) PROVE Replacing!TypeOK'
  <2>1. Data'
    BY <1>0, <1>a, <1>4 DEF Replacing!LookAtLock, Replacing!Revisions
  <2>2. Flags'
    BY <1>0, <1>4 DEF Replacing!LookAtLock
  <2>3. Steps'
    BY <1>c, <1>d, <1>4 DEF Replacing!LookAtLock
  <2> QED
    BY <1>b, <2>1, <2>2, <2>3
<1>5. ASSUME NEW p \in Procs, Replacing!StealLock(p) PROVE Replacing!TypeOK'
  <2>1. Data'
    BY <1>0, <1>a, <1>5 DEF Replacing!StealLock, Replacing!Revisions
  <2>2. Flags'
    BY <1>0, <1>5 DEF Replacing!StealLock
  <2>3. Steps'
    BY <1>c, <1>d, <1>5 DEF Replacing!StealLock
  <2> QED
    BY <1>b, <2>1, <2>2, <2>3
<1>6. ASSUME NEW p \in Procs, Replacing!LockTimesOut(p) PROVE Replacing!TypeOK'
  <2>1. Data'
    BY <1>0, <1>a, <1>6 DEF Replacing!LockTimesOut, Replacing!Revisions
  <2>2. Flags'
    BY <1>0, <1>6 DEF Replacing!LockTimesOut
  <2>3. Steps'
    BY <1>c, <1>d, <1>6 DEF Replacing!LockTimesOut
  <2> QED
    BY <1>b, <2>1, <2>2, <2>3
<1>7. ASSUME NEW p \in Procs, Replacing!Recover(p) PROVE Replacing!TypeOK'
  <2>1. Data'
    BY <1>0, <1>a, <1>7 DEF Replacing!Recover, Replacing!Revisions
  <2>2. Flags'
    BY <1>0, <1>7 DEF Replacing!Recover
  <2>3. Steps'
    BY <1>c, <1>d, <1>7 DEF Replacing!Recover
  <2> QED
    BY <1>b, <2>1, <2>2, <2>3
<1>8. ASSUME NEW p \in Procs, Replacing!RecoverJournal(p) PROVE Replacing!TypeOK'
  <2>1. Data'
    BY <1>0, <1>a, <1>8 DEF Replacing!RecoverJournal, Replacing!Revisions
  <2>2. Flags'
    BY <1>0, <1>8 DEF Replacing!RecoverJournal
  <2>3. Steps'
    BY <1>c, <1>d, <1>8 DEF Replacing!RecoverJournal
  <2> QED
    BY <1>b, <2>1, <2>2, <2>3
<1>9. ASSUME NEW p \in Procs, Replacing!Rename(p) PROVE Replacing!TypeOK'
  <2>1. Data'
    BY <1>0, <1>a, <1>9 DEF Replacing!Rename, Replacing!Revisions
  <2>2. Flags'
    BY <1>0, <1>9 DEF Replacing!Rename
  <2>3. Steps'
    BY <1>c, <1>d, <1>9 DEF Replacing!Rename
  <2> QED
    BY <1>b, <2>1, <2>2, <2>3
<1>10. ASSUME NEW p \in Procs, Replacing!WriteJournal(p) PROVE Replacing!TypeOK'
  <2>1. Data'
    BY <1>0, <1>a, <1>10 DEF Replacing!WriteJournal, Replacing!Revisions
  <2>2. Flags'
    BY <1>0, <1>10 DEF Replacing!WriteJournal
  <2>3. Steps'
    BY <1>c, <1>d, <1>10 DEF Replacing!WriteJournal
  <2> QED
    BY <1>b, <2>1, <2>2, <2>3
<1>11. ASSUME NEW p \in Procs, Replacing!MoveAside(p) PROVE Replacing!TypeOK'
  <2>1. Data'
    BY <1>0, <1>a, <1>11 DEF Replacing!MoveAside, Replacing!Revisions
  <2>2. Flags'
    BY <1>0, <1>11 DEF Replacing!MoveAside
  <2>3. Steps'
    BY <1>c, <1>d, <1>11 DEF Replacing!MoveAside
  <2> QED
    BY <1>b, <2>1, <2>2, <2>3
<1>12. ASSUME NEW p \in Procs, Replacing!Replace(p) PROVE Replacing!TypeOK'
  <2>1. Data'
    BY <1>0, <1>a, <1>12 DEF Replacing!Replace, Replacing!Revisions
  <2>2. Flags'
    BY <1>0, <1>12 DEF Replacing!Replace
  <2>3. Steps'
    BY <1>c, <1>d, <1>12 DEF Replacing!Replace
  <2> QED
    BY <1>b, <2>1, <2>2, <2>3
<1>13. ASSUME NEW p \in Procs, Replacing!DropBackup(p) PROVE Replacing!TypeOK'
  <2>1. Data'
    BY <1>0, <1>a, <1>13 DEF Replacing!DropBackup, Replacing!Revisions
  <2>2. Flags'
    BY <1>0, <1>13 DEF Replacing!DropBackup
  <2>3. Steps'
    BY <1>c, <1>d, <1>13 DEF Replacing!DropBackup
  <2> QED
    BY <1>b, <2>1, <2>2, <2>3
<1>14. ASSUME NEW p \in Procs, Replacing!DropJournal(p) PROVE Replacing!TypeOK'
  <2>1. Data'
    BY <1>0, <1>a, <1>14 DEF Replacing!DropJournal, Replacing!Revisions
  <2>2. Flags'
    BY <1>0, <1>14 DEF Replacing!DropJournal
  <2>3. Steps'
    BY <1>c, <1>d, <1>14 DEF Replacing!DropJournal
  <2> QED
    BY <1>b, <2>1, <2>2, <2>3
<1>15. ASSUME NEW p \in Procs, Replacing!Restore(p) PROVE Replacing!TypeOK'
  <2>1. Data'
    BY <1>0, <1>a, <1>15 DEF Replacing!Restore, Replacing!Revisions
  <2>2. Flags'
    BY <1>0, <1>15 DEF Replacing!Restore
  <2>3. Steps'
    BY <1>c, <1>d, <1>15 DEF Replacing!Restore
  <2> QED
    BY <1>b, <2>1, <2>2, <2>3
<1>16. ASSUME NEW p \in Procs, Replacing!UndoJournal(p) PROVE Replacing!TypeOK'
  <2>1. Data'
    BY <1>0, <1>a, <1>16 DEF Replacing!UndoJournal, Replacing!Revisions
  <2>2. Flags'
    BY <1>0, <1>16 DEF Replacing!UndoJournal
  <2>3. Steps'
    BY <1>c, <1>d, <1>16 DEF Replacing!UndoJournal
  <2> QED
    BY <1>b, <2>1, <2>2, <2>3
<1>17. ASSUME NEW p \in Procs, Replacing!Release(p) PROVE Replacing!TypeOK'
  <2>1. Data'
    BY <1>0, <1>a, <1>17 DEF Replacing!Release, Replacing!Revisions
  <2>2. Flags'
    BY <1>0, <1>17 DEF Replacing!Release
  <2>3. Steps'
    BY <1>c, <1>d, <1>17 DEF Replacing!Release
  <2> QED
    BY <1>b, <2>1, <2>2, <2>3
<1>18. ASSUME NEW p \in Procs, Replacing!Crash(p) PROVE Replacing!TypeOK'
  <2>1. Data'
    BY <1>0, <1>a, <1>18 DEF Replacing!Crash, Replacing!Revisions
  <2>2. Flags'
    BY <1>0, <1>18 DEF Replacing!Crash
  <2>3. Steps'
    BY <1>c, <1>d, <1>18 DEF Replacing!Crash
  <2> QED
    BY <1>b, <2>1, <2>2, <2>3
<1>19. CASE UNCHANGED replacingVars
  BY <1>0, <1>b, <1>19 DEF replacingVars
<1> QED
  BY <1>1, <1>2, <1>3, <1>4, <1>5, <1>6, <1>7, <1>8, <1>9, <1>10, <1>11, <1>12, <1>13, <1>14, <1>15, <1>16, <1>17, <1>18, <1>19 DEF Replacing!Next

\* The parts are of their types.
THEOREM StorageIsTyped == Spec => []TypesOK
<1> DEFINE Typed == Replacing!TypeOK /\ LogInv /\ MissionInv /\ GraphInv
<1>1. Init => Typed
  BY ReplacingPart, LogPart, MissionPart, GraphPart, FileStart, LogStart, MissionStart, GraphStart DEF FileInv
<1>2. Typed /\ [Next]_StorageVars => Typed'
  BY ReplacingPart, LogPart, MissionPart, GraphPart, ReplacingStaysTyped, LogStep, MissionStep, GraphStep
<1>3. /\ Typed /\ IndexGood /\ EvidenceTyped /\ MemoryTyped /\ LineGood /\ LicenseTyped => TypesOK
  BY DEF TypesOK, LogInv, MissionInv, GraphInv, IndexGood, IndexTyped, EvidenceTyped, MemoryTyped, LineGood, LicenseTyped
<1> HIDE DEF Typed
<1> QED
  BY <1>1, <1>2, <1>3, IndexHolds, EvidenceHolds, MemoryHolds, LineHolds, LicenseHolds, PTL DEF Spec, StorageVars
=============================================================================
