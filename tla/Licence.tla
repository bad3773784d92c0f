------------------------------- MODULE Licence -------------------------------
(***************************************************************************)
(* The license of a user (polar-validator.ts) and the gate of the features *)
(* that need one (license-guard.ts).  Several processes check keys against *)
(* the service, and share one cache of the last answer, which counts for a *)
(* day, and for three while the service cannot be reached.                 *)
(***************************************************************************)
EXTENDS Integers

CONSTANTS
    Processes, Keys,
    Grants,                         \* what the service may have at first: the tier of each key
    Requests,                       \* pairs: the mode of an audit, and whether it runs in CI
    ProModes,                       \* PRO_AUDIT_MODES
    MaxTime, MaxChecks, MaxChanges  \* bounds; time goes by in days

Tiers == {"free", "solo", "pro"}
TTL == 1
Grace == 3
NoKey == "none"
NoCache == [key |-> NoKey, tier |-> "free", validated |-> -1, expires |-> -1]

LicenceAssumption ==
    /\ NoKey \notin Keys /\ Grants \subseteq [Keys -> Tiers] /\ Requests # {} /\ \A r \in Requests : r[2] \in BOOLEAN
    /\ MaxTime \in Nat /\ MaxChecks \in Nat /\ MaxChanges \in Nat

VARIABLES
    time,
    granted,            \* the tier the service has for each key, "free" for one that is invalid
    until,              \* when it last had each tier for a key, -1 for never (a history)
    cache,
    pc, key, request,   \* of the check of each process
    now, seen,          \* what it read: the time and the cache
    entry,              \* the answer it will cache
    result,             \* a record: allowed, and the tier
    checks, changes

licenceVars == <<time, granted, until, cache, pc, key, request, now, seen, entry, result, checks, changes>>

NoResult == [allowed |-> FALSE, tier |-> "free"]

Init ==
    /\ time = 0 /\ granted \in Grants
    /\ until = [k \in Keys |-> [t \in Tiers |-> IF t = granted[k] THEN 0 ELSE -1]] /\ cache = NoCache
    /\ pc = [p \in Processes |-> "idle"] /\ key = [p \in Processes |-> NoKey]
    /\ request = [p \in Processes |-> CHOOSE r \in Requests : TRUE]
    /\ now = [p \in Processes |-> 0] /\ seen = [p \in Processes |-> NoCache] /\ entry = [p \in Processes |-> NoCache]
    /\ result = [p \in Processes |-> NoResult] /\ checks = 0 /\ changes = 0

TypeOK ==
    /\ time \in 0..MaxTime /\ granted \in [Keys -> Tiers] /\ until \in [Keys -> [Tiers -> (-1)..MaxTime]]
    /\ cache.key \in Keys \cup {NoKey} /\ cache.tier \in Tiers
    /\ pc \in [Processes -> {"idle", "read", "ask", "write"}] /\ key \in [Processes -> Keys \cup {NoKey}]
    /\ request \in [Processes -> Requests] /\ now \in [Processes -> 0..MaxTime]
    /\ \A p \in Processes : result[p].tier \in Tiers

-----------------------------------------------------------------------------
\* Time, and the service.  A check takes less than a day.
Tick ==
    /\ time < MaxTime /\ time' = time + 1 /\ \A p \in Processes : pc[p] # "idle" => now[p] = time
    /\ until' = [k \in Keys |-> [until[k] EXCEPT ![granted[k]] = time']]
    /\ UNCHANGED <<granted, cache, pc, key, request, now, seen, entry, result, checks, changes>>

Change(k, t) ==
    /\ t # granted[k] /\ changes < MaxChanges /\ changes' = changes + 1
    /\ granted' = [granted EXCEPT ![k] = t] /\ until' = [until EXCEPT ![k][t] = time]
    /\ UNCHANGED <<time, cache, pc, key, request, now, seen, entry, result, checks>>

-----------------------------------------------------------------------------
isGated(r) == r[1] \in ProModes \/ r[2]

\* enforceLicenseGate, with what validateLicense returned.
allows(t, r) == t = "pro" \/ (t = "solo" /\ r[1] = "deep-sast")
Ends(p, t) ==
    /\ pc' = [pc EXCEPT ![p] = "idle"]
    /\ result' = [result EXCEPT ![p] = [allowed |-> allows(t, request[p]), tier |-> t]]

\* Nothing is gated, there is no key (or no organization to ask), or the key is looked up.
enforceLicenseGate(p, k, r) ==
    /\ pc[p] = "idle" /\ checks < MaxChecks /\ checks' = checks + 1
    /\ key' = [key EXCEPT ![p] = k] /\ request' = [request EXCEPT ![p] = r] /\ now' = [now EXCEPT ![p] = time]
    /\ IF isGated(r) /\ k # NoKey
       THEN pc' = [pc EXCEPT ![p] = "read"] /\ UNCHANGED result
       ELSE UNCHANGED pc /\ result' = [result EXCEPT ![p] = [NoResult EXCEPT !.allowed = ~isGated(r)]]
    /\ UNCHANGED <<time, granted, until, cache, seen, entry, changes>>

\* The cache is for this key.
IsFor(c, k) == c.key = k

\* readCache: an answer of this day is the result.
readCache(p) ==
    /\ pc[p] = "read"
    /\ IF IsFor(cache, key[p]) /\ now[p] < cache.expires THEN Ends(p, cache.tier) /\ UNCHANGED seen
       ELSE pc' = [pc EXCEPT ![p] = "ask"] /\ seen' = [seen EXCEPT ![p] = cache] /\ UNCHANGED result
    /\ UNCHANGED <<time, granted, until, cache, key, request, now, entry, checks, changes>>

\* callPolarApi and extractTier.
Answer(p) ==
    /\ pc[p] = "ask" /\ pc' = [pc EXCEPT ![p] = "write"] /\ seen' = [seen EXCEPT ![p] = NoCache]
    /\ entry' = [entry EXCEPT ![p] = [key |-> key[p], tier |-> granted[key[p]], validated |-> time, expires |-> now[p] + TTL]]
    /\ UNCHANGED <<time, granted, until, cache, key, request, now, result, checks, changes>>

\* Faulty variant: the third day still counts.
IsInLongGrace(p) == now[p] - seen[p].validated <= Grace

\* The cached answer still counts while the service cannot be reached.
IsInGrace(p) == now[p] - seen[p].validated < Grace

\* No answer, or one with an error status (which a service may well give for a key it does not know).
NoAnswer(p) ==
    /\ pc[p] = "ask" /\ Ends(p, IF IsFor(seen[p], key[p]) /\ IsInGrace(p) THEN seen[p].tier ELSE "free")
    /\ seen' = [seen EXCEPT ![p] = NoCache] /\ UNCHANGED <<time, granted, until, cache, key, request, now, entry, checks, changes>>

\* writeCache, which may fail.
writeCache(p) ==
    /\ pc[p] = "write" /\ cache' \in {cache, entry[p]} /\ Ends(p, entry[p].tier)
    /\ entry' = [entry EXCEPT ![p] = NoCache] /\ UNCHANGED <<time, granted, until, key, request, now, seen, checks, changes>>

Next ==
    \/ Tick
    \/ \E k \in Keys, t \in Tiers : Change(k, t)
    \/ \E p \in Processes :
          \/ readCache(p) \/ Answer(p) \/ NoAnswer(p) \/ writeCache(p)
          \/ \E k \in Keys \cup {NoKey}, r \in Requests : enforceLicenseGate(p, k, r)

Spec == Init /\ [][Next]_licenceVars

-----------------------------------------------------------------------------
\* Whatever answers of several processes overwrite one another in the cache, a tier a check ended with is
\* one the service had for that key less than three days before the check began, and a feature that
\* needs a license is allowed only by such a tier.
LicenceIsRecent == \A p \in Processes : pc[p] = "idle" /\ key[p] # NoKey =>
    /\ result[p].tier # "free" => now[p] - until[key[p]][result[p].tier] < Grace
    /\ result[p].allowed /\ isGated(request[p]) => result[p].tier # "free"

\* Not so: the gate looks at the mode first, and with deep-sast never at CI.
SoloHasNoCI == \A p \in Processes : pc[p] = "idle" /\ request[p][2] /\ result[p].tier = "solo" => ~result[p].allowed
=============================================================================
