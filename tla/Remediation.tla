----------------------------- MODULE Remediation -----------------------------
(***************************************************************************)
(* The patches of the agents (remediation/): each is tested in a copy of   *)
(* the project, compared with the tests before the mission, reviewed by    *)
(* the user in the one dialog there is, and applied to the working tree,   *)
(* which the user and other patches change in the meantime.                *)
(***************************************************************************)
EXTENDS Naturals, FiniteSets, Functions

CONSTANTS
    Patches,      \* calls of apply_and_test_patch
    Files,
    Versions,     \* contents of a file, which are told apart by a hash
    Touched,      \* the files a patch touches
    Tests,        \* of the project
    MaxEdits      \* bound: edits by the user

RemediationAssumption ==
    /\ "command" \notin Patches
    /\ Versions # {} /\ Touched \in [Patches -> SUBSET Files \ {{}}] /\ IsFiniteSet(Files) /\ MaxEdits \in Nat

VARIABLES
    version,      \* of each file of the working tree
    pc, status,   \* of each call, and what it returned
    fingerprint, testedOn, checkedOn,   \* the touched files: for the token, in the copy, at the end
    baseline, result,   \* outcome of each test before the mission, and with the patch
    validations,  \* tokens that may be used
    timers,       \* reviews that time out
    dialog,       \* the confirmation of the store: of a patch, of a command, or closed
    approved, applied,   \* by the user; to the tree
    edits         \* counter of the bound

remediationVars == <<version, pc, status, fingerprint, testedOn, checkedOn, baseline, result,
    validations, timers, dialog, approved, applied, edits>>
work == <<fingerprint, testedOn, checkedOn, baseline, result, edits>>

Outcomes == {"pass", "fail", "skip", "missing"}
Closed == <<"none", "closed">>
TreeOf(p) == Restrict(version, Touched[p])

TypeOK ==
    /\ version \in [Files -> Versions]
    /\ pc \in [Patches -> {"new", "copy", "tests", "review", "apply", "check", "git", "record", "done"}]
    /\ status \in [Patches -> {"none", "rejected_by_validation", "revision_requested", "rejected_by_user",
                               "applied", "applied_unrecorded", "failed"}]
    /\ validations \cup timers \cup approved \cup applied \subseteq Patches
    /\ dialog \in (Patches \X {"choice", "text"}) \cup {Closed, <<"command", "choice">>}

\* A file is only compared with itself, so any content will do to begin with.
Init ==
    /\ version = [f \in Files |-> CHOOSE v \in Versions : TRUE] /\ edits = 0
    /\ pc = [p \in Patches |-> "new"] /\ status = [p \in Patches |-> "none"]
    /\ fingerprint = [p \in Patches |-> <<>>] /\ testedOn = fingerprint /\ checkedOn = fingerprint
    /\ baseline \in [Tests -> {"pass", "fail"}] /\ result = [p \in Patches |-> baseline]
    /\ validations = {} /\ timers = {} /\ dialog = Closed /\ approved = {} /\ applied = {}

-----------------------------------------------------------------------------
\* The user may also undo what was done to a file.
Edit(f, v) ==
    /\ edits < MaxEdits /\ edits' = edits + 1
    /\ v # version[f] /\ version' = [version EXCEPT ![f] = v]
    /\ UNCHANGED <<pc, status, fingerprint, testedOn, checkedOn, baseline, result, validations, timers,
                   dialog, approved, applied>>

\* A call that is over; its error is the answer of the tool.
Returns(p, s) == pc' = [pc EXCEPT ![p] = "done"] /\ status' = [status EXCEPT ![p] = s]
Proceeds(p, to) == pc' = [pc EXCEPT ![p] = to] /\ UNCHANGED status

\* validatePatch: the fingerprint of the touched files comes before the copy of the project.
validatePatch(p) ==
    /\ pc[p] = "new" /\ Proceeds(p, "copy")
    /\ fingerprint' = [fingerprint EXCEPT ![p] = TreeOf(p)]
    /\ UNCHANGED <<version, testedOn, checkedOn, baseline, result, validations, timers, dialog, approved, applied, edits>>

\* executeTests: the copy, in which the patch may not apply.
CopyProject(p, applies) ==
    /\ pc[p] = "copy"
    /\ testedOn' = [testedOn EXCEPT ![p] = TreeOf(p)]
    /\ IF applies THEN Proceeds(p, "tests") ELSE Returns(p, "failed")
    /\ UNCHANGED <<version, fingerprint, checkedOn, baseline, result, validations, timers, dialog, approved, applied, edits>>

Exit(outcome) == IF "fail" \in {outcome[t] : t \in Tests} THEN 1 ELSE 0

\* runInternal, with the exit code of the run.
degraded(outcome, exitCode) ==
    \/ \E t \in Tests : outcome[t] = "fail" /\ baseline[t] # "fail"
    \/ \E t \in Tests : outcome[t] = "missing"
    \/ exitCode # 0 /\ Exit(baseline) = 0

\* The tests end; without degradation the user is asked, over whatever he is asked now.
TestsEnd(p, outcome, exitCode) ==
    /\ pc[p] = "tests" /\ result' = [result EXCEPT ![p] = outcome]
    /\ IF degraded(outcome, exitCode)
       THEN /\ \/ Returns(p, "rejected_by_validation") \/ Returns(p, "failed")
            /\ UNCHANGED <<validations, timers, dialog>>
       ELSE /\ Proceeds(p, "review") /\ validations' = validations \cup {p}
            /\ dialog' = <<p, "choice">> /\ timers' = timers \cup {p}
    /\ UNCHANGED <<version, fingerprint, testedOn, checkedOn, baseline, approved, applied, edits>>

-----------------------------------------------------------------------------
\* The dialog

\* A command that needs an approval asks over whatever the user is asked now.
CommandAsks ==
    /\ dialog # <<"command", "choice">> /\ dialog' = <<"command", "choice">>
    /\ UNCHANGED <<version, pc, status, work, validations, timers, approved, applied>>

CommandAnswered ==
    /\ dialog = <<"command", "choice">> /\ dialog' = Closed
    /\ UNCHANGED <<version, pc, status, work, validations, timers, approved, applied>>

\* The review is over, and recorded unless that fails.
Declined(p, s) ==
    /\ timers' = timers \ {p} /\ validations' = validations \ {p}
    /\ \/ Returns(p, s) \/ Returns(p, "failed")

Select(p, action) ==
    /\ dialog = <<p, "choice">>
    /\ \/ /\ action = "apply" /\ Proceeds(p, "apply")
          /\ dialog' = Closed /\ timers' = timers \ {p} /\ approved' = approved \cup {p} /\ UNCHANGED validations
       \/ action = "reject" /\ dialog' = Closed /\ Declined(p, "rejected_by_user") /\ UNCHANGED approved
       \/ action = "revise" /\ dialog' = <<p, "text">> /\ UNCHANGED <<pc, status, timers, validations, approved>>
    /\ UNCHANGED <<version, work, applied>>

SubmitInstructions(p) ==
    /\ dialog = <<p, "text">> /\ dialog' = Closed /\ Declined(p, "revision_requested")
    /\ UNCHANGED <<version, work, approved, applied>>

\* The timeout closes the dialog, whoever it is of.
ReviewTimesOut(p) ==
    /\ p \in timers /\ dialog' = Closed /\ Declined(p, "rejected_by_user")
    /\ UNCHANGED <<version, work, approved, applied>>

-----------------------------------------------------------------------------
\* Faulty variant: git decides whether the patch still fits.
StillFits(p) == TRUE

SourceUnchanged(p) == fingerprint[p] = TreeOf(p)

\* applyValidatedPatch: the token is used up before anything is compared.
applyValidatedPatch(p) ==
    /\ pc[p] = "apply" /\ validations' = validations \ {p}
    /\ IF p \in validations /\ SourceUnchanged(p) THEN Proceeds(p, "check") ELSE Returns(p, "failed")
    /\ checkedOn' = [checkedOn EXCEPT ![p] = TreeOf(p)]
    /\ UNCHANGED <<version, fingerprint, testedOn, baseline, result, timers, dialog, approved, applied, edits>>

\* applyPatch: git checks whether the patch applies, on what the files are by then.
DryRun(p, applies) ==
    /\ pc[p] = "check"
    /\ IF applies THEN Proceeds(p, "git") ELSE Returns(p, "failed")
    /\ UNCHANGED <<version, work, validations, timers, dialog, approved, applied>>

\* git changes the files; when it takes too long or is aborted, it fails for the caller, who
\* cannot tell what it has done.
GitApplies(p, answers) ==
    /\ pc[p] = "git" /\ applied' = applied \cup {p}
    /\ version' \in [Files -> Versions] /\ \A f \in Files : version'[f] # version[f] <=> f \in Touched[p]
    /\ IF answers THEN Proceeds(p, "record") ELSE Returns(p, "failed")
    /\ UNCHANGED <<work, validations, timers, dialog, approved>>

GitFails(p) ==
    /\ pc[p] = "git" /\ Returns(p, "failed")
    /\ UNCHANGED <<version, work, validations, timers, dialog, approved, applied>>

\* recordDecision: when it fails, the patch is applied all the same.
recordDecision(p, ok) ==
    /\ pc[p] = "record" /\ Returns(p, IF ok THEN "applied" ELSE "applied_unrecorded")
    /\ UNCHANGED <<version, work, validations, timers, dialog, approved, applied>>

Next ==
    \/ \E f \in Files, v \in Versions : Edit(f, v)
    \/ CommandAsks \/ CommandAnswered
    \/ \E p \in Patches :
        \/ validatePatch(p) \/ SubmitInstructions(p) \/ ReviewTimesOut(p) \/ applyValidatedPatch(p) \/ GitFails(p)
        \/ \E ok \in BOOLEAN : CopyProject(p, ok) \/ DryRun(p, ok) \/ GitApplies(p, ok) \/ recordDecision(p, ok)
        \/ \E outcome \in [Tests -> Outcomes], exitCode \in {0, 1} : TestsEnd(p, outcome, exitCode)
        \/ \E action \in {"apply", "reject", "revise"} : Select(p, action)

Spec == Init /\ [][Next]_remediationVars

-----------------------------------------------------------------------------
\* What is applied is what was validated: the user approved that patch, no test that passed
\* before fails with it or is gone, and when git was called each touched file held what it
\* had held when the validation began, whatever was edited, reviewed or applied in between.
\* If the copy was made of that, the patch is applied to what it was tested on.
AppliedAsTested == \A p \in applied :
    /\ p \in approved /\ checkedOn[p] = fingerprint[p]
    /\ \A t \in Tests : baseline[t] = "pass" => result[p][t] \in {"pass", "skip"}

\* Not so: the fingerprint comes before the copy, and two of them are compared by content.
\* A file changed for the copy and changed back before the user approves passes: the patch is
\* applied to what it was not tested on.
AppliedOnTheTested == \A p \in applied : checkedOn[p] = testedOn[p]

\* The agent is told that a patch is applied only if it is, and that the user declined it only if
\* it is not: it would otherwise try it again, on lines it has changed.
AnswersAreTrue == \A p \in Patches :
    /\ status[p] \in {"applied", "applied_unrecorded"} => p \in applied
    /\ status[p] \notin {"none", "applied", "applied_unrecorded", "failed"} => p \notin applied

\* A review whose dialog was lost to another one still ends.
ReviewsEnd == \A p \in Patches : pc[p] = "review" => p \in timers

PatchesAreValidated == AppliedAsTested /\ AnswersAreTrue /\ ReviewsEnd
=============================================================================
