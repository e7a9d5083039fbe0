-------------------------------- MODULE Workflows --------------------------------
(***************************************************************************)
(* The health of one browser workflow (ordy_automation/drift.py and        *)
(* workflows/router.py): verification, approval, the kill switch and the   *)
(* degrade chain of its live runs.                                         *)
(*                                                                         *)
(* Managers' requests and the ends of runs load the workflow row and       *)
(* commit a new status later, without a lock; the ORM writes a column only *)
(* when it differs from the one loaded.  Who records the end of a run is   *)
(* outside the repository: it is taken to do what the requests do.         *)
(***************************************************************************)
EXTENDS Naturals

CONSTANT Actor  \* requests and runs that may happen, each once

VARIABLES
  wfStatus,       \* automation_workflows.status
  wfFailures,     \* automation_workflows.failure_count
  verifications,  \* queued verification runs
  actor,          \* actor[a]: what a has read and is about to write
  wasVerified,    \* history: a verification has passed
  killed          \* history: disabled while nothing else went on, and not verified since

wfVars == <<wfStatus, wfFailures, verifications, actor, wasVerified, killed>>

WorkflowStatus == {"draft", "verifying", "verified", "active", "degraded", "disabled"}

DISABLE_AFTER_FAILURES == 3

Idle == [pc |-> "new", kind |-> "none", seen |-> "draft", failures |-> 0]

ActorState == [pc : {"new", "running", "loaded", "done"},
               kind : {"none", "verify", "approve", "disable", "verification", "live"},
               seen : WorkflowStatus, failures : Nat]

WorkflowTypeOK ==
  /\ wfStatus \in WorkflowStatus
  /\ wfFailures \in Nat
  /\ verifications \in Nat
  /\ actor \in [Actor -> ActorState]
  /\ wasVerified \in BOOLEAN
  /\ killed \in BOOLEAN

WorkflowInit ==
  /\ wfStatus = "draft"
  /\ wfFailures = 0
  /\ verifications = 0
  /\ actor = [a \in Actor |-> Idle]
  /\ wasVerified = FALSE
  /\ killed = FALSE

(* Only a verified or active workflow runs live traffic. *)
Usable(status) == status \in {"active", "verified"}

Health(status, failures) == [status |-> status, failures |-> failures]

record_failure(health) ==
  LET count == health.failures + 1
  IN  Health(IF count >= DISABLE_AFTER_FAILURES THEN "disabled" ELSE "degraded", count)

record_success(health) ==
  IF health.status = "disabled" THEN health ELSE Health("active", 0)

(* Variant for the mutation checks: a finished verification has passed. *)
record_verification_Finished(health, passed) == Health("verified", 0)

record_verification(health, passed) ==
  IF passed THEN Health("verified", 0) ELSE Health("disabled", health.failures)

--------------------------------------------------------------------------------
ActorAt(a, pc) == actor[a].pc = pc

Loads(a, kind) ==
  actor' = [actor EXCEPT ![a] = [pc |-> "loaded", kind |-> kind, seen |-> wfStatus, failures |-> wfFailures]]

Leaves(a) == actor' = [actor EXCEPT ![a] = [Idle EXCEPT !.pc = "done"]]

(* Variant for the mutation checks: approval does not look at the status. *)
Approvable_Always(status) == status \in WorkflowStatus

(* Approval is refused unless the workflow has just passed its verification. *)
Approvable(status) == status = "verified"

LoadRequest(a, kind) ==
  /\ ActorAt(a, "new")
  /\ kind = "approve" => Approvable(wfStatus)
  /\ Loads(a, kind)
  /\ UNCHANGED <<wfStatus, wfFailures, verifications, wasVerified, killed>>

(* A queued verification run starts, or a live run of a usable workflow. *)
StartRun(a, kind) ==
  /\ ActorAt(a, "new")
  /\ kind = "verification" => verifications > 0
  /\ kind = "live" => Usable(wfStatus)
  /\ verifications' = IF kind = "verification" THEN verifications - 1 ELSE verifications
  /\ actor' = [actor EXCEPT ![a].pc = "running", ![a].kind = kind]
  /\ UNCHANGED <<wfStatus, wfFailures, wasVerified, killed>>

LoadResult(a) ==
  /\ ActorAt(a, "running")
  /\ Loads(a, actor[a].kind)
  /\ UNCHANGED <<wfStatus, wfFailures, verifications, wasVerified, killed>>

(* What a makes of the row it loaded; ok is the outcome of a run. *)
Outcome(a, ok) ==
  LET loaded == Health(actor[a].seen, actor[a].failures)
  IN  CASE actor[a].kind = "verify"       -> Health("verifying", loaded.failures)
        [] actor[a].kind = "approve"      -> Health("active", loaded.failures)
        [] actor[a].kind = "disable"      -> record_verification(loaded, FALSE)
        [] actor[a].kind = "verification" -> record_verification(loaded, ok)
        [] actor[a].kind = "live"         -> IF ok THEN record_success(loaded) ELSE record_failure(loaded)

InFlight == {a \in Actor : actor[a].pc \in {"running", "loaded"}}

Passes(a, ok) == actor[a].kind = "verification" /\ ok

(* Nobody else is at it, and nobody has written since a loaded the row. *)
Undisturbed(a) == InFlight = {a} /\ wfStatus = actor[a].seen

(* Only the columns that changed are written. *)
CommitHealth(a, ok) ==
  /\ ActorAt(a, "loaded")
  /\ wfStatus' = IF Outcome(a, ok).status = actor[a].seen THEN wfStatus ELSE Outcome(a, ok).status
  /\ wfFailures' = IF Outcome(a, ok).failures = actor[a].failures THEN wfFailures ELSE Outcome(a, ok).failures
  /\ verifications' = IF actor[a].kind = "verify" THEN verifications + 1 ELSE verifications
  /\ wasVerified' = (wasVerified \/ Passes(a, ok))
  /\ killed' = IF actor[a].kind = "disable" THEN Undisturbed(a) ELSE killed /\ ~Passes(a, ok)
  /\ Leaves(a)

(* The request or the recorder fails; nothing is written. *)
LoseHealth(a) ==
  /\ a \in InFlight
  /\ Leaves(a)
  /\ UNCHANGED <<wfStatus, wfFailures, verifications, wasVerified, killed>>

WorkflowNext ==
  \E a \in Actor :
    \/ \E kind \in {"verify", "approve", "disable"} : LoadRequest(a, kind)
    \/ \E kind \in {"verification", "live"} : StartRun(a, kind)
    \/ LoadResult(a)
    \/ \E ok \in BOOLEAN : CommitHealth(a, ok)
    \/ LoseHealth(a)

WorkflowSpec == WorkflowInit /\ [][WorkflowNext]_wfVars

--------------------------------------------------------------------------------
(* A workflow that runs live traffic, or did so before it degraded, has     *)
(* passed a verification, whatever requests and runs overlap.               *)
LiveWasVerified ==
  /\ Usable(wfStatus) \/ wfStatus = "degraded" => wasVerified
  /\ \A a \in InFlight : actor[a].kind = "live" => wasVerified

(* A workflow disabled when nothing else was in flight stays off until a    *)
(* verification passes: no approval, success or failure brings it back.     *)
(* With a run in flight it may come back (a failure makes it degraded and   *)
(* the next success active), and so may one that was disabled already.      *)
KillSwitchHolds == killed => ~Usable(wfStatus)
================================================================================
