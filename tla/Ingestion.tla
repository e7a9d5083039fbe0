-------------------------------- MODULE Ingestion --------------------------------
(***************************************************************************)
(* Ingestion runs of one restaurant, from the trigger to what is live.     *)
(*                                                                         *)
(* A run row is created by a request (knowledge/service.py) or by the      *)
(* hourly sweep (workers/ingestion/tasks.py), which also publishes a task  *)
(* on the broker; a worker executes it (ordy_ingest/runner.py) and leaves  *)
(* a draft: a menu document and a capability map.  A manager reads the     *)
(* drafts and submits a review, which makes them live.                     *)
(*                                                                         *)
(* Nothing ties these together but the rows.  Tasks are acknowledged late, *)
(* so a run may be executed again, at the same time or after its review;   *)
(* every transaction is READ COMMITTED without row locks, and the ORM      *)
(* writes a status only when it differs from the one it read.  Each read   *)
(* and each commit that others can tell apart is a step of its own.        *)
(***************************************************************************)
EXTENDS Naturals, FiniteSetsExt

CONSTANTS
  Run,        \* ingestion runs that may be created
  Worker,     \* processes that can execute a run at the same time
  Reviewer,   \* reviews that may be submitted, each once
  MaxFaults,  \* bound: worker deaths and visibility timeouts
  None        \* no value

ASSUME IngestConstants == MaxFaults \in Nat /\ None \notin Nat

VARIABLES
  run,      \* run[r]: status of the run row, "absent" until it is committed
  trigger,  \* trigger[r]: how far the request or sweep that creates r has got
  ready,    \* ready[r]: task messages of r waiting in the queue
  orphan,   \* orphan[r]: messages delivered to a worker that died without acknowledging
  job,      \* job[w]: the execution that worker w is busy with
  drafts,   \* committed menu documents, each with the capability map made with it
  begun,    \* final transactions begun so far; numbers them in the order of created_at
  menus,    \* menu rows of the restaurant
  review,   \* review[x]: what reviewer x has seen and is doing
  mishap,   \* history: runs that met a failure the code leaves unhandled
  faults    \* faults so far

ingestVars == <<run, trigger, ready, orphan, job, drafts, begun, menus, review, mishap, faults>>
execVars == <<run, drafts, begun, menus, review>>
brokerVars == <<trigger, ready, orphan, faults>>

RunStatus == {"queued", "fetching", "awaiting_review", "published", "failed", "rejected"}

Job == [run : Run, pc : {"loaded", "crawling", "failing", "drafting", "versioned", "ending"},
        seen : RunStatus,                  \* the run's status as the open transaction read it
        id : Nat, version : Nat,           \* of the draft about to be written
        message : {"held", "requeued", "none"}]

ASSUME NotAJob == None \notin Job

Draft == [id : Nat, run : Run, doc : {"draft", "approved"}, chunks : SUBSET Reviewer,
          copies : Nat, version : Nat, map : {"draft", "active", "superseded"}]

Review == [pc : {"idle", "submitted", "menu", "indexed", "maps", "done"}, run : Run \cup {None},
           shown : Nat \cup {None},         \* the draft get_review returned
           unseen : BOOLEAN,                \* history: it published another than that
           menu : BOOLEAN, map : BOOLEAN,   \* approve_menu, approve_capability_map
           seen : RunStatus \cup {None},
           doc : Nat \cup {None}, stale : SUBSET Reviewer, newMenu : BOOLEAN,
           cap : Nat \cup {None}, wasActive : BOOLEAN, actives : SUBSET Nat]

NoReview == [pc |-> "idle", run |-> None, shown |-> None, unseen |-> FALSE,
             menu |-> FALSE, map |-> FALSE, seen |-> None,
             doc |-> None, stale |-> {}, newMenu |-> FALSE,
             cap |-> None, wasActive |-> FALSE, actives |-> {}]

IngestTypeOK ==
  /\ run \in [Run -> RunStatus \cup {"absent"}]
  /\ trigger \in [Run -> {"idle", "created", "swept", "done"}]
  /\ ready \in [Run -> Nat]
  /\ orphan \in [Run -> Nat]
  /\ job \in [Worker -> Job \cup {None}]
  /\ drafts \subseteq Draft
  /\ begun \in Nat
  /\ menus \in Nat
  /\ review \in [Reviewer -> Review]
  /\ mishap \subseteq Run
  /\ faults \in 0..MaxFaults

IngestInit ==
  /\ run = [r \in Run |-> "absent"]
  /\ trigger = [r \in Run |-> "idle"]
  /\ ready = [r \in Run |-> 0]
  /\ orphan = [r \in Run |-> 0]
  /\ job = [w \in Worker |-> None]
  /\ drafts = {}
  /\ begun = 0
  /\ menus = 0
  /\ review = [x \in Reviewer |-> NoReview]
  /\ mishap = {}
  /\ faults = 0

DraftsOf(r) == {d \in drafts : d.run = r}

(* ORDER BY created_at DESC: created_at is the start of the transaction. *)
LatestDoc(r) == CHOOSE d \in DraftsOf(r) : \A e \in DraftsOf(r) : e.id <= d.id

(* ORDER BY version DESC *)
LatestMap(r) == CHOOSE d \in DraftsOf(r) : \A e \in DraftsOf(r) : e.version <= d.version

--------------------------------------------------------------------------------
(***************************************************************************)
(* Triggers.                                                               *)
(***************************************************************************)

(* POST /sources/{id}/runs: the row is committed first ...                  *)
TriggerRun(r) ==
  /\ trigger[r] = "idle"
  /\ run' = [run EXCEPT ![r] = "queued"]
  /\ trigger' = [trigger EXCEPT ![r] = "created"]
  /\ UNCHANGED <<ready, orphan, job, drafts, begun, menus, review, mishap, faults>>

(* ... and then the task is published.                                      *)
SendTask(r) ==
  /\ trigger[r] = "created"
  /\ trigger' = [trigger EXCEPT ![r] = "done"]
  /\ ready' = [ready EXCEPT ![r] = @ + 1]
  /\ UNCHANGED <<orphan, job, mishap, faults, execVars>>

(* The API dies or cannot reach the broker in between.                      *)
TriggerFails(r) ==
  /\ trigger[r] = "created"
  /\ trigger' = [trigger EXCEPT ![r] = "done"]
  /\ mishap' = mishap \cup {r}
  /\ UNCHANGED <<ready, orphan, job, faults, execVars>>

(* execute_run starts with a transaction that reads the run.                *)
Loaded(r, message) ==
  [run |-> r, pc |-> "loaded", seen |-> run[r], id |-> 0, version |-> 0, message |-> message]

(* With ingest_inline the request executes the run itself; whatever goes    *)
(* wrong is swallowed and there is no message to come back.                 *)
RunInline(w, r) ==
  /\ trigger[r] = "created"
  /\ job[w] = None
  /\ trigger' = [trigger EXCEPT ![r] = "done"]
  /\ job' = [job EXCEPT ![w] = Loaded(r, "none")]
  /\ UNCHANGED <<ready, orphan, mishap, faults, execVars>>

(* The sweep flushes a run row and publishes its task while its transaction *)
(* over all sources is still open.                                          *)
SweepSource(r) ==
  /\ trigger[r] = "idle"
  /\ trigger' = [trigger EXCEPT ![r] = "swept"]
  /\ ready' = [ready EXCEPT ![r] = @ + 1]
  /\ UNCHANGED <<orphan, job, mishap, faults, execVars>>

Swept == {r \in Run : trigger[r] = "swept"}

SweepCommit ==
  /\ Swept # {}
  /\ run' = [r \in Run |-> IF r \in Swept THEN "queued" ELSE run[r]]
  /\ trigger' = [r \in Run |-> IF r \in Swept THEN "done" ELSE trigger[r]]
  /\ UNCHANGED <<ready, orphan, job, drafts, begun, menus, review, mishap, faults>>

(* The sweep dies or the broker refuses a task: the rows are rolled back,   *)
(* the tasks published so far are not.                                      *)
SweepRollback ==
  /\ Swept # {}
  /\ trigger' = [r \in Run |-> IF r \in Swept THEN "done" ELSE trigger[r]]
  /\ UNCHANGED <<ready, orphan, job, mishap, faults, execVars>>

--------------------------------------------------------------------------------
(***************************************************************************)
(* The broker, and workers that die.                                       *)
(***************************************************************************)
(* A free worker takes a message and loads the run; a task that came before *)
(* its row was committed ends with a LookupError.                           *)
Deliver(w, r) ==
  /\ job[w] = None
  /\ ready[r] > 0
  /\ ready' = [ready EXCEPT ![r] = @ - 1]
  /\ IF run[r] = "absent"
     THEN UNCHANGED job /\ mishap' = mishap \cup {r}
     ELSE job' = [job EXCEPT ![w] = Loaded(r, "held")] /\ UNCHANGED mishap
  /\ UNCHANGED <<trigger, orphan, faults, execVars>>

(* Variant for the mutation checks: what a dead worker held is dropped. *)
Redeliver_Never(r) == FALSE /\ UNCHANGED ingestVars

(* An unacknowledged message goes back to the queue after the broker's      *)
(* visibility timeout ...                                                   *)
Redeliver(r) ==
  /\ orphan[r] > 0
  /\ orphan' = [orphan EXCEPT ![r] = @ - 1]
  /\ ready' = [ready EXCEPT ![r] = @ + 1]
  /\ UNCHANGED <<trigger, job, mishap, faults, execVars>>

(* ... also when the worker that has it is merely slow.                     *)
VisibilityTimeout(w) ==
  /\ faults < MaxFaults
  /\ job[w] # None
  /\ job[w].message = "held"
  /\ job' = [job EXCEPT ![w].message = "requeued"]
  /\ ready' = [ready EXCEPT ![job[w].run] = @ + 1]
  /\ faults' = faults + 1
  /\ UNCHANGED <<trigger, orphan, mishap, execVars>>

(* task_acks_late: the message is acknowledged when the task has ended, by  *)
(* an exception as well.                                                    *)
Acknowledge(w) ==
  /\ job[w] # None
  /\ job[w].pc = "ending"
  /\ job' = [job EXCEPT ![w] = None]
  /\ UNCHANGED <<mishap, brokerVars, execVars>>

(* A worker host dies: its message stays unacknowledged, unless it was      *)
(* given to another worker already or there never was one.                  *)
HostDies(w) ==
  /\ faults < MaxFaults
  /\ job[w] # None
  /\ job' = [job EXCEPT ![w] = None]
  /\ IF job[w].message = "held"
     THEN orphan' = [orphan EXCEPT ![job[w].run] = @ + 1] /\ UNCHANGED mishap
     ELSE mishap' = mishap \cup {job[w].run} /\ UNCHANGED orphan
  /\ faults' = faults + 1
  /\ UNCHANGED <<trigger, ready, execVars>>

(* Only the child process dies: its parent acknowledges the lost task       *)
(* (task_reject_on_worker_lost is not set).                                 *)
ChildDies(w) ==
  /\ faults < MaxFaults
  /\ job[w] # None
  /\ job' = [job EXCEPT ![w] = None]
  /\ mishap' = mishap \cup {job[w].run}
  /\ faults' = faults + 1
  /\ UNCHANGED <<trigger, ready, orphan, execVars>>

--------------------------------------------------------------------------------
(***************************************************************************)
(* execute_run.                                                            *)
(***************************************************************************)
At(w, pc) == job[w] # None /\ job[w].pc = pc

Continue(w, pc) == job' = [job EXCEPT ![w].pc = pc]

(* The task is over but for its acknowledgement. *)
End(w) ==
  job' = [job EXCEPT ![w].pc = "ending", ![w].seen = "queued", ![w].id = 0, ![w].version = 0]

(* The run's status as written by a transaction that read seen: the ORM     *)
(* leaves the column out of the UPDATE when it did not change.              *)
Assign(r, seen, status) == IF seen = status THEN run ELSE [run EXCEPT ![r] = status]

MarkFetching(w) ==
  /\ At(w, "loaded")
  /\ run' = Assign(job[w].run, job[w].seen, "fetching")
  /\ Continue(w, "crawling")
  /\ UNCHANGED <<drafts, begun, menus, review, mishap, brokerVars>>

(* Variant for the mutation checks: an error of the pipeline ends the task. *)
PipelineFails_Unrecorded(w) ==
  /\ At(w, "crawling")
  /\ End(w)
  /\ UNCHANGED <<mishap, brokerVars, execVars>>

(* The pipeline raises; a transaction of its own reads the run ...          *)
PipelineFails(w) ==
  /\ At(w, "crawling")
  /\ job' = [job EXCEPT ![w].pc = "failing", ![w].seen = run[job[w].run]]
  /\ UNCHANGED <<mishap, brokerVars, execVars>>

(* ... and records the failure.                                             *)
MarkFailed(w) ==
  /\ At(w, "failing")
  /\ run' = Assign(job[w].run, job[w].seen, "failed")
  /\ End(w)
  /\ UNCHANGED <<drafts, begun, menus, review, mishap, brokerVars>>

(* put_json raises: nobody catches it and nothing is recorded. *)
StorageFails(w) ==
  /\ At(w, "crawling")
  /\ End(w)
  /\ mishap' = mishap \cup {job[w].run}
  /\ UNCHANGED <<brokerVars, execVars>>

(* One of its transactions fails, with the database: the first, the one that *)
(* records a failure, or the last.  Nobody catches that, and nothing of the   *)
(* transaction is kept.                                                       *)
TransactionFails(w) ==
  /\ job[w] # None
  /\ job[w].pc \in {"loaded", "failing", "drafting"}
  /\ End(w)
  /\ mishap' = mishap \cup {job[w].run}
  /\ UNCHANGED <<brokerVars, execVars>>

(* The artifacts are stored; the last transaction begins and reads the run. *)
BeginDrafts(w) ==
  /\ At(w, "crawling")
  /\ begun' = begun + 1
  /\ job' = [job EXCEPT ![w].pc = "drafting", ![w].seen = run[job[w].run], ![w].id = begun + 1]
  /\ UNCHANGED <<run, drafts, menus, review, mishap, brokerVars>>

MapVersions == {d.version : d \in drafts}

(* Variant for the mutation checks: the status is committed before the drafts. *)
NextVersion_MarksReview(w) ==
  /\ At(w, "drafting")
  /\ run' = Assign(job[w].run, job[w].seen, "awaiting_review")
  /\ job' = [job EXCEPT ![w].pc = "versioned", ![w].version = Max(MapVersions \cup {0}) + 1]
  /\ UNCHANGED <<drafts, begun, menus, review, mishap, brokerVars>>

NextVersion(w) ==
  /\ At(w, "drafting")
  /\ job' = [job EXCEPT ![w].pc = "versioned", ![w].version = Max(MapVersions \cup {0}) + 1]
  /\ UNCHANGED <<mishap, brokerVars, execVars>>

NewDraft(w) ==
  [id |-> job[w].id, run |-> job[w].run, doc |-> "draft", chunks |-> {}, copies |-> 0,
   version |-> job[w].version, map |-> "draft"]

VersionTaken(w) == job[w].version \in MapVersions

(* Variant for the mutation checks: no unique index on the versions. *)
CommitDrafts_NoUniqueIndex(w) ==
  /\ At(w, "versioned")
  /\ drafts' = drafts \cup {NewDraft(w)}
  /\ run' = Assign(job[w].run, job[w].seen, "awaiting_review")
  /\ End(w)
  /\ UNCHANGED <<begun, menus, review, mishap, brokerVars>>

(* The draft, the map and the status are committed together.                *)
CommitDrafts(w) ==
  /\ At(w, "versioned")
  /\ ~VersionTaken(w)
  /\ drafts' = drafts \cup {NewDraft(w)}
  /\ run' = Assign(job[w].run, job[w].seen, "awaiting_review")
  /\ End(w)
  /\ UNCHANGED <<begun, menus, review, mishap, brokerVars>>

(* UNIQUE (restaurant_id, version) refuses the map: everything rolls back,  *)
(* and no handler records it.                                               *)
VersionConflict(w) ==
  /\ At(w, "versioned")
  /\ VersionTaken(w)
  /\ End(w)
  /\ mishap' = mishap \cup {job[w].run}
  /\ UNCHANGED <<brokerVars, execVars>>

--------------------------------------------------------------------------------
(***************************************************************************)
(* Reviews.                                                                *)
(***************************************************************************)
Reviewing(x, pc) == review[x].pc = pc

othersInReview == <<trigger, ready, orphan, job, begun, mishap, faults>>

(* GET /runs/{id}/review: the newest draft of the run, in any status.       *)
OpenReview(x, r) ==
  /\ Reviewing(x, "idle")
  /\ run[r] # "absent"
  /\ DraftsOf(r) # {}
  /\ review' = [review EXCEPT ![x].run = r, ![x].shown = LatestDoc(r).id]
  /\ UNCHANGED <<run, drafts, menus, othersInReview>>

Reviewable == {"awaiting_review", "published"}

(* POST /runs/{id}/review, with or without having looked. *)
SubmitReview(x, r, menu, map) ==
  /\ Reviewing(x, "idle")
  /\ review[x].run \in {r, None}
  /\ run[r] \in Reviewable
  /\ review' = [review EXCEPT ![x].pc = "submitted", ![x].run = r, ![x].seen = run[r],
                              ![x].menu = menu, ![x].map = map]
  /\ UNCHANGED <<run, drafts, menus, othersInReview>>

(* The newest menu document is read, its items become products of the       *)
(* restaurant's menu, and a menu is created if none was found.              *)
ReadMenu(x) ==
  /\ Reviewing(x, "submitted")
  /\ review' =
       IF review[x].menu /\ DraftsOf(review[x].run) # {}
       THEN [review EXCEPT ![x].pc = "menu", ![x].doc = LatestDoc(review[x].run).id,
                           ![x].newMenu = (menus = 0)]
       ELSE [review EXCEPT ![x].pc = "indexed"]
  /\ UNCHANGED <<run, drafts, menus, othersInReview>>

Approved(x, d) == d.id = review[x].doc

(* Variant for the mutation checks: the chunks are written by a transaction *)
(* of their own, before the approval.                                       *)
IndexDocument_Commits(x) ==
  /\ Reviewing(x, "menu")
  /\ review' = [review EXCEPT ![x].pc = "indexed"]
  /\ drafts' = {IF Approved(x, d) THEN [d EXCEPT !.chunks = {x}] ELSE d : d \in drafts}
  /\ UNCHANGED <<run, menus, othersInReview>>

(* _index_document deletes the chunks that are there and adds its own.  The *)
(* wait of a DELETE for one that is under way is left out, which only adds  *)
(* orders of commits.                                                       *)
IndexDocument(x) ==
  /\ Reviewing(x, "menu")
  /\ review' = [review EXCEPT ![x].pc = "indexed",
                              ![x].stale = UNION {d.chunks : d \in {e \in drafts : e.id = review[x].doc}}]
  /\ UNCHANGED <<run, drafts, menus, othersInReview>>

ReadMaps(x) ==
  /\ Reviewing(x, "indexed")
  /\ review' =
       IF review[x].map /\ DraftsOf(review[x].run) # {}
       THEN LET cap == LatestMap(review[x].run)
            IN  [review EXCEPT ![x].pc = "maps", ![x].cap = cap.version, ![x].wasActive = (cap.map = "active"),
                               ![x].actives = {d.version : d \in {e \in drafts : e.map = "active"}}]
       ELSE [review EXCEPT ![x].pc = "maps"]
  /\ UNCHANGED <<run, drafts, menus, othersInReview>>

Published(x, d) ==
  IF Approved(x, d)
  THEN [d EXCEPT !.doc = "approved", !.chunks = (@ \ review[x].stale) \cup {x}, !.copies = @ + 1]
  ELSE d

(* Every map seen active is superseded and the run's own activated; a       *)
(* status that ends as it was read is not written.                          *)
MapAfter(x, d) ==
  CASE d.version = review[x].cap -> IF review[x].wasActive THEN d.map ELSE "active"
    [] d.version \in review[x].actives \ {review[x].cap} -> "superseded"
    [] OTHER -> d.map

(* Variant for the mutation checks: the document's status for the run's. *)
Verdict_OfDocument(x) == IF review[x].menu \/ review[x].map THEN "approved" ELSE "rejected"

Verdict(x) == IF review[x].menu \/ review[x].map THEN "published" ELSE "rejected"

Closed(unseen) == [NoReview EXCEPT !.pc = "done", !.unseen = unseen]

(* Everything the review changes is committed together. *)
CommitReview(x) ==
  /\ Reviewing(x, "maps")
  /\ drafts' = {[Published(x, d) EXCEPT !.map = MapAfter(x, d)] : d \in drafts}
  /\ menus' = IF review[x].newMenu THEN menus + 1 ELSE menus
  /\ run' = Assign(review[x].run, review[x].seen, Verdict(x))
  /\ review' = [review EXCEPT ![x] = Closed(None \notin {@.shown, @.doc} /\ @.shown # @.doc)]
  /\ UNCHANGED othersInReview

(* The request fails before its commit. *)
ReviewFails(x) ==
  /\ review[x].pc \in {"submitted", "menu", "indexed", "maps"}
  /\ review' = [review EXCEPT ![x] = Closed(FALSE)]
  /\ UNCHANGED <<run, drafts, menus, othersInReview>>

--------------------------------------------------------------------------------
JobStep(w) ==
  \/ MarkFetching(w)
  \/ PipelineFails(w)
  \/ MarkFailed(w)
  \/ StorageFails(w)
  \/ TransactionFails(w)
  \/ BeginDrafts(w)
  \/ NextVersion(w)
  \/ CommitDrafts(w)
  \/ VersionConflict(w)
  \/ Acknowledge(w)

Trigger(r) == TriggerRun(r) \/ SendTask(r) \/ TriggerFails(r) \/ SweepSource(r)

WorkerFault(w) == VisibilityTimeout(w) \/ HostDies(w) \/ ChildDies(w)

ReviewStep(x) ==
  \/ \E r \in Run : OpenReview(x, r)
  \/ \E r \in Run, menu \in BOOLEAN, map \in BOOLEAN : SubmitReview(x, r, menu, map)
  \/ ReadMenu(x)
  \/ IndexDocument(x)
  \/ ReadMaps(x)
  \/ CommitReview(x)
  \/ ReviewFails(x)

IngestNext ==
  \/ \E r \in Run : Trigger(r) \/ Redeliver(r)
  \/ SweepCommit \/ SweepRollback
  \/ \E w \in Worker, r \in Run : RunInline(w, r) \/ Deliver(w, r)
  \/ \E w \in Worker : JobStep(w) \/ WorkerFault(w)
  \/ \E x \in Reviewer : ReviewStep(x)

IngestSpec == IngestInit /\ [][IngestNext]_ingestVars

(* A worker that lives goes on, a free worker takes what is in the queue,   *)
(* the broker gives back what was never acknowledged and the sweep ends.    *)
(* Nobody has to trigger a run or to submit a review.                       *)
IngestFairness ==
  /\ \A w \in Worker : WF_ingestVars(JobStep(w))
  /\ \A r \in Run : WF_ingestVars(\E w \in Worker : Deliver(w, r)) /\ WF_ingestVars(Redeliver(r))

IngestFairSpec == IngestSpec /\ IngestFairness

--------------------------------------------------------------------------------
(***************************************************************************)
(* Properties.                                                             *)
(***************************************************************************)

(* A run that is up for review, published or rejected has a committed draft:*)
(* whatever executes or reviews it at the same time or again, a manager is  *)
(* never sent to an empty review.                                           *)
ReviewedRunHasDraft ==
  \A r \in Run : run[r] \in {"awaiting_review", "published", "rejected"} => DraftsOf(r) # {}

(* The maps of the restaurant are numbered 1, 2, 3, ... and no number is    *)
(* used twice, although every execution computes its own as highest + 1.    *)
MapVersionsContiguous ==
  /\ MapVersions = 1..Cardinality(drafts)
  /\ \A d, e \in drafts : d.version = e.version => d = e

(* A menu document is searchable, and its items are on the live menu, if    *)
(* and only if it was approved.                                             *)
SearchableIffApproved ==
  \A d \in drafts : (d.doc = "approved") = (d.chunks # {}) /\ (d.doc = "approved") = (d.copies > 0)

Pending(r) ==
  \/ trigger[r] # "done"
  \/ ready[r] + orphan[r] > 0
  \/ \E w \in Worker : job[w] # None /\ job[w].run = r

(* A run is left behind as queued or fetching, with nothing left that would *)
(* move it, only by a failure the code does not handle: a request that died *)
(* before it published the task, a task that came before its row, a worker  *)
(* that died without a message to give back, the object store, the database *)
(* or a version conflict.  A failing pipeline, a dead host, a slow worker and a second   *)
(* execution at the same time or later never do.                            *)
StrandedOnlyByMishap ==
  \A r \in Run : run[r] \in {"queued", "fetching"} /\ ~Pending(r) => r \in mishap

(* A run whose task was published comes to its review or fails for the      *)
(* record, unless it met such a failure.                                    *)
RunsSettle ==
  \A r \in Run :
    trigger[r] = "done" /\ run[r] \in {"queued", "fetching"}
      ~> run[r] \notin {"queued", "fetching"} \/ r \in mishap

(* What goes live is the draft the manager was shown (violated: a run       *)
(* executed again between the look and the verdict has a newer one).        *)
PublishedWasShown == \A x \in Reviewer : ~review[x].unseen
================================================================================
