----------------------------- MODULE Ingestion_proofs -----------------------------
(***************************************************************************)
(* Proofs about Ingestion for any number of runs, workers, reviewers and   *)
(* faults.                                                                 *)
(*                                                                         *)
(* Settling is the heart: whenever a run is queued or fetching something   *)
(* is there that will write another status, and an execution whose         *)
(* transaction read the status it is about to write, so that the ORM       *)
(* leaves the column alone, does not count as that.  VersionsHold bounds   *)
(* the version an execution has computed by what is committed by then.     *)
(* The rows of a review keep only the names of their fields in IngInv; what*)
(* is in them is typed in a second step, once the newest draft of a run is *)
(* known to exist.                                                         *)
(***************************************************************************)
EXTENDS Ingestion, CommonLemmas, FiniteSetTheorems, FunctionTheorems

IngTypes ==
  /\ run \in [Run -> RunStatus \cup {"absent"}]
  /\ trigger \in [Run -> {"idle", "created", "swept", "done"}]
  /\ ready \in [Run -> Nat]
  /\ orphan \in [Run -> Nat]
  /\ job \in [Worker -> Job \cup {None}]
  /\ drafts \subseteq Draft
  /\ begun \in Nat
  /\ DOMAIN review = Reviewer

ReviewsHaveDrafts ==
  \A x \in Reviewer :
    /\ DOMAIN review[x] = DOMAIN NoReview
    /\ review[x].pc \in {"submitted", "menu", "indexed", "maps"} =>
         /\ review[x].run \in Run /\ run[review[x].run] # "absent"
         /\ DraftsOf(review[x].run) # {}

SweptRows ==
  /\ \A r \in Run :
       /\ trigger[r] \in {"idle", "swept"} => run[r] = "absent"
       /\ trigger[r] = "swept" => ready[r] > 0 \/ r \in mishap
       /\ trigger[r] = "created" => run[r] # "absent"
  /\ \A w \in Worker : job[w] # None => run[job[w].run] # "absent"

Works(w, r) ==
  /\ job[w] # None
  /\ job[w].run = r
  /\ \/ job[w].pc \in {"loaded", "crawling"}
     \/ job[w].pc = "failing" /\ job[w].seen # "failed"
     \/ job[w].pc \in {"drafting", "versioned"} /\ job[w].seen # "awaiting_review"

WillSettle(r) ==
  trigger[r] # "done" \/ ready[r] > 0 \/ orphan[r] > 0 \/ r \in mishap \/ \E w \in Worker : Works(w, r)

Settling == \A r \in Run : run[r] \in {"queued", "fetching"} => WillSettle(r)

VersionsHold ==
  /\ \E n \in Nat :
       /\ MapVersions = 1..n
       /\ \A w \in Worker : At(w, "versioned") => job[w].version \in 1..n + 1
  /\ \A d, e \in drafts : d.version = e.version => d = e

IngInv ==
  /\ IngTypes /\ SweptRows /\ Settling
  /\ ReviewedRunHasDraft /\ ReviewsHaveDrafts /\ SearchableIffApproved /\ VersionsHold

--------------------------------------------------------------------------------
LEMMA IngInitInv == IngestInit => IngInv
<1> SUFFICES ASSUME IngestInit PROVE IngInv
  OBVIOUS
<1>1. IngTypes /\ SweptRows /\ Settling
  BY DEF IngestInit, IngTypes, SweptRows, Settling
<1>2. \A x \in Reviewer : review[x] = NoReview
  BY DEF IngestInit
<1>3. ReviewsHaveDrafts
  BY <1>2 DEF ReviewsHaveDrafts, NoReview
<1>4. ReviewedRunHasDraft /\ SearchableIffApproved
  BY DEF IngestInit, ReviewedRunHasDraft, SearchableIffApproved
<1>5. MapVersions = 1..0
  BY DEF IngestInit, MapVersions
<1>6. VersionsHold
  BY <1>5 DEF IngestInit, VersionsHold, At
<1> QED
  BY <1>1, <1>3, <1>4, <1>6 DEF IngInv

(* Steps that leave the drafts and the reviews alone and write no status    *)
(* that would need a draft.                                                 *)
LEMMA DraftFrame ==
  ASSUME IngInv, UNCHANGED <<drafts, review>>,
         \A r \in Run : /\ run'[r] \in {"awaiting_review", "published", "rejected"} => run'[r] = run[r]
                        /\ run'[r] = "absent" => run[r] = "absent"
  PROVE  ReviewedRunHasDraft' /\ ReviewsHaveDrafts' /\ SearchableIffApproved'
BY DEF IngInv, ReviewedRunHasDraft, ReviewsHaveDrafts, SearchableIffApproved, DraftsOf

(* Steps after which no execution has a version that it had not before.     *)
LEMMA VersionFrame ==
  ASSUME IngInv, UNCHANGED drafts,
         \A w \in Worker : At(w, "versioned")' => At(w, "versioned") /\ job'[w].version = job[w].version
  PROVE  VersionsHold'
<1>1. MapVersions' = MapVersions
  BY DEF MapVersions
<1> QED
  BY <1>1 DEF IngInv, VersionsHold

--------------------------------------------------------------------------------
(* The triggers. *)
LEMMA TriggerInv ==
  ASSUME IngInv, NEW r \in Run, Trigger(r)
  PROVE  IngInv'
<1>1. UNCHANGED <<orphan, job, drafts, begun, review>>
      /\ \A q \in Run : q # r => run'[q] = run[q] /\ trigger'[q] = trigger[q] /\ ready'[q] = ready[q]
      /\ mishap \subseteq mishap'
  BY DEF Trigger, TriggerRun, SendTask, TriggerFails, SweepSource, execVars, IngInv, IngTypes
<1>2. \/ /\ trigger'[r] = "created" /\ run'[r] = "queued" /\ ready'[r] = ready[r]
      \/ /\ trigger[r] = "created" /\ trigger'[r] = "done" /\ run'[r] = run[r]
         /\ ready'[r] > 0 \/ r \in mishap'
      \/ /\ trigger[r] = "idle" /\ trigger'[r] = "swept" /\ run'[r] = run[r] /\ ready'[r] > 0
  BY DEF Trigger, TriggerRun, SendTask, TriggerFails, SweepSource, execVars, IngInv, IngTypes
<1>3. IngTypes'
  BY DEF Trigger, TriggerRun, SendTask, TriggerFails, SweepSource, execVars, IngInv, IngTypes, RunStatus
<1>4. SweptRows'
  <2>1. \A q \in Run : run[q] # "absent" => run'[q] # "absent"
    BY <1>1, <1>2
  <2>2. \A w \in Worker : job[w] # None => job[w].run \in Run
    BY DEF IngInv, IngTypes, Job
  <2>3. \A w \in Worker : job'[w] # None => run'[job'[w].run] # "absent"
    BY <1>1, <2>1, <2>2 DEF IngInv, SweptRows
  <2>4. ASSUME NEW q \in Run
        PROVE  /\ trigger'[q] \in {"idle", "swept"} => run'[q] = "absent"
               /\ trigger'[q] = "swept" => ready'[q] > 0 \/ q \in mishap'
               /\ trigger'[q] = "created" => run'[q] # "absent"
    <3>1. CASE q = r
      BY <1>2, <3>1 DEF IngInv, SweptRows
    <3>2. CASE q # r
      BY <1>1, <3>2 DEF IngInv, SweptRows
    <3> QED
      BY <3>1, <3>2
  <2> QED
    BY <2>3, <2>4 DEF SweptRows
<1>5. Settling'
  BY <1>1, <1>2 DEF IngInv, Settling, WillSettle, Works
<1>6. ReviewedRunHasDraft' /\ ReviewsHaveDrafts' /\ SearchableIffApproved' /\ VersionsHold'
  BY <1>1, <1>2, DraftFrame, VersionFrame DEF At
<1> QED
  BY <1>3, <1>4, <1>5, <1>6 DEF IngInv

LEMMA SweepInv ==
  ASSUME IngInv, SweepCommit \/ SweepRollback
  PROVE  IngInv'
<1>1. UNCHANGED <<ready, orphan, job, drafts, begun, review, mishap>>
  BY DEF SweepCommit, SweepRollback, execVars
<1>2. \A q \in Run :
        \/ q \in Swept /\ trigger'[q] = "done" /\ run'[q] \in {"queued", "absent"}
        \/ q \notin Swept /\ trigger'[q] = trigger[q] /\ run'[q] = run[q]
  BY DEF SweepCommit, SweepRollback, execVars, IngInv, IngTypes, SweptRows, Swept
<1>3. IngTypes'
  <2>1. run' \in [Run -> RunStatus \cup {"absent"}]
    BY DEF SweepCommit, SweepRollback, execVars, IngInv, IngTypes, RunStatus
  <2>2. trigger' \in [Run -> {"idle", "created", "swept", "done"}]
    BY DEF SweepCommit, SweepRollback, IngInv, IngTypes
  <2> QED
    BY <1>1, <2>1, <2>2 DEF IngInv, IngTypes
<1>4. \A q \in Swept : run[q] = "absent"
  BY DEF Swept, IngInv, SweptRows
<1>5. SweptRows'
  <2>1. \A w \in Worker : job[w] # None => job[w].run \in Run
    BY DEF IngInv, IngTypes, Job
  <2> QED
    BY <1>1, <1>2, <1>4, <2>1 DEF IngInv, SweptRows
<1>6. Settling'
  BY <1>1, <1>2 DEF Swept, IngInv, Settling, WillSettle, Works, SweptRows
<1>7. ReviewedRunHasDraft' /\ ReviewsHaveDrafts' /\ SearchableIffApproved' /\ VersionsHold'
  BY <1>1, <1>2, <1>4, DraftFrame, VersionFrame DEF At
<1> QED
  BY <1>3, <1>5, <1>6, <1>7 DEF IngInv

--------------------------------------------------------------------------------
(* A worker loads a run that is there. *)
LEMMA LoadsInv ==
  ASSUME IngInv, NEW w \in Worker, NEW r \in Run, NEW m \in {"held", "requeued", "none"}, job[w] = None,
         run[r] # "absent", job' = [job EXCEPT ![w] = Loaded(r, m)],
         trigger' \in [Run -> {"idle", "created", "swept", "done"}], ready' \in [Run -> Nat],
         \A q \in Run : \/ trigger'[q] = trigger[q] /\ ready'[q] = ready[q]
                        \/ q = r /\ trigger'[q] = trigger[q] /\ trigger[q] # "swept"
                        \/ q = r /\ trigger'[q] = "done",
         UNCHANGED <<run, orphan, drafts, begun, review, mishap>>
  PROVE  IngInv'
<1>1. Loaded(r, m) \in Job
  BY DEF Loaded, Job, RunStatus, IngInv, IngTypes
<1>2. /\ job'[w] \in Job /\ job'[w].run = r /\ job'[w].pc = "loaded" /\ job'[w] # None
      /\ \A v \in Worker : v # w => job'[v] = job[v]
  BY <1>1, NotAJob DEF Loaded, IngInv, IngTypes
<1>3. IngTypes'
  BY <1>1 DEF IngInv, IngTypes
<1>4. SweptRows'
  BY <1>2 DEF IngInv, SweptRows
<1>5. Settling'
  <2>1. Works(w, r)'
    BY <1>2 DEF Works
  <2>2. \A v \in Worker, q \in Run : Works(v, q) => Works(v, q)'
    BY <1>2 DEF Works
  <2> QED
    BY <2>1, <2>2 DEF IngInv, Settling, WillSettle
<1>6. ReviewedRunHasDraft' /\ ReviewsHaveDrafts' /\ SearchableIffApproved' /\ VersionsHold'
  BY <1>2, DraftFrame, VersionFrame DEF At
<1> QED
  BY <1>3, <1>4, <1>5, <1>6 DEF IngInv

LEMMA TakesRunInv ==
  ASSUME IngInv, NEW w \in Worker, NEW r \in Run, RunInline(w, r) \/ Deliver(w, r)
  PROVE  IngInv'
<1>1. CASE RunInline(w, r)
  <2>1. trigger' \in [Run -> {"idle", "created", "swept", "done"}] /\ ready' \in [Run -> Nat]
    BY <1>1 DEF RunInline, IngInv, IngTypes
  <2>2. /\ job[w] = None /\ run[r] # "absent" /\ job' = [job EXCEPT ![w] = Loaded(r, "none")]
        /\ UNCHANGED <<run, orphan, drafts, begun, review, mishap>>
    BY <1>1 DEF RunInline, execVars, IngInv, SweptRows
  <2>3. \A q \in Run : trigger'[q] = (IF q = r THEN "done" ELSE trigger[q]) /\ ready'[q] = ready[q]
    BY <1>1 DEF RunInline, IngInv, IngTypes
  <2>4. \A q \in Run : \/ trigger'[q] = trigger[q] /\ ready'[q] = ready[q]
                       \/ q = r /\ trigger'[q] = "done"
    BY <2>3
  <2> QED
    BY <2>1, <2>2, <2>4, LoadsInv
<1>2. CASE Deliver(w, r) /\ run[r] # "absent"
  <2>1. ready' \in [Run -> Nat] /\ trigger' = trigger /\ trigger \in [Run -> {"idle", "created", "swept", "done"}]
    BY <1>2 DEF Deliver, IngInv, IngTypes
  <2>2. /\ job[w] = None /\ job' = [job EXCEPT ![w] = Loaded(r, "held")]
        /\ UNCHANGED <<run, orphan, drafts, begun, review, mishap>>
    BY <1>2 DEF Deliver, execVars
  <2>3. trigger[r] # "swept"
    BY <1>2 DEF IngInv, SweptRows
  <2>4. \A q \in Run : q # r => ready'[q] = ready[q]
    BY <1>2 DEF Deliver, IngInv, IngTypes
  <2> QED
    BY <1>2, <2>1, <2>2, <2>3, <2>4, LoadsInv
<1>3. CASE Deliver(w, r) /\ run[r] = "absent"
  <2>1. UNCHANGED <<run, trigger, orphan, job, drafts, begun, review>> /\ mishap' = mishap \cup {r}
    BY <1>3 DEF Deliver, execVars
  <2>2. ready' \in [Run -> Nat] /\ \A q \in Run : q # r => ready'[q] = ready[q]
    BY <1>3 DEF Deliver, IngInv, IngTypes
  <2>3. IngTypes'
    BY <2>1, <2>2 DEF IngInv, IngTypes
  <2>4. SweptRows' /\ Settling'
    BY <2>1, <2>2 DEF IngInv, SweptRows, Settling, WillSettle, Works
  <2>5. ReviewedRunHasDraft' /\ ReviewsHaveDrafts' /\ SearchableIffApproved' /\ VersionsHold'
    BY <2>1, DraftFrame, VersionFrame DEF At
  <2> QED
    BY <2>3, <2>4, <2>5 DEF IngInv
<1> QED
  BY <1>1, <1>2, <1>3

LEMMA RedeliverInv ==
  ASSUME IngInv, NEW r \in Run, Redeliver(r)
  PROVE  IngInv'
<1>1. UNCHANGED <<run, trigger, job, drafts, begun, review, mishap>>
  BY DEF Redeliver, execVars
<1>2. /\ ready' \in [Run -> Nat] /\ orphan' \in [Run -> Nat] /\ ready'[r] > 0
      /\ \A q \in Run : q # r => ready'[q] = ready[q] /\ orphan'[q] = orphan[q]
  BY DEF Redeliver, IngInv, IngTypes
<1>3. IngTypes'
  BY <1>1, <1>2 DEF IngInv, IngTypes
<1>4. SweptRows' /\ Settling'
  BY <1>1, <1>2 DEF IngInv, SweptRows, Settling, WillSettle, Works
<1>5. ReviewedRunHasDraft' /\ ReviewsHaveDrafts' /\ SearchableIffApproved' /\ VersionsHold'
  BY <1>1, DraftFrame, VersionFrame DEF At
<1> QED
  BY <1>3, <1>4, <1>5 DEF IngInv

--------------------------------------------------------------------------------
(* What worker w does to its run: either the run is not left behind, or w   *)
(* was not what would have settled it.                                      *)
LEMMA JobKeepsRows ==
  ASSUME IngInv, NEW w \in Worker, NEW r \in Run, job[w] # None, job[w].run = r, NEW j \in Job \cup {None},
         job' = [job EXCEPT ![w] = j],
         j # None => j.run = r,
         run' \in [Run -> RunStatus \cup {"absent"}],
         \A q \in Run : q # r => run'[q] = run[q],
         run'[r] # "absent",
         \A q \in Run : (ready[q] > 0 => ready'[q] > 0) /\ (orphan[q] > 0 => orphan'[q] > 0),
         mishap \subseteq mishap', UNCHANGED trigger,
         run'[r] \in {"queued", "fetching"} =>
           \/ Works(w, r)' \/ r \in mishap' \/ orphan'[r] > 0
           \/ ~Works(w, r) /\ run'[r] = run[r]
  PROVE  SweptRows' /\ Settling'
<1>1. run[r] # "absent"
  BY DEF IngInv, SweptRows
<1>2. job'[w] = j /\ \A v \in Worker : v # w => job'[v] = job[v]
  BY DEF IngInv, IngTypes
<1>3. \A v \in Worker : v # w => (\A q \in Run : Works(v, q) => Works(v, q)')
  BY <1>2 DEF Works
<1>4. \A q \in Run : q # r => ~Works(w, q)
  BY DEF Works
<1>5. \A q \in Run : run[q] # "absent" => run'[q] # "absent"
  OBVIOUS
<1>6. \A v \in Worker : job[v] # None => job[v].run \in Run /\ run[job[v].run] # "absent"
  BY DEF IngInv, IngTypes, Job, SweptRows
<1>7. SweptRows'
  <2>1. \A v \in Worker : job'[v] # None => run'[job'[v].run] # "absent"
    BY <1>2, <1>5, <1>6
  <2>2. \A q \in Run : trigger[q] \in {"idle", "swept"} => q # r
    BY <1>1 DEF IngInv, SweptRows
  <2>3. \A q \in Run :
          /\ trigger'[q] \in {"idle", "swept"} => run'[q] = "absent"
          /\ trigger'[q] = "swept" => ready'[q] > 0 \/ q \in mishap'
          /\ trigger'[q] = "created" => run'[q] # "absent"
    <3>1. \A q \in Run : trigger[q] \in {"idle", "swept"} => run'[q] = run[q]
      BY <2>2
    <3> QED
      BY <1>5, <3>1 DEF IngInv, SweptRows
  <2> QED
    BY <2>1, <2>3 DEF SweptRows
<1>8. Settling'
  <2> SUFFICES ASSUME NEW q \in Run, run'[q] \in {"queued", "fetching"}
               PROVE  WillSettle(q)'
    BY DEF Settling
  <2>1. CASE q # r
    BY <1>3, <1>4, <2>1 DEF IngInv, Settling, WillSettle
  <2>2. CASE q = r /\ (Works(w, r)' \/ r \in mishap' \/ orphan'[r] > 0)
    BY <2>2 DEF WillSettle
  <2>3. CASE q = r /\ ~Works(w, r) /\ run'[r] = run[r]
    BY <1>3, <2>3 DEF IngInv, Settling, WillSettle
  <2> QED
    BY <2>1, <2>2, <2>3
<1> QED
  BY <1>7, <1>8

(* The same, for steps that neither number nor write drafts. *)
LEMMA JobFrame ==
  ASSUME IngInv, NEW w \in Worker, NEW r \in Run, job[w] # None, job[w].run = r, NEW j \in Job \cup {None},
         job' = [job EXCEPT ![w] = j],
         j # None => /\ j.run = r
                     /\ j.pc = "versioned" => job[w].pc = "versioned" /\ j.version = job[w].version,
         NEW s \in RunStatus, run' = [run EXCEPT ![r] = s], s \in {"fetching", "failed"} \/ s = run[r],
         ready' \in [Run -> Nat], orphan' \in [Run -> Nat], begun' \in Nat,
         \A q \in Run : ready'[q] >= ready[q] /\ orphan'[q] >= orphan[q],
         mishap \subseteq mishap', UNCHANGED <<trigger, drafts, review>>,
         s \in {"queued", "fetching"} =>
           \/ Works(w, r)' \/ r \in mishap' \/ orphan'[r] > 0
           \/ ~Works(w, r) /\ s = run[r]
  PROVE  IngInv'
<1>1. /\ run' \in [Run -> RunStatus \cup {"absent"}] /\ run'[r] = s
      /\ \A q \in Run : q # r => run'[q] = run[q]
  BY DEF IngInv, IngTypes
<1>2. \A q \in Run : (ready[q] > 0 => ready'[q] > 0) /\ (orphan[q] > 0 => orphan'[q] > 0)
  <2> SUFFICES ASSUME NEW q \in Run
               PROVE  (ready[q] > 0 => ready'[q] > 0) /\ (orphan[q] > 0 => orphan'[q] > 0)
    OBVIOUS
  <2>1. ready[q] \in Nat /\ orphan[q] \in Nat /\ ready'[q] \in Nat /\ orphan'[q] \in Nat
    BY DEF IngInv, IngTypes
  <2> QED
    BY <2>1
<1>3. s # "absent"
  BY DEF RunStatus
<1>4. SweptRows' /\ Settling'
  BY <1>1, <1>2, <1>3, JobKeepsRows
<1>5. IngTypes'
  BY <1>1 DEF IngInv, IngTypes
<1>6. ReviewedRunHasDraft' /\ ReviewsHaveDrafts' /\ SearchableIffApproved'
  BY <1>1, <1>3, DraftFrame
<1>7. VersionsHold'
  <2>1. job'[w] = j /\ \A v \in Worker : v # w => job'[v] = job[v]
    BY DEF IngInv, IngTypes
  <2> QED
    BY <2>1, VersionFrame DEF At
<1> QED
  BY <1>4, <1>5, <1>6, <1>7 DEF IngInv

(* What is known of a worker that is busy. *)
LEMMA Busy ==
  ASSUME IngInv, NEW w \in Worker, job[w] # None
  PROVE  /\ job[w] \in Job /\ job[w].run \in Run /\ run[job[w].run] \in RunStatus
         /\ run = [run EXCEPT ![job[w].run] = run[job[w].run]]
         /\ \A q \in Run : ready[q] >= ready[q] /\ orphan[q] >= orphan[q]
         /\ ready \in [Run -> Nat] /\ orphan \in [Run -> Nat] /\ begun \in Nat
<1>1. job[w] \in Job
  BY DEF IngInv, IngTypes
<1>2. job[w].run \in Run
  BY <1>1 DEF Job
<1> QED
  BY <1>1, <1>2 DEF IngInv, IngTypes, SweptRows

LEMMA EndedJob ==
  ASSUME NEW j \in Job
  PROVE  LET e == [j EXCEPT !.pc = "ending", !.seen = "queued", !.id = 0, !.version = 0]
         IN  e \in Job /\ e # None /\ e.run = j.run /\ e.pc = "ending"
<1> DEFINE e == [j EXCEPT !.pc = "ending", !.seen = "queued", !.id = 0, !.version = 0]
<1>1. "queued" \in RunStatus
  BY DEF RunStatus
<1>2. e \in Job
  BY <1>1 DEF Job
<1>3. e.run = j.run /\ e.pc = "ending"
  BY DEF Job
<1> QED
  BY <1>2, <1>3, NotAJob

LEMMA DeathInv ==
  ASSUME IngInv, NEW w \in Worker, HostDies(w) \/ ChildDies(w)
  PROVE  IngInv'
<1> DEFINE r == job[w].run
<1>1. job[w] # None /\ job' = [job EXCEPT ![w] = None] /\ UNCHANGED <<run, trigger, ready, drafts, begun, review>>
  BY DEF HostDies, ChildDies, execVars
<1>2. /\ r \in Run /\ run[r] \in RunStatus /\ run = [run EXCEPT ![r] = run[r]]
      /\ ready \in [Run -> Nat] /\ orphan \in [Run -> Nat] /\ begun \in Nat
  BY <1>1, Busy
<1>3. /\ orphan' \in [Run -> Nat] /\ \A q \in Run : orphan'[q] >= orphan[q] /\ ready'[q] >= ready[q]
      /\ mishap \subseteq mishap' /\ (r \in mishap' \/ orphan'[r] > 0)
  BY <1>1, <1>2 DEF HostDies, ChildDies
<1> HIDE DEF r
<1> QED
  BY <1>1, <1>2, <1>3, JobFrame DEF r

(* The same, when the run stays as it is. *)
LEMMA StatusFrame ==
  ASSUME IngInv, NEW w \in Worker, NEW r \in Run, job[w] # None, job[w].run = r, NEW j \in Job \cup {None},
         job' = [job EXCEPT ![w] = j],
         j # None => /\ j.run = r
                     /\ j.pc = "versioned" => job[w].pc = "versioned" /\ j.version = job[w].version,
         UNCHANGED <<run, trigger, orphan, drafts, review>>,
         ready' \in [Run -> Nat], begun' \in Nat, \A q \in Run : ready[q] > 0 => ready'[q] > 0,
         mishap \subseteq mishap',
         run[r] \in {"queued", "fetching"} => Works(w, r)' \/ r \in mishap' \/ ~Works(w, r)
  PROVE  IngInv'
<1>1. run' \in [Run -> RunStatus \cup {"absent"}] /\ run'[r] # "absent"
  BY DEF IngInv, IngTypes, SweptRows
<1>2. job'[w] = j /\ \A v \in Worker : v # w => job'[v] = job[v]
  BY DEF IngInv, IngTypes
<1>3. SweptRows' /\ Settling'
  BY <1>1, JobKeepsRows
<1>4. IngTypes'
  BY DEF IngInv, IngTypes
<1>5. ReviewedRunHasDraft' /\ ReviewsHaveDrafts' /\ SearchableIffApproved'
  BY DraftFrame
<1>6. VersionsHold'
  BY <1>2, VersionFrame DEF At
<1> QED
  BY <1>3, <1>4, <1>5, <1>6 DEF IngInv

LEMMA VisibilityTimeoutInv ==
  ASSUME IngInv, NEW w \in Worker, VisibilityTimeout(w)
  PROVE  IngInv'
<1> DEFINE j == [job[w] EXCEPT !.message = "requeued"]
<1>1. job[w] # None /\ job' = [job EXCEPT ![w] = j]
      /\ UNCHANGED <<run, trigger, orphan, drafts, begun, review, mishap>>
  BY DEF VisibilityTimeout, execVars
<1>2. PICK r \in Run : r = job[w].run
  BY <1>1, Busy
<1>3. job[w] \in Job /\ ready \in [Run -> Nat] /\ begun \in Nat
  BY <1>1, Busy
<1>4. j \in Job /\ j # None /\ j.run = r /\ j.pc = job[w].pc /\ j.seen = job[w].seen /\ j.version = job[w].version
  BY <1>2, <1>3, NotAJob DEF Job
<1>5. ready' \in [Run -> Nat] /\ \A q \in Run : ready[q] > 0 => ready'[q] > 0
  BY <1>1, <1>2, <1>3 DEF VisibilityTimeout
<1>6. job'[w] = j
  BY <1>1 DEF IngInv, IngTypes
<1> HIDE DEF j
<1>7. Works(w, r) => Works(w, r)'
  BY <1>1, <1>4, <1>6 DEF Works
<1> QED
  BY <1>1, <1>2, <1>3, <1>4, <1>5, <1>7, StatusFrame

--------------------------------------------------------------------------------
LEMMA MarkFetchingInv ==
  ASSUME IngInv, NEW w \in Worker, MarkFetching(w)
  PROVE  IngInv'
<1> DEFINE j == [job[w] EXCEPT !.pc = "crawling"]
<1>1. job[w] # None /\ job' = [job EXCEPT ![w] = j]
      /\ UNCHANGED <<trigger, ready, orphan, drafts, begun, review, mishap>>
  BY DEF MarkFetching, At, Continue, brokerVars
<1>2. PICK r \in Run : r = job[w].run
  BY <1>1, Busy
<1>3. /\ job[w] \in Job /\ run[r] \in RunStatus /\ run = [run EXCEPT ![r] = run[r]]
      /\ ready \in [Run -> Nat] /\ orphan \in [Run -> Nat] /\ begun \in Nat
      /\ \A q \in Run : ready[q] >= ready[q] /\ orphan[q] >= orphan[q]
  BY <1>1, <1>2, Busy
<1>4. j \in Job /\ j # None /\ j.run = r /\ j.pc = "crawling"
  BY <1>2, <1>3, NotAJob DEF Job
<1>5. job'[w] = j
  BY <1>1 DEF IngInv, IngTypes
<1> HIDE DEF j
<1>6. Works(w, r)'
  BY <1>4, <1>5 DEF Works
<1>7. CASE job[w].seen = "fetching"
  <2>1. run' = [run EXCEPT ![r] = run[r]]
    BY <1>2, <1>3, <1>7 DEF MarkFetching, Assign
  <2> QED
    BY <1>1, <1>2, <1>3, <1>4, <1>6, <2>1, JobFrame
<1>8. CASE job[w].seen # "fetching"
  <2>1. run' = [run EXCEPT ![r] = "fetching"] /\ "fetching" \in RunStatus
    BY <1>2, <1>8 DEF MarkFetching, Assign, RunStatus
  <2> QED
    BY <1>1, <1>2, <1>3, <1>4, <1>6, <2>1, JobFrame
<1> QED
  BY <1>7, <1>8

LEMMA MarkFailedInv ==
  ASSUME IngInv, NEW w \in Worker, MarkFailed(w)
  PROVE  IngInv'
<1> DEFINE j == [job[w] EXCEPT !.pc = "ending", !.seen = "queued", !.id = 0, !.version = 0]
<1>1. job[w] # None /\ job[w].pc = "failing" /\ job' = [job EXCEPT ![w] = j]
      /\ UNCHANGED <<trigger, ready, orphan, drafts, begun, review, mishap>>
  BY DEF MarkFailed, At, End, brokerVars
<1>2. PICK r \in Run : r = job[w].run
  BY <1>1, Busy
<1>3. /\ job[w] \in Job /\ run[r] \in RunStatus /\ run = [run EXCEPT ![r] = run[r]]
      /\ ready \in [Run -> Nat] /\ orphan \in [Run -> Nat] /\ begun \in Nat
      /\ \A q \in Run : ready[q] >= ready[q] /\ orphan[q] >= orphan[q]
  BY <1>1, <1>2, Busy
<1>4. j \in Job /\ j # None /\ j.run = r /\ j.pc = "ending"
  BY <1>2, <1>3, EndedJob
<1> HIDE DEF j
<1>5. CASE job[w].seen = "failed"
  <2>1. UNCHANGED run
    BY <1>2, <1>5 DEF MarkFailed, Assign
  <2>2. ~Works(w, r)
    BY <1>1, <1>5 DEF Works
  <2> QED
    BY <1>1, <1>2, <1>3, <1>4, <2>1, <2>2, StatusFrame
<1>6. CASE job[w].seen # "failed"
  <2>1. run' = [run EXCEPT ![r] = "failed"] /\ "failed" \in RunStatus
    BY <1>2, <1>6 DEF MarkFailed, Assign, RunStatus
  <2> QED
    BY <1>1, <1>2, <1>3, <1>4, <2>1, JobFrame
<1> QED
  BY <1>5, <1>6

LEMMA PipelineFailsInv ==
  ASSUME IngInv, NEW w \in Worker, PipelineFails(w)
  PROVE  IngInv'
<1>1. job[w] # None /\ UNCHANGED <<run, trigger, ready, orphan, drafts, begun, review, mishap>>
  BY DEF PipelineFails, At, execVars, brokerVars
<1>2. PICK r \in Run : r = job[w].run
  BY <1>1, Busy
<1> DEFINE j == [job[w] EXCEPT !.pc = "failing", !.seen = run[r]]
<1>3. job[w] \in Job /\ run[r] \in RunStatus /\ ready \in [Run -> Nat] /\ begun \in Nat
  BY <1>1, <1>2, Busy
<1>4. j \in Job /\ j # None /\ j.run = r /\ j.pc = "failing" /\ j.seen = run[r]
  BY <1>2, <1>3, NotAJob DEF Job
<1>5. job' = [job EXCEPT ![w] = j]
  BY <1>2 DEF PipelineFails
<1> HIDE DEF j
<1>6. job'[w] = j
  BY <1>5 DEF IngInv, IngTypes
<1>7. run[r] \in {"queued", "fetching"} => Works(w, r)'
  BY <1>4, <1>6 DEF Works
<1> QED
  BY <1>1, <1>2, <1>3, <1>4, <1>5, <1>7, StatusFrame

LEMMA BeginDraftsInv ==
  ASSUME IngInv, NEW w \in Worker, BeginDrafts(w)
  PROVE  IngInv'
<1> DEFINE n == begun + 1
           status == run[job[w].run]
           j == [job[w] EXCEPT !.pc = "drafting", !.seen = status, !.id = n]
<1>1. job[w] # None /\ UNCHANGED <<run, trigger, ready, orphan, drafts, review, mishap>>
  BY DEF BeginDrafts, At, brokerVars
<1>2. job' = [job EXCEPT ![w] = j] /\ begun' = n
  BY DEF BeginDrafts
<1>3. PICK r \in Run : r = job[w].run
  BY <1>1, Busy
<1>4. job[w] \in Job /\ status \in RunStatus /\ status = run[r] /\ n \in Nat /\ ready \in [Run -> Nat]
  BY <1>1, <1>3, Busy
<1> HIDE DEF n, status
<1>5. j \in Job /\ j # None
  BY <1>4, NotAJob DEF Job
<1>6. j.run = r /\ j.pc = "drafting" /\ j.seen = status
  BY <1>3, <1>4 DEF Job
<1> HIDE DEF j
<1>7. job'[w] = j
  BY <1>2 DEF IngInv, IngTypes
<1>8. run[r] \in {"queued", "fetching"} => Works(w, r)'
  BY <1>4, <1>5, <1>6, <1>7 DEF Works
<1> QED
  BY <1>1, <1>2, <1>3, <1>4, <1>5, <1>6, <1>8, StatusFrame

(* A task that ends without a handler's notice. *)
LEMMA UnhandledInv ==
  ASSUME IngInv, NEW w \in Worker, StorageFails(w) \/ TransactionFails(w) \/ VersionConflict(w)
  PROVE  IngInv'
<1> DEFINE j == [job[w] EXCEPT !.pc = "ending", !.seen = "queued", !.id = 0, !.version = 0]
<1>1. job[w] # None /\ job' = [job EXCEPT ![w] = j] /\ mishap' = mishap \cup {job[w].run}
      /\ UNCHANGED <<run, trigger, ready, orphan, drafts, begun, review>>
  BY DEF StorageFails, TransactionFails, VersionConflict, At, End, brokerVars, execVars
<1>2. PICK r \in Run : r = job[w].run
  BY <1>1, Busy
<1>3. job[w] \in Job /\ ready \in [Run -> Nat] /\ begun \in Nat
  BY <1>1, Busy
<1>4. j \in Job /\ j # None /\ j.run = r /\ j.pc = "ending"
  BY <1>2, <1>3, EndedJob
<1> HIDE DEF j
<1> QED
  BY <1>1, <1>2, <1>3, <1>4, StatusFrame

LEMMA AcknowledgeInv ==
  ASSUME IngInv, NEW w \in Worker, Acknowledge(w)
  PROVE  IngInv'
<1>1. job[w] # None /\ job[w].pc = "ending" /\ job' = [job EXCEPT ![w] = None]
      /\ UNCHANGED <<run, trigger, ready, orphan, drafts, begun, review, mishap>>
  BY DEF Acknowledge, At, brokerVars, execVars
<1>2. PICK r \in Run : r = job[w].run
  BY <1>1, Busy
<1>3. ready \in [Run -> Nat] /\ begun \in Nat
  BY <1>1, Busy
<1>4. ~Works(w, r)
  BY <1>1 DEF Works
<1> QED
  BY <1>1, <1>2, <1>3, <1>4, StatusFrame

--------------------------------------------------------------------------------
(* The number a new map is given is the one after the highest. *)
LEMMA HighestVersion ==
  ASSUME NEW n \in Nat, MapVersions = 1..n
  PROVE  Max(MapVersions \cup {0}) = n
<1>1. n \in MapVersions \cup {0} /\ \A y \in MapVersions \cup {0} : n >= y
  OBVIOUS
<1>2. \A m \in MapVersions \cup {0} : (\A y \in MapVersions \cup {0} : m >= y) => m = n
  OBVIOUS
<1> QED
  BY <1>1, <1>2 DEF Max

LEMMA NextVersionInv ==
  ASSUME IngInv, NEW w \in Worker, NextVersion(w)
  PROVE  IngInv'
<1>1. PICK n \in Nat : /\ MapVersions = 1..n
                       /\ \A v \in Worker : At(v, "versioned") => job[v].version \in 1..n + 1
  BY DEF IngInv, VersionsHold
<1>0. PICK m \in Nat : m = n + 1
  OBVIOUS
<1> DEFINE j == [job[w] EXCEPT !.pc = "versioned", !.version = m]
<1>2. job[w] # None /\ job[w].pc = "drafting"
      /\ UNCHANGED <<run, trigger, ready, orphan, drafts, begun, review, mishap>>
  BY DEF NextVersion, At, execVars, brokerVars
<1>3. job' = [job EXCEPT ![w] = j]
  BY <1>0, <1>1, HighestVersion DEF NextVersion
<1>4. PICK r \in Run : r = job[w].run
  BY <1>2, Busy
<1>5. job[w] \in Job /\ run[r] \in RunStatus
  BY <1>2, <1>4, Busy
<1>6. j \in Job /\ j # None /\ j.run = r /\ j.pc = "versioned" /\ j.seen = job[w].seen /\ j.version = m
  <2>1. j \in Job
    BY <1>5 DEF Job
  <2>2. j.run = r /\ j.pc = "versioned" /\ j.seen = job[w].seen /\ j.version = m
    BY <1>4, <1>5 DEF Job
  <2> QED
    BY <2>1, <2>2, NotAJob
<1> HIDE DEF j
<1>7. job'[w] = j /\ \A v \in Worker : v # w => job'[v] = job[v]
  BY <1>3 DEF IngInv, IngTypes
<1>8. Works(w, r) => Works(w, r)'
  BY <1>2, <1>6, <1>7 DEF Works
<1>9. IngTypes'
  BY <1>2, <1>3, <1>6 DEF IngInv, IngTypes
<1>10. run' \in [Run -> RunStatus \cup {"absent"}] /\ run'[r] # "absent"
  BY <1>2, <1>5 DEF IngInv, IngTypes, RunStatus
<1>11. SweptRows' /\ Settling'
  BY <1>2, <1>3, <1>4, <1>6, <1>8, <1>10, JobKeepsRows
<1>12. ReviewedRunHasDraft' /\ ReviewsHaveDrafts' /\ SearchableIffApproved'
  BY <1>2, DraftFrame
<1>13. VersionsHold'
  <2>1. MapVersions' = 1..n
    BY <1>1, <1>2 DEF MapVersions
  <2>2. \A v \in Worker : At(v, "versioned")' => job'[v].version \in 1..n + 1
    BY <1>0, <1>1, <1>6, <1>7 DEF At
  <2> QED
    BY <1>2, <2>1, <2>2 DEF IngInv, VersionsHold
<1> QED
  BY <1>9, <1>11, <1>12, <1>13 DEF IngInv

LEMMA CommitDraftsInv ==
  ASSUME IngInv, NEW w \in Worker, CommitDrafts(w)
  PROVE  IngInv'
<1> DEFINE j == [job[w] EXCEPT !.pc = "ending", !.seen = "queued", !.id = 0, !.version = 0]
           new == NewDraft(w)
<1>1. job[w] # None /\ job[w].pc = "versioned" /\ At(w, "versioned") /\ job' = [job EXCEPT ![w] = j]
      /\ drafts' = drafts \cup {new} /\ UNCHANGED <<trigger, ready, orphan, begun, review, mishap>>
  BY DEF CommitDrafts, At, End, brokerVars
<1>2. PICK r \in Run : r = job[w].run
  BY <1>1, Busy
<1>3. job[w] \in Job /\ run[r] \in RunStatus
  BY <1>1, <1>2, Busy
<1>4. j \in Job /\ j # None /\ j.run = r /\ j.pc = "ending"
  BY <1>2, <1>3, EndedJob
<1>5. new \in Draft /\ new.run = r /\ new.version = job[w].version
      /\ new.doc = "draft" /\ new.chunks = {} /\ new.copies = 0
  BY <1>2, <1>3 DEF NewDraft, Draft, Job
<1> HIDE DEF j, new
<1>6. job'[w] = j /\ \A v \in Worker : v # w => job'[v] = job[v]
  BY <1>1 DEF IngInv, IngTypes
<1>7. /\ run' \in [Run -> RunStatus \cup {"absent"}] /\ run'[r] # "absent"
      /\ \A q \in Run : q # r => run'[q] = run[q]
      /\ \/ run'[r] = "awaiting_review"
         \/ run'[r] = run[r] /\ job[w].seen = "awaiting_review"
  BY <1>2, <1>3 DEF CommitDrafts, Assign, IngInv, IngTypes, RunStatus
<1>8. job[w].seen = "awaiting_review" => ~Works(w, r)
  BY <1>1 DEF Works
<1>9. SweptRows' /\ Settling'
  BY <1>1, <1>2, <1>4, <1>7, <1>8, JobKeepsRows
<1>10. IngTypes'
  BY <1>1, <1>4, <1>5, <1>7 DEF IngInv, IngTypes
<1>11. /\ new \in DraftsOf(r)' /\ \A q : DraftsOf(q) # {} => DraftsOf(q)' # {}
       /\ \A q \in Run : run[q] # "absent" => run'[q] # "absent"
  BY <1>1, <1>5, <1>7 DEF DraftsOf
<1>12. ReviewedRunHasDraft' /\ ReviewsHaveDrafts'
  BY <1>1, <1>7, <1>11 DEF IngInv, ReviewedRunHasDraft, ReviewsHaveDrafts
<1>13. SearchableIffApproved'
  BY <1>1, <1>5 DEF IngInv, SearchableIffApproved
<1>14. VersionsHold'
  <2>1. PICK n \in Nat : /\ MapVersions = 1..n
                         /\ \A v \in Worker : At(v, "versioned") => job[v].version \in 1..n + 1
    BY DEF IngInv, VersionsHold
  <2>2. new.version = n + 1
    BY <1>1, <1>5, <2>1 DEF CommitDrafts, VersionTaken
  <2>3. MapVersions' = 1..n + 1
    <3>1. MapVersions' = MapVersions \cup {new.version}
      BY <1>1 DEF MapVersions
    <3> QED
      BY <2>1, <2>2, <3>1
  <2>4. \A v \in Worker : At(v, "versioned")' => job'[v].version \in 1..(n + 1) + 1
    BY <1>4, <1>6, <2>1 DEF At
  <2>5. \A d \in drafts : d.version # new.version
    BY <2>1, <2>2 DEF MapVersions
  <2>6. \A d, e \in drafts' : d.version = e.version => d = e
    BY <1>1, <2>5 DEF IngInv, VersionsHold
  <2> QED
    BY <2>3, <2>4, <2>6 DEF VersionsHold
<1> QED
  BY <1>9, <1>10, <1>12, <1>13, <1>14 DEF IngInv

--------------------------------------------------------------------------------
(* The reviews.  Up to its commit a review only writes its own notes.       *)
LEMMA ReviewFrame ==
  ASSUME IngInv, NEW x \in Reviewer,
         UNCHANGED <<run, trigger, ready, orphan, job, begun, drafts, mishap>>,
         DOMAIN review' = Reviewer,
         \A y \in Reviewer : y # x => review'[y] = review[y],
         DOMAIN review'[x] = DOMAIN NoReview,
         review'[x].pc \in {"submitted", "menu", "indexed", "maps"} =>
           /\ review'[x].run \in Run /\ run[review'[x].run] # "absent"
           /\ DraftsOf(review'[x].run) # {}
  PROVE  IngInv'
<1>1. \A r : DraftsOf(r)' = DraftsOf(r)
  BY DEF DraftsOf
<1>2. ReviewsHaveDrafts'
  BY <1>1 DEF IngInv, ReviewsHaveDrafts
<1>3. ReviewedRunHasDraft' /\ SearchableIffApproved'
  BY <1>1 DEF IngInv, ReviewedRunHasDraft, SearchableIffApproved
<1>4. IngTypes' /\ SweptRows'
  BY DEF IngInv, IngTypes, SweptRows
<1>5. Settling'
  BY DEF IngInv, Settling, WillSettle, Works
<1>6. VersionsHold'
  BY VersionFrame DEF At
<1> QED
  BY <1>2, <1>3, <1>4, <1>5, <1>6 DEF IngInv

LEMMA LooksInv ==
  ASSUME IngInv, NEW x \in Reviewer, NEW r \in Run,
         OpenReview(x, r) \/ \E menu \in BOOLEAN, map \in BOOLEAN : SubmitReview(x, r, menu, map)
  PROVE  IngInv'
<1>1. UNCHANGED <<run, trigger, ready, orphan, job, begun, drafts, mishap>> /\ run[r] # "absent"
  BY DEF OpenReview, SubmitReview, othersInReview, Reviewable
<1>2. DraftsOf(r) # {}
  BY DEF OpenReview, SubmitReview, Reviewable, IngInv, ReviewedRunHasDraft
<1>3. review[x].pc = "idle" /\ DOMAIN review[x] = DOMAIN NoReview /\ DOMAIN review = Reviewer
  BY DEF OpenReview, SubmitReview, Reviewing, IngInv, IngTypes, ReviewsHaveDrafts
<1>4. /\ DOMAIN review' = Reviewer
      /\ \A y \in Reviewer : y # x => review'[y] = review[y]
      /\ DOMAIN review'[x] = DOMAIN NoReview
      /\ review'[x].pc = "idle" \/ review'[x].run = r
  <2>1. CASE OpenReview(x, r)
    <3>1. PICK id : review' = [review EXCEPT ![x].run = r, ![x].shown = id]
      BY <2>1 DEF OpenReview
    <3> QED
      BY <1>3, <3>1 DEF NoReview
  <2>2. CASE \E menu \in BOOLEAN, map \in BOOLEAN : SubmitReview(x, r, menu, map)
    <3>1. PICK menu, map : review' = [review EXCEPT ![x].pc = "submitted", ![x].run = r, ![x].seen = run[r],
                                                    ![x].menu = menu, ![x].map = map]
      BY <2>2 DEF SubmitReview
    <3> QED
      BY <1>3, <3>1 DEF NoReview
  <2> QED
    BY <2>1, <2>2
<1> QED
  BY <1>1, <1>2, <1>4, ReviewFrame

LEMMA ReadsInv ==
  ASSUME IngInv, NEW x \in Reviewer,
         ReadMenu(x) \/ IndexDocument(x) \/ ReadMaps(x) \/ ReviewFails(x)
  PROVE  IngInv'
<1>1. UNCHANGED <<run, trigger, ready, orphan, job, begun, drafts, mishap>>
  BY DEF ReadMenu, IndexDocument, ReadMaps, ReviewFails, othersInReview
<1>2. /\ review[x].pc \in {"submitted", "menu", "indexed", "maps"}
      /\ DOMAIN review[x] = DOMAIN NoReview /\ DOMAIN review = Reviewer
  BY DEF ReadMenu, IndexDocument, ReadMaps, ReviewFails, Reviewing, IngInv, IngTypes, ReviewsHaveDrafts
<1>3. /\ review[x].run \in Run /\ run[review[x].run] # "absent"
      /\ DraftsOf(review[x].run) # {}
  BY <1>2 DEF IngInv, ReviewsHaveDrafts
<1>4. /\ DOMAIN review' = Reviewer
      /\ \A y \in Reviewer : y # x => review'[y] = review[y]
      /\ DOMAIN review'[x] = DOMAIN NoReview
      /\ review'[x].pc = "done" \/ review'[x].run = review[x].run
  <2>1. CASE ReadMenu(x)
    BY <1>2, <2>1 DEF ReadMenu, NoReview
  <2>2. CASE IndexDocument(x)
    BY <1>2, <2>2 DEF IndexDocument, NoReview
  <2>3. CASE ReadMaps(x)
    BY <1>2, <2>3 DEF ReadMaps, NoReview
  <2>4. CASE ReviewFails(x)
    BY <1>2, <2>4 DEF ReviewFails, Closed, NoReview
  <2> QED
    BY <2>1, <2>2, <2>3, <2>4
<1> QED
  BY <1>1, <1>3, <1>4, ReviewFrame

(* What the commit of a review makes of one draft. *)
After(x, d) == [Published(x, d) EXCEPT !.map = MapAfter(x, d)]

LEMMA AfterReview ==
  ASSUME NEW x \in Reviewer, NEW d \in Draft, (d.doc = "approved") = (d.chunks # {}),
         (d.doc = "approved") = (d.copies > 0)
  PROVE  /\ After(x, d) \in Draft
         /\ After(x, d).run = d.run /\ After(x, d).version = d.version
         /\ (After(x, d).doc = "approved") = (After(x, d).chunks # {})
         /\ (After(x, d).doc = "approved") = (After(x, d).copies > 0)
<1> DEFINE m == MapAfter(x, d)
           p == Published(x, d)
           left == d.chunks \ review[x].stale
<1>1. m \in {"draft", "active", "superseded"}
  BY DEF MapAfter, Draft
<1>2. /\ p \in Draft /\ p.run = d.run /\ p.version = d.version
      /\ (p.doc = "approved") = (p.chunks # {}) /\ (p.doc = "approved") = (p.copies > 0)
  <2>1. CASE ~Approved(x, d)
    BY <2>1 DEF Published
  <2>2. CASE Approved(x, d)
    <3>1. p = [d EXCEPT !.doc = "approved", !.chunks = left \cup {x}, !.copies = d.copies + 1]
      BY <2>2 DEF Published
    <3>2. left \cup {x} \in SUBSET Reviewer /\ left \cup {x} # {}
      BY DEF Draft
    <3>3. PICK n \in Nat : n = d.copies + 1 /\ n > 0
      BY DEF Draft
    <3> HIDE DEF left, p
    <3>4. p = [d EXCEPT !.doc = "approved", !.chunks = left \cup {x}, !.copies = n]
      BY <3>1, <3>3
    <3>5. p \in Draft
      BY <3>2, <3>3, <3>4 DEF Draft
    <3>6. /\ p.run = d.run /\ p.version = d.version
          /\ p.doc = "approved" /\ p.chunks = left \cup {x} /\ p.copies = n
      BY <3>4 DEF Draft
    <3> QED
      BY <3>2, <3>3, <3>5, <3>6
  <2> QED
    BY <2>1, <2>2
<1> HIDE DEF m, p
<1>3. After(x, d) = [p EXCEPT !.map = m]
  BY DEF After, m, p
<1>4. After(x, d) \in Draft
  BY <1>1, <1>2, <1>3 DEF Draft
<1>5. /\ After(x, d).run = p.run /\ After(x, d).version = p.version /\ After(x, d).doc = p.doc
      /\ After(x, d).chunks = p.chunks /\ After(x, d).copies = p.copies
  BY <1>2, <1>3 DEF Draft
<1> QED
  BY <1>2, <1>4, <1>5

LEMMA CommitReviewInv ==
  ASSUME IngInv, NEW x \in Reviewer, CommitReview(x)
  PROVE  IngInv'
<1>1. UNCHANGED <<trigger, ready, orphan, job, begun, mishap>> /\ review[x].pc = "maps"
      /\ drafts' = {After(x, d) : d \in drafts}
  BY DEF CommitReview, othersInReview, Reviewing, After
<1>2. PICK r \in Run : r = review[x].run /\ run[r] # "absent" /\ DraftsOf(r) # {}
  BY <1>1 DEF IngInv, ReviewsHaveDrafts
<1>3. /\ run' \in [Run -> RunStatus \cup {"absent"}]
      /\ \A q \in Run : \/ run'[q] = run[q]
                        \/ q = r /\ run'[q] \in {"published", "rejected"}
  BY <1>2 DEF CommitReview, Assign, Verdict, IngInv, IngTypes, RunStatus
<1>4. \A d \in drafts :
        /\ After(x, d) \in Draft
        /\ After(x, d).run = d.run /\ After(x, d).version = d.version
        /\ (After(x, d).doc = "approved") = (After(x, d).chunks # {})
        /\ (After(x, d).doc = "approved") = (After(x, d).copies > 0)
  BY AfterReview DEF IngInv, IngTypes, SearchableIffApproved
<1>5. DOMAIN review' = Reviewer /\ IngTypes'
  BY <1>1, <1>3, <1>4 DEF CommitReview, IngInv, IngTypes
<1>6. SweptRows' /\ Settling'
  <2>1. \A w \in Worker : job[w] # None => job[w].run \in Run
    BY DEF IngInv, IngTypes, Job
  <2>2. SweptRows'
    BY <1>1, <1>2, <1>3, <2>1 DEF IngInv, SweptRows
  <2>3. Settling'
    BY <1>1, <1>3 DEF IngInv, Settling, WillSettle, Works
  <2> QED
    BY <2>2, <2>3
<1>7. \A q : DraftsOf(q) # {} => DraftsOf(q)' # {}
  BY <1>1, <1>4 DEF DraftsOf
<1>8. ReviewedRunHasDraft'
  BY <1>2, <1>3, <1>7 DEF IngInv, ReviewedRunHasDraft
<1>9. ReviewsHaveDrafts'
  <2>1. \E unseen : review' = [review EXCEPT ![x] = Closed(unseen)]
    BY DEF CommitReview
  <2>2. PICK unseen : review' = [review EXCEPT ![x] = Closed(unseen)]
    BY <2>1
  <2>3. DOMAIN Closed(unseen) = DOMAIN NoReview /\ Closed(unseen).pc = "done"
    BY DEF Closed, NoReview
  <2>4. review'[x] = Closed(unseen) /\ \A y \in Reviewer : y # x => review'[y] = review[y]
    BY <2>2 DEF IngInv, IngTypes
  <2>5. \A q \in Run : run[q] # "absent" => run'[q] # "absent"
    BY <1>3
  <2> QED
    BY <1>7, <2>3, <2>4, <2>5 DEF IngInv, ReviewsHaveDrafts
<1>10. SearchableIffApproved'
  BY <1>1, <1>4 DEF SearchableIffApproved
<1>11. VersionsHold'
  <2>1. MapVersions' = MapVersions
    BY <1>1, <1>4 DEF MapVersions
  <2>2. \A d, e \in drafts : After(x, d).version = After(x, e).version => After(x, d) = After(x, e)
    BY <1>4 DEF IngInv, VersionsHold
  <2>3. \A d, e \in drafts' : d.version = e.version => d = e
    BY <1>1, <2>2
  <2> QED
    BY <1>1, <2>1, <2>3 DEF IngInv, VersionsHold, At
<1> QED
  BY <1>5, <1>6, <1>8, <1>9, <1>10, <1>11 DEF IngInv

--------------------------------------------------------------------------------
LEMMA IngStepInv == IngInv /\ [IngestNext]_ingestVars => IngInv'
<1> SUFFICES ASSUME IngInv, [IngestNext]_ingestVars PROVE IngInv'
  OBVIOUS
<1>1. CASE \E r \in Run : Trigger(r) \/ Redeliver(r)
  BY <1>1, TriggerInv, RedeliverInv
<1>2. CASE SweepCommit \/ SweepRollback
  BY <1>2, SweepInv
<1>3. CASE \E w \in Worker, r \in Run : RunInline(w, r) \/ Deliver(w, r)
  BY <1>3, TakesRunInv
<1>4. ASSUME NEW w \in Worker, JobStep(w) PROVE IngInv'
  BY <1>4, MarkFetchingInv, PipelineFailsInv, MarkFailedInv, UnhandledInv, BeginDraftsInv, NextVersionInv,
     CommitDraftsInv, AcknowledgeInv DEF JobStep
<1>5. ASSUME NEW w \in Worker, WorkerFault(w) PROVE IngInv'
  BY <1>5, VisibilityTimeoutInv, DeathInv DEF WorkerFault
<1>6. ASSUME NEW x \in Reviewer, ReviewStep(x) PROVE IngInv'
  BY <1>6, LooksInv, ReadsInv, CommitReviewInv DEF ReviewStep
<1>7. CASE UNCHANGED ingestVars
  <2>1. UNCHANGED <<run, trigger, ready, orphan, job, drafts, begun, review, mishap>>
    BY <1>7 DEF ingestVars
  <2>2. IngTypes' /\ SweptRows'
    BY <2>1 DEF IngInv, IngTypes, SweptRows
  <2>3. Settling'
    BY <2>1 DEF IngInv, Settling, WillSettle, Works
  <2>4. ReviewedRunHasDraft' /\ ReviewsHaveDrafts' /\ SearchableIffApproved' /\ VersionsHold'
    BY <2>1, DraftFrame, VersionFrame DEF At
  <2> QED
    BY <2>2, <2>3, <2>4 DEF IngInv
<1> QED
  BY <1>1, <1>2, <1>3, <1>4, <1>5, <1>6, <1>7 DEF IngestNext

LEMMA IngInvariant == IngestSpec => []IngInv
BY IngInitInv, IngStepInv, PTL DEF IngestSpec

--------------------------------------------------------------------------------
(* What IngestTypeOK says beyond IngTypes.  A document is numbered by the  *)
(* transaction that wrote it, so the newest of a run exists.               *)
NumbersBegun ==
  /\ \A d \in drafts : d.id <= begun
  /\ \A w \in Worker : job[w] # None => job[w].id <= begun

ReviewTypes ==
  /\ review \in [Reviewer -> Review]
  /\ menus \in Nat
  /\ mishap \subseteq Run
  /\ faults \in 0..MaxFaults
  /\ NumbersBegun

LEMMA LatestDocIsDraft ==
  ASSUME IngInv, NumbersBegun, NEW r, DraftsOf(r) # {}
  PROVE  LatestDoc(r) \in DraftsOf(r)
<1> DEFINE S == {d.id : d \in DraftsOf(r)}
<1>1. drafts \subseteq Draft /\ DraftsOf(r) \subseteq drafts /\ begun \in Nat
  BY DEF IngInv, IngTypes, DraftsOf
<1>2. \A d \in DraftsOf(r) : d.id \in Nat /\ d.id <= begun
  BY <1>1 DEF Draft, NumbersBegun
<1>3. S \in SUBSET Nat /\ S # {} /\ \A n \in S : n <= begun
  BY <1>2
<1>4. PICK n \in S : \A m \in S : m <= n
  BY <1>1, <1>3, GreatestNat
<1>5. \E d \in DraftsOf(r) : \A e \in DraftsOf(r) : e.id <= d.id
  BY <1>4
<1> QED
  BY <1>5 DEF LatestDoc

LEMMA LatestMapIsDraft ==
  ASSUME IngInv, NEW r, DraftsOf(r) # {}
  PROVE  LatestMap(r) \in DraftsOf(r)
<1> DEFINE S == {d.version : d \in DraftsOf(r)}
<1>1. PICK b \in Nat : MapVersions = 1..b
  BY DEF IngInv, VersionsHold
<1>2. S \in SUBSET Nat /\ S # {} /\ \A n \in S : n <= b
  BY <1>1 DEF MapVersions, DraftsOf
<1>3. PICK n \in S : \A m \in S : m <= n
  BY <1>2, GreatestNat
<1>4. \E d \in DraftsOf(r) : \A e \in DraftsOf(r) : e.version <= d.version
  BY <1>3
<1> QED
  BY <1>4 DEF LatestMap

LEMMA NumbersFrame ==
  ASSUME IngInv, IngInv', NumbersBegun, NEW w \in Worker, NEW j,
         job' = [job EXCEPT ![w] = j], j # None => j.id <= begun', begun' >= begun, UNCHANGED drafts
  PROVE  NumbersBegun'
<1>1. begun \in Nat /\ begun' \in Nat /\ drafts \subseteq Draft /\ job \in [Worker -> Job \cup {None}]
  BY DEF IngInv, IngTypes
<1>2. \A d \in drafts : d.id \in Nat
  BY <1>1 DEF Draft
<1>3. \A v \in Worker : job[v] # None => job[v].id \in Nat
  BY <1>1 DEF Job
<1> QED
  BY <1>1, <1>2, <1>3 DEF NumbersBegun

(* No step but those of a job touches the numbers. *)
LEMMA TriggerTypes ==
  ASSUME IngInv, ReviewTypes, IngInv',
         \/ \E r \in Run : Trigger(r) \/ Redeliver(r)
         \/ SweepCommit \/ SweepRollback
         \/ \E w \in Worker, r \in Run : RunInline(w, r) \/ Deliver(w, r)
  PROVE  ReviewTypes'
<1>1. UNCHANGED <<drafts, begun, menus, review, faults>> /\ mishap' \subseteq Run
  BY DEF ReviewTypes, Trigger, TriggerRun, SendTask, TriggerFails, SweepSource, Redeliver, SweepCommit,
         SweepRollback, RunInline, Deliver, execVars
<1>2. \/ UNCHANGED job
      \/ \E w \in Worker, r \in Run, m \in {"held", "none"} : job' = [job EXCEPT ![w] = Loaded(r, m)]
  BY DEF Trigger, TriggerRun, SendTask, TriggerFails, SweepSource, Redeliver, SweepCommit,
         SweepRollback, RunInline, Deliver
<1>3. begun \in Nat /\ \A r, m : Loaded(r, m).id = 0
  BY DEF IngInv, IngTypes, Loaded
<1>4. NumbersBegun'
  <2>1. CASE UNCHANGED job
    BY <1>1, <2>1 DEF ReviewTypes, NumbersBegun
  <2>2. ASSUME NEW w \in Worker, NEW j, job' = [job EXCEPT ![w] = j], j.id = 0 PROVE NumbersBegun'
    <3>1. begun' >= begun /\ j.id <= begun' /\ UNCHANGED drafts /\ NumbersBegun
      BY <1>1, <1>3, <2>2 DEF ReviewTypes
    <3> QED
      BY <2>2, <3>1, NumbersFrame, Zenon
  <2> QED
    BY <1>2, <1>3, <2>1, <2>2
<1> QED
  BY <1>1, <1>4 DEF ReviewTypes

LEMMA JobTypes ==
  ASSUME IngInv, ReviewTypes, IngInv', NEW w \in Worker, JobStep(w) \/ WorkerFault(w)
  PROVE  ReviewTypes'
<1>0. \/ MarkFetching(w) \/ PipelineFails(w) \/ NextVersion(w) \/ VisibilityTimeout(w)
      \/ MarkFailed(w) \/ StorageFails(w) \/ TransactionFails(w) \/ VersionConflict(w)
      \/ Acknowledge(w) \/ HostDies(w) \/ ChildDies(w)
      \/ BeginDrafts(w) \/ CommitDrafts(w)
  BY DEF JobStep, WorkerFault
<1> USE DEF MarkFetching, PipelineFails, MarkFailed, StorageFails, BeginDrafts, NextVersion, CommitDrafts,
            TransactionFails, VersionConflict, Acknowledge, VisibilityTimeout, HostDies, ChildDies, At
<1>1. job[w] # None
  BY <1>0
<1>2. job[w] \in Job /\ job[w].run \in Run /\ begun \in Nat
  BY <1>1, Busy
<1>3. job[w].id \in Nat /\ job[w].id <= begun
  BY <1>1, <1>2 DEF Job, ReviewTypes, NumbersBegun
<1>4. UNCHANGED <<menus, review>> /\ mishap' \subseteq Run
  BY <1>0, <1>2 DEF ReviewTypes, execVars, brokerVars
<1>5. faults' \in 0..MaxFaults
  <2>1. faults \in 0..MaxFaults /\ MaxFaults \in Nat
    BY IngestConstants DEF ReviewTypes
  <2>2. faults' = faults \/ (faults < MaxFaults /\ faults' = faults + 1)
    <3>1. CASE VisibilityTimeout(w) \/ HostDies(w) \/ ChildDies(w)
      BY <3>1
    <3>2. CASE MarkFetching(w) \/ MarkFailed(w) \/ BeginDrafts(w) \/ CommitDrafts(w)
      BY <3>2 DEF brokerVars, execVars
    <3>3. CASE PipelineFails(w) \/ StorageFails(w) \/ TransactionFails(w) \/ NextVersion(w)
               \/ VersionConflict(w) \/ Acknowledge(w)
      BY <3>3 DEF brokerVars, execVars
    <3> QED
      BY <1>0, <3>1, <3>2, <3>3
  <2> QED
    BY <2>1, <2>2
<1>6. NumbersBegun'
  <2>1. CASE BeginDrafts(w)
    <3> DEFINE j == [job[w] EXCEPT !.pc = "drafting", !.seen = run[job[w].run], !.id = begun + 1]
    <3>1. job' = [job EXCEPT ![w] = j] /\ begun' = begun + 1 /\ UNCHANGED drafts
      BY <2>1
    <3>2. j.id = begun + 1
      BY <1>2 DEF Job
    <3> HIDE DEF j
    <3>3. begun' >= begun /\ j.id <= begun' /\ NumbersBegun
      BY <1>2, <3>1, <3>2 DEF ReviewTypes
    <3> QED
      BY <3>1, <3>3, NumbersFrame, Zenon
  <2>2. CASE CommitDrafts(w)
    <3> DEFINE e == [job[w] EXCEPT !.pc = "ending", !.seen = "queued", !.id = 0, !.version = 0]
    <3>1. job' = [job EXCEPT ![w] = e] /\ begun' = begun /\ drafts' = drafts \cup {NewDraft(w)}
      BY <2>2 DEF End
    <3>2. e.id = 0 /\ NewDraft(w).id <= begun
      BY <1>2, <1>3 DEF Job, NewDraft
    <3> HIDE DEF e
    <3>3. \A v \in Worker : job'[v] # None => job'[v].id <= begun
      BY <1>2, <3>1, <3>2 DEF IngInv, IngTypes, ReviewTypes, NumbersBegun
    <3> QED
      BY <3>1, <3>2, <3>3 DEF ReviewTypes, NumbersBegun
  <2>3. ASSUME NEW j, job' = [job EXCEPT ![w] = j], j # None => j.id <= begun, UNCHANGED <<drafts, begun>>
        PROVE  NumbersBegun'
    <3>1. begun' >= begun /\ NumbersBegun /\ (j # None => j.id <= begun') /\ UNCHANGED drafts
      BY <1>2, <2>3 DEF ReviewTypes
    <3> QED
      BY <2>3, <3>1, NumbersFrame, Zenon
  <2>4. CASE Acknowledge(w) \/ HostDies(w) \/ ChildDies(w)
    BY <2>3, <2>4 DEF execVars
  <2>5. CASE MarkFailed(w) \/ StorageFails(w) \/ TransactionFails(w) \/ VersionConflict(w)
    <3> DEFINE e == [job[w] EXCEPT !.pc = "ending", !.seen = "queued", !.id = 0, !.version = 0]
    <3>1. job' = [job EXCEPT ![w] = e] /\ UNCHANGED <<drafts, begun>>
      BY <2>5 DEF End, execVars
    <3>2. e.id <= begun
      BY <1>2 DEF Job
    <3> HIDE DEF e
    <3> QED
      BY <2>3, <3>1, <3>2
  <2>6. CASE MarkFetching(w) \/ PipelineFails(w) \/ NextVersion(w) \/ VisibilityTimeout(w)
    <3>1. UNCHANGED <<drafts, begun>>
      BY <2>6 DEF execVars
    <3>2. CASE MarkFetching(w)
      <4> DEFINE j == [job[w] EXCEPT !.pc = "crawling"]
      <4>1. job' = [job EXCEPT ![w] = j] /\ j.id = job[w].id
        BY <1>2, <3>2 DEF Continue, Job
      <4> HIDE DEF j
      <4> QED
        BY <1>3, <2>3, <3>1, <4>1
    <3>3. CASE PipelineFails(w)
      <4> DEFINE j == [job[w] EXCEPT !.pc = "failing", !.seen = run[job[w].run]]
      <4>1. job' = [job EXCEPT ![w] = j] /\ j.id = job[w].id
        BY <1>2, <3>3 DEF Job
      <4> HIDE DEF j
      <4> QED
        BY <1>3, <2>3, <3>1, <4>1
    <3>4. CASE NextVersion(w)
      <4> DEFINE j == [job[w] EXCEPT !.pc = "versioned", !.version = Max(MapVersions \cup {0}) + 1]
      <4>1. job' = [job EXCEPT ![w] = j] /\ j.id = job[w].id
        BY <1>2, <3>4 DEF Job
      <4> HIDE DEF j
      <4> QED
        BY <1>3, <2>3, <3>1, <4>1
    <3>5. CASE VisibilityTimeout(w)
      <4> DEFINE j == [job[w] EXCEPT !.message = "requeued"]
      <4>1. job' = [job EXCEPT ![w] = j] /\ j.id = job[w].id
        BY <1>2, <3>5 DEF Job
      <4> HIDE DEF j
      <4> QED
        BY <1>3, <2>3, <3>1, <4>1
    <3> QED
      BY <2>6, <3>2, <3>3, <3>4, <3>5
  <2> HIDE DEF MarkFetching, PipelineFails, MarkFailed, StorageFails, BeginDrafts, NextVersion, CommitDrafts,
               TransactionFails, VersionConflict, Acknowledge, VisibilityTimeout, HostDies, ChildDies, At
  <2> QED
    BY <1>0, <2>1, <2>2, <2>4, <2>5, <2>6
<1> QED
  BY <1>4, <1>5, <1>6 DEF ReviewTypes

LEMMA ReviewStepTypes ==
  ASSUME IngInv, ReviewTypes, IngInv', NEW x \in Reviewer, ReviewStep(x)
  PROVE  ReviewTypes'
<1> DEFINE old == review[x]
<1>1. UNCHANGED <<job, begun, mishap, faults>>
  BY DEF ReviewStep, OpenReview, SubmitReview, ReadMenu, IndexDocument, ReadMaps, CommitReview, ReviewFails,
         othersInReview
<1>2. /\ review \in [Reviewer -> Review] /\ old \in Review /\ menus \in Nat /\ drafts \subseteq Draft
      /\ run \in [Run -> RunStatus \cup {"absent"}]
  BY DEF ReviewTypes, IngInv, IngTypes
<1>3. ASSUME NEW new \in Review, review' = [review EXCEPT ![x] = new], UNCHANGED <<drafts, menus>>
      PROVE  ReviewTypes'
  BY <1>1, <1>2, <1>3 DEF ReviewTypes, NumbersBegun
<1>4. \A u \in BOOLEAN : Closed(u) \in Review
  BY DEF Closed, NoReview, Review
<1>5. CASE \E r \in Run : OpenReview(x, r)
  <2>1. PICK r \in Run : OpenReview(x, r)
    BY <1>5
  <2>2. LatestDoc(r).id \in Nat
    BY <1>2, <2>1, LatestDocIsDraft DEF OpenReview, ReviewTypes, Draft, DraftsOf
  <2>3. [old EXCEPT !.run = r, !.shown = LatestDoc(r).id] \in Review
    BY <1>2, <2>2 DEF Review
  <2> QED
    BY <1>2, <1>3, <2>1, <2>3 DEF OpenReview
<1>6. CASE \E r \in Run, menu \in BOOLEAN, map \in BOOLEAN : SubmitReview(x, r, menu, map)
  <2>1. PICK r \in Run, menu \in BOOLEAN, map \in BOOLEAN : SubmitReview(x, r, menu, map)
    BY <1>6
  <2>2. run[r] \in RunStatus
    BY <1>2, <2>1 DEF SubmitReview, Reviewable
  <2>3. [old EXCEPT !.pc = "submitted", !.run = r, !.seen = run[r], !.menu = menu, !.map = map] \in Review
    BY <1>2, <2>2 DEF Review
  <2> QED
    BY <1>2, <1>3, <2>1, <2>3 DEF SubmitReview
<1>7. CASE ReadMenu(x)
  <2>1. UNCHANGED <<drafts, menus>>
    BY <1>7 DEF ReadMenu
  <2>2. CASE old.menu /\ DraftsOf(old.run) # {}
    <3>1. LatestDoc(old.run).id \in Nat
      BY <1>2, <2>2, LatestDocIsDraft DEF ReviewTypes, Draft, DraftsOf
    <3>2. [old EXCEPT !.pc = "menu", !.doc = LatestDoc(old.run).id, !.newMenu = (menus = 0)] \in Review
      BY <1>2, <3>1 DEF Review
    <3> QED
      BY <1>2, <1>3, <1>7, <2>1, <2>2, <3>2 DEF ReadMenu
  <2>3. CASE ~(old.menu /\ DraftsOf(old.run) # {})
    <3>1. [old EXCEPT !.pc = "indexed"] \in Review
      BY <1>2 DEF Review
    <3> QED
      BY <1>2, <1>3, <1>7, <2>1, <2>3, <3>1 DEF ReadMenu
  <2> QED
    BY <2>2, <2>3
<1>8. CASE IndexDocument(x)
  <2> DEFINE chunks == UNION {d.chunks : d \in {e \in drafts : e.id = review[x].doc}}
  <2>1. chunks \in SUBSET Reviewer
    BY <1>2 DEF Draft
  <2> HIDE DEF chunks
  <2>2. [old EXCEPT !.pc = "indexed", !.stale = chunks] \in Review
    BY <1>2, <2>1 DEF Review
  <2> QED
    BY <1>2, <1>3, <1>8, <2>2 DEF IndexDocument, chunks
<1>9. CASE ReadMaps(x)
  <2>1. UNCHANGED <<drafts, menus>>
    BY <1>9 DEF ReadMaps
  <2>2. CASE old.map /\ DraftsOf(old.run) # {}
    <3> DEFINE cap == LatestMap(old.run)
               actives == {d.version : d \in {e \in drafts : e.map = "active"}}
    <3>1. cap.version \in Nat
      BY <1>2, <2>2, LatestMapIsDraft DEF Draft, DraftsOf
    <3>2. actives \in SUBSET Nat
      BY <1>2 DEF Draft
    <3>3. review' = [review EXCEPT ![x] = [old EXCEPT !.pc = "maps", !.cap = cap.version,
                                                      !.wasActive = (cap.map = "active"), !.actives = actives]]
      BY <1>2, <1>9, <2>2 DEF ReadMaps
    <3> HIDE DEF cap, actives
    <3>4. [old EXCEPT !.pc = "maps", !.cap = cap.version, !.wasActive = (cap.map = "active"),
                      !.actives = actives] \in Review
      BY <1>2, <3>1, <3>2 DEF Review
    <3> QED
      BY <1>3, <2>1, <3>3, <3>4
  <2>3. CASE ~(old.map /\ DraftsOf(old.run) # {})
    <3>1. [old EXCEPT !.pc = "maps"] \in Review
      BY <1>2 DEF Review
    <3> QED
      BY <1>2, <1>3, <1>9, <2>1, <2>3, <3>1 DEF ReadMaps
  <2> QED
    BY <2>2, <2>3
<1>10. CASE CommitReview(x)
  <2>1. /\ drafts' = {After(x, d) : d \in drafts}
        /\ menus' = IF review[x].newMenu THEN menus + 1 ELSE menus
        /\ \E u \in BOOLEAN : review' = [review EXCEPT ![x] = Closed(u)]
    BY <1>10 DEF CommitReview, After
  <2>2. \A d \in drafts : After(x, d).id = d.id
    <3> SUFFICES ASSUME NEW d \in drafts PROVE After(x, d).id = d.id
      OBVIOUS
    <3>1. d \in Draft /\ Published(x, d).id = d.id /\ DOMAIN Published(x, d) = DOMAIN d
      BY <1>2 DEF Published, Draft
    <3> HIDE DEF Published
    <3> QED
      BY <3>1 DEF After, Draft
  <2>3. NumbersBegun'
    BY <1>1, <2>1, <2>2 DEF ReviewTypes, NumbersBegun
  <2> QED
    BY <1>1, <1>2, <1>4, <2>1, <2>3 DEF ReviewTypes
<1>11. CASE ReviewFails(x)
  BY <1>3, <1>4, <1>11 DEF ReviewFails
<1> QED
  BY <1>5, <1>6, <1>7, <1>8, <1>9, <1>10, <1>11 DEF ReviewStep

(* Every variable keeps its type, the rows of the reviews included. *)
THEOREM IngestTypeCorrect == IngestSpec => []IngestTypeOK
<1>1. IngestInit => ReviewTypes
  BY IngestConstants DEF IngestInit, ReviewTypes, NumbersBegun, NoReview, Review
<1>2. IngInv /\ IngInv' /\ ReviewTypes /\ [IngestNext]_ingestVars => ReviewTypes'
  <2> SUFFICES ASSUME IngInv, IngInv', ReviewTypes, [IngestNext]_ingestVars PROVE ReviewTypes'
    OBVIOUS
  <2>1. CASE IngestNext
    BY <2>1, TriggerTypes, JobTypes, ReviewStepTypes DEF IngestNext
  <2>2. CASE UNCHANGED ingestVars
    BY <2>2 DEF ingestVars, ReviewTypes, NumbersBegun
  <2> QED
    BY <2>1, <2>2
<1>3. IngInv /\ ReviewTypes => IngestTypeOK
  BY DEF IngInv, IngTypes, ReviewTypes, IngestTypeOK
<1> QED
  BY <1>1, <1>2, <1>3, IngInvariant, PTL DEF IngestSpec

(* A run up for review, published or rejected has a committed draft.        *)
THEOREM ReviewedRunAlwaysHasDraft == IngestSpec => []ReviewedRunHasDraft
<1>1. IngInv => ReviewedRunHasDraft
  BY DEF IngInv
<1> QED
  BY <1>1, IngInvariant, PTL

(* A document is searchable and on the live menu if and only if approved.   *)
THEOREM SearchableAlwaysIffApproved == IngestSpec => []SearchableIffApproved
<1>1. IngInv => SearchableIffApproved
  BY DEF IngInv
<1> QED
  BY <1>1, IngInvariant, PTL

(* A run is left behind as queued or fetching only by an unhandled failure. *)
THEOREM StrandedAlwaysByMishap == IngestSpec => []StrandedOnlyByMishap
<1>1. IngInv => StrandedOnlyByMishap
  BY DEF IngInv, IngTypes, Settling, WillSettle, Works, StrandedOnlyByMishap, Pending
<1> QED
  BY <1>1, IngInvariant, PTL

(* The maps are numbered without gaps and no number is used twice.          *)
THEOREM MapVersionsAlwaysContiguous == IngestSpec => []MapVersionsContiguous
<1>1. IngInv => MapVersionsContiguous
  <2> SUFFICES ASSUME IngInv PROVE MapVersionsContiguous
    OBVIOUS
  <2>1. PICK n \in Nat : MapVersions = 1..n
    BY DEF IngInv, VersionsHold
  <2>2. \A d, e \in drafts : d.version = e.version => d = e
    BY DEF IngInv, VersionsHold
  <2> DEFINE f == [d \in drafts |-> d.version]
  <2>3. f \in Bijection(drafts, 1..n)
    <3>1. f \in [drafts -> 1..n] /\ \A v \in 1..n : \E d \in drafts : f[d] = v
      BY <2>1 DEF MapVersions
    <3>2. \A d, e \in drafts : f[d] = f[e] => d = e
      BY <2>2
    <3> QED
      BY <3>1, <3>2, Fun_IsBij
  <2>4. ExistsBijection(1..n, drafts)
    BY <2>3, Fun_ExistsBij, Fun_ExistsBijSymmetric
  <2>5. IsFiniteSet(1..n) /\ Cardinality(1..n) = n
    BY FS_Interval
  <2>6. Cardinality(drafts) = n
    BY <2>4, <2>5, FS_Bijection
  <2> QED
    BY <2>1, <2>2, <2>6 DEF MapVersionsContiguous
<1> QED
  BY <1>1, IngInvariant, PTL
================================================================================
