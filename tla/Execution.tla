-------------------------------- MODULE Execution --------------------------------
(***************************************************************************)
(* Executing a plan at a restaurant's own system: execute_plan,            *)
(* execute_action and compensate (executor.py), over the RestAdapter or    *)
(* the AlOstedhAdapter, with or without the FallbackAdapter that goes to   *)
(* Ordy's native store.                                                    *)
(*                                                                         *)
(* The provider is external: it may refuse, answer out of the schema, or   *)
(* act and have its answer lost.  The same plan may be executed again with *)
(* the same idempotency keys; a key is the index of its step.  What was    *)
(* answered to a key is remembered by two objects in memory, and a process *)
(* that ends takes both memories with it.                                  *)
(***************************************************************************)
EXTENDS Naturals, Sequences, FiniteSets

CONSTANTS
  MaxPlan,      \* bound: steps of a plan
  MaxAttempts   \* bound: executions of the same plan

ASSUME ExecutionConstants == MaxPlan \in Nat \ {0} /\ MaxAttempts \in Nat \ {0}

VARIABLES
  plan,       \* tools of the plan's steps
  adapter,    \* the primary adapter, and whether there is a fallback
  attempt,    \* executions so far
  at,         \* the step being executed or undone
  exPhase,    \* "primary", "fallback", "undoing" or "done"
  outcomes,   \* statuses of the ActionOutcomes so far
  remote,     \* remote[k]: orders and bookings the provider made for key k
  native,     \* native[k]: how often the native store carried key k out
  replays,    \* AlOstedhAdapter._seen, the keys answered by this instance
  nativeSeen, \* NativeAdapter._seen, those answered by this instance of the native store
  undone,     \* keys whose order was cancelled
  lost,       \* history: keys the provider acted on in a call that counts as failed
  refused,    \* history: keys whose cancellation failed
  retried,    \* history: keys tried again that had been carried out
  forgotten   \* history: answers that were in the memory of a process that has ended

execVars == <<attempt, at, exPhase, outcomes, undone, refused>>
executionVars == <<plan, adapter, remote, native, replays, nativeSeen, lost, retried, forgotten, execVars>>

PlanTool == {"create_order", "make_reservation"}

Key == 1..MaxPlan
Adapter == [kind : {"rest", "alostedh"}, fallback : BOOLEAN]

ExecutionTypeOK ==
  /\ plan \in UNION {[1..n -> PlanTool] : n \in 1..MaxPlan}
  /\ adapter \in Adapter
  /\ attempt \in 1..MaxAttempts
  /\ at \in 0..MaxPlan
  /\ exPhase \in {"primary", "fallback", "undoing", "done"}
  /\ outcomes \in Seq({"succeeded", "failed"})
  /\ remote \in [Key -> Nat] /\ native \in [Key -> Nat]
  /\ replays \subseteq Key /\ nativeSeen \subseteq Key
  /\ undone \subseteq Key /\ lost \subseteq Key /\ refused \subseteq Key /\ retried \subseteq Key
  /\ forgotten \subseteq {"provider", "native"} \X Key

ExecutionInit ==
  /\ plan \in UNION {[1..n -> PlanTool] : n \in 1..MaxPlan}
  /\ adapter \in Adapter
  /\ attempt = 1
  /\ at = 1
  /\ exPhase = "primary"
  /\ outcomes = <<>>
  /\ remote = [k \in Key |-> 0] /\ native = [k \in Key |-> 0]
  /\ replays = {} /\ nativeSeen = {} /\ undone = {} /\ lost = {} /\ refused = {} /\ retried = {}
  /\ forgotten = {}

--------------------------------------------------------------------------------
(* A step has succeeded: the next one, or the end of the plan. *)
Succeed ==
  /\ outcomes' = Append(outcomes, "succeeded")
  /\ at' = IF at = Len(plan) THEN at ELSE at + 1
  /\ exPhase' = IF at = Len(plan) THEN "done" ELSE "primary"
  /\ UNCHANGED <<attempt, undone, refused>>

(* A step has failed: those before it are compensated in reverse order. *)
Fail ==
  /\ outcomes' = Append(outcomes, "failed")
  /\ at' = at - 1
  /\ exPhase' = IF at = 1 THEN "done" ELSE "undoing"
  /\ UNCHANGED <<attempt, undone, refused>>

(* An exception of the primary goes to the fallback, if there is one. *)
Raise ==
  IF adapter.fallback
  THEN exPhase' = "fallback" /\ UNCHANGED <<attempt, at, outcomes, undone, refused>>
  ELSE Fail

(* AlOstedh maps only create_order; the other tools raise. *)
Mapped(tool) == adapter.kind = "alostedh" => tool = "create_order"

Calls == exPhase = "primary" /\ Mapped(plan[at]) /\ at \notin replays

(* The Action Provider honours the idempotency key, as the conformance      *)
(* check demands; Al Ostedh does not.                                       *)
RemoteEffect ==
  IF adapter.kind = "rest" /\ remote[at] > 0 THEN remote ELSE [remote EXCEPT ![at] = @ + 1]

(* AlOstedhAdapter keeps what it has answered. *)
Remembered == IF adapter.kind = "alostedh" THEN replays \cup {at} ELSE replays

(* The provider acts and answers. *)
PrimaryAnswers ==
  /\ Calls
  /\ remote' = RemoteEffect
  /\ replays' = Remembered
  /\ Succeed
  /\ UNCHANGED <<plan, adapter, native, nativeSeen, lost, retried, forgotten>>

(* An answer that AlOstedhAdapter has already had is given again. *)
PrimaryReplays ==
  /\ exPhase = "primary" /\ at \in replays
  /\ Succeed
  /\ UNCHANGED <<plan, adapter, remote, native, replays, nativeSeen, lost, retried, forgotten>>

(* The RestAdapter passes on a status or an ETA that is not in the output   *)
(* schema: the action counts as failed, and the fallback is not asked.      *)
AnswerRejected ==
  /\ Calls /\ adapter.kind = "rest"
  /\ remote' = RemoteEffect
  /\ lost' = lost \cup {at}
  /\ Fail
  /\ UNCHANGED <<plan, adapter, native, replays, nativeSeen, retried, forgotten>>

(* The provider acts and its answer is lost. *)
AnswerLost ==
  /\ Calls
  /\ remote' = RemoteEffect
  /\ lost' = lost \cup {at}
  /\ Raise
  /\ UNCHANGED <<plan, adapter, native, replays, nativeSeen, retried, forgotten>>

(* The provider refuses or is not there, or the tool is not mapped. *)
PrimaryFails ==
  /\ exPhase = "primary" /\ at \notin replays
  /\ Raise
  /\ UNCHANGED <<plan, adapter, remote, native, replays, nativeSeen, lost, retried, forgotten>>

(* Variants for the mutation checks: the fallback acknowledges and does   *)
(* nothing; it does not look for the key among those it has answered.      *)
NativeEffect_None == native

NativeEffect_NoReplay == [native EXCEPT ![at] = @ + 1]

(* NativeAdapter: a key this instance has executed is answered from memory. *)
NativeEffect == IF at \in nativeSeen THEN native ELSE [native EXCEPT ![at] = @ + 1]

Fallback ==
  /\ exPhase = "fallback"
  /\ native' = NativeEffect
  /\ nativeSeen' = nativeSeen \cup {at}
  /\ Succeed
  /\ UNCHANGED <<plan, adapter, remote, replays, lost, retried, forgotten>>

--------------------------------------------------------------------------------
PLATFORM_TOOLS == PlanTool \cup {"cancel_order", "check_availability", "get_order_status",
                                 "request_human_handoff"}

(* The compensation a ToolSpec declares, and the argument made of its output. *)
Compensation(tool) ==
  IF tool = "create_order"
  THEN [tool |-> "cancel_order", arg |-> "order_id"]
  ELSE [tool |-> "cancel_reservation", arg |-> "reservation_id"]

(* The RestAdapter cancels the order named by order_ref; an argument of any  *)
(* other name leaves it with /ordy/orders/None/cancel.                       *)
Cancelled(tool) == IF Compensation(tool).arg = "order_ref" THEN {at} ELSE {}

Compensates == exPhase = "undoing" /\ Compensation(plan[at]).tool \in PLATFORM_TOOLS

NextUndo ==
  /\ at' = at - 1
  /\ exPhase' = IF at = 1 THEN "done" ELSE "undoing"
  /\ UNCHANGED <<plan, adapter, attempt, outcomes, remote, native, replays, nativeSeen, lost, retried,
                 forgotten>>

(* The provider accepts the cancellation, for the order it names.  Al Ostedh *)
(* has no endpoint for one: its adapter raises.                              *)
Undo ==
  /\ Compensates /\ adapter.kind = "rest"
  /\ undone' = undone \cup Cancelled(plan[at])
  /\ NextUndo
  /\ UNCHANGED refused

(* The primary raises and the fallback is asked: the NativeAdapter answers   *)
(* that the order is cancelled, whichever it was, and cancels nothing.       *)
UndoNatively ==
  /\ Compensates /\ adapter.fallback
  /\ NextUndo
  /\ UNCHANGED <<undone, refused>>

(* The primary raises and nobody stands in: the compensation has failed, and *)
(* nobody looks at its outcome.                                              *)
UndoFails ==
  /\ Compensates /\ ~adapter.fallback
  /\ refused' = refused \cup {at}
  /\ NextUndo
  /\ UNCHANGED undone

(* The tool is not in the catalog. *)
SkipUndo ==
  /\ exPhase = "undoing" /\ ~Compensates
  /\ NextUndo
  /\ UNCHANGED <<undone, refused>>

(* The caller executes the plan again, with the same keys. *)
ExecuteAgain ==
  /\ exPhase = "done" /\ attempt < MaxAttempts
  /\ attempt' = attempt + 1
  /\ at' = 1
  /\ exPhase' = "primary"
  /\ outcomes' = <<>>
  /\ retried' = retried \cup {k \in Key : remote[k] + native[k] > 0}
  /\ UNCHANGED <<plan, adapter, remote, native, replays, nativeSeen, undone, lost, refused, forgotten>>

(* The process ends, at any moment, and another takes its place with new     *)
(* adapters: what the old ones had answered is forgotten, and a plan that    *)
(* was under way is left as it is; its caller never hears of it.             *)
RestartProcess ==
  /\ replays' = {} /\ nativeSeen' = {}
  /\ forgotten' = forgotten \cup ({"provider"} \X replays) \cup ({"native"} \X nativeSeen)
  /\ exPhase' = "done"
  /\ outcomes' = IF exPhase = "done" THEN outcomes ELSE <<>>
  /\ UNCHANGED <<plan, adapter, attempt, at, remote, native, undone, lost, refused, retried>>

ExecutionNext ==
  \/ PrimaryAnswers \/ PrimaryReplays \/ AnswerRejected \/ AnswerLost \/ PrimaryFails
  \/ Fallback
  \/ Undo \/ UndoNatively \/ UndoFails \/ SkipUndo
  \/ ExecuteAgain \/ RestartProcess

ExecutionSpec == ExecutionInit /\ [][ExecutionNext]_executionVars

--------------------------------------------------------------------------------
(* A step that was reported as done was done, at the provider or natively,  *)
(* whatever failed on the way.                                              *)
OrdersNeverLost ==
  \A k \in DOMAIN outcomes : outcomes[k] = "succeeded" => remote[k] + native[k] > 0

(* Who carries an action out twice, and when.  The native store only if the *)
(* process that had answered the key has ended; a provider only if it       *)
(* ignores the key and either its answer was lost or the process that had   *)
(* it has ended.  Provider and native store both do only if the provider    *)
(* acted in a call that counts as failed, or the action was tried again.    *)
TwiceOnlyAfterLostAnswer ==
  \A k \in Key :
    /\ native[k] > 1 => <<"native", k>> \in forgotten
    /\ remote[k] > 1 => adapter.kind = "alostedh" /\ (k \in lost \/ <<"provider", k>> \in forgotten)
    /\ remote[k] > 0 /\ native[k] > 0 => k \in lost \cup retried

(* A half-applied plan is rolled back (executor.py): when a step has failed, *)
(* the orders that the provider accepted before it are cancelled, or the     *)
(* provider refused to.  Violated: the compensation carries the order's name *)
(* as order_id where cancel_order takes order_ref, so the cancellation that  *)
(* gets through names no order.                                              *)
PlanRolledBack ==
  /\ adapter = [kind |-> "rest", fallback |-> FALSE]
  /\ exPhase = "done"
  /\ "failed" \in {outcomes[k] : k \in DOMAIN outcomes}
  => \A k \in DOMAIN outcomes :
       plan[k] = "create_order" /\ outcomes[k] = "succeeded" => k \in undone \cup refused
================================================================================
