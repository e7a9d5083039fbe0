---------------------------- MODULE Service_proofs ----------------------------
(***************************************************************************)
(* Proofs about what carries an order out: Execution, Workflows,           *)
(* BrowserRuns and OrderRules, each a component of its own and each for    *)
(* any values of its constants.                                            *)
(***************************************************************************)
EXTENDS Execution, Workflows, BrowserRuns, OrderRules, CommonLemmas, SequenceTheorems


--------------------------------------------------------------------------------
(***************************************************************************)
(* Execution, for plans of any length and any number of executions.        *)
(*                                                                         *)
(* AtStep ties the outcomes to the step being executed; RemoteKnown says   *)
(* where an order at Al Ostedh came from and NativeKnown that the native   *)
(* store remembers what it did until its process ends; FreshAhead, that a  *)
(* step still to come has been carried out only if an answer was lost or   *)
(* the plan is being tried again.                                          *)
(***************************************************************************)

AtStep ==
  /\ Len(plan) \in 1..MaxPlan
  /\ exPhase \in {"primary", "fallback"} => at \in 1..Len(plan) /\ Len(outcomes) = at - 1
  /\ exPhase = "undoing" => at > 0

RemoteKnown ==
  /\ \A k \in replays : remote[k] > 0
  /\ \A k \in Key :
       /\ adapter.kind = "rest" => remote[k] <= 1
       /\ remote[k] > 0 /\ adapter.kind = "alostedh"
            => k \in replays \cup lost \/ <<"provider", k>> \in forgotten

NativeKnown ==
  /\ \A k \in nativeSeen : native[k] > 0
  /\ \A k \in Key : native[k] > 0 => k \in nativeSeen \/ <<"native", k>> \in forgotten

FreshAhead ==
  exPhase \in {"primary", "fallback"} =>
    \A k \in Key : k >= at /\ remote[k] + native[k] > 0 => k \in lost \cup retried

ExInv == /\ ExecutionTypeOK /\ AtStep /\ OrdersNeverLost /\ TwiceOnlyAfterLostAnswer
         /\ RemoteKnown /\ NativeKnown /\ FreshAhead

Status == {"succeeded", "failed"}

--------------------------------------------------------------------------------
LEMMA PlanLength == plan \in UNION {[1..n -> PlanTool] : n \in 1..MaxPlan} => Len(plan) \in 1..MaxPlan
<1> SUFFICES ASSUME NEW n \in 1..MaxPlan, plan \in [1..n -> PlanTool]
             PROVE  Len(plan) \in 1..MaxPlan
  OBVIOUS
<1>1. n \in Nat
  BY ExecutionConstants
<1>2. plan \in Seq(PlanTool)
  BY <1>1, SeqDef
<1>3. DOMAIN plan = 1..Len(plan) /\ Len(plan) \in Nat /\ DOMAIN plan = 1..n
  BY <1>2, LenProperties
<1> QED
  BY <1>1, <1>3

LEMMA ExInitInv == ExecutionInit => ExInv
<1> SUFFICES ASSUME ExecutionInit PROVE ExInv
  OBVIOUS
<1>1. Len(plan) \in 1..MaxPlan
  BY PlanLength DEF ExecutionInit
<1>2. outcomes \in Seq(Status) /\ Len(outcomes) = 0 /\ DOMAIN outcomes = {}
  BY DEF ExecutionInit
<1>3. ExecutionTypeOK
  <2>1. attempt \in 1..MaxAttempts /\ at \in 0..MaxPlan
    BY ExecutionConstants DEF ExecutionInit
  <2>2. remote \in [Key -> Nat] /\ native \in [Key -> Nat]
    BY DEF ExecutionInit
  <2> QED
    BY <1>2, <2>1, <2>2 DEF ExecutionInit, ExecutionTypeOK, Status
<1>4. AtStep
  BY <1>1, <1>2, ExecutionConstants DEF ExecutionInit, AtStep
<1>5. \A k \in Key : remote[k] = 0 /\ native[k] = 0
  BY DEF ExecutionInit
<1>6. OrdersNeverLost
  BY <1>2 DEF OrdersNeverLost
<1>7. TwiceOnlyAfterLostAnswer /\ RemoteKnown /\ NativeKnown /\ FreshAhead
  BY <1>5 DEF ExecutionInit, TwiceOnlyAfterLostAnswer, RemoteKnown, NativeKnown, FreshAhead
<1> QED
  BY <1>3, <1>4, <1>6, <1>7 DEF ExInv

--------------------------------------------------------------------------------
(* An outcome is appended for the step being executed. *)
LEMMA Recorded ==
  ASSUME ExInv, exPhase \in {"primary", "fallback"}, NEW o \in Status, outcomes' = Append(outcomes, o)
  PROVE  /\ outcomes' \in Seq(Status) /\ Len(outcomes') = at /\ DOMAIN outcomes' = 1..at
         /\ outcomes'[at] = o /\ \A k \in DOMAIN outcomes : outcomes'[k] = outcomes[k]
         /\ DOMAIN outcomes' = DOMAIN outcomes \cup {at} /\ at \in Key
         /\ DOMAIN outcomes \subseteq Key
<1>1. outcomes \in Seq(Status) /\ Len(outcomes) = at - 1 /\ at \in 1..Len(plan) /\ Len(plan) \in 1..MaxPlan
  BY DEF ExInv, ExecutionTypeOK, AtStep, Status
<1>2. DOMAIN outcomes = 1..(at - 1)
  BY <1>1, LenProperties
<1>3. at \in Nat \ {0} /\ at \in Key
  BY <1>1, ExecutionConstants DEF Key
<1>4. DOMAIN outcomes \subseteq Key
  BY <1>1, <1>2, ExecutionConstants DEF Key
<1> QED
  BY <1>1, <1>2, <1>3, <1>4, AppendProperties

(* What Succeed and Fail leave behind. *)
LEMMA SucceedSteps ==
  ASSUME ExInv, exPhase \in {"primary", "fallback"}, Succeed, UNCHANGED <<plan, adapter>>
  PROVE  AtStep' /\ exPhase' \in {"primary", "done"} /\ at' \in 0..MaxPlan
         /\ (exPhase' = "primary" => at' = at + 1)
<1>1. at \in 1..Len(plan) /\ Len(plan) \in 1..MaxPlan /\ Len(outcomes') = at
  BY Recorded DEF Succeed, Status, ExInv, AtStep
<1> QED
  BY <1>1, ExecutionConstants DEF Succeed, AtStep

LEMMA FailSteps ==
  ASSUME ExInv, exPhase \in {"primary", "fallback"}, Fail, UNCHANGED <<plan, adapter>>
  PROVE  AtStep' /\ exPhase' \in {"undoing", "done"} /\ at' \in 0..MaxPlan
<1>1. at \in 1..Len(plan) /\ Len(plan) \in 1..MaxPlan
  BY DEF ExInv, AtStep
<1> QED
  BY <1>1, ExecutionConstants DEF Fail, AtStep

(* The provider acts once for a key it honours, and once more otherwise. *)
LEMMA RemoteEffectSound ==
  ASSUME ExInv, at \in Key, remote' = RemoteEffect
  PROVE  /\ remote' \in [Key -> Nat] /\ remote'[at] > 0 /\ \A k \in Key : k # at => remote'[k] = remote[k]
         /\ adapter.kind = "rest" => remote'[at] <= 1
         /\ remote'[at] > 1 => adapter.kind = "alostedh" /\ remote[at] > 0
<1>1. remote \in [Key -> Nat] /\ remote[at] \in Nat /\ adapter.kind \in {"rest", "alostedh"}
  BY DEF ExInv, ExecutionTypeOK, Adapter
<1>2. adapter.kind = "rest" => remote[at] <= 1
  BY DEF ExInv, RemoteKnown
<1>3. CASE adapter.kind = "rest" /\ remote[at] > 0
  BY <1>1, <1>2, <1>3 DEF RemoteEffect
<1>4. CASE ~(adapter.kind = "rest" /\ remote[at] > 0)
  <2>1. remote' = [k \in Key |-> IF k = at THEN remote[at] + 1 ELSE remote[k]]
    BY <1>1, <1>4 DEF RemoteEffect
  <2> QED
    BY <1>1, <1>4, <2>1
<1> QED
  BY <1>3, <1>4

(* The provider has acted: what is known of the step's order afterwards,    *)
(* when the key is remembered, lost, or was there before.                   *)
LEMMA ActedInv ==
  ASSUME ExInv, exPhase = "primary", at \in Key, at \notin replays, remote' = RemoteEffect,
         \/ replays' = replays \cup {at} /\ lost' = lost
         \/ replays' = replays /\ lost' = lost \cup {at}
         \/ replays' = replays /\ lost' = lost /\ adapter.kind = "rest",
         UNCHANGED <<adapter, native, retried, nativeSeen, forgotten>>
  PROVE  /\ TwiceOnlyAfterLostAnswer' /\ RemoteKnown' /\ NativeKnown'
         /\ \A k \in Key : k > at /\ remote'[k] + native'[k] > 0 => k \in lost' \cup retried'
<1>1. /\ remote' \in [Key -> Nat] /\ remote'[at] > 0 /\ \A k \in Key : k # at => remote'[k] = remote[k]
      /\ adapter.kind = "rest" => remote'[at] <= 1
      /\ remote'[at] > 1 => adapter.kind = "alostedh" /\ remote[at] > 0
  BY RemoteEffectSound
<1>2. remote \in [Key -> Nat] /\ native \in [Key -> Nat] /\ replays \subseteq Key
  BY DEF ExInv, ExecutionTypeOK
<1>3. at \in Nat
  BY DEF Key
<1>4. native[at] > 0 => at \in lost \cup retried
  BY <1>2, <1>3 DEF ExInv, FreshAhead
<1>5. remote'[at] > 1 => adapter.kind = "alostedh" /\ (at \in lost \/ <<"provider", at>> \in forgotten)
  BY <1>1 DEF ExInv, RemoteKnown
<1>6. TwiceOnlyAfterLostAnswer'
  <2> SUFFICES ASSUME NEW k \in Key
               PROVE  /\ native'[k] > 1 => <<"native", k>> \in forgotten'
                      /\ remote'[k] > 1 => /\ adapter'.kind = "alostedh"
                                           /\ k \in lost' \/ <<"provider", k>> \in forgotten'
                      /\ remote'[k] > 0 /\ native'[k] > 0 => k \in lost' \cup retried'
    BY DEF TwiceOnlyAfterLostAnswer
  <2>1. CASE k = at
    BY <1>4, <1>5, <2>1 DEF ExInv, TwiceOnlyAfterLostAnswer
  <2>2. CASE k # at
    BY <1>1, <2>2 DEF ExInv, TwiceOnlyAfterLostAnswer
  <2> QED
    BY <2>1, <2>2
<1>7. RemoteKnown'
  <2>1. \A k \in replays' : remote'[k] > 0
    BY <1>1, <1>2 DEF ExInv, RemoteKnown
  <2>2. ASSUME NEW k \in Key
        PROVE  /\ adapter'.kind = "rest" => remote'[k] <= 1
               /\ remote'[k] > 0 /\ adapter'.kind = "alostedh"
                    => k \in replays' \cup lost' \/ <<"provider", k>> \in forgotten'
    <3>1. CASE k = at
      BY <1>1, <3>1
    <3>2. CASE k # at
      BY <1>1, <3>2 DEF ExInv, RemoteKnown
    <3> QED
      BY <3>1, <3>2
  <2> QED
    BY <2>1, <2>2 DEF RemoteKnown
<1>8. ASSUME NEW k \in Key, k > at, remote'[k] + native'[k] > 0
      PROVE  k \in lost' \cup retried'
  <2>1. k \in Nat /\ k # at /\ k >= at
    BY <1>3, <1>8 DEF Key
  <2> QED
    BY <1>1, <1>8, <2>1 DEF ExInv, FreshAhead
<1>9. NativeKnown'
  BY DEF ExInv, NativeKnown
<1> QED
  BY <1>6, <1>7, <1>8, <1>9

(* No order disappears, and a step reported as done has its own. *)
LEMMA OrdersKept ==
  ASSUME ExInv, exPhase \in {"primary", "fallback"}, NEW o \in Status, outcomes' = Append(outcomes, o),
         o = "succeeded" => remote'[at] + native'[at] > 0,
         \A k \in Key : remote[k] + native[k] > 0 => remote'[k] + native'[k] > 0
  PROVE  OrdersNeverLost'
<1>1. /\ outcomes'[at] = o /\ \A k \in DOMAIN outcomes : outcomes'[k] = outcomes[k]
      /\ DOMAIN outcomes' = DOMAIN outcomes \cup {at} /\ DOMAIN outcomes \subseteq Key
  BY Recorded
<1> SUFFICES ASSUME NEW k \in DOMAIN outcomes', outcomes'[k] = "succeeded"
             PROVE  remote'[k] + native'[k] > 0
  BY DEF OrdersNeverLost
<1>2. CASE k = at
  BY <1>1, <1>2
<1>3. CASE k \in DOMAIN outcomes
  BY <1>1, <1>3 DEF ExInv, OrdersNeverLost
<1> QED
  BY <1>1, <1>2, <1>3

(* The types, when a step succeeds, fails or goes to the fallback. *)
LEMMA StepTypes ==
  ASSUME ExInv, exPhase \in {"primary", "fallback"}, Succeed \/ Fail \/ Raise,
         remote' \in [Key -> Nat], native' \in [Key -> Nat], replays' \subseteq Key, lost' \subseteq Key,
         nativeSeen' \subseteq Key, UNCHANGED <<plan, adapter, retried, forgotten>>
  PROVE  ExecutionTypeOK' /\ AtStep'
<1>1. CASE Succeed
  <2>1. outcomes' \in Seq(Status) /\ AtStep' /\ exPhase' \in {"primary", "done"} /\ at' \in 0..MaxPlan
    BY <1>1, Recorded, SucceedSteps DEF Succeed, Status
  <2> QED
    BY <1>1, <2>1 DEF Succeed, ExInv, ExecutionTypeOK, Status
<1>2. CASE Fail
  <2>1. outcomes' \in Seq(Status) /\ AtStep' /\ exPhase' \in {"undoing", "done"} /\ at' \in 0..MaxPlan
    BY <1>2, Recorded, FailSteps DEF Fail, Status
  <2> QED
    BY <1>2, <2>1 DEF Fail, ExInv, ExecutionTypeOK, Status
<1>3. CASE adapter.fallback /\ Raise
  BY <1>3 DEF Raise, ExInv, ExecutionTypeOK, AtStep
<1> QED
  BY <1>1, <1>2, <1>3 DEF Raise

--------------------------------------------------------------------------------
LEMMA PrimaryAnswersInv ==
  ASSUME ExInv, PrimaryAnswers
  PROVE  ExInv'
<1>1. exPhase = "primary" /\ at \in Key /\ at \notin replays
  BY ExecutionConstants DEF PrimaryAnswers, Calls, ExInv, AtStep, Key
<1>2. adapter.kind \in {"rest", "alostedh"}
  BY DEF ExInv, ExecutionTypeOK, Adapter
<1>3. /\ TwiceOnlyAfterLostAnswer' /\ RemoteKnown' /\ NativeKnown'
      /\ \A k \in Key : k > at /\ remote'[k] + native'[k] > 0 => k \in lost' \cup retried'
  BY <1>1, <1>2, ActedInv DEF PrimaryAnswers, Remembered
<1>4. /\ remote' \in [Key -> Nat] /\ remote'[at] > 0 /\ \A k \in Key : k # at => remote'[k] = remote[k]
  BY <1>1, RemoteEffectSound DEF PrimaryAnswers
<1>5. native' = native /\ native \in [Key -> Nat]
  BY DEF PrimaryAnswers, ExInv, ExecutionTypeOK
<1>6. ExecutionTypeOK' /\ AtStep'
  BY <1>1, <1>4, <1>5, StepTypes DEF PrimaryAnswers, Remembered, ExInv, ExecutionTypeOK
<1>7. OrdersNeverLost'
  BY <1>1, <1>4, <1>5, OrdersKept DEF PrimaryAnswers, Succeed, Status
<1>8. FreshAhead'
  BY <1>1, <1>3, SucceedSteps DEF PrimaryAnswers, FreshAhead, Key
<1> QED
  BY <1>3, <1>6, <1>7, <1>8 DEF ExInv

LEMMA PrimaryReplaysInv ==
  ASSUME ExInv, PrimaryReplays
  PROVE  ExInv'
<1>1. exPhase = "primary" /\ at \in Key /\ remote[at] > 0 /\ UNCHANGED <<remote, native>>
  BY DEF PrimaryReplays, ExInv, ExecutionTypeOK, RemoteKnown
<1>2. remote \in [Key -> Nat] /\ native \in [Key -> Nat]
  BY DEF ExInv, ExecutionTypeOK
<1>3. ExecutionTypeOK' /\ AtStep'
  BY <1>1, <1>2, StepTypes DEF PrimaryReplays, ExInv, ExecutionTypeOK
<1>4. OrdersNeverLost'
  BY <1>1, <1>2, OrdersKept DEF PrimaryReplays, Succeed, Status
<1>5. TwiceOnlyAfterLostAnswer' /\ RemoteKnown' /\ NativeKnown'
  BY DEF PrimaryReplays, ExInv, TwiceOnlyAfterLostAnswer, RemoteKnown, NativeKnown
<1>6. FreshAhead'
  BY <1>1, SucceedSteps DEF PrimaryReplays, ExInv, FreshAhead, Key
<1> QED
  BY <1>3, <1>4, <1>5, <1>6 DEF ExInv

LEMMA AnswerRejectedInv ==
  ASSUME ExInv, AnswerRejected
  PROVE  ExInv'
<1>1. exPhase = "primary" /\ at \in Key /\ at \notin replays
  BY ExecutionConstants DEF AnswerRejected, Calls, ExInv, AtStep, Key
<1>2. TwiceOnlyAfterLostAnswer' /\ RemoteKnown' /\ NativeKnown'
  BY <1>1, ActedInv DEF AnswerRejected
<1>3. /\ remote' \in [Key -> Nat] /\ remote'[at] > 0 /\ \A k \in Key : k # at => remote'[k] = remote[k]
  BY <1>1, RemoteEffectSound DEF AnswerRejected
<1>4. native' = native /\ native \in [Key -> Nat]
  BY DEF AnswerRejected, ExInv, ExecutionTypeOK
<1>5. ExecutionTypeOK' /\ AtStep'
  BY <1>1, <1>3, <1>4, StepTypes DEF AnswerRejected, ExInv, ExecutionTypeOK
<1>6. OrdersNeverLost'
  BY <1>1, <1>3, <1>4, OrdersKept DEF AnswerRejected, Fail, Status
<1>7. FreshAhead'
  BY <1>1, FailSteps DEF AnswerRejected, FreshAhead
<1> QED
  BY <1>2, <1>5, <1>6, <1>7 DEF ExInv

LEMMA AnswerLostInv ==
  ASSUME ExInv, AnswerLost
  PROVE  ExInv'
<1>1. exPhase = "primary" /\ at \in Key /\ at \notin replays
  BY ExecutionConstants DEF AnswerLost, Calls, ExInv, AtStep, Key
<1>2. /\ TwiceOnlyAfterLostAnswer' /\ RemoteKnown' /\ NativeKnown'
      /\ \A k \in Key : k > at /\ remote'[k] + native'[k] > 0 => k \in lost' \cup retried'
  BY <1>1, ActedInv DEF AnswerLost
<1>3. /\ remote' \in [Key -> Nat] /\ remote'[at] > 0 /\ \A k \in Key : k # at => remote'[k] = remote[k]
  BY <1>1, RemoteEffectSound DEF AnswerLost
<1>4. native' = native /\ native \in [Key -> Nat]
  BY DEF AnswerLost, ExInv, ExecutionTypeOK
<1>5. ExecutionTypeOK' /\ AtStep'
  BY <1>1, <1>3, <1>4, StepTypes DEF AnswerLost, ExInv, ExecutionTypeOK
<1>6. CASE adapter.fallback
  <2>1. UNCHANGED <<at, outcomes>>
    BY <1>6 DEF AnswerLost, Raise
  <2>2. DOMAIN outcomes \subseteq Key
    BY <1>1, LenProperties, ExecutionConstants DEF ExInv, ExecutionTypeOK, AtStep, Key
  <2>3. OrdersNeverLost'
    BY <1>3, <1>4, <2>1, <2>2 DEF ExInv, OrdersNeverLost
  <2>4. FreshAhead'
    BY <1>1, <1>2, <2>1 DEF AnswerLost, FreshAhead, Key
  <2> QED
    BY <1>2, <1>5, <2>3, <2>4 DEF ExInv
<1>7. CASE ~adapter.fallback
  <2>1. Fail
    BY <1>7 DEF AnswerLost, Raise
  <2>2. OrdersNeverLost'
    BY <1>1, <1>3, <1>4, <2>1, OrdersKept DEF Fail, Status
  <2>3. FreshAhead'
    BY <1>1, <2>1, FailSteps DEF AnswerLost, FreshAhead
  <2> QED
    BY <1>2, <1>5, <2>2, <2>3 DEF ExInv
<1> QED
  BY <1>6, <1>7

LEMMA PrimaryFailsInv ==
  ASSUME ExInv, PrimaryFails
  PROVE  ExInv'
<1>1. exPhase = "primary" /\ UNCHANGED <<plan, adapter, remote, native, replays, lost, retried, nativeSeen, forgotten>>
  BY DEF PrimaryFails
<1>2. ExecutionTypeOK' /\ AtStep'
  BY <1>1, StepTypes DEF PrimaryFails, ExInv, ExecutionTypeOK
<1>3. TwiceOnlyAfterLostAnswer' /\ RemoteKnown' /\ NativeKnown'
  BY <1>1 DEF ExInv, TwiceOnlyAfterLostAnswer, RemoteKnown, NativeKnown
<1>4. CASE adapter.fallback
  BY <1>1, <1>2, <1>3, <1>4 DEF PrimaryFails, Raise, ExInv, OrdersNeverLost, FreshAhead
<1>5. CASE ~adapter.fallback
  <2>1. Fail
    BY <1>5 DEF PrimaryFails, Raise
  <2>2. OrdersNeverLost'
    BY <1>1, <2>1, OrdersKept DEF Fail, Status
  <2>3. FreshAhead'
    BY <1>1, <2>1, FailSteps DEF FreshAhead
  <2> QED
    BY <1>2, <1>3, <2>2, <2>3 DEF ExInv
<1> QED
  BY <1>4, <1>5

LEMMA FallbackInv ==
  ASSUME ExInv, Fallback
  PROVE  ExInv'
<1>1. /\ exPhase = "fallback" /\ UNCHANGED <<plan, adapter, remote, replays, lost, retried, forgotten>> /\ Succeed
      /\ nativeSeen' = nativeSeen \cup {at}
  BY DEF Fallback
<1>2. at \in Key /\ at \in Nat
  BY <1>1, ExecutionConstants DEF ExInv, AtStep, Key
<1>3. remote \in [Key -> Nat] /\ native \in [Key -> Nat] /\ nativeSeen \subseteq Key
  BY DEF ExInv, ExecutionTypeOK
<1>4. /\ native' \in [Key -> Nat] /\ \A k \in Key : k # at => native'[k] = native[k]
      /\ native'[at] > 0 /\ (native'[at] > 1 => <<"native", at>> \in forgotten)
  <2>1. native[at] > 0 => at \in nativeSeen \/ <<"native", at>> \in forgotten
    BY <1>2 DEF ExInv, NativeKnown
  <2>2. at \in nativeSeen => native[at] > 0
    BY DEF ExInv, NativeKnown
  <2>3. native[at] > 1 => <<"native", at>> \in forgotten
    BY <1>2 DEF ExInv, TwiceOnlyAfterLostAnswer
  <2>4. CASE at \in nativeSeen
    BY <1>3, <2>2, <2>3, <2>4 DEF Fallback, NativeEffect
  <2>5. CASE at \notin nativeSeen
    <3>1. native' = [native EXCEPT ![at] = @ + 1]
      BY <2>5 DEF Fallback, NativeEffect
    <3> QED
      BY <1>2, <1>3, <2>1, <2>5, <3>1
  <2> QED
    BY <2>4, <2>5
<1>5. ExecutionTypeOK' /\ AtStep'
  BY <1>1, <1>2, <1>3, <1>4, StepTypes DEF ExInv, ExecutionTypeOK
<1>6. OrdersNeverLost'
  <2>1. remote'[at] + native'[at] > 0 /\ \A k \in Key : remote[k] + native[k] > 0 => remote'[k] + native'[k] > 0
    BY <1>1, <1>2, <1>3, <1>4
  <2> QED
    BY <1>1, <2>1, OrdersKept DEF Succeed, Status
<1>7. TwiceOnlyAfterLostAnswer'
  <2>1. remote[at] > 0 => at \in lost \cup retried
    BY <1>1, <1>2, <1>3 DEF ExInv, FreshAhead
  <2> QED
    BY <1>1, <1>4, <2>1 DEF ExInv, TwiceOnlyAfterLostAnswer
<1>8. RemoteKnown' /\ NativeKnown'
  BY <1>1, <1>2, <1>3, <1>4 DEF ExInv, RemoteKnown, NativeKnown
<1>9. FreshAhead'
  <2> SUFFICES ASSUME exPhase' = "primary", NEW k \in Key, k >= at', remote'[k] + native'[k] > 0
               PROVE  k \in lost' \cup retried'
    BY <1>1, SucceedSteps DEF FreshAhead
  <2>1. at' = at + 1
    BY <1>1, SucceedSteps
  <2>2. k # at /\ k >= at
    BY <1>2, <2>1 DEF Key
  <2> QED
    BY <1>1, <1>4, <2>2 DEF ExInv, FreshAhead
<1> QED
  BY <1>5, <1>6, <1>7, <1>8, <1>9 DEF ExInv

(* Compensation moves backwards and touches no order. *)
LEMMA UndoInv ==
  ASSUME ExInv, Undo \/ UndoNatively \/ UndoFails \/ SkipUndo
  PROVE  ExInv'
<1>1. exPhase = "undoing" /\ NextUndo
  BY DEF Undo, UndoNatively, UndoFails, SkipUndo, Compensates
<1>2. at \in 1..MaxPlan
  BY <1>1, ExecutionConstants DEF ExInv, AtStep, ExecutionTypeOK
<1>3. undone' \subseteq Key /\ refused' \subseteq Key
  BY <1>2 DEF Undo, UndoNatively, UndoFails, SkipUndo, Cancelled, ExInv, ExecutionTypeOK, Key
<1>4. at' \in 0..MaxPlan /\ exPhase' \in {"undoing", "done"} /\ (exPhase' = "undoing" => at' > 0)
  BY <1>1, <1>2, ExecutionConstants DEF NextUndo
<1>5. ExecutionTypeOK'
  BY <1>1, <1>3, <1>4 DEF NextUndo, ExInv, ExecutionTypeOK
<1>6. AtStep' /\ FreshAhead'
  BY <1>1, <1>4 DEF NextUndo, ExInv, AtStep, FreshAhead
<1> QED
  BY <1>1, <1>5, <1>6 DEF NextUndo, ExInv, OrdersNeverLost, TwiceOnlyAfterLostAnswer, RemoteKnown,
                          NativeKnown

LEMMA ExecuteAgainInv ==
  ASSUME ExInv, ExecuteAgain
  PROVE  ExInv'
<1>1. outcomes' \in Seq(Status) /\ Len(outcomes') = 0 /\ DOMAIN outcomes' = {}
  BY DEF ExecuteAgain
<1>2. attempt' \in 1..MaxAttempts /\ at' \in 0..MaxPlan /\ retried' \subseteq Key
  BY ExecutionConstants DEF ExecuteAgain, ExInv, ExecutionTypeOK
<1>3. ExecutionTypeOK'
  BY <1>1, <1>2 DEF ExecuteAgain, ExInv, ExecutionTypeOK, Status
<1>4. AtStep'
  BY <1>1, ExecutionConstants DEF ExecuteAgain, ExInv, AtStep
<1>5. OrdersNeverLost'
  BY <1>1 DEF OrdersNeverLost
<1>6. TwiceOnlyAfterLostAnswer' /\ RemoteKnown' /\ NativeKnown'
  BY DEF ExecuteAgain, ExInv, TwiceOnlyAfterLostAnswer, RemoteKnown, NativeKnown
<1>7. FreshAhead'
  BY DEF ExecuteAgain, FreshAhead
<1> QED
  BY <1>3, <1>4, <1>5, <1>6, <1>7 DEF ExInv

LEMMA RestartInv ==
  ASSUME ExInv, RestartProcess
  PROVE  ExInv'
<1>1. outcomes' \in Seq(Status) /\ (outcomes' = outcomes \/ DOMAIN outcomes' = {})
  BY DEF RestartProcess, ExInv, ExecutionTypeOK, Status
<1>2. exPhase' = "done" /\ replays' = {} /\ nativeSeen' = {} /\ replays \subseteq Key /\ nativeSeen \subseteq Key
  BY DEF RestartProcess, ExInv, ExecutionTypeOK
<1>3. /\ forgotten' \subseteq {"provider", "native"} \X Key /\ forgotten \subseteq forgotten'
      /\ \A k \in replays : <<"provider", k>> \in forgotten'
      /\ \A k \in nativeSeen : <<"native", k>> \in forgotten'
  BY <1>2 DEF RestartProcess, ExInv, ExecutionTypeOK
<1>4. ExecutionTypeOK' /\ AtStep'
  BY <1>1, <1>2, <1>3 DEF RestartProcess, ExInv, ExecutionTypeOK, AtStep, Status
<1>5. OrdersNeverLost' /\ FreshAhead'
  BY <1>1, <1>2 DEF RestartProcess, ExInv, OrdersNeverLost, FreshAhead
<1>6. TwiceOnlyAfterLostAnswer'
  BY <1>3 DEF RestartProcess, ExInv, TwiceOnlyAfterLostAnswer
<1>7. RemoteKnown' /\ NativeKnown'
  BY <1>2, <1>3 DEF RestartProcess, ExInv, RemoteKnown, NativeKnown
<1> QED
  BY <1>4, <1>5, <1>6, <1>7 DEF ExInv

--------------------------------------------------------------------------------
LEMMA ExStepInv == ExInv /\ [ExecutionNext]_executionVars => ExInv'
<1> SUFFICES ASSUME ExInv, [ExecutionNext]_executionVars PROVE ExInv'
  OBVIOUS
<1>1. CASE UNCHANGED executionVars
  BY <1>1 DEF executionVars, execVars, ExInv, ExecutionTypeOK, AtStep, OrdersNeverLost,
              TwiceOnlyAfterLostAnswer, RemoteKnown, NativeKnown, FreshAhead
<1> QED
  BY <1>1, PrimaryAnswersInv, PrimaryReplaysInv, AnswerRejectedInv, AnswerLostInv, PrimaryFailsInv,
     FallbackInv, UndoInv, ExecuteAgainInv, RestartInv DEF ExecutionNext

(* ExInv is invariant. *)
LEMMA ExInvariant == ExecutionSpec => []ExInv
BY ExInitInv, ExStepInv, PTL DEF ExecutionSpec

(* What was reported as done was done, for any plan and however often it is *)
(* tried.                                                                   *)
THEOREM OrdersAreNeverLost == ExecutionSpec => []OrdersNeverLost
BY ExInvariant, PTL DEF ExInv

(* However the calls fail, the plan is tried again and processes end: the    *)
(* native store carries an action out twice only if a process that had       *)
(* answered its key has ended; Al Ostedh only if an answer was lost or such  *)
(* a process has ended, and another provider never; and both stores do it    *)
(* only after a lost answer or when the action was tried again.              *)
THEOREM TwiceAlwaysAfterLostAnswer == ExecutionSpec => []TwiceOnlyAfterLostAnswer
BY ExInvariant, PTL DEF ExInv

(* What execute_plan, the fallback and the provider's adapter keep of an   *)
(* execution keeps its types, for any plan.                                *)
THEOREM ExecutionTypeCorrect == ExecutionSpec => []ExecutionTypeOK
BY ExInvariant, PTL DEF ExInv

--------------------------------------------------------------------------------
(***************************************************************************)
(* Workflows, for any number of requests and runs.                         *)
(*                                                                         *)
(* What a request or a run has loaded may be old, so VerifiedBehind speaks *)
(* of the status each has seen as well as of the stored one; KillHolds     *)
(* says what may be in flight while the kill switch holds: nothing that    *)
(* writes "active" or "degraded".                                          *)
(***************************************************************************)

NeedsVerified == {"verified", "active", "degraded"}

VerifiedBehind ==
  /\ wfStatus \in NeedsVerified => wasVerified
  /\ \A a \in Actor : actor[a].pc \in {"running", "loaded"} /\ actor[a].kind = "live" => wasVerified
  /\ \A a \in Actor : actor[a].pc = "loaded" /\ actor[a].seen \in NeedsVerified => wasVerified
  /\ \A a \in Actor : actor[a].pc = "loaded" /\ actor[a].kind = "approve" => actor[a].seen = "verified"
  /\ \A a \in Actor : /\ actor[a].pc = "running" => actor[a].kind \in {"verification", "live"}
                      /\ actor[a].pc = "loaded" => actor[a].kind # "none"

KillHolds ==
  killed =>
    /\ wfStatus \in {"disabled", "verifying"}
    /\ \A a \in Actor : actor[a].pc \in {"running", "loaded"} =>
                          actor[a].kind \in {"verify", "disable", "verification"}

WfInv == WorkflowTypeOK /\ VerifiedBehind /\ KillHolds

--------------------------------------------------------------------------------
LEMMA WfInitInv == WorkflowInit => WfInv
<1> SUFFICES ASSUME WorkflowInit PROVE WfInv
  OBVIOUS
<1>1. Idle \in ActorState /\ Idle.pc = "new"
  BY DEF Idle, ActorState, WorkflowStatus
<1>2. \A a \in Actor : actor[a] = Idle
  BY DEF WorkflowInit
<1>3. WorkflowTypeOK
  BY <1>1 DEF WorkflowInit, WorkflowTypeOK, WorkflowStatus
<1> QED
  BY <1>1, <1>2, <1>3 DEF WorkflowInit, WfInv, VerifiedBehind, KillHolds, NeedsVerified

(* What a request or a run has read of the row. *)
LEMMA LoadsInv ==
  ASSUME WfInv, NEW a \in Actor, NEW kind \in {"verify", "approve", "disable", "verification", "live"},
         Loads(a, kind), UNCHANGED <<wfStatus, wfFailures, verifications, wasVerified, killed>>,
         kind = "approve" => wfStatus = "verified",
         kind = "live" => wasVerified,
         killed => kind \notin {"approve", "live"}
  PROVE  WfInv'
<1> DEFINE row == [pc |-> "loaded", kind |-> kind, seen |-> wfStatus, failures |-> wfFailures]
<1>1. row \in ActorState
  BY DEF WfInv, WorkflowTypeOK, ActorState
<1>2. actor' = [b \in Actor |-> IF b = a THEN row ELSE actor[b]]
  BY DEF Loads, WfInv, WorkflowTypeOK
<1>3. row.pc = "loaded" /\ row.kind = kind /\ row.seen = wfStatus
  OBVIOUS
<1> HIDE DEF row
<1>4. WorkflowTypeOK'
  BY <1>1, <1>2 DEF WfInv, WorkflowTypeOK
<1>5. VerifiedBehind'
  BY <1>2, <1>3 DEF WfInv, VerifiedBehind, NeedsVerified
<1>6. KillHolds'
  BY <1>2, <1>3 DEF WfInv, KillHolds
<1> QED
  BY <1>4, <1>5, <1>6 DEF WfInv

LEMMA LoadRequestInv ==
  ASSUME WfInv, NEW a \in Actor, NEW kind \in {"verify", "approve", "disable"}, LoadRequest(a, kind)
  PROVE  WfInv'
<1>1. killed => kind # "approve"
  BY DEF LoadRequest, Approvable, WfInv, KillHolds
<1> QED
  BY <1>1, LoadsInv DEF LoadRequest, Approvable

LEMMA LoadResultInv ==
  ASSUME WfInv, NEW a \in Actor, LoadResult(a)
  PROVE  WfInv'
<1>1. actor[a] \in ActorState /\ actor[a].pc = "running"
  BY DEF LoadResult, ActorAt, WfInv, WorkflowTypeOK
<1>2. PICK kind \in {"verification", "live"} : actor[a].kind = kind
  BY <1>1 DEF WfInv, VerifiedBehind
<1>3. (kind = "live" => wasVerified) /\ (killed => kind # "live")
  BY <1>1, <1>2 DEF WfInv, VerifiedBehind, KillHolds
<1>4. Loads(a, kind) /\ UNCHANGED <<wfStatus, wfFailures, verifications, wasVerified, killed>>
  BY <1>2 DEF LoadResult
<1> QED
  BY <1>3, <1>4, LoadsInv

LEMMA StartRunInv ==
  ASSUME WfInv, NEW a \in Actor, NEW kind \in {"verification", "live"}, StartRun(a, kind)
  PROVE  WfInv'
<1> DEFINE row == [actor[a] EXCEPT !.pc = "running", !.kind = kind]
<1>0. actor[a] \in ActorState
  BY DEF WfInv, WorkflowTypeOK
<1>1. row \in ActorState /\ row.pc = "running" /\ row.kind = kind
  BY <1>0 DEF ActorState
<1>2. actor' = [b \in Actor |-> IF b = a THEN row ELSE actor[b]]
  BY DEF StartRun, WfInv, WorkflowTypeOK
<1> HIDE DEF row
<1>3. WorkflowTypeOK'
  <2>1. verifications' \in Nat
    BY DEF StartRun, WfInv, WorkflowTypeOK
  <2> QED
    BY <1>1, <1>2, <2>1 DEF StartRun, WfInv, WorkflowTypeOK
<1>4. VerifiedBehind'
  BY <1>1, <1>2 DEF StartRun, Usable, WfInv, VerifiedBehind, NeedsVerified
<1>5. KillHolds'
  BY <1>1, <1>2 DEF StartRun, Usable, WfInv, KillHolds
<1> QED
  BY <1>3, <1>4, <1>5 DEF WfInv

LEMMA LeavesInv ==
  ASSUME WfInv, NEW a \in Actor, Leaves(a)
  PROVE  /\ actor' \in [Actor -> ActorState]
         /\ actor'[a].pc = "done" /\ \A b \in Actor : b # a => actor'[b] = actor[b]
<1> DEFINE row == [Idle EXCEPT !.pc = "done"]
<1>1. row \in ActorState /\ row.pc = "done"
  BY DEF Idle, ActorState, WorkflowStatus
<1>2. actor' = [b \in Actor |-> IF b = a THEN row ELSE actor[b]]
  BY DEF Leaves, WfInv, WorkflowTypeOK
<1> HIDE DEF row
<1> QED
  BY <1>1, <1>2 DEF WfInv, WorkflowTypeOK

LEMMA LoseHealthInv ==
  ASSUME WfInv, NEW a \in Actor, LoseHealth(a)
  PROVE  WfInv'
<1>1. /\ actor' \in [Actor -> ActorState]
      /\ actor'[a].pc = "done" /\ \A b \in Actor : b # a => actor'[b] = actor[b]
  BY LeavesInv DEF LoseHealth
<1> QED
  BY <1>1 DEF LoseHealth, WfInv, WorkflowTypeOK, VerifiedBehind, KillHolds

(* What a writes is a status, and one that needs a verification only if one *)
(* has passed.                                                              *)
LEMMA OutcomeSound ==
  ASSUME WfInv, NEW a \in Actor, NEW ok \in BOOLEAN, ActorAt(a, "loaded")
  PROVE  /\ Outcome(a, ok).status \in WorkflowStatus /\ Outcome(a, ok).failures \in Nat
         /\ Outcome(a, ok).status \in NeedsVerified /\ Outcome(a, ok).status # actor[a].seen
               => wasVerified \/ Passes(a, ok)
         /\ actor[a].kind = "disable" => Outcome(a, ok).status = "disabled"
         /\ actor[a].kind = "verify" => Outcome(a, ok).status = "verifying"
         /\ actor[a].kind = "verification" /\ ~ok => Outcome(a, ok).status = "disabled"
<1> DEFINE loaded == Health(actor[a].seen, actor[a].failures)
<1>1. actor[a].seen \in WorkflowStatus /\ actor[a].failures \in Nat /\ actor[a].pc = "loaded"
  BY DEF WfInv, WorkflowTypeOK, ActorState, ActorAt
<1>2. loaded.status = actor[a].seen /\ loaded.failures = actor[a].failures
  BY DEF Health
<1>3. /\ record_verification(loaded, ok).status = IF ok THEN "verified" ELSE "disabled"
      /\ record_verification(loaded, ok).failures \in Nat
      /\ record_verification(loaded, FALSE).status = "disabled"
      /\ record_verification(loaded, FALSE).failures \in Nat
  BY <1>1 DEF record_verification, Health
<1>4. /\ record_success(loaded).status \in {"disabled", "active"}
      /\ record_success(loaded).failures \in Nat
      /\ record_failure(loaded).status \in {"disabled", "degraded"}
      /\ record_failure(loaded).failures \in Nat
  BY <1>1 DEF record_success, record_failure, Health
<1>5. CASE actor[a].kind = "verify"
  BY <1>1, <1>5 DEF Outcome, Health, WorkflowStatus, NeedsVerified
<1>6. CASE actor[a].kind = "approve"
  <2>1. wasVerified
    BY <1>1, <1>6 DEF WfInv, VerifiedBehind, NeedsVerified
  <2> QED
    BY <1>1, <1>6, <2>1 DEF Outcome, Health, WorkflowStatus
<1>7. CASE actor[a].kind = "disable"
  BY <1>3, <1>7 DEF Outcome, WorkflowStatus, NeedsVerified
<1>8. CASE actor[a].kind = "verification"
  BY <1>3, <1>8 DEF Outcome, WorkflowStatus, NeedsVerified, Passes
<1>9. CASE actor[a].kind = "live"
  <2>1. wasVerified
    BY <1>1, <1>9 DEF WfInv, VerifiedBehind
  <2> QED
    BY <1>4, <1>9, <2>1 DEF Outcome, WorkflowStatus
<1>10. actor[a].kind \in {"verify", "approve", "disable", "verification", "live"}
  <2>1. actor[a] \in ActorState /\ actor[a].kind # "none"
    BY <1>1 DEF WfInv, WorkflowTypeOK, VerifiedBehind
  <2> QED
    BY <2>1 DEF ActorState
<1> QED
  BY <1>5, <1>6, <1>7, <1>8, <1>9, <1>10

LEMMA CommitHealthInv ==
  ASSUME WfInv, NEW a \in Actor, NEW ok \in BOOLEAN, CommitHealth(a, ok)
  PROVE  WfInv'
<1> DEFINE to == Outcome(a, ok).status
<1>1. /\ actor' \in [Actor -> ActorState]
      /\ actor'[a].pc = "done" /\ \A b \in Actor : b # a => actor'[b] = actor[b]
  BY LeavesInv DEF CommitHealth
<1>2. /\ to \in WorkflowStatus /\ Outcome(a, ok).failures \in Nat
      /\ to \in NeedsVerified /\ to # actor[a].seen => wasVerified \/ Passes(a, ok)
      /\ actor[a].kind = "disable" => to = "disabled"
      /\ actor[a].kind = "verify" => to = "verifying"
      /\ actor[a].kind = "verification" /\ ~ok => to = "disabled"
  BY OutcomeSound DEF CommitHealth
<1>3. actor[a].pc = "loaded" /\ wfStatus' = IF to = actor[a].seen THEN wfStatus ELSE to
  BY DEF CommitHealth, ActorAt
<1> HIDE DEF to
<1>4. WorkflowTypeOK'
  <2>1. wfFailures' \in Nat /\ verifications' \in Nat
    BY <1>2 DEF CommitHealth, WfInv, WorkflowTypeOK
  <2>2. wasVerified' \in BOOLEAN
    BY DEF CommitHealth, WfInv, WorkflowTypeOK
  <2>3. killed' \in BOOLEAN
    BY DEF CommitHealth, WfInv, WorkflowTypeOK, Undisturbed
  <2>4. wfStatus' \in WorkflowStatus
    BY <1>2, <1>3 DEF WfInv, WorkflowTypeOK
  <2> QED
    BY <1>1, <2>1, <2>2, <2>3, <2>4 DEF WorkflowTypeOK
<1>5. VerifiedBehind'
  <2>1. (wasVerified => wasVerified') /\ (Passes(a, ok) => wasVerified')
    BY DEF CommitHealth
  <2> QED
    BY <1>1, <1>2, <1>3, <2>1 DEF WfInv, VerifiedBehind
<1>6. KillHolds'
  <2> SUFFICES ASSUME killed'
               PROVE  /\ wfStatus' \in {"disabled", "verifying"}
                      /\ \A b \in Actor : actor'[b].pc \in {"running", "loaded"} =>
                            actor'[b].kind \in {"verify", "disable", "verification"}
    BY DEF KillHolds
  <2>1. CASE actor[a].kind = "disable"
    <3>1. InFlight = {a} /\ wfStatus = actor[a].seen
      BY <2>1 DEF CommitHealth, Undisturbed
    <3>2. wfStatus' = "disabled"
      BY <1>2, <1>3, <2>1, <3>1
    <3>3. \A b \in Actor : actor'[b].pc \notin {"running", "loaded"}
      BY <1>1, <3>1 DEF InFlight
    <3> QED
      BY <3>2, <3>3
  <2>2. CASE actor[a].kind # "disable"
    <3>1. killed /\ ~Passes(a, ok)
      BY <2>2 DEF CommitHealth
    <3>2. actor[a].kind \in {"verify", "verification"}
      BY <1>3, <2>2, <3>1 DEF WfInv, KillHolds
    <3>3. to \in {"disabled", "verifying"}
      BY <1>2, <3>1, <3>2 DEF Passes
    <3> QED
      BY <1>1, <1>3, <3>1, <3>3 DEF WfInv, KillHolds
  <2> QED
    BY <2>1, <2>2
<1> QED
  BY <1>4, <1>5, <1>6 DEF WfInv

--------------------------------------------------------------------------------
LEMMA WfStepInv == WfInv /\ [WorkflowNext]_wfVars => WfInv'
<1> SUFFICES ASSUME WfInv, [WorkflowNext]_wfVars PROVE WfInv'
  OBVIOUS
<1>1. CASE UNCHANGED wfVars
  BY <1>1 DEF wfVars, WfInv, WorkflowTypeOK, VerifiedBehind, KillHolds
<1> QED
  BY <1>1, LoadRequestInv, StartRunInv, LoadResultInv, CommitHealthInv, LoseHealthInv DEF WorkflowNext

(* WfInv is invariant. *)
LEMMA WfInvariant == WorkflowSpec => []WfInv
BY WfInitInv, WfStepInv, PTL DEF WorkflowSpec

(* Traffic is live only for a workflow that passed a verification, however  *)
(* many requests and runs overlap.                                          *)
THEOREM LiveAlwaysVerified == WorkflowSpec => []LiveWasVerified
<1>1. WfInv => LiveWasVerified
  BY DEF WfInv, VerifiedBehind, LiveWasVerified, Usable, NeedsVerified, InFlight
<1> QED
  BY <1>1, WfInvariant, PTL

(* The kill switch, pulled when nothing else is in flight, holds until the  *)
(* next verification passes.                                                *)
THEOREM KillSwitchAlwaysHolds == WorkflowSpec => []KillSwitchHolds
<1>1. WfInv => KillSwitchHolds
  BY DEF WfInv, KillHolds, KillSwitchHolds, Usable
<1> QED
  BY <1>1, WfInvariant, PTL

(* The row of a workflow and what every request and run has loaded of it   *)
(* keep their types, for any number of them.                               *)
THEOREM WorkflowTypeCorrect == WorkflowSpec => []WorkflowTypeOK
<1>1. WfInv => WorkflowTypeOK
  BY DEF WfInv
<1> QED
  BY <1>1, WfInvariant, PTL

--------------------------------------------------------------------------------
(***************************************************************************)
(* BrowserRuns, for traces of any length.                                  *)
(*                                                                         *)
(* StepGuarded says that the step in hand passed its checks, Counted that  *)
(* the submits and orders done so far are those of the steps passed:       *)
(* success then means every step.                                          *)
(***************************************************************************)

CompiledSteps == {CompiledStep(e) : e \in {x \in TraceEntry : Known(x)}}

LEMMA StepFields ==
  ASSUME NEW s \in CompiledSteps
  PROVE  /\ s.op \in KnownOp /\ s.expect \in BOOLEAN
         /\ s.requires = IF s.op = "confirm_order" THEN "platform_confirmed_action" ELSE "none"
<1>1. PICK e \in TraceEntry : Known(e) /\ s = CompiledStep(e)
  BY DEF CompiledSteps
<1> QED
  BY <1>1 DEF CompiledStep, Known

(* What is compiled is a sequence of steps of known operations. *)
LEMMA CompiledType ==
  ASSUME trace \in BoundedSeq(TraceEntry, MaxTrace)
  PROVE  Compiled \in Seq(CompiledSteps)
<1> DEFINE b == Len(trace)
           V == Seq(CompiledSteps)
           build == [p \in (1..b) \X V |->
                       IF Known(trace[p[1]]) THEN Append(p[2], CompiledStep(trace[p[1]])) ELSE p[2]]
           Steps(f) == f = [n \in 0..b |->
                              IF n = 0 THEN <<>>
                              ELSE IF Known(trace[n]) THEN Append(f[n - 1], CompiledStep(trace[n])) ELSE f[n - 1]]
<1>1. b \in Nat /\ \A n \in 1..b : trace[n] \in TraceEntry
  <2>1. trace \in Seq(TraceEntry)
    BY BrowserConstants, BoundedSeqType
  <2> QED
    BY <2>1
<1>2. <<>> \in V /\ \A n \in 1..b : Known(trace[n]) => CompiledStep(trace[n]) \in CompiledSteps
  BY <1>1 DEF CompiledSteps
<1>3. build \in StepsOn(b, V)
  BY <1>1, <1>2 DEF StepsOn
<1> HIDE DEF b
<1>4. PICK f : Follows(f, b, V, <<>>, build)
  <2> HIDE DEF build, V
  <2> QED
    BY <1>1, <1>2, <1>3, RecursionExists
<1>5. f \in [0..b -> V] /\ f[0] = <<>>
  BY <1>4 DEF Follows
<1>6. \A n \in 1..b : f[n - 1] \in V
  <2> HIDE DEF V
  <2> QED
    BY <1>1, <1>5
<1>7. \A n \in 1..b : f[n] = IF Known(trace[n]) THEN Append(f[n - 1], CompiledStep(trace[n])) ELSE f[n - 1]
  <2> TAKE n \in 1..b
  <2>1. f[n] = build[<<n, f[n - 1]>>] /\ <<n, f[n - 1]>> \in (1..b) \X V
    BY <1>4, <1>6 DEF Follows
  <2> HIDE DEF V
  <2> QED
    BY <2>1
<1> HIDE DEF build, V
<1>8. Steps(f)
  <2>1. f = [n \in 0..b |-> f[n]] /\ 0..b = {0} \cup 1..b /\ 0 \notin 1..b
    BY <1>1, <1>5
  <2>2. \A n \in 0..b : f[n] = IF n = 0 THEN <<>>
                             ELSE IF Known(trace[n]) THEN Append(f[n - 1], CompiledStep(trace[n])) ELSE f[n - 1]
    BY <1>5, <1>7, <2>1
  <2> QED
    BY <2>1, <2>2
<1>9. \A g : Steps(g) => g = f
  <2> SUFFICES ASSUME NEW g, Steps(g) PROVE g = f
    OBVIOUS
  <2>1. f = [n \in 0..b |-> f[n]] /\ g = [n \in 0..b |-> g[n]] /\ g[0] = f[0]
    BY <1>1, <1>5
  <2>2. \A n \in 0..b - 1 : g[n] = f[n] => g[n + 1] = f[n + 1]
    <3> SUFFICES ASSUME NEW n \in 0..b - 1, g[n] = f[n] PROVE g[n + 1] = f[n + 1]
      OBVIOUS
    <3>1. n + 1 \in 1..b /\ n + 1 \in 0..b /\ n + 1 # 0 /\ (n + 1) - 1 = n
      BY <1>1
    <3> QED
      BY <1>7, <3>1
  <2> HIDE DEF Steps
  <2> QED
    BY <1>1, <2>1, <2>2, RecursionUnique
<1>10. (CHOOSE g : Steps(g)) = f
  <2> HIDE DEF Steps
  <2> QED
    BY <1>8, <1>9
<1>11. Compiled = f[b]
  BY <1>10, Zenon DEF Compiled, Steps, b
<1> QED
  BY <1>1, <1>5, <1>11 DEF V

--------------------------------------------------------------------------------
Held(n) == {i \in 1..n : Compiled[i].expect}
Orders(n) == {i \in 1..n : Compiled[i].op = "confirm_order"}

(* One more step adds one to what was counted, or nothing. *)
LEMMA CountNext ==
  ASSUME NEW n \in Nat, NEW A \in SUBSET (1..n)
  PROVE  /\ Cardinality(A) \in Nat
         /\ Cardinality(A \cup {n + 1}) = Cardinality(A) + 1
<1>1. IsFiniteSet(A)
  <2>1. 1 \in Int /\ n \in Int
    OBVIOUS
  <2>2. IsFiniteSet(1..n)
    BY <2>1, FS_Interval
  <2> QED
    BY <2>2, FS_Subset
<1>2. n + 1 \notin A
  OBVIOUS
<1> QED
  BY <1>1, <1>2, FS_AddElement, FS_CardinalityType

LEMMA HeldNext ==
  ASSUME NEW n \in Nat
  PROVE  /\ Cardinality(Held(n)) \in Nat /\ Cardinality(Orders(n)) \in Nat
         /\ Cardinality(Held(n + 1)) = IF Compiled[n + 1].expect THEN Cardinality(Held(n)) + 1 ELSE Cardinality(Held(n))
         /\ Cardinality(Orders(n + 1)) =
              IF Compiled[n + 1].op = "confirm_order" THEN Cardinality(Orders(n)) + 1 ELSE Cardinality(Orders(n))
<1>1. Held(n) \in SUBSET (1..n) /\ Orders(n) \in SUBSET (1..n)
  BY DEF Held, Orders
<1>2. Held(n + 1) = IF Compiled[n + 1].expect THEN Held(n) \cup {n + 1} ELSE Held(n)
  BY DEF Held
<1>3. Orders(n + 1) = IF Compiled[n + 1].op = "confirm_order" THEN Orders(n) \cup {n + 1} ELSE Orders(n)
  BY DEF Orders
<1> QED
  BY <1>1, <1>2, <1>3, CountNext

(* A step that is under way passed its guards; what is counted so far.      *)
StepGuarded ==
  outcome = "running" /\ step <= Len(Compiled) /\ phase # "guards" =>
    /\ Permitted(Current) /\ FieldsSafe(Current)
    /\ ~(mode.dry /\ Current.op \in IrreversibleOp)
    /\ phase = "acting" => Current.op \notin ClickOp

Counted ==
  /\ page.held = Cardinality(Held(step - 1))
  /\ page.submits >= Cardinality(Orders(step - 1))
  /\ phase = "checking" /\ step <= Len(Compiled) /\ Current.op = "confirm_order" =>
       page.submits >= Cardinality(Orders(step - 1)) + 1

BrowserInv ==
  /\ trace \in BoundedSeq(TraceEntry, MaxTrace)
  /\ BrowserTypeOK
  /\ StepGuarded
  /\ Counted
  /\ SubmitsOnlyConfirmed
  /\ PaymentFormsUntouched
  /\ outcome = "ok" => mode.dry \/ step > Len(Compiled)

LEMMA BrowserInitInv == BrowserInit => BrowserInv
<1> SUFFICES ASSUME BrowserInit PROVE BrowserInv
  OBVIOUS
<1>1. trace \in BoundedSeq(TraceEntry, MaxTrace)
  BY DEF BrowserInit
<1>2. Compiled \in Seq(CompiledSteps) /\ Len(Compiled) \in Nat
  BY <1>1, CompiledType
<1> HIDE DEF Compiled
<1>3. BrowserTypeOK /\ StepGuarded /\ SubmitsOnlyConfirmed /\ PaymentFormsUntouched
  BY <1>2, BrowserConstants
     DEF BrowserInit, BrowserTypeOK, StepGuarded, SubmitsOnlyConfirmed, PaymentFormsUntouched, NoEffects
<1>4. Held(step - 1) = {} /\ Orders(step - 1) = {}
  BY DEF BrowserInit, Held, Orders
<1>5. Counted
  BY <1>4, FS_EmptySet DEF Counted, BrowserInit, NoEffects
<1> QED
  BY <1>1, <1>3, <1>5 DEF BrowserInv, BrowserInit

(* Facts about the current step and what stays when the trace does. *)
LEMMA CurrentFacts ==
  ASSUME BrowserInv
  PROVE  /\ Compiled \in Seq(CompiledSteps) /\ Len(Compiled) \in Nat /\ step \in Nat \ {0}
         /\ \A i \in 1..Len(Compiled) : Compiled[i] \in CompiledSteps
         /\ step <= Len(Compiled) =>
              /\ step \in 1..Len(Compiled) /\ Current.op \in KnownOp /\ Current.expect \in BOOLEAN
              /\ Current.requires = IF Current.op = "confirm_order" THEN "platform_confirmed_action" ELSE "none"
<1>1. Compiled \in Seq(CompiledSteps) /\ step \in 1..Len(Compiled) + 1
  BY CompiledType DEF BrowserInv, BrowserTypeOK
<1>2. Len(Compiled) \in Nat /\ step \in Nat \ {0} /\ \A i \in 1..Len(Compiled) : Compiled[i] \in CompiledSteps
  BY <1>1
<1> QED
  BY <1>1, <1>2, StepFields DEF Current

LEMMA FieldsFacts ==
  ASSUME NEW s
  PROVE  /\ Fields(s) # <<>> <=> s.op = "fill_form"
         /\ Range(Fields(s)) \subseteq {"phone", "card_number"}
         /\ Len(Fields(s)) \in Nat /\ \A i \in 1..Len(Fields(s)) : Fields(s)[i] \in Range(Fields(s))
         /\ Fields(s) = <<>> => Range(Fields(s)) = {} /\ Len(Fields(s)) = 0
BY DEF Fields, Range

(* What a form that passed its guard types, in part or in full. *)
LEMMA FilledSafely ==
  ASSUME BrowserInv, Running("acting"), NEW fields \in SUBSET Range(Fields(Current)),
         page' = [page EXCEPT !.filled = @ \cup fields], UNCHANGED <<trace, step>>
  PROVE  PaymentFormsUntouched' /\ page' \in [submits : Nat, filled : SUBSET {"phone", "card_number"}, held : Nat]
<1>1. FieldsSafe(Current) /\ step <= Len(Compiled)
  BY DEF BrowserInv, StepGuarded, Running
<1>2. /\ page'.filled = page.filled \cup fields
      /\ page' \in [submits : Nat, filled : SUBSET {"phone", "card_number"}, held : Nat]
  BY FieldsFacts DEF BrowserInv, BrowserTypeOK
<1>3. page'.filled \cap NEVER_FILL_PATTERNS = {}
  BY <1>1, <1>2 DEF BrowserInv, PaymentFormsUntouched, FieldsSafe
<1>4. fields # {} => Current.op = "fill_form"
  BY FieldsFacts
<1>5. step \in 1..step /\ step \in DOMAIN Compiled
  BY <1>1, CurrentFacts
<1>6. Compiled' = Compiled
  BY DEF Compiled
<1>7. page.filled # {} => \E i \in 1..step : i \in DOMAIN Compiled /\ Compiled[i].op = "fill_form" /\ FieldsSafe(Compiled[i])
  BY DEF BrowserInv, PaymentFormsUntouched
<1> HIDE DEF Compiled
<1>8. page'.filled # {} => \E i \in 1..step : i \in DOMAIN Compiled /\ Compiled[i].op = "fill_form" /\ FieldsSafe(Compiled[i])
  BY <1>1, <1>2, <1>4, <1>5, <1>7 DEF Current
<1> QED
  BY <1>2, <1>3, <1>6, <1>8 DEF PaymentFormsUntouched

Codes == {"ok", "MISSING_PARAMETER", "CONFIRMATION_MISSING", "PAYMENT_FIELD_REFUSED",
          "EGRESS_BLOCKED", "SELECTOR_FAILED", "ASSERTION_FAILED"}

(* An abort changes the outcome alone. *)
LEMMA AbortInv ==
  ASSUME BrowserInv, NEW code \in Codes, Abort(code), code = "ok" => mode.dry \/ step > Len(Compiled)
  PROVE  BrowserInv'
<1>1. outcome' = code /\ UNCHANGED <<trace, mode, step, candidate, phase, page>>
  BY DEF Abort
<1>2. Compiled' = Compiled
  BY <1>1 DEF Compiled
<1> HIDE DEF Compiled
<1>3. Held(step - 1)' = Held(step - 1) /\ Orders(step - 1)' = Orders(step - 1) /\ Current' = Current
  BY <1>1, <1>2 DEF Held, Orders, Current
<1>4. BrowserTypeOK'
  BY <1>1, <1>2 DEF BrowserInv, BrowserTypeOK, Codes
<1>5. StepGuarded'
  BY <1>1 DEF StepGuarded, Codes
<1>6. Counted'
  BY <1>1, <1>2, <1>3 DEF BrowserInv, Counted
<1>7. SubmitsOnlyConfirmed' /\ PaymentFormsUntouched'
  BY <1>1, <1>2 DEF BrowserInv, SubmitsOnlyConfirmed, PaymentFormsUntouched
<1> QED
  BY <1>1, <1>2, <1>4, <1>5, <1>6, <1>7 DEF BrowserInv

LEMMA StepStays ==
  ASSUME UNCHANGED <<trace, step>>
  PROVE  /\ Compiled' = Compiled /\ Current' = Current
         /\ Held(step - 1)' = Held(step - 1) /\ Orders(step - 1)' = Orders(step - 1)
<1>1. Compiled' = Compiled
  BY DEF Compiled
<1> HIDE DEF Compiled
<1> QED
  BY <1>1 DEF Held, Orders, Current

LEMMA StartStepInv == BrowserInv /\ StartStep => BrowserInv'
<1> SUFFICES ASSUME BrowserInv, StartStep PROVE BrowserInv'
  OBVIOUS
<1>1. /\ UNCHANGED <<trace, mode, step, outcome, page>> /\ phase' \in {"clicking", "acting"} /\ candidate' = 0
      /\ phase' = "acting" => Current.op \notin ClickOp
      /\ Permitted(Current) /\ FieldsSafe(Current) /\ ~(mode.dry /\ Current.op \in IrreversibleOp)
  BY DEF StartStep, Reaches
<1>2. /\ Compiled' = Compiled /\ Current' = Current
      /\ Held(step - 1)' = Held(step - 1) /\ Orders(step - 1)' = Orders(step - 1)
  BY <1>1, StepStays
<1>3. BrowserTypeOK'
  BY <1>1, <1>2, BrowserConstants DEF BrowserInv, BrowserTypeOK
<1>4. StepGuarded'
  BY <1>1, <1>2 DEF StepGuarded, Permitted
<1>5. Counted'
  BY <1>1, <1>2 DEF BrowserInv, Counted
<1>6. SubmitsOnlyConfirmed' /\ PaymentFormsUntouched'
  BY <1>1, <1>2 DEF BrowserInv, SubmitsOnlyConfirmed, PaymentFormsUntouched
<1> QED
  BY <1>1, <1>2, <1>3, <1>4, <1>5, <1>6 DEF BrowserInv

LEMMA ActInv == BrowserInv /\ (Act \/ ActFails) => BrowserInv'
<1> SUFFICES ASSUME BrowserInv, Act \/ ActFails PROVE BrowserInv'
  OBVIOUS
<1>1. /\ Running("acting") /\ UNCHANGED <<trace, mode, step, candidate>>
      /\ \/ phase' = "checking" /\ outcome' = outcome
         \/ phase' = phase /\ outcome' \in {"SELECTOR_FAILED", "STEP_FAILED"}
  BY DEF Act, ActFails
<1>2. \E fields \in SUBSET Range(Fields(Current)) : page' = [page EXCEPT !.filled = @ \cup fields]
  <2>1. CASE Act
    BY <2>1 DEF Act
  <2>2. CASE ActFails
    <3>1. PICK n \in 0..Len(Fields(Current)) :
             page' = [page EXCEPT !.filled = @ \cup {Fields(Current)[i] : i \in 1..n}]
      BY <2>2 DEF ActFails
    <3>2. {Fields(Current)[i] : i \in 1..n} \in SUBSET Range(Fields(Current))
      BY FieldsFacts
    <3> QED
      BY <3>1, <3>2
  <2> QED
    BY <2>1, <2>2
<1>3. /\ PaymentFormsUntouched' /\ page' \in [submits : Nat, filled : SUBSET {"phone", "card_number"}, held : Nat]
      /\ page'.submits = page.submits /\ page'.held = page.held
  BY <1>1, <1>2, FilledSafely DEF BrowserInv, BrowserTypeOK
<1>4. /\ Compiled' = Compiled /\ Current' = Current
      /\ Held(step - 1)' = Held(step - 1) /\ Orders(step - 1)' = Orders(step - 1)
  BY <1>1, StepStays
<1>5. BrowserTypeOK'
  BY <1>1, <1>3, <1>4 DEF BrowserInv, BrowserTypeOK
<1>6. outcome = "running" /\ step <= Len(Compiled) /\ phase = "acting"
  BY <1>1 DEF Running
<1>7. Permitted(Current) /\ FieldsSafe(Current) /\ ~(mode.dry /\ Current.op \in IrreversibleOp) /\ Current.op \notin ClickOp
  BY <1>6 DEF BrowserInv, StepGuarded
<1>8. StepGuarded'
  BY <1>1, <1>4, <1>7 DEF StepGuarded, Permitted
<1>9. Counted'
  BY <1>1, <1>3, <1>4, <1>7 DEF BrowserInv, Counted, ClickOp
<1>10. SubmitsOnlyConfirmed'
  BY <1>1, <1>3 DEF BrowserInv, SubmitsOnlyConfirmed
<1> QED
  BY <1>1, <1>3, <1>4, <1>5, <1>6, <1>8, <1>9, <1>10 DEF BrowserInv

LEMMA ClickInv == BrowserInv /\ (Click \/ ClickRaises) => BrowserInv'
<1> SUFFICES ASSUME BrowserInv, Click \/ ClickRaises PROVE BrowserInv'
  OBVIOUS
<1>1. /\ Running("clicking") /\ UNCHANGED <<trace, mode, step, outcome>>
      /\ candidate < MaxSelectors /\ candidate' = candidate + 1
      /\ \/ phase' = "checking" /\ page' = Submitted
         \/ phase' = phase /\ page' \in {page, Submitted}
  BY DEF Click, ClickRaises
<1>2. outcome = "running" /\ step <= Len(Compiled) /\ phase = "clicking"
  BY <1>1 DEF Running
<1>3. Permitted(Current) /\ FieldsSafe(Current) /\ ~(mode.dry /\ Current.op \in IrreversibleOp)
  BY <1>2 DEF BrowserInv, StepGuarded
<1>4. page \in [submits : Nat, filled : SUBSET {"phone", "card_number"}, held : Nat]
  BY DEF BrowserInv, BrowserTypeOK
<1>5. /\ Submitted \in [submits : Nat, filled : SUBSET {"phone", "card_number"}, held : Nat]
      /\ Submitted.held = page.held /\ Submitted.filled = page.filled
      /\ Submitted.submits = IF Current.op = "confirm_order" THEN page.submits + 1 ELSE page.submits
  BY <1>4 DEF Submitted
<1>6. /\ page' \in [submits : Nat, filled : SUBSET {"phone", "card_number"}, held : Nat]
      /\ page'.held = page.held /\ page'.filled = page.filled
      /\ page'.submits = page.submits \/ (Current.op = "confirm_order" /\ page'.submits = page.submits + 1)
      /\ phase' = "checking" /\ Current.op = "confirm_order" => page'.submits = page.submits + 1
  BY <1>1, <1>2, <1>4, <1>5
<1>7. /\ Compiled' = Compiled /\ Current' = Current
      /\ Held(step - 1)' = Held(step - 1) /\ Orders(step - 1)' = Orders(step - 1)
  BY <1>1, StepStays
<1>8. BrowserTypeOK'
  BY <1>1, <1>6, <1>7, BrowserConstants DEF BrowserInv, BrowserTypeOK
<1>9. StepGuarded'
  BY <1>1, <1>2, <1>3, <1>7 DEF StepGuarded, Permitted
<1>10. Counted'
  <2>1. step - 1 \in Nat
    BY CurrentFacts
  <2>2. Cardinality(Orders(step - 1)) \in Nat /\ page.submits \in Nat
    BY <1>4, <2>1, HeldNext
  <2> QED
    BY <1>1, <1>6, <1>7, <2>2 DEF BrowserInv, Counted
<1>11. SubmitsOnlyConfirmed'
  <2>1. Current.op = "confirm_order" => mode.confirmed /\ ~mode.dry
    BY <1>2, <1>3, CurrentFacts DEF Permitted, IrreversibleOp
  <2> QED
    BY <1>1, <1>6, <2>1 DEF BrowserInv, SubmitsOnlyConfirmed
<1>12. PaymentFormsUntouched'
  BY <1>1, <1>6, <1>7 DEF BrowserInv, PaymentFormsUntouched
<1> QED
  BY <1>1, <1>7, <1>8, <1>9, <1>10, <1>11, <1>12 DEF BrowserInv

LEMMA StepDoneInv == BrowserInv /\ StepDone => BrowserInv'
<1> SUFFICES ASSUME BrowserInv, StepDone PROVE BrowserInv'
  OBVIOUS
<1>1. /\ Running("checking") /\ UNCHANGED <<trace, mode, candidate, outcome>>
      /\ phase' = "guards" /\ step' = step + 1
      /\ page' = IF Current.expect THEN [page EXCEPT !.held = @ + 1] ELSE page
  BY DEF StepDone
<1>2. outcome = "running" /\ step <= Len(Compiled) /\ phase = "checking"
  BY <1>1 DEF Running
<1>3. page \in [submits : Nat, filled : SUBSET {"phone", "card_number"}, held : Nat]
  BY DEF BrowserInv, BrowserTypeOK
<1>4. /\ page' \in [submits : Nat, filled : SUBSET {"phone", "card_number"}, held : Nat]
      /\ page'.held = (IF Current.expect THEN page.held + 1 ELSE page.held)
      /\ page'.filled = page.filled /\ page'.submits = page.submits
  BY <1>1, <1>3
<1>5. Compiled' = Compiled
  BY <1>1 DEF Compiled
<1> HIDE DEF Compiled
<1>6. step \in Nat \ {0} /\ Len(Compiled) \in Nat
  BY CurrentFacts
<1>7. PICK n \in Nat : n = step - 1 /\ step = n + 1
  BY <1>6
<1>8. /\ Held(step - 1)' = Held(n + 1) /\ Orders(step - 1)' = Orders(n + 1)
      /\ Held(step - 1) = Held(n) /\ Orders(step - 1) = Orders(n)
  BY <1>1, <1>5, <1>7 DEF Held, Orders
<1>9. /\ Cardinality(Held(n)) \in Nat /\ Cardinality(Orders(n)) \in Nat
      /\ Cardinality(Held(n + 1)) = IF Current.expect THEN Cardinality(Held(n)) + 1 ELSE Cardinality(Held(n))
      /\ Cardinality(Orders(n + 1)) =
           IF Current.op = "confirm_order" THEN Cardinality(Orders(n)) + 1 ELSE Cardinality(Orders(n))
  BY <1>7, HeldNext DEF Current
<1>10. BrowserTypeOK'
  BY <1>1, <1>2, <1>4, <1>5, <1>6 DEF BrowserInv, BrowserTypeOK
<1>11. StepGuarded'
  BY <1>1 DEF StepGuarded
<1>12. Counted'
  BY <1>1, <1>2, <1>4, <1>8, <1>9 DEF BrowserInv, Counted
<1>13. SubmitsOnlyConfirmed'
  BY <1>1, <1>4 DEF BrowserInv, SubmitsOnlyConfirmed
<1>14. PaymentFormsUntouched'
  BY <1>1, <1>4, <1>5, <1>6 DEF BrowserInv, PaymentFormsUntouched
<1> QED
  BY <1>1, <1>2, <1>5, <1>10, <1>11, <1>12, <1>13, <1>14 DEF BrowserInv

LEMMA BrowserStepInv == BrowserInv /\ [BrowserNext]_browserVars => BrowserInv'
<1> SUFFICES ASSUME BrowserInv, [BrowserNext]_browserVars PROVE BrowserInv'
  OBVIOUS
<1>1. CASE MissingParameter
  BY <1>1, AbortInv DEF MissingParameter, Codes
<1>2. CASE StopDryRun
  BY <1>2, AbortInv DEF StopDryRun, Codes
<1>3. CASE ConfirmationMissing \/ PaymentFieldRefused \/ EgressBlocked
  BY <1>3, AbortInv DEF ConfirmationMissing, PaymentFieldRefused, EgressBlocked, Codes
<1>4. CASE SelectorFailed \/ AssertionFailed
  BY <1>4, AbortInv DEF SelectorFailed, AssertionFailed, Codes
<1>5. CASE AllDone
  BY <1>5, AbortInv DEF AllDone, Codes
<1>6. CASE UNCHANGED browserVars
  <2>1. UNCHANGED <<trace, mode, step, candidate, phase, outcome, page>>
    BY <1>6 DEF browserVars
  <2>2. /\ Compiled' = Compiled /\ Current' = Current
        /\ Held(step - 1)' = Held(step - 1) /\ Orders(step - 1)' = Orders(step - 1)
    BY <2>1, StepStays
  <2>3. BrowserTypeOK'
    BY <2>1, <2>2 DEF BrowserInv, BrowserTypeOK
  <2>4. StepGuarded' /\ Counted'
    BY <2>1, <2>2 DEF BrowserInv, StepGuarded, Counted, Permitted
  <2>5. SubmitsOnlyConfirmed' /\ PaymentFormsUntouched'
    BY <2>1, <2>2 DEF BrowserInv, SubmitsOnlyConfirmed, PaymentFormsUntouched
  <2> QED
    BY <2>1, <2>2, <2>3, <2>4, <2>5 DEF BrowserInv
<1> QED
  BY <1>1, <1>2, <1>3, <1>4, <1>5, <1>6, StartStepInv, ActInv, ClickInv, StepDoneInv DEF BrowserNext

LEMMA BrowserInvariant == BrowserSpec => []BrowserInv
BY BrowserInitInv, BrowserStepInv, PTL DEF BrowserSpec

(* run_workflow keeps its types and never leaves the compiled        *)
(* workflow, however many steps fall back to another selector.             *)
THEOREM BrowserTypeCorrect == BrowserSpec => []BrowserTypeOK
<1>1. BrowserInv => BrowserTypeOK
  BY DEF BrowserInv
<1> QED
  BY <1>1, BrowserInvariant, PTL

(* The safety guards of the runner let only a live run of a confirmed      *)
(* action click a submit, for traces of any length.                        *)
THEOREM SubmitsAlwaysConfirmed == BrowserSpec => []SubmitsOnlyConfirmed
<1>1. BrowserInv => SubmitsOnlyConfirmed
  BY DEF BrowserInv
<1> QED
  BY <1>1, BrowserInvariant, PTL

(* The guards of a form step never let a payment field be typed, nor any   *)
(* field of a form that has one, for traces of any length.                 *)
THEOREM PaymentFormsNeverTouched == BrowserSpec => []PaymentFormsUntouched
<1>1. BrowserInv => PaymentFormsUntouched
  BY DEF BrowserInv
<1> QED
  BY <1>1, BrowserInvariant, PTL

(* A run that reports success held every assertion it came to and, when    *)
(* live, clicked each submit of its trace at least once.                   *)
THEOREM SuccessAlwaysReal == BrowserSpec => []SuccessIsReal
<1>1. BrowserInv => SuccessIsReal
  <2> SUFFICES ASSUME BrowserInv, outcome = "ok" PROVE SuccessIsReal
    BY DEF SuccessIsReal
  <2>1. page.held = Cardinality({i \in 1..step - 1 : Compiled[i].expect})
    BY DEF BrowserInv, Counted, Held
  <2>2. ASSUME ~mode.dry
        PROVE  /\ step = Len(Compiled) + 1
               /\ page.submits >= Cardinality({i \in DOMAIN Compiled : Compiled[i].op = "confirm_order"})
    <3>1. Compiled \in Seq(CompiledSteps) /\ Len(Compiled) \in Nat /\ step \in 1..Len(Compiled) + 1 /\ step > Len(Compiled)
      BY <2>2, CurrentFacts DEF BrowserInv, BrowserTypeOK
    <3>2. step = Len(Compiled) + 1 /\ DOMAIN Compiled = 1..step - 1
      BY <3>1
    <3> QED
      BY <3>2 DEF BrowserInv, Counted, Orders
  <2> QED
    BY <2>1, <2>2 DEF SuccessIsReal
<1> QED
  BY <1>1, BrowserInvariant, PTL

--------------------------------------------------------------------------------
(***************************************************************************)
(* OrderRules, for any day length, any bill and any list of zones: what is *)
(* proved of a question is proved of every question in the bounds.         *)
(***************************************************************************)

(* Where the instant and the opening of a window lie on the circle of the   *)
(* week, in days and times of a day.                                        *)
LEMMA WeekDistance ==
  ASSUME NEW d \in 0..6, NEW o \in 0..6, NEW u \in Int, NEW v \in Int
  PROVE  /\ WeekTime(d, u) - WeekTime(o, v) = (d - o) * SlotsPerDay + (u - v)
         /\ \/ d = o /\ (d - o) * SlotsPerDay = 0
            \/ d - o = 1 /\ (d - o) * SlotsPerDay = SlotsPerDay
            \/ d - o = -6 /\ (d - o) * SlotsPerDay = -6 * SlotsPerDay
            \/ d - o \in 2..6 /\ 2 * SlotsPerDay <= (d - o) * SlotsPerDay /\ (d - o) * SlotsPerDay <= 6 * SlotsPerDay
            \/ d - o \in -5..-1 /\ -5 * SlotsPerDay <= (d - o) * SlotsPerDay /\ (d - o) * SlotsPerDay <= -SlotsPerDay
<1> DEFINE n == d - o
<1>1. SlotsPerDay \in Nat \ {0}
  BY RuleConstants
<1>2. n \in -6..6
  OBVIOUS
<1>3. d * SlotsPerDay - o * SlotsPerDay = n * SlotsPerDay
  BY <1>1
<1>4. d * SlotsPerDay \in Int /\ o * SlotsPerDay \in Int /\ n * SlotsPerDay \in Int
  BY <1>1, <1>2
<1>5. WeekTime(d, u) - WeekTime(o, v) = n * SlotsPerDay + (u - v)
  BY <1>3, <1>4 DEF WeekTime
<1>6. d = o <=> n = 0
  OBVIOUS
<1> HIDE DEF n
<1>7. CASE n \in 2..6
  <2>1. n = 2 \/ n = 3 \/ n = 4 \/ n = 5 \/ n = 6
    BY <1>7
  <2>2. 2 * SlotsPerDay <= n * SlotsPerDay /\ n * SlotsPerDay <= 6 * SlotsPerDay
    BY <1>1, <2>1
  <2> QED
    BY <1>5, <1>7, <2>2 DEF n
<1>8. CASE n \in -5..-1
  <2>1. n = -5 \/ n = -4 \/ n = -3 \/ n = -2 \/ n = -1
    BY <1>8
  <2>2. -5 * SlotsPerDay <= n * SlotsPerDay /\ n * SlotsPerDay <= -SlotsPerDay
    BY <1>1, <2>1
  <2> QED
    BY <1>5, <1>8, <2>2 DEF n
<1>9. CASE n \in {0, 1, -6}
  <2>1. /\ n = 0 => n * SlotsPerDay = 0
        /\ n = 1 => n * SlotsPerDay = SlotsPerDay
        /\ n = -6 => n * SlotsPerDay = -6 * SlotsPerDay
    BY <1>1
  <2> QED
    BY <1>5, <1>6, <1>9, <2>1 DEF n
<1> QED
  BY <1>2, <1>7, <1>8, <1>9

(* A window covers the instants of its day from its opening to its closing  *)
(* and, if it spans midnight, those of the next day before its closing.     *)
LEMMA WindowCovers ==
  ASSUME NEW w \in Window, NEW t \in Instant
  PROVE  Covers(w, t) <=>
           IF ~SpansMidnight(w)
           THEN w.day_of_week = t.day /\ w.opens <= t.time /\ t.time < w.closes
           ELSE \/ w.day_of_week = t.day /\ t.time >= w.opens
                \/ w.day_of_week = (t.day - 1) % 7 /\ t.time < w.closes
<1>1. /\ SlotsPerDay \in Nat \ {0}
      /\ w.day_of_week \in 0..6 /\ w.opens \in 0..SlotsPerDay - 1 /\ w.closes \in 0..SlotsPerDay - 1
      /\ t.day \in 0..6 /\ t.time \in 0..SlotsPerDay - 1
  BY RuleConstants DEF Window, Instant
<1> DEFINE apart == WeekTime(t.day, t.time) - WeekTime(w.day_of_week, w.opens)
           days == (t.day - w.day_of_week) * SlotsPerDay
           since == t.time - w.opens
<1>2. /\ apart = days + since
      /\ \/ t.day = w.day_of_week /\ days = 0
         \/ t.day - w.day_of_week = 1 /\ days = SlotsPerDay
         \/ t.day - w.day_of_week = -6 /\ days = -6 * SlotsPerDay
         \/ t.day - w.day_of_week \in 2..6 /\ 2 * SlotsPerDay <= days /\ days <= 6 * SlotsPerDay
         \/ t.day - w.day_of_week \in -5..-1 /\ -5 * SlotsPerDay <= days /\ days <= -SlotsPerDay
  <2>1. t.time \in Int /\ w.opens \in Int /\ t.day \in 0..6 /\ w.day_of_week \in 0..6
    BY <1>1
  <2> QED
    BY <2>1, WeekDistance
<1>3. days \in Int /\ since \in 1 - SlotsPerDay..SlotsPerDay - 1
  BY <1>1
<1> HIDE DEF days, apart
<1>4. Lasts(w) = IF SpansMidnight(w) THEN w.closes - w.opens + SlotsPerDay ELSE w.closes - w.opens
  <2>1. w.closes - w.opens >= 0 => (w.closes - w.opens) % SlotsPerDay = w.closes - w.opens
    BY <1>1, ModSmall
  <2>2. w.closes - w.opens < 0 => (w.closes - w.opens) % SlotsPerDay = w.closes - w.opens + SlotsPerDay
    BY <1>1, ModNegative
  <2> QED
    BY <1>1, <2>1, <2>2 DEF Lasts, SpansMidnight
<1>5. apart \in Int /\ -(7 * SlotsPerDay) <= apart /\ apart < 7 * SlotsPerDay
  <2>1. -(6 * SlotsPerDay) <= days /\ days <= 6 * SlotsPerDay
    BY <1>1, <1>2, <1>3
  <2> QED
    BY <1>1, <1>2, <1>3, <2>1
<1>6. apart % (7 * SlotsPerDay) = IF apart >= 0 THEN apart ELSE apart + 7 * SlotsPerDay
  <2>1. 7 * SlotsPerDay \in Nat \ {0} /\ apart \in Int
    BY <1>1, <1>5
  <2>2. apart >= 0 => apart % (7 * SlotsPerDay) = apart
    BY <1>5, <2>1, ModSmall
  <2>3. apart < 0 => apart % (7 * SlotsPerDay) = apart + 7 * SlotsPerDay
    BY <1>5, <2>1, ModNegative
  <2> QED
    BY <2>1, <2>2, <2>3
<1>7. Covers(w, t) <=> apart % (7 * SlotsPerDay) < Lasts(w)
  BY DEF Covers, apart
<1>8. (t.day - 1) % 7 = IF t.day = 0 THEN 6 ELSE t.day - 1
  BY <1>1
<1>9. w.day_of_week = (t.day - 1) % 7 <=> t.day - w.day_of_week \in {1, -6}
  BY <1>1, <1>8
<1>10. CASE t.day = w.day_of_week /\ days = 0
  BY <1>1, <1>2, <1>3, <1>4, <1>6, <1>7, <1>9, <1>10 DEF SpansMidnight
<1>11. CASE t.day - w.day_of_week = 1 /\ days = SlotsPerDay
  BY <1>1, <1>2, <1>3, <1>4, <1>6, <1>7, <1>9, <1>11 DEF SpansMidnight
<1>12. CASE t.day - w.day_of_week = -6 /\ days = -6 * SlotsPerDay
  BY <1>1, <1>2, <1>3, <1>4, <1>6, <1>7, <1>9, <1>12 DEF SpansMidnight
<1>13. CASE t.day - w.day_of_week \in 2..6 /\ 2 * SlotsPerDay <= days /\ days <= 6 * SlotsPerDay
  BY <1>1, <1>2, <1>3, <1>4, <1>6, <1>7, <1>9, <1>13 DEF SpansMidnight
<1>14. CASE t.day - w.day_of_week \in -5..-1 /\ -5 * SlotsPerDay <= days /\ days <= -SlotsPerDay
  BY <1>1, <1>2, <1>3, <1>4, <1>6, <1>7, <1>9, <1>14 DEF SpansMidnight
<1> QED
  BY <1>2, <1>10, <1>11, <1>12, <1>13, <1>14

--------------------------------------------------------------------------------
LEMMA ClampRange ==
  ASSUME NEW low \in Int, NEW high \in Int, low <= high, NEW n \in Int
  PROVE  Clamp(low, high, n) \in low..high
BY DEF Clamp

(* A percentage of one coin more is at most one coin more.                  *)
LEMMA PercentGrows ==
  ASSUME NEW s \in Nat, NEW c \in 0..100
  PROVE  /\ (s * c) \div 100 \in 0..s
         /\ (s * c) \div 100 <= ((s + 1) * c) \div 100
         /\ ((s + 1) * c) \div 100 <= (s * c) \div 100 + 1
<1>1. (s + 1) * c = s * c + c
  OBVIOUS
<1>2. s * c \in Nat /\ s * c <= 100 * s
  OBVIOUS
<1>3. PICK a \in Nat : a = s * c
  BY <1>2
<1>4. (a \div 100) \in 0..s /\ a \div 100 <= (a + c) \div 100 /\ (a + c) \div 100 <= a \div 100 + 1
  BY <1>2, <1>3
<1> QED
  BY <1>1, <1>3, <1>4

(* A discount is between nothing and the subtotal, and where the rule       *)
(* applies one coin more of food is at most one coin more of discount.      *)
LEMMA DiscountGrows ==
  ASSUME NEW s \in Nat, NEW rule \in Promotion \cup {NoPromotion}
  PROVE  /\ Discount(s, rule) \in 0..s
         /\ s >= rule.min_order => Discount(s + 1, rule) <= Discount(s, rule) + 1
<1>1. rule.value \in Int /\ rule.min_order \in Int /\ rule.type \in {"percent", "amount", "free_everything", "none"}
  <2>1. CASE rule \in Promotion
    BY <2>1, RuleConstants DEF Promotion
  <2>2. CASE rule = NoPromotion
    BY <2>2 DEF NoPromotion
  <2> QED
    BY <2>1, <2>2
<1> DEFINE c == Clamp(0, 100, rule.value)
<1>2. c \in 0..100
  <2>1. rule.value \in Int
    BY <1>1
  <2> QED
    BY <2>1 DEF Clamp
<1> HIDE DEF c
<1>3. /\ (s * c) \div 100 \in 0..s
      /\ ((s + 1) * c) \div 100 <= (s * c) \div 100 + 1
      /\ ((s + 1) * c) \div 100 \in 0..s + 1
  BY <1>2, PercentGrows
<1>4. CASE rule.type = "percent"
  <2>1. /\ s >= rule.min_order => Discount(s, rule) = Clamp(0, s, (s * c) \div 100)
        /\ s < rule.min_order => Discount(s, rule) = 0
        /\ s + 1 >= rule.min_order => Discount(s + 1, rule) = Clamp(0, s + 1, ((s + 1) * c) \div 100)
    BY <1>1, <1>4 DEF Discount, c
  <2>2. PICK p \in 0..s, q \in 0..s + 1 : p = (s * c) \div 100 /\ q = ((s + 1) * c) \div 100 /\ q <= p + 1
    BY <1>3
  <2>3. Clamp(0, s, p) = p /\ Clamp(0, s + 1, q) = q
    BY DEF Clamp
  <2> QED
    BY <1>1, <2>1, <2>2, <2>3
<1>5. CASE rule.type = "amount"
  BY <1>1, <1>5 DEF Discount, Clamp
<1>6. CASE rule.type \in {"free_everything", "none"}
  BY <1>1, <1>6 DEF Discount
<1> QED
  BY <1>1, <1>4, <1>5, <1>6

(* The figures of a bill, and of one with a coin more of food. *)
LEMMA TotalsAddUp ==
  ASSUME NEW s \in Nat, NEW fee \in Nat, NEW rule \in Promotion \cup {NoPromotion}
  PROVE  LET bill == ComputeTotals(s, fee, rule)
             more == ComputeTotals(s + 1, fee, rule)
         IN  /\ bill.total = bill.subtotal - bill.discount + bill.fee
             /\ bill.fee <= bill.total /\ bill.total <= bill.subtotal + bill.fee
             /\ s >= rule.min_order => bill.total <= more.total
<1>1. /\ Discount(s, rule) \in 0..s /\ Discount(s + 1, rule) \in 0..s + 1
      /\ s >= rule.min_order => Discount(s + 1, rule) <= Discount(s, rule) + 1
  BY DiscountGrows
<1>2. PICK d \in 0..s, e \in 0..s + 1 : d = Discount(s, rule) /\ e = Discount(s + 1, rule)
  BY <1>1
<1> QED
  BY <1>1, <1>2 DEF ComputeTotals

--------------------------------------------------------------------------------
(* The choice among the first n zones: nothing if none of them applies, or  *)
(* one that applies and that none of them is cheaper than.                  *)
Cheapest(zones, n, found) ==
  /\ found = <<>> => \A m \in 1..n : ~Applies(zones[m])
  /\ found # <<>> =>
       \E k \in 1..n : /\ found = <<zones[k]>> /\ Applies(zones[k])
                       /\ \A m \in 1..n : Applies(zones[m]) => ~Dearer(zones[k], zones[m])

LEMMA ZoneFigures == \A z \in Zone : z.fee \in Int /\ z.min_order \in Int
<1> SUFFICES ASSUME NEW z \in Zone PROVE z.fee \in Int /\ z.min_order \in Int
  OBVIOUS
<1>1. z.fee \in Fee /\ z.min_order \in {0, 9}
  BY DEF Zone
<1>2. Fee \subseteq Nat
  BY RuleConstants
<1>3. z.fee \in Int
  <2>1. \A e \in Fee : e \in Int
    BY <1>2
  <2> QED
    BY <1>1, <2>1, Zenon
<1>4. z.min_order \in Int
  BY <1>1
<1> QED
  BY <1>3, <1>4

LEMMA FirstCheapestIsCheapest ==
  ASSUME NEW zones \in Seq(Zone)
  PROVE  Cheapest(zones, Len(zones), FirstCheapest(zones))
<1> DEFINE b == Len(zones)
           V == {<<>>} \cup {<<z>> : z \in Zone}
           pick == [p \in (1..b) \X V |->
                      IF Applies(zones[p[1]]) /\ (p[2] = <<>> \/ Dearer(Head(p[2]), zones[p[1]]))
                      THEN <<zones[p[1]]>> ELSE p[2]]
           Best(f) == f = [n \in 0..b |->
                             IF n = 0 THEN <<>>
                             ELSE IF Applies(zones[n]) /\ (f[n - 1] = <<>> \/ Dearer(Head(f[n - 1]), zones[n]))
                                  THEN <<zones[n]>> ELSE f[n - 1]]
<1>1. b \in Nat /\ \A n \in 1..b : zones[n] \in Zone
  OBVIOUS
<1>2. <<>> \in V /\ \A n \in 1..b : <<zones[n]>> \in V
  BY <1>1
<1>3. pick \in StepsOn(b, V)
  BY <1>1, <1>2 DEF StepsOn
<1> HIDE DEF b
<1>4. PICK f : Follows(f, b, V, <<>>, pick)
  <2> HIDE DEF pick, V
  <2> QED
    BY <1>1, <1>2, <1>3, RecursionExists
<1>5. f \in [0..b -> V] /\ f[0] = <<>>
  BY <1>4 DEF Follows
<1>6. \A n \in 1..b : f[n - 1] \in V
  BY <1>1, <1>5
<1>7. \A n \in 1..b : f[n] = IF Applies(zones[n]) /\ (f[n - 1] = <<>> \/ Dearer(Head(f[n - 1]), zones[n]))
                              THEN <<zones[n]>> ELSE f[n - 1]
  BY <1>4, <1>6 DEF Follows
<1> HIDE DEF pick, V
<1>8. Best(f)
  <2>1. f = [n \in 0..b |-> f[n]] /\ 0..b = {0} \cup 1..b /\ 0 \notin 1..b
    BY <1>1, <1>5
  <2>2. \A n \in 0..b : f[n] = IF n = 0 THEN <<>>
                             ELSE IF Applies(zones[n]) /\ (f[n - 1] = <<>> \/ Dearer(Head(f[n - 1]), zones[n]))
                                  THEN <<zones[n]>> ELSE f[n - 1]
    BY <1>5, <1>7, <2>1
  <2> QED
    BY <2>1, <2>2
<1>9. \A g : Best(g) => g = f
  <2> SUFFICES ASSUME NEW g, Best(g) PROVE g = f
    OBVIOUS
  <2>1. f = [n \in 0..b |-> f[n]] /\ g = [n \in 0..b |-> g[n]] /\ g[0] = f[0]
    BY <1>1, <1>5
  <2>2. \A n \in 0..b - 1 : g[n] = f[n] => g[n + 1] = f[n + 1]
    <3> SUFFICES ASSUME NEW n \in 0..b - 1, g[n] = f[n] PROVE g[n + 1] = f[n + 1]
      OBVIOUS
    <3>1. n + 1 \in 1..b /\ n + 1 \in 0..b /\ n + 1 # 0 /\ (n + 1) - 1 = n
      BY <1>1
    <3> QED
      BY <1>7, <3>1
  <2> HIDE DEF Best
  <2> QED
    BY <1>1, <2>1, <2>2, RecursionUnique
<1>10. (CHOOSE g : Best(g)) = f
  <2> HIDE DEF Best
  <2> QED
    BY <1>8, <1>9
<1>11. FirstCheapest(zones) = f[b]
  BY <1>10, Zenon DEF FirstCheapest, Best, b
<1> HIDE DEF Best
<1> DEFINE S == {n \in 0..b : Cheapest(zones, n, f[n])}
<1>12. 0 \in S
  BY <1>1, <1>5 DEF Cheapest
<1>13. \A n \in 0..b - 1 : n \in S => n + 1 \in S
  <2> SUFFICES ASSUME NEW n \in 0..b - 1, Cheapest(zones, n, f[n]) PROVE Cheapest(zones, n + 1, f[n + 1])
    BY <1>1
  <2>1. n + 1 \in 1..b /\ (n + 1) - 1 = n /\ zones[n + 1] \in Zone /\ 1..n + 1 = (1..n) \cup {n + 1}
    BY <1>1
  <2>2. f[n + 1] = IF Applies(zones[n + 1]) /\ (f[n] = <<>> \/ Dearer(Head(f[n]), zones[n + 1]))
                   THEN <<zones[n + 1]>> ELSE f[n]
    BY <1>7, <2>1
  <2>3. \A m \in 1..n + 1 : zones[m].fee \in Int /\ zones[m].min_order \in Int
    <3> TAKE m \in 1..n + 1
    <3>1. m \in 1..b
      BY <1>1
    <3>2. zones[m] \in Zone
      BY <1>1, <3>1
    <3> QED
      BY <3>2, ZoneFigures
  <2>4. CASE f[n] = <<>>
    BY <2>1, <2>2, <2>3, <2>4 DEF Cheapest, Dearer
  <2>5. CASE f[n] # <<>>
    <3>1. PICK k \in 1..n : /\ f[n] = <<zones[k]>> /\ Applies(zones[k])
                            /\ \A m \in 1..n : Applies(zones[m]) => ~Dearer(zones[k], zones[m])
      BY <2>5 DEF Cheapest
    <3>2. Head(f[n]) = zones[k]
      BY <3>1
    <3>3. CASE Applies(zones[n + 1]) /\ Dearer(zones[k], zones[n + 1])
      <4>1. f[n + 1] = <<zones[n + 1]>>
        BY <2>2, <3>2, <3>3
      <4>2. \A m \in 1..n + 1 : Applies(zones[m]) => ~Dearer(zones[n + 1], zones[m])
        <5> TAKE m \in 1..n + 1
        <5>1. k \in 1..n + 1 /\ n + 1 \in 1..n + 1
          BY <2>1
        <5>2. /\ zones[m].fee \in Int /\ zones[m].min_order \in Int
              /\ zones[k].fee \in Int /\ zones[k].min_order \in Int
              /\ zones[n + 1].fee \in Int /\ zones[n + 1].min_order \in Int
          BY <2>3, <5>1
        <5>3. m = n + 1 \/ (m \in 1..n /\ (Applies(zones[m]) => ~Dearer(zones[k], zones[m])))
          BY <2>1, <3>1
        <5> QED
          BY <3>3, <5>2, <5>3 DEF Dearer
      <4> QED
        BY <2>1, <3>3, <4>1, <4>2 DEF Cheapest
    <3>4. CASE ~(Applies(zones[n + 1]) /\ Dearer(zones[k], zones[n + 1]))
      <4>1. f[n + 1] = f[n]
        BY <2>2, <2>5, <3>2, <3>4
      <4> QED
        BY <2>1, <2>5, <3>1, <3>4, <4>1 DEF Cheapest
    <3> QED
      BY <3>3, <3>4
  <2> QED
    BY <2>4, <2>5
<1>14. b \in S
  <2> HIDE DEF S
  <2>1. 0..b \subseteq S
    BY <1>1, <1>12, <1>13, UpToInductionOnSet
  <2> QED
    BY <1>1, <2>1
<1> QED
  BY <1>11, <1>14 DEF b

--------------------------------------------------------------------------------
LEMMA QuestionInvariant == RulesSpec => [](question \in Question)
<1>1. RulesInit => question \in Question
  BY DEF RulesInit
<1>2. question \in Question /\ [RulesNext]_rulesVars => (question \in Question)'
  BY DEF RulesNext, AnswerHours, AnswerTotals, AnswerZone, rulesVars
<1> QED
  BY <1>1, <1>2, PTL DEF RulesSpec

(* is_service_open, which looks at a weekday and the one before, answers   *)
(* what the windows say on the circle of the week, for any windows.        *)
THEOREM HoursAlwaysAgree == RulesSpec => []HoursAgree
<1>1. RulesInit => HoursAgree
  BY DEF RulesInit, HoursAgree, Answered
<1>2. ASSUME question \in Question, HoursAgree, [RulesNext]_rulesVars PROVE HoursAgree'
  <2>1. CASE AnswerHours
    <3>1. question' = question /\ question.about = "hours" /\ question.windows \in {{v, w} : v, w \in Window}
      BY <1>2, <2>1 DEF AnswerHours, Question
    <3>2. question.windows \subseteq Window
      BY <3>1
    <3>3. \A t \in Instant : Head(answer')[t] = {s \in RuledService : IsServiceOpen(question.windows, s, t)}
      BY <2>1 DEF AnswerHours
    <3>4. \A t \in Instant, s \in RuledService :
             IsServiceOpen(question.windows, s, t) <=> \E w \in question.windows : w.service = s /\ Covers(w, t)
      BY <3>2, WindowCovers DEF IsServiceOpen
    <3>5. \A t \in Instant :
             Head(answer')[t] = {s \in RuledService : \E w \in question.windows : w.service = s /\ Covers(w, t)}
      BY <3>3, <3>4
    <3> QED
      BY <3>1, <3>5 DEF HoursAgree
  <2>2. CASE AnswerTotals \/ AnswerZone
    BY <2>2 DEF AnswerTotals, AnswerZone, HoursAgree, Answered
  <2>3. CASE UNCHANGED rulesVars
    BY <1>2, <2>3 DEF HoursAgree, Answered, rulesVars
  <2> QED
    BY <1>2, <2>1, <2>2, <2>3 DEF RulesNext
<1> QED
  BY <1>1, <1>2, QuestionInvariant, PTL DEF RulesSpec

(* Every bill of compute_totals adds up with the fee in full, and a coin   *)
(* more of food never makes it cheaper where the promotion applies.        *)
THEOREM TotalsAlwaysSound == RulesSpec => []TotalsSound
<1>1. RulesInit => TotalsSound
  BY DEF RulesInit, TotalsSound, Answered
<1>2. ASSUME question \in Question, TotalsSound, [RulesNext]_rulesVars PROVE TotalsSound'
  <2>1. CASE AnswerTotals
    <3>1. /\ question' = question /\ question.about = "totals"
          /\ question.subtotal \in Nat /\ question.fee \in Nat /\ question.rule \in Promotion \cup {NoPromotion}
      <4>1. question' = question /\ question.about = "totals"
        BY <2>1 DEF AnswerTotals
      <4>2. question \in [about : {"totals"}, subtotal : Subtotal, fee : Fee, rule : Promotion \cup {NoPromotion}]
        BY <1>2, <4>1 DEF Question
      <4> QED
        BY <4>1, <4>2, RuleConstants
    <3>2. Head(answer') = ComputeTotals(question.subtotal, question.fee, question.rule)
      BY <2>1 DEF AnswerTotals
    <3> QED
      BY <3>1, <3>2, TotalsAddUp DEF TotalsSound
  <2>2. CASE AnswerHours \/ AnswerZone
    BY <2>2 DEF AnswerHours, AnswerZone, TotalsSound, Answered
  <2>3. CASE UNCHANGED rulesVars
    BY <1>2, <2>3 DEF TotalsSound, Answered, rulesVars
  <2> QED
    BY <1>2, <2>1, <2>2, <2>3 DEF RulesNext
<1> QED
  BY <1>1, <1>2, QuestionInvariant, PTL DEF RulesSpec

(* The zone find_zone answers applies, and none that applies is cheaper,   *)
(* whatever the number and the order of the zones.                         *)
THEOREM ZoneAlwaysCheapest == RulesSpec => []ZoneIsCheapest
<1>1. RulesInit => ZoneIsCheapest
  BY DEF RulesInit, ZoneIsCheapest, Answered
<1>2. ASSUME question \in Question, ZoneIsCheapest, [RulesNext]_rulesVars PROVE ZoneIsCheapest'
  <2>1. CASE AnswerZone
    <3>1. question' = question /\ question.about = "zone" /\ question.zones \in BoundedSeq(Zone, MaxZones)
      BY <1>2, <2>1 DEF AnswerZone, Question
    <3>2. question.zones \in Seq(Zone)
      <4>1. MaxZones \in Nat
        BY RuleConstants
      <4> QED
        BY <3>1, <4>1, BoundedSeqType
    <3> DEFINE apply == {z \in Range(question.zones) : Applies(z)}
               found == FirstCheapest(question.zones)
    <3>3. Cheapest(question.zones, Len(question.zones), found)
      BY <3>2, FirstCheapestIsCheapest
    <3>4. Range(question.zones) = {question.zones[i] : i \in 1..Len(question.zones)}
      BY <3>2 DEF Range
    <3>5. IF apply = {} THEN found = <<>>
          ELSE /\ found # <<>> /\ Head(found) \in apply
               /\ \A z \in apply : ~Dearer(Head(found), z)
      <4> HIDE DEF found
      <4>1. CASE found = <<>>
        BY <3>3, <3>4, <4>1 DEF Cheapest
      <4>2. CASE found # <<>>
        <5>1. PICK k \in 1..Len(question.zones) :
                 /\ found = <<question.zones[k]>> /\ Applies(question.zones[k])
                 /\ \A m \in 1..Len(question.zones) :
                      Applies(question.zones[m]) => ~Dearer(question.zones[k], question.zones[m])
          BY <3>3, <4>2 DEF Cheapest
        <5>2. Head(found) = question.zones[k] /\ question.zones[k] \in apply
          BY <3>4, <5>1
        <5> QED
          BY <3>4, <4>2, <5>1, <5>2
      <4> QED
        BY <4>1, <4>2
    <3>6. Head(answer') = found
      BY <2>1 DEF AnswerZone
    <3> QED
      BY <3>1, <3>5, <3>6 DEF ZoneIsCheapest
  <2>2. CASE AnswerHours \/ AnswerTotals
    BY <2>2 DEF AnswerHours, AnswerTotals, ZoneIsCheapest, Answered
  <2>3. CASE UNCHANGED rulesVars
    BY <1>2, <2>3 DEF ZoneIsCheapest, Answered, rulesVars
  <2> QED
    BY <1>2, <2>1, <2>2, <2>3 DEF RulesNext
<1> QED
  BY <1>1, <1>2, QuestionInvariant, PTL DEF RulesSpec
================================================================================
