---------------------------- MODULE ActionGate_proofs ---------------------------
(***************************************************************************)
(* Proofs about ActionGate for any number of turns, of staff requests and  *)
(* for any plans, prices, fees and limits.                                 *)
(*                                                                         *)
(* GateInv is the inductive invariant.  TurnOK says what a turn may hold   *)
(* at each of its steps; ProposedOK, RepliesOK and KeysOK tie that to the  *)
(* committed rows.  The last part of KeysOK is what the unique index gives *)
(* and what OneEffectPerAction needs to be inductive: a row that is        *)
(* flushed and not committed has a key that no other row has.              *)
(*                                                                         *)
(* On top of GateInv three invariants carry one property each: AuditInv    *)
(* (AuditMatchesEffects), SeqInv (AnsweredIsFinal) and MenuInv             *)
(* (OrderedWasOnOffer).                                                    *)
(***************************************************************************)
EXTENDS ActionGate, OrderDesk_proofs

(* A confirmation the customer may be asked for. *)
WaitsForConsent(a) ==
  proposal[a] \in ConfirmationRequest /\ proposal[a].plan.tool \in WriteTool

TurnOK(t) ==
  /\ pc[t] \in {"context", "lookup", "insert"} => ctx[t] \in PolicyContext
  /\ pend[t] \in Proposed \cup {None}
  /\ pc[t] \in {"idle", "history", "pending", "context", "done", "failed"} => out[t] = NoReply
  /\ pc[t] \in {"lookup", "insert"} =>
       out[t].stage = "executed" /\ out[t].action \in Proposed /\ ~out[t].inserts
  /\ pc[t] = "insert" => Inserts(ConfirmedPlan(t).tool)
  /\ pc[t] = "commit" /\ out[t].stage = "executed" => out[t].outcome # "none"
  /\ out[t].inserts =>
       /\ pc[t] = "commit"
       /\ out[t].stage = "executed"
       /\ out[t].action \in Proposed
       /\ Inserts(ConfirmedPlan(t).tool)
  /\ out[t].pending # None =>
       out[t].stage = "awaiting_confirmation" /\ out[t].action = out[t].pending
  /\ out[t].stage = "awaiting_confirmation" =>
       out[t].action \in Proposed \cup {t} /\ WaitsForConsent(out[t].action)

ProposedOK == \A a \in Proposed : pc[a] = "done" /\ WaitsForConsent(a)

RepliesOK == replies \subseteq Proposed \cup {None}

KeysOK ==
  /\ \A r \in Turn : row[r] # None => row[r].key \in Proposed /\ pc[r] = "done"
  /\ OneEffectPerAction
  /\ \A t \in Turn : out[t].inserts => RowsOf(out[t].action) = {}
  /\ \A t, u \in Turn :
       out[t].inserts /\ out[u].inserts /\ out[t].action = out[u].action => t = u

GateInv == GateTypeOK /\ (\A t \in Turn : TurnOK(t)) /\ ProposedOK /\ RepliesOK /\ KeysOK

--------------------------------------------------------------------------------
(***************************************************************************)
(* The desk inside the gate.                                               *)
(***************************************************************************)

LEMMA SayIsNotDesk ==
  ASSUME NEW t, NEW reply, Say(t, reply)
  PROVE  UNCHANGED deskVars
BY DEF Say

(* A request that fails rolls its status write back, if it has one. *)
LEMMA DiscardAtDesk ==
  ASSUME NEW t \in Turn, DeskTypeOK, Discard(t)
  PROVE  [DeskNext]_deskVars
<1>1. CASE txn[t] = None
  BY <1>1 DEF Discard, DeskTypeOK, deskVars
<1>2. CASE txn[t] # None
  BY <1>2 DEF Discard, DeskNext, AgentNext, RollbackWrite
<1> QED
  BY <1>1, <1>2

(* A commit inserts the row, writes the status, or touches neither. *)
LEMMA CommitAtDesk ==
  ASSUME NEW t \in Turn, DeskTypeOK, Commit(t)
  PROVE  [DeskNext]_deskVars
<1>1. CASE out[t].inserts
  <2>1. InsertRow(t, TableOf(ConfirmedPlan(t).tool))
    BY <1>1 DEF Commit, CommitRows
  <2>2. TableOf(ConfirmedPlan(t).tool) \in RowKind
    BY DEF TableOf, RowKind
  <2> QED
    BY <2>1, <2>2 DEF DeskNext, AgentNext
<1>2. CASE ~out[t].inserts
  BY <1>2 DEF Commit, CommitRows, DeskNext, AgentNext
<1> QED
  BY <1>1, <1>2

(* Whatever the gate does, the desk makes one of its own steps or none. *)
LEMMA GateStepIsDeskStep ==
  ASSUME DeskTypeOK, [Next]_vars
  PROVE  [DeskNext]_deskVars
<1>1. CASE TurnNext
  <2> PICK t \in Turn : ReadHistory(t) \/ Proceed(t) \/ Rollback(t)
    BY <1>1 DEF TurnNext
  <2>1. CASE Rollback(t) \/ FailCommit(t)
    BY <2>1, DiscardAtDesk DEF Rollback, FailCommit
  <2>2. CASE Commit(t)
    BY <2>2, CommitAtDesk
  <2>3. CASE CancelOrder(t)
    BY <2>3 DEF CancelOrder, DeskNext, AgentNext
  <2>4. CASE \/ Answer(t) \/ UnknownTool(t) \/ Reject(t) \/ Propose(t) \/ RunReadTool(t)
             \/ KeepAsking(t) \/ Expire(t) \/ Decline(t)
    BY <2>4, SayIsNotDesk
       DEF Answer, UnknownTool, Reject, Propose, RunReadTool, KeepAsking, Expire, Decline
  <2>5. CASE \/ ReadHistory(t) \/ ReadPending(t) \/ BuildContext(t) \/ Confirm(t)
             \/ Replay(t) \/ RefuseToExecute(t) \/ PrepareInsert(t) \/ Insert(t)
    BY <2>5 DEF ReadHistory, ReadPending, BuildContext, Confirm, Replay, RefuseToExecute,
                PrepareInsert, Insert
  <2> QED
    BY <2>1, <2>2, <2>3, <2>4, <2>5 DEF Proceed
<1>2. CASE WorldNext
  BY <1>2 DEF WorldNext, Tick, update_tool, update_product, ChangeTerms, Change
<1>3. CASE DeskStep
  BY <1>3 DEF DeskStep, DeskNext
<1>4. CASE UNCHANGED vars
  BY <1>4 DEF vars
<1> QED
  BY <1>1, <1>2, <1>3, <1>4 DEF Next

(* The conversation and the staff together are a behaviour of OrderDesk, so    *)
(* everything that is proved of the desk holds here.                           *)
THEOREM GateImplementsDesk == Spec => DeskSpec
<1>1. Init => DeskInit /\ DeskInv
  BY DeskInitInv DEF Init
<1>2. DeskInv /\ [Next]_vars => DeskInv' /\ [DeskNext]_deskVars
  BY GateStepIsDeskStep, DeskNextInv DEF DeskInv
<1> QED
  BY <1>1, <1>2, PTL DEF Spec, DeskSpec

(* What is invariant of the desk is invariant of the composition. *)
LEMMA DeskInvariantInGate == Spec => []DeskInv
BY GateImplementsDesk, DeskInvariant, PTL

--------------------------------------------------------------------------------
(***************************************************************************)
(* Steps of one turn that commit nothing.                                  *)
(***************************************************************************)

(* Nothing of the other turns changes, and nothing is committed. *)
OnlyTurn(t) ==
  /\ \A u \in Turn \ {t} : /\ pc'[u] = pc[u] /\ pend'[u] = pend[u] /\ ctx'[u] = ctx[u]
                           /\ out'[u] = out[u] /\ proposal'[u] = proposal[u]
  /\ UNCHANGED <<audit, row, replies>>

(* A step that writes no rows leaves what is derived from them as it was. *)
LEMMA QuietStep ==
  ASSUME UNCHANGED <<audit, row>>
  PROVE  Proposed' = Proposed /\ (\A a : RowsOf(a)' = RowsOf(a))
BY DEF Proposed, WithStatus, RowsOf

(* A step of one turn that commits nothing keeps GateInv if it keeps that turn in order. *)
LEMMA LocalStep ==
  ASSUME GateInv, NEW t \in Turn, OnlyTurn(t), GateTypeOK', TurnOK(t)',
         pc[t] # "done",
         out'[t].inserts =>
           \/ out[t].inserts /\ out'[t].action = out[t].action
           \/ /\ RowsOf(out'[t].action) = {}
              /\ \A u \in Turn \ {t} : out[u].inserts => out[u].action # out'[t].action
  PROVE  GateInv'
<1>1. Proposed' = Proposed /\ \A a : RowsOf(a)' = RowsOf(a)
  BY QuietStep DEF OnlyTurn
<1>0. t \notin Proposed
  BY DEF GateInv, ProposedOK
<1>2. ProposedOK'
  BY <1>0, <1>1 DEF ProposedOK, GateInv, OnlyTurn, WaitsForConsent, Proposed, WithStatus
<1>3. RepliesOK'
  BY <1>1 DEF RepliesOK, GateInv, OnlyTurn
<1>4. ASSUME NEW u \in Turn, u # t PROVE TurnOK(u)'
  <2>1. /\ pc'[u] = pc[u] /\ pend'[u] = pend[u] /\ ctx'[u] = ctx[u] /\ out'[u] = out[u]
        /\ proposal'[u] = proposal[u]
    BY <1>4 DEF OnlyTurn
  <2>2. \A a \in Proposed : proposal'[a] = proposal[a]
    BY <1>0 DEF OnlyTurn, Proposed, WithStatus
  <2>3. TurnOK(u)
    BY DEF GateInv
  <2> QED
    BY <1>1, <2>1, <2>2, <2>3 DEF TurnOK, WaitsForConsent, ConfirmedPlan
<1>5. KeysOK'
  <2>1. \A r \in Turn : row'[r] # None => row'[r].key \in Proposed' /\ pc'[r] = "done"
    BY <1>1 DEF OnlyTurn, GateInv, KeysOK
  <2>2. OneEffectPerAction'
    BY DEF OnlyTurn, GateInv, KeysOK, OneEffectPerAction
  <2>3. ASSUME NEW u \in Turn, out'[u].inserts PROVE RowsOf(out'[u].action) = {}
    BY <2>3 DEF OnlyTurn, GateInv, KeysOK
  <2>4. ASSUME NEW u \in Turn, NEW v \in Turn, out'[u].inserts, out'[v].inserts,
               out'[u].action = out'[v].action
        PROVE  u = v
    BY <2>4 DEF OnlyTurn, GateInv, KeysOK
  <2> QED
    BY <1>1, <2>1, <2>2, <2>3, <2>4 DEF KeysOK
<1> QED
  BY <1>2, <1>3, <1>4, <1>5 DEF GateInv

(* A turn that only reads keeps the invariant. *)
LEMMA ReadHistoryInv ==
  ASSUME GateInv, NEW t \in Turn, ReadHistory(t), DeskTypeOK'
  PROVE  GateInv'
<1> USE DEF ReadHistory, Transition, worldVars, chatVars
<1>1. GateTypeOK'
  <2>1. world.enabled \cup world.available \subseteq Tool \cup Product
    BY DEF GateInv, GateTypeOK, World
  <2>2. Proposed \subseteq Turn /\ Answered \subseteq Turn
    BY DEF Proposed, WithStatus, Answered
  <2> QED
    BY <2>1, <2>2 DEF GateInv, GateTypeOK, PC, InFlight
<1>2. OnlyTurn(t)
  BY DEF OnlyTurn, GateInv, GateTypeOK
<1>3. pc'[t] = "history"
  BY DEF GateInv, GateTypeOK
<1>4. t \notin Proposed
  BY DEF GateInv, ProposedOK
<1>5. out'[t] = NoReply /\ pend'[t] = pend[t]
  BY DEF GateInv, TurnOK
<1>6. Proposed' = Proposed
  BY QuietStep
<1>7. TurnOK(t)'
  BY <1>3, <1>5, <1>6 DEF GateInv, TurnOK, NoReply
<1> QED
  BY <1>1, <1>2, <1>4, <1>5, <1>7, LocalStep DEF NoReply

(* Reading the pending confirmation keeps GateInv. *)
LEMMA ReadPendingInv ==
  ASSUME GateInv, NEW t \in Turn, ReadPending(t), DeskTypeOK'
  PROVE  GateInv'
<1> USE DEF ReadPending, Transition, worldVars, chatVars, ghostVars
<1>0. PICK p \in IF replies = {} THEN {None} ELSE replies : pend' = [pend EXCEPT ![t] = p]
  OBVIOUS
<1>1. p \in Proposed \cup {None} /\ p \in Turn \cup {None}
  BY DEF GateInv, RepliesOK, GateTypeOK
<1>2. GateTypeOK'
  BY <1>0, <1>1 DEF GateInv, GateTypeOK, PC, InFlight
<1>3. OnlyTurn(t)
  BY <1>0 DEF OnlyTurn, GateInv, GateTypeOK
<1>4. pc'[t] = "pending" /\ t \notin Proposed
  BY DEF GateInv, GateTypeOK, ProposedOK
<1>5. out'[t] = NoReply /\ pend'[t] = p
  BY <1>0 DEF GateInv, TurnOK, GateTypeOK
<1>6. Proposed' = Proposed
  BY QuietStep
<1>7. TurnOK(t)'
  BY <1>1, <1>4, <1>5, <1>6 DEF GateInv, TurnOK, NoReply
<1> QED
  BY <1>2, <1>3, <1>4, <1>5, <1>7, LocalStep DEF NoReply

(* Resolving the policy context keeps GateInv. *)
LEMMA BuildContextInv ==
  ASSUME GateInv, NEW t \in Turn, BuildContext(t), DeskTypeOK'
  PROVE  GateInv'
<1> USE DEF BuildContext, Transition, worldVars, chatVars, ghostVars
<1> DEFINE c == [enabled |-> world.enabled, available |-> world.available,
                 price |-> world.price, fee |-> world.fee, open |-> world.open,
                 actions_taken |-> 0]
<1>1. c \in PolicyContext
  BY DEF GateInv, GateTypeOK, World, PolicyContext
<1> HIDE DEF c
<1>2. ctx' = [ctx EXCEPT ![t] = c]
  BY DEF c
<1>3. GateTypeOK'
  BY <1>1, <1>2 DEF GateInv, GateTypeOK, PC, InFlight
<1>4. OnlyTurn(t)
  BY <1>2 DEF OnlyTurn, GateInv, GateTypeOK
<1>5. pc'[t] = "context" /\ t \notin Proposed
  BY DEF GateInv, GateTypeOK, ProposedOK
<1>6. out'[t] = NoReply /\ pend'[t] = pend[t] /\ ctx'[t] = c
  BY <1>2 DEF GateInv, TurnOK, GateTypeOK
<1>7. Proposed' = Proposed
  BY QuietStep
<1>8. TurnOK(t)'
  BY <1>1, <1>5, <1>6, <1>7 DEF GateInv, TurnOK, NoReply
<1> QED
  BY <1>3, <1>4, <1>5, <1>6, <1>8, LocalStep DEF NoReply

(* A turn that answers without running a tool that writes. *)
LEMMA SayInv ==
  ASSUME GateInv, NEW t \in Turn, NEW reply \in Outgoing, pc[t] = "context", Say(t, reply),
         DeskTypeOK', ~reply.inserts,
         reply.stage = "executed" => reply.outcome # "none",
         reply.pending # None =>
           reply.stage = "awaiting_confirmation" /\ reply.action = reply.pending,
         reply.stage = "awaiting_confirmation" =>
           \/ reply.action \in Proposed /\ UNCHANGED proposal
           \/ reply.action = t /\ WaitsForConsent(t)',
         \/ UNCHANGED proposal
         \/ \E c \in ConfirmationRequest : proposal' = [proposal EXCEPT ![t] = c]
  PROVE  GateInv'
<1> USE DEF Say, Transition, worldVars, chatVars, ghostVars
<1>1. GateTypeOK'
  BY DEF GateInv, GateTypeOK, PC, InFlight
<1>2. OnlyTurn(t)
  BY DEF OnlyTurn, GateInv, GateTypeOK
<1>3. pc'[t] = "commit" /\ t \notin Proposed
  BY DEF GateInv, GateTypeOK, ProposedOK
<1>4. out'[t] = reply /\ pend'[t] = pend[t]
  BY DEF GateInv, GateTypeOK
<1>5. Proposed' = Proposed
  BY QuietStep
<1>6. reply.stage = "awaiting_confirmation" =>
        reply.action \in Proposed \cup {t} /\ WaitsForConsent(reply.action)'
  BY DEF GateInv, ProposedOK, WaitsForConsent
<1>7. TurnOK(t)'
  BY <1>3, <1>4, <1>5, <1>6 DEF GateInv, TurnOK, WaitsForConsent
<1> QED
  BY <1>1, <1>2, <1>3, <1>4, <1>7, LocalStep

(* A reply without a proposal keeps GateInv. *)
LEMMA AnswerInv ==
  ASSUME GateInv, NEW t \in Turn, DeskTypeOK',
         Answer(t) \/ UnknownTool(t) \/ Reject(t) \/ RunReadTool(t)
  PROVE  GateInv'
<1>1. pc[t] = "context" /\ UNCHANGED proposal
  BY DEF Answer, UnknownTool, Reject, RunReadTool, Free
<1>2. CASE Answer(t)
  <2>1. PICK e \in BOOLEAN : Say(t, [NoReply EXCEPT !.escalates = e])
    BY <1>2 DEF Answer
  <2> DEFINE reply == [NoReply EXCEPT !.escalates = e]
  <2>2. reply \in Outgoing /\ ~reply.inserts /\ reply.pending = None /\ reply.stage = "none"
    BY DEF NoReply, Outgoing, Stage, Outcome
  <2> QED
    BY <1>1, <2>1, <2>2, SayInv
<1>3. CASE UnknownTool(t)
  <2> DEFINE reply == [NoReply EXCEPT !.stage = "proposed"]
  <2>1. reply \in Outgoing /\ ~reply.inserts /\ reply.pending = None /\ reply.stage = "proposed"
    BY DEF NoReply, Outgoing, Stage, Outcome
  <2>2. Say(t, reply)
    BY <1>3 DEF UnknownTool
  <2> QED
    BY <1>1, <2>1, <2>2, SayInv
<1>4. CASE Reject(t)
  <2> DEFINE reply == [NoReply EXCEPT !.stage = "rejected", !.action = t]
  <2>1. reply \in Outgoing /\ ~reply.inserts /\ reply.pending = None /\ reply.stage = "rejected"
    BY DEF NoReply, Outgoing, Stage, Outcome
  <2>2. Say(t, reply)
    BY <1>4 DEF Reject
  <2> QED
    BY <1>1, <2>1, <2>2, SayInv
<1>5. CASE RunReadTool(t)
  <2> DEFINE reply == [NoReply EXCEPT !.stage = "executed", !.action = t,
                                      !.outcome = "succeeded"]
  <2>1. /\ reply \in Outgoing /\ ~reply.inserts /\ reply.pending = None
        /\ reply.stage = "executed" /\ reply.outcome = "succeeded"
    BY DEF NoReply, Outgoing, Stage, Outcome
  <2>2. Say(t, reply)
    BY <1>5 DEF RunReadTool
  <2> QED
    BY <1>1, <2>1, <2>2, SayInv
<1> QED
  BY <1>2, <1>3, <1>4, <1>5

(* Asking again, declining and expiring keep GateInv. *)
LEMMA ResolveInv ==
  ASSUME GateInv, NEW t \in Turn, DeskTypeOK',
         KeepAsking(t) \/ Expire(t) \/ Decline(t)
  PROVE  GateInv'
<1>1. pc[t] = "context" /\ UNCHANGED proposal /\ pend[t] # None
  BY DEF KeepAsking, Expire, Decline, Resolving
<1>2. pend[t] \in Proposed /\ pend[t] \in Turn
  BY <1>1 DEF GateInv, TurnOK, Proposed, WithStatus
<1>3. CASE KeepAsking(t)
  <2> DEFINE reply == [NoReply EXCEPT !.stage = "awaiting_confirmation", !.action = pend[t],
                                      !.pending = pend[t]]
  <2>1. /\ reply \in Outgoing /\ ~reply.inserts /\ reply.stage = "awaiting_confirmation"
        /\ reply.action = pend[t] /\ reply.pending = pend[t]
    BY <1>2 DEF NoReply, Outgoing, Stage, Outcome
  <2>2. Say(t, reply)
    BY <1>3 DEF KeepAsking
  <2> QED
    BY <1>1, <1>2, <2>1, <2>2, SayInv
<1>4. ASSUME NEW stage \in {"expired", "declined"},
             Say(t, [NoReply EXCEPT !.stage = stage, !.action = pend[t]])
      PROVE  GateInv'
  <2> DEFINE reply == [NoReply EXCEPT !.stage = stage, !.action = pend[t]]
  <2>1. reply \in Outgoing /\ ~reply.inserts /\ reply.pending = None /\ reply.stage = stage
    BY <1>2 DEF NoReply, Outgoing, Stage, Outcome
  <2>2. Say(t, reply)
    BY <1>4
  <2> QED
    BY <1>1, <2>1, <2>2, SayInv
<1> QED
  BY <1>3, <1>4 DEF Expire, Decline

(* A proposal keeps GateInv: its action is new. *)
LEMMA ProposeInv ==
  ASSUME GateInv, NEW t \in Turn, DeskTypeOK', Propose(t)
  PROVE  GateInv'
<1>1. pc[t] = "context" /\ ctx[t] \in PolicyContext
  BY DEF Propose, Free, GateInv, TurnOK
<1>2. PICK p \in BrainPlans :
        /\ p.tool \in WriteTool
        /\ proposal' = [proposal EXCEPT ![t] =
             [plan |-> p, total |-> SummaryTotal(p, ctx[t]), expires |-> now + TTL,
              turn_seq |-> seen[t] + 1]]
  BY DEF Propose
<1> DEFINE c == [plan |-> p, total |-> SummaryTotal(p, ctx[t]), expires |-> now + TTL,
                 turn_seq |-> seen[t] + 1]
<1>3. p \in Plan
  BY GateAssumption
<1>4. SummaryTotal(p, ctx[t]) \in Nat
  <2>1. p.product \in Product /\ ctx[t].price \in [Product -> Price]
    BY <1>1, <1>3 DEF Plan, PolicyContext
  <2> QED
    BY <2>1, GateAssumption DEF SummaryTotal
<1>5. c \in ConfirmationRequest /\ c.plan.tool \in WriteTool
  BY <1>2, <1>3, <1>4, GateAssumption DEF ConfirmationRequest, GateInv, GateTypeOK
<1> HIDE DEF c
<1>6. proposal' = [proposal EXCEPT ![t] = c]
  BY <1>2 DEF c
<1>7. WaitsForConsent(t)'
  BY <1>5, <1>6 DEF WaitsForConsent, GateInv, GateTypeOK
<1> DEFINE reply == [NoReply EXCEPT !.stage = "awaiting_confirmation", !.action = t,
                                    !.pending = t]
<1>8. /\ reply \in Outgoing /\ ~reply.inserts /\ reply.stage = "awaiting_confirmation"
      /\ reply.action = t /\ reply.pending = t
  BY DEF NoReply, Outgoing, Stage, Outcome
<1> HIDE DEF reply
<1>9. Say(t, reply)
  BY DEF Propose, reply
<1> QED
  BY <1>1, <1>5, <1>6, <1>7, <1>8, <1>9, SayInv

--------------------------------------------------------------------------------
(***************************************************************************)
(* Execution.                                                              *)
(***************************************************************************)

LEMMA ConfirmInv ==
  ASSUME GateInv, NEW t \in Turn, DeskTypeOK', Confirm(t)
  PROVE  GateInv'
<1> USE DEF Confirm, Resolving, Transition, worldVars, chatVars, ghostVars
<1> DEFINE o == [NoReply EXCEPT !.stage = "executed", !.action = pend[t]]
<1>1. /\ pend[t] \in Proposed /\ pend[t] \in Turn
      /\ ctx[t] \in PolicyContext
  BY DEF GateInv, TurnOK, Proposed, WithStatus
<1>2. /\ o \in Outgoing /\ ~o.inserts /\ o.stage = "executed" /\ o.action = pend[t]
      /\ o.pending = None
  BY <1>1 DEF NoReply, Outgoing, Stage, Outcome
<1> HIDE DEF o
<1>3. out' = [out EXCEPT ![t] = o]
  BY DEF o
<1>4. GateTypeOK'
  BY <1>2, <1>3 DEF GateInv, GateTypeOK, PC, InFlight
<1>5. OnlyTurn(t)
  BY <1>3 DEF OnlyTurn, GateInv, GateTypeOK
<1>6. pc'[t] = "lookup" /\ t \notin Proposed
  BY DEF GateInv, GateTypeOK, ProposedOK
<1>7. out'[t] = o /\ pend'[t] = pend[t] /\ ctx'[t] = ctx[t]
  BY <1>3 DEF GateInv, GateTypeOK
<1>8. Proposed' = Proposed
  BY QuietStep
<1>9. TurnOK(t)'
  <2> HIDE DEF Confirm, Resolving, Transition, worldVars, chatVars, ghostVars
  <2>1. out'[t].stage = "executed" /\ ~out'[t].inserts /\ out'[t].pending = None
    BY <1>2, <1>7
  <2>2. out'[t].action \in Proposed'
    <3>1. out'[t].action = pend[t]
      BY <1>2, <1>7
    <3> QED
      BY <1>1, <1>8, <3>1
  <2>3. pend'[t] \in Proposed' \cup {None} /\ ctx'[t] \in PolicyContext
    BY <1>1, <1>7, <1>8
  <2> QED
    BY <1>6, <2>1, <2>2, <2>3 DEF TurnOK
<1> QED
  BY <1>2, <1>4, <1>5, <1>6, <1>7, <1>9, LocalStep

(* An outcome without a row keeps GateInv. *)
LEMMA FinishInv ==
  ASSUME GateInv, NEW t \in Turn, NEW outcome \in {"succeeded", "failed"}, DeskTypeOK',
         Finish(t, outcome)
  PROVE  GateInv'
<1> USE DEF Finish, Transition, worldVars, chatVars, ghostVars
<1>1. out'[t] = [out[t] EXCEPT !.outcome = outcome] /\ out[t] \in Outgoing
  BY DEF GateInv, GateTypeOK
<1>2. out'[t] \in Outgoing /\ out'[t].outcome = outcome /\ out'[t].stage = "executed"
      /\ ~out'[t].inserts /\ out'[t].pending = out[t].pending /\ out'[t].action = out[t].action
  BY <1>1 DEF Outgoing, Outcome, GateInv, TurnOK
<1>3. GateTypeOK'
  BY <1>2 DEF GateInv, GateTypeOK, PC, InFlight
<1>4. OnlyTurn(t)
  BY DEF OnlyTurn, GateInv, GateTypeOK
<1>5. pc'[t] = "commit" /\ t \notin Proposed
  BY DEF GateInv, GateTypeOK, ProposedOK
<1>6. Proposed' = Proposed /\ pend'[t] = pend[t]
  BY QuietStep
<1>7. TurnOK(t)'
  BY <1>2, <1>5, <1>6 DEF GateInv, TurnOK
<1> QED
  BY <1>2, <1>3, <1>4, <1>5, <1>7, LocalStep

(* A replay, a refusal and a cancellation keep GateInv. *)
LEMMA ExecuteInv ==
  ASSUME GateInv, NEW t \in Turn, DeskTypeOK',
         Replay(t) \/ RefuseToExecute(t) \/ CancelOrder(t)
  PROVE  GateInv'
<1>1. PICK outcome \in {"succeeded", "failed"} : Finish(t, outcome)
  BY DEF Replay, RefuseToExecute, CancelOrder
<1> QED
  BY <1>1, FinishInv

(* Pricing the order keeps GateInv. *)
LEMMA PrepareInsertInv ==
  ASSUME GateInv, NEW t \in Turn, DeskTypeOK', PrepareInsert(t)
  PROVE  GateInv'
<1> USE DEF PrepareInsert, Transition, worldVars, chatVars, ghostVars
<1> DEFINE total == OrderTotal(ConfirmedPlan(t), ctx[t])
<1>1. /\ out[t] \in Outgoing /\ out[t].action \in Proposed /\ out[t].stage = "executed"
      /\ ~out[t].inserts /\ ctx[t] \in PolicyContext /\ Inserts(ConfirmedPlan(t).tool)
  BY DEF GateInv, GateTypeOK, TurnOK
<1>2. total \in Nat
  <2>1. ConfirmedPlan(t) \in Plan
    BY <1>1 DEF GateInv, ProposedOK, WaitsForConsent, ConfirmationRequest, ConfirmedPlan
  <2>2. /\ ConfirmedPlan(t).product \in Product /\ ctx[t].price \in [Product -> Price]
        /\ ctx[t].fee \in Fee
    BY <1>1, <2>1 DEF Plan, PolicyContext
  <2> QED
    BY <2>2, GateAssumption DEF OrderTotal
<1> HIDE DEF total
<1>3. out' = [out EXCEPT ![t].total = total]
  BY DEF total
<1>4. /\ out'[t] \in Outgoing /\ out'[t].action = out[t].action /\ out'[t].stage = "executed"
      /\ ~out'[t].inserts /\ out'[t].pending = out[t].pending
  <2>1. out'[t] = [out[t] EXCEPT !.total = total]
    BY <1>3 DEF GateInv, GateTypeOK
  <2> QED
    BY <1>1, <1>2, <2>1 DEF Outgoing
<1>5. GateTypeOK'
  BY <1>3, <1>4 DEF GateInv, GateTypeOK, PC, InFlight
<1>6. OnlyTurn(t)
  BY <1>3 DEF OnlyTurn, GateInv, GateTypeOK
<1>7. pc'[t] = "insert" /\ t \notin Proposed /\ ctx'[t] = ctx[t] /\ pend'[t] = pend[t]
  BY DEF GateInv, GateTypeOK, ProposedOK
<1>8. Proposed' = Proposed /\ ConfirmedPlan(t)' = ConfirmedPlan(t)
  BY <1>4, QuietStep DEF ConfirmedPlan
<1>9. TurnOK(t)'
  BY <1>1, <1>4, <1>7, <1>8 DEF GateInv, TurnOK
<1> QED
  BY <1>4, <1>5, <1>6, <1>7, <1>9, LocalStep

(* The flush keeps GateInv: it takes a key no other row has. *)
LEMMA InsertInv ==
  ASSUME GateInv, NEW t \in Turn, DeskTypeOK', Insert(t)
  PROVE  GateInv'
<1> USE DEF Insert, Transition, worldVars, chatVars, ghostVars
<1>1. /\ out[t] \in Outgoing /\ out[t].action \in Proposed /\ out[t].stage = "executed"
      /\ ~out[t].inserts /\ Inserts(ConfirmedPlan(t).tool) /\ pc[t] = "insert"
      /\ out[t].pending = None
  BY DEF GateInv, GateTypeOK, TurnOK
<1>2. /\ out'[t] \in Outgoing /\ out'[t].action = out[t].action /\ out'[t].stage = "executed"
      /\ out'[t].pending = None /\ out'[t].outcome # "none"
      /\ out'[t].inserts => RowsOf(out[t].action) = {}
      /\ out'[t].inserts => pc'[t] = "commit"
      /\ pc'[t] \in {"commit", "doomed"}
  <2>1. CASE RowsOf(out[t].action) = {}
    <3>1. /\ out'[t] = [out[t] EXCEPT !.inserts = TRUE, !.outcome = "succeeded"]
          /\ pc'[t] = "commit"
      BY <2>1 DEF GateInv, GateTypeOK
    <3> QED
      BY <1>1, <2>1, <3>1 DEF Outgoing, Outcome
  <2>2. CASE RowsOf(out[t].action) # {}
    <3>1. out'[t] = [out[t] EXCEPT !.outcome = "failed"] /\ pc'[t] = "doomed"
      BY <2>2 DEF GateInv, GateTypeOK
    <3> QED
      BY <1>1, <3>1 DEF Outgoing, Outcome
  <2> QED
    BY <2>1, <2>2
<1>3. GateTypeOK'
  BY <1>2 DEF GateInv, GateTypeOK, PC, InFlight
<1>4. OnlyTurn(t)
  BY DEF OnlyTurn, GateInv, GateTypeOK
<1>5. t \notin Proposed /\ pend'[t] = pend[t]
  BY <1>1 DEF GateInv, ProposedOK
<1>6. Proposed' = Proposed /\ ConfirmedPlan(t)' = ConfirmedPlan(t)
  BY <1>2, QuietStep DEF ConfirmedPlan
<1>7. TurnOK(t)'
  BY <1>1, <1>2, <1>5, <1>6 DEF GateInv, TurnOK
<1>8. \A u \in Turn \ {t} : out[u].inserts => out[u].action # out[t].action
  BY DEF Holds, GateInv, TurnOK
<1> QED
  BY <1>2, <1>3, <1>4, <1>5, <1>7, <1>8, LocalStep

(* A request that fails keeps GateInv. *)
LEMMA DiscardInv ==
  ASSUME GateInv, NEW t \in Turn, DeskTypeOK', pc[t] # "done", Discard(t)
  PROVE  GateInv'
<1> USE DEF Discard, Forget, worldVars, chatVars
<1>1. NoReply \in Outgoing /\ NoStart \in [proposed : SUBSET Turn, answered : SUBSET Turn]
  BY DEF NoReply, Outgoing, Stage, Outcome, NoStart
<1>2. GateTypeOK'
  BY <1>1 DEF GateInv, GateTypeOK, PC
<1>3. OnlyTurn(t)
  BY DEF OnlyTurn, GateInv, GateTypeOK
<1>4. pc'[t] = "failed" /\ out'[t] = NoReply /\ pend'[t] = None /\ t \notin Proposed
  BY DEF GateInv, GateTypeOK, ProposedOK
<1>5. TurnOK(t)'
  BY <1>4 DEF TurnOK, NoReply
<1> QED
  BY <1>2, <1>3, <1>4, <1>5, LocalStep DEF NoReply

--------------------------------------------------------------------------------
(***************************************************************************)
(* The commit.                                                             *)
(***************************************************************************)

(* The commit of a turn that has put a question proposes that question's action. *)
LEMMA CommitProposes ==
  ASSUME GateInv, NEW t \in Turn, Commit(t)
  PROVE  /\ out[t].stage = "awaiting_confirmation" =>
              out[t].action \in Turn /\ Proposed' = Proposed \cup {out[t].action}
         /\ out[t].stage # "awaiting_confirmation" => Proposed' = Proposed
<1>1. out[t] \in Outgoing /\ audit' = audit \cup AuditRows(t)
  BY DEF Commit, GateInv, GateTypeOK
<1>2. CASE out[t].stage = "awaiting_confirmation"
  <2>1. AuditRows(t) = {[action |-> out[t].action, by |-> t, status |-> "awaiting_confirmation"]}
    BY <1>2 DEF AuditRows
  <2>2. out[t].action \in Turn
    BY <1>2 DEF GateInv, TurnOK, Proposed, WithStatus
  <2>3. ASSUME NEW a
        PROVE  a \in Proposed' <=> a \in Proposed \cup {out[t].action}
    <3>1. a \in Proposed' <=>
            a \in Turn /\ \E e \in audit' : e.action = a /\ e.status = "awaiting_confirmation"
      BY DEF Proposed, WithStatus
    <3> DEFINE new == [action |-> out[t].action, by |-> t, status |-> "awaiting_confirmation"]
    <3>2. /\ audit' = audit \cup {new}
          /\ new.action = out[t].action /\ new.status = "awaiting_confirmation"
      BY <1>1, <2>1
    <3> HIDE DEF new
    <3>3. (\E e \in audit' : e.action = a /\ e.status = "awaiting_confirmation")
            <=> \/ \E e \in audit : e.action = a /\ e.status = "awaiting_confirmation"
                \/ a = out[t].action
      BY <3>2
    <3>4. a \in Proposed <=>
            a \in Turn /\ \E e \in audit : e.action = a /\ e.status = "awaiting_confirmation"
      BY DEF Proposed, WithStatus
    <3> QED
      BY <2>2, <3>1, <3>3, <3>4
  <2> QED
    BY <1>2, <2>2, <2>3
<1>3. CASE out[t].stage # "awaiting_confirmation"
  <2>1. \A e \in AuditRows(t) : e.status # "awaiting_confirmation"
    BY <1>1, <1>3 DEF AuditRows, Outgoing, Outcome
  <2> QED
    BY <1>1, <1>3, <2>1 DEF Proposed, WithStatus
<1> QED
  BY <1>2, <1>3

(* ... and inserts a row only for an action that has none. *)
LEMMA CommitTakesEffect ==
  ASSUME GateInv, NEW t \in Turn, Commit(t)
  PROVE  /\ out[t].inserts =>
              /\ out[t].action \in Proposed
              /\ RowsOf(out[t].action) = {}
              /\ row[t] = None
              /\ row' = [row EXCEPT ![t] = [key |-> out[t].action, total |-> out[t].total]]
              /\ \A a : RowsOf(a)' = IF a = out[t].action THEN {t} ELSE RowsOf(a)
         /\ ~out[t].inserts => row' = row /\ \A a : RowsOf(a)' = RowsOf(a)
<1>1. CASE out[t].inserts
  <2>1. /\ out[t].action \in Proposed /\ out[t].action \in Turn
        /\ RowsOf(out[t].action) = {} /\ row[t] = None
    BY <1>1 DEF Commit, Transition, GateInv, TurnOK, KeysOK, Proposed, WithStatus
  <2> DEFINE new == [key |-> out[t].action, total |-> out[t].total]
  <2>2. row' = [row EXCEPT ![t] = new]
    BY <1>1 DEF Commit, CommitRows
  <2>3. new \in OwnRow /\ new.key = out[t].action
    BY <2>1 DEF OwnRow, GateInv, GateTypeOK, Outgoing
  <2>4. new # None
    BY <2>3, GateAssumption
  <2> HIDE DEF new
  <2>5. /\ row'[t] = new
        /\ \A r \in Turn \ {t} : row'[r] = row[r]
    BY <2>2 DEF GateInv, GateTypeOK
  <2>6. ASSUME NEW a, a = out[t].action PROVE RowsOf(a)' = {t}
    <3>1. \A r \in Turn \ {t} : ~(row'[r] # None /\ row'[r].key = a)
      BY <2>1, <2>5, <2>6 DEF RowsOf
    <3> QED
      BY <2>3, <2>4, <2>5, <2>6, <3>1 DEF RowsOf
  <2>7. ASSUME NEW a, a # out[t].action PROVE RowsOf(a)' = RowsOf(a)
    BY <2>1, <2>3, <2>5, <2>7 DEF RowsOf
  <2> QED
    BY <1>1, <2>1, <2>2, <2>6, <2>7 DEF new
<1>2. CASE ~out[t].inserts
  BY <1>2 DEF Commit, CommitRows, RowsOf
<1> QED
  BY <1>1, <1>2

(* The commit keeps GateInv. *)
LEMMA CommitInv ==
  ASSUME GateInv, NEW t \in Turn, Commit(t), DeskTypeOK'
  PROVE  GateInv'
<1> DEFINE o == out[t]
<1>1. /\ o \in Outgoing /\ TurnOK(t) /\ pc[t] = "commit"
      /\ pc' = [pc EXCEPT ![t] = "done"]
      /\ out' = [out EXCEPT ![t] = NoReply] /\ pend' = [pend EXCEPT ![t] = None]
      /\ ctx' = [ctx EXCEPT ![t] = None] /\ proposal' = proposal
  BY DEF Commit, Forget, Transition, GateInv, GateTypeOK
<1>2. Proposed \subseteq Proposed' /\ Proposed' \subseteq Proposed \cup {o.action}
  BY CommitProposes
<1>3. o.stage = "awaiting_confirmation" => o.action \in Proposed'
  BY CommitProposes
<1>4. GateTypeOK'
  <2>1. AuditRows(t) \subseteq AuditRow
    BY <1>1 DEF AuditRows, AuditRow, AuditStatus, Outgoing, Stage, Outcome, TurnOK
  <2>2. row' \in [Turn -> OwnRow \cup {None}]
    <3>1. CASE o.inserts
      <4>1. [key |-> o.action, total |-> o.total] \in OwnRow
        BY <1>1, <3>1, CommitTakesEffect DEF OwnRow, Outgoing, Proposed, WithStatus
      <4> QED
        BY <3>1, <4>1, CommitTakesEffect DEF GateInv, GateTypeOK
    <3>2. CASE ~o.inserts
      BY <3>2, CommitTakesEffect DEF GateInv, GateTypeOK
    <3> QED
      BY <3>1, <3>2
  <2>3. /\ turnCount' \in Nat /\ lastSeq' \in Int /\ replies' \subseteq Turn \cup {None}
    <3>1. seen[t] \in Nat /\ o.pending \in Turn \cup {None}
      BY <1>1 DEF GateInv, GateTypeOK, Outgoing
    <3> QED
      BY <3>1 DEF Commit, AppendRows, GateInv, GateTypeOK
  <2>4. NoReply \in Outgoing /\ NoStart \in [proposed : SUBSET Turn, answered : SUBSET Turn]
    BY DEF NoReply, Outgoing, Stage, Outcome, NoStart
  <2>5. /\ pc' \in [Turn -> PC] /\ out' \in [Turn -> Outgoing]
        /\ pend' \in [Turn -> Turn \cup {None}]
        /\ ctx' \in [Turn -> PolicyContext \cup {None}]
        /\ proposal' \in [Turn -> ConfirmationRequest \cup {None}]
    BY <1>1, <2>4 DEF GateInv, GateTypeOK, PC
  <2>6. /\ seen' \in [Turn -> Nat] /\ live' \in [Turn -> SUBSET (Tool \cup Product)]
        /\ start' \in [Turn -> [proposed : SUBSET Turn, answered : SUBSET Turn]]
        /\ audit' \subseteq AuditRow /\ escalated' \in BOOLEAN
    BY <1>1, <2>1, <2>4 DEF Commit, Forget, GateInv, GateTypeOK, Outgoing
  <2>7. world' \in World /\ edits' \in Nat /\ now' \in Nat
    BY DEF Commit, worldVars, GateInv, GateTypeOK
  <2> QED
    BY <2>2, <2>3, <2>5, <2>6, <2>7 DEF GateTypeOK
<1>5. ASSUME NEW u \in Turn PROVE TurnOK(u)'
  <2>1. CASE u = t
    BY <1>1, <2>1 DEF TurnOK, NoReply, GateInv, GateTypeOK
  <2>2. CASE u # t
    <3>1. /\ pc'[u] = pc[u] /\ pend'[u] = pend[u] /\ ctx'[u] = ctx[u] /\ out'[u] = out[u]
          /\ TurnOK(u)
      BY <1>1, <2>2 DEF GateInv, GateTypeOK
    <3> QED
      BY <1>1, <1>2, <3>1 DEF TurnOK, WaitsForConsent, ConfirmedPlan
  <2> QED
    BY <2>1, <2>2
<1>6. ProposedOK'
  <2> SUFFICES ASSUME NEW a \in Proposed' PROVE pc'[a] = "done" /\ WaitsForConsent(a)
    BY <1>1 DEF ProposedOK, WaitsForConsent
  <2>1. CASE a \in Proposed
    <3>1. a \in Turn
      BY <2>1 DEF Proposed, WithStatus
    <3> QED
      BY <1>1, <2>1, <3>1 DEF GateInv, ProposedOK, GateTypeOK
  <2>2. CASE a \notin Proposed
    <3>1. a = o.action /\ o.stage = "awaiting_confirmation"
      BY <2>2, CommitProposes
    <3>2. a = t /\ WaitsForConsent(a)
      BY <1>1, <2>2, <3>1 DEF TurnOK
    <3> QED
      BY <1>1, <3>2 DEF GateInv, GateTypeOK
  <2> QED
    BY <2>1, <2>2
<1>7. RepliesOK'
  <2>1. o.pending \in Proposed' \cup {None}
    BY <1>1, <1>3 DEF TurnOK
  <2>2. replies' \subseteq replies \cup {o.pending}
    BY DEF Commit, AppendRows
  <2> QED
    BY <1>2, <2>1, <2>2 DEF GateInv, RepliesOK
<1>8. KeysOK'
  <2>1. ASSUME NEW u \in Turn, out'[u].inserts PROVE u # t /\ out'[u] = out[u]
    BY <1>1, <2>1 DEF GateInv, GateTypeOK, NoReply
  <2>2. ASSUME NEW u \in Turn, NEW v \in Turn, out'[u].inserts, out'[v].inserts,
               out'[u].action = out'[v].action
        PROVE  u = v
    BY <2>1, <2>2 DEF GateInv, KeysOK
  <2>3. CASE o.inserts
    <3> DEFINE new == [key |-> o.action, total |-> o.total]
    <3>1. o.action \in Proposed /\ row' = [row EXCEPT ![t] = new] /\ new.key = o.action
      BY <2>3, CommitTakesEffect
    <3> HIDE DEF new
    <3>2. row'[t] = new /\ \A r \in Turn \ {t} : row'[r] = row[r]
      BY <3>1 DEF GateInv, GateTypeOK
    <3>3. \A r \in Turn : row'[r] # None => row'[r].key \in Proposed' /\ pc'[r] = "done"
      BY <1>1, <1>2, <3>1, <3>2 DEF GateInv, KeysOK, GateTypeOK
    <3>4. OneEffectPerAction'
      <4>1. \A r \in Turn \ {t} : row[r] # None => row[r].key # o.action
        BY <2>3, CommitTakesEffect DEF RowsOf
      <4> QED
        BY <3>1, <3>2, <4>1 DEF GateInv, KeysOK, OneEffectPerAction
    <3>5. ASSUME NEW u \in Turn, out'[u].inserts PROVE RowsOf(out[u].action) = {} /\ out[u].action # o.action
      BY <2>1, <2>3, <3>5 DEF GateInv, KeysOK
    <3>6. ASSUME NEW u \in Turn, out'[u].inserts PROVE RowsOf(out[u].action)' = {}
      <4>1. PICK a : a = out[u].action
        OBVIOUS
      <4>2. a = out'[u].action
        BY <2>1, <3>6, <4>1
      <4>3. RowsOf(a)' = {}
        BY <2>3, <3>5, <3>6, <4>1, CommitTakesEffect
      <4> QED
        BY <4>2, <4>3 DEF RowsOf
    <3> QED
      BY <2>2, <3>3, <3>4, <3>6 DEF KeysOK
  <2>4. CASE ~o.inserts
    <3>1. row' = row
      BY <2>4, CommitTakesEffect
    <3>2. \A r \in Turn : row'[r] # None => row'[r].key \in Proposed' /\ pc'[r] = "done"
      BY <1>1, <1>2, <3>1 DEF GateInv, KeysOK, GateTypeOK
    <3>3. OneEffectPerAction'
      BY <3>1 DEF GateInv, KeysOK, OneEffectPerAction
    <3>4. ASSUME NEW u \in Turn, out'[u].inserts PROVE RowsOf(out[u].action)' = {}
      BY <2>1, <3>1, <3>4 DEF GateInv, KeysOK, RowsOf
    <3> QED
      BY <2>2, <3>2, <3>3, <3>4 DEF KeysOK
  <2> QED
    BY <2>3, <2>4
<1> QED
  BY <1>4, <1>5, <1>6, <1>7, <1>8 DEF GateInv

--------------------------------------------------------------------------------
(***************************************************************************)
(* The surroundings, and the invariant.                                    *)
(***************************************************************************)

LEMMA OutsideStep ==
  ASSUME GateInv, GateTypeOK', UNCHANGED <<turnVars, audit, row, replies>>
  PROVE  GateInv'
<1> USE DEF turnVars
<1>1. Proposed' = Proposed
  BY QuietStep
<1>2. (\A t \in Turn : TurnOK(t))'
  BY <1>1 DEF GateInv, TurnOK, WaitsForConsent, ConfirmedPlan
<1>3. ProposedOK' /\ RepliesOK'
  BY <1>1 DEF GateInv, ProposedOK, RepliesOK, WaitsForConsent
<1>4. KeysOK'
  BY <1>1 DEF GateInv, KeysOK, OneEffectPerAction, RowsOf
<1> QED
  BY <1>2, <1>3, <1>4 DEF GateInv

(* A change in the dashboard keeps GateInv. *)
LEMMA ChangeInv ==
  ASSUME GateInv, DeskTypeOK', NEW w \in World, Change(w)
  PROVE  GateInv'
<1> USE DEF Change
<1>1. GateTypeOK'
  <2>1. live' \in [Turn -> SUBSET (Tool \cup Product)]
    BY DEF GateInv, GateTypeOK, World
  <2>2. world' \in World /\ edits' \in Nat
    BY DEF GateInv, GateTypeOK
  <2> QED
    BY <2>1, <2>2 DEF GateInv, GateTypeOK, chatVars, turnVars
<1> QED
  BY <1>1, OutsideStep DEF chatVars

(* The clock and the dashboard keep GateInv. *)
LEMMA WorldInv ==
  ASSUME GateInv, DeskTypeOK', WorldNext
  PROVE  GateInv'
<1>1. CASE Tick
  <2>1. GateTypeOK'
    BY <1>1 DEF Tick, GateInv, GateTypeOK, chatVars, turnVars, ghostVars
  <2> QED
    BY <1>1, <2>1, OutsideStep DEF Tick, chatVars
<1>2. CASE ~Tick
  <2>1. world \in World
    BY DEF GateInv, GateTypeOK
  <2>2. PICK w \in World : Change(w)
    <3>1. CASE \E tool \in Tool : update_tool(tool)
      BY <2>1, <3>1 DEF update_tool, World
    <3>2. CASE \E p \in Product : update_product(p)
      BY <2>1, <3>2 DEF update_product, World
    <3>3. CASE ChangeTerms
      BY <2>1, <3>3 DEF ChangeTerms, World
    <3> QED
      BY <1>2, <3>1, <3>2, <3>3 DEF WorldNext
  <2> QED
    BY <2>2, ChangeInv
<1> QED
  BY <1>1, <1>2

(* The staff's requests keep GateInv. *)
LEMMA DeskStepInv ==
  ASSUME GateInv, DeskTypeOK', DeskStep
  PROVE  GateInv'
<1>1. GateTypeOK'
  BY DEF DeskStep, GateInv, GateTypeOK, gateVars, worldVars, chatVars, turnVars, ghostVars
<1> QED
  BY <1>1, OutsideStep DEF DeskStep, gateVars, chatVars

(* GateInv holds at the start. *)
LEMMA GateInitInv == Init => GateInv
<1> SUFFICES ASSUME Init PROVE GateInv
  OBVIOUS
<1>1. NoReply \in Outgoing /\ NoStart \in [proposed : SUBSET Turn, answered : SUBSET Turn]
  BY DEF NoReply, Outgoing, Stage, Outcome, NoStart
<1>2. DeskTypeOK
  BY DeskInitInv DEF Init, DeskInv
<1>3. world \in World
  BY DEF Init, World
<1>4. GateTypeOK
  <2>1. edits \in Nat /\ now \in Nat /\ turnCount \in Nat
    BY DEF Init
  <2>2. lastSeq \in Int
    BY DEF Init
  <2>3. replies \subseteq Turn \cup {None} /\ audit \subseteq AuditRow
    BY DEF Init
  <2>4. escalated \in BOOLEAN
    BY DEF Init
  <2>5. /\ proposal \in [Turn -> ConfirmationRequest \cup {None}]
        /\ row \in [Turn -> OwnRow \cup {None}]
        /\ pc \in [Turn -> PC] /\ seen \in [Turn -> Nat]
        /\ pend \in [Turn -> Turn \cup {None}] /\ ctx \in [Turn -> PolicyContext \cup {None}]
    BY DEF Init, PC
  <2>6. /\ out \in [Turn -> Outgoing] /\ live \in [Turn -> SUBSET (Tool \cup Product)]
        /\ start \in [Turn -> [proposed : SUBSET Turn, answered : SUBSET Turn]]
    BY <1>1 DEF Init
  <2> QED
    BY <1>2, <1>3, <2>1, <2>2, <2>3, <2>4, <2>5, <2>6 DEF GateTypeOK
<1>5. Proposed = {} /\ \A a : RowsOf(a) = {}
  BY DEF Init, Proposed, WithStatus, RowsOf
<1>6. \A t \in Turn : TurnOK(t)
  BY DEF Init, TurnOK, NoReply
<1>7. ProposedOK /\ RepliesOK
  BY <1>5 DEF Init, ProposedOK, RepliesOK
<1>8. KeysOK
  BY DEF Init, KeysOK, OneEffectPerAction, NoReply
<1> QED
  BY <1>4, <1>6, <1>7, <1>8 DEF GateInv

(* Every step keeps GateInv. *)
LEMMA GateNextInv ==
  ASSUME GateInv, [Next]_vars, DeskTypeOK'
  PROVE  GateInv'
<1>1. CASE TurnNext
  <2> PICK t \in Turn : ReadHistory(t) \/ Proceed(t) \/ Rollback(t)
    BY <1>1 DEF TurnNext
  <2>1. CASE ReadHistory(t) \/ ReadPending(t) \/ BuildContext(t)
    BY <2>1, ReadHistoryInv, ReadPendingInv, BuildContextInv
  <2>2. CASE \/ Answer(t) \/ UnknownTool(t) \/ Reject(t) \/ RunReadTool(t) \/ Propose(t)
             \/ KeepAsking(t) \/ Expire(t) \/ Decline(t)
    BY <2>2, AnswerInv, ProposeInv, ResolveInv
  <2>3. CASE \/ Confirm(t) \/ Replay(t) \/ RefuseToExecute(t) \/ PrepareInsert(t)
             \/ Insert(t) \/ CancelOrder(t)
    BY <2>3, ConfirmInv, ExecuteInv, PrepareInsertInv, InsertInv
  <2>4. CASE Commit(t)
    BY <2>4, CommitInv
  <2>5. CASE FailCommit(t) \/ Rollback(t)
    BY <2>5, DiscardInv DEF FailCommit, Rollback, InFlight
  <2> QED
    BY <2>1, <2>2, <2>3, <2>4, <2>5 DEF Proceed
<1>2. CASE WorldNext
  BY <1>2, WorldInv
<1>3. CASE DeskStep
  BY <1>3, DeskStepInv
<1>4. CASE UNCHANGED vars
  <2>1. GateTypeOK'
    BY <1>4 DEF vars, deskVars, gateVars, worldVars, chatVars, turnVars, ghostVars, GateInv,
                GateTypeOK, DeskTypeOK
  <2> QED
    BY <1>4, <2>1, OutsideStep DEF vars, gateVars, chatVars
<1> QED
  BY <1>1, <1>2, <1>3, <1>4 DEF Next

(* GateInv is invariant. *)
LEMMA GateInvariant == Spec => []GateInv
<1>1. DeskInv => DeskTypeOK
  BY DEF DeskInv
<1>2. GateInv /\ DeskTypeOK' /\ [Next]_vars => GateInv'
  BY GateNextInv
<1> QED
  BY <1>1, <1>2, GateInitInv, DeskInvariantInGate, PTL DEF Spec

--------------------------------------------------------------------------------
(***************************************************************************)
(* Theorems.                                                               *)
(***************************************************************************)

(* Every variable of the gate keeps its type.                              *)
THEOREM GateTypeCorrect == Spec => []GateTypeOK
BY GateInvariant, PTL DEF GateInv

(* No confirmed action ever has two rows, however many requests confirm it. *)
THEOREM OneEffectPerActionAlways == Spec => []OneEffectPerAction
BY GateInvariant, PTL DEF GateInv, KeysOK

(* While the conversation goes on, the desk's milestones are kept too.      *)
THEOREM MilestonesKeptInGate == Spec => []MilestonesKept
BY GateImplementsDesk, MilestonesAlwaysKept, PTL

(* One step of the gate is a step of the abstract specification or none.    *)
LEMMA GateStepIsConsented ==
  ASSUME GateInv, [Next]_vars
  PROVE  [Consented!Next]_(Consented!absVars)
<1> DEFINE effect == [a \in Turn |-> RowsOf(a)]
<1>1. CASE \E t \in Turn : Commit(t)
  <2> PICK t \in Turn : Commit(t)
    BY <1>1
  <2>1. CASE out[t].inserts
    <3>1. out[t].stage # "awaiting_confirmation" /\ out[t].action \in Turn
      BY <2>1, CommitTakesEffect DEF GateInv, TurnOK, Proposed, WithStatus
    <3>2. Proposed' = Proposed
      BY <3>1, CommitProposes
    <3>3. out[t].action \in Proposed /\ effect[out[t].action] = {}
      BY <2>1, <3>1, CommitTakesEffect
    <3>4. effect' = [effect EXCEPT ![out[t].action] = {t}]
      BY <2>1, <3>1, CommitTakesEffect
    <3> QED
      BY <3>1, <3>2, <3>3, <3>4 DEF Consented!Next, Consented!TakeEffect
  <2>2. CASE ~out[t].inserts
    <3>1. effect' = effect
      BY <2>2, CommitTakesEffect
    <3>2. CASE Proposed' = Proposed
      BY <3>1, <3>2 DEF Consented!absVars
    <3>3. CASE Proposed' # Proposed
      <4>1. out[t].action \in Turn /\ Proposed' = Proposed \cup {out[t].action}
        BY <3>3, CommitProposes
      <4>2. out[t].action \notin Proposed
        BY <3>3, <4>1
      <4> QED
        BY <3>1, <4>1, <4>2 DEF Consented!Next, Consented!Propose
    <3> QED
      BY <3>2, <3>3
  <2> QED
    BY <2>1, <2>2
<1>2. CASE ~\E t \in Turn : Commit(t)
  <2>1. UNCHANGED <<audit, row>>
    <3>1. CASE TurnNext
      <4> PICK t \in Turn : ReadHistory(t) \/ Proceed(t) \/ Rollback(t)
        BY <3>1 DEF TurnNext
      <4> QED
        BY <1>2 DEF Proceed, ReadHistory, ReadPending, BuildContext, Answer, UnknownTool,
           Reject, Propose, RunReadTool, KeepAsking, Expire, Decline, Say, Confirm, Replay,
           RefuseToExecute, Finish, PrepareInsert, Insert, CancelOrder, FailCommit, Rollback,
           Discard, chatVars
    <3>2. CASE WorldNext
      BY <3>2 DEF WorldNext, Tick, update_tool, update_product, ChangeTerms, Change, chatVars
    <3>3. CASE DeskStep \/ UNCHANGED vars
      BY <3>3 DEF DeskStep, vars, gateVars, chatVars
    <3> QED
      BY <3>1, <3>2, <3>3 DEF Next
  <2> QED
    BY <2>1, QuietStep DEF Consented!absVars
<1> QED
  BY <1>1, <1>2

(* The gate implements ConsentedEffects: an action takes effect once at most, *)
(* only after a committed turn has proposed it, and for good.                 *)
THEOREM GateImplementsConsent == Spec => ConsentedSpec
<1>1. Init => Consented!Init
  <2> SUFFICES ASSUME Init PROVE Consented!Init
    OBVIOUS
  <2>1. Proposed = {} /\ \A a \in Turn : RowsOf(a) = {}
    BY DEF Init, Proposed, WithStatus, RowsOf
  <2> QED
    BY <2>1 DEF Consented!Init
<1>2. GateInv /\ [Next]_vars => [Consented!Next]_(Consented!absVars)
  BY GateStepIsConsented
<1> QED
  BY <1>1, <1>2, GateInvariant, PTL DEF Spec, ConsentedSpec, Consented!Spec

--------------------------------------------------------------------------------
(***************************************************************************)
(* The audit trail.  AuditInv adds to GateInv what links a "succeeded"     *)
(* entry to a row: an outcome that is about to be committed is one of a    *)
(* read tool, or its row is flushed by the same turn or committed already. *)
(***************************************************************************)

(* If action a orders or books, it has done so. *)
Settled(a) == proposal[a] # None /\ Inserts(proposal[a].plan.tool) => RowsOf(a) # {}

AuditTurnOK(t) ==
  /\ pc[t] \in {"idle", "history", "pending", "context"} => proposal[t] = None
  /\ pc[t] = "commit" /\ out[t].stage = "executed" /\ out[t].outcome = "succeeded" =>
       \/ out[t].action = t /\ proposal[t] = None
       \/ out[t].action \in Proposed /\ (out[t].inserts \/ Settled(out[t].action))
  /\ out[t].inserts => out[t].outcome = "succeeded"

AuditInv ==
  /\ \A t \in Turn : AuditTurnOK(t)
  /\ \A a \in Succeeded : pc[a] = "done" /\ Settled(a)
  /\ \A r \in Turn : row[r] # None => row[r].key \in Succeeded

(* A step of turn t that is not its commit: nothing of the others changes. *)
Local(t) ==
  \/ ReadHistory(t) \/ ReadPending(t) \/ BuildContext(t)
  \/ Answer(t) \/ UnknownTool(t) \/ Reject(t) \/ Propose(t) \/ RunReadTool(t)
  \/ KeepAsking(t) \/ Expire(t) \/ Decline(t) \/ Confirm(t)
  \/ Replay(t) \/ RefuseToExecute(t) \/ PrepareInsert(t) \/ Insert(t) \/ CancelOrder(t)
  \/ FailCommit(t) \/ Rollback(t)

(* Every step is local to a turn, a commit, or leaves the conversation alone. *)
LEMMA StepCases ==
  ASSUME [Next]_vars
  PROVE  \/ \E t \in Turn : Local(t) \/ Commit(t)
         \/ WorldNext
         \/ UNCHANGED gateVars
BY DEF Next, TurnNext, Proceed, Local, DeskStep, vars

(* The steps at "context" that end the turn, and the reply each leaves. *)
LEMMA SayCases ==
  ASSUME NEW t \in Turn,
         \/ Answer(t) \/ UnknownTool(t) \/ Reject(t) \/ Propose(t) \/ RunReadTool(t)
         \/ KeepAsking(t) \/ Expire(t) \/ Decline(t)
  PROVE  \E reply : /\ pc[t] = "context"
                    /\ Say(t, reply)
                    /\ ~reply.inserts
                    /\ reply.action \in {None, t, pend[t]}
                    /\ reply.stage = "executed" => reply.action = t /\ UNCHANGED proposal
                    /\ reply.stage = "awaiting_confirmation" /\ reply.action # pend[t] =>
                         Propose(t)
                    /\ ~Propose(t) => UNCHANGED proposal
<1>1. CASE Answer(t)
  <2>0. PICK e \in BOOLEAN : Say(t, [NoReply EXCEPT !.escalates = e])
    BY <1>1 DEF Answer
  <2> DEFINE reply == [NoReply EXCEPT !.escalates = e]
  <2>1. Say(t, reply)
    BY <2>0
  <2>2. ~reply.inserts /\ reply.action = None /\ reply.stage = "none"
    BY DEF NoReply
  <2>3. pc[t] = "context" /\ UNCHANGED proposal
    BY <1>1 DEF Answer, Free
  <2> HIDE DEF reply
  <2> QED
    BY <2>1, <2>2, <2>3
<1>2. CASE UnknownTool(t)
  <2> DEFINE reply == [NoReply EXCEPT !.stage = "proposed"]
  <2>1. Say(t, reply)
    BY <1>2 DEF UnknownTool
  <2>2. ~reply.inserts /\ reply.action = None /\ reply.stage = "proposed"
    BY DEF NoReply
  <2>3. pc[t] = "context" /\ UNCHANGED proposal
    BY <1>2 DEF UnknownTool, Free
  <2> HIDE DEF reply
  <2> QED
    BY <2>1, <2>2, <2>3
<1>3. CASE Reject(t)
  <2> DEFINE reply == [NoReply EXCEPT !.stage = "rejected", !.action = t]
  <2>1. Say(t, reply)
    BY <1>3 DEF Reject
  <2>2. ~reply.inserts /\ reply.action = t /\ reply.stage = "rejected"
    BY DEF NoReply
  <2>3. pc[t] = "context" /\ UNCHANGED proposal
    BY <1>3 DEF Reject, Free
  <2> HIDE DEF reply
  <2> QED
    BY <2>1, <2>2, <2>3
<1>4. CASE RunReadTool(t)
  <2> DEFINE reply == [NoReply EXCEPT !.stage = "executed", !.action = t,
                                      !.outcome = "succeeded"]
  <2>1. Say(t, reply)
    BY <1>4 DEF RunReadTool
  <2>2. ~reply.inserts /\ reply.action = t /\ reply.stage = "executed"
    BY DEF NoReply
  <2>3. pc[t] = "context" /\ UNCHANGED proposal
    BY <1>4 DEF RunReadTool, Free
  <2> HIDE DEF reply
  <2> QED
    BY <2>1, <2>2, <2>3
<1>5. CASE Propose(t)
  <2> DEFINE reply == [NoReply EXCEPT !.stage = "awaiting_confirmation", !.action = t,
                                      !.pending = t]
  <2>1. Say(t, reply)
    BY <1>5 DEF Propose
  <2>2. ~reply.inserts /\ reply.action = t /\ reply.stage = "awaiting_confirmation"
    BY DEF NoReply
  <2>3. pc[t] = "context"
    BY <1>5 DEF Propose, Free
  <2> HIDE DEF reply
  <2> QED
    BY <1>5, <2>1, <2>2, <2>3
<1>6. CASE KeepAsking(t)
  <2> DEFINE reply == [NoReply EXCEPT !.stage = "awaiting_confirmation", !.action = pend[t],
                                      !.pending = pend[t]]
  <2>1. Say(t, reply)
    BY <1>6 DEF KeepAsking
  <2>2. ~reply.inserts /\ reply.action = pend[t] /\ reply.stage = "awaiting_confirmation"
    BY DEF NoReply
  <2>3. pc[t] = "context" /\ UNCHANGED proposal
    BY <1>6 DEF KeepAsking, Resolving
  <2> HIDE DEF reply
  <2> QED
    BY <2>1, <2>2, <2>3
<1>7. CASE Expire(t)
  <2> DEFINE reply == [NoReply EXCEPT !.stage = "expired", !.action = pend[t]]
  <2>1. Say(t, reply)
    BY <1>7 DEF Expire
  <2>2. ~reply.inserts /\ reply.action = pend[t] /\ reply.stage = "expired"
    BY DEF NoReply
  <2>3. pc[t] = "context" /\ UNCHANGED proposal
    BY <1>7 DEF Expire, Resolving
  <2> HIDE DEF reply
  <2> QED
    BY <2>1, <2>2, <2>3
<1>8. CASE Decline(t)
  <2> DEFINE reply == [NoReply EXCEPT !.stage = "declined", !.action = pend[t]]
  <2>1. Say(t, reply)
    BY <1>8 DEF Decline
  <2>2. ~reply.inserts /\ reply.action = pend[t] /\ reply.stage = "declined"
    BY DEF NoReply
  <2>3. pc[t] = "context" /\ UNCHANGED proposal
    BY <1>8 DEF Decline, Resolving
  <2> HIDE DEF reply
  <2> QED
    BY <2>1, <2>2, <2>3
<1> QED
  BY <1>1, <1>2, <1>3, <1>4, <1>5, <1>6, <1>7, <1>8

(* A turn takes its steps before it is done, and alone. *)
LEMMA LocalIsOnlyTurn ==
  ASSUME GateInv, NEW t \in Turn, Local(t)
  PROVE  OnlyTurn(t) /\ pc[t] # "done" /\ UNCHANGED turnCount
<1> USE DEF OnlyTurn, GateInv, GateTypeOK, Transition, worldVars, chatVars, ghostVars
<1>1. CASE ReadHistory(t) \/ ReadPending(t) \/ BuildContext(t) \/ Confirm(t)
  BY <1>1 DEF ReadHistory, ReadPending, BuildContext, Confirm
<1>2. CASE Propose(t)
  BY <1>2 DEF Propose, Say
<1>3. CASE \/ Answer(t) \/ UnknownTool(t) \/ Reject(t) \/ RunReadTool(t)
           \/ KeepAsking(t) \/ Expire(t) \/ Decline(t)
  BY <1>3 DEF Answer, UnknownTool, Reject, RunReadTool, KeepAsking, Expire, Decline, Say
<1>4. CASE \/ Replay(t) \/ RefuseToExecute(t) \/ CancelOrder(t) \/ PrepareInsert(t)
           \/ Insert(t)
  BY <1>4 DEF Replay, RefuseToExecute, CancelOrder, Finish, PrepareInsert, Insert
<1>5. CASE FailCommit(t) \/ Rollback(t)
  BY <1>5 DEF FailCommit, Rollback, Discard, Forget, InFlight
<1> QED
  BY <1>1, <1>2, <1>3, <1>4, <1>5 DEF Local

(* A local step keeps AuditInv if it keeps its own turn in order. *)
LEMMA AuditLocalStep ==
  ASSUME GateInv, AuditInv, NEW t \in Turn, Local(t), AuditTurnOK(t)'
  PROVE  AuditInv'
<1>1. OnlyTurn(t) /\ pc[t] # "done" /\ t \notin Proposed
  BY LocalIsOnlyTurn DEF GateInv, ProposedOK
<1>2. /\ Proposed' = Proposed /\ Succeeded' = Succeeded /\ UNCHANGED row
      /\ \A a : RowsOf(a)' = RowsOf(a)
  BY <1>1, QuietStep DEF OnlyTurn, Succeeded, WithStatus
<1>3. \A a \in Succeeded : a # t /\ a \in Turn
  BY <1>1 DEF AuditInv, Succeeded, WithStatus
<1>4. \A a \in Turn \ {t} : proposal'[a] = proposal[a] /\ pc'[a] = pc[a]
  BY <1>1 DEF OnlyTurn
<1>5. \A a \in Proposed : a \in Turn \ {t}
  BY <1>1 DEF Proposed, WithStatus
<1>6. \A a \in Turn \ {t} : Settled(a)' = Settled(a)
  BY <1>2, <1>4 DEF Settled
<1>7. ASSUME NEW u \in Turn, u # t PROVE AuditTurnOK(u)'
  <2>1. pc'[u] = pc[u] /\ out'[u] = out[u] /\ proposal'[u] = proposal[u] /\ AuditTurnOK(u)
    BY <1>1, <1>7 DEF OnlyTurn, AuditInv
  <2>2. PICK a : a = out[u].action /\ a = out'[u].action
    BY <2>1
  <2>3. a \in Proposed => Settled(a)' = Settled(a)
    BY <1>5, <1>6
  <2> QED
    BY <1>2, <2>1, <2>2, <2>3 DEF AuditTurnOK, Settled
<1>8. \A a \in Succeeded' : pc'[a] = "done" /\ Settled(a)'
  BY <1>2, <1>3, <1>4, <1>6 DEF AuditInv
<1> QED
  BY <1>2, <1>7, <1>8 DEF AuditInv

(* Every local step keeps its own turn in order. *)
LEMMA AuditLocalInv ==
  ASSUME GateInv, AuditInv, NEW t \in Turn, Local(t)
  PROVE  AuditInv'
<1> SUFFICES AuditTurnOK(t)'
  BY AuditLocalStep
<1>1. AuditTurnOK(t) /\ TurnOK(t) /\ GateTypeOK
  BY DEF AuditInv, GateInv
<1>2. OnlyTurn(t) /\ t \notin Proposed
  BY LocalIsOnlyTurn DEF GateInv, ProposedOK
<1>3. Proposed' = Proposed /\ \A a : RowsOf(a)' = RowsOf(a)
  BY <1>2, QuietStep DEF OnlyTurn
<1>4. CASE ReadHistory(t) \/ ReadPending(t) \/ BuildContext(t)
  <2>1. /\ pc[t] \in {"idle", "history", "pending"} /\ pc'[t] \in {"history", "pending", "context"}
        /\ out' = out /\ proposal' = proposal
    BY <1>1, <1>4 DEF ReadHistory, ReadPending, BuildContext, Transition, GateTypeOK
  <2>2. out[t] = NoReply
    BY <1>1, <2>1 DEF TurnOK
  <2> QED
    BY <1>1, <2>1, <2>2 DEF AuditTurnOK, NoReply
<1>5. CASE \/ Answer(t) \/ UnknownTool(t) \/ Reject(t) \/ Propose(t) \/ RunReadTool(t)
           \/ KeepAsking(t) \/ Expire(t) \/ Decline(t)
  <2>1. PICK reply : /\ pc[t] = "context" /\ Say(t, reply) /\ ~reply.inserts
                     /\ reply.stage = "executed" => reply.action = t /\ UNCHANGED proposal
    BY <1>5, SayCases
  <2>2. pc'[t] = "commit" /\ out'[t] = reply
    BY <1>1, <2>1 DEF Say, Transition, GateTypeOK
  <2>3. proposal[t] = None
    BY <1>1, <2>1 DEF AuditTurnOK
  <2> QED
    BY <2>1, <2>2, <2>3 DEF AuditTurnOK
<1>6. CASE Confirm(t)
  <2>1. pc'[t] = "lookup" /\ ~out'[t].inserts
    BY <1>1, <1>6 DEF Confirm, Transition, GateTypeOK, NoReply
  <2> QED
    BY <2>1 DEF AuditTurnOK
<1>7. CASE PrepareInsert(t)
  <2>1. pc'[t] = "insert" /\ ~out'[t].inserts
    BY <1>1, <1>7 DEF PrepareInsert, Transition, GateTypeOK, TurnOK, Outgoing
  <2> QED
    BY <2>1 DEF AuditTurnOK
<1>8. CASE Insert(t)
  <2>1. /\ out[t].action \in Proposed /\ pc'[t] \in {"commit", "doomed"}
        /\ out'[t].action = out[t].action
        /\ pc'[t] = "commit" => out'[t].inserts /\ out'[t].outcome = "succeeded"
        /\ pc'[t] = "doomed" => ~out'[t].inserts
    BY <1>1, <1>8 DEF Insert, Transition, GateTypeOK, TurnOK, Outgoing
  <2> QED
    BY <1>3, <2>1 DEF AuditTurnOK
<1>9. CASE Replay(t) \/ RefuseToExecute(t) \/ CancelOrder(t)
  <2>1. PICK outcome \in {"succeeded", "failed"} :
          /\ Finish(t, outcome)
          /\ outcome = "succeeded" => \/ RowsOf(out[t].action) # {}
                                     \/ ConfirmedPlan(t).tool = "cancel_order"
    BY <1>9 DEF Replay, RefuseToExecute, CancelOrder
  <2>2. /\ out[t].action \in Proposed /\ pc'[t] = "commit" /\ ~out'[t].inserts
        /\ out'[t].action = out[t].action /\ out'[t].outcome = outcome
        /\ proposal' = proposal
    BY <1>1, <2>1 DEF Finish, Transition, GateTypeOK, TurnOK, Outgoing
  <2>3. PICK a : a = out[t].action
    OBVIOUS
  <2>4. outcome = "succeeded" => Settled(a)'
    BY <1>3, <2>1, <2>2, <2>3 DEF Settled, ConfirmedPlan, Inserts
  <2> QED
    BY <1>3, <2>2, <2>3, <2>4 DEF AuditTurnOK, Settled
<1>10. CASE FailCommit(t) \/ Rollback(t)
  <2>1. pc'[t] = "failed" /\ out'[t] = NoReply
    BY <1>1, <1>10 DEF FailCommit, Rollback, Discard, Forget, GateTypeOK
  <2> QED
    BY <2>1 DEF AuditTurnOK, NoReply
<1> QED
  BY <1>4, <1>5, <1>6, <1>7, <1>8, <1>9, <1>10 DEF Local

(* The commit of a "succeeded" outcome is what puts the action among the succeeded. *)
LEMMA CommitSucceeds ==
  ASSUME GateInv, NEW t \in Turn, Commit(t)
  PROVE  /\ Succeeded \subseteq Succeeded'
         /\ \A a \in Succeeded' \ Succeeded :
              a = out[t].action /\ out[t].stage = "executed" /\ out[t].outcome = "succeeded"
         /\ out[t].stage = "executed" /\ out[t].outcome = "succeeded" /\ out[t].action \in Turn
              => out[t].action \in Succeeded'
<1>1. out[t] \in Outgoing /\ audit' = audit \cup AuditRows(t)
  BY DEF Commit, GateInv, GateTypeOK
<1>2. Succeeded \subseteq Succeeded'
  BY <1>1 DEF Succeeded, WithStatus
<1>3. ASSUME NEW e \in AuditRows(t), e.status = "succeeded"
      PROVE  /\ e.action = out[t].action
             /\ out[t].stage = "executed" /\ out[t].outcome = "succeeded"
  BY <1>1, <1>3 DEF AuditRows, Outgoing, Stage
<1>4. \A a \in Succeeded' \ Succeeded :
        a = out[t].action /\ out[t].stage = "executed" /\ out[t].outcome = "succeeded"
  BY <1>1, <1>3 DEF Succeeded, WithStatus
<1>5. ASSUME out[t].stage = "executed", out[t].outcome = "succeeded", out[t].action \in Turn
      PROVE  out[t].action \in Succeeded'
  <2> DEFINE e == [action |-> out[t].action, by |-> t, status |-> "succeeded"]
  <2>1. e \in audit' /\ e.action = out[t].action /\ e.status = "succeeded"
    BY <1>1, <1>5 DEF AuditRows
  <2> HIDE DEF e
  <2>2. PICK a : a = out[t].action
    OBVIOUS
  <2>3. a \in Succeeded'
    BY <1>5, <2>1, <2>2 DEF Succeeded, WithStatus
  <2> QED
    BY <2>2, <2>3
<1> QED
  BY <1>2, <1>4, <1>5

(* The commit keeps AuditInv: the entry and the row go in together. *)
LEMMA AuditCommitInv ==
  ASSUME GateInv, GateInv', AuditInv, NEW t \in Turn, Commit(t)
  PROVE  AuditInv'
<1>1. /\ pc' = [pc EXCEPT ![t] = "done"] /\ out' = [out EXCEPT ![t] = NoReply]
      /\ pc[t] = "commit" /\ proposal' = proposal /\ TurnOK(t) /\ AuditTurnOK(t) /\ GateTypeOK
  BY DEF Commit, Forget, Transition, GateInv, AuditInv
<1>2. Proposed \subseteq Proposed'
  BY CommitProposes
<1>3. \A a \in Turn : RowsOf(a) \subseteq RowsOf(a)'
  BY CommitTakesEffect
<1>4. \A a \in Turn : Settled(a) => Settled(a)'
  BY <1>1, <1>3 DEF Settled
<1>5. ASSUME NEW u \in Turn PROVE AuditTurnOK(u)'
  <2>1. CASE u = t
    BY <1>1, <2>1 DEF AuditTurnOK, NoReply, GateTypeOK
  <2>2. CASE u # t
    <3>1. pc'[u] = pc[u] /\ out'[u] = out[u] /\ AuditTurnOK(u)
      BY <1>1, <2>2 DEF GateTypeOK, AuditInv
    <3>2. PICK a : a = out[u].action /\ a = out'[u].action
      BY <3>1
    <3>3. a \in Proposed /\ Settled(a) => Settled(a)'
      BY <1>4 DEF Proposed, WithStatus
    <3> QED
      BY <1>1, <1>2, <3>1, <3>2, <3>3 DEF AuditTurnOK, Settled
  <2> QED
    BY <2>1, <2>2
<1>6. ASSUME NEW a \in Succeeded' PROVE pc'[a] = "done" /\ Settled(a)'
  <2>1. CASE a \in Succeeded
    <3>1. a \in Turn
      BY <2>1 DEF Succeeded, WithStatus
    <3> QED
      BY <1>1, <1>4, <2>1, <3>1 DEF AuditInv, GateTypeOK
  <2>2. CASE a \notin Succeeded
    <3>1. a = out[t].action /\ out[t].stage = "executed" /\ out[t].outcome = "succeeded"
      BY <2>2, CommitSucceeds
    <3>2. CASE a = t /\ proposal[t] = None
      BY <1>1, <3>2 DEF Settled, GateTypeOK
    <3>3. CASE a \in Proposed /\ out[t].inserts
      <4>1. a \in Turn /\ pc[a] = "done"
        BY <3>3 DEF GateInv, ProposedOK, Proposed, WithStatus
      <4>2. RowsOf(a)' = {t}
        BY <3>1, <3>3, CommitTakesEffect
      <4> QED
        BY <1>1, <4>1, <4>2 DEF Settled, GateTypeOK
    <3>4. CASE a \in Proposed /\ Settled(a)
      <4>1. a \in Turn /\ pc[a] = "done"
        BY <3>4 DEF GateInv, ProposedOK, Proposed, WithStatus
      <4> QED
        BY <1>1, <1>4, <3>4, <4>1 DEF GateTypeOK
    <3> QED
      BY <1>1, <3>1, <3>2, <3>3, <3>4 DEF AuditTurnOK
  <2> QED
    BY <2>1, <2>2
<1>7. ASSUME NEW r \in Turn, row'[r] # None PROVE row'[r].key \in Succeeded'
  <2>1. CASE row'[r] = row[r]
    BY <1>7, <2>1, CommitSucceeds DEF AuditInv
  <2>2. CASE row'[r] # row[r]
    <3>1. out[t].inserts
      BY <2>2, CommitTakesEffect
    <3>2. r = t /\ row'[r].key = out[t].action
      BY <2>2, <3>1, CommitTakesEffect, <1>1 DEF GateTypeOK
    <3>3. out[t].stage = "executed" /\ out[t].outcome = "succeeded" /\ out[t].action \in Turn
      BY <1>1, <3>1 DEF TurnOK, AuditTurnOK, Proposed, WithStatus
    <3> QED
      BY <3>2, <3>3, CommitSucceeds
  <2> QED
    BY <2>1, <2>2
<1> QED
  BY <1>5, <1>6, <1>7 DEF AuditInv

(* The surroundings keep AuditInv. *)
LEMMA AuditOutside ==
  ASSUME AuditInv, UNCHANGED <<turnVars, audit, row>>
  PROVE  AuditInv'
<1>1. Proposed' = Proposed /\ Succeeded' = Succeeded /\ \A a : RowsOf(a)' = RowsOf(a)
  BY QuietStep DEF Succeeded, WithStatus
<1>2. \A a : Settled(a)' = Settled(a)
  BY <1>1 DEF Settled, turnVars
<1>3. ASSUME NEW t \in Turn PROVE AuditTurnOK(t)'
  <2>1. PICK a : a = out[t].action /\ a = out'[t].action
    BY DEF turnVars
  <2>2. Settled(a)' = Settled(a)
    BY <1>2
  <2> QED
    BY <1>1, <2>1, <2>2 DEF AuditInv, AuditTurnOK, Settled, turnVars
<1> QED
  BY <1>1, <1>2, <1>3 DEF AuditInv, turnVars

(* AuditInv is invariant. *)
LEMMA AuditInvariant == Spec => []AuditInv
<1>1. Init => AuditInv
  BY DEF Init, AuditInv, AuditTurnOK, NoReply, Succeeded, WithStatus
<1>2. ASSUME GateInv, GateInv', AuditInv, [Next]_vars PROVE AuditInv'
  <2>1. CASE \E t \in Turn : Local(t) \/ Commit(t)
    BY <1>2, <2>1, AuditLocalInv, AuditCommitInv
  <2>2. CASE WorldNext
    BY <1>2, <2>2, AuditOutside
       DEF WorldNext, Tick, update_tool, update_product, ChangeTerms, Change, chatVars
  <2>3. CASE UNCHANGED gateVars
    BY <1>2, <2>3, AuditOutside DEF gateVars, chatVars
  <2> QED
    BY <1>2, <2>1, <2>2, <2>3, StepCases
<1> QED
  BY <1>1, <1>2, GateInvariant, PTL DEF Spec

(* The audit trail says "succeeded" of an order or a booking exactly when its   *)
(* row is in the tables, for any number of concurrent and failing requests.     *)
THEOREM AuditAlwaysMatchesEffects == Spec => []AuditMatchesEffects
<1>1. AuditInv => AuditMatchesEffects
  <2> SUFFICES ASSUME AuditInv, NEW a \in Turn, proposal[a] # None,
                      Inserts(proposal[a].plan.tool)
               PROVE  a \in Succeeded <=> RowsOf(a) # {}
    BY DEF AuditMatchesEffects
  <2>1. a \in Succeeded => RowsOf(a) # {}
    BY DEF AuditInv, Settled
  <2>2. ASSUME NEW r \in RowsOf(a) PROVE a \in Succeeded
    BY DEF AuditInv, RowsOf
  <2> QED
    BY <2>1, <2>2
<1> QED
  BY <1>1, AuditInvariant, PTL

--------------------------------------------------------------------------------
(***************************************************************************)
(* An answered action is final.  SeqInv relates the number of rows a turn  *)
(* read to those committed: a proposal and its answer have added two rows  *)
(* each, so a turn that arrives later is too far from the proposal for     *)
(* Fresh, whichever row its SELECT of the pending confirmation returns.    *)
(***************************************************************************)

SeqTurnOK(t) ==
  /\ seen[t] <= turnCount
  /\ pc[t] = "commit" => out[t].action \in Proposed \cup {t, None}
  /\ pc[t] = "commit" /\ out[t].stage = "awaiting_confirmation" /\ out[t].action = t =>
       proposal[t].turn_seq = seen[t] + 1
  /\ \A a \in start[t].answered : a \in Proposed /\ proposal[a].turn_seq + 3 <= seen[t]
  /\ pc[t] \in {"lookup", "insert"} \/ out[t].inserts => out[t].action \notin start[t].answered

SeqInv ==
  /\ \A t \in Turn : SeqTurnOK(t)
  /\ \A a \in Proposed : proposal[a].turn_seq + 1 <= turnCount
  /\ \A a \in Answered : a \in Proposed /\ proposal[a].turn_seq + 3 <= turnCount

(* What is proposed has a request with a turn number. *)
LEMMA ProposalsNumbered ==
  ASSUME GateInv
  PROVE  \A a \in Proposed : a \in Turn /\ proposal[a] \in ConfirmationRequest
                             /\ proposal[a].turn_seq \in Nat /\ pc[a] = "done"
BY DEF GateInv, ProposedOK, WaitsForConsent, ConfirmationRequest, Proposed, WithStatus

(* A step that changes no numbers of any other turn keeps SeqInv. *)
LEMMA SeqLocalStep ==
  ASSUME GateInv, SeqInv, NEW t \in Turn, Local(t), SeqTurnOK(t)',
         \A u \in Turn \ {t} : seen'[u] = seen[u] /\ start'[u] = start[u]
  PROVE  SeqInv'
<1>1. OnlyTurn(t) /\ UNCHANGED turnCount /\ t \notin Proposed
  BY LocalIsOnlyTurn DEF GateInv, ProposedOK
<1>2. Proposed' = Proposed /\ Answered' = Answered
  BY <1>1 DEF OnlyTurn, Proposed, WithStatus, Answered
<1>3. \A a \in Proposed : proposal'[a] = proposal[a]
  BY <1>1 DEF OnlyTurn, Proposed, WithStatus
<1>4. ASSUME NEW u \in Turn, u # t PROVE SeqTurnOK(u)'
  <2>1. /\ pc'[u] = pc[u] /\ out'[u] = out[u] /\ proposal'[u] = proposal[u]
        /\ seen'[u] = seen[u] /\ start'[u] = start[u] /\ SeqTurnOK(u)
    BY <1>1, <1>4 DEF OnlyTurn, SeqInv
  <2> QED
    BY <1>1, <1>2, <1>3, <2>1 DEF SeqTurnOK
<1> QED
  BY <1>1, <1>2, <1>3, <1>4 DEF SeqInv

(* Every local step keeps SeqInv; Confirm does because of Fresh. *)
LEMMA SeqLocalInv ==
  ASSUME GateInv, SeqInv, NEW t \in Turn, Local(t)
  PROVE  SeqInv'
<1>1. SeqTurnOK(t) /\ TurnOK(t) /\ GateTypeOK
  BY DEF SeqInv, GateInv
<1>2. OnlyTurn(t) /\ UNCHANGED turnCount /\ t \notin Proposed
  BY LocalIsOnlyTurn DEF GateInv, ProposedOK
<1>3. Proposed' = Proposed
  BY <1>2 DEF OnlyTurn, Proposed, WithStatus
<1>4. \A a \in Proposed : proposal'[a] = proposal[a]
  BY <1>2 DEF OnlyTurn, Proposed, WithStatus
<1>5. CASE ReadHistory(t)
  <2>1. /\ pc'[t] = "history" /\ seen'[t] = turnCount /\ start'[t].answered = Answered
        /\ out'[t] = NoReply
        /\ \A u \in Turn \ {t} : seen'[u] = seen[u] /\ start'[u] = start[u]
    BY <1>1, <1>5 DEF ReadHistory, Transition, TurnOK, GateTypeOK
  <2>2. turnCount \in Nat
    BY <1>1 DEF GateTypeOK
  <2>3. \A a \in start'[t].answered : a \in Proposed' /\ proposal'[a].turn_seq + 3 <= seen'[t]
    BY <1>3, <1>4, <2>1 DEF SeqInv
  <2>4. SeqTurnOK(t)'
    BY <1>2, <2>1, <2>2, <2>3 DEF SeqTurnOK, NoReply
  <2> QED
    BY <2>1, <2>4, SeqLocalStep
<1>6. CASE FailCommit(t) \/ Rollback(t)
  <2>1. /\ pc'[t] = "failed" /\ seen'[t] = 0 /\ start'[t] = NoStart /\ out'[t] = NoReply
        /\ \A u \in Turn \ {t} : seen'[u] = seen[u] /\ start'[u] = start[u]
    BY <1>1, <1>6 DEF FailCommit, Rollback, Discard, Forget, GateTypeOK
  <2>2. turnCount \in Nat
    BY <1>1 DEF GateTypeOK
  <2>3. SeqTurnOK(t)'
    BY <1>2, <2>1, <2>2 DEF SeqTurnOK, NoReply, NoStart
  <2> QED
    BY <2>1, <2>3, SeqLocalStep
<1>7. CASE ~(ReadHistory(t) \/ FailCommit(t) \/ Rollback(t))
  <2>1. UNCHANGED <<seen, start>>
    BY <1>7 DEF Local, ReadPending, BuildContext, Answer, UnknownTool, Reject, Propose,
       RunReadTool, KeepAsking, Expire, Decline, Say, Confirm, Replay, RefuseToExecute,
       Finish, PrepareInsert, Insert, CancelOrder, ghostVars
  <2>2. /\ seen'[t] <= turnCount'
        /\ \A a \in start'[t].answered : a \in Proposed' /\ proposal'[a].turn_seq + 3 <= seen'[t]
    BY <1>1, <1>2, <1>3, <1>4, <2>1 DEF SeqTurnOK
  <2> SUFFICES
        /\ pc'[t] = "commit" => out'[t].action \in Proposed \cup {t, None}
        /\ pc'[t] = "commit" /\ out'[t].stage = "awaiting_confirmation" /\ out'[t].action = t =>
             proposal'[t].turn_seq = seen[t] + 1
        /\ pc'[t] \in {"lookup", "insert"} \/ out'[t].inserts =>
             out'[t].action \notin start[t].answered
    BY <1>3, <2>1, <2>2, SeqLocalStep DEF SeqTurnOK
  <2>3. CASE ReadPending(t) \/ BuildContext(t)
    <3>1. pc'[t] \in {"pending", "context"} /\ out'[t] = NoReply
      BY <1>1, <2>3 DEF ReadPending, BuildContext, Transition, TurnOK, GateTypeOK
    <3> QED
      BY <3>1 DEF NoReply
  <2>4. CASE \/ Answer(t) \/ UnknownTool(t) \/ Reject(t) \/ Propose(t) \/ RunReadTool(t)
             \/ KeepAsking(t) \/ Expire(t) \/ Decline(t)
    <3>1. PICK reply : /\ pc[t] = "context" /\ Say(t, reply) /\ ~reply.inserts
                       /\ reply.action \in {None, t, pend[t]}
                       /\ reply.stage = "awaiting_confirmation" /\ reply.action # pend[t] =>
                            Propose(t)
      BY <2>4, SayCases
    <3>2. pc'[t] = "commit" /\ out'[t] = reply
      BY <1>1, <3>1 DEF Say, Transition, GateTypeOK
    <3>3. pend[t] \in Proposed \cup {None} /\ t # None
      BY <1>1, GateAssumption DEF TurnOK
    <3>4. Propose(t) => proposal'[t].turn_seq = seen[t] + 1
      BY <1>1 DEF Propose, GateTypeOK
    <3> QED
      BY <1>2, <3>1, <3>2, <3>3, <3>4
  <2>5. CASE Confirm(t)
    <3>1. /\ pc'[t] = "lookup" /\ out'[t].action = pend[t] /\ ~out'[t].inserts
          /\ pend[t] \in Proposed /\ Fresh(t)
      BY <1>1, <2>5 DEF Confirm, Resolving, Transition, TurnOK, GateTypeOK, NoReply
    <3>2. /\ seen[t] \in Nat /\ proposal[pend[t]].turn_seq \in Nat
          /\ seen[t] + 1 - proposal[pend[t]].turn_seq <= 2
      BY <1>1, <3>1, ProposalsNumbered DEF Fresh, DEFAULT_MAX_TURN_GAP, GateTypeOK
    <3>3. ~(proposal[pend[t]].turn_seq + 3 <= seen[t])
      BY <3>2
    <3> QED
      BY <1>1, <3>1, <3>3 DEF SeqTurnOK
  <2>6. CASE PrepareInsert(t)
    <3>1. pc[t] = "lookup" /\ pc'[t] = "insert" /\ out'[t].action = out[t].action
      BY <1>1, <2>6 DEF PrepareInsert, Transition, GateTypeOK, Outgoing
    <3> QED
      BY <1>1, <3>1 DEF SeqTurnOK
  <2>7. CASE Insert(t)
    <3>1. pc[t] = "insert" /\ out'[t].action = out[t].action /\ out'[t].stage = out[t].stage
      BY <1>1, <2>7 DEF Insert, Transition, GateTypeOK, Outgoing
    <3> QED
      BY <1>1, <3>1 DEF SeqTurnOK, TurnOK
  <2>8. CASE Replay(t) \/ RefuseToExecute(t) \/ CancelOrder(t)
    <3>1. /\ pc[t] = "lookup" /\ out'[t].action = out[t].action /\ out'[t].stage = out[t].stage
      BY <1>1, <2>8 DEF Replay, RefuseToExecute, CancelOrder, Finish, Transition, GateTypeOK,
                        Outgoing
    <3> QED
      BY <1>1, <3>1 DEF SeqTurnOK, TurnOK
  <2> QED
    BY <1>7, <2>3, <2>4, <2>5, <2>6, <2>7, <2>8 DEF Local
<1> QED
  BY <1>5, <1>6, <1>7

(* A commit answers the action it names, unless the turn proposed that action itself. *)
LEMMA CommitAnswers ==
  ASSUME GateInv, NEW t \in Turn, Commit(t)
  PROVE  \A a \in Answered' \ Answered : a = out[t].action /\ a # t
<1>1. audit' = audit \cup AuditRows(t)
  BY DEF Commit
<1>2. \A e \in AuditRows(t) : e.action = out[t].action /\ e.by = t
  BY DEF AuditRows
<1> QED
  BY <1>1, <1>2 DEF Answered

(* The commit keeps SeqInv: it adds the two rows the numbers are about. *)
LEMMA SeqCommitInv ==
  ASSUME GateInv, SeqInv, NEW t \in Turn, Commit(t)
  PROVE  SeqInv'
<1>1. /\ pc' = [pc EXCEPT ![t] = "done"] /\ out' = [out EXCEPT ![t] = NoReply]
      /\ seen' = [seen EXCEPT ![t] = 0] /\ start' = [start EXCEPT ![t] = NoStart]
      /\ pc[t] = "commit" /\ proposal' = proposal /\ turnCount' = turnCount + 2
      /\ TurnOK(t) /\ SeqTurnOK(t) /\ GateTypeOK
  BY DEF Commit, Forget, AppendRows, Transition, GateInv, SeqInv
<1>2. /\ turnCount \in Nat /\ seen \in [Turn -> Nat] /\ seen[t] <= turnCount
      /\ \A a \in Proposed : proposal[a].turn_seq \in Nat
  BY <1>1, ProposalsNumbered DEF GateTypeOK, SeqTurnOK
<1>3. /\ Proposed \subseteq Proposed'
      /\ \A a \in Proposed' \ Proposed :
           a = out[t].action /\ out[t].stage = "awaiting_confirmation"
  BY CommitProposes
<1>4. ASSUME NEW u \in Turn PROVE SeqTurnOK(u)'
  <2>1. CASE u = t
    <3>1. /\ pc'[u] = "done" /\ out'[u] = NoReply /\ seen'[u] = 0 /\ start'[u] = NoStart
      BY <1>1, <2>1 DEF GateTypeOK
    <3> QED
      BY <1>1, <1>2, <3>1 DEF SeqTurnOK, NoReply, NoStart
  <2>2. CASE u # t
    <3>1. /\ pc'[u] = pc[u] /\ out'[u] = out[u] /\ seen'[u] = seen[u] /\ start'[u] = start[u]
          /\ SeqTurnOK(u)
      BY <1>1, <2>2 DEF GateTypeOK, SeqInv
    <3>2. seen[u] <= turnCount + 2
      BY <1>2, <3>1 DEF SeqTurnOK
    <3> QED
      BY <1>1, <1>3, <3>1, <3>2 DEF SeqTurnOK
  <2> QED
    BY <2>1, <2>2
<1>5. ASSUME NEW a \in Proposed' PROVE proposal'[a].turn_seq + 1 <= turnCount'
  <2>1. CASE a \in Proposed
    BY <1>1, <1>2, <2>1 DEF SeqInv
  <2>2. CASE a \notin Proposed
    <3>1. a = out[t].action /\ out[t].stage = "awaiting_confirmation"
      BY <1>3, <2>2
    <3>2. a = t
      BY <1>1, <2>2, <3>1 DEF TurnOK
    <3> QED
      BY <1>1, <1>2, <3>1, <3>2 DEF SeqTurnOK
  <2> QED
    BY <2>1, <2>2
<1>6. ASSUME NEW a \in Answered'
      PROVE  a \in Proposed' /\ proposal'[a].turn_seq + 3 <= turnCount'
  <2>1. CASE a \in Answered
    BY <1>1, <1>2, <1>3, <2>1 DEF SeqInv
  <2>2. CASE a \notin Answered
    <3>1. a = out[t].action /\ a # t /\ a # None
      BY <2>2, CommitAnswers, GateAssumption DEF Answered
    <3>2. a \in Proposed
      BY <1>1, <3>1 DEF SeqTurnOK
    <3>3. proposal[a].turn_seq \in Nat /\ proposal[a].turn_seq + 1 <= turnCount
      BY <1>2, <3>2 DEF SeqInv
    <3> QED
      BY <1>1, <1>2, <1>3, <3>2, <3>3
  <2> QED
    BY <2>1, <2>2
<1> QED
  BY <1>4, <1>5, <1>6 DEF SeqInv

(* The surroundings keep SeqInv. *)
LEMMA SeqOutside ==
  ASSUME SeqInv, UNCHANGED <<turnVars, audit, turnCount, start>>
  PROVE  SeqInv'
BY DEF SeqInv, SeqTurnOK, turnVars, Proposed, WithStatus, Answered

(* SeqInv is invariant. *)
LEMMA SeqInvariant == Spec => []SeqInv
<1>1. Init => SeqInv
  BY DEF Init, SeqInv, SeqTurnOK, NoReply, NoStart, Proposed, WithStatus, Answered
<1>2. ASSUME GateInv, SeqInv, [Next]_vars PROVE SeqInv'
  <2>1. CASE \E t \in Turn : Local(t) \/ Commit(t)
    BY <1>2, <2>1, SeqLocalInv, SeqCommitInv
  <2>2. CASE WorldNext
    BY <1>2, <2>2, SeqOutside
       DEF WorldNext, Tick, update_tool, update_product, ChangeTerms, Change, chatVars, ghostVars
  <2>3. CASE UNCHANGED gateVars
    BY <1>2, <2>3, SeqOutside DEF gateVars, chatVars, ghostVars
  <2> QED
    BY <1>2, <2>1, <2>2, <2>3, StepCases
<1> QED
  BY <1>1, <1>2, GateInvariant, PTL DEF Spec

(* A step that changes a row is the commit of the turn that flushed it. *)
LEMMA OnlyCommitsChangeRows ==
  ASSUME GateInv, [Next]_vars, NEW t \in Turn, row'[t] # row[t]
  PROVE  /\ Commit(t) /\ out[t].inserts
         /\ row'[t].key = out[t].action
<1>1. PICK u \in Turn : Commit(u)
  <2>1. ASSUME NEW u \in Turn, Local(u) PROVE UNCHANGED row
    BY <2>1, LocalIsOnlyTurn DEF OnlyTurn
  <2>2. CASE WorldNext
    BY <2>2 DEF WorldNext, Tick, update_tool, update_product, ChangeTerms, Change, chatVars
  <2>3. CASE UNCHANGED gateVars
    BY <2>3 DEF gateVars, chatVars
  <2> QED
    BY <2>1, <2>2, <2>3, StepCases
<1>2. out[u].inserts
  BY <1>1, CommitTakesEffect
<1>3. u = t /\ row'[t].key = out[u].action
  BY <1>1, <1>2, CommitTakesEffect DEF GateInv, GateTypeOK
<1> QED
  BY <1>1, <1>2, <1>3

(* A turn never executes an action that another turn had answered before the     *)
(* request arrived, for any number of turns that share a seq and in any order.   *)
THEOREM AnsweredAlwaysFinal == Spec => AnsweredIsFinal
<1>1. ASSUME GateInv, SeqInv, [Next]_vars
      PROVE  [\A t \in Turn : row'[t] # row[t] => row'[t].key \notin start[t].answered]_vars
  BY <1>1, OnlyCommitsChangeRows DEF SeqInv, SeqTurnOK
<1> QED
  BY <1>1, GateInvariant, SeqInvariant, PTL DEF Spec, AnsweredIsFinal

--------------------------------------------------------------------------------
(***************************************************************************)
(* What is ordered was on offer.                                           *)
(***************************************************************************)

(* What a turn read of the menu was on offer since it arrived, and so is what it *)
(* is about to insert.                                                           *)
MenuTurnOK(t) ==
  /\ pc[t] \in InFlight => world.available \subseteq live[t]
  /\ pc[t] \in {"idle", "history", "pending"} => ctx[t] = None
  /\ ctx[t] # None => ctx[t].available \subseteq live[t]
  /\ pc[t] = "insert" \/ out[t].inserts =>
       (ConfirmedPlan(t).tool = "create_order" => ConfirmedPlan(t).product \in live[t])

MenuInv == \A t \in Turn : MenuTurnOK(t)

(* Every local step keeps MenuInv: the item is looked up again before the insert. *)
LEMMA MenuLocalInv ==
  ASSUME GateInv, MenuInv, NEW t \in Turn, Local(t)
  PROVE  MenuInv'
<1>1. MenuTurnOK(t) /\ TurnOK(t) /\ GateTypeOK
  BY DEF MenuInv, GateInv
<1>2. OnlyTurn(t) /\ t \notin Proposed
  BY LocalIsOnlyTurn DEF GateInv, ProposedOK
<1>3. UNCHANGED world /\ \A u \in Turn \ {t} : live'[u] = live[u]
  BY <1>1 DEF Local, ReadHistory, ReadPending, BuildContext, Answer, UnknownTool, Reject,
     Propose, RunReadTool, KeepAsking, Expire, Decline, Say, Confirm, Replay, RefuseToExecute,
     Finish, PrepareInsert, Insert, CancelOrder, FailCommit, Rollback, Discard, Forget,
     worldVars, ghostVars, GateTypeOK
<1>4. \A a \in Proposed : proposal'[a] = proposal[a]
  BY <1>2 DEF OnlyTurn, Proposed, WithStatus
<1>5. ASSUME NEW u \in Turn, u # t PROVE MenuTurnOK(u)'
  <2>1. /\ pc'[u] = pc[u] /\ ctx'[u] = ctx[u] /\ out'[u] = out[u] /\ live'[u] = live[u]
        /\ MenuTurnOK(u) /\ TurnOK(u)
    BY <1>2, <1>3, <1>5 DEF OnlyTurn, MenuInv, GateInv
  <2>2. pc[u] = "insert" \/ out[u].inserts => out[u].action \in Proposed
    BY <2>1 DEF TurnOK
  <2> QED
    BY <1>3, <1>4, <2>1, <2>2 DEF MenuTurnOK, ConfirmedPlan
<1>6. MenuTurnOK(t)'
  <2>1. CASE ReadHistory(t)
    <3>1. /\ pc[t] = "idle" /\ pc'[t] = "history" /\ ctx'[t] = None /\ ~out'[t].inserts
          /\ live'[t] = world.enabled \cup world.available
      BY <1>1, <2>1 DEF ReadHistory, Transition, MenuTurnOK, TurnOK, NoReply, GateTypeOK
    <3> QED
      BY <1>3, <3>1 DEF MenuTurnOK
  <2>2. CASE ReadPending(t)
    <3>1. /\ pc[t] = "history" /\ pc'[t] = "pending" /\ ctx'[t] = None /\ ~out'[t].inserts
          /\ live' = live
      BY <1>1, <2>2 DEF ReadPending, Transition, MenuTurnOK, TurnOK, NoReply, GateTypeOK,
                        ghostVars
    <3> QED
      BY <1>1, <1>3, <3>1 DEF MenuTurnOK, InFlight
  <2>3. CASE BuildContext(t)
    <3>1. /\ pc[t] = "pending" /\ pc'[t] = "context" /\ ctx'[t].available = world.available
          /\ ~out'[t].inserts /\ live' = live
      BY <1>1, <2>3 DEF BuildContext, Transition, TurnOK, NoReply, GateTypeOK, ghostVars
    <3> QED
      BY <1>1, <1>3, <3>1 DEF MenuTurnOK, InFlight
  <2>4. CASE \/ Answer(t) \/ UnknownTool(t) \/ Reject(t) \/ Propose(t) \/ RunReadTool(t)
             \/ KeepAsking(t) \/ Expire(t) \/ Decline(t)
    <3>1. PICK reply : pc[t] = "context" /\ Say(t, reply) /\ ~reply.inserts
      BY <2>4, SayCases
    <3>2. pc'[t] = "commit" /\ ctx' = ctx /\ live' = live /\ ~out'[t].inserts
      BY <1>1, <3>1 DEF Say, Transition, GateTypeOK, ghostVars
    <3> QED
      BY <1>1, <1>3, <3>1, <3>2 DEF MenuTurnOK, InFlight
  <2>5. CASE Confirm(t)
    <3>1. /\ pc[t] = "context" /\ pc'[t] = "lookup" /\ ctx' = ctx /\ live' = live
          /\ ~out'[t].inserts
      BY <1>1, <2>5 DEF Confirm, Resolving, Transition, GateTypeOK, NoReply, ghostVars
    <3> QED
      BY <1>1, <1>3, <3>1 DEF MenuTurnOK, InFlight
  <2>6. CASE PrepareInsert(t)
    <3>1. /\ pc[t] = "lookup" /\ pc'[t] = "insert" /\ ctx' = ctx /\ live' = live
          /\ out'[t].action = out[t].action /\ proposal' = proposal
          /\ StillOrderable(ConfirmedPlan(t), ctx[t])
      BY <1>1, <2>6 DEF PrepareInsert, Transition, GateTypeOK, Outgoing, ghostVars
    <3>2. ctx[t] \in PolicyContext /\ ctx[t] # None
      BY <1>1, <3>1, GateAssumption DEF TurnOK
    <3>3. ConfirmedPlan(t).tool = "create_order" => ConfirmedPlan(t).product \in live[t]
      BY <1>1, <3>1, <3>2 DEF StillOrderable, ItemsAvailable, MenuTurnOK
    <3> QED
      BY <1>1, <1>3, <3>1, <3>3 DEF MenuTurnOK, ConfirmedPlan, InFlight
  <2>7. CASE Insert(t)
    <3>1. /\ pc[t] = "insert" /\ pc'[t] \in {"commit", "doomed"} /\ ctx' = ctx /\ live' = live
          /\ out'[t].action = out[t].action /\ proposal' = proposal
      BY <1>1, <2>7 DEF Insert, Transition, GateTypeOK, Outgoing, ghostVars
    <3> QED
      BY <1>1, <1>3, <3>1 DEF MenuTurnOK, ConfirmedPlan, InFlight
  <2>8. CASE Replay(t) \/ RefuseToExecute(t) \/ CancelOrder(t)
    <3>0. PICK outcome : Finish(t, outcome)
      BY <2>8 DEF Replay, RefuseToExecute, CancelOrder
    <3>1. /\ pc[t] = "lookup" /\ pc'[t] = "commit" /\ ctx' = ctx /\ live' = live
          /\ ~out'[t].inserts
      BY <1>1, <3>0 DEF Finish, Transition, TurnOK, GateTypeOK, Outgoing, ghostVars
    <3> QED
      BY <1>1, <1>3, <3>1 DEF MenuTurnOK, InFlight
  <2>9. CASE FailCommit(t) \/ Rollback(t)
    <3>1. pc'[t] = "failed" /\ ctx'[t] = None /\ ~out'[t].inserts
      BY <1>1, <2>9 DEF FailCommit, Rollback, Discard, Forget, NoReply, GateTypeOK
    <3> QED
      BY <3>1 DEF MenuTurnOK, InFlight
  <2> QED
    BY <2>1, <2>2, <2>3, <2>4, <2>5, <2>6, <2>7, <2>8, <2>9 DEF Local
<1> QED
  BY <1>5, <1>6 DEF MenuInv

(* The commit keeps MenuInv. *)
LEMMA MenuCommitInv ==
  ASSUME GateInv, MenuInv, NEW t \in Turn, Commit(t)
  PROVE  MenuInv'
<1>1. /\ pc' = [pc EXCEPT ![t] = "done"] /\ out' = [out EXCEPT ![t] = NoReply]
      /\ ctx' = [ctx EXCEPT ![t] = None] /\ live' = [live EXCEPT ![t] = {}]
      /\ proposal' = proposal /\ world' = world /\ GateTypeOK
  BY DEF Commit, Forget, Transition, worldVars, GateInv
<1>2. ASSUME NEW u \in Turn PROVE MenuTurnOK(u)'
  <2>1. CASE u = t
    BY <1>1, <2>1 DEF MenuTurnOK, NoReply, InFlight, GateTypeOK
  <2>2. CASE u # t
    BY <1>1, <2>2 DEF MenuInv, MenuTurnOK, ConfirmedPlan, GateTypeOK
  <2> QED
    BY <2>1, <2>2
<1> QED
  BY <1>2 DEF MenuInv

(* A change in the dashboard keeps MenuInv: it adds what it offers to live. *)
LEMMA MenuWorldInv ==
  ASSUME GateInv, MenuInv, WorldNext
  PROVE  MenuInv'
<1>1. CASE Tick
  BY <1>1 DEF Tick, MenuInv, MenuTurnOK, ConfirmedPlan, turnVars, ghostVars
<1>2. CASE ~Tick
  <2>1. PICK w : Change(w)
    BY <1>2 DEF WorldNext, update_tool, update_product, ChangeTerms
  <2>2. /\ world' = w /\ UNCHANGED <<pc, ctx, out, proposal>>
        /\ \A t \in Turn : live'[t] = IF pc[t] \in InFlight
                                      THEN live[t] \cup w.enabled \cup w.available ELSE live[t]
    BY <2>1 DEF Change, turnVars
  <2> QED
    BY <2>2 DEF MenuInv, MenuTurnOK, ConfirmedPlan
<1> QED
  BY <1>1, <1>2

(* MenuInv is invariant. *)
LEMMA MenuInvariant == Spec => []MenuInv
<1>1. Init => MenuInv
  BY DEF Init, MenuInv, MenuTurnOK, NoReply, InFlight
<1>2. ASSUME GateInv, MenuInv, [Next]_vars PROVE MenuInv'
  <2>1. CASE \E t \in Turn : Local(t) \/ Commit(t)
    BY <1>2, <2>1, MenuLocalInv, MenuCommitInv
  <2>2. CASE UNCHANGED gateVars
    BY <2>2, <1>2 DEF gateVars, worldVars, turnVars, ghostVars, MenuInv, MenuTurnOK, ConfirmedPlan
  <2> QED
    BY <1>2, <2>1, <2>2, MenuWorldInv, StepCases
<1> QED
  BY <1>1, <1>2, GateInvariant, PTL DEF Spec

(* An order holds only what was on the menu at some time during the request that *)
(* placed it, whatever the dashboard does meanwhile.                             *)
THEOREM OrderedAlwaysWasOnOffer == Spec => OrderedWasOnOffer
<1>1. ASSUME GateInv, MenuInv, [Next]_vars, NEW t \in Turn, row'[t] # row[t], kind'[t] = "order"
      PROVE  proposal[row'[t].key].plan.product \in live[t]
  <2>1. Commit(t) /\ out[t].inserts /\ row'[t].key = out[t].action
    BY <1>1, OnlyCommitsChangeRows
  <2>2. kind'[t] = TableOf(ConfirmedPlan(t).tool)
    BY <1>1, <2>1 DEF Commit, CommitRows, InsertRow, GateInv, GateTypeOK, DeskTypeOK
  <2>3. ConfirmedPlan(t).tool = "create_order"
    BY <1>1, <2>2 DEF TableOf
  <2> QED
    BY <1>1, <2>1, <2>3 DEF MenuInv, MenuTurnOK, ConfirmedPlan
<1>2. GateInv /\ MenuInv /\ [Next]_vars =>
        [\A t \in Turn : row'[t] # row[t] /\ kind'[t] = "order"
           => proposal[row'[t].key].plan.product \in live[t]]_vars
  BY <1>1
<1> QED
  BY <1>2, GateInvariant, MenuInvariant, PTL DEF Spec, OrderedWasOnOffer
================================================================================
