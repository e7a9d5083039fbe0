------------------------------- MODULE ActionGate ------------------------------
(***************************************************************************)
(* One conversation with the ordering agent, as the API runs it.           *)
(*                                                                         *)
(* A turn is one POST .../turns request: post_turn (agent/service.py)      *)
(* rebuilds the conversation from its rows, resolves the policy context,   *)
(* calls run_turn (ordy_agent/engine.py) and stores the reply, all in one  *)
(* READ COMMITTED transaction that commits when the request succeeds.      *)
(* Requests run concurrently and every await is a place where another one  *)
(* may commit, so a turn is a sequence of steps:                           *)
(*                                                                         *)
(*   idle -> history -> pending -> context -> [lookup -> [insert ->]]      *)
(*        -> commit -> done                    (or failed, from any step)  *)
(*                                                                         *)
(* The rows an action inserts and the status changes of staff are those of *)
(* OrderDesk.  An action id is a fresh uuid4 minted by the turn that       *)
(* proposes it, so the proposing turn names the action.                    *)
(***************************************************************************)
EXTENDS OrderDesk, Integers, FiniteSets

CONSTANTS
  Product,         \* menu items; a plan's lines are abstracted to one of them
  Price,           \* prices an item may have
  Fee,             \* delivery fees a zone may have
  TTL,             \* DEFAULT_TTL_SECONDS, in ticks of the clock
  MinDelivery,     \* min_order_minor of the delivery policy
  MaxOrder,        \* max_order_minor after tightening
  MaxActions,      \* max_actions_per_conversation after tightening
  BrainPlans,      \* the plans the brain may come up with in this instance
  MaxTime,         \* bound on the clock
  MaxEdits         \* bound on the number of changes made in the dashboard

WriteTool == {"create_order", "make_reservation", "cancel_order"}  \* requires_confirmation
ReadTool == {"check_availability", "get_order_status", "request_human_handoff"}
Tool == WriteTool \cup ReadTool
Service == {"pickup", "delivery", "dine_in", "reservation"}

(* A step of a plan: its items, its type, and whether its arguments alone pass *)
(* (the schema, the item, quantity and party size caps).                       *)
Plan == [tool : Tool \cup {"unlisted"}, product : Product, service : Service,
         wellformed : BOOLEAN]

DEFAULT_MAX_TURN_GAP == 2

VARIABLES
  world,     \* what the dashboard controls: tools, menu, hours, delivery fee
  edits,     \* number of changes made to it so far
  now,       \* the clock
  turnCount, \* number of committed conversation_turns rows
  lastSeq,   \* highest seq of a committed agent row, -1 when there is none
  replies,   \* pending_confirmation of each agent row that has that seq
  escalated, \* the conversation's status is ESCALATED
  audit,     \* action_executions rows
  proposal,  \* proposal[a]: the ConfirmationRequest minted for action a
  row,       \* row[r]: idempotency key and total of the row turn r inserted
  pc,        \* where each turn is
  seen,      \* len(state.turns) as the turn rebuilt it, before its own row
  pend,      \* the pending confirmation the turn rehydrated
  ctx,       \* the turn's PolicyContext
  out,       \* what the turn will write when it commits
  start,     \* history variable: what was committed when the turn arrived
  live       \* history variable: tools and items on offer at some time since then

worldVars == <<world, edits, now>>
chatVars == <<turnCount, lastSeq, replies, escalated, audit, row>>
turnVars == <<pc, seen, pend, ctx, out, proposal>>
ghostVars == <<start, live>>
gateVars == <<worldVars, chatVars, turnVars, ghostVars>>
vars == <<gateVars, deskVars>>

World == [enabled : SUBSET Tool, available : SUBSET Product, price : [Product -> Price],
          fee : Fee, open : SUBSET Service]

PolicyContext == [enabled : SUBSET Tool, available : SUBSET Product, price : [Product -> Price],
                  fee : Fee, open : SUBSET Service, actions_taken : Nat]

ConfirmationRequest == [plan : Plan, total : Nat, expires : Nat, turn_seq : Nat]

OwnRow == [key : Turn, total : Nat]

ASSUME GateAssumption ==
  /\ Price \subseteq Nat
  /\ Fee \subseteq Nat
  /\ TTL \in Nat
  /\ BrainPlans \subseteq Plan
  /\ None \notin Turn \cup PolicyContext \cup ConfirmationRequest \cup OwnRow

Stage == {"none", "proposed", "rejected", "awaiting_confirmation", "declined", "expired",
          "executed"}

Outcome == {"none", "succeeded", "failed"}

Outgoing == [stage : Stage, action : Turn \cup {None}, pending : Turn \cup {None},
             outcome : Outcome, inserts : BOOLEAN, total : Nat, escalates : BOOLEAN]

NoReply == [stage |-> "none", action |-> None, pending |-> None, outcome |-> "none",
            inserts |-> FALSE, total |-> 0, escalates |-> FALSE]

AuditStatus == {"proposed", "rejected", "awaiting_confirmation", "declined", "expired",
                "succeeded", "failed"}

AuditRow == [action : Turn \cup {None}, status : AuditStatus, by : Turn]

InFlight == {"history", "pending", "context", "lookup", "insert", "commit", "doomed"}

PC == InFlight \cup {"idle", "done", "failed"}

(* The actions the committed audit trail has in a given status. *)
WithStatus(s) == {a \in Turn : \E e \in audit : e.action = a /\ e.status = s}

Proposed == WithStatus("awaiting_confirmation")
Succeeded == WithStatus("succeeded")

(* ... and those some turn has dealt with since they were proposed. *)
Answered == {a \in Turn : \E e \in audit : e.action = a /\ e.by # a}

GateTypeOK ==
  /\ DeskTypeOK
  /\ world \in World
  /\ edits \in Nat /\ now \in Nat /\ turnCount \in Nat /\ lastSeq \in Int
  /\ replies \subseteq Turn \cup {None}
  /\ escalated \in BOOLEAN
  /\ audit \subseteq AuditRow
  /\ proposal \in [Turn -> ConfirmationRequest \cup {None}]
  /\ row \in [Turn -> OwnRow \cup {None}]
  /\ pc \in [Turn -> PC]
  /\ seen \in [Turn -> Nat]
  /\ pend \in [Turn -> Turn \cup {None}]
  /\ ctx \in [Turn -> PolicyContext \cup {None}]
  /\ out \in [Turn -> Outgoing]
  /\ start \in [Turn -> [proposed : SUBSET Turn, answered : SUBSET Turn]]
  /\ live \in [Turn -> SUBSET (Tool \cup Product)]

NoStart == [proposed |-> {}, answered |-> {}]

Init ==
  /\ DeskInit
  /\ world \in [enabled : {Tool}, available : {Product}, price : [Product -> Price],
                fee : Fee, open : {Service}]
  /\ edits = 0 /\ now = 0 /\ turnCount = 0 /\ lastSeq = -1
  /\ replies = {}
  /\ escalated = FALSE
  /\ audit = {}
  /\ proposal = [t \in Turn |-> None]
  /\ row = [t \in Turn |-> None]
  /\ pc = [t \in Turn |-> "idle"]
  /\ seen = [t \in Turn |-> 0]
  /\ pend = [t \in Turn |-> None]
  /\ ctx = [t \in Turn |-> None]
  /\ out = [t \in Turn |-> NoReply]
  /\ start = [t \in Turn |-> NoStart]
  /\ live = [t \in Turn |-> {}]

Transition(t, from, to) == pc[t] = from /\ pc' = [pc EXCEPT ![t] = to]

--------------------------------------------------------------------------------
(***************************************************************************)
(* post_turn up to run_turn: three groups of SELECTs, each of which sees   *)
(* whatever is committed when it runs.                                     *)
(***************************************************************************)

(* The request arrives and reads the conversation's rows. *)
ReadHistory(t) ==
  /\ Transition(t, "idle", "history")
  /\ seen' = [seen EXCEPT ![t] = turnCount]
  /\ start' = [start EXCEPT ![t] = [proposed |-> Proposed, answered |-> Answered]]
  /\ live' = [live EXCEPT ![t] = world.enabled \cup world.available]
  /\ UNCHANGED <<worldVars, chatVars, deskVars, pend, ctx, out, proposal>>

(* Variant for the mutation checks: uncommitted rows of other turns are read as well. *)
ReadPending_Dirty(t) ==
  /\ Transition(t, "history", "pending")
  /\ \E p \in replies \cup {out[u].pending : u \in Turn} :
       pend' = [pend EXCEPT ![t] = p]
  /\ UNCHANGED <<worldVars, chatVars, deskVars, ghostVars, seen, ctx, out, proposal>>

(* The pending confirmation is whatever the last agent row carries.  seq is  *)
(* not unique: among rows that share the highest one the database picks.     *)
ReadPending(t) ==
  /\ Transition(t, "history", "pending")
  /\ \E p \in IF replies = {} THEN {None} ELSE replies :
       pend' = [pend EXCEPT ![t] = p]
  /\ UNCHANGED <<worldVars, chatVars, deskVars, ghostVars, seen, ctx, out, proposal>>

(* build_policy_context: a fresh context, with actions_taken left at its default *)
BuildContext(t) ==
  /\ Transition(t, "pending", "context")
  /\ ctx' = [ctx EXCEPT ![t] = [enabled |-> world.enabled, available |-> world.available,
                                price |-> world.price, fee |-> world.fee,
                                open |-> world.open, actions_taken |-> 0]]
  /\ UNCHANGED <<worldVars, chatVars, deskVars, ghostVars, seen, pend, out, proposal>>

--------------------------------------------------------------------------------
(***************************************************************************)
(* run_turn without a pending confirmation.                                *)
(***************************************************************************)

(* run_turn starts: a pending confirmation owns the turn. *)
Resolving(t) == pc[t] = "context" /\ pend[t] # None
Free(t) == pc[t] = "context" /\ pend[t] = None

(* What the turn leaves in memory when no tool runs. *)
Say(t, reply) ==
  /\ Transition(t, "context", "commit")
  /\ out' = [out EXCEPT ![t] = reply]
  /\ UNCHANGED <<worldVars, chatVars, deskVars, ghostVars, seen, pend, ctx>>

(* Handoff, smalltalk, and the knowledge route, which also takes the turns for *)
(* which the brain has no plan.  A handoff and an ungrounded answer escalate.  *)
Answer(t) ==
  /\ Free(t)
  /\ \E e \in BOOLEAN : Say(t, [NoReply EXCEPT !.escalates = e])
  /\ UNCHANGED proposal

(* validate_action: whitelist, schema, then the validators of the ToolSpec. *)
ItemsAvailable(p, c) == p.product \in c.available
OpenHours(p, c) == p.service \in c.open
DeliveryZone(p, c) == p.service = "delivery" => c.price[p.product] >= MinDelivery
OrderCaps(p, c) == c.price[p.product] <= MaxOrder
ReservationRules(p, c) == "reservation" \in c.open
ActionBudget(c) == c.actions_taken < MaxActions

validate_action(p, c) ==
  /\ p.tool \in c.enabled
  /\ p.wellformed
  /\ p.tool = "create_order" =>
       ItemsAvailable(p, c) /\ OpenHours(p, c) /\ DeliveryZone(p, c) /\ OrderCaps(p, c)
  /\ p.tool = "make_reservation" => ReservationRules(p, c)
  /\ p.tool # "request_human_handoff" => ActionBudget(c)

(* price_items, the total the summary shows: the delivery fee is not in it. *)
SummaryTotal(p, c) == IF p.tool = "create_order" THEN c.price[p.product] ELSE 0

(* A tool that is not in the catalog, or a plan the gate rejects. *)
UnknownTool(t) ==
  /\ Free(t)
  /\ \E p \in BrainPlans : p.tool \notin Tool
  /\ Say(t, [NoReply EXCEPT !.stage = "proposed"])
  /\ UNCHANGED proposal

Reject(t) ==
  /\ Free(t)
  /\ \E p \in BrainPlans : p.tool \in Tool /\ ~validate_action(p, ctx[t])
  /\ Say(t, [NoReply EXCEPT !.stage = "rejected", !.action = t])
  /\ UNCHANGED proposal

(* A write tool that passes the gate waits for the customer's yes.  turn_seq is *)
(* len(state.turns), this customer turn included.                               *)
Propose(t) ==
  /\ Free(t)
  /\ \E p \in BrainPlans :
       /\ p.tool \in WriteTool
       /\ validate_action(p, ctx[t])
       /\ proposal' = [proposal EXCEPT ![t] =
            [plan |-> p, total |-> SummaryTotal(p, ctx[t]), expires |-> now + TTL,
             turn_seq |-> seen[t] + 1]]
  /\ Say(t, [NoReply EXCEPT !.stage = "awaiting_confirmation", !.action = t, !.pending = t])

(* A read tool runs at once; the native adapter only looks things up. *)
RunReadTool(t) ==
  /\ Free(t)
  /\ \E p \in BrainPlans : p.tool \in ReadTool /\ validate_action(p, ctx[t])
  /\ Say(t, [NoReply EXCEPT !.stage = "executed", !.action = t, !.outcome = "succeeded"])
  /\ UNCHANGED proposal

--------------------------------------------------------------------------------
(***************************************************************************)
(* _resolve_pending: a pending confirmation owns the turn.                 *)
(***************************************************************************)

(* Variant for the mutation checks: the conversational distance is not looked at. *)
FreshInTimeOnly(t) == now <= proposal[pend[t]].expires

(* resolve_confirmation: consent is fresh in time and in conversational distance *)
Fresh(t) ==
  /\ now <= proposal[pend[t]].expires
  /\ seen[t] + 1 - proposal[pend[t]].turn_seq <= DEFAULT_MAX_TURN_GAP

(* interpret_response finds neither a yes nor a no: the summary is read again and *)
(* the confirmation stays pending, however old it is.                             *)
KeepAsking(t) ==
  /\ Resolving(t)
  /\ Say(t, [NoReply EXCEPT !.stage = "awaiting_confirmation", !.action = pend[t],
                            !.pending = pend[t]])
  /\ UNCHANGED proposal

(* A yes or a no that comes too late. *)
Expire(t) ==
  /\ Resolving(t)
  /\ ~Fresh(t)
  /\ Say(t, [NoReply EXCEPT !.stage = "expired", !.action = pend[t]])
  /\ UNCHANGED proposal

(* A no in time. *)
Decline(t) ==
  /\ Resolving(t)
  /\ Fresh(t)
  /\ Say(t, [NoReply EXCEPT !.stage = "declined", !.action = pend[t]])
  /\ UNCHANGED proposal

(* A yes in time: the action goes to the executor with the arguments that were *)
(* proposed and the action id as idempotency key.  The gate is not run again.  *)
Confirm(t) ==
  /\ Resolving(t)
  /\ Fresh(t)
  /\ Transition(t, "context", "lookup")
  /\ out' = [out EXCEPT ![t] = [NoReply EXCEPT !.stage = "executed", !.action = pend[t]]]
  /\ UNCHANGED <<worldVars, chatVars, deskVars, ghostVars, seen, pend, ctx, proposal>>

--------------------------------------------------------------------------------
(***************************************************************************)
(* execute_action with the DbNativeAdapter.                                *)
(***************************************************************************)

ConfirmedPlan(t) == proposal[out[t].action].plan

(* Rows a SELECT by idempotency key finds. *)
RowsOf(a) == {r \in Turn : row[r] # None /\ row[r].key = a}

Inserts(tool) == tool \in {"create_order", "make_reservation"}

TableOf(tool) == IF tool = "create_order" THEN "order" ELSE "reservation"

(* The adapter returns, or raises, without having written anything. *)
Finish(t, outcome) ==
  /\ Transition(t, "lookup", "commit")
  /\ out' = [out EXCEPT ![t].outcome = outcome]
  /\ UNCHANGED <<worldVars, chatVars, ghostVars, seen, pend, ctx, proposal>>

(* The key is taken by a committed row: its data is returned.  A reservation's   *)
(* status is returned as it is now, and only "confirmed" passes the output schema. *)
Replay(t) ==
  LET tool == ConfirmedPlan(t).tool IN
  /\ pc[t] = "lookup"
  /\ Inserts(tool)
  /\ \E r \in RowsOf(out[t].action) :
       Finish(t, IF tool = "create_order" \/ status[r] = "confirmed"
                 THEN "succeeded" ELSE "failed")
  /\ UNCHANGED deskVars

(* The call raises before it writes: an item that left the menu or was switched *)
(* off since the proposal, or a start time that does not parse.                 *)
RefuseToExecute(t) ==
  LET p == ConfirmedPlan(t) IN
  /\ pc[t] = "lookup"
  /\ Inserts(p.tool)
  /\ RowsOf(out[t].action) = {}
  /\ p.tool = "create_order" => ~ItemsAvailable(p, ctx[t])
  /\ Finish(t, "failed")
  /\ UNCHANGED deskVars

(* Variant for the mutation checks: the cart is not priced again on execution. *)
StillOrderable_Unchecked(p, c) == TRUE

StillOrderable(p, c) == p.tool = "create_order" => ItemsAvailable(p, c)

(* The order is priced from this turn's menu, with this turn's delivery fee; *)
(* session.add, then the flush that inserts the row.                         *)
OrderTotal(p, c) ==
  IF p.tool = "create_order"
  THEN c.price[p.product] + (IF p.service = "delivery" THEN c.fee ELSE 0)
  ELSE 0

PrepareInsert(t) ==
  LET p == ConfirmedPlan(t) IN
  /\ pc[t] = "lookup"
  /\ Inserts(p.tool)
  /\ RowsOf(out[t].action) = {}
  /\ StillOrderable(p, ctx[t])
  /\ Transition(t, "lookup", "insert")
  /\ out' = [out EXCEPT ![t].total = OrderTotal(p, ctx[t])]
  /\ UNCHANGED <<worldVars, chatVars, deskVars, ghostVars, seen, pend, ctx, proposal>>

(* Turn u has flushed a row under key a and has not committed yet. *)
Holds(u, a) == pc[u] = "commit" /\ out[u].inserts /\ out[u].action = a

(* Variants of the flush, for the mutation checks: without the unique index a   *)
(* second row goes in; an INSERT that never reports the conflict waits for ever. *)
Insert_NoUniqueIndex(t) ==
  /\ Transition(t, "insert", "commit")
  /\ out' = [out EXCEPT ![t].inserts = TRUE, ![t].outcome = "succeeded"]
  /\ UNCHANGED <<worldVars, chatVars, deskVars, ghostVars, seen, pend, ctx, proposal>>

Insert_NeverFails(t) ==
  /\ \A u \in Turn \ {t} : ~Holds(u, out[t].action)
  /\ RowsOf(out[t].action) = {}
  /\ Transition(t, "insert", "commit")
  /\ out' = [out EXCEPT ![t].inserts = TRUE, ![t].outcome = "succeeded"]
  /\ UNCHANGED <<worldVars, chatVars, deskVars, ghostVars, seen, pend, ctx, proposal>>

(* The INSERT under the unique index (restaurant_id, idempotency_key): it waits *)
(* for a transaction that holds the key, and fails when the key is taken.  The  *)
(* failure is reported as a failed outcome, but the session cannot commit any   *)
(* more.                                                                        *)
Insert(t) ==
  /\ \A u \in Turn \ {t} : ~Holds(u, out[t].action)
  /\ IF RowsOf(out[t].action) = {}
     THEN /\ Transition(t, "insert", "commit")
          /\ out' = [out EXCEPT ![t].inserts = TRUE, ![t].outcome = "succeeded"]
     ELSE /\ Transition(t, "insert", "doomed")
          /\ out' = [out EXCEPT ![t].outcome = "failed"]
  /\ UNCHANGED <<worldVars, chatVars, deskVars, ghostVars, seen, pend, ctx, proposal>>

(* cancel_order answers "cancelled" whether or not it found an order to cancel;   *)
(* its order_ref may be the tracking token of any order, or of none (kind absent). *)
CancelOrder(t) ==
  /\ pc[t] = "lookup"
  /\ ConfirmedPlan(t).tool = "cancel_order"
  /\ \E r \in Turn : CancelRead(t, r)
  /\ Finish(t, "succeeded")

--------------------------------------------------------------------------------
(***************************************************************************)
(* The end of post_turn and the commit of its transaction.                 *)
(***************************************************************************)

(* Variant for the mutation checks: the outcome is taken for the status of every stage. *)
AuditRows_OutcomeOnly(t) ==
  LET o == out[t] IN
  IF o.stage = "none" THEN {} ELSE {[action |-> o.action, by |-> t, status |-> o.outcome]}

(* _persist_actions: nothing for a turn that left the action route. *)
AuditRows(t) ==
  LET o == out[t] IN
  IF o.stage = "none" THEN {}
  ELSE {[action |-> o.action, by |-> t,
         status |-> IF o.stage = "executed" THEN o.outcome ELSE o.stage]}

Forget(t) ==
  /\ seen' = [seen EXCEPT ![t] = 0]
  /\ pend' = [pend EXCEPT ![t] = None]
  /\ ctx' = [ctx EXCEPT ![t] = None]
  /\ out' = [out EXCEPT ![t] = NoReply]
  /\ start' = [start EXCEPT ![t] = NoStart]
  /\ live' = [live EXCEPT ![t] = {}]

(* The agent row goes to seq + 1, where seq is the length of the history the turn *)
(* read; only the rows at the highest seq matter to later turns.                  *)
AppendRows(t) ==
  LET at == seen[t] + 1 IN
  /\ turnCount' = turnCount + 2
  /\ lastSeq' = IF at > lastSeq THEN at ELSE lastSeq
  /\ replies' = IF at > lastSeq THEN {out[t].pending}
                ELSE IF at = lastSeq THEN replies \cup {out[t].pending}
                ELSE replies

(* The order or reservation and the status write of this transaction, if any *)
CommitRows(t) ==
  IF out[t].inserts
  THEN /\ InsertRow(t, TableOf(ConfirmedPlan(t).tool))
       /\ row' = [row EXCEPT ![t] = [key |-> out[t].action, total |-> out[t].total]]
  ELSE /\ row' = row
       /\ IF txn[t] # None THEN WriteStatus(t) ELSE UNCHANGED deskVars

Commit(t) ==
  /\ Transition(t, "commit", "done")
  /\ CommitRows(t)
  /\ AppendRows(t)
  /\ audit' = audit \cup AuditRows(t)
  /\ escalated' = (escalated \/ out[t].escalates)
  /\ Forget(t)
  /\ UNCHANGED <<worldVars, proposal>>

(* Variant for the mutation checks: the audit row is written by a session of its own. *)
Discard_KeepsAudit(t) ==
  /\ pc' = [pc EXCEPT ![t] = "failed"]
  /\ Forget(t)
  /\ txn' = [txn EXCEPT ![t] = None]
  /\ audit' = audit \cup AuditRows(t)
  /\ UNCHANGED <<worldVars, turnCount, lastSeq, replies, escalated, row, proposal,
                 kind, status, held>>

(* A transaction that cannot commit: everything it did is rolled back. *)
Discard(t) ==
  /\ pc' = [pc EXCEPT ![t] = "failed"]
  /\ Forget(t)
  /\ txn' = [txn EXCEPT ![t] = None]
  /\ UNCHANGED <<worldVars, chatVars, proposal, kind, status, held>>

(* The commit after a failed flush raises. *)
FailCommit(t) == pc[t] = "doomed" /\ Discard(t)

(* The brain, the retriever, the database or the client connection fails. *)
Rollback(t) == pc[t] \in InFlight /\ Discard(t)

--------------------------------------------------------------------------------
(***************************************************************************)
(* What goes on around the conversation.                                   *)
(***************************************************************************)

Change(w) ==
  /\ edits < MaxEdits
  /\ edits' = edits + 1
  /\ world' = w
  /\ live' = [t \in Turn |-> IF pc[t] \in InFlight
                             THEN live[t] \cup w.enabled \cup w.available ELSE live[t]]
  /\ UNCHANGED <<now, chatVars, turnVars, deskVars, start>>

(* PUT /tools/{key} {"enabled": ...} *)
update_tool(tool) ==
  \/ tool \in world.enabled /\ Change([world EXCEPT !.enabled = @ \ {tool}])
  \/ tool \notin world.enabled /\ Change([world EXCEPT !.enabled = @ \cup {tool}])

(* PATCH /products/{id}: publication, availability switch, price *)
update_product(p) ==
  \/ p \in world.available /\ Change([world EXCEPT !.available = @ \ {p}])
  \/ p \notin world.available /\ Change([world EXCEPT !.available = @ \cup {p}])
  \/ \E v \in Price \ {world.price[p]} : Change([world EXCEPT !.price[p] = v])

(* A zone's fee is changed; a service opens or closes, by the clock or by hand *)
ChangeTerms ==
  \/ \E f \in Fee \ {world.fee} : Change([world EXCEPT !.fee = f])
  \/ \E s \in world.open : Change([world EXCEPT !.open = @ \ {s}])
  \/ \E s \in Service \ world.open : Change([world EXCEPT !.open = @ \cup {s}])

Tick ==
  /\ now < MaxTime
  /\ now' = now + 1
  /\ UNCHANGED <<world, edits, chatVars, turnVars, deskVars, ghostVars>>

--------------------------------------------------------------------------------
(* What a request does once it has arrived, short of failing for a reason of *)
(* its surroundings.                                                         *)
Proceed(t) ==
  \/ ReadPending(t) \/ BuildContext(t)
  \/ Answer(t) \/ UnknownTool(t) \/ Reject(t) \/ Propose(t) \/ RunReadTool(t)
  \/ KeepAsking(t) \/ Expire(t) \/ Decline(t) \/ Confirm(t)
  \/ Replay(t) \/ RefuseToExecute(t) \/ PrepareInsert(t) \/ Insert(t) \/ CancelOrder(t)
  \/ Commit(t) \/ FailCommit(t)

TurnNext == \E t \in Turn : ReadHistory(t) \/ Proceed(t) \/ Rollback(t)

WorldNext ==
  \/ Tick
  \/ \E tool \in Tool : update_tool(tool)
  \/ \E p \in Product : update_product(p)
  \/ ChangeTerms

DeskStep == StaffNext /\ UNCHANGED gateVars

Next == TurnNext \/ WorldNext \/ DeskStep

Spec == Init /\ [][Next]_vars

(* asyncio runs every request that has something to do and the database answers *)
(* or raises, so a request that can proceed does not stand still for ever.      *)
FairSpec == Spec /\ \A t \in Turn : WF_vars(Proceed(t))

--------------------------------------------------------------------------------
(***************************************************************************)
(* Properties.                                                             *)
(***************************************************************************)

(* However often and however concurrently an action is confirmed, it inserts   *)
(* one row at most: what the lookup and the unique index on idempotency_key of *)
(* orders and reservations are for.                                            *)
OneEffectPerAction ==
  \A r, q \in Turn : row[r] # None /\ row[q] # None /\ row[r].key = row[q].key => r = q

(* The audit trail and the tables agree: an action that orders or books has a  *)
(* "succeeded" entry exactly when there is a row for it, through conflicts,    *)
(* replays and rolled back turns.                                              *)
AuditMatchesEffects ==
  \A a \in Turn :
    proposal[a] # None /\ Inserts(proposal[a].plan.tool)
      => (a \in Succeeded <=> RowsOf(a) # {})

(* Only the next message confirms: an action that any other turn had already   *)
(* answered (declined, let expire, read out again, executed) when the request  *)
(* arrived is not executed by it, whichever of the agent rows that share a seq *)
(* the request finds.                                                          *)
AnsweredIsFinal ==
  [][\A t \in Turn : row'[t] # row[t] => row'[t].key \notin start[t].answered]_vars

(* An order contains nothing that was off the menu during the whole of the     *)
(* confirming request, although the summary was confirmed with an older menu.  *)
OrderedWasOnOffer ==
  [][\A t \in Turn :
       row'[t] # row[t] /\ kind'[t] = "order"
         => proposal[row'[t].key].plan.product \in live[t]]_vars

(* The gate implements its promise: an effect per action, after its proposal.  *)
Consented ==
  INSTANCE ConsentedEffects WITH
    Action <- Turn, Row <- Turn, proposed <- Proposed, effect <- [a \in Turn |-> RowsOf(a)]

ConsentedSpec == Consented!Spec

(* A request that has arrived is answered or fails: waiting for the unique     *)
(* index never blocks a turn for ever.                                         *)
RequestsFinish == \A t \in Turn : pc[t] = "history" ~> pc[t] \in {"done", "failed"}

(* What the documentation says and the code does not do.                       *)

(* A tool disabled before the customer's message arrived is not executed by it *)
(* (incident-response.md: the switch "takes effect on the next turn").  A      *)
(* pending confirmation is executed without asking the gate again.             *)
KillSwitchStopsNextTurn ==
  [][\A t \in Turn :
       row'[t] # row[t] => proposal[row'[t].key].plan.tool \in live[t]]_vars

(* The order is placed at the total of the summary the customer agreed to      *)
(* (03-agent-engine.md: "items, total, mode, time").  The summary leaves out   *)
(* the delivery fee and the order is priced again when it is executed.         *)
ConfirmedTotalIsCharged ==
  \A r \in Turn : row[r] # None => row[r].total = proposal[row[r].key].total

(* A message that arrived before the question was stored is not an answer to   *)
(* it (engine.py: nothing executes without a "fresh, explicit confirmation").  *)
(* The pending confirmation is read after the history, so it may be newer.     *)
ConsentFollowsQuestion ==
  [][\A t \in Turn : row'[t] # row[t] => row'[t].key \in start[t].proposed]_vars
================================================================================
