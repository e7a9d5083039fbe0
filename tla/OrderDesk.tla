------------------------------- MODULE OrderDesk -------------------------------
(***************************************************************************)
(* The orders and reservations tables and everybody who changes a status.  *)
(*                                                                         *)
(* A row is inserted, already "confirmed", by the transaction of one agent *)
(* turn (orders/adapter.py), so the turn names the row.  Staff move it     *)
(* through POST /orders/{id}/status and /reservations/{id}/status          *)
(* (orders/router.py); an agent turn may cancel an order (adapter.py).     *)
(* Each of these is one READ COMMITTED transaction without row locks: it   *)
(* reads the status with a SELECT, decides on what it read, and writes     *)
(* with an UPDATE by primary key when it commits.  The read and the        *)
(* commit are two steps here, and those of other sessions fall in between. *)
(***************************************************************************)
EXTENDS OrderStates

CONSTANTS
  Turn,    \* agent turns (post_turn requests); a row is named by the one that inserted it
  Staff,   \* staff requests that can be in flight at the same time
  None     \* no value

VARIABLES
  kind,    \* kind[r]: "absent" until row r is committed, then its table
  status,  \* status[r]: committed status of row r
  held,    \* held[r]: every status r ever had; for an order, what its OrderEvent rows list
  txn      \* txn[x]: the status write session x will make when it commits

deskVars == <<kind, status, held, txn>>

Session == Turn \cup Staff

StatusWrite == [row : Turn, from : Status, to : Status]

DeskTypeOK ==
  /\ kind \in [Turn -> RowKind \cup {"absent"}]
  /\ status \in [Turn -> Status \cup {"absent"}]
  /\ held \in [Turn -> SUBSET Status]
  /\ txn \in [Session -> StatusWrite \cup {None}]

DeskInit ==
  /\ kind = [r \in Turn |-> "absent"]
  /\ status = [r \in Turn |-> "absent"]
  /\ held = [r \in Turn |-> {}]
  /\ txn = [x \in Session |-> None]

--------------------------------------------------------------------------------
(***************************************************************************)
(* The agent's side.                                                       *)
(***************************************************************************)

(* Variant for the mutation checks: the history starts with what there was before. *)
InsertRow_LogsThePast(t, k) ==
  /\ kind[t] = "absent"
  /\ kind' = [kind EXCEPT ![t] = k]
  /\ status' = [status EXCEPT ![t] = "confirmed"]
  /\ held' = [held EXCEPT ![t] = {status[t]}]
  /\ UNCHANGED txn

(* The commit of a turn whose transaction added an Order or a Reservation. *)
InsertRow(t, k) ==
  /\ kind[t] = "absent"
  /\ kind' = [kind EXCEPT ![t] = k]
  /\ status' = [status EXCEPT ![t] = "confirmed"]
  /\ held' = [held EXCEPT ![t] = {"confirmed"}]
  /\ UNCHANGED txn

(* _cancel_order finds the order by its tracking token and marks it unless  *)
(* it is completed or cancelled already: the transition table is not asked. *)
CancelMarks(r) == kind[r] = "order" /\ status[r] \notin {"completed", "cancelled"}

CancelRead(t, r) ==
  /\ txn[t] = None
  /\ txn' = [txn EXCEPT ![t] = IF CancelMarks(r)
                               THEN [row |-> r, from |-> status[r], to |-> "cancelled"]
                               ELSE None]
  /\ UNCHANGED <<kind, status, held>>

--------------------------------------------------------------------------------
(***************************************************************************)
(* The staff's side.                                                       *)
(***************************************************************************)

(* Variants of assert_transition that a slip in the code could produce, for *)
(* the mutation checks: an order may skip a stage; any status may move.     *)
SkipsAStage(r, target) ==
  \/ can_transition(kind[r], status[r], target)
  \/ \E s \in next_states(kind[r], status[r]) : can_transition(kind[r], s, target)

AllowsAnything(r, target) == target # status[r]

(* assert_transition / assert_reservation_transition on the status just read *)
MayMove(r, target) == can_transition(kind[r], status[r], target)

(* change_order_status and change_reservation_status up to the commit; an    *)
(* illegal target is answered with an error and changes nothing.             *)
StaffRead(s, r, target) ==
  /\ txn[s] = None
  /\ kind[r] # "absent"
  /\ MayMove(r, target)
  /\ txn' = [txn EXCEPT ![s] = [row |-> r, from |-> status[r], to |-> target]]
  /\ UNCHANGED <<kind, status, held>>

--------------------------------------------------------------------------------
(* The commit of a session that set a status: an UPDATE by primary key, which *)
(* overwrites whatever was committed since the session read the row.          *)
WriteStatus(x) ==
  /\ txn[x] # None
  /\ status' = [status EXCEPT ![txn[x].row] = txn[x].to]
  /\ held' = [held EXCEPT ![txn[x].row] = @ \cup {txn[x].to}]
  /\ txn' = [txn EXCEPT ![x] = None]
  /\ UNCHANGED kind

(* The request fails before its commit: db.session() rolls back. *)
RollbackWrite(x) ==
  /\ txn[x] # None
  /\ txn' = [txn EXCEPT ![x] = None]
  /\ UNCHANGED <<kind, status, held>>

StaffNext ==
  \E s \in Staff :
    \/ \E r \in Turn, target \in Status : StaffRead(s, r, target)
    \/ WriteStatus(s)
    \/ RollbackWrite(s)

AgentNext ==
  \E t \in Turn :
    \/ \E k \in RowKind : InsertRow(t, k)
    \/ \E r \in Turn : CancelRead(t, r)
    \/ WriteStatus(t)
    \/ RollbackWrite(t)

DeskNext == StaffNext \/ AgentNext

DeskSpec == DeskInit /\ [][DeskNext]_deskVars

--------------------------------------------------------------------------------
(***************************************************************************)
(* Properties.                                                             *)
(***************************************************************************)

(* A milestone is never skipped, however the sessions interleave and         *)
(* whatever they overwrite: an order was ready before it was completed or    *)
(* sent out, was being prepared before it was ready, and was sent out before *)
(* its delivery failed; a reservation was seated before it was completed.    *)
(* Stale reads can move a status backwards, so only the whole history keeps  *)
(* this promise of ordy_orders/state.py ("can never jump").                  *)
MilestonesKept ==
  \A r \in Turn :
    /\ kind[r] = "order" =>
         /\ "ready" \in held[r] => "preparing" \in held[r]
         /\ "out_for_delivery" \in held[r] => "ready" \in held[r]
         /\ "completed" \in held[r] => "ready" \in held[r]
         /\ "failed" \in held[r] => "out_for_delivery" \in held[r]
    /\ kind[r] = "reservation" =>
         ("completed" \in held[r] => "seated" \in held[r])

(* A row leaves a terminal status only through a session that decided on an *)
(* older status and writes now (the lost update nothing in the code         *)
(* prevents), or by the agent cancelling a failed order (adapter.py checks  *)
(* two statuses only).                                                      *)
Overwrites(r) == \E x \in Session : /\ txn[x] # None /\ txn'[x] = None
                                    /\ txn[x].row = r
                                    /\ txn[x].from # status[r]
                                    /\ status'[r] = txn[x].to

TerminalLeftOnlyByStaleRead ==
  [][\A r \in Turn :
       kind[r] # "absent" /\ is_terminal(kind[r], status[r]) /\ status'[r] # status[r]
         => \/ Overwrites(r)
            \/ kind[r] = "order" /\ status[r] = "failed" /\ status'[r] = "cancelled"]_deskVars

(* An order in a terminal status keeps it (state.py: "an order can never     *)
(* jump from `draft` to `completed` or move out of a terminal state").  A     *)
(* staff request that read the status before another one made it terminal    *)
(* breaks it.                                                                *)
TerminalIsFinal ==
  [][\A r \in Turn :
       kind[r] = "order" /\ is_terminal("order", status[r]) => status'[r] = status[r]]_deskVars
================================================================================
