------------------------------ MODULE OrderStates ------------------------------
(***************************************************************************)
(* The order and reservation state tables of ordy_orders/state.py and the  *)
(* questions the code asks of them.  A row of the database is an order or  *)
(* a reservation (its kind); the two tables share one set of operators.    *)
(***************************************************************************)

OrderStatus ==
  {"draft", "pending_confirmation", "confirmed", "preparing", "ready",
   "out_for_delivery", "completed", "cancelled", "failed"}

ReservationStatus ==
  {"pending_confirmation", "confirmed", "seated", "completed", "cancelled", "no_show"}

Status == OrderStatus \cup ReservationStatus

RowKind == {"order", "reservation"}

(* The tables, as sets of <<current, target>>. *)
ORDER_TRANSITIONS ==
  UNION {{"draft"} \X {"pending_confirmation", "confirmed", "cancelled", "failed"},
         {"pending_confirmation"} \X {"confirmed", "cancelled", "failed"},
         {"confirmed"} \X {"preparing", "cancelled"},
         {"preparing"} \X {"ready", "cancelled"},
         {"ready"} \X {"out_for_delivery", "completed", "cancelled"},
         {"out_for_delivery"} \X {"completed", "failed"}}

RESERVATION_TRANSITIONS ==
  UNION {{"pending_confirmation"} \X {"confirmed", "cancelled"},
         {"confirmed"} \X {"seated", "cancelled", "no_show"},
         {"seated"} \X {"completed"}}

(* next_states: what a status may become, {} for one the table does not list. *)
next_states(k, s) ==
  {u \in Status : <<s, u>> \in IF k = "order" THEN ORDER_TRANSITIONS ELSE RESERVATION_TRANSITIONS}

can_transition(k, current, target) == target \in next_states(k, current)

is_terminal(k, s) == next_states(k, s) = {}
================================================================================
