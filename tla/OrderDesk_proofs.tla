---------------------------- MODULE OrderDesk_proofs ----------------------------
(***************************************************************************)
(* Proofs about OrderDesk for any number of rows and of sessions.          *)
(*                                                                         *)
(* Milestones are not inductive as they stand: a status write that is      *)
(* under way must be known to rest on a status the row really had (it may  *)
(* no longer have it), and to be a step of the tables from there.  That is *)
(* WritesJustified; DeskInv adds what a row that is not there yet has.     *)
(***************************************************************************)
EXTENDS OrderDesk, TLAPS

(* Statuses an order of the agent can have: it starts as "confirmed". *)
PlacedStatus == OrderStatus \ {"draft", "pending_confirmation"}

Justified(w) ==
  /\ w.from \in held[w.row]
  /\ \/ can_transition(kind[w.row], w.from, w.to)
     \/ kind[w.row] = "order" /\ w.from \notin {"completed", "cancelled"} /\ w.to = "cancelled"

WritesJustified ==
  \A x \in Session : txn[x] # None => kind[txn[x].row] # "absent" /\ Justified(txn[x])

RowsConsistent ==
  \A r \in Turn :
    /\ kind[r] = "absent" => held[r] = {}
    /\ kind[r] # "absent" => status[r] \in held[r]
    /\ kind[r] = "order" => held[r] \subseteq PlacedStatus

DeskInv == DeskTypeOK /\ RowsConsistent /\ WritesJustified /\ MilestonesKept

--------------------------------------------------------------------------------
(* What the order table says of the steps the milestones are made of. *)
LEMMA OrderSteps ==
  ASSUME NEW s \in PlacedStatus, NEW u, u \in next_states("order", s)
  PROVE  /\ u \in PlacedStatus
         /\ u = "ready" => s = "preparing"
         /\ u = "out_for_delivery" => s = "ready"
         /\ u = "completed" => s \in {"ready", "out_for_delivery"}
         /\ u = "failed" => s = "out_for_delivery"
         /\ s \notin {"completed", "cancelled", "failed"}
BY DEF PlacedStatus, OrderStatus, next_states, ORDER_TRANSITIONS

(* The same of the reservation table. *)
LEMMA ReservationSteps ==
  ASSUME NEW s, NEW u, u \in next_states("reservation", s), u = "completed"
  PROVE  s = "seated"
BY DEF Status, next_states, RESERVATION_TRANSITIONS

(* Only three statuses of an order are terminal. *)
LEMMA TerminalOrder ==
  ASSUME NEW s \in PlacedStatus, is_terminal("order", s)
  PROVE  s \in {"completed", "cancelled", "failed"}
<1>1. /\ "preparing" \in next_states("order", "confirmed")
      /\ "ready" \in next_states("order", "preparing")
      /\ "completed" \in next_states("order", "ready")
      /\ "completed" \in next_states("order", "out_for_delivery")
  BY DEF next_states, ORDER_TRANSITIONS, Status, OrderStatus
<1> QED
  BY <1>1 DEF PlacedStatus, OrderStatus, is_terminal

--------------------------------------------------------------------------------
(* DeskInv holds of the empty tables. *)
LEMMA DeskInitInv == DeskInit => DeskInv
BY DEF DeskInit, DeskInv, DeskTypeOK, RowsConsistent, WritesJustified, MilestonesKept,
       RowKind, Session

(* A new row keeps DeskInv. *)
LEMMA InsertRowInv ==
  ASSUME NEW t \in Turn, NEW k \in RowKind, DeskInv, InsertRow(t, k)
  PROVE  DeskInv'
<1> USE DEF DeskInv
<1>1. DeskTypeOK'
  BY DEF InsertRow, DeskTypeOK, Status, OrderStatus, RowKind
<1>2. RowsConsistent'
  BY DEF InsertRow, DeskTypeOK, RowsConsistent, RowKind, PlacedStatus, OrderStatus
<1>3. WritesJustified'
  <2> SUFFICES ASSUME NEW x \in Session, txn'[x] # None
               PROVE  (kind[txn[x].row] # "absent" /\ Justified(txn[x]))'
    BY DEF WritesJustified
  <2>1. txn'[x] = txn[x] /\ txn[x] \in StatusWrite
    BY DEF InsertRow, DeskTypeOK
  <2>2. txn[x].row \in Turn /\ txn[x].row # t
    BY <2>1 DEF WritesJustified, InsertRow, StatusWrite
  <2> QED
    BY <2>1, <2>2 DEF InsertRow, WritesJustified, Justified, DeskTypeOK
<1>4. MilestonesKept'
  BY DEF InsertRow, DeskTypeOK, MilestonesKept, RowKind
<1> QED
  BY <1>1, <1>2, <1>3, <1>4

(* A session that reads a row and prepares a justified write keeps the invariant. *)
LEMMA PrepareInv ==
  ASSUME DeskInv, NEW x \in Session, NEW w \in StatusWrite \cup {None},
         w # None => kind[w.row] # "absent" /\ Justified(w),
         txn' = [txn EXCEPT ![x] = w], UNCHANGED <<kind, status, held>>
  PROVE  DeskInv'
<1>1. DeskTypeOK'
  BY DEF DeskInv, DeskTypeOK
<1>2. RowsConsistent' /\ MilestonesKept'
  BY DEF DeskInv, RowsConsistent, MilestonesKept
<1>3. WritesJustified'
  <2> SUFFICES ASSUME NEW y \in Session, txn'[y] # None
               PROVE  (kind[txn[y].row] # "absent" /\ Justified(txn[y]))'
    BY DEF WritesJustified
  <2>1. txn'[y] = IF y = x THEN w ELSE txn[y]
    BY DEF DeskInv, DeskTypeOK
  <2> QED
    BY <2>1 DEF DeskInv, WritesJustified, Justified
<1> QED
  BY <1>1, <1>2, <1>3 DEF DeskInv

(* The agent's cancel keeps DeskInv: it rests on the status it read. *)
LEMMA CancelReadInv ==
  ASSUME DeskInv, NEW t \in Turn, NEW r \in Turn, CancelRead(t, r)
  PROVE  DeskInv'
<1> DEFINE w == IF CancelMarks(r) THEN [row |-> r, from |-> status[r], to |-> "cancelled"]
                                  ELSE None
<1>1. CancelMarks(r) => w \in StatusWrite /\ kind[r] # "absent" /\ Justified(w)
  BY DEF CancelMarks, StatusWrite, Justified, DeskInv, DeskTypeOK, RowsConsistent, Status,
         OrderStatus
<1>2. t \in Session
  BY DEF Session
<1>3. w \in StatusWrite \cup {None} /\ (w # None => kind[w.row] # "absent" /\ Justified(w))
  BY <1>1
<1> HIDE DEF w
<1>4. txn' = [txn EXCEPT ![t] = w] /\ UNCHANGED <<kind, status, held>>
  BY DEF CancelRead, w
<1> QED
  BY <1>2, <1>3, <1>4, PrepareInv

(* A staff request keeps DeskInv: the table lists the step it is about to make. *)
LEMMA StaffReadInv ==
  ASSUME DeskInv, NEW s \in Staff, NEW r \in Turn, NEW target \in Status,
         StaffRead(s, r, target)
  PROVE  DeskInv'
<1> DEFINE w == [row |-> r, from |-> status[r], to |-> target]
<1>1. w \in StatusWrite /\ kind[w.row] # "absent" /\ Justified(w)
  BY DEF StaffRead, MayMove, StatusWrite, Justified, DeskInv, DeskTypeOK, RowsConsistent
<1>2. s \in Session
  BY DEF Session
<1> HIDE DEF w
<1>3. txn' = [txn EXCEPT ![s] = w] /\ UNCHANGED <<kind, status, held>>
  BY DEF StaffRead, w
<1> QED
  BY <1>1, <1>2, <1>3, PrepareInv

(* Giving a status write up keeps DeskInv. *)
LEMMA RollbackWriteInv ==
  ASSUME DeskInv, NEW x \in Session, RollbackWrite(x)
  PROVE  DeskInv'
<1>1. None \in StatusWrite \cup {None}
  OBVIOUS
<1> QED
  BY <1>1, PrepareInv DEF RollbackWrite

(* A status write keeps DeskInv, also when it overwrites a newer status. *)
LEMMA WriteStatusInv ==
  ASSUME DeskInv, NEW x \in Session, WriteStatus(x)
  PROVE  DeskInv'
<1> DEFINE w == txn[x]
           r == w.row
<1> USE DEF DeskInv
<1>1. w \in StatusWrite /\ w # None /\ r \in Turn
  BY DEF WriteStatus, DeskTypeOK, StatusWrite
<1>2. w.from \in Status /\ w.to \in Status
  BY <1>1 DEF StatusWrite
<1>3. kind[r] \in RowKind /\ Justified(w)
  BY <1>1 DEF WritesJustified, DeskTypeOK
<1> HIDE DEF w
<1> DEFINE new == held[r] \cup {w.to}
<1>4. /\ kind' = kind
      /\ status' = [status EXCEPT ![r] = w.to]
      /\ held' = [held EXCEPT ![r] = new]
      /\ txn' = [txn EXCEPT ![x] = None]
  BY DEF WriteStatus, w
<1>5. kind[r] = "order" => new \subseteq PlacedStatus
  <2> SUFFICES ASSUME kind[r] = "order" PROVE w.to \in PlacedStatus
    BY <1>1 DEF RowsConsistent
  <2>1. w.from \in PlacedStatus
    BY <1>1, <1>3 DEF RowsConsistent, Justified
  <2>2. CASE can_transition(kind[r], w.from, w.to)
    BY <2>1, <2>2, OrderSteps DEF can_transition
  <2>3. CASE w.to = "cancelled"
    BY <2>3 DEF PlacedStatus, OrderStatus
  <2> QED
    BY <1>3, <2>2, <2>3 DEF Justified
<1>6. DeskTypeOK'
  BY <1>1, <1>2, <1>4 DEF DeskTypeOK
<1>7. RowsConsistent'
  <2> SUFFICES ASSUME NEW q \in Turn
               PROVE  /\ kind'[q] = "absent" => held'[q] = {}
                      /\ kind'[q] # "absent" => status'[q] \in held'[q]
                      /\ kind'[q] = "order" => held'[q] \subseteq PlacedStatus
    BY DEF RowsConsistent
  <2>1. CASE q = r
    <3>1. kind'[q] # "absent"
      BY <1>3, <1>4, <2>1 DEF RowKind
    <3>2. status'[q] = w.to /\ held'[q] = new
      BY <1>1, <1>4, <2>1 DEF DeskTypeOK
    <3> QED
      BY <1>4, <1>5, <2>1, <3>1, <3>2
  <2>2. CASE q # r
    <3>1. status'[q] = status[q] /\ held'[q] = held[q]
      BY <1>4, <2>2 DEF DeskTypeOK
    <3> QED
      BY <1>4, <3>1 DEF RowsConsistent
  <2> QED
    BY <2>1, <2>2
<1>8. WritesJustified'
  <2> SUFFICES ASSUME NEW y \in Session, txn'[y] # None
               PROVE  (kind[txn[y].row] # "absent" /\ Justified(txn[y]))'
    BY DEF WritesJustified
  <2>1. txn'[y] = txn[y] /\ txn[y] # None
    BY <1>4 DEF DeskTypeOK
  <2>2. txn[y].row \in Turn /\ kind[txn[y].row] # "absent" /\ Justified(txn[y])
    BY <2>1 DEF WritesJustified, DeskTypeOK, StatusWrite
  <2>3. held[txn[y].row] \subseteq held'[txn[y].row]
    BY <1>1, <1>4, <2>2 DEF DeskTypeOK
  <2> QED
    BY <1>4, <2>1, <2>2, <2>3 DEF Justified
<1>9. MilestonesKept'
  <2> SUFFICES ASSUME NEW q \in Turn
               PROVE  /\ kind'[q] = "order" =>
                           /\ "ready" \in held'[q] => "preparing" \in held'[q]
                           /\ "out_for_delivery" \in held'[q] => "ready" \in held'[q]
                           /\ "completed" \in held'[q] => "ready" \in held'[q]
                           /\ "failed" \in held'[q] => "out_for_delivery" \in held'[q]
                      /\ kind'[q] = "reservation" =>
                           ("completed" \in held'[q] => "seated" \in held'[q])
    BY DEF MilestonesKept
  <2>1. CASE q # r
    BY <1>4, <2>1 DEF MilestonesKept, DeskTypeOK
  <2>2. CASE q = r /\ kind[r] = "order"
    <3>1. held'[q] = held[r] \cup {w.to} /\ kind'[q] = "order" /\ w.from \in held[r]
      BY <1>1, <1>3, <1>4, <2>2 DEF DeskTypeOK, Justified
    <3>2. w.from \in PlacedStatus
      BY <1>1, <2>2, <3>1 DEF RowsConsistent
    <3>3. CASE can_transition(kind[r], w.from, w.to)
      <4>1. /\ w.to = "ready" => w.from = "preparing"
            /\ w.to = "out_for_delivery" => w.from = "ready"
            /\ w.to = "completed" => w.from \in {"ready", "out_for_delivery"}
            /\ w.to = "failed" => w.from = "out_for_delivery"
        BY <2>2, <3>2, <3>3, OrderSteps DEF can_transition
      <4> QED
        BY <1>1, <2>2, <3>1, <4>1 DEF MilestonesKept
    <3>4. CASE w.to = "cancelled"
      BY <1>1, <2>2, <3>1, <3>4 DEF MilestonesKept
    <3> QED
      BY <1>3, <3>3, <3>4 DEF Justified
  <2>3. CASE q = r /\ kind[r] = "reservation"
    <3>1. held'[q] = held[r] \cup {w.to} /\ kind'[q] = "reservation" /\ w.from \in held[r]
      BY <1>1, <1>3, <1>4, <2>3 DEF DeskTypeOK, Justified
    <3>2. w.to = "completed" => w.from = "seated"
      BY <1>3, <2>3, ReservationSteps DEF Justified, can_transition
    <3> QED
      BY <1>1, <2>3, <3>1, <3>2 DEF MilestonesKept
  <2> QED
    BY <1>3, <2>1, <2>2, <2>3 DEF RowKind
<1> QED
  BY <1>6, <1>7, <1>8, <1>9

(* Every step of the staff and of the agent keeps the invariant. *)
LEMMA DeskNextInv ==
  ASSUME DeskInv, [DeskNext]_deskVars
  PROVE  DeskInv'
<1>1. CASE StaffNext
  <2> PICK s \in Staff :
        \/ \E r \in Turn, target \in Status : StaffRead(s, r, target)
        \/ WriteStatus(s)
        \/ RollbackWrite(s)
    BY <1>1 DEF StaffNext
  <2> s \in Session
    BY DEF Session
  <2> QED
    BY StaffReadInv, WriteStatusInv, RollbackWriteInv
<1>2. CASE AgentNext
  <2> PICK t \in Turn :
        \/ \E k \in RowKind : InsertRow(t, k)
        \/ \E r \in Turn : CancelRead(t, r)
        \/ WriteStatus(t)
        \/ RollbackWrite(t)
    BY <1>2 DEF AgentNext
  <2> t \in Session
    BY DEF Session
  <2> QED
    BY InsertRowInv, CancelReadInv, WriteStatusInv, RollbackWriteInv
<1>3. CASE UNCHANGED deskVars
  BY <1>3 DEF deskVars, DeskInv, DeskTypeOK, RowsConsistent, WritesJustified, Justified,
              MilestonesKept
<1> QED
  BY <1>1, <1>2, <1>3 DEF DeskNext

(* DeskInv is invariant. *)
LEMMA DeskInvariant == DeskSpec => []DeskInv
BY DeskInitInv, DeskNextInv, PTL DEF DeskSpec

--------------------------------------------------------------------------------
(* Every variable keeps its type, for any rows and sessions. *)
THEOREM DeskTypeCorrect == DeskSpec => []DeskTypeOK
BY DeskInvariant, PTL DEF DeskInv

(* An order never reaches a stage without the stages before it, and a          *)
(* reservation is not completed without the guests having been seated, however *)
(* many sessions overwrite each other's status.                                *)
THEOREM MilestonesAlwaysKept == DeskSpec => []MilestonesKept
BY DeskInvariant, PTL DEF DeskInv

(* A terminal status is left only by a session that read an older one, or when *)
(* the agent cancels an order that had failed.                                 *)
THEOREM TerminalLeftOnlyByOverwriting == DeskSpec => TerminalLeftOnlyByStaleRead
<1> DEFINE Step ==
      \A r \in Turn :
        kind[r] # "absent" /\ is_terminal(kind[r], status[r]) /\ status'[r] # status[r]
          => \/ Overwrites(r)
             \/ kind[r] = "order" /\ status[r] = "failed" /\ status'[r] = "cancelled"
<1>1. ASSUME DeskInv, [DeskNext]_deskVars
      PROVE  [Step]_deskVars
  <2> SUFFICES ASSUME NEW r \in Turn, kind[r] # "absent", is_terminal(kind[r], status[r]),
                      status'[r] # status[r], ~Overwrites(r)
               PROVE  kind[r] = "order" /\ status[r] = "failed" /\ status'[r] = "cancelled"
    OBVIOUS
  <2> USE <1>1 DEF DeskInv
  <2>1. PICK x \in Session : WriteStatus(x)
    <3>1. CASE \E t \in Turn, k \in RowKind : InsertRow(t, k)
      BY <3>1 DEF InsertRow, DeskTypeOK
    <3>2. CASE UNCHANGED status
      BY <3>2
    <3> QED
      BY <3>1, <3>2 DEF DeskNext, StaffNext, AgentNext, StaffRead, RollbackWrite, CancelRead,
                        Session, deskVars
  <2>2. txn[x] \in StatusWrite /\ txn[x] # None /\ Justified(txn[x])
    BY <2>1 DEF WriteStatus, DeskTypeOK, WritesJustified
  <2>3. txn[x].row = r /\ status'[r] = txn[x].to
    BY <2>1, <2>2 DEF WriteStatus, DeskTypeOK, StatusWrite
  <2>4. txn[x].from = status[r]
    <3>1. x \in Session /\ txn'[x] = None
      BY <2>1 DEF WriteStatus, DeskTypeOK
    <3> QED
      BY <2>2, <2>3, <3>1 DEF Overwrites
  <2>5. ~can_transition(kind[r], status[r], txn[x].to)
    BY DEF is_terminal, can_transition
  <2>6. kind[r] = "order" /\ status[r] \notin {"completed", "cancelled"} /\ txn[x].to = "cancelled"
    BY <2>2, <2>3, <2>4, <2>5 DEF Justified
  <2>7. status[r] \in PlacedStatus
    BY <2>6 DEF RowsConsistent
  <2> QED
    BY <2>3, <2>6, <2>7, TerminalOrder
<1> QED
  BY <1>1, DeskInvariant, PTL DEF DeskSpec, TerminalLeftOnlyByStaleRead
================================================================================
