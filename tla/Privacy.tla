--------------------------------- MODULE Privacy ---------------------------------
(***************************************************************************)
(* How content leaves the database: the erasure of one customer            *)
(* (privacy/router.py) and the nightly retention job (workers/retention.py *)
(* and ordy_security/retention.py), while turns and orders come in.        *)
(*                                                                         *)
(* The erasure reads the customer's orders, then the turns of the          *)
(* customer's conversations, and redacts what it read at commit.  The job  *)
(* redacts the turns of one restaurant after the other by an UPDATE in a   *)
(* transaction of its own, with the clock of its start.  A day is a tick.  *)
(***************************************************************************)
EXTENDS Integers, FiniteSets

CONSTANTS
  Turn, Order,      \* rows that may be written
  Owned,            \* those of the customer
  Restaurant,
  Eraser,           \* erasure requests, each made once
  DefaultDays, Ceiling,  \* transcript_days and its platform ceiling
  Override,         \* what a tenant may have set, or NoOverride
  NoOverride,
  MaxDay            \* bound of the clock

Row == Turn \cup Order

ASSUME PrivacyConstants ==
  /\ Owned \subseteq Row /\ Turn \cap Order = {}
  /\ MaxDay \in Nat /\ DefaultDays \in Nat /\ Ceiling \in Nat \ {0}
  /\ Override \subseteq Int \cup {NoOverride} /\ NoOverride \notin Int

VARIABLES
  day,        \* the clock
  override,   \* override[r]: settings.retention of the restaurant
  home,       \* home[x]: the restaurant of turn x
  rows,       \* rows[x]: what is left of a row, and its created_at
  eraser,     \* eraser[e]: what erasure e has read
  nightly,    \* the retention job: its clock and the restaurants left
  swept,      \* history: clock of the last job that got to the restaurant
  older       \* history: older[e], rows of the customer when e began

tenantVars == <<override, home>>
privacyVars == <<day, tenantVars, rows, eraser, nightly, swept, older>>

Gone == {"erased", "expired"}

PrivacyTypeOK ==
  /\ day \in 0..MaxDay
  /\ override \in [Restaurant -> Override]
  /\ home \in [Turn -> Restaurant]
  /\ rows \in [Row -> [content : {"none", "held"} \cup Gone, created : 0..MaxDay]]
  /\ eraser \in [Eraser -> [pc : {"new", "orders", "turns", "done"}, seen : SUBSET Row]]
  /\ nightly \in [at : 0..MaxDay, left : SUBSET Restaurant]
  /\ swept \in [Restaurant -> -1..MaxDay]
  /\ older \in [Eraser -> SUBSET Row]

PrivacyInit ==
  /\ day = 0
  /\ override \in [Restaurant -> Override]
  /\ home \in [Turn -> Restaurant]
  /\ rows = [x \in Row |-> [content |-> "none", created |-> 0]]
  /\ eraser = [e \in Eraser |-> [pc |-> "new", seen |-> {}]]
  /\ nightly = [at |-> 0, left |-> {}]
  /\ swept = [r \in Restaurant |-> -1]
  /\ older = [e \in Eraser |-> {}]

Committed(S) == {x \in S : rows[x].content # "none"}

--------------------------------------------------------------------------------
(* A turn or an order of the customer, or of another one, is committed. *)
WriteRow(x) ==
  /\ rows[x].content = "none"
  /\ rows' = [rows EXCEPT ![x] = [content |-> "held", created |-> day]]
  /\ UNCHANGED <<day, tenantVars, eraser, nightly, swept, older>>

NextDay ==
  /\ day < MaxDay
  /\ day' = day + 1
  /\ UNCHANGED <<tenantVars, rows, eraser, nightly, swept, older>>

EraserAt(e, pc) == eraser[e].pc = pc

ReadOrders(e) ==
  /\ EraserAt(e, "new")
  /\ eraser' = [eraser EXCEPT ![e] = [pc |-> "orders", seen |-> Committed(Owned \cap Order)]]
  /\ older' = [older EXCEPT ![e] = Committed(Owned)]
  /\ UNCHANGED <<day, tenantVars, rows, nightly, swept>>

(* Variant for the mutation checks: the turns take the place of the orders. *)
ReadTurns_Only(e) ==
  /\ EraserAt(e, "orders")
  /\ eraser' = [eraser EXCEPT ![e] = [pc |-> "turns", seen |-> Committed(Owned \cap Turn)]]
  /\ UNCHANGED <<day, tenantVars, rows, nightly, swept, older>>

ReadTurns(e) ==
  /\ EraserAt(e, "orders")
  /\ eraser' = [eraser EXCEPT ![e] = [pc |-> "turns", seen |-> @.seen \cup Committed(Owned \cap Turn)]]
  /\ UNCHANGED <<day, tenantVars, rows, nightly, swept, older>>

(* Addresses, notes and contents are overwritten, the expired ones as well. *)
CommitErasure(e) ==
  /\ EraserAt(e, "turns")
  /\ rows' = [x \in Row |-> IF x \in eraser[e].seen THEN [rows[x] EXCEPT !.content = "erased"] ELSE rows[x]]
  /\ eraser' = [eraser EXCEPT ![e] = [pc |-> "done", seen |-> {}]]
  /\ UNCHANGED <<day, tenantVars, nightly, swept, older>>

(* Nothing of a request that fails is kept. *)
ErasureFails(e) ==
  /\ eraser[e].pc \in {"orders", "turns"}
  /\ eraser' = [eraser EXCEPT ![e] = [pc |-> "done", seen |-> {}]]
  /\ older' = [older EXCEPT ![e] = {}]
  /\ UNCHANGED <<day, tenantVars, rows, nightly, swept>>

--------------------------------------------------------------------------------
(* Variant for the mutation checks: the ceiling is applied to the default   *)
(* only.                                                                    *)
TranscriptDays_Unclamped(r) ==
  LET requested == IF override[r] = NoOverride THEN DefaultDays ELSE override[r]
  IN  IF requested < 1 THEN 1 ELSE requested

(* tightened_by: at least a day, at most the ceiling. *)
TranscriptDays(r) ==
  LET requested == IF override[r] = NoOverride THEN DefaultDays ELSE override[r]
      capped    == IF requested < Ceiling THEN requested ELSE Ceiling
  IN  IF capped < 1 THEN 1 ELSE capped

(* The job takes the time and the list of restaurants. *)
StartNightly ==
  /\ nightly.left = {}
  /\ nightly' = [at |-> day, left |-> Restaurant]
  /\ UNCHANGED <<day, tenantVars, rows, eraser, swept, older>>

Expired(x, r) ==
  x \in Turn /\ home[x] = r /\ rows[x].content # "none" /\ rows[x].created < nightly.at - TranscriptDays(r)

(* One restaurant is one transaction; what was erased is overwritten too.   *)
SweepRestaurant(r) ==
  /\ r \in nightly.left
  /\ rows' = [x \in Row |-> IF Expired(x, r) THEN [rows[x] EXCEPT !.content = "expired"] ELSE rows[x]]
  /\ nightly' = [nightly EXCEPT !.left = @ \ {r}]
  /\ swept' = [swept EXCEPT ![r] = nightly.at]
  /\ UNCHANGED <<day, tenantVars, eraser, older>>

(* The job dies: the restaurants left wait for the next night. *)
NightlyFails ==
  /\ nightly.left # {}
  /\ nightly' = [nightly EXCEPT !.left = {}]
  /\ UNCHANGED <<day, tenantVars, rows, eraser, swept, older>>

PrivacyNext ==
  \/ \E x \in Row : WriteRow(x)
  \/ NextDay
  \/ \E e \in Eraser : ReadOrders(e) \/ ReadTurns(e) \/ CommitErasure(e) \/ ErasureFails(e)
  \/ StartNightly \/ NightlyFails
  \/ \E r \in Restaurant : SweepRestaurant(r)

PrivacySpec == PrivacyInit /\ [][PrivacyNext]_privacyVars

--------------------------------------------------------------------------------
(* When an erasure has committed, nothing is left of what the customer had  *)
(* said or ordered before it was requested; only what came in meanwhile may *)
(* have escaped its reads.                                                  *)
ErasedIsGone ==
  \A e \in Eraser : EraserAt(e, "done") => \A x \in older[e] : rows[x].content \in Gone

(* After a job has been at a restaurant none of its transcripts is older    *)
(* than the ceiling, and what expired had outlived a day and the tenant's   *)
(* own window, whatever the tenant asked for and whichever night failed.    *)
ExpiredWhenDue ==
  \A x \in Turn :
    LET age == swept[home[x]] - rows[x].created
    IN  /\ rows[x].content = "held" => age <= Ceiling
        /\ rows[x].content = "expired" =>
             age > 1 /\ (override[home[x]] \in 1..Ceiling => age > override[home[x]])
================================================================================
