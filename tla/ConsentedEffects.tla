--------------------------- MODULE ConsentedEffects ----------------------------
(***************************************************************************)
(* What the action gate promises, without turns, transactions or clocks:   *)
(* an action has an effect (a row in the orders or reservations table) at  *)
(* most once, only after it was proposed to the customer, and an effect is *)
(* never taken back or replaced.                                           *)
(***************************************************************************)
CONSTANTS
  Action,  \* action ids
  Row      \* names of rows that can be inserted

VARIABLES
  proposed,  \* the actions a committed turn has put to the customer
  effect     \* effect[a]: the rows inserted for action a

absVars == <<proposed, effect>>

Init ==
  /\ proposed = {}
  /\ effect = [a \in Action |-> {}]

Propose(a) ==
  /\ a \notin proposed
  /\ proposed' = proposed \cup {a}
  /\ UNCHANGED effect

TakeEffect(a, r) ==
  /\ a \in proposed
  /\ effect[a] = {}
  /\ effect' = [effect EXCEPT ![a] = {r}]
  /\ UNCHANGED proposed

Next ==
  \/ \E a \in Action : Propose(a)
  \/ \E a \in Action, r \in Row : TakeEffect(a, r)

Spec == Init /\ [][Next]_absVars
================================================================================
