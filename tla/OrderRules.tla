------------------------------- MODULE OrderRules -------------------------------
(***************************************************************************)
(* The arithmetic an order rests on (ordy_orders): opening hours           *)
(* (hours.py), promotions and totals (totals.py), delivery zones           *)
(* (zones.py).  They are functions; a behaviour is one question, put to    *)
(* the code's definition and compared with what the rule means.            *)
(*                                                                         *)
(* A day has SlotsPerDay times.  Whether a zone contains the address is    *)
(* geometry in floating point, and a field of the zone here.               *)
(***************************************************************************)
EXTENDS Integers, SequencesExt

CONSTANTS
  SlotsPerDay,     \* times of a day
  Subtotal,        \* a range of subtotals from 0
  RuleValue,       \* values and minimum orders of promotion rules
  Fee, MaxZones    \* delivery fees; bound: zones of a restaurant

ASSUME RuleConstants ==
  /\ SlotsPerDay \in Nat \ {0} /\ MaxZones \in Nat
  /\ Subtotal \subseteq Nat /\ RuleValue \subseteq Int /\ Fee \subseteq Nat

VARIABLES
  question,  \* the inputs, chosen initially
  answer     \* <<what the code returns for them>>, or <<>> before it does

rulesVars == <<question, answer>>

RuledService == {"delivery", "dine_in"}

Window == [service : RuledService, day_of_week : 0..6, opens : 0..SlotsPerDay - 1, closes : 0..SlotsPerDay - 1]

(* An instant as local weekday and time. *)
Instant == [day : 0..6, time : 0..SlotsPerDay - 1]

Promotion == [type : {"percent", "amount", "free_everything"}, value : RuleValue, min_order : RuleValue]

NoPromotion == [type |-> "none", value |-> 0, min_order |-> 0]

Zone == [fee : Fee, min_order : {0, 9}, is_active : BOOLEAN, contains : BOOLEAN]

(* Two windows are enough: the code looks at one at a time. *)
Question ==
  [about : {"hours"}, windows : {{v, w} : v, w \in Window}]
    \cup [about : {"totals"}, subtotal : Subtotal, fee : Fee, rule : Promotion \cup {NoPromotion}]
    \cup [about : {"zone"}, zones : BoundedSeq(Zone, MaxZones)]

RulesInit == question \in Question /\ answer = <<>>

--------------------------------------------------------------------------------
(* Variant for the mutation checks: equal times are an empty window. *)
SpansMidnight_Strict(w) == w.closes < w.opens

SpansMidnight(w) == w.closes <= w.opens

(* is_service_open; the list is searched for any window that applies. *)
IsServiceOpen(windows, service, t) ==
  \E w \in windows :
    /\ w.service = service
    /\ IF ~SpansMidnight(w)
       THEN w.day_of_week = t.day /\ w.opens <= t.time /\ t.time < w.closes
       ELSE \/ w.day_of_week = t.day /\ t.time >= w.opens
            \/ w.day_of_week = (t.day - 1) % 7 /\ t.time < w.closes

(* open_services at every instant of the week. *)
AnswerHours ==
  /\ question.about = "hours" /\ answer = <<>>
  /\ answer' = <<[t \in Instant |-> {s \in RuledService : IsServiceOpen(question.windows, s, t)}]>>
  /\ UNCHANGED question

Clamp(low, high, n) == IF n < low THEN low ELSE IF n > high THEN high ELSE n

(* Variant for the mutation checks: the clamp to the subtotal is missing. *)
Discount_Unclamped(subtotal, rule) ==
  IF subtotal < rule.min_order THEN 0
  ELSE CASE rule.type = "percent" -> (subtotal * Clamp(0, 100, rule.value)) \div 100
         [] rule.type = "amount"  -> Clamp(0, rule.value, rule.value)
         [] OTHER                 -> 0

(* apply_promotion: a rule below its minimum, or unknown, discounts nothing. *)
Discount(subtotal, rule) ==
  IF subtotal < rule.min_order THEN 0
  ELSE CASE rule.type = "percent" -> Clamp(0, subtotal, (subtotal * Clamp(0, 100, rule.value)) \div 100)
         [] rule.type = "amount"  -> Clamp(0, subtotal, rule.value)
         [] OTHER                 -> 0

(* OrderTotals, total_minor. *)
ComputeTotals(subtotal, fee, rule) ==
  LET discount == Discount(subtotal, rule)
  IN  [subtotal |-> subtotal, discount |-> discount, fee |-> fee,
       total |-> (IF subtotal > discount THEN subtotal - discount ELSE 0) + fee]

AnswerTotals ==
  /\ question.about = "totals" /\ answer = <<>>
  /\ answer' = <<ComputeTotals(question.subtotal, question.fee, question.rule)>>
  /\ UNCHANGED question

Dearer(y, z) ==
  \/ y.fee > z.fee
  \/ y.fee = z.fee /\ y.min_order > z.min_order

Applies(z) == z.is_active /\ z.contains

(* Variant for the mutation checks: the first zone that matches. *)
FirstCheapest_First(zones) ==
  LET best[n \in 0..Len(zones)] ==
        IF n = 0 THEN <<>>
        ELSE IF Applies(zones[n]) /\ best[n - 1] = <<>> THEN <<zones[n]>> ELSE best[n - 1]
  IN  best[Len(zones)]

(* find_zone: of the zones that apply the first that none is cheaper than,  *)
(* if there is one; best[n] is the choice among the first n.                *)
FirstCheapest(zones) ==
  LET best[n \in 0..Len(zones)] ==
        IF n = 0 THEN <<>>
        ELSE IF Applies(zones[n]) /\ (best[n - 1] = <<>> \/ Dearer(Head(best[n - 1]), zones[n]))
             THEN <<zones[n]>>
             ELSE best[n - 1]
  IN  best[Len(zones)]

AnswerZone ==
  /\ question.about = "zone" /\ answer = <<>>
  /\ answer' = <<FirstCheapest(question.zones)>>
  /\ UNCHANGED question

RulesNext == AnswerHours \/ AnswerTotals \/ AnswerZone

RulesSpec == RulesInit /\ [][RulesNext]_rulesVars

Answered(kind) == question.about = kind /\ answer # <<>>

--------------------------------------------------------------------------------
(* The instants of a window on the circle of the week: from its opening on  *)
(* for as long as it lasts, a whole day when the two times are equal.       *)
WeekTime(day, time) == day * SlotsPerDay + time
Lasts(w) == IF w.closes = w.opens THEN SlotsPerDay ELSE (w.closes - w.opens) % SlotsPerDay
Covers(w, t) == (WeekTime(t.day, t.time) - WeekTime(w.day_of_week, w.opens)) % (7 * SlotsPerDay) < Lasts(w)

(* A service is open exactly during its windows, past midnight and from     *)
(* Sunday into Monday as well, and no window opens another service.         *)
HoursAgree ==
  Answered("hours") =>
    \A t \in Instant :
      Head(answer)[t] = {s \in RuledService : \E w \in question.windows : w.service = s /\ Covers(w, t)}

(* Whatever the rule says, the figures of an order add up, the fee is       *)
(* charged in full, and where the rule applies one more coin of food never  *)
(* makes the whole cheaper.                                                 *)
TotalsSound ==
  Answered("totals") =>
    LET bill == Head(answer)
        more == ComputeTotals(question.subtotal + 1, question.fee, question.rule)
    IN  /\ bill.total = bill.subtotal - bill.discount + bill.fee
        /\ bill.fee <= bill.total /\ bill.total <= bill.subtotal + bill.fee
        /\ question.subtotal >= question.rule.min_order => bill.total <= more.total

(* The zone found applies and none that applies is cheaper; what it costs   *)
(* does not depend on the order of the rows.                                *)
ZoneIsCheapest ==
  Answered("zone") =>
    LET apply == {z \in Range(question.zones) : Applies(z)}
        found == Head(answer)
    IN  IF apply = {} THEN found = <<>>
        ELSE /\ found # <<>> /\ Head(found) \in apply
             /\ \A z \in apply : ~Dearer(Head(found), z)
================================================================================
