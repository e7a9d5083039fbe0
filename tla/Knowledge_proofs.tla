--------------------------- MODULE Knowledge_proofs ---------------------------
(***************************************************************************)
(* Proofs about how Ordy comes to know a restaurant: Synthesis, from pages *)
(* to a menu and a capability map, and Retrieval, from a page to an        *)
(* answer, each for any values of its constants.                           *)
(***************************************************************************)
EXTENDS Synthesis, Retrieval, CommonLemmas


--------------------------------------------------------------------------------
(***************************************************************************)
(* Synthesis, for any pages, menus and operations.                         *)
(***************************************************************************)

(* An item nobody priced asks for a review. *)
DoubtShown(i) == i.price = NoPrice /\ i.variants = {} => i.needs_review

Draft == {i \in Item : DoubtShown(i)}

LEMMA MenuItemType ==
  ASSUME NEW n \in Node, n.name # NoName
  PROVE  MenuItem(n) \in Draft
<1>1. n.name \in ItemName /\ n.category \in Category \cup {NoCategory} /\ n.offers \in OfferList
  BY DEF Node
<1>2. n.offers \in Seq(Nat \cup {NoPrice})
  BY <1>1, SynthesisConstants
<1>3. Len(n.offers) = 1 => Head(n.offers) \in Nat \cup {NoPrice}
  BY <1>2
<1>4. Range(n.offers) \subseteq Nat \cup {NoPrice}
  BY <1>2 DEF Range
<1>5. {p \in Range(n.offers) : p # NoPrice} \subseteq Nat
  BY <1>4
<1> QED
  BY <1>1, <1>3, <1>5 DEF MenuItem, Draft, Item, DoubtShown

(* What is read from a page is a sequence of items. *)
LEMMA ExtractedType ==
  ASSUME NEW nodes \in Seq(Node)
  PROVE  Extracted(nodes) \in Seq(Draft)
<1> DEFINE b == Len(nodes)
           V == Seq(Draft)
           Repeated(n, kept) == nodes[n].name = NoName \/ \E i \in Range(kept) : SameOnPage(i, MenuItem(nodes[n]))
           step == [p \in (1..b) \X V |->
                      IF Repeated(p[1], p[2]) THEN p[2] ELSE Append(p[2], MenuItem(nodes[p[1]]))]
           Kept(f) == f = [n \in 0..b |->
                             IF n = 0 THEN <<>>
                             ELSE IF Repeated(n, f[n - 1]) THEN f[n - 1] ELSE Append(f[n - 1], MenuItem(nodes[n]))]
<1>1. b \in Nat /\ \A n \in 1..b : nodes[n] \in Node
  OBVIOUS
<1>2. <<>> \in V /\ \A n \in 1..b, kept \in V : ~Repeated(n, kept) => Append(kept, MenuItem(nodes[n])) \in V
  <2>1. \A n \in 1..b, kept \in V : ~Repeated(n, kept) => MenuItem(nodes[n]) \in Draft
    BY <1>1, MenuItemType
  <2> QED
    BY <2>1
<1> HIDE DEF b, Repeated
<1>3. step \in StepsOn(b, V)
  <2> HIDE DEF V
  <2> QED
    BY <1>2 DEF StepsOn
<1>4. PICK f : Follows(f, b, V, <<>>, step)
  <2> HIDE DEF step, V
  <2> QED
    BY <1>1, <1>2, <1>3, RecursionExists
<1>5. f \in [0..b -> V] /\ f[0] = <<>>
  BY <1>4 DEF Follows
<1>6. \A n \in 1..b : f[n - 1] \in V
  <2> HIDE DEF V
  <2> QED
    BY <1>1, <1>5
<1>7. \A n \in 1..b : f[n] = IF Repeated(n, f[n - 1]) THEN f[n - 1] ELSE Append(f[n - 1], MenuItem(nodes[n]))
  <2> TAKE n \in 1..b
  <2>1. f[n] = step[<<n, f[n - 1]>>] /\ <<n, f[n - 1]>> \in (1..b) \X V
    BY <1>4, <1>6 DEF Follows
  <2> HIDE DEF V
  <2> QED
    BY <2>1
<1> HIDE DEF step, V
<1>8. Kept(f)
  <2>1. f = [n \in 0..b |-> f[n]] /\ 0..b = {0} \cup 1..b /\ 0 \notin 1..b
    BY <1>1, <1>5
  <2>2. \A n \in 0..b : f[n] = IF n = 0 THEN <<>>
                             ELSE IF Repeated(n, f[n - 1]) THEN f[n - 1] ELSE Append(f[n - 1], MenuItem(nodes[n]))
    BY <1>5, <1>7, <2>1
  <2> QED
    BY <2>1, <2>2
<1>9. \A g : Kept(g) => g = f
  <2> SUFFICES ASSUME NEW g, Kept(g) PROVE g = f
    OBVIOUS
  <2>1. f = [n \in 0..b |-> f[n]] /\ g = [n \in 0..b |-> g[n]] /\ g[0] = f[0]
    BY <1>1, <1>5
  <2>2. \A n \in 0..b - 1 : g[n] = f[n] => g[n + 1] = f[n + 1]
    <3> SUFFICES ASSUME NEW n \in 0..b - 1, g[n] = f[n] PROVE g[n + 1] = f[n + 1]
      OBVIOUS
    <3>1. n + 1 \in 1..b /\ n + 1 \in 0..b /\ n + 1 # 0 /\ (n + 1) - 1 = n
      BY <1>1
    <3> QED
      BY <1>7, <3>1
  <2> HIDE DEF Kept
  <2> QED
    BY <1>1, <2>1, <2>2, RecursionUnique
<1>10. (CHOOSE g : Kept(g)) = f
  <2> HIDE DEF Kept
  <2> QED
    BY <1>8, <1>9
<1>11. Extracted(nodes) = f[b]
  BY <1>10, Zenon DEF Extracted, Kept, Repeated, b
<1> QED
  BY <1>1, <1>5, <1>11 DEF V

--------------------------------------------------------------------------------
Conflict == [item : ItemName, values : SUBSET (Nat \cup {NoPrice})]
Bundle == [items : Seq(Draft), conflicts : SUBSET Conflict]

Disputed(acc, key) == \E c \in acc.conflicts : c.item = key

(* What the first n items have become: each is there under its key, with    *)
(* its price unless that is disputed, and no key is there twice.            *)
Merged(acc, items, n) ==
  /\ acc \in Bundle
  /\ \A k, l \in DOMAIN acc.items : acc.items[k].key = acc.items[l].key => k = l
  /\ \A m \in 1..n : \E k \in DOMAIN acc.items :
       /\ acc.items[k].key = items[m].key
       /\ items[m].price = NoPrice \/ acc.items[k].price = items[m].price \/ Disputed(acc, items[m].key)

(* A merge fills in what is missing. *)
LEMMA MergedItemType ==
  ASSUME NEW into \in Draft, NEW other \in Draft
  PROVE  /\ MergedItem(into, other) \in Draft /\ MergedItem(into, other).key = into.key
         /\ MergedItem(into, other).price = IF into.price = NoPrice THEN other.price ELSE into.price
<1>1. into \in Item /\ other \in Item /\ DoubtShown(into) /\ DoubtShown(other)
  BY DEF Draft
<1>2. /\ MergedItem(into, other) \in Item /\ MergedItem(into, other).key = into.key
      /\ MergedItem(into, other).price = (IF into.price = NoPrice THEN other.price ELSE into.price)
      /\ MergedItem(into, other).variants = (IF into.variants = {} THEN other.variants ELSE into.variants)
      /\ MergedItem(into, other).needs_review = into.needs_review
  BY <1>1 DEF MergedItem, Item
<1>3. DoubtShown(MergedItem(into, other))
  BY <1>1, <1>2 DEF DoubtShown
<1> QED
  BY <1>2, <1>3 DEF Draft

LEMMA PriceConflictType ==
  ASSUME NEW into \in Draft, NEW other \in Draft
  PROVE  /\ PriceConflict(into, other) \in SUBSET Conflict
         /\ NoPrice \notin {into.price, other.price} /\ into.price # other.price =>
              \E c \in PriceConflict(into, other) : c.item = into.key
<1>1. into.key \in ItemName /\ into.price \in Nat \cup {NoPrice} /\ other.price \in Nat \cup {NoPrice}
  BY DEF Draft, Item
<1>2. [item |-> into.key, values |-> {into.price, other.price}] \in Conflict
  BY <1>1 DEF Conflict
<1> QED
  BY <1>2 DEF PriceConflict

LEMMA MergeIntoMerged ==
  ASSUME NEW items \in Seq(Draft), NEW n \in 0..Len(items) - 1, NEW acc, Merged(acc, items, n)
  PROVE  Merged(MergeInto(acc, items[n + 1]), items, n + 1)
<1> DEFINE item == items[n + 1]
           same == {k \in DOMAIN acc.items : acc.items[k].key = item.key}
<1>1. /\ Len(items) \in Nat /\ n + 1 \in 1..Len(items) /\ item \in Draft /\ 1..n + 1 = (1..n) \cup {n + 1}
      /\ \A m \in 1..n + 1 : items[m] \in Draft
  BY DEF Draft
<1>2. /\ acc \in Bundle /\ acc.items \in Seq(Draft) /\ acc.conflicts \in SUBSET Conflict
      /\ \A k, l \in DOMAIN acc.items : acc.items[k].key = acc.items[l].key => k = l
      /\ \A k \in DOMAIN acc.items : acc.items[k] \in Draft
  BY DEF Merged, Bundle
<1>3. \A m \in 1..n : \E k \in DOMAIN acc.items :
         /\ acc.items[k].key = items[m].key
         /\ items[m].price = NoPrice \/ acc.items[k].price = items[m].price \/ Disputed(acc, items[m].key)
  BY DEF Merged
<1> HIDE DEF item
<1>4. CASE same = {}
  <2> DEFINE longer == Append(acc.items, item)
  <2>1. MergeInto(acc, item) = [acc EXCEPT !.items = longer]
    BY <1>4 DEF MergeInto
  <2>2. /\ longer \in Seq(Draft) /\ DOMAIN longer = DOMAIN acc.items \cup {Len(acc.items) + 1}
        /\ longer[Len(acc.items) + 1] = item /\ Len(acc.items) + 1 \notin DOMAIN acc.items
        /\ \A k \in DOMAIN acc.items : longer[k] = acc.items[k]
    BY <1>1, <1>2
  <2> HIDE DEF longer
  <2>3. PICK next : next = MergeInto(acc, item)
    OBVIOUS
  <2>4. next \in Bundle /\ next.items = longer /\ next.conflicts = acc.conflicts
    BY <1>2, <2>1, <2>2, <2>3 DEF Bundle
  <2>5. \A k, l \in DOMAIN longer : longer[k].key = longer[l].key => k = l
    BY <1>2, <1>4, <2>2
  <2>6. \A m \in 1..n + 1 : \E k \in DOMAIN longer :
           /\ longer[k].key = items[m].key
           /\ items[m].price = NoPrice \/ longer[k].price = items[m].price \/ Disputed(next, items[m].key)
    <3> TAKE m \in 1..n + 1
    <3>1. CASE m = n + 1
      BY <2>2, <3>1 DEF item
    <3>2. CASE m \in 1..n
      <4>1. PICK k \in DOMAIN acc.items :
               /\ acc.items[k].key = items[m].key
               /\ items[m].price = NoPrice \/ acc.items[k].price = items[m].price \/ Disputed(acc, items[m].key)
        BY <1>3, <3>2
      <4>2. k \in DOMAIN longer /\ longer[k] = acc.items[k]
        BY <2>2
      <4>3. Disputed(acc, items[m].key) => Disputed(next, items[m].key)
        BY <2>4 DEF Disputed
      <4> QED
        BY <4>1, <4>2, <4>3
    <3> QED
      BY <1>1, <3>1, <3>2
  <2>7. Merged(next, items, n + 1)
    BY <2>4, <2>5, <2>6 DEF Merged
  <2> QED
    BY <2>3, <2>7 DEF item
<1>5. CASE same # {}
  <2> DEFINE at == CHOOSE k \in same : TRUE
             merged == MergedItem(acc.items[at], item)
             others == [acc.items EXCEPT ![at] = merged]
             dispute == PriceConflict(acc.items[at], item)
  <2>1. at \in DOMAIN acc.items /\ acc.items[at].key = item.key
    BY <1>5
  <2>2. MergeInto(acc, item) = [items |-> others, conflicts |-> acc.conflicts \cup dispute]
    BY <1>5 DEF MergeInto
  <2> HIDE DEF at
  <2>3. acc.items[at] \in Draft
    BY <1>2, <2>1
  <2>4. /\ merged \in Draft /\ merged.key = acc.items[at].key
        /\ merged.price = IF acc.items[at].price = NoPrice THEN item.price ELSE acc.items[at].price
    BY <1>1, <2>3, MergedItemType
  <2>5. /\ dispute \in SUBSET Conflict
        /\ NoPrice \notin {acc.items[at].price, item.price} /\ acc.items[at].price # item.price =>
             \E c \in dispute : c.item = acc.items[at].key
    BY <1>1, <2>3, PriceConflictType
  <2> HIDE DEF merged, dispute
  <2>6. /\ others \in Seq(Draft) /\ DOMAIN others = DOMAIN acc.items
        /\ \A k \in DOMAIN acc.items : others[k] = IF k = at THEN merged ELSE acc.items[k]
    BY <1>2, <2>1, <2>4
  <2> HIDE DEF others
  <2>7. PICK next : next = MergeInto(acc, item)
    OBVIOUS
  <2>8. next \in Bundle /\ next.items = others /\ next.conflicts = acc.conflicts \cup dispute
    BY <1>2, <2>2, <2>5, <2>6, <2>7 DEF Bundle
  <2>9. \A k \in DOMAIN others : others[k].key = acc.items[k].key
    BY <2>4, <2>6
  <2>10. \A k, l \in DOMAIN others : others[k].key = others[l].key => k = l
    BY <1>2, <2>6, <2>9
  <2>11. \A m \in 1..n + 1 : \E k \in DOMAIN others :
            /\ others[k].key = items[m].key
            /\ items[m].price = NoPrice \/ others[k].price = items[m].price \/ Disputed(next, items[m].key)
    <3> TAKE m \in 1..n + 1
    <3>1. CASE m = n + 1
      <4>1. items[m] = item
        BY <3>1 DEF item
      <4>2. at \in DOMAIN others /\ others[at] = merged /\ others[at].key = item.key
        BY <2>1, <2>6, <2>9
      <4>3. item.price = NoPrice \/ merged.price = item.price \/ Disputed(next, item.key)
        BY <2>1, <2>4, <2>5, <2>8 DEF Disputed
      <4> QED
        BY <4>1, <4>2, <4>3
    <3>2. CASE m \in 1..n
      <4>1. PICK k \in DOMAIN acc.items :
               /\ acc.items[k].key = items[m].key
               /\ items[m].price = NoPrice \/ acc.items[k].price = items[m].price \/ Disputed(acc, items[m].key)
        BY <1>3, <3>2
      <4>2. k \in DOMAIN others /\ others[k].key = items[m].key
        BY <2>6, <2>9, <4>1
      <4>3. Disputed(acc, items[m].key) => Disputed(next, items[m].key)
        BY <2>8 DEF Disputed
      <4>4. items[m].price # NoPrice /\ acc.items[k].price = items[m].price => others[k].price = items[m].price
        BY <2>4, <2>6, <4>1
      <4> QED
        BY <4>1, <4>2, <4>3, <4>4
    <3> QED
      BY <1>1, <3>1, <3>2
  <2>12. Merged(next, items, n + 1)
    BY <2>8, <2>10, <2>11 DEF Merged
  <2> QED
    BY <2>7, <2>12 DEF item
<1> QED
  BY <1>4, <1>5

(* The bundle of a list of items. *)
LEMMA SynthesizedMerged ==
  ASSUME NEW items \in Seq(Draft)
  PROVE  Merged(Synthesized(items), items, Len(items))
<1> DEFINE b == Len(items)
           V == {acc \in Bundle : Merged(acc, <<>>, 0)}
           nothing == [items |-> <<>>, conflicts |-> {}]
           step == [p \in (1..b) \X V |-> MergeInto(p[2], items[p[1]])]
           Acc(f) == f = [n \in 0..b |-> IF n = 0 THEN [items |-> <<>>, conflicts |-> {}] ELSE MergeInto(f[n - 1], items[n])]
<1>1. b \in Nat /\ \A n \in 1..b : items[n] \in Draft
  OBVIOUS
<1>2. nothing \in V
  <2>1. nothing \in Bundle /\ DOMAIN nothing.items = {}
    BY DEF Bundle
  <2> QED
    BY <2>1 DEF Merged
<1>3. \A n \in 1..b, acc \in V : MergeInto(acc, items[n]) \in V
  <2> SUFFICES ASSUME NEW n \in 1..b, NEW acc \in V PROVE MergeInto(acc, items[n]) \in V
    OBVIOUS
  <2> DEFINE one == <<items[n]>>
  <2>1. one \in Seq(Draft) /\ Len(one) = 1 /\ one[0 + 1] = items[n] /\ 0 \in 0..Len(one) - 1
    BY <1>1
  <2> HIDE DEF one
  <2>2. Merged(acc, one, 0)
    BY DEF Merged
  <2>3. Merged(MergeInto(acc, items[n]), one, 0 + 1)
    BY <2>1, <2>2, MergeIntoMerged
  <2> QED
    BY <2>3 DEF Merged
<1> HIDE DEF b
<1>4. step \in StepsOn(b, V)
  <2> HIDE DEF V
  <2> QED
    BY <1>3 DEF StepsOn
<1>5. PICK f : Follows(f, b, V, nothing, step)
  <2> HIDE DEF step, V, nothing
  <2> QED
    BY <1>1, <1>2, <1>4, RecursionExists
<1>6. f \in [0..b -> V] /\ f[0] = nothing
  BY <1>5 DEF Follows
<1>7. \A n \in 1..b : f[n - 1] \in V
  <2> HIDE DEF V
  <2> QED
    BY <1>1, <1>6
<1>8. \A n \in 1..b : f[n] = MergeInto(f[n - 1], items[n])
  <2> TAKE n \in 1..b
  <2>1. f[n] = step[<<n, f[n - 1]>>] /\ <<n, f[n - 1]>> \in (1..b) \X V
    BY <1>5, <1>7 DEF Follows
  <2> HIDE DEF V
  <2> QED
    BY <2>1
<1> HIDE DEF step, V
<1>9. Acc(f)
  <2>1. f = [n \in 0..b |-> f[n]] /\ 0..b = {0} \cup 1..b /\ 0 \notin 1..b
    BY <1>1, <1>6
  <2>2. \A n \in 0..b : f[n] = IF n = 0 THEN [items |-> <<>>, conflicts |-> {}] ELSE MergeInto(f[n - 1], items[n])
    BY <1>6, <1>8, <2>1
  <2> QED
    BY <2>1, <2>2
<1>10. \A g : Acc(g) => g = f
  <2> SUFFICES ASSUME NEW g, Acc(g) PROVE g = f
    OBVIOUS
  <2>1. f = [n \in 0..b |-> f[n]] /\ g = [n \in 0..b |-> g[n]] /\ g[0] = f[0]
    BY <1>1, <1>6
  <2>2. \A n \in 0..b - 1 : g[n] = f[n] => g[n + 1] = f[n + 1]
    <3> SUFFICES ASSUME NEW n \in 0..b - 1, g[n] = f[n] PROVE g[n + 1] = f[n + 1]
      OBVIOUS
    <3>0. b \in Nat
      BY <1>1
    <3>1. n + 1 \in 1..b /\ n + 1 \in 0..b /\ n + 1 # 0 /\ (n + 1) - 1 = n
      BY <3>0
    <3> QED
      BY <1>8, <3>1
  <2> HIDE DEF Acc
  <2> QED
    BY <1>1, <2>1, <2>2, RecursionUnique
<1>11. (CHOOSE g : Acc(g)) = f
  <2> HIDE DEF Acc
  <2> QED
    BY <1>9, <1>10
<1>12. Synthesized(items) = f[b]
  BY <1>11, Zenon DEF Synthesized, Acc, b
<1> HIDE DEF Acc
<1> DEFINE S == {n \in 0..b : Merged(f[n], items, n)}
<1>13. 0 \in S
  BY <1>1, <1>2, <1>6 DEF Merged, V
<1>14. \A n \in 0..b - 1 : n \in S => n + 1 \in S
  <2> SUFFICES ASSUME NEW n \in 0..b - 1, Merged(f[n], items, n) PROVE Merged(f[n + 1], items, n + 1)
    BY <1>1
  <2>1. n + 1 \in 1..b /\ (n + 1) - 1 = n
    BY <1>1
  <2>2. f[n + 1] = MergeInto(f[n], items[n + 1])
    BY <1>8, <2>1
  <2> QED
    BY <2>2, MergeIntoMerged DEF b
<1>15. b \in S
  <2> HIDE DEF S
  <2>1. 0..b \subseteq S
    BY <1>1, <1>13, <1>14, UpToInductionOnSet
  <2> QED
    BY <1>1, <2>1
<1> QED
  BY <1>12, <1>15 DEF b

--------------------------------------------------------------------------------
LEMMA LeastMin ==
  ASSUME NEW S \in SUBSET Nat, S # {}
  PROVE  Min(S) \in S /\ \A m \in S : Min(S) <= m
BY LeastNat DEF Min

(* A rule that applies says what the operation does. *)
LEMMA MatchesMeans ==
  ASSUME NEW op, NEW a \in PlatformAction, Matches(op, a)
  PROVE  /\ op.method = "get" <=> a \in {"get_order_status", "check_availability", "check_reservation_slots"}
         /\ a \in {"create_order", "make_reservation"} => "cancel" \notin op.words
         /\ a \in {"cancel_order", "cancel_reservation"} => "cancel" \in op.words
<1> DEFINE R == MatchRules
<1>1. PICK n \in DOMAIN R : /\ RuleApplies(op, R[n]) /\ R[n].action = a
                            /\ \A m \in 1..n - 1 : ~RuleApplies(op, R[m])
  BY DEF Matches
<1>2. n \in 1..8
  BY DEF MatchRules
<1>3. /\ R[1] = MatchRule("cancel_order", {"post", "delete"}, {OrderWord, CancelWord})
      /\ R[2] = MatchRule("update_order", {"put", "patch"}, {OrderWord})
      /\ R[3] = MatchRule("create_order", {"post"}, {OrderWord})
      /\ R[4] = MatchRule("get_order_status", {"get"}, {OrderWord})
      /\ R[5] = MatchRule("cancel_reservation", {"post", "delete"}, {ReservationWord, CancelWord})
      /\ R[6] = MatchRule("check_reservation_slots", {"get"}, {ReservationWord, SlotWord})
      /\ R[7] = MatchRule("make_reservation", {"post"}, {ReservationWord})
      /\ R[8] = MatchRule("check_availability", {"get"}, {AvailabilityWord})
  BY DEF MatchRules
<1> HIDE DEF R
<1>4. op.method \in R[n].methods /\ \A c \in R[n].classes : c \cap op.words # {}
  BY <1>1 DEF RuleApplies
<1>5. CASE n = 1 \/ n = 5
  <2>1. /\ a \in {"cancel_order", "cancel_reservation"} /\ R[n].methods = {"post", "delete"}
        /\ CancelWord \in R[n].classes
    BY <1>1, <1>3, <1>5 DEF MatchRule
  <2>2. op.method \in {"post", "delete"} /\ "cancel" \in op.words
    BY <1>4, <2>1 DEF CancelWord
  <2> QED
    BY <2>1, <2>2
<1>6. CASE n = 3
  <2>1. ~RuleApplies(op, R[1])
    BY <1>1, <1>6
  <2>2. op.method = "post" /\ OrderWord \cap op.words # {}
    BY <1>3, <1>4, <1>6 DEF MatchRule
  <2>3. "cancel" \notin op.words
    BY <1>3, <2>1, <2>2 DEF RuleApplies, MatchRule, CancelWord
  <2> QED
    BY <1>1, <1>3, <1>6, <2>2, <2>3 DEF MatchRule
<1>7. CASE n = 7
  <2>1. ~RuleApplies(op, R[5])
    BY <1>1, <1>7
  <2>2. op.method = "post" /\ ReservationWord \cap op.words # {}
    BY <1>3, <1>4, <1>7 DEF MatchRule
  <2>3. "cancel" \notin op.words
    BY <1>3, <2>1, <2>2 DEF RuleApplies, MatchRule, CancelWord
  <2> QED
    BY <1>1, <1>3, <1>7, <2>2, <2>3 DEF MatchRule
<1>8. CASE n \in {2, 4, 6, 8}
  BY <1>1, <1>3, <1>4, <1>8 DEF MatchRule
<1> QED
  BY <1>2, <1>5, <1>6, <1>7, <1>8

(* An action is bound to an operation that matches it. *)
LEMMA CapabilityMeans ==
  ASSUME NEW operations, DOMAIN operations \in SUBSET Nat, NEW a \in PlatformAction,
         CapabilityMap(operations)[a].adapter = "rest"
  PROVE  /\ a \notin AlwaysNative /\ DOMAIN operations # {}
         /\ Matches(CapabilityMap(operations)[a].binding, a)
<1> DEFINE found == {i \in DOMAIN operations : a \notin AlwaysNative /\ Matches(operations[i], a)}
<1>1. CapabilityMap(operations)[a] =
        IF found = {} THEN [adapter |-> "native"] ELSE [adapter |-> "rest", binding |-> operations[Min(found)]]
  BY DEF CapabilityMap
<1>2. found # {}
  BY <1>1
<1>3. Min(found) \in found
  BY <1>2, LeastMin
<1> QED
  BY <1>1, <1>2, <1>3

--------------------------------------------------------------------------------
(* The bundle is what the pipeline makes of the source, and the changes are *)
(* those between the two menus.                                             *)
Drafts == IF source.kind = "website" THEN Synthesized(ExtractedItems(source.crawl)) ELSE Synthesized(<<>>)
Operations == IF source.kind = "api_doc" /\ source.parses THEN source.operations ELSE <<>>

PipelineInv ==
  /\ source \in Source
  /\ bundle # <<>> =>
       Head(bundle) = [items |-> Drafts.items, conflicts |-> Drafts.conflicts, capabilities |-> CapabilityMap(Operations)]
  /\ changes # <<>> =>
       /\ bundle # <<>>
       /\ Head(changes) = MenuChanges(PriceMap(published), PriceMap(Head(bundle).items))

LEMMA PipelineInvariant == PipelineSpec => []PipelineInv
<1>1. PipelineInit => PipelineInv
  BY DEF PipelineInit, PipelineInv
<1>2. ASSUME PipelineInv, [PipelineNext]_pipelineVars PROVE PipelineInv'
  <2>1. CASE RunWebsite \/ RunApiDoc \/ RunOther
    <3>1. /\ bundle = <<>> /\ UNCHANGED <<source, published, changes>>
          /\ Head(bundle') =
               [items |-> Drafts.items, conflicts |-> Drafts.conflicts, capabilities |-> CapabilityMap(Operations)]
      BY <2>1 DEF RunWebsite, RunApiDoc, RunOther, Yields, Drafts, Operations
    <3>2. Drafts' = Drafts /\ Operations' = Operations
      BY <3>1 DEF Drafts, Operations
    <3> QED
      BY <1>2, <3>1, <3>2 DEF PipelineInv
  <2>2. CASE DetectChanges
    <3>1. Drafts' = Drafts /\ Operations' = Operations
      BY <2>2 DEF DetectChanges, Drafts, Operations
    <3> QED
      BY <1>2, <2>2, <3>1 DEF DetectChanges, PipelineInv
  <2>3. CASE UNCHANGED pipelineVars
    <3>1. Drafts' = Drafts /\ Operations' = Operations
      BY <2>3 DEF pipelineVars, Drafts, Operations
    <3> QED
      BY <1>2, <2>3, <3>1 DEF pipelineVars, PipelineInv
  <2> QED
    BY <1>2, <2>1, <2>2, <2>3 DEF PipelineNext
<1> QED
  BY <1>1, <1>2, PTL DEF PipelineSpec

(* What is read from the pages of a crawl is a sequence of items. *)
LEMMA ExtractedItemsType ==
  ASSUME NEW crawl \in Seq(WebPage)
  PROVE  ExtractedItems(crawl) \in Seq(Draft)
<1> DEFINE b == Len(crawl)
           V == Seq(Draft)
           Of(n) == IF crawl[n].usable THEN Extracted(crawl[n].nodes) ELSE <<>>
           step == [p \in (1..b) \X V |-> p[2] \o Of(p[1])]
           Found(f) == f = [n \in 0..b |->
                              IF n = 0 THEN <<>>
                              ELSE f[n - 1] \o (IF crawl[n].usable THEN Extracted(crawl[n].nodes) ELSE <<>>)]
<1>1. b \in Nat /\ \A n \in 1..b : crawl[n] \in WebPage
  OBVIOUS
<1>2. \A n \in 1..b : Of(n) \in V
  <2> SUFFICES ASSUME NEW n \in 1..b PROVE Of(n) \in V
    OBVIOUS
  <2>1. crawl[n].nodes \in Seq(Node)
    BY <1>1 DEF WebPage
  <2>2. Extracted(crawl[n].nodes) \in V
    BY <2>1, ExtractedType
  <2> QED
    BY <2>2
<1>3. <<>> \in V /\ \A n \in 1..b, items \in V : items \o Of(n) \in V
  <2> HIDE DEF Of
  <2> QED
    BY <1>2
<1> HIDE DEF b
<1>4. step \in StepsOn(b, V)
  <2> HIDE DEF V, Of
  <2> QED
    BY <1>3 DEF StepsOn
<1>5. PICK f : Follows(f, b, V, <<>>, step)
  <2> HIDE DEF step, V, Of
  <2> QED
    BY <1>1, <1>3, <1>4, RecursionExists
<1>6. f \in [0..b -> V] /\ f[0] = <<>>
  BY <1>5 DEF Follows
<1>7. \A n \in 1..b : f[n - 1] \in V
  <2> HIDE DEF V, Of
  <2> QED
    BY <1>1, <1>6
<1>8. \A n \in 1..b : f[n] = f[n - 1] \o Of(n)
  <2> TAKE n \in 1..b
  <2>1. f[n] = step[<<n, f[n - 1]>>] /\ <<n, f[n - 1]>> \in (1..b) \X V
    BY <1>5, <1>7 DEF Follows
  <2> HIDE DEF V, Of
  <2> QED
    BY <2>1
<1> HIDE DEF step, V
<1>9. Found(f)
  <2>1. f = [n \in 0..b |-> f[n]] /\ 0..b = {0} \cup 1..b /\ 0 \notin 1..b
    BY <1>1, <1>6
  <2>2. \A n \in 0..b : f[n] = IF n = 0 THEN <<>>
                             ELSE f[n - 1] \o (IF crawl[n].usable THEN Extracted(crawl[n].nodes) ELSE <<>>)
    BY <1>6, <1>8, <2>1
  <2> QED
    BY <2>1, <2>2
<1>10. \A g : Found(g) => g = f
  <2> SUFFICES ASSUME NEW g, Found(g) PROVE g = f
    OBVIOUS
  <2>1. f = [n \in 0..b |-> f[n]] /\ g = [n \in 0..b |-> g[n]] /\ g[0] = f[0]
    BY <1>1, <1>6
  <2>2. \A n \in 0..b - 1 : g[n] = f[n] => g[n + 1] = f[n + 1]
    <3> SUFFICES ASSUME NEW n \in 0..b - 1, g[n] = f[n] PROVE g[n + 1] = f[n + 1]
      OBVIOUS
    <3>1. n + 1 \in 1..b /\ n + 1 \in 0..b /\ n + 1 # 0 /\ (n + 1) - 1 = n
      BY <1>1
    <3> QED
      BY <1>8, <3>1
  <2> HIDE DEF Found
  <2> QED
    BY <1>1, <2>1, <2>2, RecursionUnique
<1>11. (CHOOSE g : Found(g)) = f
  <2> HIDE DEF Found
  <2> QED
    BY <1>9, <1>10
<1>12. ExtractedItems(crawl) = f[b]
  BY <1>11, Zenon DEF ExtractedItems, Found, b
<1> QED
  BY <1>1, <1>6, <1>12 DEF V

(* A draft without a price has none among its variants, and asks for a review. *)
LEMMA UnpricedAsks ==
  ASSUME NEW d \in Draft, PriceOf(d) = NoPrice
  PROVE  d.needs_review
<1>1. d.price \in Nat \cup {NoPrice} /\ d.variants \in SUBSET Nat /\ DoubtShown(d)
  BY DEF Draft, Item
<1>2. d.price = NoPrice
  BY DEF PriceOf
<1>3. d.variants = {}
  <2> SUFFICES ASSUME d.variants # {} PROVE FALSE
    OBVIOUS
  <2>1. PriceOf(d) = Min(d.variants)
    BY <1>2 DEF PriceOf
  <2>2. Min(d.variants) \in Nat
    BY <1>1, LeastMin
  <2> QED
    BY <2>1, <2>2, SynthesisConstants
<1> QED
  BY <1>1, <1>2, <1>3 DEF DoubtShown

(* Items of one name that the pages of a crawl left with different prices  *)
(* make a conflict in the draft of run_pipeline, and an item nobody priced *)
(* asks for a review, for any number of pages and of items on each.        *)
THEOREM ReviewerAlwaysSeesDoubt == PipelineSpec => []ReviewerSeesDoubt
<1>1. PipelineInv => ReviewerSeesDoubt
  <2> SUFFICES ASSUME PipelineInv, bundle # <<>>, source.kind = "website"
               PROVE  LET drafts == Head(bundle)
                      IN  /\ \A i, j \in Range(ExtractedItems(source.crawl)) :
                               i.key = j.key /\ NoPrice \notin {i.price, j.price} /\ i.price # j.price =>
                                 \E c \in drafts.conflicts : c.item = i.key
                          /\ \A d \in Range(drafts.items) : PriceOf(d) = NoPrice => d.needs_review
    BY DEF ReviewerSeesDoubt
  <2> DEFINE items == ExtractedItems(source.crawl)
             acc == Synthesized(items)
  <2>1. Head(bundle).items = acc.items /\ Head(bundle).conflicts = acc.conflicts
    BY DEF PipelineInv, Drafts
  <2>2. source.crawl \in Seq(WebPage)
    BY MenusAndPages DEF PipelineInv, Source
  <2>3. items \in Seq(Draft)
    BY <2>2, ExtractedItemsType
  <2>4. Merged(acc, items, Len(items))
    BY <2>3, SynthesizedMerged
  <2> HIDE DEF items, acc
  <2>5. \A i, j \in Range(items) :
           i.key = j.key /\ NoPrice \notin {i.price, j.price} /\ i.price # j.price =>
             \E c \in acc.conflicts : c.item = i.key
    <3> SUFFICES ASSUME NEW i \in Range(items), NEW j \in Range(items),
                        i.key = j.key, NoPrice \notin {i.price, j.price}, i.price # j.price,
                        ~Disputed(acc, i.key)
                 PROVE  FALSE
      BY DEF Disputed
    <3>1. PICK m \in 1..Len(items), n \in 1..Len(items) : i = items[m] /\ j = items[n]
      BY <2>3 DEF Range
    <3>2. PICK k \in DOMAIN acc.items : acc.items[k].key = i.key /\ acc.items[k].price = i.price
      BY <2>4, <3>1 DEF Merged
    <3>3. PICK l \in DOMAIN acc.items : acc.items[l].key = j.key /\ acc.items[l].price = j.price
      BY <2>4, <3>1 DEF Merged
    <3>4. k = l
      BY <2>4, <3>2, <3>3 DEF Merged
    <3> QED
      BY <3>2, <3>3, <3>4
  <2>6. \A d \in Range(acc.items) : PriceOf(d) = NoPrice => d.needs_review
    <3>1. acc.items \in Seq(Draft)
      BY <2>4 DEF Merged, Bundle
    <3>2. Range(acc.items) \subseteq Draft
      BY <3>1 DEF Range
    <3> QED
      BY <3>2, UnpricedAsks
  <2> QED
    BY <2>1, <2>5, <2>6 DEF items
<1> QED
  BY <1>1, PipelineInvariant, PTL

(* What the changes between two price lists say. *)
Explains(found, old, new) ==
  LET gone  == {c.name : c \in {d \in found : d.kind = "removed"}}
      told  == {c.name : c \in {d \in found : d.kind # "removed"}}
  IN  /\ DOMAIN new = (DOMAIN old \ gone) \cup told
      /\ \A k \in DOMAIN new :
           new[k] = IF k \in told THEN (CHOOSE c \in found : c.name = k).new ELSE old[k]
      /\ \A k \in DOMAIN old :
           k \notin DOMAIN new \/ new[k] # old[k] => \E c \in found : c.name = k /\ RequiresReview(c)

LEMMA ChangesLead ==
  ASSUME NEW old, NEW new
  PROVE  Explains(MenuChanges(old, new), old, new)
<1> DEFINE found == MenuChanges(old, new)
           gone  == {c.name : c \in {d \in found : d.kind = "removed"}}
           told  == {c.name : c \in {d \in found : d.kind # "removed"}}
           added(k) == Change("added", k, NoPrice, new[k])
           changed(k) == Change("price_changed", k, old[k], new[k])
           removed(k) == Change("removed", k, old[k], NoPrice)
<1>1. \A c : c \in found <=>
         \/ \E k \in DOMAIN new \ DOMAIN old : c = added(k)
         \/ \E k \in DOMAIN new \cap DOMAIN old : old[k] # new[k] /\ c = changed(k)
         \/ \E k \in DOMAIN old \ DOMAIN new : c = removed(k)
  BY DEF MenuChanges
<1>2. \A k : /\ added(k).kind = "added" /\ added(k).name = k /\ added(k).new = new[k]
             /\ changed(k).kind = "price_changed" /\ changed(k).name = k /\ changed(k).new = new[k]
             /\ removed(k).kind = "removed" /\ removed(k).name = k
  BY DEF Change
<1> HIDE DEF found, added, changed, removed
<1>3. \A k : k \in gone <=> k \in DOMAIN old \ DOMAIN new
  BY <1>1, <1>2
<1>4. \A k : k \in told <=> k \in DOMAIN new /\ (k \in DOMAIN old => old[k] # new[k])
  BY <1>1, <1>2
<1>5. \A k \in told : \A c \in found : c.name = k => c.new = new[k]
  BY <1>1, <1>2, <1>4
<1>6. \A k \in told : \E c \in found : c.name = k
  OBVIOUS
<1>7. \A k \in told : (CHOOSE c \in found : c.name = k).new = new[k]
  BY <1>5, <1>6
<1>8. \A k \in DOMAIN old :
         k \notin DOMAIN new \/ new[k] # old[k] => \E c \in found : c.name = k /\ RequiresReview(c)
  <2> TAKE k \in DOMAIN old
  <2>1. k \notin DOMAIN new => removed(k) \in found
    BY <1>1
  <2>2. k \in DOMAIN new /\ new[k] # old[k] => changed(k) \in found
    BY <1>1
  <2> QED
    BY <1>2, <2>1, <2>2 DEF RequiresReview
<1>9. DOMAIN new = (DOMAIN old \ gone) \cup told
  BY <1>3, <1>4
<1>10. \A k \in DOMAIN new :
          new[k] = IF k \in told THEN (CHOOSE c \in found : c.name = k).new ELSE old[k]
  BY <1>4, <1>7
<1> QED
  BY <1>8, <1>9, <1>10 DEF found, Explains

(* The changes detect_menu_changes reports lead from the price list of any *)
(* menu of before to that of any crawl, and a name that vanishes or costs  *)
(* something else requires a review.                                       *)
THEOREM ChangesAlwaysExplain == PipelineSpec => []ChangesExplainMenu
<1>1. PipelineInv => ChangesExplainMenu
  <2> SUFFICES ASSUME PipelineInv, changes # <<>>
               PROVE  Explains(Head(changes), PriceMap(published), PriceMap(Head(bundle).items))
    BY DEF ChangesExplainMenu, Explains
  <2> QED
    BY ChangesLead DEF PipelineInv
<1> QED
  BY <1>1, PipelineInvariant, PTL

(* analyze_openapi binds an action only to an operation that does it, and  *)
(* none of Ordy's own, for any API document.                               *)
THEOREM CapabilityMapAlwaysSound == PipelineSpec => []CapabilityMapSound
<1>1. PipelineInv => CapabilityMapSound
  <2> SUFFICES ASSUME PipelineInv, bundle # <<>>, NEW a \in PlatformAction,
                      CapabilityMap(Operations)[a].adapter = "rest"
               PROVE  /\ source.kind = "api_doc" /\ source.parses /\ a \notin AlwaysNative
                      /\ CapabilityMap(Operations)[a].binding.method = "get" <=>
                           a \in {"get_order_status", "check_availability", "check_reservation_slots"}
                      /\ a \in {"create_order", "make_reservation"} =>
                           "cancel" \notin CapabilityMap(Operations)[a].binding.words
                      /\ a \in {"cancel_order", "cancel_reservation"} =>
                           "cancel" \in CapabilityMap(Operations)[a].binding.words
    BY DEF CapabilityMapSound, PipelineInv
  <2>1. DOMAIN Operations \in SUBSET Nat
    <3>1. CASE source.kind = "api_doc" /\ source.parses
      <4>1. source.operations \in BoundedSeq(Operation, MaxOperations)
        BY <3>1 DEF PipelineInv, Source
      <4>2. source.operations \in Seq(Operation)
        BY <4>1, SynthesisConstants, BoundedSeqType
      <4> QED
        BY <3>1, <4>2 DEF Operations
    <3>2. CASE ~(source.kind = "api_doc" /\ source.parses)
      BY <3>2 DEF Operations
    <3> QED
      BY <3>1, <3>2
  <2>2. /\ a \notin AlwaysNative /\ DOMAIN Operations # {}
        /\ Matches(CapabilityMap(Operations)[a].binding, a)
    BY <2>1, CapabilityMeans
  <2>3. source.kind = "api_doc" /\ source.parses
    BY <2>2 DEF Operations
  <2> QED
    BY <2>2, <2>3, MatchesMeans
<1> QED
  BY <1>1, PipelineInvariant, PTL

--------------------------------------------------------------------------------
(***************************************************************************)
(* Retrieval, for any pages, windows, synonyms and rankings of the         *)
(* embedder.                                                               *)
(*                                                                         *)
(* The windows of a section leave no word out (WindowsCover); fusion puts  *)
(* the rows in a strict total order (FusionOrders), in which the embedder  *)
(* alone lifts at most its first row above the first that matches          *)
(* (AboveFirstLexical), so that of two results one matches (MatchFused).   *)
(***************************************************************************)

(* The windows advance, and by no more than their own length.              *)
LEMMA StepAdvances ==
  ASSUME NEW w \in WindowSize
  PROVE  /\ w.target \in Nat \ {0} /\ Step(w) \in Nat \ {0} /\ Step(w) <= w.target
<1>1. w.target \in Nat \ {0} /\ w.overlap \in Nat
  BY RetrievalConstants
<1>2. PICK d \in Int : d = w.target - w.overlap
  BY <1>1
<1>3. \E x \in {1, d} : \A y \in {1, d} : x >= y
  <2>1. CASE d <= 1
    BY <2>1, <1>2
  <2>2. CASE d > 1
    BY <2>2, <1>2
  <2> QED
    BY <1>2, <2>1, <2>2
<1>4. Step(w) \in {1, d} /\ \A y \in {1, d} : Step(w) >= y
  BY <1>2, <1>3 DEF Step, Max
<1> QED
  BY <1>1, <1>2, <1>4

(* No word of a section falls between its windows.                         *)
LEMMA WindowsCover ==
  ASSUME NEW w \in WindowSize, NEW length \in Nat, NEW j \in 0..length - 1
  PROVE  \E n \in WindowNumbers(length, w) : n * Step(w) <= j /\ j < n * Step(w) + w.target
<1> DEFINE s == Step(w)
           t == w.target
           S == {n \in Nat : j < n * s + t}
<1>1. s \in Nat \ {0} /\ t \in Nat \ {0} /\ s <= t
  BY StepAdvances
<1> HIDE DEF s, t
<1>2. \A n \in Nat : n * s \in Nat /\ n <= n * s /\ (n + 1) * s = n * s + s
  <2> TAKE n \in Nat
  <2>1. PICK d \in Nat : s = d + 1
    BY <1>1
  <2>2. n * d \in Nat /\ n * s = n * d + n /\ (n + 1) * s = n * s + s
    BY <2>1
  <2> QED
    BY <2>2
<1>3. S \in SUBSET Nat /\ S # {}
  <2>1. j \in Nat /\ j * s \in Nat /\ j <= j * s
    BY <1>2
  <2>2. j \in S
    BY <1>1, <2>1
  <2> QED
    BY <2>2
<1>4. PICK n \in S : \A m \in S : n <= m
  BY <1>3, LeastNat
<1>5. n \in Nat /\ j < n * s + t
  OBVIOUS
<1>6. n * s <= j /\ (n = 0 \/ (n - 1) * s + t <= j)
  <2>1. CASE n = 0
    BY <2>1, <1>1
  <2>2. CASE n # 0
    <3>1. PICK m \in Nat : n = m + 1
      BY <2>2, <1>5
    <3>2. m \notin S
      BY <3>1, <1>4
    <3>3. m * s + t <= j
      BY <3>1, <3>2, <1>1, <1>2
    <3> QED
      BY <3>1, <3>3, <1>1, <1>2
  <2> QED
    BY <2>1, <2>2
<1>7. n \in WindowNumbers(length, w)
  <2>1. n \in 0..length - 1
    BY <1>2, <1>5, <1>6
  <2>2. n * s < length
    BY <1>2, <1>5, <1>6
  <2>3. n = 0 \/ (n - 1) * s + t < length
    <3>1. CASE n # 0
      <4>1. PICK m \in Nat : n = m + 1
        BY <3>1, <1>5
      <4> QED
        BY <4>1, <1>1, <1>2, <1>6
    <3> QED
      BY <3>1
  <2> QED
    BY <2>1, <2>2, <2>3 DEF WindowNumbers, s, t
<1> QED
  BY <1>5, <1>6, <1>7 DEF s, t

LEMMA HeadingNumbers ==
  ASSUME NEW page \in Seq(Entry)
  PROVE  Headings(page) \subseteq 1..Len(page) /\ Len(page) \in Nat /\ DOMAIN page = 1..Len(page)
BY DEF Headings

LEMMA SectionEnds ==
  ASSUME NEW page \in Seq(Entry), NEW h \in Headings(page) \cup {0}
  PROVE  /\ h \in 0..Len(page)
         /\ SectionEnd(page, h) \in h + 1..Len(page) + 1
         /\ SectionEnd(page, h) \in Headings(page) \cup {Len(page) + 1}
         /\ BodyLength(page, h) \in 0..Len(page)
<1> DEFINE S == {i \in Headings(page) : i > h} \cup {Len(page) + 1}
<1>1. Headings(page) \subseteq 1..Len(page) /\ Len(page) \in Nat
  BY HeadingNumbers
<1>2. S \in SUBSET Nat /\ S # {} /\ h \in 0..Len(page)
  BY <1>1
<1>3. SectionEnd(page, h) \in S
  <2>1. Min(S) \in S
    <3> HIDE DEF S
    <3> QED
      BY <1>2, MinIsLeast
  <2> QED
    BY <2>1 DEF SectionEnd
<1>4. SectionEnd(page, h) \in h + 1..Len(page) + 1 /\ SectionEnd(page, h) \in Headings(page) \cup {Len(page) + 1}
  BY <1>1, <1>2, <1>3
<1> QED
  BY <1>1, <1>2, <1>4 DEF BodyLength

(* Every word of the body is in a section.                                 *)
LEMMA SectionOfWord ==
  ASSUME NEW page \in Seq(Entry), NEW i \in DOMAIN page, ~page[i].heading
  PROVE  \E h \in Headings(page) \cup {0} : h < i /\ i < SectionEnd(page, h)
<1> DEFINE S == {g \in Headings(page) \cup {0} : g < i}
<1>1. Headings(page) \subseteq 1..Len(page) /\ Len(page) \in Nat /\ i \in 1..Len(page)
  BY HeadingNumbers
<1>2. S \in SUBSET Nat /\ S # {} /\ i \in Nat /\ \A n \in S : n <= i
  BY <1>1
<1>3. PICK h \in S : \A m \in S : m <= h
  <2> HIDE DEF S
  <2> QED
    BY <1>2, GreatestNat
<1>4. h \in Headings(page) \cup {0} /\ h < i
  OBVIOUS
<1>5. /\ SectionEnd(page, h) \in h + 1..Len(page) + 1
      /\ SectionEnd(page, h) \in Headings(page) \cup {Len(page) + 1}
      /\ h \in 0..Len(page)
  BY <1>4, SectionEnds
<1>6. SectionEnd(page, h) # i
  <2>1. i \notin Headings(page)
    BY DEF Headings
  <2> QED
    BY <2>1, <1>1, <1>5
<1>7. ~(SectionEnd(page, h) < i)
  <2>1. SUFFICES ASSUME SectionEnd(page, h) < i PROVE FALSE
    OBVIOUS
  <2>2. SectionEnd(page, h) \in S
    BY <2>1, <1>1, <1>5
  <2> QED
    BY <2>2, <1>1, <1>3, <1>5
<1> QED
  BY <1>1, <1>4, <1>5, <1>6, <1>7

Chunk(page, h, n, w) == [section |-> h, number |-> n, words |-> WindowWords(page, h, n, w)]

LEMMA ChunkOf ==
  ASSUME NEW page \in Seq(Entry), NEW w \in WindowSize, NEW c \in ChunkMarkdown(page, w)
  PROVE  \E h \in 0..Len(page), n \in 0..Len(page) : c = Chunk(page, h, n, w)
<1>1. PICK h \in Headings(page) \cup {0} :
        \E n \in WindowNumbers(BodyLength(page, h), w) : c = Chunk(page, h, n, w)
  BY DEF ChunkMarkdown, Chunk
<1>0. PICK n \in WindowNumbers(BodyLength(page, h), w) : c = Chunk(page, h, n, w)
  BY <1>1
<1>2. h \in 0..Len(page) /\ BodyLength(page, h) \in 0..Len(page)
  BY SectionEnds
<1>3. n \in 0..BodyLength(page, h) - 1
  BY DEF WindowNumbers
<1>4. n \in 0..Len(page)
  BY <1>2, <1>3, HeadingNumbers
<1> QED
  BY <1>0, <1>2, <1>4

(* A chunk has words of its page only, and every word of the body is in    *)
(* one of the chunks.                                                      *)
LEMMA ChunkWords ==
  ASSUME NEW page \in Seq(Entry), NEW w \in WindowSize, NEW c \in ChunkMarkdown(page, w)
  PROVE  c.words \subseteq PageWords(page)
<1>1. PICK h \in 0..Len(page), n \in 0..Len(page) : c = Chunk(page, h, n, w)
  BY ChunkOf
<1> QED
  BY <1>1 DEF Chunk, WindowWords, PageWords

LEMMA WordsChunked ==
  ASSUME NEW page \in Seq(Entry), NEW w \in WindowSize, NEW x \in BodyWords(page)
  PROVE  \E c \in ChunkMarkdown(page, w) : x \in c.words
<1>1. PICK i \in DOMAIN page \ Headings(page) : x \in page[i].words
  BY DEF BodyWords
<1>2. ~page[i].heading
  BY DEF Headings
<1>3. PICK h \in Headings(page) \cup {0} : h < i /\ i < SectionEnd(page, h)
  BY <1>2, SectionOfWord
<1>4. /\ i \in 1..Len(page) /\ Len(page) \in Nat /\ h \in 0..Len(page)
      /\ SectionEnd(page, h) \in h + 1..Len(page) + 1 /\ BodyLength(page, h) \in 0..Len(page)
      /\ BodyLength(page, h) = SectionEnd(page, h) - h - 1
  BY HeadingNumbers, SectionEnds DEF BodyLength
<1>5. i - h - 1 \in 0..BodyLength(page, h) - 1
  BY <1>3, <1>4
<1>6. BodyLength(page, h) \in Nat
  BY <1>4
<1>7. PICK n \in WindowNumbers(BodyLength(page, h), w) :
        n * Step(w) <= i - h - 1 /\ i - h - 1 < n * Step(w) + w.target
  BY <1>5, <1>6, WindowsCover
<1>8. n * Step(w) \in Nat /\ w.target \in Nat
  <2>1. n \in Nat /\ Step(w) \in Nat /\ w.target \in Nat
    BY <1>6, StepAdvances DEF WindowNumbers
  <2> QED
    BY <2>1
<1>9. h + 1 + n * Step(w) <= i /\ i < h + 1 + n * Step(w) + w.target
  BY <1>4, <1>7, <1>8
<1>10. x \in WindowWords(page, h, n, w)
  BY <1>1, <1>3, <1>9 DEF WindowWords
<1>11. Chunk(page, h, n, w) \in ChunkMarkdown(page, w)
  BY DEF ChunkMarkdown, Chunk
<1> QED
  BY <1>10, <1>11 DEF Chunk

LEMMA ChunksFinite ==
  ASSUME NEW page \in Seq(Entry), NEW w \in WindowSize
  PROVE  IsFiniteSet(ChunkMarkdown(page, w))
<1> DEFINE I == 0..Len(page)
           f == [p \in I \X I |-> Chunk(page, p[1], p[2], w)]
           T == {f[p] : p \in I \X I}
<1>1. IsFiniteSet(I)
  BY FS_Interval
<1>2. IsFiniteSet(I \X I)
  <2> HIDE DEF I
  <2> QED
    BY <1>1, FS_Product
<1>3. f \in Surjection(I \X I, T)
  <2> HIDE DEF I
  <2> QED
    BY DEF Surjection
<1>4. IsFiniteSet(T)
  <2> HIDE DEF f, T
  <2> QED
    BY <1>2, <1>3, FS_Surjection
<1>5. ChunkMarkdown(page, w) \subseteq T
  <2> SUFFICES ASSUME NEW c \in ChunkMarkdown(page, w) PROVE c \in T
    BY Zenon
  <2>1. PICK h \in I, n \in I : c = Chunk(page, h, n, w)
    BY ChunkOf
  <2> HIDE DEF I
  <2>2. <<h, n>> \in I \X I /\ f[<<h, n>>] = c
    BY <2>1
  <2> HIDE DEF f
  <2> QED
    BY <2>2
<1> QED
  <2> HIDE DEF T
  <2> QED
    BY <1>4, <1>5, FS_Subset

--------------------------------------------------------------------------------
(* Comparing positive fractions by their cross products.                   *)
Fraction == [over : Nat \ {0}, under : Nat \ {0}]

LEMMA SwapFactors ==
  ASSUME NEW l \in Nat, NEW m \in Nat, NEW n \in Nat
  PROVE  (l * m) * n = (l * n) * m
OBVIOUS

LEMMA AboveTransitive ==
  ASSUME NEW x \in Fraction, NEW y \in Fraction, NEW z \in Fraction
  PROVE  /\ ~Above(x, x)
         /\ Above(x, y) => ~Above(y, x)
         /\ ~Above(y, x) /\ ~Above(z, y) => ~Above(z, x)
         /\ ~Above(y, x) /\ Above(y, z) => Above(x, z)
         /\ Above(x, y) /\ ~Above(z, y) => Above(x, z)
<1>1. PICK a, b, c, d, e, f \in Nat \ {0} :
        /\ a = x.over /\ b = x.under /\ c = y.over /\ d = y.under /\ e = z.over /\ f = z.under
  BY DEF Fraction
<1>2. PICK ad, cb, cf, ed, af, eb \in Nat :
        ad = a * d /\ cb = c * b /\ cf = c * f /\ ed = e * d /\ af = a * f /\ eb = e * b
  <2>1. \A m, n \in Nat : m * n \in Nat
    OBVIOUS
  <2> QED
    BY <2>1
<1>3. \A m, n \in Nat, r \in Nat \ {0} : (m <= n <=> m * r <= n * r) /\ (m < n <=> m * r < n * r)
  OBVIOUS
<1>4. ad * f = af * d /\ cb * f = cf * b /\ ed * b = eb * d
  <2>2. (a * d) * f = (a * f) * d /\ (c * b) * f = (c * f) * b /\ (e * d) * b = (e * b) * d
    <3>1. /\ a \in Nat /\ b \in Nat /\ c \in Nat /\ d \in Nat /\ e \in Nat /\ f \in Nat
      BY <1>1
    <3>2. (a * d) * f = (a * f) * d
      BY <3>1, SwapFactors
    <3>3. (c * b) * f = (c * f) * b
      BY <3>1, SwapFactors
    <3>4. (e * d) * b = (e * b) * d
      BY <3>1, SwapFactors
    <3> QED
      BY <3>2, <3>3, <3>4
  <2> QED
    BY <1>2, <2>2, Zenon
<1>5. PICK p, q, r \in Nat : p = ad * f /\ q = cb * f /\ r = ed * b
  <2>1. \A m, n \in Nat : m * n \in Nat
    OBVIOUS
  <2> QED
    BY <1>1, <1>2, <2>1
<1>6. /\ cb <= ad <=> q <= p
      /\ cb < ad <=> q < p
      /\ ed <= cf <=> r <= q
      /\ ed < cf <=> r < q
      /\ eb <= af <=> r <= p
      /\ eb < af <=> r < p
  BY <1>1, <1>2, <1>3, <1>4, <1>5
<1>7. /\ Above(x, y) <=> q < p
      /\ Above(y, x) <=> p < q
      /\ Above(y, z) <=> r < q
      /\ Above(z, y) <=> q < r
      /\ Above(x, z) <=> r < p
      /\ Above(z, x) <=> p < r
  BY <1>1, <1>2, <1>6 DEF Above
<1>8. ~Above(x, x)
  BY <1>1 DEF Above
<1> QED
  BY <1>5, <1>7, <1>8

--------------------------------------------------------------------------------
Ranks(ranking, rows) == ranking \in [1..Len(ranking) -> rows] /\ Len(ranking) \in Nat /\ IsInjective(ranking)

LEMMA RankingIs ==
  ASSUME NEW rows, NEW lengths \in SUBSET Nat, NEW ranking \in Rankings(rows, lengths)
  PROVE  Ranks(ranking, rows) /\ Len(ranking) \in lengths
<1>1. PICK n \in lengths : ranking \in [1..n -> rows] /\ IsInjective(ranking)
  BY DEF Rankings
<1>2. n \in Nat /\ ranking \in Seq(rows)
  BY <1>1
<1>3. Len(ranking) = n
  BY <1>1, <1>2
<1> QED
  BY <1>1, <1>2, <1>3 DEF Ranks

LEMMA AtRank ==
  ASSUME NEW rows, NEW ranking, Ranks(ranking, rows), NEW row \in Range(ranking)
  PROVE  At(ranking, row) \in 1..Len(ranking) /\ ranking[At(ranking, row)] = row
BY DEF Ranks, Range, At

LEMMA AtUnique ==
  ASSUME NEW rows, NEW ranking, Ranks(ranking, rows), NEW i \in 1..Len(ranking)
  PROVE  ranking[i] \in Range(ranking) /\ At(ranking, ranking[i]) = i
<1>1. ranking[i] \in Range(ranking)
  BY DEF Ranks, Range
<1>2. At(ranking, ranking[i]) \in 1..Len(ranking) /\ ranking[At(ranking, ranking[i])] = ranking[i]
  BY <1>1, AtRank
<1> QED
  BY <1>1, <1>2 DEF Ranks, IsInjective

LEMMA RankedFinite ==
  ASSUME NEW rows, NEW ranking, Ranks(ranking, rows)
  PROVE  IsFiniteSet(Range(ranking)) /\ Range(ranking) \subseteq rows
<1>1. ranking \in Surjection(1..Len(ranking), Range(ranking))
  BY DEF Ranks, Surjection, Range
<1>2. IsFiniteSet(1..Len(ranking))
  BY FS_Interval DEF Ranks
<1>3. IsFiniteSet(Range(ranking))
  BY <1>1, <1>2, FS_Surjection
<1> QED
  BY <1>3 DEF Ranks, Range

--------------------------------------------------------------------------------
(* The rows that two rankings bring, and the order of fusion on them.      *)
Brought(vector, lexical) == Range(vector) \cup Range(lexical)

FusionOrder(vector, lexical) ==
  {p \in Brought(vector, lexical) \X Brought(vector, lexical) : Before(vector, lexical, p[1], p[2])}

LEMMA ScoreIs ==
  ASSUME NEW rows, NEW vector, Ranks(vector, rows), NEW lrows, NEW lexical, Ranks(lexical, lrows),
         NEW row \in Brought(vector, lexical)
  PROVE  /\ Score(vector, lexical, row) \in Fraction
         /\ row \notin Range(lexical) => Score(vector, lexical, row) = [over |-> 1, under |-> Damping + At(vector, row)]
         /\ row \notin Range(vector) => Score(vector, lexical, row) = [over |-> 1, under |-> Damping + At(lexical, row)]
         /\ row \in Range(vector) /\ row \in Range(lexical) =>
              Score(vector, lexical, row) =
                [over |-> (Damping + At(vector, row)) + (Damping + At(lexical, row)),
                 under |-> (Damping + At(vector, row)) * (Damping + At(lexical, row))]
<1> DEFINE v == Damping + At(vector, row)
           l == Damping + At(lexical, row)
<1>1. row \in Range(vector) => v \in Nat \ {0}
  <2>1. SUFFICES ASSUME row \in Range(vector) PROVE v \in Nat \ {0}
    OBVIOUS
  <2>2. At(vector, row) \in 1..Len(vector) /\ Len(vector) \in Nat
    BY <2>1, AtRank DEF Ranks
  <2> QED
    BY <2>2, RetrievalConstants
<1>2. row \in Range(lexical) => l \in Nat \ {0}
  <2>1. SUFFICES ASSUME row \in Range(lexical) PROVE l \in Nat \ {0}
    OBVIOUS
  <2>2. At(lexical, row) \in 1..Len(lexical) /\ Len(lexical) \in Nat
    BY <2>1, AtRank DEF Ranks
  <2> QED
    BY <2>2, RetrievalConstants
<1>3. row \in Range(vector) \/ row \in Range(lexical)
  BY DEF Brought
<1>4. Score(vector, lexical, row) =
        CASE row \in Range(vector) /\ row \in Range(lexical) -> [over |-> v + l, under |-> v * l]
          [] row \in Range(vector) /\ row \notin Range(lexical) -> [over |-> 1, under |-> v]
          [] row \notin Range(vector) -> [over |-> 1, under |-> l]
  BY DEF Score
<1> HIDE DEF v, l
<1>5. /\ row \notin Range(lexical) => Score(vector, lexical, row) = [over |-> 1, under |-> v]
      /\ row \notin Range(vector) => Score(vector, lexical, row) = [over |-> 1, under |-> l]
      /\ row \in Range(vector) /\ row \in Range(lexical) =>
           Score(vector, lexical, row) = [over |-> v + l, under |-> v * l]
  BY <1>3, <1>4
<1>6. \A m, n \in Nat \ {0} : m + n \in Nat \ {0} /\ m * n \in Nat \ {0}
  OBVIOUS
<1>7. Score(vector, lexical, row) \in Fraction
  <2>1. CASE row \notin Range(lexical)
    BY <2>1, <1>1, <1>3, <1>5 DEF Fraction
  <2>2. CASE row \notin Range(vector)
    BY <2>2, <1>2, <1>3, <1>5 DEF Fraction
  <2>3. CASE row \in Range(vector) /\ row \in Range(lexical)
    <3>1. v + l \in Nat \ {0} /\ v * l \in Nat \ {0}
      BY <2>3, <1>1, <1>2, <1>6
    <3> QED
      BY <2>3, <3>1, <1>5 DEF Fraction
  <2> QED
    BY <2>1, <2>2, <2>3
<1> QED
  BY <1>5, <1>7 DEF v, l

LEMMA CameIs ==
  ASSUME NEW rows, NEW vector, Ranks(vector, rows), NEW lrows, NEW lexical, Ranks(lexical, lrows),
         NEW x \in Brought(vector, lexical)
  PROVE  /\ Came(vector, lexical, x) \in Nat /\ Len(vector) \in Nat
         /\ x \in Range(vector) <=> Came(vector, lexical, x) <= Len(vector)
         /\ x \in Range(vector) => At(vector, x) \in 1..Len(vector) /\ Came(vector, lexical, x) = At(vector, x)
         /\ x \notin Range(vector) =>
              /\ At(lexical, x) \in 1..Len(lexical) /\ Len(lexical) \in Nat
              /\ Came(vector, lexical, x) = Len(vector) + At(lexical, x)
<1>1. CASE x \in Range(vector)
  <2>1. At(vector, x) \in 1..Len(vector) /\ Len(vector) \in Nat
    BY <1>1, AtRank DEF Ranks
  <2> QED
    BY <1>1, <2>1 DEF Came
<1>2. CASE x \notin Range(vector)
  <2>1. x \in Range(lexical)
    BY <1>2 DEF Brought
  <2>2. At(lexical, x) \in 1..Len(lexical) /\ Len(lexical) \in Nat /\ Len(vector) \in Nat
    BY <2>1, AtRank DEF Ranks
  <2> QED
    BY <1>2, <2>2 DEF Came
<1> QED
  BY <1>1, <1>2

LEMMA CameApart ==
  ASSUME NEW rows, NEW vector, Ranks(vector, rows), NEW lrows, NEW lexical, Ranks(lexical, lrows),
         NEW x \in Brought(vector, lexical), NEW y \in Brought(vector, lexical), x # y
  PROVE  Came(vector, lexical, x) # Came(vector, lexical, y)
<1>1. CASE x \in Range(vector) /\ y \in Range(vector)
  <2>1. vector[At(vector, x)] = x /\ vector[At(vector, y)] = y
    BY <1>1, AtRank
  <2>2. Came(vector, lexical, x) = At(vector, x) /\ Came(vector, lexical, y) = At(vector, y)
    BY <1>1, CameIs
  <2> QED
    BY <2>1, <2>2
<1>2. CASE x \notin Range(vector) /\ y \notin Range(vector)
  <2>1. x \in Range(lexical) /\ y \in Range(lexical)
    BY <1>2 DEF Brought
  <2>2. lexical[At(lexical, x)] = x /\ lexical[At(lexical, y)] = y
    BY <2>1, AtRank
  <2>3. /\ Came(vector, lexical, x) = Len(vector) + At(lexical, x) /\ At(lexical, x) \in Nat
        /\ Came(vector, lexical, y) = Len(vector) + At(lexical, y) /\ At(lexical, y) \in Nat
        /\ Len(vector) \in Nat
    <3>1. /\ Came(vector, lexical, x) = Len(vector) + At(lexical, x) /\ Len(vector) \in Nat
          /\ Came(vector, lexical, y) = Len(vector) + At(lexical, y)
          /\ At(lexical, x) \in 1..Len(lexical) /\ At(lexical, y) \in 1..Len(lexical) /\ Len(lexical) \in Nat
      BY <1>2, CameIs
    <3> QED
      BY <3>1
  <2> QED
    BY <2>2, <2>3
<1>3. CASE ~(x \in Range(vector) <=> y \in Range(vector))
  <2>1. /\ x \in Range(vector) <=> Came(vector, lexical, x) <= Len(vector)
        /\ y \in Range(vector) <=> Came(vector, lexical, y) <= Len(vector)
    BY CameIs
  <2> QED
    BY <1>3, <2>1
<1> QED
  BY <1>1, <1>2, <1>3

(* Fusion puts the rows in a strict total order.                           *)
LEMMA FusionOrders ==
  ASSUME NEW rows, NEW vector, Ranks(vector, rows), NEW lrows, NEW lexical, Ranks(lexical, lrows)
  PROVE  /\ StrictOrder(FusionOrder(vector, lexical), Brought(vector, lexical))
         /\ \A x, y \in Brought(vector, lexical) :
              x # y => <<x, y>> \in FusionOrder(vector, lexical) \/ <<y, x>> \in FusionOrder(vector, lexical)
<1> DEFINE R == Brought(vector, lexical)
           sc(x) == Score(vector, lexical, x)
           ca(x) == Came(vector, lexical, x)
<1>1. \A x \in R : sc(x) \in Fraction /\ ca(x) \in Nat
  BY ScoreIs, CameIs
<1>2. \A x, y \in R : <<x, y>> \in FusionOrder(vector, lexical) <=>
                        Above(sc(x), sc(y)) \/ (~Above(sc(y), sc(x)) /\ ca(x) < ca(y))
  BY DEF FusionOrder, Before
<1>3. \A x, y \in R : x # y => ca(x) # ca(y)
  BY CameApart
<1> HIDE DEF R, sc, ca
<1>4. ASSUME NEW x \in R PROVE <<x, x>> \notin FusionOrder(vector, lexical)
  <2>1. ~Above(sc(x), sc(x)) /\ ca(x) \in Nat
    BY <1>1, AboveTransitive
  <2> QED
    BY <2>1, <1>2
<1>5. ASSUME NEW x \in R, NEW y \in R, NEW z \in R,
             <<x, y>> \in FusionOrder(vector, lexical), <<y, z>> \in FusionOrder(vector, lexical)
      PROVE  <<x, z>> \in FusionOrder(vector, lexical)
  <2>1. /\ Above(sc(x), sc(y)) => ~Above(sc(y), sc(x))
        /\ Above(sc(y), sc(z)) => ~Above(sc(z), sc(y))
        /\ ~Above(sc(y), sc(x)) /\ ~Above(sc(z), sc(y)) => ~Above(sc(z), sc(x))
        /\ ~Above(sc(y), sc(x)) /\ Above(sc(y), sc(z)) => Above(sc(x), sc(z))
        /\ Above(sc(x), sc(y)) /\ ~Above(sc(z), sc(y)) => Above(sc(x), sc(z))
    <3>1. sc(x) \in Fraction /\ sc(y) \in Fraction /\ sc(z) \in Fraction
      BY <1>1
    <3> QED
      BY <3>1, AboveTransitive
  <2>2. ca(x) < ca(y) /\ ca(y) < ca(z) => ca(x) < ca(z)
    BY <1>1
  <2>3. /\ Above(sc(x), sc(y)) \/ (~Above(sc(y), sc(x)) /\ ca(x) < ca(y))
        /\ Above(sc(y), sc(z)) \/ (~Above(sc(z), sc(y)) /\ ca(y) < ca(z))
    BY <1>2, <1>5
  <2>4. Above(sc(x), sc(z)) \/ (~Above(sc(z), sc(x)) /\ ca(x) < ca(z))
    BY <2>1, <2>2, <2>3
  <2> QED
    BY <2>4, <1>2
<1>6. ASSUME NEW x \in R, NEW y \in R, x # y
      PROVE  <<x, y>> \in FusionOrder(vector, lexical) \/ <<y, x>> \in FusionOrder(vector, lexical)
  <2>1. ca(x) < ca(y) \/ ca(y) < ca(x)
    BY <1>1, <1>3, <1>6
  <2> QED
    BY <2>1, <1>2
<1> QED
  BY <1>4, <1>5, <1>6 DEF R, StrictOrder

LEMMA FusedIs ==
  ASSUME NEW vector, NEW lexical, NEW k
  PROVE  Fused(vector, lexical, k) =
           {row \in Brought(vector, lexical) :
              Cardinality(Below(FusionOrder(vector, lexical), Brought(vector, lexical), row)) < k}
<1>1. \A row \in Brought(vector, lexical) :
        Below(FusionOrder(vector, lexical), Brought(vector, lexical), row)
          = {x \in Brought(vector, lexical) : Before(vector, lexical, x, row)}
  BY DEF Below, FusionOrder
<1> QED
  BY <1>1 DEF Fused, Brought

LEMMA FusedFew ==
  ASSUME NEW rows, NEW vector, Ranks(vector, rows), NEW lrows, NEW lexical, Ranks(lexical, lrows), NEW k \in Nat
  PROVE  IsFiniteSet(Fused(vector, lexical, k)) /\ Cardinality(Fused(vector, lexical, k)) <= k
<1> DEFINE R == Brought(vector, lexical)
           B == FusionOrder(vector, lexical)
           T == Fused(vector, lexical, k)
<1>1. IsFiniteSet(R)
  <2>1. IsFiniteSet(Range(vector)) /\ IsFiniteSet(Range(lexical))
    BY RankedFinite
  <2> QED
    BY <2>1, FS_Union DEF Brought
<1>2. StrictOrder(B, R) /\ \A x, y \in R : x # y => <<x, y>> \in B \/ <<y, x>> \in B
  BY FusionOrders
<1>3. T \in SUBSET R /\ \A y \in T : Cardinality(Below(B, R, y)) < k
  BY FusedIs
<1> HIDE DEF R, B, T
<1>4. IsFiniteSet(T) /\ Cardinality(T) <= k
  BY <1>1, <1>2, <1>3, FewHaveFewBelow
<1> QED
  BY <1>4 DEF T

LEMMA SumsOutgrow ==
  ASSUME NEW v \in Nat, NEW l \in Nat \ {0}, NEW j \in Nat
  PROVE  v * l \in Nat /\ (v + l) * (l + j) \in Nat /\ (v + l) * (l + j) > v * l
<1>1. \A a, b, c \in Nat : a * (b + c) = a * b + a * c /\ (a + b) * c = a * c + b * c /\ a * b \in Nat
  OBVIOUS
<1>2. (v + l) * (l + j) = v * (l + j) + l * (l + j)
  BY <1>1
<1>3. v * (l + j) = v * l + v * j
  BY <1>1
<1>4. l * (l + j) = l * l + l * j
  BY <1>1
<1>5. l * l \in Nat \ {0}
  OBVIOUS
<1>6. v * l \in Nat /\ v * j \in Nat /\ l * j \in Nat
  OBVIOUS
<1>7. PICK a, b, c, d \in Nat : a = v * l /\ b = v * j /\ c = l * j /\ d = l * l
  BY <1>5, <1>6
<1>8. (v + l) * (l + j) = (a + b) + (d + c) /\ d # 0
  BY <1>2, <1>3, <1>4, <1>5, <1>7
<1> QED
  BY <1>7, <1>8

(* The vector ranking alone lifts a row above the first lexical one only   *)
(* from its own first place.                                               *)
LEMMA AboveFirstLexical ==
  ASSUME NEW rows, NEW vector, Ranks(vector, rows), NEW M, NEW lexical, Ranks(lexical, M), Len(lexical) >= 1,
         NEW x \in Range(vector) \ Range(lexical), Before(vector, lexical, x, lexical[1])
  PROVE  At(vector, x) = 1
<1> DEFINE y == lexical[1]
           i == At(vector, x)
           D == Damping
<1>1. D \in Nat /\ 1 \in 1..Len(lexical) /\ Len(lexical) \in Nat
  BY RetrievalConstants DEF Ranks
<1>2. y \in Range(lexical) /\ At(lexical, y) = 1
  BY <1>1, AtUnique
<1>3. x \in Brought(vector, lexical) /\ y \in Brought(vector, lexical)
  BY <1>2 DEF Brought
<1>4. i \in Nat \ {0}
  <2>1. i \in 1..Len(vector) /\ Len(vector) \in Nat
    BY AtRank DEF Ranks
  <2> QED
    BY <2>1
<1>5. Score(vector, lexical, x) = [over |-> 1, under |-> D + i]
  BY <1>3, ScoreIs
<1>6. \/ Above(Score(vector, lexical, x), Score(vector, lexical, y))
      \/ ~Above(Score(vector, lexical, y), Score(vector, lexical, x))
  BY DEF Before
<1> HIDE DEF y, i, D
<1>7. CASE y \notin Range(vector)
  <2>1. Score(vector, lexical, y) = [over |-> 1, under |-> D + 1]
    BY <1>2, <1>3, <1>7, ScoreIs DEF D
  <2>2. 1 * (D + 1) > 1 * (D + i) \/ ~(1 * (D + i) > 1 * (D + 1))
    BY <1>5, <1>6, <2>1 DEF Above
  <2> QED
    BY <1>1, <1>4, <2>2 DEF i
<1>8. CASE y \in Range(vector)
  <2> DEFINE v == D + At(vector, y)
  <2>1. v \in Nat \ {0}
    <3>1. At(vector, y) \in 1..Len(vector) /\ Len(vector) \in Nat
      BY <1>8, AtRank DEF Ranks
    <3> QED
      BY <1>1, <3>1
  <2>2. Score(vector, lexical, y) = [over |-> v + (D + 1), under |-> v * (D + 1)]
    BY <1>2, <1>3, <1>8, ScoreIs DEF D
  <2> HIDE DEF v
  <2>3. \/ 1 * (v * (D + 1)) > (v + (D + 1)) * (D + i)
        \/ ~((v + (D + 1)) * (D + i) > 1 * (v * (D + 1)))
    BY <1>5, <1>6, <2>2 DEF Above
  <2>4. PICK j \in Nat : D + i = (D + 1) + j
    BY <1>1, <1>4
  <2>5. PICK l \in Nat \ {0} : l = D + 1
    BY <1>1
  <2>6. v * l \in Nat /\ (v + l) * (l + j) \in Nat /\ (v + l) * (l + j) > v * l
    BY <2>1, <2>4, <2>5, SumsOutgrow
  <2>9. v * l > (v + l) * (l + j) \/ ~((v + l) * (l + j) > v * l)
    <3>1. 1 * (v * l) = v * l
      BY <2>6
    <3>2. D + i = l + j
      BY <2>4, <2>5
    <3> QED
      BY <2>3, <2>5, <3>1, <3>2
  <2> QED
    <3>1. PICK a, b \in Nat : a = v * l /\ b = (v + l) * (l + j)
      BY <2>6
    <3>2. b > a /\ (a > b \/ ~(b > a))
      BY <2>6, <2>9, <3>1
    <3> QED
      BY <3>1, <3>2
<1> QED
  BY <1>7, <1>8

(* With two places there is one for a row that matches.                    *)
LEMMA MatchFused ==
  ASSUME NEW rows, NEW vector, Ranks(vector, rows), NEW M, NEW lexical, Ranks(lexical, M), Len(lexical) >= 1,
         NEW k \in Nat, k >= 2
  PROVE  \E row \in Fused(vector, lexical, k) : row \in M
<1> DEFINE R == Brought(vector, lexical)
           B == FusionOrder(vector, lexical)
           P == {x \in R : x \in M}
           y == lexical[1]
<1>1. IsFiniteSet(R) /\ Range(lexical) \subseteq M
  <2>1. IsFiniteSet(Range(vector)) /\ IsFiniteSet(Range(lexical)) /\ Range(lexical) \subseteq M
    BY RankedFinite
  <2> QED
    BY <2>1, FS_Union DEF Brought
<1>2. StrictOrder(B, R) /\ \A a, b \in R : a # b => <<a, b>> \in B \/ <<b, a>> \in B
  BY FusionOrders
<1>3. y \in P /\ y \in R
  <2>1. 1 \in 1..Len(lexical)
    BY DEF Ranks
  <2>2. y \in Range(lexical)
    BY <2>1, AtUnique
  <2> QED
    BY <2>2, <1>1 DEF Brought
<1>4. PICK m \in P : \A x \in P : <<x, m>> \notin B
  <2>1. P \in SUBSET R /\ P # {}
    BY <1>3
  <2> HIDE DEF P, R, B
  <2> QED
    BY <1>1, <1>2, <2>1, LeastOf
<1>5. m \in R /\ m \in M
  OBVIOUS
<1>6. \A x \in Below(B, R, m) : x = vector[1]
  <2> SUFFICES ASSUME NEW x \in R, <<x, m>> \in B PROVE x = vector[1]
    BY DEF Below
  <2>1. x \notin M
    BY <1>4
  <2>2. x \in Range(vector) \ Range(lexical)
    BY <2>1, <1>1 DEF Brought
  <2>3. <<x, y>> \in B
    <3>1. m = y \/ <<m, y>> \in B
      <4> HIDE DEF R, B, y
      <4> QED
        BY <1>2, <1>3, <1>4, <1>5
    <3> HIDE DEF R, B, y
    <3> QED
      BY <1>2, <1>3, <1>5, <3>1 DEF StrictOrder
  <2>4. Before(vector, lexical, x, lexical[1])
    BY <2>3 DEF FusionOrder
  <2>5. At(vector, x) = 1
    BY <2>2, <2>4, AboveFirstLexical
  <2> QED
    BY <2>2, <2>5, AtRank
<1>7. Cardinality(Below(B, R, m)) < k
  <2>1. Below(B, R, m) \in SUBSET {vector[1]}
    BY <1>6
  <2>2. IsFiniteSet({vector[1]}) /\ Cardinality({vector[1]}) = 1
    BY FS_Singleton
  <2>3. IsFiniteSet(Below(B, R, m)) /\ Cardinality(Below(B, R, m)) <= 1
    <3> HIDE DEF B, R
    <3> QED
      BY <2>1, <2>2, FS_Subset
  <2>4. Cardinality(Below(B, R, m)) \in Nat
    BY <2>3, FS_CardinalityType
  <2> QED
    BY <2>3, <2>4
<1>8. m \in Fused(vector, lexical, k)
  BY <1>5, <1>7, FusedIs
<1> QED
  BY <1>5, <1>8

--------------------------------------------------------------------------------
(* The index of a restaurant is empty or the chunks of its page.           *)
IndexInv ==
  /\ pages \in [Site -> Page] /\ window \in WindowSize
  /\ chunks = [r \in Site |-> chunks[r]]
  /\ \A r \in Site : chunks[r] \in {{}, ChunkMarkdown(pages[r], window)}

(* What the last search found, and the reply that was given of it.         *)
AskedInv ==
  \/ asked = NothingAsked
  \/ /\ asked = [by |-> asked.by, at |-> asked.at, word |-> asked.word, k |-> asked.k,
                 said |-> asked.said, found |-> asked.found]
     /\ asked.at \in Site /\ asked.k \in K
     /\ WordFound
     /\ Cardinality(asked.found) <= asked.k /\ asked.found \subseteq Rows(asked.at)
     /\ asked.said \subseteq UNION {row.chunk.words : row \in asked.found}

RetrievalInv == IndexInv /\ AskedInv

LEMMA PagesAre ==
  ASSUME IndexInv, NEW r \in Site
  PROVE  /\ pages[r] \in Seq(Entry) /\ window \in WindowSize
         /\ chunks[r] = {} \/ chunks[r] = ChunkMarkdown(pages[r], window)
BY RetrievalConstants DEF IndexInv

LEMMA RowsAre ==
  ASSUME NEW r \in Site
  PROVE  /\ \A row \in Rows(r) : row.at = r /\ row.chunk \in chunks[r]
         /\ \A c \in chunks[r] : ChunkRow(r, c) \in Rows(r) /\ ChunkRow(r, c).chunk = c
BY DEF Rows, ChunkRow

LEMMA RowsFinite ==
  ASSUME IndexInv, NEW r \in Site
  PROVE  IsFiniteSet(Rows(r))
<1> DEFINE f == [c \in chunks[r] |-> ChunkRow(r, c)]
<1>1. IsFiniteSet(chunks[r])
  BY PagesAre, ChunksFinite, FS_EmptySet
<1>2. f \in Surjection(chunks[r], Rows(r))
  BY DEF Surjection, Rows
<1> QED
  BY <1>1, <1>2, FS_Surjection

LEMMA VisibleAre ==
  ASSUME IndexInv, NEW r \in Site, NEW by
  PROVE  /\ IsFiniteSet(Visible(by, r))
         /\ \A row \in Visible(by, r) : row.at = r => row \in Rows(r)
         /\ by = "member" => Visible(by, r) = Rows(r)
<1> DEFINE f == [t \in Site |-> Rows(t)]
           T == {Rows(t) : t \in Site}
<1>1. IsFiniteSet(T)
  <2>1. f \in Surjection(Site, T)
    BY DEF Surjection
  <2> HIDE DEF f, T
  <2> QED
    BY <2>1, RetrievalConstants, FS_Surjection
<1>2. IsFiniteSet(UNION T)
  <2>1. \A U \in T : IsFiniteSet(U)
    BY RowsFinite
  <2> HIDE DEF T
  <2> QED
    BY <1>1, <2>1, FS_UNION
<1>3. \A row \in UNION T : row.at = r => row \in Rows(r)
  BY RowsAre
<1> QED
  BY <1>2, <1>3, RowsFinite DEF Visible

LEMMA LengthsAre ==
  ASSUME NEW k \in K, NEW rows, IsFiniteSet(rows)
  PROVE  /\ Min({Candidates(k), Cardinality(rows)}) \in Nat
         /\ rows # {} => Min({Candidates(k), Cardinality(rows)}) >= 1
<1>1. k \in Nat \ {0} /\ CandidateMultiplier \in Nat \ {0}
  BY RetrievalConstants
<1>2. PICK p \in Nat : p = k * CandidateMultiplier
  BY <1>1
<1>3. \E x \in {k, p} : \A y \in {k, p} : x >= y
  <2>1. CASE k <= p
    BY <2>1, <1>1, <1>2
  <2>2. CASE p <= k
    BY <2>2, <1>1, <1>2
  <2> QED
    BY <1>1, <1>2, <2>1, <2>2
<1>4. Candidates(k) \in {k, p} /\ \A y \in {k, p} : Candidates(k) >= y
  BY <1>2, <1>3 DEF Candidates, Max
<1>5. Candidates(k) \in Nat \ {0}
  BY <1>1, <1>2, <1>4
<1>6. Cardinality(rows) \in Nat /\ (rows # {} => Cardinality(rows) # 0)
  BY FS_CardinalityType, FS_EmptySet
<1>7. {Candidates(k), Cardinality(rows)} \in SUBSET Nat
  BY <1>5, <1>6
<1>8. Min({Candidates(k), Cardinality(rows)}) \in {Candidates(k), Cardinality(rows)}
  BY <1>7, MinIsLeast
<1> QED
  BY <1>5, <1>6, <1>8

(* A search ranks rows it may see; the lexical ranking has one when there  *)
(* is one to have.                                                         *)
LEMMA SearchRanks ==
  ASSUME NEW rows, IsFiniteSet(rows), NEW k \in K, NEW w,
         NEW vector \in VectorRankings(rows, k), NEW lexical \in LexicalRankings(rows, w, k)
  PROVE  /\ Ranks(vector, rows) /\ Ranks(lexical, Matching(rows, w))
         /\ Matching(rows, w) \subseteq rows
         /\ Matching(rows, w) # {} => Len(lexical) >= 1
<1>1. Matching(rows, w) \subseteq rows /\ IsFiniteSet(Matching(rows, w))
  <2>1. Matching(rows, w) \subseteq rows
    BY DEF Matching
  <2> QED
    BY <2>1, FS_Subset
<1>2. /\ 0..Min({Candidates(k), Cardinality(rows)}) \in SUBSET Nat
      /\ {Min({Candidates(k), Cardinality(Matching(rows, w))})} \in SUBSET Nat
      /\ Matching(rows, w) # {} => Min({Candidates(k), Cardinality(Matching(rows, w))}) >= 1
  BY <1>1, LengthsAre
<1>3. Ranks(vector, rows)
  BY <1>2, RankingIs DEF VectorRankings
<1>4. /\ Ranks(lexical, Matching(rows, w))
      /\ Len(lexical) = Min({Candidates(k), Cardinality(Matching(rows, w))})
  BY <1>2, RankingIs DEF LexicalRankings
<1> QED
  BY <1>1, <1>2, <1>3, <1>4

LEMMA SearchFinds ==
  ASSUME IndexInv, NEW r \in Site, NEW by, NEW k \in K, NEW w,
         NEW vector \in VectorRankings(Visible(by, r), k), NEW lexical \in LexicalRankings(Visible(by, r), w, k)
  PROVE  LET found == Loaded(Fused(vector, lexical, k), r)
         IN  /\ found \subseteq Rows(r) /\ Cardinality(found) <= k
             /\ by = "member" /\ k >= 2 /\ chunks[r] # {} /\ w \in BodyWords(pages[r]) /\ Synonyms[w] = {}
                  => \E row \in found : w \in row.chunk.words
<1> DEFINE F == Fused(vector, lexical, k)
           rows == Visible(by, r)
           found == Loaded(F, r)
<1>1. IsFiniteSet(rows)
  BY VisibleAre
<1>2. /\ Ranks(vector, rows) /\ Ranks(lexical, Matching(rows, w))
      /\ Matching(rows, w) \subseteq rows
      /\ Matching(rows, w) # {} => Len(lexical) >= 1
  <2> HIDE DEF rows
  <2>1. vector \in VectorRankings(rows, k) /\ lexical \in LexicalRankings(rows, w, k)
    BY DEF rows
  <2> QED
    BY <1>1, <2>1, SearchRanks
<1>3. k \in Nat /\ k \in Nat \ {0}
  BY RetrievalConstants
<1>4. F \subseteq rows
  <2>1. Range(vector) \subseteq rows /\ Range(lexical) \subseteq Matching(rows, w)
    BY <1>2, RankedFinite
  <2> QED
    BY <1>2, <2>1 DEF Fused
<1>5. IsFiniteSet(F) /\ Cardinality(F) <= k
  BY <1>2, <1>3, FusedFew
<1>6. found \subseteq Rows(r)
  BY <1>4, VisibleAre DEF Loaded
<1>7. Cardinality(found) <= k
  <2>1. found \in SUBSET F
    BY DEF Loaded
  <2>2. IsFiniteSet(found) /\ Cardinality(found) <= Cardinality(F)
    <3> HIDE DEF F, found
    <3> QED
      BY <1>5, <2>1, FS_Subset
  <2>3. Cardinality(found) \in Nat /\ Cardinality(F) \in Nat
    <3> HIDE DEF F, found
    <3> QED
      BY <1>5, <2>2, FS_CardinalityType
  <2> HIDE DEF F, found
  <2> QED
    BY <1>3, <1>5, <2>2, <2>3
<1>8. ASSUME by = "member", k >= 2, chunks[r] # {}, w \in BodyWords(pages[r]), Synonyms[w] = {}
      PROVE  \E row \in found : w \in row.chunk.words
  <2>1. rows = Rows(r)
    BY <1>8, VisibleAre
  <2>2. pages[r] \in Seq(Entry) /\ window \in WindowSize /\ chunks[r] = ChunkMarkdown(pages[r], window)
    BY <1>8, PagesAre
  <2>3. PICK c \in chunks[r] : w \in c.words
    BY <1>8, <2>2, WordsChunked
  <2>4. ChunkRow(r, c) \in Matching(rows, w)
    BY <1>8, <2>1, <2>3, RowsAre DEF Matching
  <2>5. Len(lexical) >= 1
    BY <1>2, <2>4
  <2>6. PICK row \in F : row \in Matching(rows, w)
    BY <1>2, <1>3, <1>8, <2>5, MatchFused
  <2>7. row \in found
    BY <1>4, <2>1, RowsAre DEF Loaded
  <2> QED
    BY <2>6, <2>7 DEF Matching
<1> QED
  BY <1>6, <1>7, <1>8

LEMMA RetrievalInvariant == RetrievalSpec => []RetrievalInv
<1>1. RetrievalInit => RetrievalInv
  BY DEF RetrievalInit, RetrievalInv, IndexInv, AskedInv
<1>2. ASSUME RetrievalInv, [RetrievalNext]_retrievalVars PROVE RetrievalInv'
  <2>1. ASSUME NEW r \in Site, Publish(r) PROVE RetrievalInv'
    <3>1. IndexInv'
      <4>1. pages' = pages /\ window' = window
        BY <2>1 DEF Publish
      <4>2. chunks' = [t \in Site |-> IF t = r THEN ChunkMarkdown(pages[r], window) ELSE chunks[t]]
        BY <1>2, <2>1 DEF Publish, RetrievalInv, IndexInv
      <4> QED
        BY <1>2, <4>1, <4>2 DEF RetrievalInv, IndexInv
    <3>2. AskedInv'
      BY <2>1 DEF Publish, AskedInv, NothingAsked
    <3> QED
      BY <3>1, <3>2 DEF RetrievalInv
  <2>2. ASSUME NEW r \in Site, NEW by \in {"member", "admin"}, NEW w \in Word, NEW k \in K, Search(by, r, w, k)
        PROVE  RetrievalInv'
    <3>1. pages' = pages /\ window' = window /\ chunks' = chunks
      BY <2>2 DEF Search
    <3>2. IndexInv /\ IndexInv'
      BY <1>2, <3>1 DEF RetrievalInv, IndexInv
    <3>3. PICK vector \in VectorRankings(Visible(by, r), k), lexical \in LexicalRankings(Visible(by, r), w, k) :
            asked' = [by |-> by, at |-> r, word |-> w, k |-> k, said |-> {},
                      found |-> Loaded(Fused(vector, lexical, k), r)]
      BY <2>2 DEF Search
    <3>4. PICK found : found = Loaded(Fused(vector, lexical, k), r)
      OBVIOUS
    <3>5. /\ found \subseteq Rows(r) /\ Cardinality(found) <= k
          /\ by = "member" /\ k >= 2 /\ chunks[r] # {} /\ w \in BodyWords(pages[r]) /\ Synonyms[w] = {}
               => \E row \in found : w \in row.chunk.words
      BY <3>2, <3>4, SearchFinds
    <3>6. asked' = [by |-> by, at |-> r, word |-> w, k |-> k, said |-> {}, found |-> found]
      BY <3>3, <3>4
    <3>7. Rows(r)' = Rows(r)
      BY <3>1 DEF Rows
    <3>8. WordFound'
      BY <3>1, <3>5, <3>6 DEF WordFound
    <3>9. AskedInv'
      BY <3>5, <3>6, <3>7, <3>8 DEF AskedInv
    <3> QED
      BY <3>2, <3>9 DEF RetrievalInv
  <2>3. ASSUME NEW numbers \in SUBSET Number, Reply(numbers) PROVE RetrievalInv'
    <3>1. pages' = pages /\ window' = window /\ chunks' = chunks
      BY <2>3 DEF Reply
    <3>2. IndexInv'
      BY <1>2, <3>1 DEF RetrievalInv, IndexInv
    <3>3. AskedInv /\ asked # NothingAsked
      BY <1>2, <2>3 DEF RetrievalInv, Reply
    <3>4. asked' = [by |-> asked.by, at |-> asked.at, word |-> asked.word, k |-> asked.k,
                    said |-> numbers, found |-> asked.found]
      <4>1. asked = [by |-> asked.by, at |-> asked.at, word |-> asked.word, k |-> asked.k,
                     said |-> asked.said, found |-> asked.found]
        BY <3>3 DEF AskedInv
      <4>2. asked' = [asked EXCEPT !.said = numbers]
        BY <2>3 DEF Reply
      <4> QED
        BY <4>1, <4>2
    <3>5. WordFound'
      BY <3>1, <3>3, <3>4 DEF WordFound, AskedInv
    <3>6. Rows(asked.at)' = Rows(asked.at)
      BY <3>1, <3>4 DEF Rows
    <3>7. numbers \subseteq UNION {row.chunk.words : row \in asked.found}
      BY <2>3 DEF Reply, Grounded
    <3>8. AskedInv'
      BY <3>3, <3>4, <3>5, <3>6, <3>7 DEF AskedInv
    <3> QED
      BY <3>2, <3>8 DEF RetrievalInv
  <2>4. ASSUME UNCHANGED retrievalVars PROVE RetrievalInv'
    BY <1>2, <2>4 DEF retrievalVars, RetrievalInv, IndexInv, AskedInv, WordFound, Rows
  <2> QED
    BY <1>2, <2>1, <2>2, <2>3, <2>4 DEF RetrievalNext
<1> QED
  BY <1>1, <1>2, PTL DEF RetrievalSpec

(* A search of a restaurant that may return two results finds every word   *)
(* its page publishes, brings only its own chunks and no more than asked   *)
(* for, and a number said of them is one of the page: for any page, any    *)
(* windows and whatever the embedder ranks (hybrid_search, check_grounding).*)
THEOREM AnswersAlwaysFromOwnPage == RetrievalSpec => []AnsweredFromOwnPage
<1>1. RetrievalInv => AnsweredFromOwnPage
  <2> SUFFICES ASSUME RetrievalInv, asked # NothingAsked PROVE AnsweredFromOwnPage
    BY DEF AnsweredFromOwnPage
  <2>1. /\ IndexInv /\ asked.at \in Site /\ WordFound
        /\ Cardinality(asked.found) <= asked.k /\ asked.found \subseteq Rows(asked.at)
        /\ asked.said \subseteq UNION {row.chunk.words : row \in asked.found}
    BY DEF RetrievalInv, AskedInv
  <2>2. \A row \in asked.found : row.chunk.words \subseteq PageWords(pages[asked.at])
    <3> SUFFICES ASSUME NEW row \in asked.found PROVE row.chunk.words \subseteq PageWords(pages[asked.at])
      OBVIOUS
    <3>1. row.chunk \in chunks[asked.at]
      BY <2>1, RowsAre
    <3>2. pages[asked.at] \in Seq(Entry) /\ window \in WindowSize /\ row.chunk \in ChunkMarkdown(pages[asked.at], window)
      BY <2>1, <3>1, PagesAre
    <3> QED
      BY <3>2, ChunkWords
  <2>3. asked.said \subseteq PageWords(pages[asked.at])
    BY <2>1, <2>2
  <2> QED
    BY <2>1, <2>3 DEF AnsweredFromOwnPage
<1> QED
  BY <1>1, RetrievalInvariant, PTL
================================================================================
