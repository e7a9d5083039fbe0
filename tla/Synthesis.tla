-------------------------------- MODULE Synthesis --------------------------------
(***************************************************************************)
(* The ingestion pipeline (ordy_ingest): what run_pipeline makes of a      *)
(* source (orchestrator.py), through extract.py and synthesize.py for the  *)
(* pages of a website and analyze.py for an API document, and the changes  *)
(* diff.py finds against the menu of before.                               *)
(*                                                                         *)
(* A page is its menu items in document order, an API document its         *)
(* operations; texts, tags, hours and policies are left out.  parse_price  *)
(* has been applied: a price is an amount or NoPrice.                      *)
(***************************************************************************)
EXTENDS Naturals, FiniteSetsExt, SequencesExt

CONSTANTS
  ItemName, Category,
  NoPrice, NoCategory, NoName,
  OfferList,     \* lists of prices an item may be offered at
  WordSet,       \* which of the words below an operation may mention
  Crawl,         \* sites that may be met, each the pages of a crawl
  OldMenu,       \* menus that may have been published before
  MaxOperations  \* bound: operations of an API document

ASSUME SynthesisConstants ==
  /\ MaxOperations \in Nat
  /\ NoCategory \notin Category /\ NoName \notin ItemName /\ NoPrice \notin Nat
  /\ OfferList \subseteq Seq(Nat \cup {NoPrice})

VARIABLES
  source,     \* the source, chosen initially
  published,  \* the items of the menu of before
  bundle,     \* <<items, conflicts and capabilities>> when the pipeline has run
  changes     \* <<what diff found>> when it was asked

pipelineVars == <<source, published, bundle, changes>>

Method == {"get", "post", "put", "patch", "delete", "head"}

Node == [name : ItemName, category : Category \cup {NoCategory}, offers : OfferList]
          \cup [name : {NoName}, category : {NoCategory}, offers : {<<>>}]

Operation == [method : Method, words : WordSet]

(* A page may be an error, or not HTML. *)
WebPage == [nodes : Seq(Node), usable : BOOLEAN]

Item == [key : ItemName, category : Category \cup {NoCategory}, price : Nat \cup {NoPrice},
         variants : SUBSET Nat, needs_review : BOOLEAN]

ASSUME MenusAndPages == Crawl \subseteq Seq(WebPage) /\ OldMenu \subseteq Seq(Item)

Source ==
  [kind : {"website"}, crawl : Crawl]
    \cup [kind : {"api_doc"}, parses : BOOLEAN, operations : BoundedSeq(Operation, MaxOperations)]
    \cup [kind : {"database", "github", "upload"}]

--------------------------------------------------------------------------------
(* _menu_item: one offer is the price, several are variants. *)
MenuItem(node) ==
  LET price    == IF Len(node.offers) = 1 THEN Head(node.offers) ELSE NoPrice
      variants == IF Len(node.offers) > 1 THEN {p \in Range(node.offers) : p # NoPrice} ELSE {}
  IN  [key |-> node.name, category |-> node.category, price |-> price, variants |-> variants,
       needs_review |-> price = NoPrice /\ variants = {}]

SameOnPage(i, j) == i.key = j.key /\ i.category = j.category

(* extract_jsonld: nameless items are dropped, and repeated ones; kept[n] is *)
(* what is left of the first n.                                             *)
Extracted(nodes) ==
  LET kept[n \in 0..Len(nodes)] ==
        IF n = 0 THEN <<>>
        ELSE LET item == MenuItem(nodes[n])
             IN  IF nodes[n].name = NoName \/ \E i \in Range(kept[n - 1]) : SameOnPage(i, item)
                 THEN kept[n - 1]
                 ELSE Append(kept[n - 1], item)
  IN  kept[Len(nodes)]

(* Only good HTML pages are read, in the order of the crawl; found[n] is     *)
(* what the first n of them yield.                                          *)
ExtractedItems(crawl) ==
  LET found[n \in 0..Len(crawl)] ==
        IF n = 0 THEN <<>>
        ELSE found[n - 1] \o (IF crawl[n].usable THEN Extracted(crawl[n].nodes) ELSE <<>>)
  IN  found[Len(crawl)]

(* _merge_item: what is missing is filled in. *)
MergedItem(into, other) ==
  [into EXCEPT !.category = IF @ = NoCategory THEN other.category ELSE @,
               !.price = IF @ = NoPrice THEN other.price ELSE @,
               !.variants = IF @ = {} THEN other.variants ELSE @]

(* Variant for the mutation checks: the merged price is compared, not the   *)
(* other page's.                                                            *)
PriceConflict_AfterMerge(into, other) ==
  IF NoPrice \notin {into.price, other.price} /\ MergedItem(into, other).price # into.price
  THEN {[item |-> into.key, values |-> {into.price, other.price}]}
  ELSE {}

PriceConflict(into, other) ==
  IF NoPrice \notin {into.price, other.price} /\ into.price # other.price
  THEN {[item |-> into.key, values |-> {into.price, other.price}]}
  ELSE {}

MergeInto(acc, item) ==
  LET same == {k \in DOMAIN acc.items : acc.items[k].key = item.key}
  IN  IF same = {}
      THEN [acc EXCEPT !.items = Append(@, item)]
      ELSE LET k == CHOOSE k \in same : TRUE
           IN  [items |-> [acc.items EXCEPT ![k] = MergedItem(@, item)],
                conflicts |-> acc.conflicts \cup PriceConflict(acc.items[k], item)]

(* synthesize: by name, over all pages; merged[n] is the bundle after the   *)
(* first n items.                                                           *)
Synthesized(items) ==
  LET merged[n \in 0..Len(items)] ==
        IF n = 0 THEN [items |-> <<>>, conflicts |-> {}] ELSE MergeInto(merged[n - 1], items[n])
  IN  merged[Len(items)]

--------------------------------------------------------------------------------
AlwaysNative == {"request_human_handoff", "send_payment_link", "log_customer_preference"}

PlatformAction ==
  AlwaysNative \cup {"create_order", "update_order", "cancel_order", "get_order_status", "check_availability",
                     "make_reservation", "cancel_reservation", "check_reservation_slots"}

OrderWord == {"order"}
ReservationWord == {"reservation"}
CancelWord == {"cancel"}
AvailabilityWord == {"availab", "stock"}
SlotWord == {"slot", "availab"}

MatchRule(action, methods, classes) == [action |-> action, methods |-> methods, classes |-> classes]

MatchRules == <<
  MatchRule("cancel_order", {"post", "delete"}, {OrderWord, CancelWord}),
  MatchRule("update_order", {"put", "patch"}, {OrderWord}),
  MatchRule("create_order", {"post"}, {OrderWord}),
  MatchRule("get_order_status", {"get"}, {OrderWord}),
  MatchRule("cancel_reservation", {"post", "delete"}, {ReservationWord, CancelWord}),
  MatchRule("check_reservation_slots", {"get"}, {ReservationWord, SlotWord}),
  MatchRule("make_reservation", {"post"}, {ReservationWord}),
  MatchRule("check_availability", {"get"}, {AvailabilityWord}) >>

RuleApplies(op, r) == op.method \in r.methods /\ \A c \in r.classes : c \cap op.words # {}

(* Variant for the mutation checks: the last rule that applies. *)
Matches_Last(op, action) ==
  \E n \in DOMAIN MatchRules :
    /\ RuleApplies(op, MatchRules[n]) /\ MatchRules[n].action = action
    /\ \A m \in n + 1..Len(MatchRules) : ~RuleApplies(op, MatchRules[m])

(* _match_action: the first rule that applies decides. *)
Matches(op, action) ==
  \E n \in DOMAIN MatchRules :
    /\ RuleApplies(op, MatchRules[n]) /\ MatchRules[n].action = action
    /\ \A m \in 1..n - 1 : ~RuleApplies(op, MatchRules[m])

(* analyze_openapi and build_capability_map: an action has one confidence,  *)
(* so the first operation that matches it is the best.                      *)
CapabilityMap(operations) ==
  [a \in PlatformAction |->
     LET found == {i \in DOMAIN operations : a \notin AlwaysNative /\ Matches(operations[i], a)}
     IN  IF found = {} THEN [adapter |-> "native"] ELSE [adapter |-> "rest", binding |-> operations[Min(found)]]]

--------------------------------------------------------------------------------
PipelineInit ==
  /\ source \in Source
  /\ published \in OldMenu
  /\ bundle = <<>>
  /\ changes = <<>>

Yields(drafts, operations) ==
  /\ bundle = <<>>
  /\ bundle' = <<[items |-> drafts.items, conflicts |-> drafts.conflicts, capabilities |-> CapabilityMap(operations)]>>
  /\ UNCHANGED <<source, published, changes>>

RunWebsite ==
  /\ source.kind = "website"
  /\ Yields(Synthesized(ExtractedItems(source.crawl)), <<>>)

RunApiDoc ==
  /\ source.kind = "api_doc"
  /\ Yields(Synthesized(<<>>), IF source.parses THEN source.operations ELSE <<>>)

RunOther ==
  /\ source.kind \in {"database", "github", "upload"}
  /\ Yields(Synthesized(<<>>), <<>>)

(* _price_of: the cheapest variant stands for an item without a price. *)
PriceOf(item) ==
  CASE item.price # NoPrice -> item.price
    [] item.price = NoPrice /\ item.variants # {} -> Min(item.variants)
    [] OTHER -> NoPrice

(* Of several items with one name the last counts. *)
PriceMap(items) ==
  [key \in {i.key : i \in Range(items)} |-> PriceOf(items[Max({n \in DOMAIN items : items[n].key = key})])]

Change(kind, name, old, new) == [kind |-> kind, name |-> name, old |-> old, new |-> new]

(* Variant for the mutation checks: a price that was missing is not compared. *)
MenuChanges_Priced(old, new) ==
  {Change("added", k, NoPrice, new[k]) : k \in DOMAIN new \ DOMAIN old}
    \cup {Change("price_changed", k, old[k], new[k]) :
            k \in {n \in DOMAIN new \cap DOMAIN old : old[n] # NoPrice /\ old[n] # new[n]}}
    \cup {Change("removed", k, old[k], NoPrice) : k \in DOMAIN old \ DOMAIN new}

(* detect_menu_changes. *)
MenuChanges(old, new) ==
  {Change("added", k, NoPrice, new[k]) : k \in DOMAIN new \ DOMAIN old}
    \cup {Change("price_changed", k, old[k], new[k]) :
            k \in {n \in DOMAIN new \cap DOMAIN old : old[n] # new[n]}}
    \cup {Change("removed", k, old[k], NoPrice) : k \in DOMAIN old \ DOMAIN new}

RequiresReview(change) == change.kind \in {"price_changed", "removed"}

DetectChanges ==
  /\ bundle # <<>> /\ changes = <<>>
  /\ changes' = <<MenuChanges(PriceMap(published), PriceMap(Head(bundle).items))>>
  /\ UNCHANGED <<source, published, bundle>>

PipelineNext == RunWebsite \/ RunApiDoc \/ RunOther \/ DetectChanges

PipelineSpec == PipelineInit /\ [][PipelineNext]_pipelineVars

--------------------------------------------------------------------------------
(* Two items of one name that pages of a crawl left with different prices   *)
(* are flagged as a conflict, in whichever order the pages come and however *)
(* many are between them, and an item that nobody priced asks for a review. *)
(* (An item dropped as a repetition within its page, and variants, are not  *)
(* compared by the code, and not by this property.)                         *)
ReviewerSeesDoubt ==
  bundle # <<>> /\ source.kind = "website" =>
    LET drafts == Head(bundle)
    IN  /\ \A i, j \in Range(ExtractedItems(source.crawl)) :
             i.key = j.key /\ NoPrice \notin {i.price, j.price} /\ i.price # j.price =>
               \E c \in drafts.conflicts : c.item = i.key
        /\ \A d \in Range(drafts.items) : PriceOf(d) = NoPrice => d.needs_review

(* Whatever is on the site and was published before, the changes lead from  *)
(* the price list of before to the new one, and no name vanishes from it or *)
(* costs something else without a change that requires a review.  (The      *)
(* price of a name is that of its last item, of several variants the        *)
(* cheapest: the list does not show a dearer variant's.)                    *)
ChangesExplainMenu ==
  changes # <<>> =>
    LET found == Head(changes)
        old   == PriceMap(published)
        new   == PriceMap(Head(bundle).items)
        gone  == {c.name : c \in {d \in found : d.kind = "removed"}}
        told  == {c.name : c \in {d \in found : d.kind # "removed"}}
    IN  /\ DOMAIN new = (DOMAIN old \ gone) \cup told
        /\ \A k \in DOMAIN new :
             new[k] = IF k \in told THEN (CHOOSE c \in found : c.name = k).new ELSE old[k]
        /\ \A k \in DOMAIN old :
             k \notin DOMAIN new \/ new[k] # old[k] => \E c \in found : c.name = k /\ RequiresReview(c)

(* An API is bound only to what it says it does: what reads is a GET, what  *)
(* changes something is not, an order or a booking is not placed through an *)
(* operation that cancels, and Ordy's own actions never leave Ordy.         *)
CapabilityMapSound ==
  bundle # <<>> =>
    \A a \in PlatformAction :
      LET entry == Head(bundle).capabilities[a]
      IN  entry.adapter = "rest" =>
            /\ source.kind = "api_doc" /\ source.parses /\ a \notin AlwaysNative
            /\ entry.binding.method = "get" <=>
                 a \in {"get_order_status", "check_availability", "check_reservation_slots"}
            /\ a \in {"create_order", "make_reservation"} => "cancel" \notin entry.binding.words
            /\ a \in {"cancel_order", "cancel_reservation"} => "cancel" \in entry.binding.words
================================================================================
