-------------------------------- MODULE MCOffice --------------------------------
(* The components that share no state with each other, side by side: a      *)
(* behaviour is a behaviour of the one that is its subject, and the others  *)
(* rest.                                                                    *)
EXTENDS Accounts, Workflows, BrowserRuns, Execution, Limits, Privacy, OrderRules, Synthesis,
        Access, Retrieval

VARIABLE subject

Subject == {"accounts", "workflows", "browser", "execution", "limits", "privacy", "rules", "pipeline",
            "access", "retrieval"}

MCOfferList == {<<>>, <<5>>, <<6>>, <<6, 5>>}
(* Crawls: of two pages, the second long, good or bad; the first long; of    *)
(* three pages; none at all.  The menus of before have up to two items.      *)
Good(nodes) == [nodes |-> nodes, usable |-> TRUE]
Bad(nodes) == [nodes |-> nodes, usable |-> FALSE]
MCBare == {n \in Node : n.category = NoCategory /\ n.offers # <<6, 5>>}
MCCrawl ==
  {<<>>} \cup {<<Good(<<n>>), Good(s)>> : n \in Node, s \in BoundedSeq(Node, 2)}
    \cup {<<Bad(<<m>>), Good(<<n>>)>> : m, n \in Node}
    \cup {<<Good(<<l, m>>), Good(<<n>>)>> : l, m, n \in MCBare}
    \cup {<<Good(<<l>>), Good(<<m>>), Good(<<n>>)>> : l, m, n \in MCBare}
    \cup {<<Good(<<l>>), Bad(<<m>>), Good(<<n>>)>> : l, m, n \in MCBare}

OldItem(k, price, variants) ==
  [key |-> k, category |-> NoCategory, price |-> price, variants |-> variants, needs_review |-> FALSE]
MCOldMenu ==
  {<<>>} \cup {<<OldItem(k, p, {})>> : k \in ItemName, p \in {5, 6, NoPrice}}
    \cup {<<OldItem(k, NoPrice, {6, 7})>> : k \in ItemName}
    \cup {<<OldItem(k, 5, {}), OldItem(l, p, {})>> : k, l \in ItemName, p \in {6, NoPrice}}

MCWordSet == SUBSET {"order", "reservation", "cancel", "availab"} \cup {{"reservation", "slot"}, {"stock"}}
MCRuleValue == {-10, 0, 5, 33, 100, 500}

Text(word) == [heading |-> FALSE, words |-> {word}]
Heading(words) == [heading |-> TRUE, words |-> words]
MCPage == {
  <<Heading({"hot"})>>,
  <<Text("tea"), Heading({"tea"}), Text("hot"), Text("24"), Text("30")>>,
  <<Heading({"24"}), Heading({"tea"}), Text("24"), Text("hot"), Text("tea"), Text("30")>>}
MCWindow == {[target |-> 1, overlap |-> 3], [target |-> 2, overlap |-> 1], [target |-> 3, overlap |-> 0]}
MCSynonyms == [w \in Word |-> IF w = "hot" THEN {"spicy"} ELSE {}]

(* A component that rests has one initial state; a menu of before is         *)
(* compared with what a website yields.                                     *)
OfficeInit ==
  /\ subject \in Subject
  /\ subject # "browser" => trace = <<>> /\ mode = [dry |-> TRUE, confirmed |-> FALSE]
  /\ subject # "execution" => plan = <<"create_order">> /\ adapter = [kind |-> "rest", fallback |-> FALSE]
  /\ subject # "privacy" => override = [r \in Restaurant |-> NoOverride]
  /\ subject # "rules" => question = [about |-> "zone", zones |-> <<>>]
  /\ subject # "pipeline" => source = [kind |-> "upload"]
  /\ subject # "retrieval" => pages = [r \in Site |-> <<Heading({"hot"})>>] /\ window = [target |-> 1, overlap |-> 3]
  /\ AuthInit /\ WorkflowInit /\ BrowserInit /\ ExecutionInit
  /\ LimitInit /\ PrivacyInit /\ RulesInit /\ PipelineInit
  /\ AccessInit /\ RetrievalInit
  /\ source.kind # "website" => published = <<>>

officeVars ==
  <<subject, authVars, wfVars, browserVars, executionVars, limitVars, privacyVars, rulesVars, pipelineVars,
    accessVars, retrievalVars>>

OfficeNext ==
  \/ /\ subject = "accounts" /\ AuthNext
     /\ UNCHANGED <<subject, wfVars, browserVars, executionVars, limitVars, privacyVars, rulesVars, pipelineVars,
                    accessVars, retrievalVars>>
  \/ /\ subject = "workflows" /\ WorkflowNext
     /\ UNCHANGED <<subject, authVars, browserVars, executionVars, limitVars, privacyVars, rulesVars, pipelineVars,
                    accessVars, retrievalVars>>
  \/ /\ subject = "browser" /\ BrowserNext
     /\ UNCHANGED <<subject, authVars, wfVars, executionVars, limitVars, privacyVars, rulesVars, pipelineVars,
                    accessVars, retrievalVars>>
  \/ /\ subject = "execution" /\ ExecutionNext
     /\ UNCHANGED <<subject, authVars, wfVars, browserVars, limitVars, privacyVars, rulesVars, pipelineVars,
                    accessVars, retrievalVars>>
  \/ /\ subject = "limits" /\ LimitNext
     /\ UNCHANGED <<subject, authVars, wfVars, browserVars, executionVars, privacyVars, rulesVars, pipelineVars,
                    accessVars, retrievalVars>>
  \/ /\ subject = "privacy" /\ PrivacyNext
     /\ UNCHANGED <<subject, authVars, wfVars, browserVars, executionVars, limitVars, rulesVars, pipelineVars,
                    accessVars, retrievalVars>>
  \/ /\ subject = "rules" /\ RulesNext
     /\ UNCHANGED <<subject, authVars, wfVars, browserVars, executionVars, limitVars, privacyVars, pipelineVars,
                    accessVars, retrievalVars>>
  \/ /\ subject = "pipeline" /\ PipelineNext
     /\ UNCHANGED <<subject, authVars, wfVars, browserVars, executionVars, limitVars, privacyVars, rulesVars,
                    accessVars, retrievalVars>>
  \/ /\ subject = "access" /\ AccessNext
     /\ UNCHANGED <<subject, authVars, wfVars, browserVars, executionVars, limitVars, privacyVars, rulesVars, pipelineVars,
                    retrievalVars>>
  \/ /\ subject = "retrieval" /\ RetrievalNext
     /\ UNCHANGED <<subject, authVars, wfVars, browserVars, executionVars, limitVars, privacyVars, rulesVars, pipelineVars,
                    accessVars>>

OfficeSpec == OfficeInit /\ [][OfficeNext]_officeVars

(* Every component keeps its types, whichever of them is at work. *)
OfficeTypeOK ==
  AuthTypeOK /\ WorkflowTypeOK /\ BrowserTypeOK /\ ExecutionTypeOK /\ LimitTypeOK /\ PrivacyTypeOK
  /\ AccessTypeOK
================================================================================
