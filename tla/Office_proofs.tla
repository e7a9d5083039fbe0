------------------------------ MODULE Office_proofs ------------------------------
(***************************************************************************)
(* MCOffice puts the components that share no state side by side, so that  *)
(* one run checks them all.  Here: what it shows of a component it shows   *)
(* of that component's own specification, since every behaviour of the     *)
(* composition is one of each component's; and what is proved of each      *)
(* component therefore holds of the composition.                           *)
(***************************************************************************)
EXTENDS MCOffice, Security_proofs, Service_proofs, Knowledge_proofs

LEMMA OfficeRunsAuth == OfficeSpec => AuthSpec
<1>1. OfficeInit => AuthInit
  BY DEF OfficeInit
<1>2. [OfficeNext]_officeVars => [AuthNext]_authVars
  BY DEF OfficeNext, officeVars
<1> QED
  BY <1>1, <1>2, PTL DEF OfficeSpec, AuthSpec

LEMMA OfficeRunsWorkflow == OfficeSpec => WorkflowSpec
<1>1. OfficeInit => WorkflowInit
  BY DEF OfficeInit
<1>2. [OfficeNext]_officeVars => [WorkflowNext]_wfVars
  BY DEF OfficeNext, officeVars
<1> QED
  BY <1>1, <1>2, PTL DEF OfficeSpec, WorkflowSpec

LEMMA OfficeRunsBrowser == OfficeSpec => BrowserSpec
<1>1. OfficeInit => BrowserInit
  BY DEF OfficeInit
<1>2. [OfficeNext]_officeVars => [BrowserNext]_browserVars
  BY DEF OfficeNext, officeVars
<1> QED
  BY <1>1, <1>2, PTL DEF OfficeSpec, BrowserSpec

LEMMA OfficeRunsExecution == OfficeSpec => ExecutionSpec
<1>1. OfficeInit => ExecutionInit
  BY DEF OfficeInit
<1>2. [OfficeNext]_officeVars => [ExecutionNext]_executionVars
  BY DEF OfficeNext, officeVars
<1> QED
  BY <1>1, <1>2, PTL DEF OfficeSpec, ExecutionSpec

LEMMA OfficeRunsLimit == OfficeSpec => LimitSpec
<1>1. OfficeInit => LimitInit
  BY DEF OfficeInit
<1>2. [OfficeNext]_officeVars => [LimitNext]_limitVars
  BY DEF OfficeNext, officeVars
<1> QED
  BY <1>1, <1>2, PTL DEF OfficeSpec, LimitSpec

LEMMA OfficeRunsPrivacy == OfficeSpec => PrivacySpec
<1>1. OfficeInit => PrivacyInit
  BY DEF OfficeInit
<1>2. [OfficeNext]_officeVars => [PrivacyNext]_privacyVars
  BY DEF OfficeNext, officeVars
<1> QED
  BY <1>1, <1>2, PTL DEF OfficeSpec, PrivacySpec

LEMMA OfficeRunsRules == OfficeSpec => RulesSpec
<1>1. OfficeInit => RulesInit
  BY DEF OfficeInit
<1>2. [OfficeNext]_officeVars => [RulesNext]_rulesVars
  BY DEF OfficeNext, officeVars
<1> QED
  BY <1>1, <1>2, PTL DEF OfficeSpec, RulesSpec

LEMMA OfficeRunsPipeline == OfficeSpec => PipelineSpec
<1>1. OfficeInit => PipelineInit
  BY DEF OfficeInit
<1>2. [OfficeNext]_officeVars => [PipelineNext]_pipelineVars
  BY DEF OfficeNext, officeVars
<1> QED
  BY <1>1, <1>2, PTL DEF OfficeSpec, PipelineSpec

LEMMA OfficeRunsAccess == OfficeSpec => AccessSpec
<1>1. OfficeInit => AccessInit
  BY DEF OfficeInit
<1>2. [OfficeNext]_officeVars => [AccessNext]_accessVars
  BY DEF OfficeNext, officeVars
<1> QED
  BY <1>1, <1>2, PTL DEF OfficeSpec, AccessSpec

LEMMA OfficeRunsRetrieval == OfficeSpec => RetrievalSpec
<1>1. OfficeInit => RetrievalInit
  BY DEF OfficeInit
<1>2. [OfficeNext]_officeVars => [RetrievalNext]_retrievalVars
  BY DEF OfficeNext, officeVars
<1> QED
  BY <1>1, <1>2, PTL DEF OfficeSpec, RetrievalSpec

--------------------------------------------------------------------------------
(* Every component keeps its types, whichever of them is at work:          *)
(* requests, runs and jobs of the office never touch what is another       *)
(* component's.                                                            *)
THEOREM OfficeTypeCorrect == OfficeSpec => []OfficeTypeOK
<1>1. OfficeSpec => []AuthTypeOK
  BY OfficeRunsAuth, AuthTypeCorrect, PTL
<1>2. OfficeSpec => []WorkflowTypeOK
  BY OfficeRunsWorkflow, WorkflowTypeCorrect, PTL
<1>3. OfficeSpec => []BrowserTypeOK
  BY OfficeRunsBrowser, BrowserTypeCorrect, PTL
<1>4. OfficeSpec => []ExecutionTypeOK
  BY OfficeRunsExecution, ExecutionTypeCorrect, PTL
<1>5. OfficeSpec => []LimitTypeOK
  BY OfficeRunsLimit, LimitTypeCorrect, PTL
<1>6. OfficeSpec => []PrivacyTypeOK
  BY OfficeRunsPrivacy, PrivacyTypeCorrect, PTL
<1>7. OfficeSpec => []AccessTypeOK
  BY OfficeRunsAccess, AccessTypeCorrect, PTL
<1> QED
  BY <1>1, <1>2, <1>3, <1>4, <1>5, <1>6, <1>7, PTL DEF OfficeTypeOK

(* What is proved of each component holds of them side by side: the run of  *)
(* MCOffice checks an instance of this.                                     *)
THEOREM OfficeKeepsPromises ==
  OfficeSpec =>
    /\ [](OneAccountPerEmail /\ SplitOnlyByOverlap /\ LogoutEndsFamily)
    /\ [](TenantsKeptApart)
    /\ [](ErasedIsGone /\ ExpiredWhenDue)
    /\ [](NeverOverRate /\ RetryAfterSuffices /\ ClosedWithinBudget)
    /\ [](OrdersNeverLost /\ TwiceOnlyAfterLostAnswer)
    /\ [](LiveWasVerified /\ KillSwitchHolds)
    /\ [](SubmitsOnlyConfirmed /\ PaymentFormsUntouched /\ SuccessIsReal)
    /\ [](HoursAgree /\ TotalsSound /\ ZoneIsCheapest)
    /\ [](ReviewerSeesDoubt /\ ChangesExplainMenu /\ CapabilityMapSound)
    /\ [](AnsweredFromOwnPage)
<1>1. OfficeSpec => [](OneAccountPerEmail /\ SplitOnlyByOverlap /\ LogoutEndsFamily)
  BY OfficeRunsAuth, OneAccountPerEmailAlways, SplitOnlyByOverlapAlways, LogoutAlwaysEndsFamily, PTL
<1>2. OfficeSpec => [](TenantsKeptApart)
  BY OfficeRunsAccess, TenantsAlwaysKeptApart, PTL
<1>3. OfficeSpec => [](ErasedIsGone /\ ExpiredWhenDue)
  BY OfficeRunsPrivacy, ErasedAlwaysGone, AlwaysExpiredWhenDue, PTL
<1>4. OfficeSpec => [](NeverOverRate /\ RetryAfterSuffices /\ ClosedWithinBudget)
  BY OfficeRunsLimit, NeverOverRateHolds, RetryAfterAlwaysSuffices, ClosedAlwaysWithinBudget, PTL
<1>5. OfficeSpec => [](OrdersNeverLost /\ TwiceOnlyAfterLostAnswer)
  BY OfficeRunsExecution, OrdersAreNeverLost, TwiceAlwaysAfterLostAnswer, PTL
<1>6. OfficeSpec => [](LiveWasVerified /\ KillSwitchHolds)
  BY OfficeRunsWorkflow, LiveAlwaysVerified, KillSwitchAlwaysHolds, PTL
<1>7. OfficeSpec => [](SubmitsOnlyConfirmed /\ PaymentFormsUntouched /\ SuccessIsReal)
  BY OfficeRunsBrowser, SubmitsAlwaysConfirmed, PaymentFormsNeverTouched, SuccessAlwaysReal, PTL
<1>8. OfficeSpec => [](HoursAgree /\ TotalsSound /\ ZoneIsCheapest)
  BY OfficeRunsRules, HoursAlwaysAgree, TotalsAlwaysSound, ZoneAlwaysCheapest, PTL
<1>9. OfficeSpec => [](ReviewerSeesDoubt /\ ChangesExplainMenu /\ CapabilityMapSound)
  BY OfficeRunsPipeline, ReviewerAlwaysSeesDoubt, ChangesAlwaysExplain, CapabilityMapAlwaysSound, PTL
<1>10. OfficeSpec => [](AnsweredFromOwnPage)
  BY OfficeRunsRetrieval, AnswersAlwaysFromOwnPage, PTL
<1> QED
  BY <1>1, <1>2, <1>3, <1>4, <1>5, <1>6, <1>7, <1>8, <1>9, <1>10

================================================================================
