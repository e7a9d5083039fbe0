------------------------------- MODULE BrowserRuns -------------------------------
(***************************************************************************)
(* The replay of a browser workflow (ordy_automation/runner.py): the       *)
(* workflow is compiled from a recorded trace (compile.py), its slots are  *)
(* bound (params.py), its steps are guarded (safety.py) and handed to a    *)
(* Playwright page (ordy_sandbox/driver.py), until one fails.              *)
(*                                                                         *)
(* The site is not trusted: it may show, hide or refuse anything, and a    *)
(* click may take effect although it reports an error.                     *)
(***************************************************************************)
EXTENDS Naturals, FiniteSets, SequencesExt

CONSTANTS
  MaxTrace,     \* bound: entries of the recorded trace
  MaxSelectors  \* bound: candidates of a click, the primary and its fallbacks

ASSUME BrowserConstants == MaxTrace \in Nat /\ MaxSelectors \in Nat \ {0}

VARIABLES
  trace,      \* the recorded trace of the workflow, chosen initially
  mode,       \* dry_run, platform_confirmed of this run
  step,       \* index of the current step
  candidate,  \* selector candidates tried in a click
  phase,      \* where the current step is
  outcome,    \* "running", "ok" or the error code of the RunResult
  page        \* history: what the run has done to the site

browserVars == <<trace, mode, step, candidate, phase, outcome, page>>

ClickOp == {"click", "search_click", "goto_cart_checkout", "confirm_order"}
KnownOp == ClickOp \cup {"goto", "select_option", "fill_form"}

(* Variant for the mutation checks: a dry run may click on. *)
IrreversibleOp_None == {}

(* What a dry run stops before, and what compile marks as needing consent.  *)
IrreversibleOp == {"confirm_order"}

(* A recorded entry: what was done, whether it has a slot the arguments do  *)
(* not fill, a URL off the approved domain, a payment field among others.   *)
(* The clicks but the last differ in nothing that is followed here.         *)
TraceEntry ==
  [op : {"click", "confirm_order", "hover"}, flaw : {"none", "unbound"}]
    \cup [op : {"goto"}, flaw : {"none", "offsite"}]
    \cup [op : {"fill_form"}, flaw : {"none", "payment", "unbound"}]
    \cup [op : {"select_option"}, flaw : {"none"}]

(* compile_trace: unknown operations are dropped, a form carries the        *)
(* refusal list, a confirmation its requirement, and all but goto an        *)
(* assertion.                                                               *)
CompiledStep(e) ==
  [op |-> e.op, flaw |-> e.flaw, expect |-> e.op # "goto",
   requires |-> IF e.op = "confirm_order" THEN "platform_confirmed_action" ELSE "none"]

Known(e) == e.op \in KnownOp

Compiled ==
  LET steps[n \in 0..Len(trace)] ==
        IF n = 0 THEN <<>>
        ELSE IF Known(trace[n]) THEN Append(steps[n - 1], CompiledStep(trace[n])) ELSE steps[n - 1]
  IN  steps[Len(trace)]

(* Fields of a form in the order of the workflow, a payment field last.     *)
Fields(s) ==
  CASE s.op = "fill_form" /\ s.flaw = "payment" -> <<"phone", "card_number">>
    [] s.op = "fill_form" /\ s.flaw # "payment" -> <<"phone">>
    [] s.op # "fill_form" -> <<>>

NEVER_FILL_PATTERNS == {"card_number"}

NoEffects == [submits |-> 0, filled |-> {}, held |-> 0]

BrowserInit ==
  /\ trace \in BoundedSeq(TraceEntry, MaxTrace)
  /\ mode \in [dry : BOOLEAN, confirmed : BOOLEAN]
  /\ step = 1
  /\ candidate = 0
  /\ phase = "guards"
  /\ outcome = "running"
  /\ page = NoEffects

Current == Compiled[step]

Running(p) == outcome = "running" /\ step <= Len(Compiled) /\ phase = p

Abort(code) ==
  /\ outcome' = code
  /\ UNCHANGED <<trace, mode, step, candidate, phase, page>>

--------------------------------------------------------------------------------
(* bind_step: every slot must have a value before anything else happens. *)
Bound(s) == s.flaw # "unbound"

MissingParameter ==
  /\ Running("guards")
  /\ ~Bound(Current)
  /\ Abort("MISSING_PARAMETER")

(* A dry run stops here and reports success. *)
StopDryRun ==
  /\ Running("guards")
  /\ Bound(Current)
  /\ mode.dry /\ Current.op \in IrreversibleOp
  /\ Abort("ok")

(* Variant for the mutation checks: the browser takes the gate's word. *)
Permitted_Trusting(s) == s \in Range(Compiled)

Permitted(s) == s.requires = "platform_confirmed_action" => mode.confirmed

Reaches(s) == Running("guards") /\ Bound(s) /\ ~(mode.dry /\ s.op \in IrreversibleOp)

ConfirmationMissing ==
  /\ Reaches(Current)
  /\ ~Permitted(Current)
  /\ Abort("CONFIRMATION_MISSING")

(* Variant for the mutation checks: each field is checked when it is typed. *)
FieldsSafe_First(s) == Fields(s) # <<>> => Fields(s)[1] \notin NEVER_FILL_PATTERNS

(* assert_fields_safe: one payment field refuses the whole form. *)
FieldsSafe(s) == Range(Fields(s)) \cap NEVER_FILL_PATTERNS = {}

PaymentFieldRefused ==
  /\ Reaches(Current) /\ Permitted(Current)
  /\ ~FieldsSafe(Current)
  /\ Abort("PAYMENT_FIELD_REFUSED")

EgressBlocked ==
  /\ Reaches(Current) /\ Permitted(Current)
  /\ Current.flaw = "offsite"
  /\ Abort("EGRESS_BLOCKED")

StartStep ==
  /\ Reaches(Current) /\ Permitted(Current) /\ FieldsSafe(Current)
  /\ Current.flaw # "offsite"
  /\ phase' = IF Current.op \in ClickOp THEN "clicking" ELSE "acting"
  /\ candidate' = 0
  /\ UNCHANGED <<trace, mode, step, outcome, page>>

(* goto, select_option and fill_form: done, or the driver reports an error  *)
(* (for fill_form after any of the fields) or that there is no such option. *)
Act ==
  /\ Running("acting")
  /\ page' = [page EXCEPT !.filled = @ \cup Range(Fields(Current))]
  /\ phase' = "checking"
  /\ UNCHANGED <<trace, mode, step, candidate, outcome>>

ActFails ==
  /\ Running("acting")
  /\ outcome' = IF Current.op = "select_option" THEN "SELECTOR_FAILED" ELSE "STEP_FAILED"
  /\ \E n \in 0..Len(Fields(Current)) :
       page' = [page EXCEPT !.filled = @ \cup {Fields(Current)[i] : i \in 1..n}]
  /\ UNCHANGED <<trace, mode, step, candidate, phase>>

Submitted == IF Current.op = "confirm_order" THEN [page EXCEPT !.submits = @ + 1] ELSE page

(* The driver tries the candidates in order; one that raises is passed      *)
(* over, whether or not the click reached the site.                         *)
Click ==
  /\ Running("clicking") /\ candidate < MaxSelectors
  /\ candidate' = candidate + 1
  /\ page' = Submitted
  /\ phase' = "checking"
  /\ UNCHANGED <<trace, mode, step, outcome>>

ClickRaises ==
  /\ Running("clicking") /\ candidate < MaxSelectors
  /\ candidate' = candidate + 1
  /\ page' \in {page, Submitted}
  /\ UNCHANGED <<trace, mode, step, phase, outcome>>

SelectorFailed ==
  /\ Running("clicking") /\ candidate = MaxSelectors
  /\ Abort("SELECTOR_FAILED")

(* Variant for the mutation checks: an assertion that fails is passed over. *)
AssertionFailed_Ignored ==
  /\ Running("checking") /\ Current.expect
  /\ step' = step + 1
  /\ phase' = "guards"
  /\ UNCHANGED <<trace, mode, candidate, outcome, page>>

AssertionFailed ==
  /\ Running("checking") /\ Current.expect
  /\ Abort("ASSERTION_FAILED")

StepDone ==
  /\ Running("checking")
  /\ page' = IF Current.expect THEN [page EXCEPT !.held = @ + 1] ELSE page
  /\ step' = step + 1
  /\ phase' = "guards"
  /\ UNCHANGED <<trace, mode, candidate, outcome>>

AllDone ==
  /\ outcome = "running"
  /\ step > Len(Compiled)
  /\ Abort("ok")

BrowserNext ==
  \/ MissingParameter \/ StopDryRun \/ ConfirmationMissing
  \/ PaymentFieldRefused \/ EgressBlocked \/ StartStep
  \/ Act \/ ActFails
  \/ Click \/ ClickRaises \/ SelectorFailed
  \/ AssertionFailed \/ StepDone
  \/ AllDone

BrowserSpec == BrowserInit /\ [][BrowserNext]_browserVars

--------------------------------------------------------------------------------
BrowserTypeOK ==
  /\ mode \in [dry : BOOLEAN, confirmed : BOOLEAN]
  /\ step \in 1..Len(Compiled) + 1
  /\ candidate \in 0..MaxSelectors
  /\ phase \in {"guards", "acting", "clicking", "checking"}
  /\ outcome \in {"running", "ok", "MISSING_PARAMETER", "CONFIRMATION_MISSING", "PAYMENT_FIELD_REFUSED",
                  "EGRESS_BLOCKED", "STEP_FAILED", "SELECTOR_FAILED", "ASSERTION_FAILED"}
  /\ page \in [submits : Nat, filled : SUBSET {"phone", "card_number"}, held : Nat]

(* Whatever was recorded and whatever the site does, an order is submitted  *)
(* only by a live run of an action the customer confirmed.                  *)
SubmitsOnlyConfirmed == page.submits > 0 => mode.confirmed /\ ~mode.dry

(* No payment field is ever typed, and a form that has one is left blank    *)
(* altogether: what is filled came from forms without one.                  *)
PaymentFormsUntouched ==
  /\ page.filled \cap NEVER_FILL_PATTERNS = {}
  /\ page.filled # {} => \E i \in 1..step : i \in DOMAIN Compiled /\ Compiled[i].op = "fill_form" /\ FieldsSafe(Compiled[i])

(* A run that reports success held every assertion it came to and, when it  *)
(* was live, submitted each order its trace submits.                        *)
SuccessIsReal ==
  outcome = "ok" =>
    /\ page.held = Cardinality({i \in 1..step - 1 : Compiled[i].expect})
    /\ ~mode.dry =>
         /\ step = Len(Compiled) + 1
         /\ page.submits >= Cardinality({i \in DOMAIN Compiled : Compiled[i].op = "confirm_order"})
================================================================================
