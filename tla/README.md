# Ordy: specifications of the ordering agent and its back office

Ordy is a multi-tenant ordering agent for restaurants: customers talk to an agent that answers
from the restaurant's own documents and places orders through a deterministic gate; staff work on
the orders; the menu is read from the restaurant's web site by ingestion runs and reviewed by a
human. The specifications in this directory model the parts of it where concurrency, failure,
order of events or the edges of arithmetic decide whether the code is right. They are written from
the source under `src/`; every definition that stands for code is tied to its lines in
`PROJECT.json` ("map"), and what is hard about the code is listed there line by line ("hazards")
with the properties that watch it.

    tlc -config MCActionGate_safety.cfg MCActionGate     model-check an instance
    tlapm ActionGate_proofs.tla                          check the proofs of a module

## The system

| Component | State it keeps | Operations and how it interacts | What is hard, and what must hold | Module |
|---|---|---|---|---|
| Order and reservation lifecycle (`ordy_orders/state.py`, `modules/orders`) | `orders`, `order_events`, `reservations` rows | staff change a status; the agent inserts and cancels; each in its own transaction | read, check and write without a lock: lost updates. Milestones are not skipped | `OrderDesk` |
| Turn engine (`ordy_agent/engine.py`) and conversation service (`modules/agent/service.py`) | `conversations`, `conversation_turns`, `action_executions` | `run_turn`, `post_turn`; state is rebuilt from rows for each request | requests of one conversation overlap; `seq` is not unique; what was read may be old when used | `ActionGate` |
| Gate: policy, pricing, confirmation (`ordy_tools`) | the pending confirmation in the agent turn's trace | validate, price, ask, resolve | checked when proposed, executed later; time limit and turn distance at their boundary | `ActionGate` |
| Native execution (`modules/orders/adapter.py`, `executor.py`) | rows keyed by `(restaurant_id, idempotency_key)` | create, reserve, cancel, look up | one effect per action under concurrent confirmation | `ActionGate`, `Execution` |
| Providers and fallback (`ordy_tools/adapters.py`, `executor.py`, `providers/`) | the provider's orders, `AlOstedhAdapter._seen`, `NativeAdapter._seen` | REST calls, replay, fallback, `execute_plan`, `compensate` | an answer lost after the order was placed; a retried plan; an undo that must name its order | `Execution` |
| Ingestion runs and review (`runner.py`, `ordy_workers`, `modules/knowledge`) | `ingestion_runs`, menu documents, `capability_maps`, published products, chunks | trigger, sweep, execute, review, publish; API to worker through a queue with late acknowledgement | a run executed twice or never; drafts replaced while reviewed; versions computed as highest + 1 | `Ingestion` |
| Ingestion pipeline (`extract`, `analyze`, `synthesize`, `diff`) | none | called by a run | conflicting prices, missing prices, methods of an API bound to actions | `Synthesis` |
| Browser workflows: health (`drift.py`, `modules/workflows`) | `automation_workflows`, `automation_runs` | verify, approve, disable, record a run's end | stale reads between a manager's switch and the end of a run | `Workflows` |
| Browser workflows: replay (`compile.py`, `params.py`, `safety.py`, `runner.py`, `ordy_sandbox`) | the run | compile a trace, bind, guard, click, assert | a site that is not trusted; no submit without consent; no payment data typed | `BrowserRuns` |
| Accounts (`modules/auth`) | `users`, `refresh_tokens` (families) | register, login, refresh, logout | concurrent use of one token; logout racing a refresh | `Accounts` |
| Restaurants, members, tenancy (`deps.py`, `db/session.py`, alembic 0001, `modules/restaurants`, `modules/menu`) | memberships, API keys, rows of a tenant | `require_tenant`, row policies, CRUD | two independent walls between tenants: the role check and the policy | `Access` |
| Retrieval (`ordy_rag`, `modules/knowledge/retrieval.py`) | `knowledge_chunks` | chunk, embed, search, fuse, ground | windows at the end of a section, cut of the candidates, tenant filter after fusion | `Retrieval` |
| Order rules (`hours.py`, `totals.py`, `zones.py`) | none | pure functions | midnight, Sunday into Monday, floors and clamps, order of rows | `OrderRules` |
| Limits (`ordy_security/limits.py`) | buckets, breaker | allow, record, reset | refill and trip boundaries, the half-open state, costs recorded late | `Limits` |
| Privacy (`modules/privacy`, `retention.py`) | marks on rows | erase, nightly sweep | an erasure races a turn; a job dies half way | `Privacy` |
| Agent brain, webhooks, voice, API shell, dashboard, infrastructure, migrations, scripts | - | - | - | see "Not modelled" |

`PROJECT.json` lists the components with their files and how far each is modelled.

## The modules

    OrderStates             the two transition tables and the questions asked of them
      OrderDesk             orders and reservations; staff and agent sessions that read, then commit
        ActionGate          a conversation: concurrent turns through gate, confirmation and execution
          ConsentedEffects  (instanced) what the gate promises, without turns or transactions
    Ingestion               triggers, queue, workers, drafts, reviews, what is live
    Accounts  Access  Workflows  BrowserRuns  Execution  Limits  Privacy
    OrderRules  Synthesis  Retrieval
    MCOrderDesk  MCActionGate  MCIngestion  MCExecution  MCOffice         instances for TLC
    OrderDesk_proofs  ActionGate_proofs  Ingestion_proofs                 theorems, one module each
    Security_proofs       theorems of Accounts, Access, Privacy, Limits
    Service_proofs        theorems of Execution, Workflows, BrowserRuns, OrderRules
    Knowledge_proofs      theorems of Synthesis, Retrieval
    Office_proofs         the same for all ten side by side, as MCOffice runs them
    CommonLemmas          induction, recursive functions, division, orders on finite sets

The ten modules of the last two model lines share no state, in the code as little as here: `MCOffice`
puts them side by side with a `subject` that says which one moves, so that one run explores the
union, not the product, of their state spaces.

Common to all: a request is one READ COMMITTED transaction. The sessions do not autoflush and the
ORM leaves a column out of an UPDATE when it is assigned the value that was loaded, so a write is
always modelled against what was read (`Assign` in `Ingestion`, `CommitHealth` in `Workflows`), not
against what is stored. History variables are marked as such where they are declared; no action
reads one.

### OrderDesk

`status[r]` is the committed status of row `r`, `held[r]` all statuses it ever had (for an order the
code keeps them as `order_events`; for a reservation it is a history variable), `txn[x]` the status
write that session `x` will make when it commits. `StaffRead` is `change_order_status` or
`change_reservation_status` up to the commit, with the transition check on the status just read;
`CancelRead` is `_cancel_order`, which asks no table and refuses only two statuses; `WriteStatus` is
the commit. The sessions do not autoflush (`db/session.py`), so the UPDATE reaches the database at
commit; it goes by primary key, with no row lock and no version column, and overwrites whatever came
in between. `RollbackWrite` is a request that fails. A row is named by the turn that inserted it
and starts as `confirmed`, the status `adapter.py` gives it.

### ActionGate

A turn is one request to `post_turn`. Its program counter follows the code's reads and writes:

| step | code |
|---|---|
| `ReadHistory` | the conversation and its turns are read (`service.py:97-110`) |
| `ReadPending` | the last agent row is read for a pending confirmation (`112-121`) |
| `BuildContext` | `build_policy_context`, several SELECTs merged into one step |
| `Answer`, `UnknownTool`, `Reject`, `Propose`, `RunReadTool` | `run_turn` without a pending confirmation |
| `KeepAsking`, `Expire`, `Decline`, `Confirm` | `_resolve_pending` |
| `Replay`, `RefuseToExecute`, `PrepareInsert`, `CancelOrder` | `execute_action` with `DbNativeAdapter`: SELECT by key, then what follows from it |
| `Insert` | the flush under the unique index: waits for an uncommitted row with that key, then inserts or fails |
| `Commit` | `_persist_actions`, the two turn rows, the order or status write, and the commit |
| `FailCommit`, `Rollback` | the transaction cannot commit, or the request fails at any step |

Committed state is `audit` (`action_executions`), `row` (the key and total of the inserted row),
`turnCount`, and of the conversation's agent rows those at the highest `seq`, which are the only ones
a later turn looks at. `seq` is computed from the number of rows a turn read and has no unique
constraint, so two overlapping turns produce equal ones and the database may return either. The
orders themselves are OrderDesk's, which `ActionGate` extends: `Commit` is `InsertRow` or
`WriteStatus`, and staff act in between (`DeskStep`). Around the conversation the clock ticks and the
dashboard edits tools, products, hours and fees (`Change`).

Abstractions, all of data: a cart is one item with one price; a plan carries a flag for what depends
on its arguments alone (the schema, caps on items, quantity and party size); a service that is open
also stands for a delivery address in the zone (the code always takes it to be, where zones exist);
the customer's words are the choice among the outcomes that words can have. An action id is a fresh
UUID of the turn that proposes it, so the turn names the action. A cancel may name any row, also one
of which there is none. `actions_taken` stays 0, because `build_policy_context` never sets it.
`start` and `live` are history variables for properties and decide nothing.

The rule-based brain, the only one `build_brain` returns, plans orders for pickup or delivery and
nothing else (`RuleBasedBrain`). The engine is written against the `AgentBrain` port, and the runs
`gate_safety` and `gate_live` give it plans for the other tools too, also one that is not in the catalog.

### ConsentedEffects

An action is proposed; later it may take effect, once, as one row; an effect is never removed or
replaced. `ActionGate` implements it with `proposed` mapped to the actions the audit trail shows as
awaiting confirmation and `effect` to the rows found under an action's key. Turns, time limits,
failed requests, replays and everything staff do are stutters.

### Ingestion

| state | code |
|---|---|
| `run[r]` | `ingestion_runs.status`, "absent" until the row is committed |
| `trigger[r]` | how far `POST /sources/{id}/runs` or the hourly sweep has got with `r` |
| `ready`, `orphan` | messages in the Celery queue, and those a dead worker had not acknowledged |
| `job[w]` | an execution of `execute_run`: what its open transaction has read and where it is |
| `drafts` | a menu document with the capability map committed with it; its chunks and copies on the menu |
| `review[x]` | what a manager was shown, has submitted, and what the request has read so far |

`TriggerRun`, then `SendTask`, `RunInline` or `TriggerFails`: the row is committed before the task is
published. `SweepSource` publishes while its rows are not committed yet; `SweepCommit` and
`SweepRollback` end it, so a worker may find no row. `MarkFetching`, `PipelineFails`/`MarkFailed`,
`StorageFails`, `BeginDrafts`, `NextVersion`, `CommitDrafts`/`VersionConflict`, `Acknowledge` are
`execute_run` with its two transactions and the failure's own; `TransactionFails` is any of the three
failing with the database, which nobody catches. `VisibilityTimeout`, `HostDies` and
`ChildDies` are the faults of late acknowledgement, bounded by `MaxFaults`. `OpenReview` and
`SubmitReview` to `CommitReview` are `get_review` and `publish_review`, with every read that another
commit can get in front of as a step. Names and prices are not followed; that products are created
is (`copies`).

### Accounts

`users` and `tokens` are the committed rows, named by the request that inserted them; `call` is what a
request has read. `Register`/`CommitRegister`, `Login`, `Refresh`/`Rotate`, `Logout`/`CommitLogout`
split each request between its reads and its commit; `CallFails` rolls it back. `RefreshReused` is a
refresh with a revoked token: the revocation of the family it makes is rolled back by the error it
raises, so nothing is left of it. `before` is history: of each token, what its family was when the
refresh that issued it read its parent. It tells a refresh that overlapped another one from a token
that was presented again later.

### Access

`ContextOf` and `Pinned` are the settings a session gets, `TenantRow`, `HouseRow` and `MemberRow` the
row policies of alembic 0001, `Admitted` is `require_tenant`. Each endpoint of restaurants, members
and menu is an action that reads and writes what the policies and its own WHERE let it reach;
`strays` collects whoever reached a row without being entitled to it, by the role or by the policy
alone. `CreateCategory` and `InviteMember` read, then insert, and are split.

### Workflows and BrowserRuns

`Workflows` is the row of a browser workflow: requests (`LoadRequest`) and the ends of runs
(`StartRun`, `LoadResult`) load it and `CommitHealth` writes what `drift.py` makes of what was loaded.
No code under `src/` records the end of a run; it is taken to do what the requests do.
`BrowserRuns` is one replay: a trace is compiled, and each step is bound, guarded and carried out in
the order of `runner.py`; a click tries its selectors in turn and may take effect although it raises
(`ClickRaises`). The site may do anything.

### Execution

A plan of orders and bookings is executed at a REST provider or Al Ostedh, with or without fallback.
`PrimaryAnswers`, `AnswerRejected`, `AnswerLost`, `PrimaryFails` and `PrimaryReplays` are what a call
can come to; `Fallback` is `NativeAdapter`, which answers from memory what this instance has carried
out (`nativeSeen`). `compensate` is one of `Undo` (the provider accepts the cancellation, for the
order its argument names), `UndoNatively` (the primary raises, as Al Ostedh always does for a
cancellation, and the native adapter says "cancelled" and cancels nothing), `UndoFails` (it raises and
nobody stands in) and `SkipUndo` (the tool is not in the catalog). `ExecuteAgain` is the same plan with
the same keys. `RestartProcess` ends the process at any moment, also within a plan or its
compensation, and empties the memories of both adapters; `forgotten` is the history of what was in them.

### Limits, Privacy, Retrieval

`Limits` has the bucket of one key (`AllowRequest`, `RetryAfter`) and the breaker (`AllowCall` first,
`RecordCost` when the call is over, `ResetBreaker`) under a clock. `Privacy` has an erasure that reads
orders, then turns, then commits, and a nightly job with one transaction per restaurant, while rows
come in and days pass. What the breaker has on record is kept as an amount per instant, which is all
that its sums and its pruning tell apart. `Retrieval` publishes a page, a sequence of heading lines
and words of the body (`ChunkMarkdown`: the windows of a section are numbered, and `WindowNumbers`
says where the loop ends), searches it by a vector ranking that may be any and a lexical one, fuses,
filters by restaurant and says numbers that `Grounded` lets pass. Fractions of the fusion are
compared exactly, and `Before` is the stable sort: by score, then by the order in which rows came.
A search for `k = 1` result is modelled as well (`schemas.py` allows it); there the embedder's
favourite may be all that is found, which is why `WordFound` asks for two.

### OrderRules and Synthesis

Pure functions: the inputs are chosen initially, one step asks the code's definition. `OrderRules`
compares hours with the circle of the week, checks that totals add up and are monotonic, and that
the cheapest zone is found. `Synthesis` runs the pipeline over the pages of a crawl (`Crawl`, any set of
sequences of pages) or an API document and then the diff against a menu of before (`OldMenu`, any set
of sequences of items).

## What is checked

| run | instance | properties |
|---|---|---|
| `desk` | 1 row, its agent turn, 3 staff requests | `DeskTypeOK`, `MilestonesKept`, `TerminalLeftOnlyByStaleRead` |
| `gate_safety` | 4 turns, all write tools, clock past the limit | `GateTypeOK`, `OneEffectPerAction`, `AuditMatchesEffects`, `AnsweredIsFinal`, `ConsentedSpec` |
| `gate_live` | 3 turns, every kind of tool, 1 staff request, fairness | `RequestsFinish` |
| `gate_world` | 2 turns, 3 prices, 2 fees, 2 dashboard edits, clock | `OrderedWasOnOffer` |
| `ingest` | 2 runs, 2 workers, 1 review, 1 fault, fairness | `IngestTypeOK`, `ReviewedRunHasDraft`, `MapVersionsContiguous`, `SearchableIffApproved`, `StrandedOnlyByMishap`, `RunsSettle` |
| `office` | ten components, each by itself, about 780 000 states | `OfficeTypeOK` and the 23 properties below |
| `desk_terminal`, `gate_kill_switch`, `gate_total`, `gate_consent`, `ingest_review`, `plan_rollback` | smallest that shows it | one claim of the documentation each, violated |

Orders and the gate:

* `MilestonesKept`: an order was being prepared before it was ready, and ready before it went out or was completed;
  a failed delivery had gone out; a booking that was completed had been seated. Lost
  updates can move a status back, so the claim is about all statuses a row ever had.
* `TerminalLeftOnlyByStaleRead`: a terminal status changes only by the write of a session that decided
  on another status, or by the agent cancelling a failed order.
* `OneEffectPerAction`: two confirmations of one action, at the same time or one after the other,
  leave one row.
* `AuditMatchesEffects`: an ordering or booking action is audited as succeeded exactly when its row exists.
  A turn whose flush failed has told its session "failed" but cannot commit, so it leaves neither.
* `AnsweredIsFinal`: an action that was declined, expired, read out again or executed before a request arrived is not
  executed by it. This rests on the turn distance: an answered action can still be found as
  "pending" through a row with an equal `seq`, but is then too many turns old.
* `OrderedWasOnOffer`: an ordered item was available at some time during the request that
  ordered it (the snapshot is read in the same request, so it need not still be).
* `RequestsFinish`: no request waits for ever, in particular not for the unique index.

Ingestion:

* `ReviewedRunHasDraft`: a run that can be reviewed, or was, has a committed draft, whatever executes it again.
* `MapVersionsContiguous`: maps are numbered without gaps and twice no number, although two executions
  compute the same one; the unique index makes the second fail.
* `SearchableIffApproved`: chunks and menu copies exist exactly for approved documents.
* `StrandedOnlyByMishap`, `RunsSettle`: a run is left queued or fetching only after one of the
  failures that no handler takes care of, which `mishap` names; otherwise it comes to a review or fails for the record.

The office:

* `OneAccountPerEmail`, `SplitOnlyByOverlap`, `LogoutEndsFamily`: the unique e-mail under concurrent
  registration; a token family has one token that works unless two refreshes of one token overlapped,
  neither having read what the other issued (a token presented again after its rotation never splits
  its family); after a logout only what was about to be issued works.
* `LiveWasVerified`, `KillSwitchHolds`: no live traffic without a verification; a switch pulled
  while nothing else is in flight stays pulled until one passes.
* `SubmitsOnlyConfirmed`, `PaymentFormsUntouched`, `SuccessIsReal`: no submit in a dry run or without
  consent; a form with a payment field is left blank altogether; success means that assertions held
  and what had to be submitted was.
* `OrdersNeverLost`, `TwiceOnlyAfterLostAnswer`: reported as done is done. An action is carried out
  twice natively only if the process that had answered it ended; twice at a provider only if that
  ignores the key, and its answer was lost or forgotten with a process; at both only if the provider
  acted in a call that counts as failed, or the plan was executed again.
* `NeverOverRate`, `RetryAfterSuffices`, `ClosedWithinBudget`: in no interval more than a bucket and
  its refill; the hint is enough and not given for nothing; a closed breaker is within its budget.
* `ErasedIsGone`, `ExpiredWhenDue`: what there was when an erasure began is gone when it has
  committed; transcripts neither outlive the ceiling nor expire before a day and the tenant's window.
* `HoursAgree`, `TotalsSound`, `ZoneIsCheapest`; `ReviewerSeesDoubt`, `ChangesExplainMenu`,
  `CapabilityMapSound`: the pure parts against what they mean.
* `TenantsKeptApart`: nobody reaches a restaurant without a right to it, and the policies alone would
  see to that but for platform admins.
* `AnsweredFromOwnPage`: a word of the page is found under any vector ranking, only own rows are, and
  a number said is on the page.

Every property of a passing run is paired in `PROJECT.json` with a variant of a definition, a slip
the code could have, under which TLC finds it violated.

### Bounds

| constant | value | why it is enough |
|---|---|---|
| `Turn` (gate) | 4, 3 with liveness | `AnsweredIsFinal` needs one that proposes, two that answer with equal `seq`, one that confirms late; a conflict on a key needs three |
| staff requests, turns (desk) | 3, 1 | one more than the lost update needs; the turn's session can be used again |
| `MaxTime`, `TTL`, `MaxEdits` | 1, 0, 2 | the clock passes an expiry; an item is switched off and on again; prices 1, 2 and 3 fall below, between and above `MinDelivery` and `MaxOrder` |
| `Run`, `Worker`, `Reviewer`, `MaxFaults` | 2, 2, 1, 1 | two runs compete for a map version, one run is executed twice at once; a fault makes the second execution; the theorems lift these bounds, for several overlapping reviews too |
| `Client`, `TokenTTL`, `MaxAuthTime` | 5, 0, 1 | a login, two overlapping refreshes, a logout and one more; a token can expire |
| `Actor` | 5 | three overlapping failures, a verification and an approval |
| `MaxTrace`, `MaxSelectors` | 3, 2 | a submit after a form after a navigation; a fallback selector |
| `MaxPlan`, `MaxAttempts` | 2, 3 | a step to undo before one that fails; a retry after a retry |
| `Capacity`, `RefillPerSecond`, `Cost`, `MaxTime` | 3, 2, {1, 3}, 3 | a refill that does not divide the capacity; a request as large as the bucket |
| `Budget`, `WindowSeconds`, `CooldownSeconds`, `MaxInFlight`, `MaxCalls` | 3, 1, 1, 2, 4 | calls in flight while it trips, a half-open phase that records |
| `Ceiling`, `DefaultDays`, `Override`, `MaxDay` | 2, 2, none, 0, 1, 9, 4 | overrides below, within and above; two nights after an expiry |
| `SlotsPerDay`, subtotals, rule values | 3, 6, 6 | every pair of windows of a week; percentages below 0 and over 100, remainders of the division |
| `Crawl` (`MCCrawl`) | none, 2 or 3 pages, up to 2 items on one of them, bad pages before and between | conflicts across one and two page boundaries, after a repetition on a page, and with an unpriced item between |
| `OldMenu` (`MCOldMenu`) | none, 1 or 2 items, two of one name, variants, no price | every kind of change; the last of two items with one name |
| `MaxOperations` | 2 | two operations for one action |
| `User`, `Tenant`, `Dish`, `Session` | 2, 2, 2, 2 | an outsider and an admin, a foreign row, a read under another's insert |
| pages, windows, `K`, `CandidateMultiplier` | 3 each, {1, 2}, 1 | a section longer than a window and one with a remainder; more rows than candidates |

Turns are interchangeable in safety runs (`SYMMETRY`); liveness is checked without it. The runs with
bounded requests say `CHECK_DEADLOCK FALSE`: when all of them are over nothing is left to do.

### Fairness

`FairSpec` of `ActionGate` asks weak fairness of `Proceed(t)` for each turn: a request that has arrived and has
something to do is run by asyncio, and a statement it sent is answered or raises. A turn that waits
for a unique key has nothing to do until the holder ends, and the holder is a turn that can always
proceed. `IngestFairSpec` asks it of a worker's next step, of the delivery of a message that waits
while a worker is free, and of the broker giving back what a dead worker held (its visibility
timeout). Arrival of requests, faults, staff, reviewers and the sweep's end are not fair.

### What the documentation says and the code does not do

* `desk_terminal`: "an order can never ... move out of a terminal state" (`state.py`). Two staff
  requests read an order as `confirmed`; one cancels it, the other writes `preparing` over that.
* `gate_kill_switch`: disabling a tool "takes effect on the next turn" (incident runbook). A pending
  confirmation is executed by that turn without asking the gate again.
* `gate_total`: the customer confirms a summary with the total. The summary leaves out the delivery
  fee, and the cart is priced again when the order is placed.
* `gate_consent`: a confirmation is "fresh, explicit". The pending confirmation is read after the
  history, so a yes sent before the question was stored confirms it.
* `ingest_review`: "Prices never go live without a human approving them" (`PHASE-3.md`). The newest
  draft is published, and a run executed again between the look and the verdict has a newer one.
* `plan_rollback`: "a half-applied plan is rolled back rather than left dangling" (`executor.py`). At a
  REST provider the second step fails and the first is compensated. The compensation hands over
  `order_id`, where `cancel_order` and the `RestAdapter` take `order_ref`, so the cancellation that the
  provider accepts names no order.

### Observed while modelling, without a run

These follow from the models or were met while reading; each is about what the code does.

* Gate: the per-conversation action budget is never used up (`actions_taken` starts at 0 with each
  request); a confirmation that was read out again always expires, because its turn number is
  not renewed; a cancel reports success whether or not it found an order and does not ask the
  transition table; hours, minimum and value cap are not checked again on execution. A yes repeated
  for a booking that staff have moved on meanwhile is answered "failed", because the status of now does
  not pass the output schema.
* Ingestion: two reviews that overlap can leave two active maps or none. Publishing twice, or two
  first category requests at once, makes second copies of products, chunks or the menu (`menu/service.py` says
  "Every restaurant has one working menu"). A published run that is delivered again goes back to
  fetching and may fail; rejecting one leaves its products live.
* Workflows: a workflow disabled while a run is in flight may come back, by a late failure
  (degraded) and then a success (active), against `drift.py:50`. Disabling one that is disabled
  already writes nothing and can be lost to a verification. Three failures in a row need three
  overlapping live runs, because after the first the workflow is not usable. Overlapping with an
  approval, a failure can leave an active workflow with failures counted.
* Replay: `runner.py:5-6` promises artifacts on any failure, `_abort` captures none. A click that
  raises after it took effect is tried again with the next selector, so an order may be
  submitted twice in one run (reached in the run `office`); an assertion that fails after the submit sends the order to the fallback as well.
* Providers: a booking has no compensating tool in the catalog (`cancel_reservation` is not one), so
  it stays when a later step of its plan fails; with a fallback a compensation that the provider
  refused, or that Al Ostedh has no endpoint for, is reported as succeeded by the native adapter, which
  cancels nothing. An answer without `eta_minutes` or with an unknown status is refused after the order
  was placed, and the fallback is not asked. A plan tried again after the native store stood in may
  place a second order at the provider. The default key prefix "plan" is shared by all plans.
* Privacy: a tenant may keep more than the platform default (up to the ceiling), although the
  docstring says "downward only". Retention overwrites the marks of an erasure. What is committed
  between the reads of an erasure and its commit, a turn under way for instance, is not erased by it.
* Limits: a breaker that is half open neither trips nor closes again by itself, only by `reset`. After its
  first cooldown whole new budgets can be overspent without a trip, against `limits.py:78` ("Trips when
  vendor spend in a rolling window exceeds the budget").
* Pipeline: two items of one name and category on one page are reduced to the first before prices are
  compared (`extract.py:195`), so that a second price is not flagged, against `docs/04-ingestion.md:83`
  ("Conflicts (same item, two prices) are flagged, not resolved silently"). The prices of variants are not compared between pages, and the diff stands for an item
  with variants by its cheapest, so that a dearer variant's change is not reported; added items never
  require a review.
* Accounts: a rotated token that is presented again should revoke the family (`auth/service.py:86-87`);
  the exception that reports the reuse rolls the revocation back with its transaction, and the
  successor goes on working (`RefreshReused`).
* Tenancy: a restaurant created by someone who is no admin fails, because INSERT ... RETURNING has to
  pass the read policy before there is a membership. `api_keys.last_used_at` is updated without a tenant context,
  so the policy hides the row. The expiry of an API key is read and not compared. An admin with
  a low membership is held to that role.
* Retrieval: synonyms are ANDed by `plainto_tsquery`, so they narrow the lexical search
  (`rewrite.py:12` wants them to help recall). An admin's search takes candidates of all
  restaurants before the filter and may come short. A heading without text is not indexed.
* `execute_plan`, `FallbackAdapter`, `BrowserAdapter`, the limits, `find_zone` and
  `detect_menu_changes` have no caller outside tests and scripts; they are modelled as their interfaces allow them to be used.

## What is proved

The theorems hold for every value of the constants that the modules' assumptions allow. These say only
that numbers are numbers, that "no value" is none of the values it stands beside, and what the code
fixes (the ceiling of a retention window is at least a day). TLC evaluates them in the runs.

* `OrderDesk_proofs`: `DeskTypeCorrect`, `MilestonesAlwaysKept`, `TerminalLeftOnlyByOverwriting`. The milestones are not
  inductive: a write under way may rest on a status the row has lost since. `DeskInv` adds
  `WritesJustified` (a write starts from a status the row really had and makes a step of the
  table from it, or is the agent's cancel) and `RowsConsistent`.
* `ActionGate_proofs`: `GateImplementsDesk` (each step of the conversation is a step of the desk or none, so
  `MilestonesKeptInGate` follows), `GateTypeCorrect`, `OneEffectPerActionAlways` and
  `GateImplementsConsent`. `GateInv` says what a turn may hold at each step (`TurnOK`), that what
  the audit trail shows as proposed has its confirmation (`ProposedOK`), that what a later turn finds as pending was
  proposed (`RepliesOK`), and about keys (`KeysOK`): committed rows have different keys,
  a flushed row has a key no committed row has, and no two flushed rows share one. Three more
  theorems rest on it, each with an invariant of its own: `AuditAlwaysMatchesEffects` (`AuditInv`: an outcome about to be committed as
  succeeded is a read tool's, or its row is flushed or there), `AnsweredAlwaysFinal` (`SeqInv`: a
  proposal and its answer have added two rows each, so a later turn is beyond the turn gap) and
  `OrderedAlwaysWasOnOffer` (`MenuInv`: what a turn read of the menu was on offer since it arrived).
* `Ingestion_proofs`: `ReviewedRunAlwaysHasDraft`, `SearchableAlwaysIffApproved`,
  `StrandedAlwaysByMishap`, `MapVersionsAlwaysContiguous`. `Settling` is what makes the third
  inductive: for a queued or fetching run something is there that will write another status, and an
  execution whose transaction read the status it is about to write does not count, as the ORM will
  leave the column alone. `SweptRows` says that a task whose row is not committed still waits or
  has come to grief. `VersionsHold` bounds a computed version by what is committed by then; that the
  number of drafts is the highest version then follows from a bijection.
  `IngestTypeCorrect` adds the rows of the reviews (`ReviewTypes`) to the types in `IngInv`.
* `Security_proofs`, accounts: `AuthTypeCorrect`, `OneAccountPerEmailAlways`, `LogoutAlwaysEndsFamily`,
  `SplitOnlyByOverlapAlways`. That a family has one live token is not inductive: a refresh under way
  may issue a successor to a token a logout has revoked meanwhile. `OneEnd` speaks of all tokens
  without a child instead, and `TreesGrow` says that a token with a child is revoked, so
  that a refresh, which reads a token that works, reads no child of it (`NoneBefore`): siblings overlapped.
  Tenancy: `TenantsAlwaysKeptApart`, from the types of memberships and sessions and one lemma
  for each wall (`AdmittedEntitled`, `PolicyKeepsApart`); `AccessTypeCorrect`, whose bound on the
  menus of a restaurant needs `MenusBounded`: a session that is about to add one counts already.
  Privacy: `ErasedAlwaysGone`, `AlwaysExpiredWhenDue`, `PrivacyTypeCorrect`. `Erasing` follows an
  erasure through its two reads; `Aging` orders the clocks of job, restaurant and day.
  Limits: `LimitTypeCorrect`, `NeverOverRateHolds`, `RetryAfterAlwaysSuffices`,
  `ClosedAlwaysWithinBudget`. The rate is not inductive: an interval that has had all it may
  have could end with tokens in the bucket. `TokensLeft` adds what the bucket could give now to what
  was granted since any instant, and `NothingAhead` that nothing is granted in the future. `Total` is a recursive
  function; its lemmas (splitting an interval, adding to one instant) are proved by induction.
* `Service_proofs`, providers: `OrdersAreNeverLost`, `TwiceAlwaysAfterLostAnswer`,
  `ExecutionTypeCorrect`. `RemoteKnown` says where an order at the provider came from, `FreshAhead`
  that a step still to come was carried out only with a lost answer or on an earlier attempt; `NativeKnown`, that
  what was carried out natively is in the memory of the process or among what a process forgot.
  Workflows: `LiveAlwaysVerified`, `KillSwitchAlwaysHolds`, `WorkflowTypeCorrect`. `VerifiedBehind`
  extends the claim to what requests have loaded, `KillHolds` says what may be in flight while the
  switch holds. Replay: `SubmitsAlwaysConfirmed`, `PaymentFormsNeverTouched`, `SuccessAlwaysReal`,
  `BrowserTypeCorrect`, for traces of any length. `StepGuarded` says that a step past its guards was
  allowed by them and `Counted` counts assertions and submits of the steps that are over; the
  submits of the step in progress may be more than one, because of clicks that raised.
  Rules: `HoursAlwaysAgree`, `TotalsAlwaysSound`, `ZoneAlwaysCheapest`. The first compares two
  weekdays with a circle of `7 * SlotsPerDay` instants by lemmas on remainders, the second shows
  that one coin more of food is at most one coin more of discount (`DiscountGrows`), the third on an invariant of the loop (`Cheapest`).
* `Knowledge_proofs`, pipeline: `ReviewerAlwaysSeesDoubt`, `ChangesAlwaysExplain`,
  `CapabilityMapAlwaysSound`, for any number of pages of any number of items, any menu of before and
  any API document. The first is about the items that `extract.py` keeps of a page; what that drops is
  among the observations above. `Merged` is the invariant of the merge: every
  item read so far has one draft with its key, which has its price or a conflict. Retrieval:
  `AnswersAlwaysFromOwnPage`. Each word of a page is in some window (the last window with a start at
  or before it); the chunk that holds it is among the lexical candidates or only such chunks are;
  the fused order is a strict total order, so that k rows are cut; and above the first lexical
  row stands at most one that the lexical ranking does not have, the embedder's first (`AboveFirstLexical`).
* `Office_proofs`: `OfficeTypeCorrect`, `OfficeKeepsPromises`. A behaviour of `MCOffice` is one of each
  component's specification, step or stutter (`OfficeRunsAuth` and nine more), so that the run
  `office` checks instances of what is proved.
* `CommonLemmas`: the library states induction for an operator, which no prover here takes as an
  argument. The lemmas state it for a set of numbers (`NatInductionOnSet`, from the least element of
  a set of naturals), and from it that a function defined by recursion exists and is unique
  (`RecursionExists`, `RecursionUnique`); every loop written as a recursive function gets its
  unfolding lemma that way. `LeastOf` and `FewHaveFewBelow` are about finite strict orders.

With these every safety invariant and every action property of the passing runs, and the refinement
of `ConsentedSpec`, is a theorem. Two assumptions on constants beyond "numbers are numbers" are
stated where they are needed: restaurants and sessions are finitely many (`RetrievalConstants`,
`AccessConstants`), as rows of a database are.

Only model-checked: `RequestsFinish` and `RunsSettle`, because liveness under fairness and ENABLED are out of
the prover's reach; and the six claims of the documentation, which TLC refutes.

## What is left

* An abstract run life cycle that `Ingestion` implements; a second review in the run `ingest`.
* `BrowserRuns` as the primary of `Execution`, with `Workflows` deciding whether it is usable.
* An abstract account of a token family, and of an order at a provider, as `ConsentedEffects` is of the gate.

## Not modelled, and why

Text: the brain's keyword matching, prompts, reading prices out of pages, redaction, formatting of
money; the gate's model takes any plan a brain may return. Floating point: the geometry of a
delivery zone (whether it contains an address is a field) and the scores of vectors (any ranking is
taken). Cryptography: passwords, signatures and the vault are abstracted to who holds what.
Arithmetic of a cart: a cart is one item in the gate; caps on quantities are one flag.
Fetching and robots rules: pages are given or an error. The provider's payload formats, the configuration loader and the
conformance check translate between dictionaries. Outgoing webhooks have a signature and a retry
table, and nothing in the repository delivers them yet; voice is a scaffold of ports. API shell,
dashboard, infrastructure, migrations, seeds and scripts are configuration or clients; the
constraints that the migrations create are part of the models above.
