# Verification of the AI Orchestrator

TLA+ models of the orchestrator's own state and protocols, checked with TLC on
small instances and proved with TLAPS for every instance where the prover
reaches. Paths are relative to the repository (`app/...`).

## 1. The system

The orchestrator is one FastAPI process with one asyncio event loop. Every
request is a coroutine; another request can run at each `await` on Redis,
Postgres, an LLM provider or the EZOFIS HTTP API. Worker threads
(`asyncio.to_thread`) compute on the data of the request that waits for them.
So a model has one action per awaited call that reads or writes shared state,
and the code between two awaits is atomic.

| Component | State | Operations | Hard behaviour | What makes it correct | Modelled |
|---|---|---|---|---|---|
| AP run lifecycle (`ap_skills/runner.py`, `store.py`) | `ap_runs`, `ap_skill_artifacts`, `ap_credit_ledger` per tenant; credits and workflow in EZOFIS; ticket status | `run`: dedupe look-up, `create_run`, loop over skills with charge and ledger, `finish_run`, progress | duplicates in flight, lost answers, failure between two writes, process death | one run per item at a time; billing never under-reported; a status shown is the status reached | `ApRun` |
| AP matching and decision (`finalize_decision.py`, `po_match.py`, `duplicate_detect.py`, ...) | the artifacts of an item; the tenant's extractions and matches, read by `duplicate_detect` | one function per skill, the decision, the move | any order of skills, artifacts of earlier runs, two queries over the whole tenant, caps and boundaries | an approval is backed by the masters; a known number is caught; the grade is the meant one | `ApDecision` |
| Confirmation gate (`core/pending_actions.py`, `core/dispatcher.py`, `confirm_action` in `main.py`) | one Redis key per draft | create, get, consume, `dispatch_confirmed` | two confirms, lost DEL, TTL, tool that fails late | only the owner runs it, not again after it ran, no silent loss | `PendingActions` |
| Rate limiter (`control/rate_limiter.py`) | Redis counter per session and window | `check` (INCR, EXPIRE, Retry-After) | window roll-over, EXPIRE failing | quota per window, nobody refused under it | `ChatSession` |
| Session history (`core/context_manager.py`) | one Redis list per session, as JSON | `get_history`, `append_turn` | read-modify-write without a lock, two turns per request | no turn lost in a request reported as successful | `ChatSession` |
| Chat pipeline (`main.py` `chat`) | none of its own; drives the others | gates, intent, agent, history, audit | order of gates, `finally` | no agent past a refused gate | partly: `ChatSession`, `PendingActions`, `ChatLlm` |
| Runtime LLM selection (`llm/`, `catalog/tenant_llm.py`, console endpoints) | one adapter shared by all requests, selection in Redis | `apply_preset`, `snapshot_overrides`, `restore_runtime_llm`, console save | mutation across awaits, partial save | a request uses its own tenant's model | `ChatLlm`, but for the copy in Redis |
| Tenant pools (`ap_skills/tenant_db.py`) | three pool caches, schema-ready set, a lock | `acquire*`, `close` | double-checked lock, failing schema step, fallback that is cached | one pool per database, none lost, the right database with its tables | `TenantPools` |
| EZOFIS sessions (`integrations/ezofis_client.py`) | token per tenant | log in, use a job's token | a token replaced while in use | each call made with a token of its tenant | no |
| Tenant skills, catalog, prompts, agent packs, AP pipeline configuration | tables | console edits | concurrent edits of one row | no field lost | no |
| OCR, summary, classification, insight, document agents | none | prompt, parse | none shared but the adapter | | no |
| Reports, dashboards, search, import, form sync, PDF, FTL quoting, evaluation, static console | saved reports, quote history | build and render | concurrent edits of one report | no field lost | no |

Interactions. `/chat` passes the rate limiter, calls an agent and appends two
turns to the session's history; the AP agent calls `ApSkillRunner.run`, whose
skills call tools through `Dispatcher.dispatch`; the mail and chatbot agents
create pending actions; `/actions/{id}/confirm` passes the rate limiter, reads
the store and runs `dispatch_confirmed`. AP jobs of different requests meet only
in the tenant's tables (reached through `ApTenantDbPools`), confirms and turns
only in Redis, model choices only in the adapter. That is why each meeting
place has a module of its own: `ApRun` takes a pool for granted, `ApDecision`
takes the exclusion proved of `ApRun` as its guard `ItemIsFree` (both are shown
to implement `ItemLease`), and
`PendingActions` has the limiter as a plain counter because its details are
those of `ChatSession`.

## 2. Modules

| Module | What it is |
|---|---|
| `ApRun` | an AP document job over the three tables and the external effects |
| `ItemLease` | abstract specification: an item is leased to one job at a time |
| `ApRun_proofs` | its inductive invariant, theorems, and that `ApRun` implements `ItemLease` |
| `ApRunBilling_proofs` | what EZOFIS charged against what the tables say |
| `ApRunWhole_proofs` | what a completed run, a default run and a shown COMPLETED stand for |
| `ApDecision`, `ApDecision_proofs` | the skills as functions, the decision, and the artifacts two jobs leave each other |
| `PendingActions`, `PendingActions_proofs` | the confirmation gate, from the draft in `/chat` to the tool's effect |
| `ChatSession`, `ChatSession_proofs` | `/chat` requests of a session: rate limiter and history |
| `ChatLlm`, `ChatLlm_proofs` | the LLM adapter all requests share, and how each `/chat` request chooses its model |
| `TenantPools`, `TenantPools_proofs` | the database pools of the tenants |
| `MCApRun`, `MCApDecision`, `MCPendingActions`, `MCChatSession`, `MCChatLlm`, `MCTenantPools` | values of the constants for TLC |

Faults are everywhere bounded by `MaxFaults`. Where the kinds differ in what
they leave behind they are a constant set: a failed read, a failed write, a
write that took effect but whose answer is lost, a 2xx answer of EZOFIS that
charged nothing, a crash. What the code treats
as an ordinary outcome (EZOFIS refuses to charge or to move on, a skill raises,
an agent fails, an LLM call times out) needs no fault.

### ApRun

`pc[r]` is the await at which `run()` of job `r` is suspended; `job[r]` its
local variables; `row[r]` its `ap_runs` row (a job inserts at most one);
`stored[i][s]` names the job that wrote the latest artifact of skill `s` for
item `i`; `ledger` holds the rows of `ap_credit_ledger`. `charges`, `move` and
`ticket` are what happened outside. The ledger's honesty and gaps can only be
stated because `charges` records what EZOFIS really did.

What a skill costs follows `runner.py:463`: a credit unless its result says
`credits=0`, which under the runner `workflow_progress` always does
(`Progress`), and a move-next that is skipped. `charge_activity_credit` has
four answers: charged, refused, lost, and hollow, a 2xx whose body does not say
"failed" although nothing was charged; `_charge` books the last as "charged".
Without a login (`Live` is FALSE) it answers "mocked", which is also booked as
"charged": `LedgerIsHonest` therefore speaks of a live client, and of the wrong
rows against the faults, in both directions.

A default run starts with the artifacts earlier runs stored. Those of the skills
in its order are replaced before they are used, which is what
`DefaultRunPostsOwnDecision` says; those of skills its order does not have
(`gl_match`, `grn_match`, `matter_validate` or a PO look-up an explicit run
left) still take part in its decision (`finalize_decision.py:45-51`,
`po_match.py:93-99`). No document says whether they should.

| Code | Action |
|---|---|
| `resolve_item_key`, validation | `Submit` |
| `get_latest_run` and `_within_dedupe_window` | `LookupLatest` |
| deduplicated answer | `AnswerDuplicate` |
| `resolve_skills`, planner, `create_run` | `RefuseSkills`, `CreateRun` |
| `load_artifacts` and the other reads before the `try` | `LoadArtifacts` |
| `before_skill`, handler, ctx artifact | `RunSkill` |
| `save_artifact` (failure logged) | `SaveArtifact` |
| `_charge`, `record_credit` | `Charge`, `RecordCredit` |
| verdict, `finish_run`, progress | `FinishRun`, `ReportVerdict` |
| `except` branch | `ReportFailure`, `MarkFailed` |
| process death, time | `Crash`, `Tick` |

Left out: the metadata push, the progress percentages and the extraction
heartbeat, tenants (each has its own database, so `Items` are pairs), and
`completed_low_confidence`, which every reader of the column treats like
`completed`.

### ApDecision

Here the artifacts have contents. `doc[i]` is what the invoice of item `i` says
(a second run of an item starts from the stored extraction, `runner.py:315`, so
it does not change); `job[j].world` is what the masters answer job `j`;
`job[j].ctx` is `ctx.artifacts`, and `latest[i][s]` the row a later run would
load. `extracted` and `matched` are what the two tenant-wide queries of
`duplicate_detect` return; `posted[j]` is the decision the workflow was moved
with.

| Code | Definition |
|---|---|
| `decision_from_score`, `po_match`, `gl_match`, `grn_match` | `FromScore`, `PoScore`, `PoGrade`, `PoMatch`, `GlMatch`, `GrnMatch` |
| the connectors' look-ups and which gives way to which | `Lookup`, `Before`, `PoOf` |
| `vendor_validate`, `matter_validate`, `backorder_detect` | `VendorValidate`, `MatterValidate`, `BackorderDetect` |
| `finalize_decision` (`_worse`, caps, mock rule) | `Worse`, `KnownGrade`, `EvidenceGrade`, `Decision`, `Finalize` |
| `workflow_move_next`'s own guards | `Moves` |
| `ensure_ezofis_hana_po_lookup`, `maybe_reorder` | `WithLookup`, `Reordered` (`Kept`) |
| `create_run`, `load_artifacts` | `Submit` |
| one turn of the runner's loop | `RunSkill`, `SkillRaises` |
| `duplicate_detect`: extraction query, decision query and cloud history | `ReadExtracts`, `CompareHistory` |

A name is how close it is to the other one in percent, a line item counts if it
matched; labels, reasons, payment terms, the display rows, the metadata push and
the HANA copy of a match are left out, and so are a payload with `invoice_json`
and a skill list without `extract_invoice` on a new item.

The look-up is put before `po_match` under the code's two conditions: the
pipeline forces it (`force`: the Catalog's pipelines do not, unless they opt
in), and the payload asks for SAP, where `master_source` decides if it is there
and `resource` otherwise (`WantsSap`, `WantsForm`).

Three things the model takes as the code has them, though a reader may expect
otherwise. `TotalsAgree` is relative to the PO's total (`po_match.py:213`),
while `docs/AP_PIPELINE_PHASE0_INVENTORY.md:73,77` calls the tolerance absolute:
what `ApprovalIsBacked` says of the totals is said with the code's reading. A
plan threshold of 0 means the settings' default (`OrDefault`), because the code
tests it with `or`. And `ApprovalIsBacked` allows for one piece of stale
evidence (`MayMatch`): a PO that a connector found in an earlier run of the item
still counts in a run that does not ask the connector, so the property says of
all other evidence, but not of the PO, that it is this run's.

### PendingActions

`draft[a]` is how far the `/chat` request that drafts `a` has come, `key[a]` its
Redis key, `owner[a]` the session stored in it, `pc[c]` and `req[c]` a confirm
and what it asks for, `ran` the confirms whose tool call took effect, `count`
the rate limiter's counters. `consume` is two actions (`FetchAgain`, `Delete`)
because it is two awaits. Action ids are fresh uuids, so `key[a]` is written
once. The two history writes of `/chat` are one step that works or not; the
permission provider is a stub and appears as a refusal that may happen; the TTL
is a key that may expire at any time.

### ChatSession

`pc[r]` is the await of request `r`, or how it was answered; `counter[s][w]` the
limiter's key of session `s` and window `w` with its expiry; `turns[s]` the
history list, whose elements are `<<request, role>>`. `met` (who appended at the
same time) and `gone` (whose list reached its TTL) are history the properties
read.

| Code | Action |
|---|---|
| content filter, the limiter's key from the clock | `Receive` |
| INCR, and the verdict if the key was there | `Incr` |
| EXPIRE of a key just created, the verdict | `SetTtl` |
| `max(1, int(window_start + window_seconds - clock))` | `RetryAfter` |
| `get_history` and the agent | `Agent` |
| `append_turn` of the user's turn and of the reply: GET, SET | `ReadTurns`, `WriteTurn` |
| TTLs, time, process death | `HistoryExpires`, `Tick`, `Crash` |

The clock counts ticks, `Second` of them to a second, so that the rounding of
Retry-After shows. Past `MaxClock` nothing arrives and time stands still:
`MaxClock + 1` stands for every later time, at which every window is over and
every key that has a TTL is gone. The agent is a step that works or fails.

### ChatLlm

`adapter` is the configuration of the one `LLMAdapter` (model, base, key,
api_version, `None` where unset) and `default` the Console's preset. It starts
with that preset, or with the environment's settings where `LLM_API_BASE` is set
(`EnvConfigs`, `main.py:440`). A request
is `idle` until its catalog look-up has answered, `ready` once it has chosen,
`calling` while a call is under way. `form[r]` says what it asks for; its agent
is `chat` (switches the adapter to the tenant's preset and falls back by
overrides), `job` (AP and OCR document jobs, overrides frozen up front),
`prompt` (switches to the model the request names) or `insight` (uses the
adapter as it is and switches it for each fallback). `calls[r]` records what
its calls sent; `wanted`, `disturbed` and `switched` are history that only the
properties read.

| Code | Definition |
|---|---|
| `configure`, `apply_preset` | `Configured`, `Applied` |
| `chat_completion`'s resolution of its arguments, the preset look-up first | `Sent` |
| `preset_call_overrides`, `resolve_preset_overrides`, `snapshot_overrides` | `Explicit`, `Overrides` |
| the tenant's and the Console's fallbacks; `fallback_override_chain`, the insight agent's list | `Chain`; `Usable`, `Distinct` |
| the prompt agent's test whether the adapter has the model already | `AlreadyOn`, `Target` |
| `apply_tenant_agent_llm` and what follows it up to the next await | `LookupFails`, `Select` |
| the agent's `chat_completion` | `Call` |
| the answer, and `restore_runtime_llm` in the `finally` of `chat` | `Answer`, `GiveUp` |
| the next fallback | `TryFallback` |
| `POST /console/llm-config` by preset and by the Advanced form | `SavePreset`, `SaveManual` |
| `_refresh_catalog_runtime` | `RefreshCatalog` |

The prompt agent puts the adapter back itself before the `finally` of `chat`
applies the default preset over it; nothing is awaited in between, so one
action stands for both, and likewise for the insight agent's restore before the
next fallback. A value is `Empty` where the code passes `""`, which clears a
field, and `None` where it passes nothing: the difference is what two of the
properties are about.

Nothing keeps a catalog model's name from being the id of another preset
(`catalog/store.py`). `chat_completion` then takes the name for that preset and
sends its fields (`adapter.py:149-156`), so what `SelectionHolds` says of a
selection is said after that look-up (`Sends`).

`fallback_override_chain` promises that "primary -> fallback -> 2nd fallback
never retries the same deployment twice" (`tenant_llm.py:33-34`). It leaves out
repeated models of the chain only: the chain is built without the primary
(`main.py:3329`), so the first fallback may repeat it. No property here states
the promise.

Left out: the copy of the selection in Redis, `preset_id`, `ocr_fallback_model`
from the environment, an insight request that names its model, the per-agent
default models of the settings, and catalog edits that change what a preset
means while requests run.

### TenantPools

Pools are numbered as `create_pool` returns them; `cached["ap"]` is `_pools`,
`cached["cs"]` is `_cs_pools`, `search` is `_search_pools`, `ready` is
`_schema_ready` and `schema` what the databases really have. `call[c].at` is the
await of a call; `left` collects the pools whose schema step failed, to which
nothing refers any more.

| Code | Action |
|---|---|
| `acquire` up to its first await | `Ask`, `Acquire` (`EnterAcquire`) |
| `acquire_for_global_search` and the catalog's answer | `AskSearch`, `LookUp` |
| the lock and the second look at the cache | `TakeLock` |
| `asyncpg.create_pool` | `CreatePool` |
| `_ensure_schema` on a tenant's pool, on the fallback | `EnsureSchema`, `EnsureFallback` |
| `close` in the lifespan's shutdown | `Close` |

`Close` waits for the calls because the server ends its requests before the
lifespan's shutdown runs (`main.py:723`). It closes all pools at once and does
not fail: a `pool.close()` that raises would leave the pools after it open
(`tenant_db.py:300-306`), in a process that is ending. The URLs are abstracted
to the database they name; the schema statements are idempotent.

## 3. Runs

| Run | Asks | Answer |
|---|---|---|
| `ap_run_safety` | two jobs on one item, any one fault, any interleaving, under fairness | all thirteen properties hold: exclusion, the lease, billing, ledger, final rows, honest status, and every job is answered |
| `ap_run_orphan` | does a refusal as duplicate mean a job is in flight? (`types.py:48`) | no: one failed query after the INSERT leaves the row `running` for ever |
| `ap_run_rerun` | is an item never run twice inside the window? (`runner.py:156`) | no: look-up and INSERT are two awaits |
| `ap_decision` | two jobs over two items, in the default, planned or an asked-for order, one fault | MATCHED is posted only with the masters' support, an approved number is caught, the decision is the meant grade |
| `pending_actions` | three confirms of one draft, one fault, under fairness | all five properties hold |
| `pending_actions_twice` | can an action be confirmed twice? (`pending_actions.py:78`) | yes: GET and DEL are two awaits and DEL's count is ignored |
| `chat_session` | two requests of a session around the end of a rate window, one fault, under fairness | quota, refusals, Retry-After, stored turns and half turns as promised; every request answered, keys go away |
| `chat_session_lost` | is history never dropped from a request answered 200? (`context_manager.py`) | no: of two overlapping `append_turn`s the second SET removes the first one's turn |
| `chat_llm` | two requests of any kind and one change by the Console, calls that fail, under fairness | all five properties hold |
| `chat_llm_frozen` | is a frozen configuration immune to others? (`adapter.py:93`) | no: a field it does not set is read from the adapter at the call |
| `chat_llm_console` | does the Console's choice last? (`adapter.py:20`) | not a manual one: every request that ends re-applies the default preset |
| `tenant_pools` | three calls for three tenants, two faults, then the shutdown | no pool is opened twice for a cache or lost, every call gets the right database with its tables |

Bounds of the AP runs. Two jobs are enough for every pairwise property: a third
job could only repeat one of the two roles (owner of the row, late comer), and
the exclusion itself is proved for any number. One item: items do not interact,
their tables' rows are disjoint. The plans are the last two skills of the
default order, and as an explicit list `workflow_progress`, which is free, with
`workflow_move_next`, which then moves on what an earlier run decided; the
earlier skills behave like `finalize_decision` in every respect the properties
see. The client has a login, and hollow answers are among the faults; without
one it never calls EZOFIS, which `ap_run_rerun` has. `Window = 1` and
`MaxClock = 2` put an answer inside, at and past the window. One fault reaches
every error path; all safety properties of the run are proved for any number.
The two violation runs use a one-skill plan to keep the trace short.

Bounds of the decision. Two items: one may copy the number of the other, be of
its vendor, be no invoice at all, or be run twice. The first job runs the
tenant's whole order, also reordered by a planner that repeats a skill and moves
first; what the masters answer it is off in one respect at a time (the PO's
vendor, amount or origin, the GL lines with the matter, the cloud history),
because the caps are applied one after the other and `DecisionIsGraded` is
proved for every mixture. The second job uses another PO source or none and may
also ask for a few skills, which is how the first one comes to find older
artifacts. The first job's worlds have a PO whose total is far off; the
thresholds are 0, which means the defaults: with 80 to approve, the number and
the vendor alone (70) do not do, and it is the comparison of the totals that
decides. The second job's worlds ask for SAP by `resource` with the look-up
forced, and by `master_source` with it not forced.

Bounds of the gate. Three confirms and two sessions allow two owners to race
while a stranger confirms, or one confirm to come after two others. A
`MaxRequests` of 2 lets the limit be reached and, with the next window, passed.
Drafts share nothing but the counter, so one is enough.

Bounds of the session. Two requests: one pair already overlaps in every order of
its four Redis commands each, and all invariants are proved for any number. A
limit of 1 makes the second request the first one over it. A window of 4 ticks
with 2 to a second, starting at tick 2 and ending arrivals at 7, has both
requests in one window, on its last tick, or in two windows, and an INCR that
comes after its window.

Bounds of the adapter. Two requests: what one does to another goes through one
configuration, and the invariants are proved for any number. Four presets: one
without an api_version (the start preset has none), one Azure preset with all
fields, one whose key is missing, one whose model is the id of the Azure one;
or a start from the environment, with a model that a request also names. The
seven forms cover each agent, a request that names a plain model, a tenant with
and without a choice, and a fallback that repeats the primary. The Console has
two fallbacks, the first without a key. One change by the Console falls before,
between and after the requests' steps. The two violation runs use two forms and
one fallback.

Bounds of the pools. Three calls: one opens a pool, one waits for the lock, one
finds the result. Three tenants: two whose connection strings name the same
database and which have databases of their own, one with neither. Two faults let
a schema step fail twice in a row, or a look-up and then a connection.

`CHECK_DEADLOCK FALSE` everywhere: when all requests are answered the system
rightly stops.

Fairness. `FairSpec` of `ApRun` asks only that a job that can take a step takes
one: the event loop resumes every ready coroutine, and the HTTP client, asyncpg
and the LLM adapter have timeouts, so an awaited call ends. No fairness on
submissions, faults or the clock. `FairSpec` of `PendingActions` asks the same
of drafts and confirms; that of `ChatSession` adds that time passes, and a key
is dropped when it is due. `FairSpec` of `ChatLlm` asks that a request that has
chosen its model goes on: its call has `llm_request_timeout_seconds`; no
fairness on new requests or the Console.

Every property has a mutant, defined just before the definition it replaces and
marked as a faulty variant, that breaks it.

## 4. Proofs

The proof modules follow one pattern: an invariant that ties every request's
place to the shared state, one lemma per action that it is preserved, then the
theorems. They assume only the named assumptions on the constants.

*ApRun.* `SkillExclusion` is not inductive: nothing in it says that a job that
runs skills owns a row. `RowFollowsJob` does (no row before the INSERT,
`running` until `finish_run`, final afterwards), `OneRunningRow` is what the
unique index enforces, `ItemKnown` that an item is fixed before the row exists,
and `FailedAfterFault` that the except branch meets a finished row only after a
fault. From these: `TypeCorrect`, `Exclusion`, `AnswersAgree`, `FinalRows`
(an action property), and `LeaseRefinement`, the refinement of `ItemLease`
under the mapping that takes the holder of an item to be the job whose row is
`running`. For the last, `HolderOfRow` shows that the mapping's `CHOOSE` has
exactly one candidate, and three lemmas show that `create_run` acquires,
`finish_run` releases and everything else stutters. `DuplicatesGetTheRun`
needs no further invariant but a step property, `Remembers`: the run a duplicate
was given is fixed at its look-up, and `FinalRows` says what can become of it.

*Billing.* Between a charge and its record a job owes one credit, so
`BillingNeverUnderReported` is only inductive with `BillInv`, which counts the
charges of a job that is at `record` as one more than its credits. `HonestInv`
says that the ledger rows that disagree with EZOFIS, and the jobs about to write
one (the `charge_status` held at `record` is not what EZOFIS did), are together
at most as many as the faults; for that a job writes one row per place of its
plan (`PlaceInv`: no charge or row is for a place it has not come to). `GapInv`
says that the charges without a ledger row, but for the one about to be
recorded, are at most as many as the faults. Only two actions touch the three
counters; one lemma, `BillsNothing`, disposes of all others.

*What COMPLETED stands for.* `W` follows a job through its loop: which skills
have their artifact in its ctx, how many credits were counted (`Costs`, `Paid`),
whether move-next has run. `DefaultPostsOwn` needs on top that once the move is
made, every skill before it is the run's own (`OwnBefore`). The three theorems
state their hypotheses on the orders `runner.py` resolves to: `PlansAreOrders`
(no skill twice) and, for `DefaultPostsOwn`, `DefaultPlansJudge` (a move-next
with `finalize_decision` before it). The configured order has both, the
planner's reply is checked for neither: with a reply that breaks them a run is
as `ap_decision` shows.

*ApDecision.* `ArtifactsAlwaysFit`: every artifact held or stored is one its
skill may produce. On that rests `DecisionGraded`: the code's chain of `_worse`
and caps equals the grade the properties define by a minimum over the evidence
(`WorstOfEvidence`), for every order, threshold, document and master data.

For the rest of the types, a job must stay at a skill of its plan (`Placed`),
so first the lemmas on plans: what a planner's reply leaves of a non-empty plan
is a non-empty plan of known skills (`ReorderedIsPlan`), and the look-up put
before `po_match` changes nothing else of the order (`LookupGoesBefore`,
`OrderStays`). `Kept` is a recursive function; its two facts are proved with the
least-element form of induction on a set, `EveryNat`, which needs no operator as
a parameter. That gives `TypeCorrect`.

The two theorems about what decisions mean have a hypothesis each on the
tenant's order, because nothing in the code enforces it: `resolve_skills` takes
`skills_order` as it is configured, and checks only that the skills are known.
`OrderDecides` says that extraction and the checks the order has come before
`finalize_decision`, that before the move, and the look-ups before `po_match`;
`OrderJudges` that `finalize_decision` follows `duplicate_detect`. The default
order has both, and `MCApDecision` has TLC evaluate them. They speak of one
sequence only. What other jobs, older artifacts and failed writes do is what the
theorems are about.

`ApprovalsAreBacked` needs `BackedInv`. Since a run starts with the artifacts
of earlier runs, the property cannot follow from what ctx holds: `KnowsOwn` says
of each skill the run has behind it (`Ran`) that its artifact says what the
masters answered *this* run (`Says`), `Extracts` that an extraction, whoever
made it, is the document. `SaysResult` shows it skill by skill for the one that
runs, with `NeededIsRun` for what must be behind it; then
`finalize_decision`'s chain turns MATCHED into the statement of every check
(`MatchedIsSupported`), and the move posts that. The PO itself is one of
`MayMatch`.

`DuplicatesAreCaught` needs `CaughtInv`, all of it under "no fault so far". The
two queries are answered from the tables, so `StoredInv` says that whoever holds
or stored a MATCHED decision has its item in both, which rests on MATCHED taking
an artifact that takes an extraction (`JudgedOnEvidence`); `Seen` carries the
other item's number from the first query to the second and into the artifact;
`Judged` says that the decision is still ahead, or was made after it.

`TurnsAreLeases` is what joins the two AP models: `ApDecision` has no rows and
no index, only the guard `ItemIsFree`. With an item's holder taken to be its job
in `run` or `history`, it implements `ItemLease`, the specification that
`LeaseRefinement` shows of `ApRun`'s rows.

*PendingActions.* What a confirm learned at one await must still hold at the
next: `RequestIsNamed`, `KeyFollowsDraft` (a key is never written again),
`SessionMatched`. All confirm steps go through one lemma, `ConfirmMoves`, that
says what such a step may do. From these: `TypeCorrect`, `ConsumedForGood`,
`OnlyOwnersRun`, `LossIsTold`.

*ChatSession.* For the history, the invariant must speak of the copies that
`append_turn` holds, since they are what the next SET writes: `HistoryInv` says
which turns are in every stored list and in every copy of a request that is
about to write, and `OverlapsMeet` that whoever else is between its first GET
and its last SET has been met. From it: `StoredTurns`, `HalfTurnTold`. For the
limiter, `CountIsBacked` (a key never says more than the requests counted under
it) gives `RefusedOnlyOverQuota`, and `QuotaInv` (while a window lasts its key
says no less than were counted in it, for it does not die before the window
does) gives `QuotaKept`. `RetryHint` needs that a request's window is never
ahead of the clock, and arithmetic on `\div`.

*ChatLlm.* Lemmas on configurations first: applying a preset gives exactly the
preset (every field is passed, so nothing lingers), a switch to a plain model
changes the model only, a call with full overrides does not read the adapter.
Then one strengthening per property. `ComesHome` is inductive with `TypeOK`,
because every way a request ends goes through `restore_runtime_llm`.
`SelectionKept` needs `JobsInv`: what a job will pass at its next call already
holds its selection. `OwnUsed` needs `OwnInv`: before an undisturbed call the
adapter is the request's target. The assumption on the constants is what the
code's presets are: every preset has a model and every field of it is passed, by
a value or by "". None is made on what a preset's model is called.

*TenantPools.* `CallOK` is what a call is entitled to at each await, `CachesOK`
that the caches hold pools of their keys and the lock's holder found none for
its own, `KnownOK` that every pool opened is accounted for. The lock is what
makes `KnownOK` inductive: by `TypeOK` it is held exactly between the second
look and the entry in the cache. From these: `TypeCorrect`, `PoolsKnown`,
`RightAnswers`.

Only model-checked: the liveness properties (`EveryJobAnswered`,
`EveryConfirmAnswered`, `EveryRequestAnswered`, `KeysGoAway`,
`EveryRequestEnds`); fairness and ENABLED are outside the prover's reach. Every
invariant and every safety property of a step that a passing run checks is
stated by a theorem.

## 5. Not modelled

- The EZOFIS client's token cache: one token per tenant, replaced by whichever
  job logs in last, plus a shared fallback. Whether a replaced token still works
  is up to EZOFIS, which is not in the repository.
- The copy of the LLM selection in Redis. `main.py:1418` applies the preset to
  the adapter before the fallback is validated and Redis is written, so a
  refused or failed save leaves the adapter changed until a request restores
  it; a model would need the restart that reads the copy.
- An explicit re-run of a single skill is judged by stored artifacts of earlier
  runs (`runner.py:504`); no document says whose artifact should decide.
- Edits of the console. The tenant rules and their log are written in one SQLite
  transaction under a process lock (`tenant_skills/store.py`). An edit of a
  catalog agent, a catalog model or a saved report reads the row, fills in the
  fields the caller did not name and writes them all back in a second statement
  (`catalog/store.py`, `report_agent/library_store.py`), so of two edits at once
  the later one undoes the earlier one's fields; no document promises otherwise.
- The FTL quote history: one JSON file, rewritten under a process lock
  (`ftl/quote_estimator/quotes_store.py`). A file that cannot be read counts as
  an empty history, which the next quote then writes out.
- Response cache, memory, content filter, permissions, PII redaction, audit:
  pure checks of one request, or best-effort writes after the answer.
- The document agents, report and dashboard building, search, import, form sync,
  PDF rendering, FTL quoting, extraction prompts and field mapping, the
  evaluation harness and the static console. These are most of the repository's
  lines. Each turns one request's data into a prompt, a statement, a layout or a
  price, in the request's coroutine or in a worker thread that it waits for, and
  what it computes is text: a state machine of it would restate its formatting.
  That is why the models cover the run, gate, session and pool code closely and
  only a small share of all lines.
