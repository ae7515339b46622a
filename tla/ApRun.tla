------------------------------- MODULE ApRun -------------------------------
(***************************************************************************)
(* AP document jobs: ApSkillRunner.run (src/app/ap_skills/runner.py) over  *)
(* the tenant tables ap_runs, ap_skill_artifacts and ap_credit_ledger      *)
(* (src/app/ap_skills/store.py, tenant_db.py), with the three external     *)
(* effects a job has: credits charged, the workflow advanced, and the      *)
(* status last shown on the ticket.                                        *)
(*                                                                         *)
(* Each element of Requests is one POST /chat document job.  All jobs run  *)
(* in one event loop; another job can run at every await, so there is one  *)
(* action per awaited call that reads or writes shared state.  A job       *)
(* inserts at most one ap_runs row, so the row is named by its job.        *)
(*                                                                         *)
(* Abstracted: tenants (each has its own database: Items are the pairs     *)
(* tenant/item), the contents of artifacts (only which run wrote them, and *)
(* how the move-next call ended), "completed_low_confidence" (treated like *)
(* "completed" by every reader of the column), the metadata push of a      *)
(* skill, and the intermediate percentages of the progress reporter.       *)
(***************************************************************************)
EXTENDS Integers, Sequences, FiniteSets

CONSTANTS
  Requests,       \* document jobs submitted over the system's life
  Items,          \* item keys (resolve_item_key)
  DefaultPlans,   \* skill orders a job without payload.skills may resolve to
  ExplicitPlans,  \* skill lists a caller may ask for
  Finalize,       \* "finalize_decision"
  MoveNext,       \* "workflow_move_next"
  Progress,       \* "workflow_progress"
  Live,           \* whether the EZOFIS client has a login to charge with
  Window,         \* ap_dedupe_window_seconds, in ticks
  FaultKinds,     \* which faults may happen: a subset of AllFaults
  MaxFaults,      \* bound on the number of faults of a behaviour
  MaxClock,       \* bound on the clock
  None            \* "no value"

Plans == DefaultPlans \union ExplicitPlans
SkillsOf(p) == {p[n] : n \in DOMAIN p}
Skills == (UNION {SkillsOf(p) : p \in Plans}) \union {Finalize, MoveNext}

AllFaults ==
  {"read",      \* a query fails
   "write",     \* an INSERT or UPDATE fails and changes nothing
   "lost_ack",  \* an INSERT, UPDATE or charge takes effect, its answer is lost
   "hollow",    \* EZOFIS answers 2xx, not "failed", and has charged nothing
   "report",    \* a progress report does not reach EZOFIS
   "crash"}     \* the process dies

ASSUME RequestsAssumption ==
  IsFiniteSet(Requests) /\ None \notin Requests /\ None \notin Items
ASSUME LiveAssumption == Live \in BOOLEAN
ASSUME PlansAssumption == \A p \in Plans : p \in Seq(Skills) /\ Len(p) > 0
ASSUME BoundsAssumption ==
  /\ Window \in Nat /\ MaxFaults \in Nat /\ MaxClock \in Nat
  /\ FaultKinds \subseteq AllFaults

VARIABLES
  pc,        \* pc[r]: where job r is suspended, or how it was answered
  job,       \* job[r]: the local variables of run()
  row,       \* row[r]: the ap_runs row of job r
  stored,    \* stored[i][s]: the job whose ap_skill_artifacts row is the latest
  ledger,    \* rows of ap_credit_ledger
  charges,   \* credits EZOFIS really charged: <<job, position in the plan>>
  move,      \* move[r]: how the move-next call of job r ended
  ticket,    \* ticket[i]: the status last reported on the item's ticket
  clock,     \* now(), for the database and the process alike
  faults     \* faults so far

tables == <<row, stored, ledger>>
outside == <<charges, move, ticket>>
env == <<clock, faults>>
vars == <<pc, job, row, stored, ledger, charges, move, ticket, clock, faults>>

-----------------------------------------------------------------------------
(* Types *)

\* Inside the loop over the skills, with the row inserted.
Executing == {"skill", "save", "charge", "record"}
\* From the INSERT of the row to the answer.
Owning == {"load"} \union Executing \union {"finish", "report", "fail", "failrow"}
Waiting == {"lookup", "dedupe", "create"}
Answered == {"ok", "deduplicated", "conflict", "unavailable", "error", "lost"}
Terminal == {"completed", "failed"}

Rows == [status : {"none", "running"} \union Terminal,
         stamp : Nat, finished : Nat, credits : Nat]
NoRow == [status |-> "none", stamp |-> 0, finished |-> 0, credits |-> 0]

Jobs == [item : Items \union {None},
         kind : {"default", "forced", "explicit"},
         plan : Plans \union {<<>>},
         pos : Nat,                             \* index of the skill at hand
         credits : Nat,                         \* credits_charged
         charge : {"charged", "failed"},        \* charge_status
         ctx : [Skills -> Requests \union {None}], \* ctx.artifacts, by writer
         source : Requests \union {None}]       \* the run a duplicate is given
NoJob == [item |-> None, kind |-> "default", plan |-> <<>>, pos |-> 1,
          credits |-> 0, charge |-> "failed",
          ctx |-> [s \in Skills |-> None], source |-> None]

TypeOK ==
  /\ pc \in [Requests -> {"new"} \union Waiting \union Owning \union Answered]
  /\ job \in [Requests -> Jobs]
  /\ row \in [Requests -> Rows]
  /\ stored \in [Items -> [Skills -> Requests \union {None}]]
  /\ ledger \subseteq (Requests \X Nat \X {"charged", "failed"})
  /\ charges \subseteq (Requests \X Nat)
  /\ move \in [Requests -> {"none", "skipped", "ok", "failed"}]
  /\ ticket \in [Items -> {"none", "working", "completed", "failed"}]
  /\ clock \in Nat
  /\ faults \in Nat

Init ==
  /\ pc = [r \in Requests |-> "new"]
  /\ job = [r \in Requests |-> NoJob]
  /\ row = [r \in Requests |-> NoRow]
  /\ stored = [i \in Items |-> [s \in Skills |-> None]]
  /\ ledger = {}
  /\ charges = {}
  /\ move = [r \in Requests |-> "none"]
  /\ ticket = [i \in Items |-> "none"]
  /\ clock = 0
  /\ faults = 0

-----------------------------------------------------------------------------
(* Helpers *)

Goto(r, label) == pc' = [pc EXCEPT ![r] = label]

Fault(kind) ==
  /\ kind \in FaultKinds
  /\ faults < MaxFaults
  /\ faults' = faults + 1

\* The jobs with an ap_runs row for item i, and the latest by created_at.
RowsOf(i) == {q \in Requests : row[q].status # "none" /\ job[q].item = i}
IsLatest(q, i) ==
  q \in RowsOf(i) /\ \A p \in RowsOf(i) : row[p].stamp <= row[q].stamp

WithinDedupeWindow(q) ==
  Window > 0 /\ clock - row[q].finished \in 0..Window

\* Faulty variant (mutation test): any latest run is good enough.
DedupeHitAnyStatus(q, i) == IsLatest(q, i) /\ WithinDedupeWindow(q)

\* q is the run a default submission for item i is short-circuited to.
DedupeHit(q, i) ==
  IsLatest(q, i) /\ row[q].status = "completed" /\ WithinDedupeWindow(q)

\* Faulty variants (mutation tests): the index was never created; rows whose
\* job is gone are ignored but not closed.
NoActiveIndex(i) == FALSE
ActiveIndexOfLiveJobs(i) ==
  \E q \in Requests : row[q].status = "running" /\ job[q].item = i /\ pc[q] \in Owning

\* The partial unique index ap_runs_tenant_item_active_idx has an entry.
ActiveIndexEntry(i) ==
  \E q \in Requests : row[q].status = "running" /\ job[q].item = i

NextStamp == 1 + Cardinality({q \in Requests : row[q].status # "none"})

SkillAt(r) == job[r].plan[job[r].pos]

\* A progress report is best effort: the ticket shows it, or keeps what it had.
Report(i, status) ==
  \/ /\ ticket' = [ticket EXCEPT ![i] = status]
     /\ UNCHANGED faults
  \/ /\ Fault("report")
     /\ UNCHANGED ticket

-----------------------------------------------------------------------------
(* Before the run exists *)

Submit(r) ==
  /\ pc[r] = "new"
  /\ \E i \in Items, k \in {"default", "forced", "explicit"} :
       /\ job' = [job EXCEPT ![r] = [@ EXCEPT !.item = i, !.kind = k]]
       /\ Goto(r, IF k = "default" THEN "lookup" ELSE "create")
  /\ UNCHANGED <<tables, outside, env>>

\* get_latest_run and the dedupe-window test; a failed lookup reads as no run.
LookupLatest(r) ==
  /\ pc[r] = "lookup"
  /\ \/ \E q \in Requests :
          /\ DedupeHit(q, job[r].item)
          /\ job' = [job EXCEPT ![r].source = q]
          /\ Goto(r, "dedupe")
          /\ UNCHANGED faults
     \/ /\ \A q \in Requests : ~DedupeHit(q, job[r].item)
        /\ Goto(r, "create")
        /\ UNCHANGED <<job, faults>>
     \/ /\ Fault("read")
        /\ Goto(r, "create")
        /\ UNCHANGED job
  /\ UNCHANGED <<tables, outside, clock>>

\* load_artifacts, progress.completed() and the deduplicated answer.
AnswerDuplicate(r) ==
  /\ pc[r] = "dedupe"
  /\ \/ /\ job' = [job EXCEPT ![r].ctx = stored[job[r].item]]
        /\ Report(job[r].item, "completed")
        /\ Goto(r, "deduplicated")
     \/ /\ Fault("read")
        /\ Goto(r, "unavailable")
        /\ UNCHANGED <<job, ticket>>
  /\ UNCHANGED <<tables, charges, move, clock>>

\* resolve_skills and the planner leave nothing to run, or refuse the list.
RefuseSkills(r) ==
  /\ pc[r] = "create"
  /\ Goto(r, "error")
  /\ UNCHANGED <<job, tables, outside, env>>

InsertRow(r) ==
  row' = [row EXCEPT ![r] = [status |-> "running", stamp |-> NextStamp,
                             finished |-> 0, credits |-> 0]]

\* "force" only skips the look-up: from here on such a job is a default one.
KindOnceStarted(kind) == IF kind = "forced" THEN "default" ELSE kind

\* resolve_skills, maybe_reorder, then ApStore.create_run.
CreateRun(r) ==
  /\ pc[r] = "create"
  /\ \E p \in (IF job[r].kind = "explicit" THEN ExplicitPlans ELSE DefaultPlans) :
       job' = [job EXCEPT ![r] = [@ EXCEPT !.plan = p, !.kind = KindOnceStarted(job[r].kind)]]
  /\ \/ /\ ~ActiveIndexEntry(job[r].item)
        /\ InsertRow(r)
        /\ Goto(r, "load")
        /\ UNCHANGED faults
     \/ /\ ActiveIndexEntry(job[r].item)
        /\ Goto(r, "conflict")
        /\ UNCHANGED <<row, faults>>
     \/ /\ Fault("write")
        /\ Goto(r, "unavailable")
        /\ UNCHANGED row
     \/ /\ ~ActiveIndexEntry(job[r].item)
        /\ Fault("lost_ack")
        /\ InsertRow(r)
        /\ Goto(r, "unavailable")
  /\ UNCHANGED <<stored, ledger, outside, clock>>

\* load_artifacts right after the INSERT, outside the try block of run().
LoadArtifacts(r) ==
  /\ pc[r] = "load"
  /\ \/ /\ job' = [job EXCEPT ![r].ctx = stored[job[r].item]]
        /\ Goto(r, "skill")
        /\ UNCHANGED faults
     \/ /\ Fault("read")
        /\ Goto(r, "unavailable")
        /\ UNCHANGED job
  /\ UNCHANGED <<tables, outside, clock>>

-----------------------------------------------------------------------------
(* The loop over the skills *)

\* The handler of a skill other than move-next returned.
SkillReturns(r) ==
  /\ SkillAt(r) # MoveNext
  /\ UNCHANGED move

\* workflow_move_next: skipped without a finalize artifact (or for a reason
\* of the job's own data); otherwise EZOFIS is called, and the call is taken
\* as failed on an error and on "not advanced" alike.
MoveNextReturns(r) ==
  /\ SkillAt(r) = MoveNext
  /\ \E outcome \in (IF job[r].ctx[Finalize] = None THEN {"skipped"}
                     ELSE {"skipped", "ok", "failed"}) :
       move' = [move EXCEPT ![r] = outcome]

\* before_skill reports progress, the handler runs and its artifact enters ctx.
RunSkill(r) ==
  /\ pc[r] = "skill"
  /\ Report(job[r].item, "working")
  /\ \/ /\ SkillReturns(r) \/ MoveNextReturns(r)
        /\ job' = [job EXCEPT ![r].ctx[SkillAt(r)] = r]
        /\ Goto(r, "save")
     \/ /\ Goto(r, "fail")
        /\ UNCHANGED <<job, move>>
  /\ UNCHANGED <<tables, charges, clock>>

\* A skill costs its credit unless its result says credits=0: a skipped
\* move-next, and workflow_progress, which the runner always has skip itself.
IsCharged(r) ==
  SkillAt(r) # Progress /\ ~(SkillAt(r) = MoveNext /\ move[r] = "skipped")

\* Faulty variants (mutation tests): the loop stops one skill early; the loop
\* never leaves a skill.
NextSkillShort(r, credits) ==
  IF job[r].pos < Len(job[r].plan) - 1
  THEN /\ job' = [job EXCEPT ![r] = [@ EXCEPT !.pos = job[r].pos + 1, !.credits = credits]]
       /\ Goto(r, "skill")
  ELSE /\ job' = [job EXCEPT ![r].credits = credits]
       /\ Goto(r, "finish")
NextSkillStuck(r, credits) ==
  /\ UNCHANGED job
  /\ Goto(r, "skill")

NextSkill(r, credits) ==
  IF job[r].pos < Len(job[r].plan)
  THEN /\ job' = [job EXCEPT ![r] = [@ EXCEPT !.pos = job[r].pos + 1, !.credits = credits]]
       /\ Goto(r, "skill")
  ELSE /\ job' = [job EXCEPT ![r].credits = credits]
       /\ Goto(r, "finish")

AfterSave(r) ==
  \/ /\ IsCharged(r)
     /\ Goto(r, "charge")
     /\ UNCHANGED job
  \/ /\ ~IsCharged(r)
     /\ NextSkill(r, job[r].credits)

\* save_artifact: a failure is logged and the loop goes on.
SaveArtifact(r) ==
  /\ pc[r] = "save"
  /\ \/ /\ stored' = [stored EXCEPT ![job[r].item][SkillAt(r)] = r]
        /\ UNCHANGED faults \/ Fault("lost_ack")
     \/ /\ Fault("write")
        /\ UNCHANGED stored
  /\ AfterSave(r)
  /\ UNCHANGED <<row, ledger, outside, clock>>

\* Without a login the client answers "mocked", which counts as charged.
ChargeAccepted(r) ==
  /\ job' = [job EXCEPT ![r].charge = "charged"]
  /\ charges' = IF Live THEN charges \union {<<r, job[r].pos>>} ELSE charges
  /\ UNCHANGED faults

\* So does any 2xx answer whose body does not say "failed".
ChargeHollow(r) ==
  /\ Live
  /\ Fault("hollow")
  /\ job' = [job EXCEPT ![r].charge = "charged"]
  /\ UNCHANGED charges

\* Faulty variant (mutation test): a refusal is taken for a charge.
ChargeRefusedUnnoticed(r) ==
  /\ Live
  /\ job' = [job EXCEPT ![r].charge = "charged"]
  /\ UNCHANGED <<charges, faults>>

ChargeRefused(r) ==
  /\ Live
  /\ job' = [job EXCEPT ![r].charge = "failed"]
  /\ UNCHANGED <<charges, faults>>

ChargeUnanswered(r) ==
  /\ Live
  /\ Fault("lost_ack")
  /\ job' = [job EXCEPT ![r].charge = "failed"]
  /\ charges' = charges \union {<<r, job[r].pos>>}

\* _charge: a refusal and a lost answer are both "failed", every other answer
\* is "charged", whatever EZOFIS did.
Charge(r) ==
  /\ pc[r] = "charge"
  /\ ChargeAccepted(r) \/ ChargeHollow(r) \/ ChargeRefused(r) \/ ChargeUnanswered(r)
  /\ Goto(r, "record")
  /\ UNCHANGED <<tables, move, ticket, clock>>

\* Faulty variant (mutation test): one ledger row per run.
LedgerRowOncePerRun(r) ==
  IF job[r].credits = 0 THEN {<<r, job[r].pos, job[r].charge>>} ELSE {}

LedgerRow(r) == {<<r, job[r].pos, job[r].charge>>}

\* record_credit: a failure is logged and the credit still counted.
RecordCredit(r) ==
  /\ pc[r] = "record"
  /\ \/ /\ ledger' = ledger \union LedgerRow(r)
        /\ UNCHANGED faults \/ Fault("lost_ack")
     \/ /\ Fault("write")
        /\ UNCHANGED ledger
  /\ NextSkill(r, job[r].credits + 1)
  /\ UNCHANGED <<row, stored, outside, clock>>

-----------------------------------------------------------------------------
(* The end of a run *)

\* Faulty variant (mutation test): the verdict reads the table, not ctx.
MoveFailedFromStore(r) ==
  LET q == stored[job[r].item][MoveNext] IN q # None /\ move[q] = "failed"

\* The move-next artifact run() finds in ctx: this run's or a stored one.
MoveFailed(r) ==
  job[r].ctx[MoveNext] # None /\ move[job[r].ctx[MoveNext]] = "failed"

\* Faulty variant (mutation test): a run that got here is "completed".
VerdictIgnoresMove(r) == "completed"

Verdict(r) == IF MoveFailed(r) THEN "failed" ELSE "completed"

\* Faulty variants (mutation tests): finished_at stays NULL; a failed run
\* reports no credits; the status is not written.
UpdateRowUnfinished(r, status) ==
  row' = [row EXCEPT ![r] = [@ EXCEPT !.status = status, !.finished = None,
                                      !.credits = job[r].credits]]
UpdateRowFailedFree(r, status) ==
  row' = [row EXCEPT ![r] = [@ EXCEPT !.status = status, !.finished = clock,
                               !.credits = IF status = "failed" THEN 0 ELSE job[r].credits]]
UpdateRowNoStatus(r, status) ==
  row' = [row EXCEPT ![r] = [@ EXCEPT !.finished = clock, !.credits = job[r].credits]]

UpdateRow(r, status) ==
  row' = [row EXCEPT ![r] = [@ EXCEPT !.status = status, !.finished = clock,
                                      !.credits = job[r].credits]]

FinishRun(r) ==
  /\ pc[r] = "finish"
  /\ \/ /\ UpdateRow(r, Verdict(r))
        /\ Goto(r, "report")
        /\ UNCHANGED faults
     \/ /\ Fault("write")
        /\ Goto(r, "fail")
        /\ UNCHANGED row
     \/ /\ Fault("lost_ack")
        /\ UpdateRow(r, Verdict(r))
        /\ Goto(r, "fail")
  /\ UNCHANGED <<job, stored, ledger, outside, clock>>

\* Faulty variant (mutation test): a progress report that fails raises.
ReportVerdictRaises(r) ==
  /\ pc[r] = "report"
  /\ \/ /\ Report(job[r].item, Verdict(r))
        /\ Goto(r, "ok")
     \/ /\ Goto(r, "fail")
        /\ UNCHANGED <<ticket, faults>>
  /\ UNCHANGED <<job, tables, charges, move, clock>>

ReportVerdict(r) ==
  /\ pc[r] = "report"
  /\ Report(job[r].item, Verdict(r))
  /\ Goto(r, "ok")
  /\ UNCHANGED <<job, tables, charges, move, clock>>

\* The except branch: progress.failed(), then finish_run("failed").
ReportFailure(r) ==
  /\ pc[r] = "fail"
  /\ Report(job[r].item, "failed")
  /\ Goto(r, "failrow")
  /\ UNCHANGED <<job, tables, charges, move, clock>>

MarkFailed(r) ==
  /\ pc[r] = "failrow"
  /\ \/ /\ UpdateRow(r, "failed")
        /\ UNCHANGED faults \/ Fault("lost_ack")
     \/ /\ Fault("write")
        /\ UNCHANGED row
  /\ Goto(r, "error")
  /\ UNCHANGED <<job, stored, ledger, outside, clock>>

-----------------------------------------------------------------------------
(* The environment *)

InFlight(r) == pc[r] \in Waiting \union Owning

\* The process dies: every job in flight is gone, the database stays.
Crash ==
  /\ \E r \in Requests : InFlight(r)
  /\ Fault("crash")
  /\ pc' = [r \in Requests |-> IF InFlight(r) THEN "lost" ELSE pc[r]]
  /\ UNCHANGED <<job, tables, outside, clock>>

Tick ==
  /\ clock < MaxClock
  /\ clock' = clock + 1
  /\ UNCHANGED <<pc, job, tables, outside, faults>>

Step(r) ==
  \/ LookupLatest(r) \/ AnswerDuplicate(r) \/ RefuseSkills(r) \/ CreateRun(r)
  \/ LoadArtifacts(r) \/ RunSkill(r) \/ SaveArtifact(r) \/ Charge(r)
  \/ RecordCredit(r) \/ FinishRun(r) \/ ReportVerdict(r)
  \/ ReportFailure(r) \/ MarkFailed(r)

Next ==
  \/ \E r \in Requests : Submit(r) \/ Step(r)
  \/ Crash
  \/ Tick

Spec == Init /\ [][Next]_vars

\* The event loop resumes every suspended job, and every awaited call ends
\* (the HTTP client, asyncpg and the LLM calls all have timeouts).
FairSpec == Spec /\ \A r \in Requests : WF_vars(Step(r))
-----------------------------------------------------------------------------
(* Properties *)

\* Two jobs never run skills on the same item at the same time: between the
\* INSERT of ap_runs and finish_run a job has the item to itself, so credits
\* are not charged and the workflow is not advanced by two jobs at once.
SkillExclusion ==
  \A r, q \in Requests :
    (r # q /\ pc[r] \in Executing /\ pc[q] \in Executing)
      => job[r].item # job[q].item

\* A row says "completed" only if every skill of the plan ran in that very
\* run, its move-next did not fail, and the credits counted are one for each
\* skill but workflow_progress and a move-next that was skipped.
CompletedRunIsWhole ==
  \A r \in Requests :
    row[r].status = "completed" =>
      /\ \A s \in SkillsOf(job[r].plan) : job[r].ctx[s] = r
      /\ move[r] # "failed"
      /\ LET free == {Progress} \union (IF move[r] = "skipped" THEN {MoveNext} ELSE {})
         IN  row[r].credits = Cardinality({n \in DOMAIN job[r].plan : job[r].plan[n] \notin free})

\* The credits a finished row reports are never fewer than those EZOFIS
\* charged for the run, also when the run failed or the ledger write failed.
BillingNeverUnderReported ==
  \A r \in Requests :
    row[r].status \in Terminal =>
      Cardinality({c \in charges : c[1] = r}) <= row[r].credits

\* What a ledger row says of its credit is what EZOFIS did with it, both ways:
\* each row that is wrong took a fault of its own (a lost answer booked as
\* "failed", a hollow one as "charged").  Nothing is promised without a login:
\* then every row says "charged" and nothing is.
LedgerIsHonest ==
  LET wrong == {e \in ledger : (e[3] = "charged") # (<<e[1], e[2]>> \in charges)}
  IN  Live => Cardinality(wrong) <= faults

\* A charged credit has its ledger row, unless the job is just before the
\* write (or died there), or the write failed: one fault per missing row.
LedgerGapsAreFaults ==
  LET missing == {c \in charges : \A e \in ledger : <<e[1], e[2]>> # c}
      exposed == {c \in missing : pc[c[1]] \in {"record", "lost"}}
  IN  Cardinality(missing \ exposed) <= faults

\* How a job was answered agrees with its row: "ok" means the row is final, a
\* conflict or a duplicate inserted nothing, and a row is left "running" for
\* good only after a fault, by a job that was told it failed or a process that
\* died; without one the row of every job answered is final and the item free.
AnswerMatchesRow ==
  \A r \in Requests :
    /\ pc[r] = "ok" => row[r].status \in Terminal
    /\ pc[r] \in {"conflict", "deduplicated"} => row[r].status = "none"
    /\ row[r].status = "running" =>
         pc[r] \in Owning \/ (pc[r] \in {"unavailable", "error", "lost"} /\ faults > 0)

\* A duplicate is answered with another job's completed run for its own item.
\* The only way that run is no longer "completed" is the owner's except
\* branch, after the answer to its finish_run was lost.
DuplicateGetsCompletedRun ==
  \A r \in Requests :
    pc[r] \in {"dedupe", "deduplicated"} =>
      LET q == job[r].source
      IN  /\ q \in RowsOf(job[r].item) \ {r}
          /\ \/ row[q].status = "completed"
             \/ row[q].status = "failed" /\ pc[q] = "error" /\ faults > 0

\* What a run of the default pipeline posts to the workflow is its own
\* decision, made after every skill its order puts before move-next ran in
\* that very run; and it ends "failed" only if its own move-next call failed.
\* Artifacts of skills outside the default order (gl_match, grn_match,
\* matter_validate, po_lookup_*) may still be an earlier run's.
DefaultRunPostsOwnDecision ==
  \A r \in Requests :
    (job[r].kind # "explicit" /\ row[r].status # "none") =>
      /\ move[r] \in {"ok", "failed"} =>
           /\ job[r].ctx[Finalize] = r
           /\ \A m, n \in DOMAIN job[r].plan :
                job[r].plan[n] = MoveNext /\ m < n => job[r].ctx[job[r].plan[m]] = r
      /\ (pc[r] = "ok" /\ row[r].status = "failed") => move[r] = "failed"

\* The ticket shows COMPLETED only if some run of the item got to its end
\* with a move-next call that did not fail ("not fake COMPLETED").
NoFakeCompleted ==
  \A i \in Items :
    ticket[i] = "completed" =>
      \E q \in RowsOf(i) : row[q].status \in Terminal /\ move[q] # "failed"
                              /\ SkillsOf(job[q].plan) \subseteq
                                   {s \in Skills : job[q].ctx[s] = q}

\* A finished row is never written again, but by the except branch of its own
\* job, and that takes a fault; it never goes back to "running".
FinalRowIsFinal ==
  [][\A r \in Requests :
       (row[r].status \in Terminal /\ row'[r] # row[r]) =>
         pc[r] = "failrow" /\ faults > 0 /\ row'[r].status = "failed"]_vars

\* The rows implement the lease of ItemLease: the holder of an item is the job
\* whose row is "running".
holder == [i \in Items |->
             IF ActiveIndexEntry(i)
             THEN CHOOSE r \in Requests : row[r].status = "running" /\ job[r].item = i
             ELSE None]
used == {r \in Requests : row[r].status # "none"}
Lease == INSTANCE ItemLease WITH Holders <- Requests
RunsAreLeases == Lease!Spec

\* Every submitted job is eventually answered (or lost in a crash).
EveryJobAnswered ==
  \A r \in Requests : pc[r] # "new" ~> pc[r] \in Answered

-----------------------------------------------------------------------------
(* Statements of the repository that the code does not keep *)

\* types.py: ApRunInProgressError is raised for "a genuinely concurrent
\* duplicate submission (a retry that arrived while the first attempt is
\* still in flight)".
ConflictMeansInFlight ==
  [][\A r \in Requests :
       (pc[r] = "create" /\ pc'[r] = "conflict") =>
         \E q \in Requests : q # r /\ pc[q] \in Owning /\ job[q].item = job[r].item]_vars

\* runner.py: a duplicate of the default pipeline "shortly after a prior run
\* already completed" is short-circuited, and a "genuinely concurrent
\* duplicate" is refused by the index, so the item is not run twice.
NoRerunInsideWindow ==
  [][\A r \in Requests :
       (job[r].kind = "default" /\ row[r].status = "none" /\ row'[r].status = "running") =>
         \A q \in Requests : ~DedupeHit(q, job[r].item)]_vars
=============================================================================
