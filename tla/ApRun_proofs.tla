--------------------------- MODULE ApRun_proofs ---------------------------
(***************************************************************************)
(* Proofs about ApRun, for any set of jobs, items, plans and fault kinds:  *)
(* type correctness, that two jobs never run skills on one item at once,   *)
(* and that the rows implement the lease of ItemLease.                     *)
(*                                                                         *)
(* SkillExclusion alone is not inductive.  IInv ties it to the table: a    *)
(* job that runs skills has a "running" row, the unique index keeps        *)
(* "running" rows of one item apart, and the item of a job is fixed before *)
(* its row exists.                                                         *)
(***************************************************************************)
EXTENDS ApRun, FiniteSetTheorems, TLAPS

\* Before the INSERT, and after an answer that inserted nothing.
Rowless == {"new"} \union Waiting \union {"conflict", "deduplicated"}

\* Between the INSERT and the UPDATE by finish_run.
Holding == {"load"} \union Executing \union {"finish"}

\* After finish_run returned, and in the except branch of run().
Ended == {"report", "ok"}
Failing == {"fail", "failrow"}

\* Answered, and nobody is left to close the row.
Abandoned == {"unavailable", "error", "lost"}

\* The item of a submitted job is known.
ItemKnown == \A r \in Requests : pc[r] # "new" => job[r].item \in Items

\* The row agrees with where the job is.
RowFollowsJob ==
  \A r \in Requests :
    /\ pc[r] \in Rowless => row[r].status = "none"
    /\ pc[r] \in Holding => row[r].status = "running"
    /\ pc[r] \in Ended => row[r].status \in Terminal
    /\ pc[r] \in Failing => row[r].status # "none"

\* It takes a fault to bring the except branch to a finished row, or to leave
\* a "running" row behind.
FailedAfterFault ==
  \A r \in Requests :
    /\ (pc[r] \in Failing /\ row[r].status \in Terminal) => faults > 0
    /\ (pc[r] \in Abandoned /\ row[r].status = "running") => faults > 0

\* What the unique index enforces.
OneRunningRow ==
  \A r, q \in Requests :
    (row[r].status = "running" /\ row[q].status = "running" /\ job[r].item = job[q].item)
      => r = q

IInv == TypeOK /\ ItemKnown /\ RowFollowsJob /\ FailedAfterFault /\ OneRunningRow

-----------------------------------------------------------------------------
(* Types of the updates *)

\* The rows that exist are finitely many, so created_at stamps are numbers.
LEMMA StampIsNat == NextStamp \in Nat
<1>1. IsFiniteSet({q \in Requests : row[q].status # "none"})
  BY RequestsAssumption, FS_Subset
<1> QED
  BY <1>1, FS_CardinalityType DEF NextStamp

\* One job's local variables replaced by others of the right type.
LEMMA JobUpdate ==
  ASSUME job \in [Requests -> Jobs], NEW r \in Requests, NEW j \in Jobs, j.item = job[r].item,
         job' = [job EXCEPT ![r] = j]
  PROVE  /\ job' \in [Requests -> Jobs]
         /\ \A q \in Requests : job'[q].item = job[q].item
OBVIOUS

\* The two ways the loop leaves a skill change neither the type nor the item.
LEMMA LoopUpdate ==
  ASSUME NEW j \in Jobs, NEW n \in Nat, NEW c \in Nat
  PROVE  /\ [j EXCEPT !.pos = n, !.credits = c] \in Jobs
         /\ [j EXCEPT !.pos = n, !.credits = c].item = j.item
         /\ [j EXCEPT !.credits = c] \in Jobs
         /\ [j EXCEPT !.credits = c].item = j.item
BY DEF Jobs

\* Moving on to the next skill keeps the local variables well typed and the
\* item of every job.
LEMMA NextSkillType ==
  ASSUME TypeOK, NEW r \in Requests, NEW c \in Nat, NextSkill(r, c)
  PROVE  /\ job' \in [Requests -> Jobs]
         /\ \A q \in Requests : job'[q].item = job[q].item
         /\ pc' \in {[pc EXCEPT ![r] = "skill"], [pc EXCEPT ![r] = "finish"]}
<1>1. job[r] \in Jobs /\ job \in [Requests -> Jobs]
  BY DEF TypeOK
<1>2. job[r].pos \in Nat /\ job[r].pos + 1 \in Nat
  BY <1>1 DEF Jobs
<1>3. CASE job[r].pos < Len(job[r].plan)
  <2>1. job' = [job EXCEPT ![r] = [job[r] EXCEPT !.pos = job[r].pos + 1, !.credits = c]]
    BY <1>1, <1>3 DEF NextSkill
  <2>2. pc' = [pc EXCEPT ![r] = "skill"]
    BY <1>3 DEF NextSkill, Goto
  <2>3. /\ [job[r] EXCEPT !.pos = job[r].pos + 1, !.credits = c] \in Jobs
        /\ [job[r] EXCEPT !.pos = job[r].pos + 1, !.credits = c].item = job[r].item
    BY <1>1, <1>2, LoopUpdate
  <2> QED
    BY <1>1, <2>1, <2>2, <2>3, JobUpdate
<1>4. CASE ~(job[r].pos < Len(job[r].plan))
  <2>1. job' = [job EXCEPT ![r] = [job[r] EXCEPT !.credits = c]]
    BY <1>1, <1>4 DEF NextSkill
  <2>2. pc' = [pc EXCEPT ![r] = "finish"]
    BY <1>4 DEF NextSkill, Goto
  <2>3. /\ [job[r] EXCEPT !.credits = c] \in Jobs
        /\ [job[r] EXCEPT !.credits = c].item = job[r].item
    BY <1>1, <1>2, LoopUpdate
  <2> QED
    BY <1>1, <2>1, <2>2, <2>3, JobUpdate
<1> QED
  BY <1>3, <1>4

\* finish_run writes a well-typed row and keeps its created_at stamp.
LEMMA UpdateRowType ==
  ASSUME TypeOK, NEW r \in Requests, NEW st \in Terminal, UpdateRow(r, st)
  PROVE  /\ row' \in [Requests -> Rows]
         /\ row'[r].status = st
         /\ \A q \in Requests \ {r} : row'[q] = row[q]
<1>1. row[r] \in Rows /\ job[r] \in Jobs
  BY DEF TypeOK
<1>2. [row[r] EXCEPT !.status = st, !.finished = clock, !.credits = job[r].credits] \in Rows
  BY <1>1 DEF TypeOK, Rows, Jobs
<1> QED
  BY <1>1, <1>2 DEF TypeOK, UpdateRow, Rows

-----------------------------------------------------------------------------
(* The inductive invariant *)

\* The invariant holds initially.
LEMMA InitIInv == Init => IInv
<1> SUFFICES ASSUME Init PROVE IInv
  OBVIOUS
<1>1. NoJob \in Jobs
  BY DEF NoJob, Jobs
<1>2. NoRow \in Rows
  BY DEF NoRow, Rows
<1>3. TypeOK
  BY <1>1, <1>2 DEF Init, TypeOK
<1>4. ItemKnown /\ RowFollowsJob /\ FailedAfterFault /\ OneRunningRow
  BY DEF Init, ItemKnown, RowFollowsJob, FailedAfterFault, OneRunningRow, NoRow,
         Rowless, Holding, Executing, Ended, Failing, Abandoned
<1> QED
  BY <1>3, <1>4 DEF IInv

\* What the rows of two states have to do with each other when no row is
\* written: the job moves between labels that say the same of its row.
LEMMA QuietStep ==
  ASSUME IInv, NEW r \in Requests, NEW label,
         pc' = [pc EXCEPT ![r] = label], row' = row, faults' \in {faults, faults + 1},
         \A q \in Requests : job'[q].item = job[q].item, pc[r] # "new",
         label \in Rowless => row[r].status = "none",
         label \in Holding => row[r].status = "running",
         label \in Ended => row[r].status \in Terminal,
         label \in Failing /\ row[r].status \in Terminal => faults' > 0,
         label \in Abandoned /\ row[r].status = "running" => faults' > 0,
         label \in Failing => row[r].status # "none"
  PROVE  ItemKnown' /\ RowFollowsJob' /\ FailedAfterFault' /\ OneRunningRow'
<1>1. /\ pc'[r] = label
      /\ \A q \in Requests \ {r} : pc'[q] = pc[q]
  BY DEF IInv, TypeOK
<1>2. ItemKnown'
  BY <1>1 DEF IInv, ItemKnown
<1>3. RowFollowsJob'
  BY <1>1 DEF IInv, RowFollowsJob
<1>4. FailedAfterFault'
  <2>1. faults \in Nat /\ faults' \in Nat /\ (faults > 0 => faults' > 0)
    BY DEF IInv, TypeOK
  <2> QED
    BY <1>1, <2>1 DEF IInv, FailedAfterFault
<1>5. OneRunningRow'
  BY DEF IInv, OneRunningRow
<1> QED
  BY <1>2, <1>3, <1>4, <1>5

\* The same when job r writes a final status into its own row.
LEMMA ClosingStep ==
  ASSUME IInv, NEW r \in Requests, NEW label, NEW st \in Terminal,
         pc' = [pc EXCEPT ![r] = label], UpdateRow(r, st), job' = job,
         faults' \in {faults, faults + 1}, pc[r] # "new",
         label \notin Rowless \union Holding,
         label \in Failing => faults' > 0
  PROVE  ItemKnown' /\ RowFollowsJob' /\ FailedAfterFault' /\ OneRunningRow'
<1>1. /\ pc'[r] = label
      /\ \A q \in Requests \ {r} : pc'[q] = pc[q]
  BY DEF IInv, TypeOK
<1>2. /\ row'[r].status = st
      /\ \A q \in Requests \ {r} : row'[q] = row[q]
  BY UpdateRowType DEF IInv
<1>3. st # "none" /\ st # "running"
  BY DEF Terminal
<1>4. ItemKnown'
  BY <1>1 DEF IInv, ItemKnown
<1>5. RowFollowsJob'
  BY <1>1, <1>2, <1>3 DEF IInv, RowFollowsJob
<1>6. FailedAfterFault'
  <2>1. faults \in Nat /\ faults' \in Nat /\ (faults > 0 => faults' > 0)
    BY DEF IInv, TypeOK
  <2> QED
    BY <1>1, <1>2, <1>3, <2>1 DEF IInv, FailedAfterFault
<1>7. OneRunningRow'
  BY <1>2, <1>3 DEF IInv, OneRunningRow
<1> QED
  BY <1>4, <1>5, <1>6, <1>7

\* A progress report changes at most the item's ticket and the fault count.
LEMMA ReportType ==
  ASSUME TypeOK, NEW i \in Items, NEW status \in {"working", "completed", "failed"},
         Report(i, status)
  PROVE  /\ ticket' \in [Items -> {"none", "working", "completed", "failed"}]
         /\ faults' \in {faults, faults + 1}
         /\ faults' \in Nat
BY DEF TypeOK, Report, Fault

-----------------------------------------------------------------------------
(* One lemma per action: it preserves the invariant. *)

USE DEF tables, outside, env

\* Submit fixes the item of a job that has no row yet.
LEMMA SubmitStep == ASSUME IInv, NEW r \in Requests, Submit(r) PROVE IInv'
<1>1. PICK i \in Items, k \in {"default", "forced", "explicit"} :
        /\ job' = [job EXCEPT ![r] = [job[r] EXCEPT !.item = i, !.kind = k]]
        /\ Goto(r, IF k = "default" THEN "lookup" ELSE "create")
  BY DEF Submit, IInv, TypeOK
<1>2. job[r] \in Jobs /\ pc[r] = "new" /\ row[r].status = "none"
  BY DEF Submit, IInv, TypeOK, RowFollowsJob, Rowless
<1>3. [job[r] EXCEPT !.item = i, !.kind = k] \in Jobs
  BY <1>2 DEF Jobs
<1>4. /\ job' \in [Requests -> Jobs]
      /\ job'[r].item = i
      /\ \A q \in Requests \ {r} : job'[q] = job[q]
  BY <1>1, <1>2, <1>3 DEF IInv, TypeOK, Jobs
<1>5. PICK label \in Waiting : pc' = [pc EXCEPT ![r] = label]
  BY <1>1 DEF Goto, Waiting
<1>6. UNCHANGED <<row, stored, ledger, charges, move, ticket, clock, faults>>
  BY DEF Submit
<1>7. TypeOK'
  BY <1>4, <1>5, <1>6 DEF IInv, TypeOK
<1>8. /\ pc'[r] = label
      /\ \A q \in Requests \ {r} : pc'[q] = pc[q]
  BY <1>5 DEF IInv, TypeOK
<1>9. label \in Rowless /\ label \notin Holding \union Ended \union Failing \union Abandoned
  BY DEF Waiting, Rowless, Holding, Executing, Ended, Failing, Abandoned
<1>10. ItemKnown'
  BY <1>4, <1>8 DEF IInv, ItemKnown
<1>11. RowFollowsJob' /\ FailedAfterFault'
  BY <1>2, <1>6, <1>8, <1>9 DEF IInv, RowFollowsJob, FailedAfterFault
<1>12. OneRunningRow'
  BY <1>2, <1>4, <1>6 DEF IInv, OneRunningRow
<1> QED
  BY <1>7, <1>10, <1>11, <1>12 DEF IInv

\* The lookup leads to the deduplicated answer or to the INSERT.
LEMMA LookupLatestStep == ASSUME IInv, NEW r \in Requests, LookupLatest(r) PROVE IInv'
<1>1. job[r] \in Jobs /\ pc[r] = "lookup" /\ row[r].status = "none"
  BY DEF LookupLatest, IInv, TypeOK, RowFollowsJob, Rowless, Waiting
<1>2. /\ job' \in [Requests -> Jobs]
      /\ \A q \in Requests : job'[q].item = job[q].item
  <2>1. CASE job' = job
    BY <2>1 DEF IInv, TypeOK
  <2>2. CASE \E q \in Requests : job' = [job EXCEPT ![r].source = q]
    <3>1. PICK q \in Requests : job' = [job EXCEPT ![r] = [job[r] EXCEPT !.source = q]]
      BY <2>2 DEF IInv, TypeOK
    <3>2. /\ [job[r] EXCEPT !.source = q] \in Jobs
          /\ [job[r] EXCEPT !.source = q].item = job[r].item
      BY <1>1 DEF Jobs
    <3> QED
      BY <3>1, <3>2, JobUpdate DEF IInv, TypeOK
  <2> QED
    BY <2>1, <2>2 DEF LookupLatest
<1>3. PICK label \in {"dedupe", "create"} : pc' = [pc EXCEPT ![r] = label]
  BY DEF LookupLatest, Goto
<1>4. UNCHANGED <<row, stored, ledger, charges, move, ticket, clock>>
  BY DEF LookupLatest
<1>5. faults' \in {faults, faults + 1} /\ faults' \in Nat
  BY DEF LookupLatest, Fault, IInv, TypeOK
<1>6. TypeOK'
  BY <1>2, <1>3, <1>4, <1>5 DEF IInv, TypeOK, Waiting
<1>7. ItemKnown' /\ RowFollowsJob' /\ FailedAfterFault' /\ OneRunningRow'
  BY <1>1, <1>2, <1>3, <1>4, <1>5, QuietStep
     DEF Waiting, Rowless, Holding, Executing, Ended, Failing, Abandoned
<1> QED
  BY <1>6, <1>7 DEF IInv

\* Both jobs that are given the stored artifacts keep their item and their type.
LEMMA TakeArtifacts ==
  ASSUME TypeOK, NEW r \in Requests, job[r].item \in Items,
         job' = [job EXCEPT ![r].ctx = stored[job[r].item]]
  PROVE  /\ job' \in [Requests -> Jobs]
         /\ \A q \in Requests : job'[q].item = job[q].item
<1>1. job[r] \in Jobs /\ job \in [Requests -> Jobs]
  BY DEF TypeOK
<1>2. stored[job[r].item] \in [Skills -> Requests \union {None}]
  BY DEF TypeOK
<1>3. /\ [job[r] EXCEPT !.ctx = stored[job[r].item]] \in Jobs
      /\ [job[r] EXCEPT !.ctx = stored[job[r].item]].item = job[r].item
  BY <1>1, <1>2 DEF Jobs
<1>4. job' = [job EXCEPT ![r] = [job[r] EXCEPT !.ctx = stored[job[r].item]]]
  BY <1>1
<1> QED
  BY <1>1, <1>3, <1>4, JobUpdate

\* A duplicate is answered without touching a row.
LEMMA AnswerDuplicateStep == ASSUME IInv, NEW r \in Requests, AnswerDuplicate(r) PROVE IInv'
<1>1. job[r] \in Jobs /\ pc[r] = "dedupe" /\ row[r].status = "none" /\ job[r].item \in Items
  BY DEF AnswerDuplicate, IInv, TypeOK, ItemKnown, RowFollowsJob, Rowless, Waiting
<1>2. /\ job' \in [Requests -> Jobs]
      /\ \A q \in Requests : job'[q].item = job[q].item
  <2>1. CASE job' = job
    BY <2>1 DEF IInv, TypeOK
  <2>2. CASE job' = [job EXCEPT ![r].ctx = stored[job[r].item]]
    BY <1>1, <2>2, TakeArtifacts DEF IInv
  <2> QED
    BY <2>1, <2>2 DEF AnswerDuplicate
<1>3. PICK label \in {"deduplicated", "unavailable"} : pc' = [pc EXCEPT ![r] = label]
  BY DEF AnswerDuplicate, Goto
<1>4. UNCHANGED <<row, stored, ledger, charges, move, clock>>
  BY DEF AnswerDuplicate
<1>5. /\ ticket' \in [Items -> {"none", "working", "completed", "failed"}]
      /\ faults' \in {faults, faults + 1} /\ faults' \in Nat
  BY <1>1, ReportType DEF AnswerDuplicate, Fault, IInv, TypeOK
<1>6. TypeOK'
  BY <1>2, <1>3, <1>4, <1>5 DEF IInv, TypeOK, Answered
<1>7. ItemKnown' /\ RowFollowsJob' /\ FailedAfterFault' /\ OneRunningRow'
  BY <1>1, <1>2, <1>3, <1>4, <1>5, QuietStep
     DEF Waiting, Rowless, Holding, Executing, Ended, Failing, Abandoned
<1> QED
  BY <1>6, <1>7 DEF IInv

\* A refused list of skills changes nothing but the answer.
LEMMA RefuseSkillsStep == ASSUME IInv, NEW r \in Requests, RefuseSkills(r) PROVE IInv'
<1>1. pc[r] = "create" /\ pc' = [pc EXCEPT ![r] = "error"] /\ row[r].status = "none"
  BY DEF RefuseSkills, Goto, IInv, RowFollowsJob, Rowless, Waiting
<1>2. UNCHANGED <<job, row, stored, ledger, charges, move, ticket, clock, faults>>
  BY DEF RefuseSkills
<1>3. TypeOK'
  BY <1>1, <1>2 DEF IInv, TypeOK, Answered
<1>4. ItemKnown' /\ RowFollowsJob' /\ FailedAfterFault' /\ OneRunningRow'
  BY <1>1, <1>2, QuietStep DEF Rowless, Waiting, Holding, Executing, Ended, Failing, Abandoned
<1> QED
  BY <1>3, <1>4 DEF IInv

\* create_run inserts a row only where the unique index has no entry.
LEMMA CreateRunStep == ASSUME IInv, NEW r \in Requests, CreateRun(r) PROVE IInv'
<1>1. /\ job[r] \in Jobs /\ job[r].item \in Items
      /\ pc[r] = "create" /\ row[r].status = "none"
  BY DEF CreateRun, IInv, TypeOK, ItemKnown, RowFollowsJob, Rowless, Waiting
<1>2. /\ job' \in [Requests -> Jobs]
      /\ \A q \in Requests : job'[q].item = job[q].item
  <2> DEFINE k == KindOnceStarted(job[r].kind)
  <2>1. PICK p \in Plans : job' = [job EXCEPT ![r] = [job[r] EXCEPT !.plan = p, !.kind = k]]
    BY DEF CreateRun, Plans, IInv, TypeOK
  <2>2. k \in {"default", "forced", "explicit"}
    BY <1>1 DEF KindOnceStarted, Jobs
  <2>3. /\ [job[r] EXCEPT !.plan = p, !.kind = k] \in Jobs
        /\ [job[r] EXCEPT !.plan = p, !.kind = k].item = job[r].item
    BY <1>1, <2>2 DEF Jobs
  <2> QED
    BY <2>1, <2>3, JobUpdate DEF IInv, TypeOK
<1>3. UNCHANGED <<stored, ledger, charges, move, ticket, clock>>
  BY DEF CreateRun
<1>4. faults' \in {faults, faults + 1} /\ faults' \in Nat
  BY DEF CreateRun, Fault, IInv, TypeOK
<1>5. CASE row' = row
  <2>1. PICK label \in {"conflict", "unavailable"} : pc' = [pc EXCEPT ![r] = label]
    <3>1. ASSUME InsertRow(r) PROVE FALSE
      <4>1. row'[r].status = "running"
        BY <3>1 DEF InsertRow, IInv, TypeOK
      <4> QED
        BY <1>1, <1>5, <4>1
    <3> QED
      BY <3>1 DEF CreateRun, Goto
  <2>2. TypeOK'
    BY <1>2, <1>3, <1>4, <1>5, <2>1 DEF IInv, TypeOK, Answered
  <2>3. ItemKnown' /\ RowFollowsJob' /\ FailedAfterFault' /\ OneRunningRow'
    BY <1>1, <1>2, <1>4, <1>5, <2>1, QuietStep
       DEF Waiting, Rowless, Holding, Executing, Ended, Failing, Abandoned
  <2> QED
    BY <2>2, <2>3 DEF IInv
<1>6. CASE InsertRow(r) /\ ~ActiveIndexEntry(job[r].item)
  <2>1. PICK label \in {"load", "unavailable"} :
          pc' = [pc EXCEPT ![r] = label] /\ (label = "unavailable" => faults' > 0)
    BY <1>6 DEF CreateRun, Goto, Fault, IInv, TypeOK
  <2>2. [status |-> "running", stamp |-> NextStamp, finished |-> 0, credits |-> 0] \in Rows
    BY StampIsNat DEF Rows
  <2>3. /\ row' \in [Requests -> Rows]
        /\ row'[r].status = "running"
        /\ \A q \in Requests \ {r} : row'[q] = row[q]
    BY <1>6, <2>2 DEF InsertRow, IInv, TypeOK
  <2>4. TypeOK'
    BY <1>2, <1>3, <1>4, <2>1, <2>3 DEF IInv, TypeOK, Owning, Answered
  <2>5. /\ pc'[r] = label /\ label \notin Rowless \union Ended \union Failing
        /\ \A q \in Requests \ {r} : pc'[q] = pc[q]
    BY <2>1 DEF IInv, TypeOK, Rowless, Waiting, Ended, Failing
  <2>6. ItemKnown'
    BY <1>1, <1>2, <2>5 DEF IInv, ItemKnown
  <2>7. RowFollowsJob'
    BY <2>3, <2>5 DEF IInv, RowFollowsJob
  <2>8. FailedAfterFault'
    <3>1. faults > 0 => faults' > 0
      BY <1>4 DEF IInv, TypeOK
    <3> QED
      BY <2>1, <2>3, <2>5, <3>1 DEF IInv, FailedAfterFault, Abandoned
  <2>9. OneRunningRow'
    <3>1. \A q \in Requests \ {r} :
            row'[q].status = "running" => job'[q].item # job'[r].item
      BY <1>2, <1>6, <2>3 DEF ActiveIndexEntry
    <3> QED
      BY <1>2, <2>3, <3>1 DEF IInv, OneRunningRow
  <2> QED
    BY <2>4, <2>6, <2>7, <2>8, <2>9 DEF IInv
<1> QED
  BY <1>5, <1>6 DEF CreateRun

\* The stored artifacts are loaded with the row already inserted.
LEMMA LoadArtifactsStep == ASSUME IInv, NEW r \in Requests, LoadArtifacts(r) PROVE IInv'
<1>1. job[r] \in Jobs /\ pc[r] = "load" /\ row[r].status = "running" /\ job[r].item \in Items
  BY DEF LoadArtifacts, IInv, TypeOK, ItemKnown, RowFollowsJob, Holding
<1>2. /\ job' \in [Requests -> Jobs]
      /\ \A q \in Requests : job'[q].item = job[q].item
  <2>1. CASE job' = job
    BY <2>1 DEF IInv, TypeOK
  <2>2. CASE job' = [job EXCEPT ![r].ctx = stored[job[r].item]]
    BY <1>1, <2>2, TakeArtifacts DEF IInv
  <2> QED
    BY <2>1, <2>2 DEF LoadArtifacts
<1>3. PICK label \in {"skill", "unavailable"} :
        pc' = [pc EXCEPT ![r] = label] /\ (label = "unavailable" => faults' > 0)
  BY DEF LoadArtifacts, Goto, Fault, IInv, TypeOK
<1>4. UNCHANGED <<row, stored, ledger, charges, move, ticket, clock>>
  BY DEF LoadArtifacts
<1>5. faults' \in {faults, faults + 1} /\ faults' \in Nat
  BY DEF LoadArtifacts, Fault, IInv, TypeOK
<1>6. TypeOK'
  BY <1>2, <1>3, <1>4, <1>5 DEF IInv, TypeOK, Owning, Executing, Answered
<1>7. ItemKnown' /\ RowFollowsJob' /\ FailedAfterFault' /\ OneRunningRow'
  BY <1>1, <1>2, <1>3, <1>4, <1>5, QuietStep
     DEF Waiting, Rowless, Holding, Executing, Ended, Failing, Abandoned
<1> QED
  BY <1>6, <1>7 DEF IInv

\* A skill that runs changes its artifact in ctx; one that raises, nothing.
LEMMA RunSkillStep == ASSUME IInv, NEW r \in Requests, RunSkill(r) PROVE IInv'
<1>1. job[r] \in Jobs /\ pc[r] = "skill" /\ row[r].status = "running" /\ job[r].item \in Items
  BY DEF RunSkill, IInv, TypeOK, ItemKnown, RowFollowsJob, Holding, Executing
<1>2. /\ job' \in [Requests -> Jobs]
      /\ \A q \in Requests : job'[q].item = job[q].item
  <2>1. CASE job' = job
    BY <2>1 DEF IInv, TypeOK
  <2>2. CASE job' = [job EXCEPT ![r].ctx[SkillAt(r)] = r]
    <3> DEFINE ctx2 == [job[r].ctx EXCEPT ![SkillAt(r)] = r]
    <3>1. ctx2 \in [Skills -> Requests \union {None}]
      BY <1>1 DEF Jobs
    <3>2. /\ [job[r] EXCEPT !.ctx = ctx2] \in Jobs
          /\ [job[r] EXCEPT !.ctx = ctx2].item = job[r].item
      BY <1>1, <3>1 DEF Jobs
    <3>3. job' = [job EXCEPT ![r] = [job[r] EXCEPT !.ctx = ctx2]]
      BY <2>2 DEF IInv, TypeOK
    <3> QED
      BY <3>2, <3>3, JobUpdate DEF IInv, TypeOK
  <2> QED
    BY <2>1, <2>2 DEF RunSkill
<1>3. PICK label \in {"save", "fail"} : pc' = [pc EXCEPT ![r] = label]
  BY DEF RunSkill, Goto
<1>4. UNCHANGED <<row, stored, ledger, charges, clock>>
  BY DEF RunSkill
<1>5. /\ ticket' \in [Items -> {"none", "working", "completed", "failed"}]
      /\ faults' \in {faults, faults + 1} /\ faults' \in Nat
  BY <1>1, ReportType DEF RunSkill, IInv
<1>6. move' \in [Requests -> {"none", "skipped", "ok", "failed"}]
  BY DEF RunSkill, SkillReturns, MoveNextReturns, IInv, TypeOK
<1>7. TypeOK'
  BY <1>2, <1>3, <1>4, <1>5, <1>6 DEF IInv, TypeOK, Owning, Executing
<1>8. ItemKnown' /\ RowFollowsJob' /\ FailedAfterFault' /\ OneRunningRow'
  BY <1>1, <1>2, <1>3, <1>4, <1>5, QuietStep
     DEF Waiting, Rowless, Holding, Executing, Ended, Failing, Abandoned, Terminal
<1> QED
  BY <1>7, <1>8 DEF IInv

\* An artifact is saved, or not; the loop goes on either way.
LEMMA SaveArtifactStep == ASSUME IInv, NEW r \in Requests, SaveArtifact(r) PROVE IInv'
<1>1. job[r] \in Jobs /\ pc[r] = "save" /\ row[r].status = "running" /\ job[r].item \in Items
  BY DEF SaveArtifact, IInv, TypeOK, ItemKnown, RowFollowsJob, Holding, Executing
<1>2. /\ job' \in [Requests -> Jobs]
      /\ \A q \in Requests : job'[q].item = job[q].item
      /\ pc' \in {[pc EXCEPT ![r] = label] : label \in {"charge", "skill", "finish"}}
  <2>1. CASE Goto(r, "charge") /\ job' = job
    BY <2>1 DEF IInv, TypeOK, Goto
  <2>2. CASE NextSkill(r, job[r].credits)
    BY <1>1, <2>2, NextSkillType DEF IInv, Jobs
  <2> QED
    BY <2>1, <2>2 DEF SaveArtifact, AfterSave
<1>3. PICK label \in {"charge", "skill", "finish"} : pc' = [pc EXCEPT ![r] = label]
  BY <1>2
<1>4. UNCHANGED <<row, ledger, charges, move, ticket, clock>>
  BY DEF SaveArtifact
<1>5. faults' \in {faults, faults + 1} /\ faults' \in Nat
  BY DEF SaveArtifact, Fault, IInv, TypeOK
<1>6. stored' \in [Items -> [Skills -> Requests \union {None}]]
  <2>1. stored \in [Items -> [Skills -> Requests \union {None}]]
    BY DEF IInv, TypeOK
  <2>2. \/ stored' = stored
        \/ stored' = [stored EXCEPT ![job[r].item][SkillAt(r)] = r]
    BY DEF SaveArtifact
  <2> QED
    BY <2>1, <2>2
<1>7. TypeOK'
  BY <1>2, <1>3, <1>4, <1>5, <1>6 DEF IInv, TypeOK, Owning, Executing
<1>8. ItemKnown' /\ RowFollowsJob' /\ FailedAfterFault' /\ OneRunningRow'
  BY <1>1, <1>2, <1>3, <1>4, <1>5, QuietStep
     DEF Waiting, Rowless, Holding, Executing, Ended, Failing, Abandoned
<1> QED
  BY <1>7, <1>8 DEF IInv

\* The charge sets charge_status of its own job.
LEMMA ChargeStep == ASSUME IInv, NEW r \in Requests, Charge(r) PROVE IInv'
<1>1. job[r] \in Jobs /\ pc[r] = "charge" /\ row[r].status = "running"
  BY DEF Charge, IInv, TypeOK, RowFollowsJob, Holding, Executing
<1>2. /\ job' \in [Requests -> Jobs]
      /\ \A q \in Requests : job'[q].item = job[q].item
  <2>1. PICK c \in {"charged", "failed"} : job' = [job EXCEPT ![r] = [job[r] EXCEPT !.charge = c]]
    BY DEF Charge, ChargeAccepted, ChargeHollow, ChargeRefused, ChargeUnanswered, IInv, TypeOK
  <2>2. /\ [job[r] EXCEPT !.charge = c] \in Jobs
        /\ [job[r] EXCEPT !.charge = c].item = job[r].item
    BY <1>1 DEF Jobs
  <2> QED
    BY <2>1, <2>2, JobUpdate DEF IInv, TypeOK
<1>3. pc' = [pc EXCEPT ![r] = "record"]
  BY DEF Charge, Goto
<1>4. UNCHANGED <<row, stored, ledger, move, ticket, clock>>
  BY DEF Charge
<1>5. /\ faults' \in {faults, faults + 1} /\ faults' \in Nat
      /\ charges' \subseteq charges \union {<<r, job[r].pos>>}
  BY DEF Charge, ChargeAccepted, ChargeHollow, ChargeRefused, ChargeUnanswered, Fault, IInv, TypeOK
<1>6. charges' \subseteq Requests \X Nat
  BY <1>1, <1>5 DEF IInv, TypeOK, Jobs
<1>7. TypeOK'
  BY <1>2, <1>3, <1>4, <1>5, <1>6 DEF IInv, TypeOK, Owning, Executing
<1>8. ItemKnown' /\ RowFollowsJob' /\ FailedAfterFault' /\ OneRunningRow'
  BY <1>1, <1>2, <1>3, <1>4, <1>5, QuietStep
     DEF Waiting, Rowless, Holding, Executing, Ended, Failing, Abandoned
<1> QED
  BY <1>7, <1>8 DEF IInv

\* The ledger row is written, or not; the loop goes on either way.
LEMMA RecordCreditStep == ASSUME IInv, NEW r \in Requests, RecordCredit(r) PROVE IInv'
<1>1. job[r] \in Jobs /\ pc[r] = "record" /\ row[r].status = "running"
  BY DEF RecordCredit, IInv, TypeOK, RowFollowsJob, Holding, Executing
<1>2. /\ job' \in [Requests -> Jobs]
      /\ \A q \in Requests : job'[q].item = job[q].item
      /\ pc' \in {[pc EXCEPT ![r] = "skill"], [pc EXCEPT ![r] = "finish"]}
  <2>1. job[r].credits + 1 \in Nat
    BY <1>1 DEF Jobs
  <2> QED
    BY <2>1, NextSkillType DEF RecordCredit, IInv
<1>3. PICK label \in {"skill", "finish"} : pc' = [pc EXCEPT ![r] = label]
  BY <1>2
<1>4. UNCHANGED <<row, stored, charges, move, ticket, clock>>
  BY DEF RecordCredit
<1>5. faults' \in {faults, faults + 1} /\ faults' \in Nat
  BY DEF RecordCredit, Fault, IInv, TypeOK
<1>6. ledger' \subseteq (Requests \X Nat \X {"charged", "failed"})
  <2>1. <<r, job[r].pos, job[r].charge>> \in Requests \X Nat \X {"charged", "failed"}
    BY <1>1 DEF Jobs
  <2> QED
    BY <2>1 DEF RecordCredit, LedgerRow, IInv, TypeOK
<1>7. TypeOK'
  BY <1>2, <1>3, <1>4, <1>5, <1>6 DEF IInv, TypeOK, Owning, Executing
<1>8. ItemKnown' /\ RowFollowsJob' /\ FailedAfterFault' /\ OneRunningRow'
  BY <1>1, <1>2, <1>3, <1>4, <1>5, QuietStep
     DEF Waiting, Rowless, Holding, Executing, Ended, Failing, Abandoned
<1> QED
  BY <1>7, <1>8 DEF IInv

\* finish_run: the row is final, or the except branch takes over.
LEMMA FinishRunStep == ASSUME IInv, NEW r \in Requests, FinishRun(r) PROVE IInv'
<1>1. pc[r] = "finish" /\ row[r].status = "running" /\ Verdict(r) \in Terminal
  BY DEF FinishRun, IInv, RowFollowsJob, Holding, Verdict, Terminal
<1>2. UNCHANGED <<job, stored, ledger, charges, move, ticket, clock>>
  BY DEF FinishRun
<1>3. faults' \in {faults, faults + 1} /\ faults' \in Nat
  BY DEF FinishRun, Fault, IInv, TypeOK
<1>4. row' \in [Requests -> Rows]
  BY <1>1, UpdateRowType DEF FinishRun, IInv, TypeOK
<1>5. PICK label \in {"report", "fail"} : pc' = [pc EXCEPT ![r] = label]
  BY DEF FinishRun, Goto
<1>6. TypeOK'
  BY <1>2, <1>3, <1>4, <1>5 DEF IInv, TypeOK, Owning
<1>7. CASE UpdateRow(r, Verdict(r)) /\ Goto(r, "report") /\ UNCHANGED faults
  <2>1. pc' = [pc EXCEPT ![r] = "report"]
    BY <1>7 DEF Goto
  <2>2. ItemKnown' /\ RowFollowsJob' /\ FailedAfterFault' /\ OneRunningRow'
    BY <1>1, <1>2, <1>3, <1>7, <2>1, ClosingStep
       DEF Rowless, Waiting, Holding, Executing, Failing
  <2> QED
    BY <1>6, <2>2 DEF IInv
<1>8. CASE Goto(r, "fail") /\ row' = row
  <2>1. pc' = [pc EXCEPT ![r] = "fail"]
    BY <1>8 DEF Goto
  <2>2. ItemKnown' /\ RowFollowsJob' /\ FailedAfterFault' /\ OneRunningRow'
    BY <1>1, <1>2, <1>3, <1>8, <2>1, QuietStep
       DEF Rowless, Waiting, Holding, Executing, Ended, Failing, Abandoned, Terminal
  <2> QED
    BY <1>6, <2>2 DEF IInv
<1>9. CASE Fault("lost_ack") /\ UpdateRow(r, Verdict(r)) /\ Goto(r, "fail")
  <2>1. pc' = [pc EXCEPT ![r] = "fail"] /\ faults' > 0
    BY <1>9 DEF Goto, Fault, IInv, TypeOK
  <2>2. ItemKnown' /\ RowFollowsJob' /\ FailedAfterFault' /\ OneRunningRow'
    BY <1>1, <1>2, <1>3, <1>9, <2>1, ClosingStep
       DEF Rowless, Waiting, Holding, Executing, Failing
  <2> QED
    BY <1>6, <2>2 DEF IInv
<1> QED
  BY <1>7, <1>8, <1>9 DEF FinishRun

\* The last report of a run that ended changes only the ticket.
LEMMA ReportVerdictStep == ASSUME IInv, NEW r \in Requests, ReportVerdict(r) PROVE IInv'
<1>1. pc[r] = "report" /\ row[r].status \in Terminal /\ job[r].item \in Items
  BY DEF ReportVerdict, IInv, ItemKnown, RowFollowsJob, Ended
<1>2. UNCHANGED <<job, row, stored, ledger, charges, move, clock>>
  BY DEF ReportVerdict
<1>3. /\ ticket' \in [Items -> {"none", "working", "completed", "failed"}]
      /\ faults' \in {faults, faults + 1} /\ faults' \in Nat
  BY <1>1, ReportType DEF ReportVerdict, Verdict, IInv
<1>4. pc' = [pc EXCEPT ![r] = "ok"]
  BY DEF ReportVerdict, Goto
<1>5. TypeOK'
  BY <1>2, <1>3, <1>4 DEF IInv, TypeOK, Answered
<1>6. ItemKnown' /\ RowFollowsJob' /\ FailedAfterFault' /\ OneRunningRow'
  BY <1>1, <1>2, <1>3, <1>4, QuietStep
     DEF Rowless, Waiting, Holding, Executing, Ended, Failing, Abandoned
<1> QED
  BY <1>5, <1>6 DEF IInv

\* The except branch reports the failure first.
LEMMA ReportFailureStep == ASSUME IInv, NEW r \in Requests, ReportFailure(r) PROVE IInv'
<1>1. /\ pc[r] = "fail" /\ row[r].status # "none" /\ job[r].item \in Items
      /\ row[r].status \in Terminal => faults > 0
  BY DEF ReportFailure, IInv, ItemKnown, RowFollowsJob, FailedAfterFault, Failing
<1>2. UNCHANGED <<job, row, stored, ledger, charges, move, clock>>
  BY DEF ReportFailure
<1>3. /\ ticket' \in [Items -> {"none", "working", "completed", "failed"}]
      /\ faults' \in {faults, faults + 1} /\ faults' \in Nat
      /\ faults > 0 => faults' > 0
  BY <1>1, ReportType DEF ReportFailure, IInv, TypeOK
<1>4. pc' = [pc EXCEPT ![r] = "failrow"]
  BY DEF ReportFailure, Goto
<1>5. TypeOK'
  BY <1>2, <1>3, <1>4 DEF IInv, TypeOK, Owning
<1>6. ItemKnown' /\ RowFollowsJob' /\ FailedAfterFault' /\ OneRunningRow'
  BY <1>1, <1>2, <1>3, <1>4, QuietStep
     DEF Rowless, Waiting, Holding, Executing, Ended, Failing, Abandoned
<1> QED
  BY <1>5, <1>6 DEF IInv

\* Then it closes the row, unless that write fails too.
LEMMA MarkFailedStep == ASSUME IInv, NEW r \in Requests, MarkFailed(r) PROVE IInv'
<1>1. pc[r] = "failrow" /\ row[r].status # "none" /\ "failed" \in Terminal
  BY DEF MarkFailed, IInv, RowFollowsJob, Failing, Terminal
<1>2. UNCHANGED <<job, stored, ledger, charges, move, ticket, clock>>
  BY DEF MarkFailed
<1>3. faults' \in {faults, faults + 1} /\ faults' \in Nat
  BY DEF MarkFailed, Fault, IInv, TypeOK
<1>4. row' \in [Requests -> Rows]
  BY <1>1, UpdateRowType DEF MarkFailed, IInv, TypeOK
<1>5. pc' = [pc EXCEPT ![r] = "error"]
  BY DEF MarkFailed, Goto
<1>6. TypeOK'
  BY <1>2, <1>3, <1>4, <1>5 DEF IInv, TypeOK, Answered
<1>7. CASE UpdateRow(r, "failed")
  <2>1. ItemKnown' /\ RowFollowsJob' /\ FailedAfterFault' /\ OneRunningRow'
    BY <1>1, <1>2, <1>3, <1>5, <1>7, ClosingStep
       DEF Rowless, Waiting, Holding, Executing, Failing
  <2> QED
    BY <1>6, <2>1 DEF IInv
<1>8. CASE row' = row /\ faults' > 0
  <2>1. ItemKnown' /\ RowFollowsJob' /\ FailedAfterFault' /\ OneRunningRow'
    BY <1>1, <1>2, <1>3, <1>5, <1>8, QuietStep
       DEF Rowless, Waiting, Holding, Executing, Ended, Failing, Abandoned
  <2> QED
    BY <1>6, <2>1 DEF IInv
<1> QED
  BY <1>7, <1>8 DEF MarkFailed, Fault, IInv, TypeOK

\* A crash moves every job in flight to a label that claims nothing of its row.
LEMMA CrashStep == ASSUME IInv, Crash PROVE IInv'
<1>1. UNCHANGED <<job, row, stored, ledger, charges, move, ticket, clock>>
  BY DEF Crash
<1>2. faults' = faults + 1 /\ faults' \in Nat /\ faults' > 0
  BY DEF Crash, Fault, IInv, TypeOK
<1>3. \A r \in Requests : /\ pc'[r] \in {pc[r], "lost"}
                          /\ pc[r] = "new" => pc'[r] = "new"
  BY DEF Crash, InFlight, Waiting, Owning, Executing
<1>4. TypeOK'
  <2>1. pc' \in [Requests -> {"new"} \union Waiting \union Owning \union Answered]
    BY DEF Crash, IInv, TypeOK, Answered
  <2> QED
    BY <1>1, <1>2, <2>1 DEF IInv, TypeOK
<1>5. "lost" \notin Rowless \union Holding \union Ended \union Failing
  BY DEF Rowless, Waiting, Holding, Executing, Ended, Failing
<1>6. ItemKnown' /\ RowFollowsJob' /\ FailedAfterFault' /\ OneRunningRow'
  BY <1>1, <1>2, <1>3, <1>5
     DEF IInv, ItemKnown, RowFollowsJob, FailedAfterFault, OneRunningRow
<1> QED
  BY <1>4, <1>6 DEF IInv

\* Every step preserves the invariant.
LEMMA NextIInv == IInv /\ [Next]_vars => IInv'
<1> SUFFICES ASSUME IInv, [Next]_vars PROVE IInv'
  OBVIOUS
<1>1. ASSUME NEW r \in Requests, Submit(r) PROVE IInv'
  BY <1>1, SubmitStep
<1>2. ASSUME NEW r \in Requests, Step(r) PROVE IInv'
  BY <1>2, LookupLatestStep, AnswerDuplicateStep, RefuseSkillsStep, CreateRunStep,
     LoadArtifactsStep, RunSkillStep, SaveArtifactStep, ChargeStep, RecordCreditStep,
     FinishRunStep, ReportVerdictStep, ReportFailureStep, MarkFailedStep DEF Step
<1>3. CASE Crash
  BY <1>3, CrashStep
<1>4. CASE Tick
  BY <1>4 DEF Tick, IInv, TypeOK, ItemKnown, RowFollowsJob, FailedAfterFault, OneRunningRow
<1>5. CASE UNCHANGED vars
  BY <1>5 DEF vars, IInv, TypeOK, ItemKnown, RowFollowsJob, FailedAfterFault, OneRunningRow
<1> QED
  BY <1>1, <1>2, <1>3, <1>4, <1>5 DEF Next

\* The invariant holds in every reachable state.
LEMMA Invariance == Spec => []IInv
BY InitIInv, NextIInv, PTL DEF Spec

-----------------------------------------------------------------------------
(* What follows from it *)

\* Every variable of the model of run() and its tables has its type.
THEOREM TypeCorrect == Spec => []TypeOK
<1>1. IInv => TypeOK
  BY DEF IInv
<1> QED
  BY <1>1, Invariance, PTL

\* Two jobs never run skills on the same item at the same time: both rows
\* would be "running", which the unique index of ap_runs excludes.
THEOREM Exclusion == Spec => []SkillExclusion
<1>1. IInv => SkillExclusion
  BY DEF IInv, RowFollowsJob, OneRunningRow, Holding, SkillExclusion
<1> QED
  BY <1>1, Invariance, PTL

\* The answer of every job agrees with its row, for any number of faults.
THEOREM AnswersAgree == Spec => []AnswerMatchesRow
<1>1. ASSUME IInv PROVE AnswerMatchesRow
  <2>1. \A r \in Requests : pc[r] \in {"new"} \union Waiting \union Owning \union Answered
    BY <1>1 DEF IInv, TypeOK
  <2>2. \A r \in Requests : row[r].status = "running" => pc[r] \notin Rowless \union Ended
    BY <1>1 DEF IInv, RowFollowsJob, Terminal
  <2>3. \A r \in Requests :
          row[r].status = "running" =>
            pc[r] \in Owning \/ (pc[r] \in {"unavailable", "error", "lost"} /\ faults > 0)
    BY <1>1, <2>1, <2>2 DEF IInv, FailedAfterFault, Abandoned, Rowless, Ended, Answered
  <2>4. \A r \in Requests : /\ pc[r] = "ok" => row[r].status \in Terminal
                            /\ pc[r] \in {"conflict", "deduplicated"} => row[r].status = "none"
    BY <1>1 DEF IInv, RowFollowsJob, Rowless, Ended
  <2> QED
    BY <2>3, <2>4 DEF AnswerMatchesRow
<1> QED
  BY <1>1, Invariance, PTL

\* A finished row is rewritten by the except branch of its own job at most.
Rewritten(r) ==
  (row[r].status \in Terminal /\ row'[r] # row[r]) =>
    pc[r] = "failrow" /\ faults > 0 /\ row'[r].status = "failed"

\* create_run and finish_run write rows that are not final, the except branch
\* comes to a final one only after a fault.
LEMMA StepRewrites ==
  ASSUME IInv, [Next]_vars
  PROVE  \A r \in Requests : Rewritten(r)
<1> TAKE r \in Requests
<1>1. CASE row' = row
  BY <1>1 DEF Rewritten
<1>2. ASSUME NEW q \in Requests, CreateRun(q) PROVE Rewritten(r)
  <2>1. row[q].status = "none" /\ "none" \notin Terminal
    BY <1>2 DEF CreateRun, IInv, RowFollowsJob, Rowless, Waiting, Terminal
  <2>2. r # q => row'[r] = row[r]
    BY <1>2 DEF CreateRun, InsertRow, IInv, TypeOK
  <2> QED
    BY <2>1, <2>2 DEF Rewritten
<1>3. ASSUME NEW q \in Requests, FinishRun(q) PROVE Rewritten(r)
  <2>1. row[q].status = "running" /\ "running" \notin Terminal
    BY <1>3 DEF FinishRun, IInv, RowFollowsJob, Holding, Terminal
  <2>2. r # q => row'[r] = row[r]
    BY <1>3 DEF FinishRun, UpdateRow, IInv, TypeOK
  <2> QED
    BY <2>1, <2>2 DEF Rewritten
<1>4. ASSUME NEW q \in Requests, MarkFailed(q) PROVE Rewritten(r)
  <2>1. pc[q] = "failrow" /\ row[q].status \in Terminal => faults > 0
    BY <1>4 DEF MarkFailed, IInv, FailedAfterFault, Failing
  <2>2. /\ r # q => row'[r] = row[r]
        /\ row' = row \/ row'[q].status = "failed"
    BY <1>4, UpdateRowType DEF MarkFailed, IInv, Terminal
  <2> QED
    BY <1>4, <2>1, <2>2 DEF MarkFailed, Rewritten
<1>5. \/ row' = row
      \/ \E q \in Requests : CreateRun(q) \/ FinishRun(q) \/ MarkFailed(q)
  BY DEF Next, Step, Submit, LookupLatest, AnswerDuplicate, RefuseSkills, LoadArtifacts,
              RunSkill, SaveArtifact, Charge, RecordCredit, ReportVerdict, ReportFailure,
              Crash, Tick, vars
<1> QED
  BY <1>1, <1>2, <1>3, <1>4, <1>5

\* finish_run is the last word on a run: only the except branch of the same
\* job, after a fault, writes a finished row again.
THEOREM FinalRows == Spec => FinalRowIsFinal
<1>1. IInv /\ [Next]_vars =>
        [\A r \in Requests :
           (row[r].status \in Terminal /\ row'[r] # row[r]) =>
             pc[r] = "failrow" /\ faults > 0 /\ row'[r].status = "failed"]_vars
  BY StepRewrites DEF Rewritten
<1> QED
  BY <1>1, Invariance, PTL DEF Spec, FinalRowIsFinal

-----------------------------------------------------------------------------
(* The rows implement the lease of ItemLease *)

\* What the refinement mapping makes of the table.
HolderIs ==
  /\ holder \in [Items -> Requests \union {None}]
  /\ \A i \in Items, r \in Requests :
       holder[i] = r <=> (row[r].status = "running" /\ job[r].item = i)

\* With one "running" row per item the mapping is determined by the rows.
LEMMA HolderOfRow == IInv => HolderIs
<1> SUFFICES ASSUME IInv, NEW i \in Items
             PROVE  /\ holder[i] \in Requests \union {None}
                    /\ \A r \in Requests :
                         holder[i] = r <=> (row[r].status = "running" /\ job[r].item = i)
  BY DEF HolderIs, holder
<1>1. CASE ActiveIndexEntry(i)
  <2> DEFINE h == CHOOSE r \in Requests : row[r].status = "running" /\ job[r].item = i
  <2>1. h \in Requests /\ row[h].status = "running" /\ job[h].item = i
    BY <1>1 DEF ActiveIndexEntry
  <2>2. holder[i] = h
    BY <1>1 DEF holder
  <2> HIDE DEF h
  <2> QED
    BY <2>1, <2>2 DEF IInv, OneRunningRow
<1>2. CASE ~ActiveIndexEntry(i)
  <2>1. holder[i] = None
    BY <1>2 DEF holder
  <2> QED
    BY <1>2, <2>1, RequestsAssumption DEF ActiveIndexEntry
<1> QED
  BY <1>1, <1>2

\* A step that changes no row, and no item of a job with a row, stutters.
LEMMA LeaseStutters ==
  ASSUME HolderIs, HolderIs', row' = row,
         \A q \in Requests : row[q].status # "none" => job'[q].item = job[q].item
  PROVE  holder' = holder /\ used' = used
<1>1. used' = used
  BY DEF used
<1>2. ASSUME NEW i \in Items PROVE holder'[i] = holder[i]
  BY <1>2 DEF HolderIs
<1> QED
  BY <1>1, <1>2 DEF HolderIs

\* finish_run gives the lease back, or finds it given back already.
LEMMA LeaseReleased ==
  ASSUME IInv, HolderIs, HolderIs', NEW r \in Requests, NEW st \in Terminal,
         UpdateRow(r, st), job' = job, row[r].status # "none", job[r].item \in Items
  PROVE  Lease!Release(r, job[r].item) \/ (holder' = holder /\ used' = used)
<1> DEFINE i == job[r].item
<1>1. /\ row'[r].status \notin {"none", "running"}
      /\ \A q \in Requests \ {r} : row'[q] = row[q]
  BY UpdateRowType DEF IInv, Terminal
<1>2. used' = used
  BY <1>1 DEF used
<1>3. \A j \in Items \ {i} : holder'[j] = holder[j]
  BY <1>1 DEF HolderIs
<1>4. CASE row[r].status = "running"
  <2>1. holder[i] = r /\ r # None
    BY <1>4, RequestsAssumption DEF HolderIs
  <2>2. holder'[i] = None
    BY <1>1, <1>4 DEF HolderIs, IInv, OneRunningRow
  <2>3. holder' = [holder EXCEPT ![i] = None]
    BY <1>3, <2>2 DEF HolderIs
  <2> QED
    BY <1>2, <2>1, <2>3 DEF Lease!Release
<1>5. CASE row[r].status # "running"
  <2>1. holder'[i] = holder[i]
    BY <1>1, <1>5 DEF HolderIs
  <2>2. holder' = holder
    BY <1>3, <2>1 DEF HolderIs
  <2> QED
    BY <1>2, <2>2
<1> QED
  BY <1>4, <1>5

\* create_run takes the lease, or changes nothing.
LEMMA LeaseAcquired ==
  ASSUME IInv, HolderIs, HolderIs', NEW r \in Requests, CreateRun(r)
  PROVE  Lease!Acquire(r, job[r].item) \/ (holder' = holder /\ used' = used)
<1> DEFINE i == job[r].item
<1>1. job[r] \in Jobs /\ i \in Items /\ row[r].status = "none"
  BY DEF CreateRun, IInv, TypeOK, ItemKnown, RowFollowsJob, Rowless, Waiting
<1>2. \A q \in Requests : job'[q].item = job[q].item
  <2>1. PICK p \in Plans :
          job' = [job EXCEPT ![r] = [job[r] EXCEPT !.plan = p, !.kind = KindOnceStarted(job[r].kind)]]
    BY DEF CreateRun, Plans, IInv, TypeOK
  <2> QED
    BY <1>1, <2>1 DEF IInv, TypeOK, Jobs
<1>3. CASE row' = row
  BY <1>2, <1>3, LeaseStutters
<1>4. CASE InsertRow(r) /\ ~ActiveIndexEntry(i)
  <2>1. /\ row'[r].status = "running"
        /\ \A q \in Requests \ {r} : row'[q] = row[q]
    BY <1>4 DEF InsertRow, IInv, TypeOK
  <2>2. holder[i] = None
    BY <1>1, <1>4 DEF ActiveIndexEntry, HolderIs
  <2>3. used' = used \union {r} /\ r \notin used
    BY <1>1, <2>1 DEF used
  <2>4. holder'[i] = r
    BY <1>1, <1>2, <2>1 DEF HolderIs
  <2>5. \A j \in Items \ {i} : holder'[j] = holder[j]
    BY <1>2, <2>1, <1>1 DEF HolderIs
  <2>6. holder' = [holder EXCEPT ![i] = r]
    BY <2>4, <2>5 DEF HolderIs
  <2> QED
    BY <2>2, <2>3, <2>6 DEF Lease!Acquire
<1> QED
  BY <1>3, <1>4 DEF CreateRun

\* Only create_run and finish_run write rows, and only Submit sets an item.
LEMMA OtherStepsKeepRows ==
  ASSUME IInv, [Next]_vars
  PROVE  \/ \E r \in Requests : CreateRun(r) \/ FinishRun(r) \/ MarkFailed(r)
         \/ /\ row' = row
            /\ \A q \in Requests : row[q].status # "none" => job'[q].item = job[q].item
<1>1. ASSUME NEW r \in Requests, Submit(r)
      PROVE  \A q \in Requests : row[q].status # "none" => job'[q].item = job[q].item
  <2>1. row[r].status = "none"
    BY <1>1 DEF Submit, IInv, RowFollowsJob, Rowless
  <2>2. \A q \in Requests \ {r} : job'[q] = job[q]
    BY <1>1 DEF Submit, IInv, TypeOK
  <2> QED
    BY <2>1, <2>2
<1>2. ASSUME NEW r \in Requests, Step(r), ~CreateRun(r)
      PROVE  \A q \in Requests : job'[q].item = job[q].item
  <2>1. job \in [Requests -> Jobs] /\ \A q \in Requests : job[q] \in Jobs
    BY DEF IInv, TypeOK
  <2>2. job[r].pos \in Nat /\ job[r].credits \in Nat /\ job[r].credits + 1 \in Nat
    BY <2>1 DEF Jobs
  <2>3. CASE SaveArtifact(r)
    BY <2>2, <2>3, NextSkillType DEF SaveArtifact, AfterSave, IInv
  <2>4. CASE RecordCredit(r)
    BY <2>2, <2>4, NextSkillType DEF RecordCredit, IInv
  <2>5. CASE ~SaveArtifact(r) /\ ~RecordCredit(r)
    BY <1>2, <2>1, <2>5
       DEF Step, LookupLatest, AnswerDuplicate, RefuseSkills, LoadArtifacts, RunSkill, Charge,
           ChargeAccepted, ChargeHollow, ChargeRefused, ChargeUnanswered, FinishRun, ReportVerdict,
           ReportFailure, MarkFailed, Jobs
  <2> QED
    BY <2>3, <2>4, <2>5
<1>3. \/ \E r \in Requests : CreateRun(r) \/ FinishRun(r) \/ MarkFailed(r)
      \/ row' = row
  BY DEF Next, Step, Submit, LookupLatest, AnswerDuplicate, RefuseSkills, LoadArtifacts,
         RunSkill, SaveArtifact, Charge, RecordCredit, ReportVerdict, ReportFailure,
         Crash, Tick, vars
<1> QED
  BY <1>1, <1>2, <1>3 DEF Next, Crash, Tick, vars

\* ap_runs implements ItemLease: at most one job holds an item, a job holds
\* one at most once, and an item is leased only when it is free.
THEOREM LeaseRefinement == Spec => RunsAreLeases
<1>1. Init => Lease!Init
  BY DEF Init, Lease!Init, holder, used, ActiveIndexEntry, NoRow
<1>2. ASSUME IInv, HolderIs, HolderIs', [Next]_vars
      PROVE  [Lease!Next]_(Lease!leaseVars)
  <2>1. ASSUME NEW r \in Requests, CreateRun(r) PROVE [Lease!Next]_(Lease!leaseVars)
    <3>1. job[r].item \in Items
      BY <1>2, <2>1 DEF CreateRun, IInv, ItemKnown
    <3> QED
      BY <1>2, <2>1, <3>1, LeaseAcquired DEF Lease!Next, Lease!leaseVars
  <2>2. ASSUME NEW r \in Requests, FinishRun(r) \/ MarkFailed(r)
        PROVE  [Lease!Next]_(Lease!leaseVars)
    <3>1. job[r].item \in Items /\ row[r].status # "none" /\ job' = job
      BY <1>2, <2>2
         DEF FinishRun, MarkFailed, IInv, ItemKnown, RowFollowsJob, Holding, Failing
    <3>2. row' = row \/ \E st \in Terminal : UpdateRow(r, st)
      BY <2>2 DEF FinishRun, MarkFailed, Verdict, Terminal
    <3>3. CASE row' = row
      BY <1>2, <3>1, <3>3, LeaseStutters DEF Lease!leaseVars
    <3>4. CASE \E st \in Terminal : UpdateRow(r, st)
      BY <1>2, <3>1, <3>4, LeaseReleased DEF Lease!Next, Lease!leaseVars
    <3> QED
      BY <3>2, <3>3, <3>4
  <2>3. CASE /\ row' = row
             /\ \A q \in Requests : row[q].status # "none" => job'[q].item = job[q].item
    BY <1>2, <2>3, LeaseStutters DEF Lease!leaseVars
  <2> QED
    BY <1>2, <2>1, <2>2, <2>3, OtherStepsKeepRows
<1>3. [](IInv /\ HolderIs) /\ [][Next]_vars => [][Lease!Next]_(Lease!leaseVars)
  BY <1>2, PTL
<1> QED
  BY <1>1, <1>3, Invariance, HolderOfRow, PTL DEF Spec, RunsAreLeases, Lease!Spec

-----------------------------------------------------------------------------
(* The run a duplicate is answered with *)

Given == {"dedupe", "deduplicated"}

\* What a step leaves of a job's item, of the run it was given, and of the
\* place where its row can still change.
Remembers(q) ==
  /\ pc[q] # "new" => job'[q].item = job[q].item
  /\ pc[q] = "error" => pc'[q] = "error"
  /\ pc[q] = "failrow" /\ row'[q] # row[q] => pc'[q] = "error"
  /\ pc'[q] \in Given =>
       \/ pc[q] \in Given /\ job'[q].source = job[q].source
       \/ /\ pc[q] = "lookup" /\ row' = row
          /\ job'[q].source \in Requests /\ DedupeHit(job'[q].source, job[q].item)

\* A job's step that gives it no run.
LEMMA GivesNoRun ==
  ASSUME IInv, NEW r \in Requests, NEW label, label \notin Given, pc[r] # "error",
         pc' = [pc EXCEPT ![r] = label],
         \A q \in Requests \ {r} : job'[q] = job[q],
         pc[r] # "new" => job'[r].item = job[r].item,
         \A q \in Requests \ {r} : row'[q] = row[q],
         pc[r] = "failrow" => label = "error"
  PROVE  \A q \in Requests : Remembers(q)
<1> TAKE q \in Requests
<1>1. CASE q = r
  BY <1>1 DEF Remembers, IInv, TypeOK
<1>2. CASE q # r
  BY <1>2 DEF Remembers, IInv, TypeOK
<1> QED
  BY <1>1, <1>2

\* Only the look-up gives a job a run to be answered with.
LEMMA StepRemembers ==
  ASSUME IInv, NEW r \in Requests, Step(r)
  PROVE  /\ faults' \in {faults, faults + 1}
         /\ \A q \in Requests : Remembers(q)
<1>1. job[r] \in Jobs /\ job \in [Requests -> Jobs] /\ row \in [Requests -> Rows]
  BY DEF IInv, TypeOK
<1>2. CASE LookupLatest(r)
  <2>1. CASE \E q \in Requests : /\ DedupeHit(q, job[r].item)
                                 /\ job' = [job EXCEPT ![r].source = q]
                                 /\ Goto(r, "dedupe")
                                 /\ UNCHANGED faults
    <3>1. PICK q \in Requests : /\ DedupeHit(q, job[r].item)
                                /\ job' = [job EXCEPT ![r].source = q]
                                /\ pc' = [pc EXCEPT ![r] = "dedupe"]
                                /\ UNCHANGED faults
      BY <2>1 DEF Goto
    <3>2. /\ job'[r].source = q /\ job'[r].item = job[r].item
          /\ \A p \in Requests \ {r} : job'[p] = job[p]
      BY <1>1, <3>1 DEF Jobs
    <3>3. /\ pc[r] = "lookup" /\ row' = row /\ pc'[r] = "dedupe"
          /\ \A p \in Requests \ {r} : pc'[p] = pc[p]
      BY <1>2, <3>1 DEF LookupLatest, IInv, TypeOK
    <3> QED
      BY <3>1, <3>2, <3>3 DEF Remembers
  <2>2. CASE Goto(r, "create") /\ job' = job
    <3>1. \A q \in Requests : Remembers(q)
      BY <1>2, <2>2, GivesNoRun DEF LookupLatest, Goto, Given
    <3> QED
      BY <1>2, <3>1 DEF LookupLatest, Fault
  <2> QED
    BY <1>2, <2>1, <2>2 DEF LookupLatest
<1>3. CASE AnswerDuplicate(r)
  <2>1. /\ job'[r].source = job[r].source /\ job'[r].item = job[r].item
        /\ \A q \in Requests \ {r} : job'[q] = job[q]
    <3>1. CASE job' = job
      BY <3>1
    <3>2. CASE job' = [job EXCEPT ![r].ctx = stored[job[r].item]]
      BY <1>1, <3>2 DEF Jobs
    <3> QED
      BY <1>3, <3>1, <3>2 DEF AnswerDuplicate
  <2>2. PICK label \in {"deduplicated", "unavailable"} : pc' = [pc EXCEPT ![r] = label]
    BY <1>3 DEF AnswerDuplicate, Goto
  <2>3. pc[r] = "dedupe" /\ row' = row /\ \A q \in Requests \ {r} : pc'[q] = pc[q]
    BY <1>3, <2>2 DEF AnswerDuplicate, IInv, TypeOK
  <2> QED
    BY <1>3, <2>1, <2>3 DEF AnswerDuplicate, Report, Fault, Remembers, Given
<1>4. CASE RefuseSkills(r)
  <2>1. \A q \in Requests : Remembers(q)
    BY <1>4, GivesNoRun DEF RefuseSkills, Goto, Given
  <2> QED
    BY <1>4, <2>1 DEF RefuseSkills
<1>5. CASE CreateRun(r)
  <2>1. /\ job'[r].item = job[r].item
        /\ \A q \in Requests \ {r} : job'[q] = job[q]
    <3>1. PICK p, k : job' = [job EXCEPT ![r] = [job[r] EXCEPT !.plan = p, !.kind = k]]
      BY <1>1, <1>5 DEF CreateRun
    <3> QED
      BY <1>1, <3>1 DEF Jobs
  <2>2. PICK label \in {"load", "conflict", "unavailable"} : pc' = [pc EXCEPT ![r] = label]
    BY <1>5 DEF CreateRun, Goto
  <2>3. \A q \in Requests \ {r} : row'[q] = row[q]
    BY <1>1, <1>5 DEF CreateRun, InsertRow
  <2>4. \A q \in Requests : Remembers(q)
    <3>1. pc[r] = "create"
      BY <1>5 DEF CreateRun
    <3> QED
      BY <2>1, <2>2, <2>3, <3>1, GivesNoRun DEF Given
  <2> QED
    BY <1>5, <2>4 DEF CreateRun, Fault
<1>6. CASE LoadArtifacts(r)
  <2>1. /\ job'[r].item = job[r].item
        /\ \A q \in Requests \ {r} : job'[q] = job[q]
    <3>1. CASE job' = job
      BY <3>1
    <3>2. CASE job' = [job EXCEPT ![r].ctx = stored[job[r].item]]
      BY <1>1, <3>2 DEF Jobs
    <3> QED
      BY <1>6, <3>1, <3>2 DEF LoadArtifacts
  <2>2. \A q \in Requests : Remembers(q)
    BY <1>6, <2>1, GivesNoRun DEF LoadArtifacts, Goto, Given
  <2> QED
    BY <1>6, <2>2 DEF LoadArtifacts, Fault
<1>7. CASE RunSkill(r)
  <2>1. /\ job'[r].item = job[r].item
        /\ \A q \in Requests \ {r} : job'[q] = job[q]
    <3>1. CASE job' = job
      BY <3>1
    <3>2. CASE job' = [job EXCEPT ![r].ctx[SkillAt(r)] = r]
      BY <1>1, <3>2 DEF Jobs
    <3> QED
      BY <1>7, <3>1, <3>2 DEF RunSkill
  <2>2. \A q \in Requests : Remembers(q)
    BY <1>7, <2>1, GivesNoRun DEF RunSkill, Goto, Given
  <2> QED
    BY <1>7, <2>2 DEF RunSkill, Report, Fault
<1>8. ASSUME NEW c \in Nat, NextSkill(r, c)
      PROVE  /\ job'[r].item = job[r].item
             /\ \A q \in Requests \ {r} : job'[q] = job[q]
             /\ \E label \in {"skill", "finish"} : pc' = [pc EXCEPT ![r] = label]
  <2>1. \A q \in Requests \ {r} : job'[q] = job[q]
    BY <1>1, <1>8 DEF NextSkill
  <2> QED
    BY <1>8, <2>1, NextSkillType DEF IInv
<1>9. CASE SaveArtifact(r)
  <2>1. job[r].credits \in Nat
    BY <1>1 DEF Jobs
  <2>2. /\ job'[r].item = job[r].item
        /\ \A q \in Requests \ {r} : job'[q] = job[q]
        /\ \E label \in {"charge", "skill", "finish"} : pc' = [pc EXCEPT ![r] = label]
    BY <1>8, <1>9, <2>1 DEF SaveArtifact, AfterSave, Goto
  <2>3. \A q \in Requests : Remembers(q)
    BY <1>9, <2>2, GivesNoRun DEF SaveArtifact, Given
  <2> QED
    BY <1>9, <2>3 DEF SaveArtifact, Fault
<1>10. CASE Charge(r)
  <2>1. /\ job'[r].item = job[r].item
        /\ \A q \in Requests \ {r} : job'[q] = job[q]
    <3>1. PICK c : job' = [job EXCEPT ![r] = [job[r] EXCEPT !.charge = c]]
      BY <1>1, <1>10 DEF Charge, ChargeAccepted, ChargeHollow, ChargeRefused, ChargeUnanswered
    <3> QED
      BY <1>1, <3>1 DEF Jobs
  <2>2. \A q \in Requests : Remembers(q)
    BY <1>10, <2>1, GivesNoRun DEF Charge, Goto, Given
  <2> QED
    BY <1>10, <2>2 DEF Charge, ChargeAccepted, ChargeHollow, ChargeRefused, ChargeUnanswered, Fault
<1>11. CASE RecordCredit(r)
  <2>1. job[r].credits + 1 \in Nat
    BY <1>1 DEF Jobs
  <2>2. \A q \in Requests : Remembers(q)
    BY <1>8, <1>11, <2>1, GivesNoRun DEF RecordCredit, Given
  <2> QED
    BY <1>11, <2>2 DEF RecordCredit, Fault
<1>12. CASE FinishRun(r)
  <2>1. \A q \in Requests \ {r} : row'[q] = row[q]
    BY <1>1, <1>12 DEF FinishRun, UpdateRow
  <2>2. PICK label \in {"report", "fail"} : pc' = [pc EXCEPT ![r] = label]
    BY <1>12 DEF FinishRun, Goto
  <2>3. \A q \in Requests : Remembers(q)
    BY <1>12, <2>1, <2>2, GivesNoRun DEF FinishRun, Given
  <2> QED
    BY <1>12, <2>3 DEF FinishRun, Fault
<1>13. CASE ReportVerdict(r)
  <2>1. \A q \in Requests : Remembers(q)
    BY <1>13, GivesNoRun DEF ReportVerdict, Goto, Given
  <2> QED
    BY <1>13, <2>1 DEF ReportVerdict, Report, Fault
<1>14. CASE ReportFailure(r)
  <2>1. \A q \in Requests : Remembers(q)
    BY <1>14, GivesNoRun DEF ReportFailure, Goto, Given
  <2> QED
    BY <1>14, <2>1 DEF ReportFailure, Report, Fault
<1>15. CASE MarkFailed(r)
  <2>1. \A q \in Requests \ {r} : row'[q] = row[q]
    BY <1>1, <1>15 DEF MarkFailed, UpdateRow
  <2>2. \A q \in Requests : Remembers(q)
    BY <1>15, <2>1, GivesNoRun DEF MarkFailed, Goto, Given
  <2> QED
    BY <1>15, <2>2 DEF MarkFailed, Fault
<1> QED
  BY <1>2, <1>3, <1>4, <1>5, <1>6, <1>7, <1>9, <1>10, <1>11, <1>12, <1>13, <1>14, <1>15 DEF Step

\* The whole system: a step gives a run to a job by its own look-up only.
LEMMA NextRemembers ==
  ASSUME IInv, [Next]_vars
  PROVE  /\ faults' \in {faults, faults + 1}
         /\ \A q \in Requests : Remembers(q)
<1>1. ASSUME NEW r \in Requests, Submit(r)
      PROVE  /\ faults' \in {faults, faults + 1}
             /\ \A q \in Requests : Remembers(q)
  <2>1. /\ \A q \in Requests \ {r} : job'[q] = job[q]
        /\ \E label \in {"lookup", "create"} : pc' = [pc EXCEPT ![r] = label]
    BY <1>1 DEF Submit, Goto, IInv, TypeOK
  <2>2. \A q \in Requests : Remembers(q)
    BY <1>1, <2>1, GivesNoRun DEF Submit, Given
  <2> QED
    BY <1>1, <2>2 DEF Submit
<1>2. ASSUME NEW r \in Requests, Step(r)
      PROVE  /\ faults' \in {faults, faults + 1}
             /\ \A q \in Requests : Remembers(q)
  BY <1>2, StepRemembers
<1>3. CASE Crash
  <2>1. \A q \in Requests : /\ pc'[q] \in {pc[q], "lost"}
                            /\ pc[q] = "error" => pc'[q] = "error"
    BY <1>3 DEF Crash, InFlight, Waiting, Owning, Executing
  <2> QED
    BY <1>3, <2>1 DEF Crash, Fault, Remembers, Given
<1>4. CASE Tick
  BY <1>4 DEF Tick, Remembers
<1>5. CASE UNCHANGED vars
  BY <1>5 DEF vars, Remembers
<1> QED
  BY <1>1, <1>2, <1>3, <1>4, <1>5 DEF Next

\* The row a duplicate was given may only be rewritten by its owner's except
\* branch, which ends in "error" and comes there only after a fault.
LEMMA NextDuplicate ==
  IInv /\ DuplicateGetsCompletedRun /\ [Next]_vars => DuplicateGetsCompletedRun'
<1> SUFFICES ASSUME IInv, DuplicateGetsCompletedRun, [Next]_vars,
                    NEW r \in Requests, pc'[r] \in Given
             PROVE  LET q == job[r].source
                    IN  (/\ q \in RowsOf(job[r].item) \ {r}
                         /\ \/ row[q].status = "completed"
                            \/ row[q].status = "failed" /\ pc[q] = "error" /\ faults > 0)'
  BY DEF DuplicateGetsCompletedRun, Given
<1> DEFINE q == job'[r].source
<1>1. Remembers(r) /\ IInv' /\ faults' \in {faults, faults + 1} /\ faults \in Nat
  BY NextRemembers, NextIInv DEF IInv, TypeOK
<1>2. /\ q \in Requests /\ q # r /\ job[q].item = job[r].item /\ pc[q] # "new"
      /\ \/ row[q].status = "completed"
         \/ row[q].status = "failed" /\ pc[q] = "error" /\ faults > 0
  <2>1. CASE pc[r] \in Given /\ q = job[r].source
    <3>1. q \in RowsOf(job[r].item) \ {r}
      BY <2>1 DEF DuplicateGetsCompletedRun, Given
    <3>2. pc[q] # "new"
      BY <3>1 DEF RowsOf, IInv, RowFollowsJob, Rowless
    <3> QED
      BY <2>1, <3>1, <3>2 DEF DuplicateGetsCompletedRun, Given, RowsOf
  <2>2. CASE pc[r] = "lookup" /\ q \in Requests /\ DedupeHit(q, job[r].item)
    <3>1. row[r].status = "none" /\ row[q].status = "completed"
      BY <2>2 DEF DedupeHit, IInv, RowFollowsJob, Rowless, Waiting
    <3>2. q \in RowsOf(job[r].item) /\ pc[q] # "new"
      BY <2>2, <3>1 DEF DedupeHit, IsLatest, IInv, RowFollowsJob, Rowless
    <3> QED
      BY <2>2, <3>1, <3>2 DEF RowsOf
  <2> QED
    BY <1>1, <2>1, <2>2 DEF Remembers
<1>3. pc[r] # "new"
  BY <1>1 DEF Remembers, Given
<1>4. Remembers(q) /\ Rewritten(q)
  BY <1>2, NextRemembers, StepRewrites
<1>5. job'[q].item = job'[r].item
  BY <1>1, <1>2, <1>3, <1>4 DEF Remembers
<1>6. CASE row'[q] = row[q]
  BY <1>1, <1>2, <1>4, <1>5, <1>6 DEF Remembers, RowsOf
<1>7. CASE row'[q] # row[q]
  <2>1. pc[q] = "failrow" /\ faults > 0 /\ row'[q].status = "failed"
    BY <1>2, <1>4, <1>7 DEF Rewritten, Terminal
  <2>2. pc'[q] = "error"
    BY <1>4, <1>7, <2>1 DEF Remembers
  <2> QED
    BY <1>1, <1>2, <1>5, <2>1, <2>2 DEF RowsOf
<1> QED
  BY <1>6, <1>7

\* A duplicate is answered with another job's completed run of its own item,
\* unless that job's answer to finish_run was lost and it closed the run as
\* failed afterwards.
THEOREM DuplicatesGetTheRun == Spec => []DuplicateGetsCompletedRun
<1>1. Init => DuplicateGetsCompletedRun
  BY DEF Init, DuplicateGetsCompletedRun
<1> QED
  BY <1>1, NextDuplicate, Invariance, PTL DEF Spec
=============================================================================
