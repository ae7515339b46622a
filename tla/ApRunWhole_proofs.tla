------------------------- MODULE ApRunWhole_proofs -------------------------
(***************************************************************************)
(* Proofs about what a finished run of ApRun stands for: that a completed  *)
(* run ran its whole plan and counted what it cost, that the default       *)
(* pipeline posts its own decision, and that no ticket shows a COMPLETED   *)
(* nobody earned.                                                          *)
(*                                                                         *)
(* All three rest on the orders runner.py itself resolves to, so the       *)
(* theorems say on which: no skill twice (PlansAreOrders), and for the     *)
(* default pipeline a move-next with finalize_decision before it           *)
(* (DefaultPlansJudge).  The planner's reply is not checked for either.    *)
(*                                                                         *)
(* W(r) follows one job through its loop: which skills of the plan have    *)
(* their artifact in ctx, what was counted, and how move-next ended.       *)
(***************************************************************************)
EXTENDS ApRun_proofs

USE DEF tables, outside, env

PlansAreOrders ==
  \A p \in Plans : \A m, n \in DOMAIN p : p[m] = p[n] => m = n
DefaultPlansJudge ==
  \A p \in DefaultPlans :
    /\ MoveNext \in SkillsOf(p)
    /\ \A n \in DOMAIN p : p[n] = MoveNext => \E m \in 1..(n - 1) : p[m] = Finalize

Looping == Executing \union {"finish"}

\* How many skills of the plan have run, whether move-next is among the first
\* n, and the places up to n whose skill costs its credit.
Ran(r) == IF pc[r] = "skill" THEN job[r].pos - 1 ELSE job[r].pos
MovedBy(r, n) == \E m \in 1..n : job[r].plan[m] = MoveNext
Costs(r, m) ==
  job[r].plan[m] # Progress /\ ~(job[r].plan[m] = MoveNext /\ move[r] = "skipped")
Paid(r, n) == {m \in 1..n : Costs(r, m)}

\* Before the first skill nothing is counted and nothing has moved.
Fresh(r) ==
  /\ pc[r] \in Rowless \union {"load"} =>
       job[r].pos = 1 /\ job[r].credits = 0 /\ move[r] = "none"
  /\ pc[r] = "load" => job[r].plan \in Plans

\* In the loop.
Loop(r) ==
  pc[r] \in Looping =>
    /\ job[r].plan \in Plans
    /\ job[r].pos \in 1..Len(job[r].plan)
    /\ \A m \in 1..Ran(r) : job[r].ctx[job[r].plan[m]] = r
    /\ MovedBy(r, Ran(r)) \/ move[r] = "none"
    /\ pc[r] = "finish" => /\ job[r].pos = Len(job[r].plan)
                           /\ job[r].credits = Cardinality(Paid(r, job[r].pos))
    /\ pc[r] # "finish" => job[r].credits = Cardinality(Paid(r, job[r].pos - 1))
    /\ pc[r] \in {"charge", "record"} => IsCharged(r)

\* At the end: every skill ran in this run, move-next among them or not at all.
Whole(r) ==
  /\ \A s \in SkillsOf(job[r].plan) : job[r].ctx[s] = r
  /\ MoveNext \in SkillsOf(job[r].plan) \/ move[r] = "none"
End(r) ==
  /\ pc[r] \in Ended \/ row[r].status = "completed" => Whole(r)
  /\ row[r].status = "completed" =>
       /\ move[r] # "failed"
       /\ row[r].credits = Cardinality({n \in DOMAIN job[r].plan : Costs(r, n)})

\* The default pipeline.
OwnBefore(r) ==
  \A m, n \in DOMAIN job[r].plan :
    job[r].plan[n] = MoveNext /\ m < n => job[r].ctx[job[r].plan[m]] = r
Own(r) ==
  (job[r].kind # "explicit" /\ row[r].status # "none") =>
    /\ job[r].plan \in DefaultPlans
    /\ move[r] \in {"ok", "failed"} => OwnBefore(r)
    /\ (DefaultPlansJudge /\ pc[r] \in Ended /\ row[r].status = "failed") => move[r] = "failed"

W(r) == Fresh(r) /\ Loop(r) /\ End(r) /\ Own(r)
WInv == \A r \in Requests : W(r)

-----------------------------------------------------------------------------
(* Frames *)

USE DEF W

\* A job that neither moves nor changes keeps what is known of it.
LEMMA Undisturbed ==
  ASSUME NEW q \in Requests, W(q), job'[q] = job[q], row'[q] = row[q], move'[q] = move[q],
         pc'[q] = pc[q]
  PROVE  W(q)'
<1>1. Fresh(q)' /\ End(q)' /\ Own(q)'
  BY DEF Fresh, End, Own, OwnBefore, Whole, SkillsOf, Costs
<1>2. /\ Ran(q)' = Ran(q) /\ IsCharged(q)' = IsCharged(q)
      /\ \A n : MovedBy(q, n)' = MovedBy(q, n) /\ Paid(q, n)' = Paid(q, n)
  BY DEF Ran, MovedBy, Paid, Costs, IsCharged, SkillAt
<1>3. Loop(q)'
  BY <1>2 DEF Loop
<1> QED
  BY <1>1, <1>3

\* A job outside the loop that changes only its label keeps it too, unless it
\* goes to where more is known.
LEMMA Relabelled ==
  ASSUME NEW q \in Requests, W(q), job'[q] = job[q], row'[q] = row[q], move'[q] = move[q],
         pc'[q] \notin Looping \union {"load"} \union Ended,
         pc[q] \in Rowless \/ pc'[q] \notin Rowless
  PROVE  W(q)'
BY DEF Fresh, Loop, End, Own, OwnBefore, Whole, SkillsOf, Costs

\* One job's step leaves the others as they are.
LEMMA OthersStay ==
  ASSUME IInv, WInv, NEW r \in Requests, NEW label, pc' = [pc EXCEPT ![r] = label],
         \A q \in Requests \ {r} : job'[q] = job[q] /\ row'[q] = row[q] /\ move'[q] = move[q],
         W(r)'
  PROVE  WInv'
<1> SUFFICES ASSUME NEW q \in Requests, q # r PROVE W(q)'
  BY DEF WInv
<1>1. pc'[q] = pc[q]
  BY DEF IInv, TypeOK
<1> QED
  BY <1>1, Undisturbed DEF WInv

-----------------------------------------------------------------------------
(* What a plan costs *)

\* A skill is charged exactly when its place is among those that cost.
LEMMA ChargedCosts == ASSUME NEW r PROVE IsCharged(r) <=> Costs(r, job[r].pos)
BY DEF IsCharged, SkillAt, Costs

\* The places that cost are finitely many.
LEMMA PaidFinite ==
  ASSUME NEW r, NEW n \in Nat
  PROVE  IsFiniteSet(Paid(r, n)) /\ Cardinality(Paid(r, n)) \in Nat
<1>1. IsFiniteSet(1..n)
  BY FS_Interval
<1>2. IsFiniteSet(Paid(r, n))
  BY <1>1, FS_Subset DEF Paid
<1> QED
  BY <1>2, FS_CardinalityType

\* One more place costs one more credit, or none.
LEMMA PaidNext ==
  ASSUME NEW r, NEW n \in Nat, n > 0
  PROVE  Cardinality(Paid(r, n)) =
           Cardinality(Paid(r, n - 1)) + (IF Costs(r, n) THEN 1 ELSE 0)
<1>1. n - 1 \in Nat /\ 1..n = (1..(n - 1)) \union {n} /\ n \notin 1..(n - 1)
  OBVIOUS
<1>2. IsFiniteSet(Paid(r, n - 1)) /\ n \notin Paid(r, n - 1)
  BY <1>1, PaidFinite DEF Paid
<1>3. CASE Costs(r, n)
  <2>1. Paid(r, n) = Paid(r, n - 1) \union {n}
    BY <1>1, <1>3 DEF Paid
  <2> QED
    BY <1>2, <1>3, <2>1, FS_AddElement
<1>4. CASE ~Costs(r, n)
  <2>1. Paid(r, n) = Paid(r, n - 1)
    BY <1>1, <1>4 DEF Paid
  <2>2. Cardinality(Paid(r, n - 1)) \in Nat
    BY <1>1, PaidFinite
  <2> QED
    BY <1>4, <2>1, <2>2
<1> QED
  BY <1>3, <1>4

-----------------------------------------------------------------------------
(* Before and after the loop *)

\* Nothing has run and no row is there at the start.
LEMMA InitW == Init => WInv
<1> SUFFICES ASSUME Init, NEW r \in Requests PROVE W(r)
  BY DEF WInv
<1>1. pc[r] = "new" /\ job[r] = NoJob /\ row[r] = NoRow /\ move[r] = "none"
  BY DEF Init
<1> QED
  BY <1>1 DEF NoJob, NoRow, Fresh, Loop, End, Own, Looping, Executing, Ended

\* A job without a row stays fresh while its plan, place and count do.
LEMMA RowlessStep ==
  ASSUME IInv, WInv, NEW r \in Requests, pc[r] \in Rowless, row' = row, move' = move,
         NEW label \in {"lookup", "dedupe", "create", "deduplicated", "conflict", "unavailable",
                        "error"},
         pc' = [pc EXCEPT ![r] = label],
         job'[r].pos = job[r].pos, job'[r].credits = job[r].credits,
         \A q \in Requests \ {r} : job'[q] = job[q]
  PROVE  WInv'
<1>1. W(r) /\ row[r].status = "none" /\ pc'[r] = label
  BY DEF WInv, IInv, RowFollowsJob, TypeOK
<1>2. W(r)'
  BY <1>1 DEF Fresh, Loop, End, Own, Looping, Executing, Ended
<1> QED
  BY <1>2, OthersStay

\* A submission has no row yet.
LEMMA SubmitW == ASSUME IInv, WInv, NEW r \in Requests, Submit(r) PROVE WInv'
<1>1. job[r] \in Jobs /\ job \in [Requests -> Jobs]
  BY DEF IInv, TypeOK
<1>2. PICK i, k : job' = [job EXCEPT ![r] = [job[r] EXCEPT !.item = i, !.kind = k]]
  BY <1>1 DEF Submit
<1>3. PICK label \in {"lookup", "create"} : pc' = [pc EXCEPT ![r] = label]
  BY DEF Submit, Goto
<1>4. /\ job'[r].pos = job[r].pos /\ job'[r].credits = job[r].credits
      /\ \A q \in Requests \ {r} : job'[q] = job[q]
  BY <1>1, <1>2 DEF Jobs
<1> QED
  BY <1>3, <1>4, RowlessStep DEF Submit, Rowless

\* Nor has a job that looks for an earlier run,
LEMMA LookupLatestW == ASSUME IInv, WInv, NEW r \in Requests, LookupLatest(r) PROVE WInv'
<1>1. job[r] \in Jobs /\ job \in [Requests -> Jobs]
  BY DEF IInv, TypeOK
<1>2. PICK label \in {"dedupe", "create"} : pc' = [pc EXCEPT ![r] = label]
  BY DEF LookupLatest, Goto
<1>3. /\ job'[r].pos = job[r].pos /\ job'[r].credits = job[r].credits
      /\ \A q \in Requests \ {r} : job'[q] = job[q]
  <2>1. CASE job' = job
    BY <2>1
  <2>2. CASE \E q \in Requests : job' = [job EXCEPT ![r].source = q]
    BY <1>1, <2>2 DEF Jobs
  <2> QED
    BY <2>1, <2>2 DEF LookupLatest
<1> QED
  BY <1>2, <1>3, RowlessStep DEF LookupLatest, Rowless, Waiting

\* one that is answered with it,
LEMMA AnswerDuplicateW == ASSUME IInv, WInv, NEW r \in Requests, AnswerDuplicate(r) PROVE WInv'
<1>1. job[r] \in Jobs /\ job \in [Requests -> Jobs]
  BY DEF IInv, TypeOK
<1>2. PICK label \in {"deduplicated", "unavailable"} : pc' = [pc EXCEPT ![r] = label]
  BY DEF AnswerDuplicate, Goto
<1>3. /\ job'[r].pos = job[r].pos /\ job'[r].credits = job[r].credits
      /\ \A q \in Requests \ {r} : job'[q] = job[q]
  <2>1. CASE job' = job
    BY <2>1
  <2>2. CASE job' = [job EXCEPT ![r].ctx = stored[job[r].item]]
    BY <1>1, <2>2 DEF Jobs
  <2> QED
    BY <2>1, <2>2 DEF AnswerDuplicate
<1> QED
  BY <1>2, <1>3, RowlessStep DEF AnswerDuplicate, Rowless, Waiting

\* or one whose skills are refused.
LEMMA RefuseSkillsW == ASSUME IInv, WInv, NEW r \in Requests, RefuseSkills(r) PROVE WInv'
BY RowlessStep DEF RefuseSkills, Goto, Rowless, Waiting

\* create_run: the row is new and the plan one of those the job may resolve to.
LEMMA CreateRunW == ASSUME IInv, WInv, NEW r \in Requests, CreateRun(r) PROVE WInv'
<1>1. job[r] \in Jobs /\ job \in [Requests -> Jobs] /\ row \in [Requests -> Rows]
  BY DEF IInv, TypeOK
<1>2. W(r) /\ pc[r] = "create" /\ row[r].status = "none" /\ move' = move
  BY DEF CreateRun, WInv, IInv, RowFollowsJob, Rowless, Waiting
<1>3. PICK p \in (IF job[r].kind = "explicit" THEN ExplicitPlans ELSE DefaultPlans) :
        job' = [job EXCEPT ![r] = [job[r] EXCEPT !.plan = p, !.kind = KindOnceStarted(job[r].kind)]]
  BY <1>1 DEF CreateRun
<1>4. /\ job'[r].pos = job[r].pos /\ job'[r].credits = job[r].credits
      /\ job'[r].plan = p /\ job'[r].kind = KindOnceStarted(job[r].kind)
      /\ \A q \in Requests \ {r} : job'[q] = job[q]
  BY <1>1, <1>3 DEF Jobs
<1>5. p \in Plans /\ (job'[r].kind # "explicit" => p \in DefaultPlans)
  BY <1>3, <1>4 DEF Plans, KindOnceStarted
<1>6. PICK label \in {"load", "conflict", "unavailable"} : pc' = [pc EXCEPT ![r] = label]
  BY DEF CreateRun, Goto
<1>7. /\ row'[r] = row[r] \/ row'[r].status = "running"
      /\ \A q \in Requests \ {r} : row'[q] = row[q]
  <2>1. CASE row' = row
    BY <2>1
  <2>2. CASE InsertRow(r)
    BY <1>1, <2>2 DEF InsertRow
  <2> QED
    BY <2>1, <2>2 DEF CreateRun
<1>8. pc'[r] = label
  BY <1>6 DEF IInv, TypeOK
<1>9. job[r].pos = 1 /\ job[r].credits = 0 /\ move[r] = "none"
  BY <1>2 DEF Fresh, Rowless, Waiting
<1>10. Fresh(r)' /\ Loop(r)' /\ End(r)' /\ Own(r)'
  BY <1>2, <1>4, <1>5, <1>7, <1>8, <1>9 DEF Fresh, Loop, End, Own, Looping, Executing, Ended
<1> QED
  BY <1>2, <1>4, <1>6, <1>7, <1>10, OthersStay

\* load_artifacts fills ctx with what earlier runs left.
LEMMA LoadArtifactsW == ASSUME IInv, WInv, NEW r \in Requests, LoadArtifacts(r) PROVE WInv'
<1>1. job[r] \in Jobs /\ job \in [Requests -> Jobs]
  BY DEF IInv, TypeOK
<1>2. /\ W(r) /\ pc[r] = "load" /\ row[r].status = "running"
      /\ UNCHANGED <<row, move>>
  BY DEF LoadArtifacts, WInv, IInv, RowFollowsJob, Holding
<1>3. PICK label \in {"skill", "unavailable"} : pc' = [pc EXCEPT ![r] = label]
  BY DEF LoadArtifacts, Goto
<1>4. /\ job'[r].pos = 1 /\ job'[r].credits = 0 /\ job'[r].plan = job[r].plan
      /\ job'[r].kind = job[r].kind
      /\ \A q \in Requests \ {r} : job'[q] = job[q]
      /\ move[r] = "none" /\ job[r].plan \in Plans
  <2>1. job[r].pos = 1 /\ job[r].credits = 0 /\ move[r] = "none" /\ job[r].plan \in Plans
    BY <1>2 DEF Fresh
  <2>2. CASE job' = job
    BY <2>1, <2>2
  <2>3. CASE job' = [job EXCEPT ![r].ctx = stored[job[r].item]]
    BY <1>1, <2>1, <2>3 DEF Jobs
  <2> QED
    BY <2>2, <2>3 DEF LoadArtifacts
<1>5. pc'[r] = label
  BY <1>3 DEF IInv, TypeOK
<1>6. Len(job[r].plan) \in Nat /\ Len(job[r].plan) > 0
  BY <1>4, PlansAssumption
<1>7. Loop(r)'
  <2>1. 1 \in 1..Len(job'[r].plan) /\ 1..0 = {}
    BY <1>4, <1>6
  <2>2. CASE label = "skill"
    <3>1. Ran(r)' = 0 /\ Paid(r, job[r].pos - 1)' = {}
      BY <1>4, <1>5, <2>1, <2>2 DEF Ran, Paid
    <3> QED
      BY <1>2, <1>4, <1>5, <2>1, <2>2, <3>1, FS_EmptySet DEF Loop
  <2> QED
    BY <1>5, <2>2 DEF Loop, Looping, Executing
<1>8. Fresh(r)' /\ End(r)' /\ Own(r)'
  BY <1>2, <1>4, <1>5 DEF Fresh, End, Own, Rowless, Waiting, Ended
<1> QED
  BY <1>2, <1>3, <1>4, <1>7, <1>8, OthersStay

\* After finish_run the job itself no longer changes.
LEMMA ReportVerdictW == ASSUME IInv, WInv, NEW r \in Requests, ReportVerdict(r) PROVE WInv'
<1>1. /\ W(r) /\ pc[r] = "report" /\ UNCHANGED <<job, row, move>>
      /\ pc' = [pc EXCEPT ![r] = "ok"] /\ pc'[r] = "ok"
  BY DEF ReportVerdict, WInv, Goto, IInv, TypeOK
<1>2. W(r)'
  BY <1>1 DEF Fresh, Loop, End, Own, OwnBefore, Whole, SkillsOf, Costs, Rowless, Waiting, Looping,
              Executing, Ended
<1> QED
  BY <1>1, <1>2, OthersStay

\* The except branch says nothing of the plan.
LEMMA ReportFailureW == ASSUME IInv, WInv, NEW r \in Requests, ReportFailure(r) PROVE WInv'
<1>1. /\ W(r) /\ UNCHANGED <<job, row, move>>
      /\ pc' = [pc EXCEPT ![r] = "failrow"] /\ pc'[r] = "failrow"
  BY DEF ReportFailure, WInv, Goto, IInv, TypeOK
<1>2. W(r)'
  BY <1>1, Relabelled DEF Looping, Executing, Ended, Rowless, Waiting
<1> QED
  BY <1>1, <1>2, OthersStay

\* A row it closes is not completed.
LEMMA MarkFailedW == ASSUME IInv, WInv, NEW r \in Requests, MarkFailed(r) PROVE WInv'
<1>1. /\ W(r) /\ pc[r] = "failrow" /\ row[r].status # "none" /\ UNCHANGED <<job, move>>
      /\ pc' = [pc EXCEPT ![r] = "error"] /\ pc'[r] = "error"
  BY DEF MarkFailed, WInv, Goto, IInv, TypeOK, RowFollowsJob, Failing
<1>2. /\ row'[r] = row[r] \/ row'[r].status = "failed"
      /\ \A q \in Requests \ {r} : row'[q] = row[q]
  <2>1. "failed" \in Terminal
    BY DEF Terminal
  <2> QED
    BY <2>1, UpdateRowType DEF MarkFailed, IInv
<1>3. W(r)'
  <2>1. Fresh(r)' /\ Loop(r)'
    BY <1>1 DEF Fresh, Loop, Rowless, Waiting, Looping, Executing
  <2>2. End(r)'
    BY <1>1, <1>2 DEF End, Whole, SkillsOf, Costs, Ended
  <2>3. Own(r)'
    BY <1>1, <1>2 DEF Own, OwnBefore, Ended, WInv
  <2> QED
    BY <2>1, <2>2, <2>3
<1> QED
  BY <1>1, <1>2, <1>3, OthersStay

-----------------------------------------------------------------------------
(* The loop *)

\* What the loop knows of its plan, in numbers.
LEMMA PlanFacts ==
  ASSUME IInv, WInv, NEW r \in Requests, pc[r] \in Looping
  PROVE  /\ W(r) /\ row[r].status = "running"
         /\ job[r] \in Jobs /\ job \in [Requests -> Jobs]
         /\ job[r].plan \in Seq(Skills) /\ Len(job[r].plan) \in Nat
         /\ DOMAIN job[r].plan = 1..Len(job[r].plan)
         /\ job[r].pos \in 1..Len(job[r].plan) /\ job[r].pos \in Nat
         /\ job[r].credits \in Nat
<1>1. W(r) /\ job[r] \in Jobs /\ job \in [Requests -> Jobs] /\ row[r].status = "running"
  BY DEF WInv, IInv, TypeOK, RowFollowsJob, Looping, Holding
<1>2. job[r].plan \in Plans /\ job[r].pos \in 1..Len(job[r].plan)
  BY <1>1 DEF Loop
<1>3. job[r].plan \in Seq(Skills)
  BY <1>2, PlansAssumption
<1> QED
  BY <1>1, <1>2, <1>3 DEF Jobs

\* A skill runs once in a plan that names it once: move-next was not run
\* before its own place.
LEMMA MovesOnce ==
  ASSUME IInv, WInv, PlansAreOrders, NEW r \in Requests, pc[r] \in Looping,
         job[r].plan[job[r].pos] = MoveNext
  PROVE  ~MovedBy(r, job[r].pos - 1)
<1>1. /\ job[r].plan \in Plans /\ DOMAIN job[r].plan = 1..Len(job[r].plan)
      /\ job[r].pos \in 1..Len(job[r].plan) /\ Len(job[r].plan) \in Nat
  BY PlanFacts DEF Loop
<1> SUFFICES ASSUME NEW m \in 1..(job[r].pos - 1), job[r].plan[m] = MoveNext PROVE FALSE
  BY DEF MovedBy
<1>2. m \in DOMAIN job[r].plan /\ job[r].pos \in DOMAIN job[r].plan /\ m # job[r].pos
  BY <1>1
<1> QED
  BY <1>1, <1>2 DEF PlansAreOrders

\* The loop goes on with every skill up to this one run and counted.
LEMMA NextSkillW ==
  ASSUME IInv, WInv, NEW r \in Requests, pc[r] \in {"save", "record"}, NEW c \in Nat,
         NextSkill(r, c), row' = row, move' = move, c = Cardinality(Paid(r, job[r].pos))
  PROVE  WInv'
<1>1. /\ W(r) /\ row[r].status = "running" /\ job[r] \in Jobs /\ job \in [Requests -> Jobs]
      /\ job[r].pos \in 1..Len(job[r].plan) /\ Len(job[r].plan) \in Nat /\ job[r].pos \in Nat
  BY PlanFacts DEF Looping, Executing
<1>2. /\ job[r].plan \in Plans
      /\ \A m \in 1..job[r].pos : job[r].ctx[job[r].plan[m]] = r
      /\ MovedBy(r, job[r].pos) \/ move[r] = "none"
  BY <1>1 DEF Loop, Ran, Looping, Executing
<1>3. ASSUME job'[r].plan = job[r].plan, job'[r].ctx = job[r].ctx, job'[r].kind = job[r].kind,
             pc'[r] \in {"skill", "finish"}
      PROVE  Fresh(r)' /\ End(r)' /\ Own(r)'
  BY <1>1, <1>3 DEF Fresh, End, Own, OwnBefore, Rowless, Waiting, Ended
<1>4. PICK n \in Nat : n = job[r].pos
  BY <1>1
<1>5. CASE job[r].pos < Len(job[r].plan)
  <2>1. /\ job' = [job EXCEPT ![r] = [job[r] EXCEPT !.pos = job[r].pos + 1, !.credits = c]]
        /\ pc' = [pc EXCEPT ![r] = "skill"] /\ pc'[r] = "skill"
    BY <1>1, <1>5 DEF NextSkill, Goto, IInv, TypeOK
  <2>2. /\ job'[r].pos = n + 1 /\ job'[r].credits = c /\ job'[r].plan = job[r].plan
        /\ job'[r].ctx = job[r].ctx /\ job'[r].kind = job[r].kind
        /\ \A q \in Requests \ {r} : job'[q] = job[q]
    BY <1>1, <1>4, <2>1 DEF Jobs
  <2>3. /\ Ran(r)' = n /\ MovedBy(r, n)' = MovedBy(r, n) /\ Paid(r, n)' = Paid(r, n)
    BY <1>4, <1>1, <2>1, <2>2 DEF Ran, MovedBy, Paid, Costs
  <2>4. /\ MovedBy(r, Ran(r))' = MovedBy(r, n)'
        /\ Paid(r, job[r].pos - 1)' = Paid(r, n)'
    BY <2>2, <2>3 DEF Paid, Costs, MovedBy
  <2>5. Loop(r)'
    BY <1>1, <1>2, <1>4, <1>5, <2>1, <2>2, <2>3, <2>4 DEF Loop
  <2> QED
    BY <1>3, <2>1, <2>2, <2>5, OthersStay
<1>6. CASE ~(job[r].pos < Len(job[r].plan))
  <2>1. /\ job' = [job EXCEPT ![r] = [job[r] EXCEPT !.credits = c]]
        /\ pc' = [pc EXCEPT ![r] = "finish"] /\ pc'[r] = "finish"
        /\ n = Len(job[r].plan)
    BY <1>1, <1>4, <1>6 DEF NextSkill, Goto, IInv, TypeOK
  <2>2. /\ job'[r].pos = n /\ job'[r].credits = c /\ job'[r].plan = job[r].plan
        /\ job'[r].ctx = job[r].ctx /\ job'[r].kind = job[r].kind
        /\ \A q \in Requests \ {r} : job'[q] = job[q]
    BY <1>1, <1>4, <2>1 DEF Jobs
  <2>3. /\ Ran(r)' = n /\ MovedBy(r, n)' = MovedBy(r, n) /\ Paid(r, n)' = Paid(r, n)
    BY <1>4, <1>1, <2>1, <2>2 DEF Ran, MovedBy, Paid, Costs
  <2>4. /\ MovedBy(r, Ran(r))' = MovedBy(r, n)'
        /\ Paid(r, job[r].pos)' = Paid(r, n)'
    BY <2>2, <2>3 DEF Paid, Costs, MovedBy
  <2>5. Loop(r)'
    BY <1>1, <1>2, <1>4, <2>1, <2>2, <2>3, <2>4 DEF Loop
  <2> QED
    BY <1>3, <2>1, <2>2, <2>5, OthersStay
<1> QED
  BY <1>5, <1>6

\* A skill that returns has its artifact in ctx; move-next also says how the
\* workflow took it, once, at its own place in the plan.
LEMMA RunSkillW ==
  ASSUME IInv, WInv, PlansAreOrders, NEW r \in Requests, RunSkill(r)
  PROVE  WInv'
<1>1. pc[r] = "skill" /\ row' = row
  BY DEF RunSkill
<1>2. /\ W(r) /\ row[r].status = "running" /\ job[r] \in Jobs /\ job \in [Requests -> Jobs]
      /\ job[r].pos \in 1..Len(job[r].plan) /\ Len(job[r].plan) \in Nat /\ job[r].pos \in Nat
      /\ DOMAIN job[r].plan = 1..Len(job[r].plan) /\ job[r].plan \in Seq(Skills)
  BY <1>1, PlanFacts DEF Looping, Executing
<1>3. PICK n \in Nat : n = job[r].pos
  BY <1>2
<1>4. /\ job[r].plan \in Plans
      /\ \A m \in 1..(n - 1) : job[r].ctx[job[r].plan[m]] = r
      /\ MovedBy(r, n - 1) \/ move[r] = "none"
      /\ job[r].credits = Cardinality(Paid(r, n - 1))
  BY <1>1, <1>2, <1>3 DEF Loop, Ran, Looping, Executing
<1>5. CASE Goto(r, "fail") /\ job' = job /\ move' = move
  <2>1. pc' = [pc EXCEPT ![r] = "fail"] /\ pc'[r] = "fail"
    BY <1>5 DEF Goto, IInv, TypeOK
  <2>2. W(r)'
    BY <1>1, <1>2, <1>5, <2>1, Relabelled DEF Looping, Executing, Ended, Rowless, Waiting
  <2> QED
    BY <1>1, <1>5, <2>1, <2>2, OthersStay
<1>6. CASE /\ SkillReturns(r) \/ MoveNextReturns(r)
           /\ job' = [job EXCEPT ![r].ctx[SkillAt(r)] = r]
           /\ Goto(r, "save")
  <2>1. pc' = [pc EXCEPT ![r] = "save"] /\ pc'[r] = "save"
    BY <1>6 DEF Goto, IInv, TypeOK
  <2>2. job[r].plan[n] \in Skills /\ SkillAt(r) = job[r].plan[n]
    BY <1>2, <1>3 DEF SkillAt
  <2>3. /\ job'[r].pos = n /\ job'[r].credits = job[r].credits /\ job'[r].plan = job[r].plan
        /\ job'[r].kind = job[r].kind
        /\ job'[r].ctx = [job[r].ctx EXCEPT ![job[r].plan[n]] = r]
        /\ \A q \in Requests \ {r} : job'[q] = job[q]
    BY <1>2, <1>3, <1>6, <2>2 DEF Jobs
  <2>4. \A q \in Requests \ {r} : move'[q] = move[q]
    BY <1>6 DEF SkillReturns, MoveNextReturns, IInv, TypeOK
  <2>5. \A s \in Skills : job[r].ctx[s] = r \/ s = job[r].plan[n] => job'[r].ctx[s] = r
    BY <1>2, <2>3 DEF Jobs
  <2>6. \A m \in 1..n : job'[r].ctx[job'[r].plan[m]] = r
    <3>1. \A m \in 1..n : job[r].plan[m] \in Skills
      BY <1>2, <1>3
    <3>2. \A m \in 1..n : m \in 1..(n - 1) \/ m = n
      OBVIOUS
    <3> QED
      BY <1>4, <2>3, <2>5, <3>1, <3>2
  <2>7. /\ Ran(r)' = n /\ MovedBy(r, n)' = MovedBy(r, n)
        /\ MovedBy(r, n - 1)' = MovedBy(r, n - 1)
        /\ MovedBy(r, Ran(r))' = MovedBy(r, n)' /\ Paid(r, job[r].pos - 1)' = Paid(r, n - 1)'
    BY <1>3, <2>1, <2>3 DEF Ran, MovedBy, Paid, Costs
  <2>8. (MovedBy(r, n) \/ move'[r] = "none") /\ Paid(r, n - 1)' = Paid(r, n - 1)
    <3>1. CASE SkillReturns(r)
      <4>1. MovedBy(r, n - 1) => MovedBy(r, n)
        BY DEF MovedBy
      <4> QED
        BY <1>4, <2>3, <3>1, <4>1 DEF SkillReturns, Paid, Costs
    <3>2. CASE MoveNextReturns(r)
      <4>1. ~MovedBy(r, n - 1)
        BY <1>1, <1>3, <2>2, <3>2, MovesOnce DEF MoveNextReturns, Looping, Executing
      <4>2. MovedBy(r, n)
        <5>1. n \in 1..n /\ job[r].plan[n] = MoveNext
          BY <1>2, <1>3, <2>2, <3>2 DEF MoveNextReturns
        <5> QED
          BY <5>1 DEF MovedBy
      <4> QED
        BY <2>3, <4>1, <4>2 DEF Paid, Costs, MovedBy
    <3> QED
      BY <1>6, <3>1, <3>2
  <2>9. Loop(r)'
    BY <1>2, <1>3, <1>4, <2>1, <2>3, <2>6, <2>7, <2>8 DEF Loop
  <2>10. Fresh(r)' /\ End(r)'
    BY <1>1, <1>2, <2>1 DEF Fresh, End, Rowless, Waiting, Ended
  <2>11. Own(r)'
    <3> SUFFICES ASSUME job'[r].kind # "explicit"
                 PROVE  /\ job'[r].plan \in DefaultPlans
                        /\ move'[r] \in {"ok", "failed"} => OwnBefore(r)'
      BY <1>1, <1>2, <2>1 DEF Own, Ended
    <3>1. /\ job[r].plan \in DefaultPlans
          /\ move[r] \in {"ok", "failed"} => OwnBefore(r)
      BY <1>2, <2>3 DEF Own
    <3>2. \A m \in DOMAIN job[r].plan : job[r].plan[m] \in Skills
      BY <1>2
    <3>3. CASE move' = move
      <4>1. OwnBefore(r) => OwnBefore(r)'
        BY <2>3, <2>5, <3>2 DEF OwnBefore
      <4> QED
        BY <2>3, <3>1, <3>3, <4>1
    <3>4. CASE MoveNextReturns(r)
      <4>1. ASSUME NEW m \in DOMAIN job[r].plan, NEW k \in DOMAIN job[r].plan,
                   job[r].plan[k] = MoveNext, m < k
            PROVE  job[r].ctx[job[r].plan[m]] = r
        <5>1. k = n
          BY <1>2, <1>3, <1>4, <2>2, <3>4, <4>1 DEF MoveNextReturns, PlansAreOrders
        <5>2. m \in 1..(n - 1)
          BY <1>2, <4>1, <5>1
        <5> QED
          BY <1>4, <5>2
      <4>2. OwnBefore(r)'
        BY <2>3, <2>5, <3>2, <4>1 DEF OwnBefore
      <4> QED
        BY <2>3, <3>1, <4>2
    <3> QED
      BY <1>6, <3>3, <3>4 DEF SkillReturns
  <2> QED
    BY <1>1, <2>1, <2>3, <2>4, <2>9, <2>10, <2>11, OthersStay
<1> QED
  BY <1>5, <1>6 DEF RunSkill

\* A skill is charged, or costs nothing and the loop goes on.
LEMMA SaveArtifactW ==
  ASSUME IInv, WInv, PlansAreOrders, NEW r \in Requests, SaveArtifact(r)
  PROVE  WInv'
<1>1. pc[r] = "save" /\ row' = row /\ move' = move
  BY DEF SaveArtifact
<1>2. /\ W(r) /\ row[r].status = "running" /\ job[r] \in Jobs
      /\ job[r].pos \in 1..Len(job[r].plan) /\ job[r].pos \in Nat /\ job[r].credits \in Nat
  BY <1>1, PlanFacts DEF Looping, Executing
<1>3. CASE IsCharged(r) /\ Goto(r, "charge") /\ job' = job
  <2>1. pc' = [pc EXCEPT ![r] = "charge"] /\ pc'[r] = "charge"
    BY <1>3 DEF Goto, IInv, TypeOK
  <2>2. /\ Ran(r)' = Ran(r) /\ IsCharged(r)' /\ MovedBy(r, Ran(r))' = MovedBy(r, Ran(r))
        /\ Paid(r, job[r].pos - 1)' = Paid(r, job[r].pos - 1)
    BY <1>1, <1>3, <2>1 DEF Ran, MovedBy, Paid, Costs, IsCharged, SkillAt
  <2>3. Loop(r)'
    BY <1>1, <1>2, <1>3, <2>1, <2>2 DEF Loop, Looping, Executing
  <2>4. Fresh(r)' /\ End(r)' /\ Own(r)'
    BY <1>1, <1>2, <1>3, <2>1 DEF Fresh, End, Own, OwnBefore, Rowless, Waiting, Ended
  <2> QED
    BY <1>1, <1>3, <2>1, <2>3, <2>4, OthersStay
<1>4. CASE ~IsCharged(r) /\ NextSkill(r, job[r].credits)
  <2>1. job[r].credits = Cardinality(Paid(r, job[r].pos - 1))
    BY <1>1, <1>2 DEF Loop, Looping, Executing
  <2>2. ~Costs(r, job[r].pos)
    BY <1>4, ChargedCosts
  <2>3. Cardinality(Paid(r, job[r].pos)) = job[r].credits + 0
    BY <1>2, <2>1, <2>2, PaidNext
  <2>4. job[r].credits = Cardinality(Paid(r, job[r].pos))
    BY <1>2, <2>3
  <2> QED
    BY <1>1, <1>2, <1>4, <2>4, NextSkillW
<1> QED
  BY <1>3, <1>4 DEF SaveArtifact, AfterSave

\* The charge changes charge_status only.
LEMMA ChargeW == ASSUME IInv, WInv, NEW r \in Requests, Charge(r) PROVE WInv'
<1>1. pc[r] = "charge" /\ row' = row /\ move' = move
  BY DEF Charge
<1>2. /\ W(r) /\ row[r].status = "running" /\ job[r] \in Jobs /\ job \in [Requests -> Jobs]
  BY <1>1, PlanFacts DEF Looping, Executing
<1>3. PICK c : job' = [job EXCEPT ![r] = [job[r] EXCEPT !.charge = c]]
  BY <1>2 DEF Charge, ChargeAccepted, ChargeHollow, ChargeRefused, ChargeUnanswered
<1>4. /\ job'[r].pos = job[r].pos /\ job'[r].credits = job[r].credits
      /\ job'[r].plan = job[r].plan /\ job'[r].ctx = job[r].ctx /\ job'[r].kind = job[r].kind
      /\ \A q \in Requests \ {r} : job'[q] = job[q]
  BY <1>2, <1>3 DEF Jobs
<1>5. pc' = [pc EXCEPT ![r] = "record"] /\ pc'[r] = "record"
  BY DEF Charge, Goto, IInv, TypeOK
<1>6. /\ Ran(r)' = Ran(r) /\ IsCharged(r)' = IsCharged(r)
      /\ MovedBy(r, Ran(r))' = MovedBy(r, Ran(r))
      /\ Paid(r, job[r].pos - 1)' = Paid(r, job[r].pos - 1)
  BY <1>1, <1>4, <1>5 DEF Ran, MovedBy, Paid, Costs, IsCharged, SkillAt
<1>7. Loop(r)'
  BY <1>1, <1>2, <1>4, <1>5, <1>6 DEF Loop, Looping, Executing
<1>8. Fresh(r)' /\ End(r)' /\ Own(r)'
  BY <1>1, <1>2, <1>4, <1>5 DEF Fresh, End, Own, OwnBefore, Rowless, Waiting, Ended
<1> QED
  BY <1>1, <1>4, <1>5, <1>7, <1>8, OthersStay

\* The record counts the credit of the skill at hand.
LEMMA RecordCreditW == ASSUME IInv, WInv, NEW r \in Requests, RecordCredit(r) PROVE WInv'
<1>1. pc[r] = "record" /\ row' = row /\ move' = move /\ NextSkill(r, job[r].credits + 1)
  BY DEF RecordCredit
<1>2. /\ W(r) /\ job[r].pos \in 1..Len(job[r].plan) /\ job[r].pos \in Nat
      /\ job[r].credits \in Nat
  BY <1>1, PlanFacts DEF Looping, Executing
<1>3. IsCharged(r) /\ job[r].credits = Cardinality(Paid(r, job[r].pos - 1))
  BY <1>1, <1>2 DEF Loop, Looping, Executing
<1>4. Costs(r, job[r].pos)
  BY <1>3, ChargedCosts
<1>5. job[r].credits + 1 \in Nat /\ job[r].credits + 1 = Cardinality(Paid(r, job[r].pos))
  BY <1>2, <1>3, <1>4, PaidNext
<1> QED
  BY <1>1, <1>5, NextSkillW

\* finish_run: the loop is through, so the plan is, and the verdict is about
\* this run's own move-next wherever the plan has one.
LEMMA FinishRunW == ASSUME IInv, WInv, NEW r \in Requests, FinishRun(r) PROVE WInv'
<1>1. pc[r] = "finish" /\ UNCHANGED <<job, move>>
  BY DEF FinishRun
<1>2. /\ W(r) /\ row[r].status = "running" /\ Len(job[r].plan) \in Nat
      /\ DOMAIN job[r].plan = 1..Len(job[r].plan)
  BY <1>1, PlanFacts DEF Looping
<1>3. /\ job[r].pos = Len(job[r].plan)
      /\ \A m \in 1..Len(job[r].plan) : job[r].ctx[job[r].plan[m]] = r
      /\ MovedBy(r, Len(job[r].plan)) \/ move[r] = "none"
      /\ job[r].credits = Cardinality(Paid(r, Len(job[r].plan)))
  BY <1>1, <1>2 DEF Loop, Ran, Looping
<1>4. Whole(r) /\ Whole(r)'
  BY <1>1, <1>2, <1>3 DEF Whole, SkillsOf, MovedBy
<1>5. /\ job[r].credits = Cardinality({n \in DOMAIN job[r].plan : Costs(r, n)})
      /\ {n \in DOMAIN job[r].plan : Costs(r, n)}' = {n \in DOMAIN job[r].plan : Costs(r, n)}
  BY <1>1, <1>2, <1>3 DEF Paid, Costs
<1>6. MoveNext \in SkillsOf(job[r].plan) => (MoveFailed(r) <=> move[r] = "failed")
  BY <1>4, RequestsAssumption DEF Whole, MoveFailed
<1>7. Verdict(r) \in Terminal
  BY DEF Verdict, Terminal
<1>8. PICK label \in {"report", "fail"} : pc' = [pc EXCEPT ![r] = label]
  BY DEF FinishRun, Goto
<1>9. /\ label = "report" => UpdateRow(r, Verdict(r))
      /\ row' = row \/ UpdateRow(r, Verdict(r))
  BY <1>1, <1>8 DEF FinishRun, Goto, IInv, TypeOK
<1>10. /\ \A q \in Requests \ {r} : row'[q] = row[q]
       /\ \/ row'[r] = row[r] /\ label = "fail"
          \/ row'[r].status = Verdict(r) /\ row'[r].credits = job[r].credits
  <2>1. CASE UpdateRow(r, Verdict(r))
    <3>1. row[r] \in Rows /\ row \in [Requests -> Rows]
      BY DEF IInv, TypeOK
    <3> QED
      BY <2>1, <3>1 DEF UpdateRow, Rows
  <2> QED
    BY <1>8, <1>9, <2>1
<1>11. pc'[r] = label
  BY <1>8 DEF IInv, TypeOK
<1>12. Fresh(r)' /\ Loop(r)'
  BY <1>11 DEF Fresh, Loop, Rowless, Waiting, Looping, Executing
<1>13. End(r)'
  <2>1. Verdict(r) = "completed" => move[r] # "failed"
    BY <1>4, <1>6 DEF Verdict, Whole
  <2> QED
    BY <1>1, <1>2, <1>4, <1>5, <1>10, <2>1 DEF End
<1>14. Own(r)'
  <2>1. OwnBefore(r)' = OwnBefore(r)
    BY <1>1 DEF OwnBefore
  <2> SUFFICES ASSUME job[r].kind # "explicit"
               PROVE  /\ job[r].plan \in DefaultPlans
                      /\ move[r] \in {"ok", "failed"} => OwnBefore(r)
                      /\ (DefaultPlansJudge /\ label = "report" /\ row'[r].status = "failed")
                           => move[r] = "failed"
    BY <1>1, <1>11, <2>1 DEF Own, Ended
  <2>2. /\ job[r].plan \in DefaultPlans
        /\ move[r] \in {"ok", "failed"} => OwnBefore(r)
    BY <1>2 DEF Own
  <2>3. DefaultPlansJudge => MoveNext \in SkillsOf(job[r].plan)
    BY <2>2 DEF DefaultPlansJudge
  <2>4. DefaultPlansJudge /\ Verdict(r) = "failed" => move[r] = "failed"
    BY <1>6, <2>3 DEF Verdict
  <2> QED
    BY <1>10, <2>2, <2>4
<1> QED
  BY <1>1, <1>8, <1>10, <1>12, <1>13, <1>14, OthersStay

\* Every step keeps what is known of every job.
LEMMA NextW == PlansAreOrders /\ IInv /\ WInv /\ [Next]_vars => WInv'
<1> SUFFICES ASSUME PlansAreOrders, IInv, WInv, [Next]_vars PROVE WInv'
  OBVIOUS
<1>1. ASSUME NEW r \in Requests, Submit(r) PROVE WInv'
  BY <1>1, SubmitW
<1>2. ASSUME NEW r \in Requests, Step(r) PROVE WInv'
  BY <1>2, LookupLatestW, AnswerDuplicateW, RefuseSkillsW, CreateRunW, LoadArtifactsW,
     RunSkillW, SaveArtifactW, ChargeW, RecordCreditW, FinishRunW, ReportVerdictW,
     ReportFailureW, MarkFailedW DEF Step
<1>3. CASE Crash
  <2> SUFFICES ASSUME NEW q \in Requests PROVE W(q)'
    BY DEF WInv
  <2>1. UNCHANGED <<job, row, move>> /\ pc'[q] \in {pc[q], "lost"} /\ W(q)
    BY <1>3 DEF Crash, WInv
  <2>2. CASE pc'[q] = pc[q]
    BY <2>1, <2>2, Undisturbed
  <2>3. CASE pc'[q] = "lost"
    BY <2>1, <2>3, Relabelled DEF Looping, Executing, Ended, Rowless, Waiting
  <2> QED
    BY <2>1, <2>2, <2>3
<1>4. CASE UNCHANGED <<pc, job, row, move>>
  BY <1>4, Undisturbed DEF WInv
<1> QED
  BY <1>1, <1>2, <1>3, <1>4 DEF Next, Tick, vars

\* A row says "completed" only if every skill of the plan ran in that very
\* run, its move-next did not fail, and one credit was counted for each skill
\* that has one: for any plans that name no skill twice.
THEOREM CompletedIsWhole ==
  ASSUME PlansAreOrders PROVE Spec => []CompletedRunIsWhole
<1>1. ASSUME NEW r \in Requests
      PROVE  {n \in DOMAIN job[r].plan : Costs(r, n)} =
             {n \in DOMAIN job[r].plan :
                job[r].plan[n] \notin {Progress} \union (IF move[r] = "skipped" THEN {MoveNext} ELSE {})}
  BY DEF Costs
<1>2. WInv => CompletedRunIsWhole
  BY <1>1 DEF WInv, End, Whole, CompletedRunIsWhole
<1>3. IInv /\ WInv /\ [Next]_vars => WInv'
  BY NextW
<1> QED
  BY <1>2, <1>3, InitW, Invariance, PTL DEF Spec

\* What a run of the default pipeline posts is its own decision, made after
\* every skill the order puts before move-next ran in that run, and only its
\* own move-next can fail it: for any default plans that finalize before they
\* move on.
THEOREM DefaultPostsOwn ==
  ASSUME PlansAreOrders, DefaultPlansJudge PROVE Spec => []DefaultRunPostsOwnDecision
<1>1. ASSUME WInv, NEW r \in Requests, job[r].kind # "explicit", row[r].status # "none"
      PROVE  /\ move[r] \in {"ok", "failed"} =>
                  /\ job[r].ctx[Finalize] = r
                  /\ \A m, n \in DOMAIN job[r].plan :
                       job[r].plan[n] = MoveNext /\ m < n => job[r].ctx[job[r].plan[m]] = r
             /\ (pc[r] = "ok" /\ row[r].status = "failed") => move[r] = "failed"
  <2>1. Own(r)
    BY <1>1 DEF WInv
  <2>2. job[r].plan \in DefaultPlans /\ (move[r] \in {"ok", "failed"} => OwnBefore(r))
    BY <1>1, <2>1 DEF Own
  <2>3. OwnBefore(r) => job[r].ctx[Finalize] = r
    <3>1. job[r].plan \in Seq(Skills)
      BY <2>2, PlansAssumption DEF Plans
    <3>2. PICK n \in DOMAIN job[r].plan : job[r].plan[n] = MoveNext
      BY <2>2 DEF DefaultPlansJudge, SkillsOf
    <3>3. PICK m \in 1..(n - 1) : job[r].plan[m] = Finalize
      BY <2>2, <3>2 DEF DefaultPlansJudge
    <3>4. n \in Nat /\ m \in DOMAIN job[r].plan /\ m < n
      BY <3>1, <3>3
    <3> QED
      BY <3>2, <3>3, <3>4 DEF OwnBefore
  <2> QED
    BY <1>1, <2>1, <2>2, <2>3 DEF Own, OwnBefore, Ended
<1>2. WInv => DefaultRunPostsOwnDecision
  BY <1>1 DEF DefaultRunPostsOwnDecision
<1>3. IInv /\ WInv /\ [Next]_vars => WInv'
  BY NextW
<1> QED
  BY <1>2, <1>3, InitW, Invariance, PTL DEF Spec

-----------------------------------------------------------------------------
(* What the ticket shows *)

\* q ran item i to its end, with a move-next that did not fail.
Earned(q, i) ==
  /\ q \in RowsOf(i)
  /\ row[q].status \in Terminal
  /\ move[q] # "failed"
  /\ \A s \in SkillsOf(job[q].plan) : job[q].ctx[s] = q

EarnedInv ==
  /\ \A i \in Items : ticket[i] = "completed" => \E q \in Requests : Earned(q, i)
  /\ \A r \in Requests : pc[r] \in Given => Earned(job[r].source, job[r].item)

\* A job that has answered, or is past finish_run, changes no more.
LEMMA SettledStays ==
  ASSUME IInv, [Next]_vars, NEW q \in Requests, row[q].status \in Terminal
  PROVE  job'[q] = job[q] /\ move'[q] = move[q]
<1>1. pc[q] \notin Rowless \union Holding
  BY DEF IInv, RowFollowsJob, Terminal
<1>2. job \in [Requests -> Jobs] /\ move \in [Requests -> {"none", "skipped", "ok", "failed"}]
  BY DEF IInv, TypeOK
<1>3. ASSUME NEW r \in Requests, pc[r] \in Rowless \union Holding,
             \A p \in Requests \ {r} : job'[p] = job[p],
             \A p \in Requests \ {r} : move'[p] = move[p]
      PROVE  job'[q] = job[q] /\ move'[q] = move[q]
  BY <1>1, <1>3
<1>4. ASSUME NEW r \in Requests, Submit(r) PROVE job'[q] = job[q] /\ move'[q] = move[q]
  BY <1>2, <1>3, <1>4 DEF Submit, Rowless
<1>5. ASSUME NEW r \in Requests, LookupLatest(r) \/ AnswerDuplicate(r) \/ CreateRun(r)
      PROVE  job'[q] = job[q] /\ move'[q] = move[q]
  <2>1. pc[r] \in Rowless /\ move' = move
    BY <1>5 DEF LookupLatest, AnswerDuplicate, CreateRun, Rowless, Waiting
  <2>2. \A p \in Requests \ {r} : job'[p] = job[p]
    BY <1>2, <1>5 DEF LookupLatest, AnswerDuplicate, CreateRun
  <2> QED
    BY <1>3, <2>1, <2>2
<1>6. ASSUME NEW r \in Requests, LoadArtifacts(r) \/ RunSkill(r)
      PROVE  job'[q] = job[q] /\ move'[q] = move[q]
  <2>1. /\ pc[r] \in Holding
        /\ \A p \in Requests \ {r} : job'[p] = job[p]
    BY <1>2, <1>6 DEF LoadArtifacts, RunSkill, Holding, Executing
  <2>2. \A p \in Requests \ {r} : move'[p] = move[p]
    BY <1>2, <1>6 DEF LoadArtifacts, RunSkill, SkillReturns, MoveNextReturns
  <2> QED
    BY <1>3, <2>1, <2>2
<1>7. ASSUME NEW r \in Requests, SaveArtifact(r) \/ RecordCredit(r)
      PROVE  job'[q] = job[q] /\ move'[q] = move[q]
  <2>1. /\ pc[r] \in Holding /\ move' = move
        /\ \A p \in Requests \ {r} : job'[p] = job[p]
    BY <1>2, <1>7 DEF SaveArtifact, AfterSave, RecordCredit, NextSkill, Holding, Executing
  <2> QED
    BY <1>3, <2>1
<1>8. ASSUME NEW r \in Requests, Charge(r) PROVE job'[q] = job[q] /\ move'[q] = move[q]
  <2>1. /\ pc[r] \in Holding /\ move' = move
        /\ \A p \in Requests \ {r} : job'[p] = job[p]
    BY <1>2, <1>8 DEF Charge, ChargeAccepted, ChargeHollow, ChargeRefused, ChargeUnanswered,
                    Holding, Executing
  <2> QED
    BY <1>3, <2>1
<1>9. ASSUME NEW r \in Requests,
             RefuseSkills(r) \/ FinishRun(r) \/ ReportVerdict(r) \/ ReportFailure(r) \/ MarkFailed(r)
      PROVE  job' = job /\ move' = move
  BY <1>9 DEF RefuseSkills, FinishRun, ReportVerdict, ReportFailure, MarkFailed
<1>10. CASE Crash \/ Tick \/ UNCHANGED vars
  BY <1>10 DEF Crash, Tick, vars
<1> QED
  BY <1>4, <1>5, <1>6, <1>7, <1>8, <1>9, <1>10 DEF Next, Step

\* What was earned stays earned.
LEMMA EarnedStays ==
  ASSUME IInv, [Next]_vars, NEW q, NEW i, Earned(q, i)
  PROVE  /\ q \in {p \in Requests : row'[p].status # "none" /\ job'[p].item = i}
         /\ row'[q].status \in Terminal
         /\ move'[q] # "failed"
         /\ \A s \in SkillsOf(job'[q].plan) : job'[q].ctx[s] = q
<1>1. /\ q \in Requests /\ job[q].item = i /\ row[q].status \in Terminal /\ move[q] # "failed"
      /\ \A s \in SkillsOf(job[q].plan) : job[q].ctx[s] = q
  BY DEF Earned, RowsOf
<1>2. job'[q] = job[q] /\ move'[q] = move[q] /\ Rewritten(q)
  BY <1>1, SettledStays, StepRewrites
<1>3. row'[q].status \in Terminal
  BY <1>1, <1>2 DEF Rewritten, Terminal
<1> QED
  BY <1>1, <1>2, <1>3 DEF Terminal

\* Only the verdict of a run that was right to say so, and the answer to its
\* duplicate, put COMPLETED on a ticket.
LEMMA TicketShows ==
  ASSUME IInv, WInv, EarnedInv, [Next]_vars, NEW i \in Items, ticket'[i] = "completed"
  PROVE  \E q \in Requests : Earned(q, i)
<1>1. CASE ticket[i] = "completed"
  BY <1>1 DEF EarnedInv
<1>2. ASSUME NEW r \in Requests, ReportVerdict(r), ticket[i] # "completed"
      PROVE  Earned(r, i)
  <2>1. i = job[r].item /\ Verdict(r) = "completed"
    BY <1>2 DEF ReportVerdict, Report, IInv, TypeOK
  <2>2. /\ pc[r] = "report" /\ row[r].status \in Terminal /\ Whole(r)
        /\ row[r].status # "none"
    BY <1>2 DEF ReportVerdict, WInv, End, Ended, IInv, RowFollowsJob, Terminal
  <2>3. move[r] # "failed"
    BY <2>1, <2>2, RequestsAssumption DEF Whole, Verdict, MoveFailed
  <2> QED
    BY <2>1, <2>2, <2>3 DEF Earned, RowsOf, Whole
<1>3. ASSUME NEW r \in Requests, AnswerDuplicate(r), ticket[i] # "completed"
      PROVE  Earned(job[r].source, i)
  <2>1. i = job[r].item /\ pc[r] = "dedupe"
    BY <1>3 DEF AnswerDuplicate, Report, IInv, TypeOK
  <2> QED
    BY <2>1 DEF EarnedInv, Given
<1>4. ASSUME NEW r \in Requests, RunSkill(r) \/ ReportFailure(r)
      PROVE  ticket[i] = "completed"
  BY <1>4 DEF RunSkill, ReportFailure, Report, IInv, TypeOK
<1>5. \/ ticket' = ticket
      \/ \E r \in Requests : ReportVerdict(r) \/ AnswerDuplicate(r) \/ RunSkill(r) \/ ReportFailure(r)
  BY DEF Next, Step, Submit, LookupLatest, RefuseSkills, CreateRun, LoadArtifacts, SaveArtifact,
         Charge, RecordCredit, FinishRun, MarkFailed, Crash, Tick, vars
<1> QED
  BY <1>1, <1>2, <1>3, <1>4, <1>5 DEF Earned, RowsOf

\* Every step keeps COMPLETED earned, on the ticket and in an answer.
LEMMA NextEarned == IInv /\ WInv /\ EarnedInv /\ [Next]_vars => EarnedInv'
<1> SUFFICES ASSUME IInv, WInv, EarnedInv, [Next]_vars PROVE EarnedInv'
  OBVIOUS
<1>1. ASSUME NEW i \in Items, ticket'[i] = "completed"
      PROVE  \E q \in Requests : Earned(q, i)'
  <2>1. PICK q \in Requests : Earned(q, i)
    BY <1>1, TicketShows
  <2> QED
    BY <2>1, EarnedStays DEF Earned, RowsOf
<1>2. ASSUME NEW r \in Requests, pc'[r] \in Given
      PROVE  Earned(job[r].source, job[r].item)'
  <2>1. Remembers(r)
    BY NextRemembers
  <2>2. pc[r] # "new"
    BY <1>2, <2>1 DEF Remembers, Given
  <2>3. PICK i : i = job[r].item /\ job'[r].item = i
    BY <2>1, <2>2 DEF Remembers
  <2>4. PICK q : q = job'[r].source
    OBVIOUS
  <2>5. Earned(q, i)
    <3>1. CASE pc[r] \in Given /\ q = job[r].source
      BY <2>3, <3>1 DEF EarnedInv
    <3>2. CASE q \in Requests /\ DedupeHit(q, i)
      <4>1. q \in RowsOf(i) /\ row[q].status = "completed"
        BY <3>2 DEF DedupeHit, IsLatest
      <4>2. Whole(q) /\ move[q] # "failed"
        BY <3>2, <4>1 DEF WInv, End
      <4> QED
        BY <4>1, <4>2 DEF Earned, Whole, Terminal
    <3> QED
      BY <1>2, <2>1, <2>3, <2>4, <3>1, <3>2 DEF Remembers
  <2> QED
    BY <2>3, <2>4, <2>5, EarnedStays DEF Earned, RowsOf
<1> QED
  BY <1>1, <1>2 DEF EarnedInv

\* The ticket shows COMPLETED only if some run of the item got to its end
\* with a move-next call that did not fail: for any plans that name no skill
\* twice.
THEOREM CompletedIsEarned ==
  ASSUME PlansAreOrders PROVE Spec => []NoFakeCompleted
<1>1. Init => EarnedInv
  BY DEF Init, EarnedInv, Given
<1>2. ASSUME IInv, WInv, EarnedInv, NEW i \in Items, ticket[i] = "completed"
      PROVE  \E q \in RowsOf(i) :
               /\ row[q].status \in Terminal /\ move[q] # "failed"
               /\ SkillsOf(job[q].plan) \subseteq {s \in Skills : job[q].ctx[s] = q}
  <2>1. PICK q \in Requests : Earned(q, i)
    BY <1>2 DEF EarnedInv
  <2>2. SkillsOf(job[q].plan) \subseteq Skills
    <3>1. job[q].plan \in Plans \/ job[q].plan = <<>>
      BY <1>2 DEF IInv, TypeOK, Jobs
    <3> QED
      BY <3>1 DEF Skills, SkillsOf
  <2> QED
    BY <2>1, <2>2 DEF Earned
<1>3. IInv /\ WInv /\ EarnedInv => NoFakeCompleted
  BY <1>2 DEF NoFakeCompleted
<1>4. IInv /\ WInv /\ [Next]_vars => WInv'
  BY NextW
<1> QED
  BY <1>1, <1>3, <1>4, InitW, NextEarned, Invariance, PTL DEF Spec
=============================================================================
