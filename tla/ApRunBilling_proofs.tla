------------------------ MODULE ApRunBilling_proofs ------------------------
(***************************************************************************)
(* Proofs about the money of ApRun, for any jobs, plans and faults: what   *)
(* EZOFIS charged (charges) against what the tenant's tables say of it     *)
(* (ap_runs.credits_charged and ap_credit_ledger).                         *)
(*                                                                         *)
(* Only _charge and record_credit touch the three; every other step keeps  *)
(* a job's credits, its place between the two, and the row it has, or      *)
(* copies the credits into the row.  BillInv, HonestInv and GapInv are the *)
(* strengthenings: what is owed between the charge and its record.         *)
(* PlaceInv says that a job books each place of its plan once.             *)
(***************************************************************************)
EXTENDS ApRun_proofs

USE DEF tables, outside, env

ChargesOf(r) == {c \in charges : c[1] = r}

\* At "record" one credit may be charged and not yet counted; a job that died
\* has no row to answer for unless the row was final.
BillInv ==
  /\ IsFiniteSet(charges)
  /\ \A r \in Requests :
       /\ pc[r] = "record" => Cardinality(ChargesOf(r)) <= job[r].credits + 1
       /\ pc[r] \notin {"record", "lost"} => Cardinality(ChargesOf(r)) <= job[r].credits
       /\ row[r].status \in Terminal => Cardinality(ChargesOf(r)) <= row[r].credits

\* Nothing is charged or booked before the loop, and in it only for the places
\* the job has left, or is at when _charge has answered.
Before == Rowless \union {"load"}
Counting == {"skill", "save", "charge"}
Spots == charges \union {<<e[1], e[2]>> : e \in ledger}
PlaceInv ==
  \A c \in Spots :
    /\ c[1] \in Requests /\ c[2] \in Nat
    /\ pc[c[1]] \notin Before
    /\ pc[c[1]] \in Counting => c[2] < job[c[1]].pos
    /\ pc[c[1]] = "record" => c[2] <= job[c[1]].pos

\* The ledger and what the jobs at "record" are about to write there; the
\* entries of it that do not say what EZOFIS did.
ToWrite(r) == <<r, job[r].pos, job[r].charge>>
Told == ledger \union {ToWrite(r) : r \in {q \in Requests : pc[q] = "record"}}
Wrong == {e \in Told : (e[3] = "charged") # (<<e[1], e[2]>> \in charges)}
HonestInv == Live => IsFiniteSet(Wrong) /\ Cardinality(Wrong) <= faults

\* The charges without a ledger row, but for the one a job is about to record
\* (or was, when the process died).
Unrecorded == {c \in charges : \A e \in ledger : <<e[1], e[2]>> # c}
AboutToRecord == {c \in charges : pc[c[1]] \in {"record", "lost"} /\ c[2] = job[c[1]].pos}
Gaps == Unrecorded \ AboutToRecord
GapInv == IsFiniteSet(Gaps) /\ Cardinality(Gaps) <= faults

-----------------------------------------------------------------------------
(* What a step other than _charge and record_credit does to a job *)

Keeps(q) ==
  /\ job'[q].credits = job[q].credits
  /\ pc[q] = "record" => pc'[q] \in {"record", "lost"}
  /\ pc[q] = "lost" => pc'[q] = "lost"
  /\ pc'[q] = "record" => pc[q] = "record"
  /\ pc[q] \in {"record", "lost"} => /\ job'[q].pos = job[q].pos
                                     /\ job'[q].charge = job[q].charge
  /\ \/ row'[q] = row[q]
     \/ row'[q].status = "running"
     \/ pc[q] \in {"finish", "failrow"} /\ row'[q].credits = job[q].credits
  /\ pc'[q] \in Before => pc[q] \in Before
  /\ pc'[q] \in Counting =>
       pc[q] \in Before \/ (pc[q] \in Counting /\ job[q].pos <= job'[q].pos)

BillsNothing ==
  /\ charges' = charges /\ ledger' = ledger
  /\ faults' \in {faults, faults + 1}
  /\ \A q \in Requests : Keeps(q)

\* A job's step from a place outside record/lost that keeps its credits and
\* its row keeps everything, its own and that of the others.
LEMMA KeepsRows ==
  ASSUME IInv, NEW r \in Requests, NEW label \in {"lookup", "dedupe", "create", "conflict",
           "deduplicated", "unavailable", "error", "load", "skill", "save", "charge", "finish",
           "fail", "failrow", "report", "ok"},
         pc[r] \notin {"record", "lost"}, pc' = [pc EXCEPT ![r] = label],
         \A q \in Requests \ {r} : job'[q] = job[q],
         job'[r].credits = job[r].credits,
         \A q \in Requests \ {r} : row'[q] = row[q],
         \/ row'[r] = row[r]
         \/ row'[r].status = "running"
         \/ pc[r] \in {"finish", "failrow"} /\ row'[r].credits = job[r].credits,
         label \in Before => pc[r] \in Before,
         label \in Counting => pc[r] = "load" \/ (pc[r] \in Counting /\ job[r].pos <= job'[r].pos)
  PROVE  \A q \in Requests : Keeps(q)
<1> TAKE q \in Requests
<1>0. job[q] \in Jobs /\ job[q].pos <= job[q].pos
  BY DEF IInv, TypeOK, Jobs
<1>1. CASE q = r
  BY <1>1 DEF Keeps, IInv, TypeOK, Before
<1>2. CASE q # r
  BY <1>0, <1>2 DEF Keeps, IInv, TypeOK
<1> QED
  BY <1>1, <1>2

\* Leaving a skill keeps the credits when they are passed on as they are.
LEMMA NextSkillCredits ==
  ASSUME TypeOK, NEW r \in Requests, NEW c \in Nat, NextSkill(r, c)
  PROVE  /\ job'[r].credits = c
         /\ \A q \in Requests \ {r} : job'[q] = job[q]
         /\ job[r].pos <= job'[r].pos
         /\ \E label \in {"skill", "finish"} :
              /\ pc' = [pc EXCEPT ![r] = label]
              /\ label = "skill" => job'[r].pos = job[r].pos + 1
<1>1. job[r] \in Jobs /\ job \in [Requests -> Jobs]
  BY DEF TypeOK
<1>2. CASE job[r].pos < Len(job[r].plan)
  <2>1. job' = [job EXCEPT ![r] = [job[r] EXCEPT !.pos = job[r].pos + 1, !.credits = c]]
    BY <1>1, <1>2 DEF NextSkill
  <2> QED
    BY <1>1, <1>2, <2>1 DEF NextSkill, Goto, Jobs
<1>3. CASE ~(job[r].pos < Len(job[r].plan))
  <2>1. job' = [job EXCEPT ![r] = [job[r] EXCEPT !.credits = c]]
    BY <1>1, <1>3 DEF NextSkill
  <2> QED
    BY <1>1, <1>3, <2>1 DEF NextSkill, Goto, Jobs
<1> QED
  BY <1>2, <1>3

\* finish_run copies the credits counted into the row.
LEMMA RowCredits ==
  ASSUME TypeOK, NEW r \in Requests, NEW st \in Terminal, UpdateRow(r, st)
  PROVE  row'[r].credits = job[r].credits /\ \A q \in Requests \ {r} : row'[q] = row[q]
<1>1. row[r] \in Rows
  BY DEF TypeOK
<1> QED
  BY <1>1 DEF TypeOK, UpdateRow, Rows

\* A progress report costs at most one fault.
LEMMA ReportFaults ==
  ASSUME NEW i, NEW status, Report(i, status)
  PROVE  faults' \in {faults, faults + 1}
BY DEF Report, Fault

\* Every step of a job but the charge and its record.
LEMMA StepBillsNothing ==
  ASSUME IInv, NEW r \in Requests, Step(r), ~Charge(r), ~RecordCredit(r)
  PROVE  BillsNothing
<1> USE DEF BillsNothing
<1>1. job[r] \in Jobs /\ job \in [Requests -> Jobs] /\ row \in [Requests -> Rows]
  BY DEF IInv, TypeOK
<1>2. CASE LookupLatest(r)
  <2>1. /\ job'[r].credits = job[r].credits
        /\ \A q \in Requests \ {r} : job'[q] = job[q]
    <3>1. CASE job' = job
      BY <3>1
    <3>2. CASE \E q \in Requests : job' = [job EXCEPT ![r].source = q]
      BY <1>1, <3>2 DEF Jobs
    <3> QED
      BY <1>2, <3>1, <3>2 DEF LookupLatest
  <2>2. PICK label \in {"dedupe", "create"} : pc' = [pc EXCEPT ![r] = label]
    BY <1>2 DEF LookupLatest, Goto
  <2>3. \A q \in Requests : Keeps(q)
    BY <1>2, <2>1, <2>2, KeepsRows DEF LookupLatest, Before, Counting, Rowless, Waiting
  <2> QED
    BY <1>2, <2>3 DEF LookupLatest, Fault
<1>3. CASE AnswerDuplicate(r)
  <2>1. /\ job'[r].credits = job[r].credits
        /\ \A q \in Requests \ {r} : job'[q] = job[q]
    <3>1. CASE job' = job
      BY <3>1
    <3>2. CASE job' = [job EXCEPT ![r].ctx = stored[job[r].item]]
      BY <1>1, <3>2 DEF Jobs
    <3> QED
      BY <1>3, <3>1, <3>2 DEF AnswerDuplicate
  <2>2. PICK label \in {"deduplicated", "unavailable"} : pc' = [pc EXCEPT ![r] = label]
    BY <1>3 DEF AnswerDuplicate, Goto
  <2>3. \A q \in Requests : Keeps(q)
    BY <1>3, <2>1, <2>2, KeepsRows DEF AnswerDuplicate, Before, Counting, Rowless, Waiting
  <2> QED
    BY <1>3, <2>3, ReportFaults DEF AnswerDuplicate, Fault
<1>4. CASE RefuseSkills(r)
  <2>1. \A q \in Requests : Keeps(q)
    BY <1>4, KeepsRows DEF RefuseSkills, Goto, Before, Counting, Rowless, Waiting
  <2> QED
    BY <1>4, <2>1 DEF RefuseSkills
<1>5. CASE CreateRun(r)
  <2>1. /\ job'[r].credits = job[r].credits
        /\ \A q \in Requests \ {r} : job'[q] = job[q]
    <3>1. PICK p, k : job' = [job EXCEPT ![r] = [job[r] EXCEPT !.plan = p, !.kind = k]]
      BY <1>1, <1>5 DEF CreateRun
    <3> QED
      BY <1>1, <3>1 DEF Jobs
  <2>2. PICK label \in {"load", "conflict", "unavailable"} : pc' = [pc EXCEPT ![r] = label]
    BY <1>5 DEF CreateRun, Goto
  <2>3. /\ row'[r] = row[r] \/ row'[r].status = "running"
        /\ \A q \in Requests \ {r} : row'[q] = row[q]
    <3>1. CASE row' = row
      BY <3>1
    <3>2. CASE InsertRow(r)
      BY <1>1, <3>2 DEF InsertRow
    <3> QED
      BY <1>5, <3>1, <3>2 DEF CreateRun
  <2>4. \A q \in Requests : Keeps(q)
    <3>1. pc[r] \notin {"record", "lost"} /\ pc[r] \in Before /\ label \notin Counting
      BY <1>5 DEF CreateRun, Before, Counting, Rowless, Waiting
    <3> QED
      BY <2>1, <2>2, <2>3, <3>1, KeepsRows
  <2> QED
    BY <1>5, <2>4 DEF CreateRun, Fault
<1>6. CASE LoadArtifacts(r)
  <2>1. /\ job'[r].credits = job[r].credits
        /\ \A q \in Requests \ {r} : job'[q] = job[q]
    <3>1. CASE job' = job
      BY <3>1
    <3>2. CASE job' = [job EXCEPT ![r].ctx = stored[job[r].item]]
      BY <1>1, <3>2 DEF Jobs
    <3> QED
      BY <1>6, <3>1, <3>2 DEF LoadArtifacts
  <2>2. PICK label \in {"skill", "unavailable"} : pc' = [pc EXCEPT ![r] = label]
    BY <1>6 DEF LoadArtifacts, Goto
  <2>3. \A q \in Requests : Keeps(q)
    BY <1>6, <2>1, <2>2, KeepsRows DEF LoadArtifacts, Before, Counting, Rowless, Waiting
  <2> QED
    BY <1>6, <2>3 DEF LoadArtifacts, Fault
<1>7. CASE RunSkill(r)
  <2>1. /\ job'[r].credits = job[r].credits /\ job[r].pos <= job'[r].pos
        /\ \A q \in Requests \ {r} : job'[q] = job[q]
    <3>1. CASE job' = job
      BY <1>1, <3>1 DEF Jobs
    <3>2. CASE job' = [job EXCEPT ![r].ctx[SkillAt(r)] = r]
      BY <1>1, <3>2 DEF Jobs
    <3> QED
      BY <1>7, <3>1, <3>2 DEF RunSkill
  <2>2. PICK label \in {"save", "fail"} : pc' = [pc EXCEPT ![r] = label]
    BY <1>7 DEF RunSkill, Goto
  <2>3. \A q \in Requests : Keeps(q)
    BY <1>7, <2>1, <2>2, KeepsRows DEF RunSkill, Before, Counting, Rowless, Waiting
  <2> QED
    BY <1>7, <2>3, ReportFaults DEF RunSkill
<1>8. CASE SaveArtifact(r)
  <2>1. /\ job'[r].credits = job[r].credits /\ job[r].pos <= job'[r].pos
        /\ \A q \in Requests \ {r} : job'[q] = job[q]
        /\ \E label \in {"charge", "skill", "finish"} : pc' = [pc EXCEPT ![r] = label]
    <3>1. CASE Goto(r, "charge") /\ job' = job
      BY <1>1, <3>1 DEF Goto, Jobs
    <3>2. CASE NextSkill(r, job[r].credits)
      BY <1>1, <3>2, NextSkillCredits DEF Jobs, IInv
    <3> QED
      BY <1>8, <3>1, <3>2 DEF SaveArtifact, AfterSave
  <2>2. \A q \in Requests : Keeps(q)
    BY <1>8, <2>1, KeepsRows DEF SaveArtifact, Before, Counting, Rowless, Waiting
  <2> QED
    BY <1>8, <2>2 DEF SaveArtifact, Fault
<1>9. CASE FinishRun(r)
  <2>1. PICK label \in {"report", "fail"} : pc' = [pc EXCEPT ![r] = label]
    BY <1>9 DEF FinishRun, Goto
  <2>2. /\ row'[r] = row[r] \/ row'[r].credits = job[r].credits
        /\ \A q \in Requests \ {r} : row'[q] = row[q]
    <3>1. Verdict(r) \in Terminal
      BY DEF Verdict, Terminal
    <3> QED
      BY <1>9, <3>1, RowCredits DEF FinishRun, IInv
  <2>3. \A q \in Requests : Keeps(q)
    BY <1>9, <2>1, <2>2, KeepsRows DEF FinishRun, Before, Counting, Rowless, Waiting
  <2> QED
    BY <1>9, <2>3 DEF FinishRun, Fault
<1>10. CASE ReportVerdict(r)
  <2>1. \A q \in Requests : Keeps(q)
    BY <1>10, KeepsRows DEF ReportVerdict, Goto, Before, Counting, Rowless, Waiting
  <2> QED
    BY <1>10, <2>1, ReportFaults DEF ReportVerdict
<1>11. CASE ReportFailure(r)
  <2>1. \A q \in Requests : Keeps(q)
    BY <1>11, KeepsRows DEF ReportFailure, Goto, Before, Counting, Rowless, Waiting
  <2> QED
    BY <1>11, <2>1, ReportFaults DEF ReportFailure
<1>12. CASE MarkFailed(r)
  <2>1. /\ row'[r] = row[r] \/ row'[r].credits = job[r].credits
        /\ \A q \in Requests \ {r} : row'[q] = row[q]
    <3>1. "failed" \in Terminal
      BY DEF Terminal
    <3> QED
      BY <1>12, <3>1, RowCredits DEF MarkFailed, IInv
  <2>2. \A q \in Requests : Keeps(q)
    BY <1>12, <2>1, KeepsRows DEF MarkFailed, Goto, Before, Counting, Rowless, Waiting
  <2> QED
    BY <1>12, <2>2 DEF MarkFailed, Fault
<1> QED
  BY <1>2, <1>3, <1>4, <1>5, <1>6, <1>7, <1>8, <1>9, <1>10, <1>11, <1>12 DEF Step

\* Every step of the system but the charge and its record.
LEMMA OthersBillNothing ==
  ASSUME IInv, [Next]_vars, \A r \in Requests : ~Charge(r) /\ ~RecordCredit(r)
  PROVE  BillsNothing
<1>1. ASSUME NEW r \in Requests, Submit(r) PROVE BillsNothing
  <2>1. job[r] \in Jobs /\ job \in [Requests -> Jobs]
    BY DEF IInv, TypeOK
  <2>2. PICK i \in Items, k \in {"default", "forced", "explicit"} :
          /\ job' = [job EXCEPT ![r] = [job[r] EXCEPT !.item = i, !.kind = k]]
          /\ Goto(r, IF k = "default" THEN "lookup" ELSE "create")
    BY <1>1, <2>1 DEF Submit
  <2>3. /\ job'[r].credits = job[r].credits
        /\ \A q \in Requests \ {r} : job'[q] = job[q]
    BY <2>1, <2>2 DEF Jobs
  <2>4. PICK label \in {"lookup", "create"} : pc' = [pc EXCEPT ![r] = label]
    BY <2>2 DEF Goto
  <2>5. \A q \in Requests : Keeps(q)
    BY <1>1, <2>3, <2>4, KeepsRows DEF Submit, Before, Counting, Rowless, Waiting
  <2> QED
    BY <1>1, <2>5 DEF Submit, BillsNothing
<1>2. ASSUME NEW r \in Requests, Step(r) PROVE BillsNothing
  BY <1>2, StepBillsNothing
<1>3. CASE Crash
  <2>1. \A q \in Requests : /\ pc'[q] \in {pc[q], "lost"}
                            /\ pc[q] = "lost" => pc'[q] = "lost"
    BY <1>3 DEF Crash
  <2>2. \A q \in Requests : job[q].pos <= job[q].pos
    BY DEF IInv, TypeOK, Jobs
  <2> QED
    BY <1>3, <2>1, <2>2 DEF Crash, Fault, BillsNothing, Keeps, Before, Counting, Rowless, Waiting
<1>4. CASE Tick \/ UNCHANGED vars
  <2>1. \A q \in Requests : job[q].pos <= job[q].pos
    BY DEF IInv, TypeOK, Jobs
  <2> QED
    BY <1>4, <2>1 DEF Tick, vars, BillsNothing, Keeps
<1> QED
  BY <1>1, <1>2, <1>3, <1>4 DEF Next

-----------------------------------------------------------------------------
(* The charge and its record *)

\* _charge: at most the credit of the skill at hand is added, and with a login
\* charge_status is right about it, or that took a fault.
LEMMA ChargeDoes ==
  ASSUME IInv, NEW r \in Requests, Charge(r)
  PROVE  /\ pc[r] = "charge" /\ pc' = [pc EXCEPT ![r] = "record"]
         /\ row[r].status = "running" /\ row' = row /\ ledger' = ledger
         /\ job[r].pos \in Nat /\ job[r].credits \in Nat
         /\ job'[r].pos = job[r].pos /\ job'[r].credits = job[r].credits
         /\ \A q \in Requests \ {r} : job'[q] = job[q]
         /\ charges \subseteq charges' /\ charges' \subseteq charges \union {<<r, job[r].pos>>}
         /\ faults' \in {faults, faults + 1}
         /\ \/ Live /\ faults' = faults + 1
            \/ Live /\ job'[r].charge = "charged" /\ <<r, job[r].pos>> \in charges'
            \/ Live /\ job'[r].charge # "charged" /\ charges' = charges
            \/ ~Live
<1>1. job[r] \in Jobs /\ job \in [Requests -> Jobs]
  BY DEF IInv, TypeOK
<1>2. pc[r] = "charge" /\ pc' = [pc EXCEPT ![r] = "record"] /\ row[r].status = "running"
  BY DEF Charge, Goto, IInv, RowFollowsJob, Holding, Executing
<1>3. PICK c \in {"charged", "failed"} :
        /\ job' = [job EXCEPT ![r] = [job[r] EXCEPT !.charge = c]]
        /\ \/ Live /\ faults' = faults + 1
           \/ Live /\ c = "charged" /\ <<r, job[r].pos>> \in charges'
           \/ Live /\ c = "failed" /\ charges' = charges
           \/ ~Live
  BY <1>1 DEF Charge, ChargeAccepted, ChargeHollow, ChargeRefused, ChargeUnanswered, Fault
<1>4. /\ job'[r].pos = job[r].pos /\ job'[r].credits = job[r].credits /\ job'[r].charge = c
      /\ \A q \in Requests \ {r} : job'[q] = job[q]
      /\ job[r].pos \in Nat /\ job[r].credits \in Nat
  BY <1>1, <1>3 DEF Jobs
<1>5. /\ charges \subseteq charges' /\ charges' \subseteq charges \union {<<r, job[r].pos>>}
      /\ faults' \in {faults, faults + 1}
  BY DEF Charge, ChargeAccepted, ChargeHollow, ChargeRefused, ChargeUnanswered, Fault
<1>6. row' = row /\ ledger' = ledger
  BY DEF Charge
<1> QED
  BY <1>2, <1>3, <1>4, <1>5, <1>6

\* record_credit: one more credit counted, and its ledger row or a fault.
LEMMA RecordDoes ==
  ASSUME IInv, NEW r \in Requests, RecordCredit(r)
  PROVE  /\ pc[r] = "record" /\ row[r].status = "running" /\ row' = row /\ charges' = charges
         /\ \E label \in {"skill", "finish"} :
              /\ pc' = [pc EXCEPT ![r] = label]
              /\ label = "skill" => job'[r].pos = job[r].pos + 1
         /\ job[r].pos \in Nat /\ job[r].credits \in Nat
         /\ job'[r].credits = job[r].credits + 1
         /\ \A q \in Requests \ {r} : job'[q] = job[q]
         /\ faults' \in {faults, faults + 1}
         /\ \/ ledger' = ledger \union {<<r, job[r].pos, job[r].charge>>}
            \/ ledger' = ledger /\ faults' = faults + 1
<1>1. job[r] \in Jobs /\ job[r].pos \in Nat /\ job[r].credits \in Nat /\ job[r].credits + 1 \in Nat
  BY DEF IInv, TypeOK, Jobs
<1>2. pc[r] = "record" /\ row[r].status = "running"
  BY DEF RecordCredit, IInv, RowFollowsJob, Holding, Executing
<1>3. /\ job'[r].credits = job[r].credits + 1
      /\ \A q \in Requests \ {r} : job'[q] = job[q]
      /\ \E label \in {"skill", "finish"} :
           /\ pc' = [pc EXCEPT ![r] = label]
           /\ label = "skill" => job'[r].pos = job[r].pos + 1
  BY <1>1, NextSkillCredits DEF RecordCredit, IInv
<1> QED
  BY <1>1, <1>2, <1>3 DEF RecordCredit, LedgerRow, Fault

-----------------------------------------------------------------------------
(* Billing *)

\* Nothing is charged at the start.
LEMMA InitBill == Init => BillInv
<1> SUFFICES ASSUME Init PROVE BillInv
  OBVIOUS
<1>1. charges = {} /\ \A r \in Requests : ChargesOf(r) = {}
  BY DEF Init, ChargesOf
<1>2. IsFiniteSet({}) /\ Cardinality({}) = 0
  BY FS_EmptySet
<1>3. \A r \in Requests : pc[r] = "new" /\ job[r].credits = 0 /\ row[r].status \notin Terminal
  BY DEF Init, NoJob, NoRow, Terminal
<1>4. \A r \in Requests : Cardinality(ChargesOf(r)) = 0
  BY <1>1, <1>2
<1>5. IsFiniteSet(charges)
  BY <1>1, <1>2
<1> QED
  BY <1>3, <1>4, <1>5 DEF BillInv

\* Every step keeps the account of what is charged and counted.
LEMMA NextBill == IInv /\ BillInv /\ [Next]_vars => BillInv'
<1> SUFFICES ASSUME IInv, BillInv, [Next]_vars PROVE BillInv'
  OBVIOUS
<1>1. \A q \in Requests : IsFiniteSet(ChargesOf(q)) /\ Cardinality(ChargesOf(q)) \in Nat
  BY FS_Subset, FS_CardinalityType DEF BillInv, ChargesOf
<1>2. CASE \E r \in Requests : Charge(r)
  <2>1. PICK r \in Requests : Charge(r)
    BY <1>2
  <2> DEFINE new == <<r, job[r].pos>>
  <2>2. /\ pc[r] = "charge" /\ pc' = [pc EXCEPT ![r] = "record"]
        /\ row[r].status = "running" /\ row' = row /\ job[r].credits \in Nat
        /\ job'[r].credits = job[r].credits
        /\ \A q \in Requests \ {r} : job'[q] = job[q]
        /\ charges' \subseteq charges \union {new} /\ charges \subseteq charges'
    BY <2>1, ChargeDoes
  <2>3. IsFiniteSet(charges')
    <3>1. IsFiniteSet(charges \union {new})
      BY FS_AddElement DEF BillInv
    <3> QED
      BY <2>2, <3>1, FS_Subset
  <2>4. \A q \in Requests \ {r} : ChargesOf(q)' = ChargesOf(q)
    BY <2>2 DEF ChargesOf
  <2>5. Cardinality(ChargesOf(r)') <= Cardinality(ChargesOf(r)) + 1
    <3>1. ChargesOf(r)' \subseteq ChargesOf(r) \union {new}
      BY <2>2 DEF ChargesOf
    <3>2. /\ IsFiniteSet(ChargesOf(r) \union {new})
          /\ Cardinality(ChargesOf(r) \union {new}) <= Cardinality(ChargesOf(r)) + 1
      <4>1. /\ IsFiniteSet(ChargesOf(r) \union {new})
            /\ Cardinality(ChargesOf(r) \union {new}) = Cardinality(ChargesOf(r))
               \/ Cardinality(ChargesOf(r) \union {new}) = Cardinality(ChargesOf(r)) + 1
        BY <1>1, FS_AddElement
      <4> QED
        BY <1>1, <4>1
    <3>3. /\ Cardinality(ChargesOf(r)') <= Cardinality(ChargesOf(r) \union {new})
          /\ IsFiniteSet(ChargesOf(r)')
      BY <3>1, <3>2, FS_Subset
    <3> QED
      BY <1>1, <3>2, <3>3, FS_CardinalityType
  <2>6. Cardinality(ChargesOf(r)) <= job[r].credits
    BY <2>2 DEF BillInv
  <2>7. pc'[r] = "record" /\ \A q \in Requests \ {r} : pc'[q] = pc[q]
    BY <2>2 DEF IInv, TypeOK
  <2>8. Cardinality(ChargesOf(r)') <= job'[r].credits + 1
    <3>1. Cardinality(ChargesOf(r)') \in Nat
      BY <2>3, FS_Subset, FS_CardinalityType DEF ChargesOf
    <3> QED
      BY <1>1, <2>2, <2>5, <2>6, <3>1
  <2>9. row[r].status \notin Terminal
    BY <2>2 DEF Terminal
  <2> QED
    BY <2>2, <2>3, <2>4, <2>7, <2>8, <2>9 DEF BillInv
<1>3. CASE \E r \in Requests : RecordCredit(r)
  <2>1. PICK r \in Requests : RecordCredit(r)
    BY <1>3
  <2>2. /\ pc[r] = "record" /\ row[r].status = "running" /\ row' = row /\ charges' = charges
        /\ \E label \in {"skill", "finish"} : pc' = [pc EXCEPT ![r] = label]
        /\ job'[r].credits = job[r].credits + 1
        /\ \A q \in Requests \ {r} : job'[q] = job[q]
    BY <2>1, RecordDoes
  <2>3. \A q \in Requests : ChargesOf(q)' = ChargesOf(q)
    BY <2>2 DEF ChargesOf
  <2>4. pc'[r] \in {"skill", "finish"} /\ \A q \in Requests \ {r} : pc'[q] = pc[q]
    BY <2>2 DEF IInv, TypeOK
  <2> QED
    BY <2>2, <2>3, <2>4 DEF BillInv, Terminal
<1>4. CASE \A r \in Requests : ~Charge(r) /\ ~RecordCredit(r)
  <2>1. BillsNothing
    BY <1>4, OthersBillNothing
  <2>2. \A q \in Requests : ChargesOf(q)' = ChargesOf(q) /\ Keeps(q)
    BY <2>1 DEF ChargesOf, BillsNothing
  <2>3. ASSUME NEW q \in Requests
        PROVE  /\ pc'[q] = "record" => Cardinality(ChargesOf(q)) <= job'[q].credits + 1
               /\ pc'[q] \notin {"record", "lost"} => Cardinality(ChargesOf(q)) <= job'[q].credits
               /\ row'[q].status \in Terminal => Cardinality(ChargesOf(q)) <= row'[q].credits
    <3>1. pc'[q] = "record" => Cardinality(ChargesOf(q)) <= job'[q].credits + 1
      BY <2>2 DEF Keeps, BillInv
    <3>2. pc'[q] \notin {"record", "lost"} => Cardinality(ChargesOf(q)) <= job'[q].credits
      BY <2>2 DEF Keeps, BillInv
    <3>3. row'[q].status \in Terminal => Cardinality(ChargesOf(q)) <= row'[q].credits
      BY <2>2 DEF Keeps, BillInv, Terminal
    <3> QED
      BY <3>1, <3>2, <3>3
  <2> QED
    BY <2>1, <2>2, <2>3 DEF BillInv, BillsNothing
<1> QED
  BY <1>2, <1>3, <1>4

\* The credits a finished row reports are never fewer than those EZOFIS
\* charged for the run: a credit whose answer or ledger row is lost is still
\* counted before finish_run writes the row.
THEOREM BilledInFull == Spec => []BillingNeverUnderReported
<1>1. BillInv => BillingNeverUnderReported
  BY DEF BillInv, ChargesOf, BillingNeverUnderReported
<1> QED
  BY <1>1, InitBill, NextBill, Invariance, PTL DEF Spec

-----------------------------------------------------------------------------
(* The ledger *)

\* Every step keeps a job ahead of what it has charged and booked.
LEMMA NextPlace == IInv /\ PlaceInv /\ [Next]_vars => PlaceInv'
<1> SUFFICES ASSUME IInv, PlaceInv, [Next]_vars, NEW c \in Spots'
             PROVE  /\ c[1] \in Requests /\ c[2] \in Nat
                    /\ pc'[c[1]] \notin Before
                    /\ pc'[c[1]] \in Counting => c[2] < job'[c[1]].pos
                    /\ pc'[c[1]] = "record" => c[2] <= job'[c[1]].pos
  BY DEF PlaceInv
<1>1. ASSUME NEW r \in Requests, Charge(r) \/ RecordCredit(r)
      PROVE  /\ c \in Spots \/ c = <<r, job[r].pos>>
             /\ job[r].pos \in Nat
             /\ pc[r] \in {"charge", "record"}
             /\ pc'[r] \in {"record", "skill", "finish"}
             /\ pc'[r] = "record" => job'[r].pos = job[r].pos
             /\ pc'[r] = "skill" => job'[r].pos = job[r].pos + 1
             /\ pc'[r] = "skill" => pc[r] = "record"
             /\ \A q \in Requests \ {r} : pc'[q] = pc[q] /\ job'[q] = job[q]
  <2>1. CASE Charge(r)
    <3>1. /\ charges' \subseteq charges \union {<<r, job[r].pos>>} /\ ledger' = ledger
          /\ pc[r] = "charge" /\ pc' = [pc EXCEPT ![r] = "record"]
          /\ job[r].pos \in Nat /\ job'[r].pos = job[r].pos
          /\ \A q \in Requests \ {r} : job'[q] = job[q]
      BY <2>1, ChargeDoes
    <3>2. c \in Spots \/ c = <<r, job[r].pos>>
      BY <3>1 DEF Spots
    <3>3. pc'[r] = "record" /\ \A q \in Requests \ {r} : pc'[q] = pc[q]
      BY <3>1 DEF IInv, TypeOK
    <3> QED
      BY <3>1, <3>2, <3>3
  <2>2. CASE RecordCredit(r)
    <3>1. /\ charges' = charges /\ pc[r] = "record" /\ job[r].pos \in Nat
          /\ ledger' \subseteq ledger \union {<<r, job[r].pos, job[r].charge>>}
          /\ \A q \in Requests \ {r} : job'[q] = job[q]
          /\ \E label \in {"skill", "finish"} :
               /\ pc' = [pc EXCEPT ![r] = label]
               /\ label = "skill" => job'[r].pos = job[r].pos + 1
      BY <2>2, RecordDoes
    <3>2. c \in Spots \/ c = <<r, job[r].pos>>
      BY <3>1 DEF Spots
    <3> QED
      BY <3>1, <3>2 DEF IInv, TypeOK
  <2> QED
    BY <1>1, <2>1, <2>2
<1>2. CASE \E r \in Requests : Charge(r) \/ RecordCredit(r)
  <2>1. PICK r \in Requests : Charge(r) \/ RecordCredit(r)
    BY <1>2
  <2>2. CASE c = <<r, job[r].pos>>
    BY <1>1, <2>1, <2>2 DEF Before, Counting, Rowless, Waiting
  <2>3. CASE c \in Spots /\ c[1] = r
    <3>1. c[2] \in Nat /\ c[2] <= job[r].pos
      BY <1>1, <2>1, <2>3 DEF PlaceInv, Counting
    <3> QED
      BY <1>1, <2>1, <2>3, <3>1 DEF Before, Counting, Rowless, Waiting
  <2>4. CASE c \in Spots /\ c[1] # r
    BY <1>1, <2>1, <2>4 DEF PlaceInv
  <2> QED
    BY <1>1, <2>1, <2>2, <2>3, <2>4
<1>3. CASE \A r \in Requests : ~Charge(r) /\ ~RecordCredit(r)
  <2>1. BillsNothing
    BY <1>3, OthersBillNothing
  <2>2. c \in Spots
    BY <2>1 DEF BillsNothing, Spots
  <2>3. PICK q \in Requests : q = c[1]
    BY <2>2 DEF PlaceInv
  <2>4. /\ c[2] \in Nat /\ pc[q] \notin Before
        /\ pc[q] \in Counting => c[2] < job[q].pos
        /\ pc[q] = "record" => c[2] <= job[q].pos
    BY <2>2, <2>3 DEF PlaceInv
  <2>5. Keeps(q)
    BY <2>1 DEF BillsNothing
  <2>6. pc'[q] \in Counting => c[2] < job'[q].pos
    <3> SUFFICES ASSUME pc'[q] \in Counting PROVE c[2] < job'[q].pos
      OBVIOUS
    <3>1. job[q].pos <= job'[q].pos /\ c[2] < job[q].pos
      BY <2>4, <2>5 DEF Keeps
    <3>2. job[q].pos \in Nat /\ job'[q].pos \in Nat
      BY NextIInv DEF IInv, TypeOK, Jobs
    <3> QED
      BY <2>4, <3>1, <3>2
  <2> QED
    BY <2>3, <2>4, <2>5, <2>6 DEF Keeps
<1> QED
  BY <1>2, <1>3

\* Every step keeps the ledger true to what was charged, but for one entry a
\* fault.
LEMMA NextHonest == IInv /\ PlaceInv /\ HonestInv /\ [Next]_vars => HonestInv'
<1> SUFFICES ASSUME IInv, PlaceInv, HonestInv, [Next]_vars, Live
             PROVE  IsFiniteSet(Wrong') /\ Cardinality(Wrong') <= faults'
  BY DEF HonestInv
<1>1. /\ IsFiniteSet(Wrong) /\ Cardinality(Wrong) <= faults
      /\ Cardinality(Wrong) \in Nat /\ faults \in Nat
  BY FS_CardinalityType DEF HonestInv, IInv, TypeOK
<1>2. ASSUME Wrong' \subseteq Wrong, faults' \in {faults, faults + 1}
      PROVE  IsFiniteSet(Wrong') /\ Cardinality(Wrong') <= faults'
  <2>1. IsFiniteSet(Wrong') /\ Cardinality(Wrong') <= Cardinality(Wrong)
    BY <1>1, <1>2, FS_Subset
  <2>2. Cardinality(Wrong') \in Nat
    BY <2>1, FS_CardinalityType
  <2> QED
    BY <1>1, <1>2, <2>1, <2>2
<1>3. CASE \E r \in Requests : Charge(r)
  <2>1. PICK r \in Requests : Charge(r)
    BY <1>3
  <2> DEFINE spot == <<r, job[r].pos>>
             new == <<r, job[r].pos, job'[r].charge>>
  <2>2. /\ pc[r] = "charge" /\ pc' = [pc EXCEPT ![r] = "record"] /\ ledger' = ledger
        /\ job'[r].pos = job[r].pos /\ job[r].pos \in Nat
        /\ \A q \in Requests \ {r} : job'[q] = job[q]
        /\ charges \subseteq charges' /\ charges' \subseteq charges \union {spot}
        /\ faults' \in {faults, faults + 1}
        /\ \/ faults' = faults + 1
           \/ job'[r].charge = "charged" /\ spot \in charges'
           \/ job'[r].charge # "charged" /\ charges' = charges
    BY <2>1, ChargeDoes
  <2>3. pc'[r] = "record" /\ \A q \in Requests \ {r} : pc'[q] = pc[q]
    BY <2>2 DEF IInv, TypeOK
  <2>4. spot \notin Spots
    BY <2>2 DEF PlaceInv, Counting
  <2>5. Told' \subseteq Told \union {new}
    BY <2>2, <2>3 DEF Told, ToWrite
  <2>6. ASSUME NEW e \in Told PROVE <<e[1], e[2]>> # spot
    <3>1. CASE e \in ledger
      BY <2>4, <3>1 DEF Spots
    <3>2. CASE \E q \in Requests : pc[q] = "record" /\ e = ToWrite(q)
      BY <2>2, <3>2 DEF ToWrite
    <3> QED
      BY <2>6, <3>1, <3>2 DEF Told
  <2>7. Wrong' \subseteq Wrong \union {new}
    BY <2>2, <2>5, <2>6 DEF Wrong
  <2>8. CASE faults' = faults + 1
    <3>1. /\ IsFiniteSet(Wrong \union {new})
          /\ Cardinality(Wrong \union {new}) <= Cardinality(Wrong) + 1
      <4>1. /\ IsFiniteSet(Wrong \union {new})
            /\ \/ Cardinality(Wrong \union {new}) = Cardinality(Wrong)
               \/ Cardinality(Wrong \union {new}) = Cardinality(Wrong) + 1
        BY <1>1, FS_AddElement
      <4> QED
        BY <1>1, <4>1
    <3>2. IsFiniteSet(Wrong') /\ Cardinality(Wrong') <= Cardinality(Wrong \union {new})
      BY <2>7, <3>1, FS_Subset
    <3>3. Cardinality(Wrong') \in Nat /\ Cardinality(Wrong \union {new}) \in Nat
      BY <3>1, <3>2, FS_CardinalityType
    <3> QED
      BY <1>1, <2>8, <3>1, <3>2, <3>3
  <2>9. CASE \/ job'[r].charge = "charged" /\ spot \in charges'
             \/ job'[r].charge # "charged" /\ charges' = charges
    <3>1. spot \notin charges
      BY <2>4 DEF Spots
    <3>2. new \notin Wrong'
      BY <2>9, <3>1 DEF Wrong
    <3> QED
      BY <1>2, <2>2, <2>7, <3>2
  <2> QED
    BY <2>2, <2>8, <2>9
<1>4. CASE \E r \in Requests : RecordCredit(r)
  <2>1. PICK r \in Requests : RecordCredit(r)
    BY <1>4
  <2>2. /\ charges' = charges /\ pc[r] = "record"
        /\ ledger' \subseteq ledger \union {ToWrite(r)}
        /\ \A q \in Requests \ {r} : job'[q] = job[q]
        /\ \E label \in {"skill", "finish"} : pc' = [pc EXCEPT ![r] = label]
        /\ faults' \in {faults, faults + 1}
    BY <2>1, RecordDoes DEF ToWrite
  <2>3. pc'[r] # "record" /\ \A q \in Requests \ {r} : pc'[q] = pc[q]
    BY <2>2 DEF IInv, TypeOK
  <2>4. Told' \subseteq Told
    BY <2>2, <2>3 DEF Told, ToWrite
  <2>5. Wrong' \subseteq Wrong
    BY <2>2, <2>4 DEF Wrong
  <2> QED
    BY <1>2, <2>2, <2>5
<1>5. CASE \A r \in Requests : ~Charge(r) /\ ~RecordCredit(r)
  <2>1. BillsNothing
    BY <1>5, OthersBillNothing
  <2>2. charges' = charges /\ ledger' = ledger /\ faults' \in {faults, faults + 1}
    BY <2>1 DEF BillsNothing
  <2>3. \A q \in Requests : pc'[q] = "record" => pc[q] = "record" /\ ToWrite(q)' = ToWrite(q)
    BY <2>1 DEF BillsNothing, Keeps, ToWrite
  <2>4. Told' \subseteq Told
    BY <2>2, <2>3 DEF Told
  <2>5. Wrong' \subseteq Wrong
    BY <2>2, <2>4 DEF Wrong
  <2> QED
    BY <1>2, <2>2, <2>5
<1> QED
  BY <1>3, <1>4, <1>5

\* What the ledger says of a credit is what EZOFIS did with it, whether it says
\* "charged" or "failed": at most one row is wrong for each fault, whenever the
\* client has a login to charge with.
THEOREM LedgerHonest == Spec => []LedgerIsHonest
<1>1. Init => PlaceInv /\ HonestInv
  <2> SUFFICES ASSUME Init PROVE PlaceInv /\ HonestInv
    OBVIOUS
  <2>1. Spots = {} /\ Wrong = {} /\ faults = 0
    BY DEF Init, Spots, Wrong, Told
  <2> QED
    BY <2>1, FS_EmptySet DEF PlaceInv, HonestInv
<1>2. ASSUME IInv, HonestInv PROVE LedgerIsHonest
  <2> DEFINE wrong == {e \in ledger : (e[3] = "charged") # (<<e[1], e[2]>> \in charges)}
  <2> SUFFICES ASSUME Live PROVE Cardinality(wrong) <= faults
    BY DEF LedgerIsHonest
  <2>1. IsFiniteSet(Wrong) /\ Cardinality(Wrong) <= faults /\ faults \in Nat
    BY <1>2 DEF HonestInv, IInv, TypeOK
  <2>2. wrong \subseteq Wrong
    BY DEF Wrong, Told
  <2>3. IsFiniteSet(wrong) /\ Cardinality(wrong) <= Cardinality(Wrong)
    BY <2>1, <2>2, FS_Subset
  <2>4. Cardinality(wrong) \in Nat /\ Cardinality(Wrong) \in Nat
    BY <2>1, <2>3, FS_CardinalityType
  <2> QED
    BY <2>1, <2>3, <2>4
<1> QED
  BY <1>1, <1>2, NextPlace, NextHonest, Invariance, PTL DEF Spec

\* No step opens a gap but a failed ledger write, which opens one.
LEMMA NextGap == IInv /\ GapInv /\ [Next]_vars => GapInv'
<1> SUFFICES ASSUME IInv, GapInv, [Next]_vars PROVE GapInv'
  OBVIOUS
<1>1. faults \in Nat /\ charges \subseteq Requests \X Nat /\ Cardinality(Gaps) \in Nat
  BY FS_CardinalityType DEF IInv, TypeOK, GapInv
<1>2. ASSUME Gaps' \subseteq Gaps, faults' \in {faults, faults + 1} PROVE GapInv'
  <2>1. IsFiniteSet(Gaps') /\ Cardinality(Gaps') <= Cardinality(Gaps)
    BY <1>2, FS_Subset DEF GapInv
  <2>2. Cardinality(Gaps') \in Nat
    BY <2>1, FS_CardinalityType
  <2> QED
    BY <1>1, <1>2, <2>1, <2>2 DEF GapInv
<1>3. CASE \E r \in Requests : Charge(r)
  <2>1. PICK r \in Requests : Charge(r)
    BY <1>3
  <2>2. /\ pc[r] = "charge" /\ pc' = [pc EXCEPT ![r] = "record"] /\ ledger' = ledger
        /\ job'[r].pos = job[r].pos
        /\ \A q \in Requests \ {r} : job'[q] = job[q]
        /\ charges' \subseteq charges \union {<<r, job[r].pos>>}
        /\ faults' \in {faults, faults + 1}
    BY <2>1, ChargeDoes
  <2>3. pc'[r] = "record" /\ \A q \in Requests \ {r} : pc'[q] = pc[q]
    BY <2>2 DEF IInv, TypeOK
  <2>4. ASSUME NEW c \in Gaps' PROVE c \in Gaps
    <3>1. c \in charges' /\ \A e \in ledger : <<e[1], e[2]>> # c
      BY <2>2, <2>4 DEF Gaps, Unrecorded
    <3>2. ~(pc'[c[1]] \in {"record", "lost"} /\ c[2] = job'[c[1]].pos)
      BY <2>4, <3>1 DEF Gaps, AboutToRecord
    <3>3. c # <<r, job[r].pos>>
      BY <2>2, <2>3, <3>2
    <3>4. c \in charges /\ c[1] \in Requests
      BY <1>1, <2>2, <3>1, <3>3
    <3>5. ~(pc[c[1]] \in {"record", "lost"} /\ c[2] = job[c[1]].pos)
      BY <2>2, <2>3, <3>2, <3>4
    <3> QED
      BY <3>1, <3>4, <3>5 DEF Gaps, Unrecorded, AboutToRecord
  <2> QED
    BY <1>2, <2>2, <2>4
<1>4. CASE \E r \in Requests : RecordCredit(r)
  <2>1. PICK r \in Requests : RecordCredit(r)
    BY <1>4
  <2> DEFINE new == <<r, job[r].pos>>
  <2>2. /\ pc[r] = "record" /\ charges' = charges
        /\ \E label \in {"skill", "finish"} : pc' = [pc EXCEPT ![r] = label]
        /\ \A q \in Requests \ {r} : job'[q] = job[q]
        /\ faults' \in {faults, faults + 1}
        /\ \/ ledger' = ledger \union {<<r, job[r].pos, job[r].charge>>}
           \/ ledger' = ledger /\ faults' = faults + 1
    BY <2>1, RecordDoes
  <2>3. pc'[r] \in {"skill", "finish"} /\ \A q \in Requests \ {r} : pc'[q] = pc[q]
    BY <2>2 DEF IInv, TypeOK
  <2>4. ASSUME NEW c \in Gaps', c # new PROVE c \in Gaps
    <3>1. c \in charges /\ c[1] \in Requests /\ c = <<c[1], c[2]>>
      BY <1>1, <2>2, <2>4 DEF Gaps, Unrecorded
    <3>2. \A e \in ledger : <<e[1], e[2]>> # c
      BY <2>2, <2>4 DEF Gaps, Unrecorded
    <3>3. ~(pc[c[1]] \in {"record", "lost"} /\ c[2] = job[c[1]].pos)
      <4>1. CASE c[1] = r
        BY <2>4, <3>1, <4>1
      <4>2. CASE c[1] # r
        <5>1. ~(pc'[c[1]] \in {"record", "lost"} /\ c[2] = job'[c[1]].pos)
          BY <2>2, <2>4, <3>1 DEF Gaps, AboutToRecord
        <5> QED
          BY <2>2, <2>3, <3>1, <4>2, <5>1
      <4> QED
        BY <4>1, <4>2
    <3> QED
      BY <3>1, <3>2, <3>3 DEF Gaps, Unrecorded, AboutToRecord
  <2>5. CASE ledger' = ledger \union {<<r, job[r].pos, job[r].charge>>}
    <3>1. new \notin Gaps'
      <4>1. <<r, job[r].pos, job[r].charge>> \in ledger'
        BY <2>5
      <4>2. new \notin Unrecorded'
        BY <4>1 DEF Unrecorded
      <4> QED
        BY <4>2 DEF Gaps
    <3> QED
      BY <1>2, <2>2, <2>4, <3>1
  <2>6. CASE ledger' = ledger /\ faults' = faults + 1
    <3>1. Gaps' \subseteq Gaps \union {new}
      BY <2>4
    <3>2. /\ IsFiniteSet(Gaps \union {new})
          /\ Cardinality(Gaps \union {new}) <= Cardinality(Gaps) + 1
      BY <1>1, FS_AddElement DEF GapInv
    <3>3. IsFiniteSet(Gaps') /\ Cardinality(Gaps') <= Cardinality(Gaps \union {new})
      BY <3>1, <3>2, FS_Subset
    <3>4. Cardinality(Gaps') \in Nat /\ Cardinality(Gaps \union {new}) \in Nat
      BY <3>2, <3>3, FS_CardinalityType
    <3>5. Cardinality(Gaps) <= faults
      BY DEF GapInv
    <3>6. Cardinality(Gaps') <= faults + 1
      BY <1>1, <3>2, <3>3, <3>4, <3>5
    <3> QED
      BY <2>6, <3>3, <3>6 DEF GapInv
  <2> QED
    BY <2>2, <2>5, <2>6
<1>5. CASE \A r \in Requests : ~Charge(r) /\ ~RecordCredit(r)
  <2>1. BillsNothing
    BY <1>5, OthersBillNothing
  <2>2. ASSUME NEW c \in Gaps' PROVE c \in Gaps
    <3>1. c \in charges /\ c[1] \in Requests /\ c \in Unrecorded
      BY <1>1, <2>1, <2>2 DEF Gaps, Unrecorded, BillsNothing
    <3>2. ~(pc'[c[1]] \in {"record", "lost"} /\ c[2] = job'[c[1]].pos)
      BY <2>1, <2>2, <3>1 DEF Gaps, AboutToRecord, BillsNothing
    <3>3. Keeps(c[1])
      BY <2>1, <3>1 DEF BillsNothing
    <3>4. ~(pc[c[1]] \in {"record", "lost"} /\ c[2] = job[c[1]].pos)
      BY <3>2, <3>3 DEF Keeps
    <3> QED
      BY <3>1, <3>4 DEF Gaps, AboutToRecord
  <2> QED
    BY <1>2, <2>1, <2>2 DEF BillsNothing
<1> QED
  BY <1>3, <1>4, <1>5

\* A charged credit has its ledger row, but for one per failed ledger write
\* and those a job was about to record.
THEOREM GapsAreFaults == Spec => []LedgerGapsAreFaults
<1>1. Init => GapInv
  <2> SUFFICES ASSUME Init PROVE GapInv
    OBVIOUS
  <2>1. Gaps = {} /\ faults = 0
    BY DEF Init, Gaps, Unrecorded
  <2> QED
    BY <2>1, FS_EmptySet DEF GapInv
<1>2. ASSUME IInv, GapInv PROVE LedgerGapsAreFaults
  <2> DEFINE exposed == {c \in Unrecorded : pc[c[1]] \in {"record", "lost"}}
  <2>1. Unrecorded \ exposed \subseteq Gaps
    BY DEF Gaps, AboutToRecord
  <2>2. /\ IsFiniteSet(Unrecorded \ exposed)
        /\ Cardinality(Unrecorded \ exposed) <= Cardinality(Gaps)
    BY <1>2, <2>1, FS_Subset DEF GapInv
  <2>3. /\ Cardinality(Unrecorded \ exposed) \in Nat /\ Cardinality(Gaps) \in Nat
        /\ faults \in Nat
    BY <1>2, <2>2, FS_CardinalityType DEF GapInv, IInv, TypeOK
  <2>4. Cardinality(Gaps) <= faults
    BY <1>2 DEF GapInv
  <2>5. Cardinality(Unrecorded \ exposed) <= faults
    BY <2>2, <2>3, <2>4
  <2> QED
    BY <2>5 DEF LedgerGapsAreFaults, Unrecorded
<1> QED
  BY <1>1, <1>2, NextGap, Invariance, PTL DEF Spec
=============================================================================
