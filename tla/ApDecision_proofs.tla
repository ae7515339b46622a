--------------------------- MODULE ApDecision_proofs ---------------------------
(***************************************************************************)
(* Proofs about ApDecision, for any tenant's skill order, planner, plans,  *)
(* thresholds, documents and master data: what a run knows about its       *)
(* invoice is well formed, finalize_decision grades it as it should, and   *)
(* every job is at a skill of its plan.  For a tenant whose order checks   *)
(* before it decides and decides before it moves (OrderDecides), what is   *)
(* posted as MATCHED is what the masters answered; where the decision      *)
(* follows duplicate_detect (OrderJudges), a number approved before is a   *)
(* duplicate.  Nothing in the code makes skills_order such: the two are    *)
(* hypotheses of their theorems.  Last, the jobs implement ItemLease, like *)
(* the rows of ApRun.                                                      *)
(***************************************************************************)
EXTENDS ApDecision, TLAPS, WellFoundedInduction, NaturalsInduction, SequenceTheorems

-----------------------------------------------------------------------------
(* What a run knows: the artifacts of ctx *)

CtxOK(ctx) ==
  /\ DOMAIN ctx = Skills /\ ctx = [s \in Skills |-> ctx[s]]
  /\ \A s \in Skills : ctx[s] \in Artifacts(s) \union {None}

\* What the fields of the artifacts may be, one skill at a time.
LEMMA CtxFields ==
  ASSUME NEW ctx, CtxOK(ctx)
  PROVE  /\ \A s \in {"po_match", "gl_match", "grn_match"} : ctx[s] = None \/ ctx[s].decision \in Grades
         /\ ctx["po_match"] = None \/ ctx["po_match"].po \in POs \union {None}
         /\ \A s \in Lookups : ctx[s] = None \/ ctx[s].po \in POs \union {None}
         /\ ctx["vendor_validate"] = None \/ ctx["vendor_validate"].status \in
              {"MISSING", "ACTIVE", "INACTIVE", "MISMATCH", "UNVERIFIED"}
         /\ ctx["matter_validate"] = None \/ ctx["matter_validate"].status \in
              {"SKIPPED", "MATCHED", "NOT_IN_MASTER"}
         /\ ctx["extract_invoice"] = None \/ ctx["extract_invoice"] \in Invoices
BY DEF CtxOK, Artifacts, Skills, Lookups, Connectors

LEMMA GradesOfScores ==
  /\ \A score : FromScore(score) \in Grades
  /\ \A inv, po : PoGrade(inv, po) \in Grades
BY DEF FromScore, PoGrade, Grades

LEMMA Ranks ==
  /\ Rank["MATCHED"] = 3 /\ Rank["PARTIALLY_MATCHED"] = 2 /\ Rank["NOT_MATCHED"] = 1
  /\ \A d \in Grades : Rank[d] \in 1..3
  /\ "none" \notin Grades
BY DEF Rank, Grades, Decisions

\* _worse of two grades, or of none, is one of them: the one with the lesser rank.
LEMMA WorseOf ==
  ASSUME NEW l \in Grades \union {"none"}, NEW r \in Grades \union {"none"}
  PROVE  /\ Worse(l, r) \in {l, r}
         /\ Worse(l, r) = "none" <=> l = "none" /\ r = "none"
         /\ l # "none" => Rank[Worse(l, r)] <= Rank[l]
         /\ r # "none" => Rank[Worse(l, r)] <= Rank[r]
<1>1. /\ l # "none" => Rank[l] \in 1..3
      /\ r # "none" => Rank[r] \in 1..3
  BY Ranks
<1>2. CASE l = "none" \/ r = "none"
  BY <1>1, <1>2 DEF Worse
<1>3. CASE l # "none" /\ r # "none"
  <2>1. Rank[l] \in 1..3 /\ Rank[r] \in 1..3
    BY <1>1, <1>3
  <2>2. CASE Rank[l] <= Rank[r]
    BY <1>3, <2>1, <2>2 DEF Worse
  <2>3. CASE ~(Rank[l] <= Rank[r])
    BY <1>3, <2>1, <2>3 DEF Worse
  <2> QED
    BY <2>2, <2>3
<1> QED
  BY <1>2, <1>3

-----------------------------------------------------------------------------
(* The grade of finalize_decision *)

\* The worst of the grades PO, GL and GRN gave, and its rank.
Lines(ctx) ==
  Worse(Worse(DecisionOf(ctx["po_match"]), DecisionOf(ctx["gl_match"])),
        DecisionOf(ctx["grn_match"]))
Graders == {"po_match", "gl_match", "grn_match"}
Evidence(ctx) == {Rank[ctx[s].decision] : s \in {t \in Graders : ctx[t] # None}}

LEMMA WorstOfEvidence ==
  ASSUME NEW ctx, CtxOK(ctx)
  PROVE  /\ Lines(ctx) \in Grades \union {"none"}
         /\ Lines(ctx) = "none" <=> Evidence(ctx) = {}
         /\ Lines(ctx) # "none" => /\ Rank[Lines(ctx)] \in Evidence(ctx)
                               /\ \A r \in Evidence(ctx) : Rank[Lines(ctx)] <= r
<1>1. PICK a, b, d : /\ a = DecisionOf(ctx["po_match"]) /\ b = DecisionOf(ctx["gl_match"])
                     /\ d = DecisionOf(ctx["grn_match"])
  OBVIOUS
<1>2. /\ a \in Grades \union {"none"} /\ b \in Grades \union {"none"} /\ d \in Grades \union {"none"}
      /\ "none" \notin Grades
      /\ a = "none" <=> ctx["po_match"] = None
      /\ b = "none" <=> ctx["gl_match"] = None
      /\ d = "none" <=> ctx["grn_match"] = None
      /\ a # "none" => a = ctx["po_match"].decision
      /\ b # "none" => b = ctx["gl_match"].decision
      /\ d # "none" => d = ctx["grn_match"].decision
  BY <1>1, CtxFields DEF DecisionOf, Grades
<1>3. PICK w : w = Worse(a, b)
  OBVIOUS
<1>4. /\ w \in Grades \union {"none"} /\ w \in {a, b}
      /\ w = "none" <=> a = "none" /\ b = "none"
      /\ a # "none" => Rank[w] <= Rank[a]
      /\ b # "none" => Rank[w] <= Rank[b]
  BY <1>2, <1>3, WorseOf
<1>5. PICK v : v = Worse(w, d) /\ v = Lines(ctx)
  BY <1>1, <1>3 DEF Lines
<1>6. /\ v \in Grades \union {"none"} /\ v \in {w, d}
      /\ v = "none" <=> w = "none" /\ d = "none"
      /\ w # "none" => Rank[v] <= Rank[w]
      /\ d # "none" => Rank[v] <= Rank[d]
  <2>1. w \in Grades \union {"none"} /\ d \in Grades \union {"none"}
    BY <1>2, <1>4
  <2>2. v = Worse(w, d)
    BY <1>5
  <2> QED
    BY <2>1, <2>2, WorseOf
<1>7. \A x : x \in Evidence(ctx) <=> \/ a # "none" /\ x = Rank[a]
                                     \/ b # "none" /\ x = Rank[b]
                                     \/ d # "none" /\ x = Rank[d]
  BY <1>2 DEF Evidence, Graders
<1>8. v # "none" => Rank[v] \in Evidence(ctx)
  BY <1>4, <1>6, <1>7
<1>9. ASSUME v # "none", NEW x \in Evidence(ctx) PROVE Rank[v] <= x
  <2>1. v \in Grades /\ Rank[v] \in 1..3
    BY <1>6, <1>9, Ranks
  <2>2. w # "none" => Rank[w] \in 1..3
    BY <1>4, Ranks
  <2>3. /\ a # "none" => Rank[a] \in 1..3
        /\ b # "none" => Rank[b] \in 1..3
    BY <1>2, Ranks
  <2> QED
    BY <1>4, <1>6, <1>7, <1>9, <2>1, <2>2, <2>3
<1>10. v = "none" <=> Evidence(ctx) = {}
  BY <1>4, <1>6, <1>7
<1> QED
  BY <1>5, <1>6, <1>8, <1>9, <1>10

\* The known part of the grade: the worst of the lines, docked for a vendor that
\* does not match, capped for a matter that is not in the master.
LEMMA GradeIsRank ==
  ASSUME NEW ctx, CtxOK(ctx), Decision(ctx) \in Grades
  PROVE  Rank[Decision(ctx)] = GradeOf(ctx)
<1>1. PICK v, vendor, matter, mock, dup :
        /\ v = Lines(ctx) /\ vendor = StatusOf(ctx["vendor_validate"])
        /\ matter = StatusOf(ctx["matter_validate"]) /\ mock = UsedMockData(ctx)
        /\ dup = PossibleDuplicate(ctx)
  OBVIOUS
<1>2. PICK worst :
        worst = IF Evidence(ctx) # {}
                THEN CHOOSE r \in Evidence(ctx) : \A q \in Evidence(ctx) : r <= q
                ELSE IF vendor = "ACTIVE" THEN 3 ELSE 2
  OBVIOUS
<1>3. v \in Grades \union {"none"} /\ (v = "none" <=> Evidence(ctx) = {})
      /\ (v # "none" => /\ Rank[v] \in Evidence(ctx)
                        /\ \A r \in Evidence(ctx) : Rank[v] <= r)
  BY <1>1, WorstOfEvidence
<1>4. \A r \in Evidence(ctx) : r \in 1..3
  BY CtxFields, Ranks DEF Evidence, Graders
<1>5. worst = IF v # "none" THEN Rank[v] ELSE IF vendor = "ACTIVE" THEN 3 ELSE 2
  <2>1. CASE v = "none"
    BY <1>2, <1>3, <2>1
  <2>2. CASE v # "none"
    <3>1. PICK m : m = CHOOSE r \in Evidence(ctx) : \A q \in Evidence(ctx) : r <= q
      OBVIOUS
    <3>2. m \in Evidence(ctx) /\ \A q \in Evidence(ctx) : m <= q
      BY <1>3, <2>2, <3>1
    <3>3. m <= Rank[v] /\ Rank[v] <= m /\ m \in 1..3 /\ Rank[v] \in 1..3
      BY <1>3, <1>4, <2>2, <3>2
    <3>4. m = Rank[v]
      BY <3>3
    <3> QED
      BY <1>2, <1>3, <2>2, <3>1, <3>4
  <2> QED
    BY <2>1, <2>2
<1>6. PICK docked : docked = IF vendor = "MISMATCH" /\ worst > 1 THEN worst - 1 ELSE worst
  OBVIOUS
<1>7. GradeOf(ctx) = IF matter = "NOT_IN_MASTER" \/ mock \/ dup THEN Lesser(docked, 2) ELSE docked
  BY <1>1, <1>2, <1>6 DEF GradeOf, Evidence, Graders
<1>8. PICK vetted :
        vetted = IF vendor # "MISMATCH" THEN v
                 ELSE Worse(v, IF v = "MATCHED" THEN "PARTIALLY_MATCHED" ELSE "NOT_MATCHED")
  OBVIOUS
<1>9. PICK known :
        known = IF matter # "NOT_IN_MASTER" THEN vetted ELSE Worse(vetted, "PARTIALLY_MATCHED")
  OBVIOUS
<1>10. KnownGrade(ctx) = known
  BY <1>1, <1>8, <1>9 DEF KnownGrade, Lines
<1>11. PICK grade : grade = IF known # "none" THEN known
                            ELSE IF vendor = "ACTIVE" THEN "MATCHED" ELSE "PARTIALLY_MATCHED"
  OBVIOUS
<1>12. EvidenceGrade(ctx) = grade
  BY <1>1, <1>10, <1>11 DEF EvidenceGrade
<1>13. Decision(ctx) = IF grade = "MATCHED" /\ (mock \/ dup) THEN "PARTIALLY_MATCHED" ELSE grade
  BY <1>1, <1>12 DEF Decision, Grades
<1>14. v \in {"none", "MATCHED", "PARTIALLY_MATCHED", "NOT_MATCHED"}
  BY <1>3 DEF Grades
<1>15. IF v = "none" THEN worst = (IF vendor = "ACTIVE" THEN 3 ELSE 2)
       ELSE worst = (IF v = "MATCHED" THEN 3 ELSE IF v = "PARTIALLY_MATCHED" THEN 2 ELSE 1)
  BY <1>5, <1>14, Ranks
<1> DEFINE RankIs(g, r) == \/ g = "MATCHED" /\ r = 3
                           \/ g = "PARTIALLY_MATCHED" /\ r = 2
                           \/ g = "NOT_MATCHED" /\ r = 1
<1>16. \A g, r : RankIs(g, r) => g \in Grades /\ Rank[g] = r
  BY Ranks DEF Grades
<1>17. v = "none" \/ RankIs(v, worst)
  BY <1>14, <1>15
<1>18. IF v = "none" /\ vendor # "MISMATCH"
       THEN vetted = "none" /\ docked = (IF vendor = "ACTIVE" THEN 3 ELSE 2)
       ELSE RankIs(vetted, docked)
  <2>1. CASE vendor # "MISMATCH"
    BY <1>6, <1>8, <1>15, <1>17, <2>1
  <2>2. CASE vendor = "MISMATCH" /\ v = "none"
    BY <1>6, <1>8, <1>15, <2>2 DEF Worse
  <2>3. CASE vendor = "MISMATCH" /\ v = "MATCHED"
    BY <1>6, <1>8, <1>15, <2>3, Ranks DEF Worse
  <2>4. CASE vendor = "MISMATCH" /\ v = "PARTIALLY_MATCHED"
    BY <1>6, <1>8, <1>15, <2>4, Ranks DEF Worse
  <2>5. CASE vendor = "MISMATCH" /\ v = "NOT_MATCHED"
    BY <1>6, <1>8, <1>15, <2>5, Ranks DEF Worse
  <2> QED
    BY <1>14, <2>1, <2>2, <2>3, <2>4, <2>5
<1>19. IF matter # "NOT_IN_MASTER" THEN RankIs(grade, docked)
       ELSE RankIs(grade, Lesser(docked, 2))
  <2>1. CASE matter # "NOT_IN_MASTER"
    BY <1>9, <1>11, <1>18, <2>1
  <2>2. CASE matter = "NOT_IN_MASTER" /\ v = "none" /\ vendor # "MISMATCH"
    BY <1>9, <1>11, <1>18, <2>2 DEF Worse, Lesser
  <2>3. CASE matter = "NOT_IN_MASTER" /\ ~(v = "none" /\ vendor # "MISMATCH")
    <3>1. known = Worse(vetted, "PARTIALLY_MATCHED") /\ RankIs(vetted, docked)
      BY <1>9, <1>18, <2>3
    <3>2. RankIs(known, Lesser(docked, 2))
      BY <3>1, Ranks DEF Worse, Lesser
    <3> QED
      BY <1>11, <2>3, <3>2
  <2> QED
    BY <2>1, <2>2, <2>3
<1>20. docked \in 1..3
  BY <1>18
<1>21. RankIs(Decision(ctx), GradeOf(ctx))
  <2>1. CASE mock \/ dup
    BY <1>7, <1>13, <1>19, <1>20, <2>1 DEF Lesser
  <2>2. CASE ~(mock \/ dup)
    BY <1>7, <1>13, <1>19, <2>2
  <2> QED
    BY <2>1, <2>2
<1> QED
  BY <1>16, <1>21

-----------------------------------------------------------------------------
(* Every artifact is of its skill's kind *)

LEMMA FoundPo ==
  ASSUME NEW ctx, CtxOK(ctx), NEW w \in Worlds
  PROVE  PoOf(ctx, w) \in POs \union {None}
<1>1. w.po \in POs \union {None}
  BY DEF Worlds
<1>2. CASE Found(ctx) # {}
  <2>1. FirstOf(Found(ctx)) \in Found(ctx)
    BY <1>2 DEF FirstOf, Found, Lookups, Connectors
  <2>2. ctx[FirstOf(Found(ctx))].po \in POs \union {None}
    BY <2>1, CtxFields DEF Found
  <2> QED
    BY <1>2, <2>2 DEF PoOf
<1>3. CASE Found(ctx) = {}
  BY <1>1, <1>3 DEF PoOf
<1> QED
  BY <1>2, <1>3

LEMMA ResultFits ==
  ASSUME NEW s \in Skills, s # "duplicate_detect", NEW ctx, CtxOK(ctx), NEW w \in Worlds,
         NEW i \in Items, doc[i] \in Invoices
  PROVE  Result(s, i, ctx, w) \in Artifacts(s)
<1>1. CASE s = "extract_invoice"
  BY <1>1 DEF Result, Artifacts, Lookups, Connectors
<1>2. CASE s \in Lookups
  <2>1. Lookup(s, ctx["extract_invoice"], ctx, w) \in [skipped : BOOLEAN, po : POs \union {None}]
    BY DEF Lookup, Worlds
  <2> QED
    BY <1>2, <2>1 DEF Result, Artifacts, Lookups, Connectors
<1>3. CASE s = "po_match"
  <2>1. PoMatch(ctx["extract_invoice"], ctx, w) \in [decision : Grades, po : POs \union {None}]
    BY FoundPo, GradesOfScores DEF PoMatch, Grades
  <2> QED
    BY <1>3, <2>1 DEF Result, Artifacts, Lookups, Connectors
<1>4. CASE s = "gl_match"
  <2>1. GlMatch(ctx["extract_invoice"], w) \in [decision : Grades]
    BY GradesOfScores DEF GlMatch
  <2> QED
    BY <1>4, <2>1 DEF Result, Artifacts, Lookups, Connectors
<1>5. CASE s = "grn_match"
  <2>1. w.grn = None \/ w.grn.offline \in BOOLEAN
    BY DEF Worlds
  <2>2. GrnMatch(ctx["extract_invoice"], w) \in [decision : Grades, mock : BOOLEAN]
    BY <2>1, GradesOfScores DEF GrnMatch, Grades
  <2> QED
    BY <1>5, <2>2 DEF Result, Artifacts, Lookups, Connectors
<1>6. CASE s = "vendor_validate"
  <2>1. w.master = None \/ (w.master.offline \in BOOLEAN /\ w.master.status \in {"ACTIVE", "INACTIVE"})
    BY DEF Worlds
  <2>2. VendorValidate(ctx["extract_invoice"], ctx, w) \in
          [status : {"MISSING", "ACTIVE", "INACTIVE", "MISMATCH", "UNVERIFIED"}, mock : BOOLEAN]
    BY <2>1 DEF VendorValidate
  <2> QED
    BY <1>6, <2>2 DEF Result, Artifacts, Lookups, Connectors
<1>7. CASE s = "matter_validate"
  <2>1. MatterValidate(ctx["extract_invoice"], w) \in
          [status : {"SKIPPED", "MATCHED", "NOT_IN_MASTER"}, mock : BOOLEAN]
    BY DEF MatterValidate
  <2> QED
    BY <1>7, <2>1 DEF Result, Artifacts, Lookups, Connectors
<1>8. CASE s = "backorder_detect"
  <2>1. BackorderDetect(ctx, w) \in [detected : BOOLEAN]
    BY DEF BackorderDetect
  <2> QED
    BY <1>8, <2>1 DEF Result, Artifacts, Lookups, Connectors
<1>9. CASE s = "finalize_decision"
  <2>1. PICK v : v = Lines(ctx) /\ v \in Grades \union {"none"}
    BY WorstOfEvidence
  <2>2. EvidenceGrade(ctx) \in Grades
    <3>1. KnownGrade(ctx) \in Grades \union {"none"}
      <4>1. PICK vetted :
              vetted = IF StatusOf(ctx["vendor_validate"]) # "MISMATCH" THEN v
                       ELSE Worse(v, IF v = "MATCHED" THEN "PARTIALLY_MATCHED" ELSE "NOT_MATCHED")
        OBVIOUS
      <4>2. vetted \in Grades \union {"none"}
        BY <2>1, <4>1, WorseOf DEF Grades
      <4>3. Worse(vetted, "PARTIALLY_MATCHED") \in Grades \union {"none"}
        BY <4>2, WorseOf DEF Grades
      <4> QED
        BY <2>1, <4>1, <4>2, <4>3 DEF KnownGrade, Lines
    <3> QED
      BY <3>1 DEF EvidenceGrade, Grades
  <2>3. Decision(ctx) \in Decisions
    BY <2>2 DEF Decision, Decisions, Grades
  <2>4. Finalize(ctx) \in [decision : Decisions, mock : BOOLEAN]
    BY <2>3 DEF Finalize, UsedMockData
  <2> QED
    BY <1>9, <2>4 DEF Result, Artifacts, Lookups, Connectors
<1>10. CASE s = "workflow_move_next"
  <2>1. [moved |-> Moves(ctx, w)] \in [moved : BOOLEAN]
    BY DEF Moves, Worlds
  <2> QED
    BY <1>10, <2>1 DEF Result, Artifacts, Lookups, Connectors
<1> QED
  BY <1>1, <1>2, <1>3, <1>4, <1>5, <1>6, <1>7, <1>8, <1>9, <1>10 DEF Skills

-----------------------------------------------------------------------------
(* The inductive invariant *)

RecordOK(r) ==
  /\ r = [item |-> r.item, kind |-> r.kind, plan |-> r.plan, pos |-> r.pos, world |-> r.world,
          ctx |-> r.ctx, seen |-> r.seen, prior |-> r.prior]
  /\ CtxOK(r.ctx)

Inv ==
  /\ DOMAIN doc = Items /\ \A i \in Items : doc[i] \in Invoices
  /\ pc \in [Jobs -> {"new", "run", "history", "done", "failed"}]
  /\ DOMAIN job = Jobs /\ job = [j \in Jobs |-> job[j]]
  /\ \A j \in Jobs : /\ RecordOK(job[j])
                     /\ pc[j] # "new" => job[j].item \in Items /\ job[j].world \in Worlds
  /\ DOMAIN latest = Items /\ latest = [i \in Items |-> latest[i]]
  /\ \A i \in Items : CtxOK(latest[i])

LEMMA ChangeOneArtifact ==
  ASSUME NEW ctx, CtxOK(ctx), NEW s, NEW a, s \in Skills => a \in Artifacts(s)
  PROVE  CtxOK([ctx EXCEPT ![s] = a])
<1>1. PICK new : new = [ctx EXCEPT ![s] = a]
  OBVIOUS
<1>2. DOMAIN new = Skills /\ \A t \in Skills : new[t] = IF t = s THEN a ELSE ctx[t]
  BY <1>1 DEF CtxOK
<1>3. new = [t \in Skills |-> new[t]]
  BY <1>1, <1>2 DEF CtxOK
<1> QED
  BY <1>1, <1>2, <1>3 DEF CtxOK

\* The next value of a record, or of a row, is what it is.
LEMMA NextRecord ==
  ASSUME NEW q \in Jobs, NEW k, job'[q] = k, RecordOK(k) PROVE RecordOK(job[q])'
BY DEF RecordOK, CtxOK

LEMMA NextRow ==
  ASSUME NEW i \in Items, CtxOK(latest'[i]) PROVE CtxOK(latest[i])'
BY DEF CtxOK

\* Finish puts a well formed artifact where it belongs.
LEMMA FinishKeeps ==
  ASSUME Inv, NEW j \in Jobs, pc[j] # "new", NEW a, NEW n, Finish(j, a, n), doc' = doc,
         NEW s, s = SkillAt(j), s \in Skills => a \in Artifacts(s)
  PROVE  Inv' /\ (s \in Skills => job'[j].ctx[s] = a)
<1>1. PICK r : r = job[j] /\ RecordOK(r) /\ r.item \in Items /\ r.world \in Worlds
  BY DEF Inv
<1>2. PICK i, k, p, m, w, x, e, o :
        /\ r = [item |-> i, kind |-> k, plan |-> p, pos |-> m, world |-> w, ctx |-> x, seen |-> e,
                prior |-> o]
        /\ CtxOK(x) /\ i \in Items /\ w \in Worlds
  BY <1>1 DEF RecordOK
<1>3. PICK y, m2 : y = [x EXCEPT ![s] = a] /\ m2 = (IF m = Len(p) THEN m ELSE m + 1)
  OBVIOUS
<1> DEFINE l == [item |-> i, kind |-> k, plan |-> p, pos |-> m2, world |-> w, ctx |-> y,
                 seen |-> {}, prior |-> o]
<1>4. RecordOK(l) /\ l.item \in Items /\ l.world \in Worlds
  BY <1>2, <1>3, ChangeOneArtifact DEF RecordOK
<1>5. job' = [job EXCEPT ![j] = l]
  <2>1. job' = [job EXCEPT ![j] = [r EXCEPT !.ctx[s] = a, !.seen = {}, !.pos = m2]]
    <3>1. m2 = IF job[j].pos = Len(job[j].plan) THEN job[j].pos ELSE job[j].pos + 1
      BY <1>1, <1>2, <1>3
    <3> QED
      BY <1>1, <3>1 DEF Finish
  <2>2. [r EXCEPT !.ctx[s] = a, !.seen = {}, !.pos = m2] = l
    <3> HIDE DEF l
    <3>0. /\ l.item = i /\ l.kind = k /\ l.plan = p /\ l.pos = m2 /\ l.world = w /\ l.ctx = y
          /\ l.seen = {} /\ l.prior = o /\ l = [f \in DOMAIN r |-> l[f]]
      BY <1>2 DEF l
    <3>1. r.ctx = x
      BY <1>2
    <3>2. [r EXCEPT !.ctx = y, !.seen = {}, !.pos = m2] = l
      <4>1. PICK l2 : l2 = [r EXCEPT !.ctx = y, !.seen = {}, !.pos = m2]
        OBVIOUS
      <4>2. l2 = [f \in DOMAIN r |-> l2[f]]
        BY <1>2, <4>1
      <4>3. \A f \in DOMAIN r : l2[f] = l[f]
        <5>1. DOMAIN r = {"item", "kind", "plan", "pos", "world", "ctx", "seen", "prior"}
          BY <1>2
        <5>2. /\ l2.item = i /\ l2.kind = k /\ l2.plan = p /\ l2.pos = m2 /\ l2.world = w
              /\ l2.ctx = y /\ l2.seen = {} /\ l2.prior = o
          BY <1>2, <4>1, <5>1
        <5> QED
          BY <3>0, <5>1, <5>2
      <4> QED
        BY <3>0, <4>1, <4>2, <4>3
    <3>3. [r EXCEPT !.ctx[s] = a, !.seen = {}, !.pos = m2] =
          [r EXCEPT !.ctx = [r.ctx EXCEPT ![s] = a], !.seen = {}, !.pos = m2]
      OBVIOUS
    <3> QED
      BY <1>3, <3>1, <3>2, <3>3
  <2> QED
    BY <2>1, <2>2
<1> HIDE DEF l
<1>6. /\ DOMAIN job' = Jobs /\ job' = [q \in Jobs |-> job'[q]]
      /\ job'[j] = l /\ \A q \in Jobs \ {j} : job'[q] = job[q]
  BY <1>5 DEF Inv
<1>7. pc' \in [Jobs -> {"new", "run", "history", "done", "failed"}]
      /\ \A q \in Jobs \ {j} : pc'[q] = pc[q]
  BY DEF Finish, Inv
<1>8. ASSUME NEW q \in Jobs
      PROVE  \E c : /\ c = job'[q] /\ RecordOK(c)
                    /\ pc'[q] # "new" => job'[q].item \in Items /\ job'[q].world \in Worlds
  BY <1>4, <1>6, <1>7 DEF Inv
<1>9. /\ DOMAIN latest' = Items /\ latest' = [z \in Items |-> latest'[z]]
      /\ \A z \in Items : CtxOK(latest'[z])
  <2>1. CASE latest' = [latest EXCEPT ![r.item][s] = a]
    <3>1. CtxOK(latest[r.item])
      BY <1>1 DEF Inv
    <3>2. CtxOK([latest[r.item] EXCEPT ![s] = a])
      BY <3>1, ChangeOneArtifact
    <3>3. latest' = [latest EXCEPT ![r.item] = [latest[r.item] EXCEPT ![s] = a]]
      BY <1>1, <2>1
    <3> QED
      BY <1>1, <3>2, <3>3 DEF Inv
  <2>2. CASE latest' = latest
    BY <2>2 DEF Inv
  <2> QED
    BY <1>1, <2>1, <2>2 DEF Finish, Save, rows
<1>10. ASSUME NEW q \in Jobs PROVE RecordOK(job[q])'
  <2>1. PICK c : c = job'[q] /\ RecordOK(c)
    BY <1>8
  <2> QED
    BY <2>1, NextRecord
<1>11. ASSUME NEW z \in Items PROVE CtxOK(latest[z])'
  BY <1>9, NextRow
<1>12. s \in Skills => y[s] = a
  BY <1>2, <1>3 DEF CtxOK
<1>13. s \in Skills => job'[j].ctx[s] = a
  BY <1>6, <1>12 DEF l
<1> QED
  BY <1>6, <1>7, <1>8, <1>9, <1>10, <1>11, <1>13 DEF Inv

LEMMA RunSkillKeeps ==
  ASSUME Inv, NEW j \in Jobs, RunSkill(j)
  PROVE  /\ Inv'
         /\ SkillAt(j) = "finalize_decision" =>
              job'[j].ctx["finalize_decision"] = Finalize(job[j].ctx)
<1>1. PICK s, ctx, i, w, a :
        /\ s = SkillAt(j) /\ ctx = job[j].ctx /\ i = job[j].item /\ w = job[j].world
        /\ a = Result(s, i, ctx, w)
  OBVIOUS
<1>2. pc[j] # "new" /\ CtxOK(ctx) /\ i \in Items /\ w \in Worlds /\ doc[i] \in Invoices
  BY <1>1 DEF RunSkill, Inv, RecordOK
<1>3. Finish(j, a, 0) /\ doc' = doc /\ s # "duplicate_detect"
  BY <1>1 DEF RunSkill
<1>4. s \in Skills => a \in Artifacts(s)
  BY <1>1, <1>2, <1>3, ResultFits
<1>5. Inv' /\ (s \in Skills => job'[j].ctx[s] = a)
  BY <1>1, <1>2, <1>3, <1>4, FinishKeeps
<1>6. s = "finalize_decision" => s \in Skills /\ a = Finalize(ctx)
  BY <1>1 DEF Result, Skills, Lookups, Connectors
<1> QED
  BY <1>1, <1>5, <1>6

LEMMA CompareHistoryKeeps ==
  ASSUME Inv, NEW j \in Jobs, CompareHistory(j), SkillAt(j) = "duplicate_detect" PROVE Inv'
<1>1. PICK n, hits, a :
        n \in {0, 1} /\ a = DuplicateDetect(job[j].item, job[j].seen, hits, job[j].world) /\ Finish(j, a, n)
  BY DEF CompareHistory
<1>2. pc[j] # "new" /\ doc' = doc
  BY DEF CompareHistory
<1>3. a \in [duplicate : BOOLEAN, possible : BOOLEAN]
  BY <1>1 DEF DuplicateDetect, HardDuplicate, SameVendorSeen, CloudHas
<1>4. a \in Artifacts("duplicate_detect")
  BY <1>3 DEF Artifacts, Lookups, Connectors
<1> QED
  BY <1>1, <1>2, <1>4, FinishKeeps

\* A step of a job that changes what it is at and not what it knows.
LEMMA QuietKeeps ==
  ASSUME Inv, NEW j \in Jobs, NEW e, NEW o, pc[j] # "new",
         job' = job \/ job' = [job EXCEPT ![j] = [job[j] EXCEPT !.seen = e, !.prior = o]],
         pc' \in [Jobs -> {"new", "run", "history", "done", "failed"}],
         \A q \in Jobs \ {j} : pc'[q] = pc[q],
         UNCHANGED <<doc, latest>>
  PROVE  Inv'
<1>1. PICK l : l = [job[j] EXCEPT !.seen = e, !.prior = o]
  OBVIOUS
<1>2. PICK i, k, p, m, w, x, e1, o1 :
        /\ job[j] = [item |-> i, kind |-> k, plan |-> p, pos |-> m, world |-> w, ctx |-> x,
                     seen |-> e1, prior |-> o1]
        /\ CtxOK(x) /\ i \in Items /\ w \in Worlds
  BY DEF Inv, RecordOK
<1>3. l = [item |-> i, kind |-> k, plan |-> p, pos |-> m, world |-> w, ctx |-> x,
           seen |-> e, prior |-> o]
  <2>1. PICK r : r = [item |-> i, kind |-> k, plan |-> p, pos |-> m, world |-> w, ctx |-> x,
                      seen |-> e, prior |-> o]
    OBVIOUS
  <2>2. DOMAIN job[j] = {"item", "kind", "plan", "pos", "world", "ctx", "seen", "prior"}
    BY <1>2
  <2>3. l = [f \in DOMAIN job[j] |-> l[f]] /\ r = [f \in DOMAIN job[j] |-> r[f]]
    BY <1>1, <2>1, <2>2
  <2>4. \A f \in DOMAIN job[j] : l[f] = r[f]
    <3>1. /\ l.item = i /\ l.kind = k /\ l.plan = p /\ l.pos = m /\ l.world = w
          /\ l.ctx = x /\ l.seen = e /\ l.prior = o
      BY <1>1, <1>2, <2>2
    <3>2. /\ r.item = i /\ r.kind = k /\ r.plan = p /\ r.pos = m /\ r.world = w
          /\ r.ctx = x /\ r.seen = e /\ r.prior = o
      BY <2>1
    <3> QED
      BY <2>2, <3>1, <3>2
  <2> QED
    BY <2>1, <2>3, <2>4
<1>4. RecordOK(l) /\ l.item \in Items /\ l.world \in Worlds
  BY <1>2, <1>3 DEF RecordOK
<1>5. /\ DOMAIN job' = Jobs /\ job' = [q \in Jobs |-> job'[q]]
      /\ job'[j] = job[j] \/ job'[j] = l
      /\ \A q \in Jobs \ {j} : job'[q] = job[q]
  BY <1>1 DEF Inv
<1>6. ASSUME NEW q \in Jobs
      PROVE  \E k2 : /\ k2 = job'[q] /\ RecordOK(k2)
                     /\ pc'[q] # "new" => job'[q].item \in Items /\ job'[q].world \in Worlds
  BY <1>4, <1>5 DEF Inv
<1>7. ASSUME NEW q \in Jobs PROVE RecordOK(job[q])'
  <2>1. PICK k2 : k2 = job'[q] /\ RecordOK(k2)
    BY <1>6
  <2> QED
    BY <2>1, NextRecord
<1>8. ASSUME NEW z \in Items PROVE CtxOK(latest[z])'
  <2>1. CtxOK(latest'[z])
    BY DEF Inv
  <2> QED
    BY <2>1, NextRow
<1> QED
  BY <1>5, <1>6, <1>7, <1>8 DEF Inv

LEMMA ReadAndRaiseKeep ==
  ASSUME Inv, NEW j \in Jobs, ReadExtracts(j) \/ SkillRaises(j) PROVE Inv'
<1>1. /\ pc[j] # "new" /\ doc' = doc /\ latest' = latest
      /\ pc' \in [Jobs -> {"new", "run", "history", "done", "failed"}]
      /\ \A q \in Jobs \ {j} : pc'[q] = pc[q]
  BY DEF ReadExtracts, SkillRaises, rows, Inv
<1>2. CASE job' = job
  BY <1>1, <1>2, QuietKeeps
<1>3. ASSUME NEW e, NEW o, job' = [job EXCEPT ![j].seen = e, ![j].prior = o] PROVE Inv'
  <2>1. job' = [job EXCEPT ![j] = [job[j] EXCEPT !.seen = e, !.prior = o]]
    BY <1>3 DEF Inv
  <2> QED
    BY <1>1, <2>1, QuietKeeps
<1>4. ASSUME NEW o, job' = [job EXCEPT ![j].prior = o] PROVE Inv'
  <2>1. [job[j] EXCEPT !.prior = o] = [job[j] EXCEPT !.seen = job[j].seen, !.prior = o]
    BY DEF Inv, RecordOK
  <2>2. job' = [job EXCEPT ![j] = [job[j] EXCEPT !.seen = job[j].seen, !.prior = o]]
    BY <1>4, <2>1 DEF Inv
  <2> QED
    BY <1>1, <2>2, QuietKeeps
<1> QED
  BY <1>2, <1>3, <1>4 DEF ReadExtracts, SkillRaises

LEMMA SubmitKeeps ==
  ASSUME Inv, NEW j \in Jobs, Submit(j) PROVE Inv'
<1>1. PICK i, w, k, p :
        /\ i \in Items /\ w \in WorldsOf[j]
        /\ job' = [job EXCEPT ![j] = [NoJob EXCEPT !.item = i, !.kind = k, !.plan = p,
                                                   !.world = w, !.ctx = latest[i]]]
  BY DEF Submit
<1>2. PICK l : l = [item |-> i, kind |-> k, plan |-> p, pos |-> 1, world |-> w,
                    ctx |-> latest[i], seen |-> {}, prior |-> {}]
  OBVIOUS
<1>3. job' = [job EXCEPT ![j] = l]
  <2>1. PICK t : t = [NoJob EXCEPT !.item = i, !.kind = k, !.plan = p, !.world = w, !.ctx = latest[i]]
    OBVIOUS
  <2>2. DOMAIN NoJob = {"item", "kind", "plan", "pos", "world", "ctx", "seen", "prior"}
        /\ NoJob.pos = 1 /\ NoJob.seen = {} /\ NoJob.prior = {}
    BY DEF NoJob
  <2>3. t = [f \in DOMAIN NoJob |-> t[f]] /\ l = [f \in DOMAIN NoJob |-> l[f]]
    BY <1>2, <2>1, <2>2
  <2>4. \A f \in DOMAIN NoJob : t[f] = l[f]
    <3>1. /\ t.item = i /\ t.kind = k /\ t.plan = p /\ t.pos = 1 /\ t.world = w
          /\ t.ctx = latest[i] /\ t.seen = {} /\ t.prior = {}
      BY <2>1, <2>2
    <3>2. /\ l.item = i /\ l.kind = k /\ l.plan = p /\ l.pos = 1 /\ l.world = w
          /\ l.ctx = latest[i] /\ l.seen = {} /\ l.prior = {}
      BY <1>2
    <3> QED
      BY <2>2, <3>1, <3>2
  <2>5. t = l
    BY <2>3, <2>4
  <2> QED
    BY <1>1, <2>1, <2>5
<1>4. w \in Worlds
  BY <1>1, InputsAssumption
<1>5. RecordOK(l) /\ l.item \in Items /\ l.world \in Worlds
  BY <1>1, <1>2, <1>4 DEF RecordOK, Inv
<1>6. /\ DOMAIN job' = Jobs /\ job' = [q \in Jobs |-> job'[q]]
      /\ job'[j] = l /\ \A q \in Jobs \ {j} : job'[q] = job[q]
  BY <1>3 DEF Inv
<1>7. /\ pc' \in [Jobs -> {"new", "run", "history", "done", "failed"}]
      /\ \A q \in Jobs \ {j} : pc'[q] = pc[q]
      /\ doc' = doc /\ latest' = latest
  BY DEF Submit, Inv, rows
<1>8. ASSUME NEW q \in Jobs
      PROVE  \E k2 : /\ k2 = job'[q] /\ RecordOK(k2)
                     /\ pc'[q] # "new" => job'[q].item \in Items /\ job'[q].world \in Worlds
  BY <1>5, <1>6, <1>7 DEF Inv
<1>9. ASSUME NEW q \in Jobs PROVE RecordOK(job[q])'
  <2>1. PICK k2 : k2 = job'[q] /\ RecordOK(k2)
    BY <1>8
  <2> QED
    BY <2>1, NextRecord
<1>10. ASSUME NEW z \in Items PROVE CtxOK(latest[z])'
  <2>1. CtxOK(latest'[z])
    BY <1>7 DEF Inv
  <2> QED
    BY <2>1, NextRow
<1> QED
  BY <1>6, <1>7, <1>8, <1>9, <1>10 DEF Inv

\* Only the run that reads its history is between the two queries.
HistoryInv == \A j \in Jobs : pc[j] = "history" => SkillAt(j) = "duplicate_detect"

LEMMA InitInv == Init => Inv /\ HistoryInv
<1> SUFFICES ASSUME Init PROVE Inv /\ HistoryInv
  OBVIOUS
<1>1. CtxOK(NoArtifacts)
  BY DEF CtxOK, NoArtifacts
<1>2. RecordOK(NoJob)
  BY <1>1 DEF RecordOK, NoJob
<1>3. \A i \in Items : doc[i] \in Invoices
  BY InputsAssumption DEF Init
<1> QED
  BY <1>1, <1>2, <1>3 DEF Init, Inv, HistoryInv

LEMMA HistoryKeeps ==
  ASSUME Inv, HistoryInv, NEW j \in Jobs,
         Submit(j) \/ RunSkill(j) \/ ReadExtracts(j) \/ CompareHistory(j) \/ SkillRaises(j)
  PROVE  HistoryInv'
<1>1. /\ DOMAIN job' = Jobs /\ DOMAIN pc' = Jobs
      /\ \A q \in Jobs \ {j} : job'[q] = job[q] /\ pc'[q] = pc[q]
  BY DEF Inv, Submit, RunSkill, ReadExtracts, CompareHistory, SkillRaises, Finish
<1>2. pc'[j] = "history" => SkillAt(j)' = "duplicate_detect"
  <2>1. CASE ReadExtracts(j)
    <3>1. job'[j].plan = job[j].plan /\ job'[j].pos = job[j].pos
      BY <2>1 DEF ReadExtracts, Inv, RecordOK
    <3> QED
      BY <2>1, <3>1 DEF ReadExtracts, SkillAt
  <2>2. CASE ~ReadExtracts(j)
    BY <2>2 DEF Inv, Submit, RunSkill, CompareHistory, SkillRaises, Finish
  <2> QED
    BY <2>1, <2>2
<1> QED
  BY <1>1, <1>2 DEF HistoryInv, SkillAt

LEMMA SpecInv == Spec => [](Inv /\ HistoryInv)
<1>1. ASSUME Inv, HistoryInv, [Next]_vars PROVE (Inv /\ HistoryInv)'
  <2>1. CASE UNCHANGED vars
    BY <1>1, <2>1 DEF vars, Inv, HistoryInv, RecordOK, CtxOK, SkillAt
  <2>2. ASSUME NEW j \in Jobs,
               Submit(j) \/ RunSkill(j) \/ ReadExtracts(j) \/ CompareHistory(j) \/ SkillRaises(j)
        PROVE  (Inv /\ HistoryInv)'
    <3>1. Inv'
      <4>1. CASE CompareHistory(j)
        BY <1>1, <4>1, CompareHistoryKeeps DEF HistoryInv, CompareHistory
      <4> QED
        BY <1>1, <2>2, <4>1, SubmitKeeps, RunSkillKeeps, ReadAndRaiseKeep
    <3> QED
      BY <1>1, <2>2, <3>1, HistoryKeeps
  <2> QED
    BY <1>1, <2>1, <2>2 DEF Next
<1> QED
  BY <1>1, InitInv, PTL DEF Spec

-----------------------------------------------------------------------------
(* finalize_decision *)

\* What a run knows is well formed: every artifact in ctx and every stored row is
\* what its skill can produce, whichever plan the run had and whatever failed.
ArtifactsFit ==
  /\ \A j \in Jobs, s \in Skills : job[j].ctx[s] \in Artifacts(s) \union {None}
  /\ \A i \in Items, s \in Skills : latest[i][s] \in Artifacts(s) \union {None}

THEOREM ArtifactsAlwaysFit == Spec => []ArtifactsFit
<1>1. Inv => ArtifactsFit
  BY DEF Inv, RecordOK, CtxOK, ArtifactsFit
<1> QED
  BY <1>1, SpecInv, PTL

\* finalize_decision computes the meant grade for every skill order, plan,
\* threshold and master data, whatever ran before it (finalize_decision.py).
THEOREM DecisionGraded == Spec => DecisionIsGraded
<1>1. ASSUME Inv, HistoryInv, [Next]_vars, NEW j \in Jobs,
             pc[j] = "run", SkillAt(j) = "finalize_decision",
             <<pc'[j], job'[j]>> # <<pc[j], job[j]>>, pc'[j] # "failed",
             job'[j].ctx["finalize_decision"].decision \in Grades
      PROVE  Rank[job'[j].ctx["finalize_decision"].decision] = GradeOf(job[j].ctx)
  <2>1. RunSkill(j)
    <3>1. \E q \in Jobs :
            Submit(q) \/ RunSkill(q) \/ ReadExtracts(q) \/ CompareHistory(q) \/ SkillRaises(q)
      BY <1>1 DEF Next, vars
    <3>2. PICK q \in Jobs :
            Submit(q) \/ RunSkill(q) \/ ReadExtracts(q) \/ CompareHistory(q) \/ SkillRaises(q)
      BY <3>1
    <3>3. \A z \in Jobs \ {q} : job'[z] = job[z] /\ pc'[z] = pc[z]
      BY <1>1, <3>2 DEF Inv, Submit, RunSkill, ReadExtracts, CompareHistory, SkillRaises, Finish
    <3>4. q = j
      BY <1>1, <3>3
    <3>5. SkillRaises(j) => pc'[j] = "failed"
      BY <1>1 DEF SkillRaises, Inv
    <3> QED
      BY <1>1, <3>2, <3>4, <3>5 DEF Submit, ReadExtracts, CompareHistory
  <2>2. job'[j].ctx["finalize_decision"] = Finalize(job[j].ctx)
    BY <1>1, <2>1, RunSkillKeeps
  <2>3. CtxOK(job[j].ctx)
    BY <1>1 DEF Inv, RecordOK
  <2>4. job'[j].ctx["finalize_decision"].decision = Decision(job[j].ctx)
    BY <2>2 DEF Finalize
  <2> QED
    BY <1>1, <2>3, <2>4, GradeIsRank
<1>2. Inv /\ HistoryInv /\ [Next]_vars =>
        [\A j \in Jobs :
           LET after == job'[j].ctx["finalize_decision"]
           IN  (/\ pc[j] = "run" /\ SkillAt(j) = "finalize_decision"
                /\ <<pc'[j], job'[j]>> # <<pc[j], job[j]>> /\ pc'[j] # "failed"
                /\ after.decision \in Grades)
                 => Rank[after.decision] = GradeOf(job[j].ctx)]_vars
  BY <1>1
<1> QED
  BY <1>2, SpecInv, PTL DEF Spec, DecisionIsGraded

-----------------------------------------------------------------------------
(* Plans: what maybe_reorder and ensure_ezofis_hana_po_lookup make of an order *)

\* A set of numbers has a least one.
LEMMA Least ==
  ASSUME NEW T, T \subseteq Nat, T # {}
  PROVE  \E x \in T : \A y \in T : x <= y
<1>1. IsWellFoundedOn(OpToRel(<, Nat), Nat)
  BY NatLessThanWellFounded
<1>2. PICK x \in T : \A y \in T : ~(<<y, x>> \in OpToRel(<, Nat))
  BY <1>1, WFMin
<1>3. \A y \in T : ~(y < x)
  BY <1>2 DEF OpToRel
<1> QED
  BY <1>3

\* Induction on the natural numbers, for a set.
LEMMA EveryNat ==
  ASSUME NEW T, 0 \in T, \A n \in Nat : n \in T => n + 1 \in T
  PROVE  Nat \subseteq T
<1> SUFFICES ASSUME Nat \ T # {} PROVE FALSE
  OBVIOUS
<1>1. PICK x \in Nat \ T : \A y \in Nat \ T : x <= y
  BY Least
<1>2. x # 0 /\ x - 1 \in Nat /\ ~(x <= x - 1)
  OBVIOUS
<1> QED
  BY <1>1, <1>2

\* Kept goes through the plan once and appends what is wanted.
LEMMA KeptStepwise ==
  ASSUME NEW plan, Len(plan) \in Nat, NEW wanted
  PROVE  \E f : /\ Kept(plan, wanted) = f[Len(plan)]
                /\ f[0] = <<>>
                /\ \A n \in 1..Len(plan) :
                     f[n] = IF plan[n] \in wanted THEN Append(f[n - 1], plan[n]) ELSE f[n - 1]
<1> DEFINE Is(f, N) == f = [n \in 0..N |-> IF n = 0 THEN <<>>
                              ELSE IF plan[n] \in wanted THEN Append(f[n - 1], plan[n]) ELSE f[n - 1]]
<1>1. \A N \in Nat : \E f : Is(f, N)
  <2> DEFINE T == {N \in Nat : \E f : Is(f, N)}
  <2>1. 0 \in T
    <3>1. Is([n \in 0..0 |-> <<>>], 0)
      OBVIOUS
    <3> QED
      BY <3>1
  <2>2. ASSUME NEW N \in Nat, N \in T PROVE N + 1 \in T
    <3>1. PICK f : Is(f, N)
      BY <2>2
    <3>2. PICK g : g = [n \in 0..N + 1 |-> IF n <= N THEN f[n]
                        ELSE IF plan[n] \in wanted THEN Append(f[n - 1], plan[n]) ELSE f[n - 1]]
      OBVIOUS
    <3>3. \A n \in 0..N : g[n] = f[n]
      BY <3>2
    <3>4. ASSUME NEW n \in 0..N + 1
          PROVE  g[n] = IF n = 0 THEN <<>>
                   ELSE IF plan[n] \in wanted THEN Append(g[n - 1], plan[n]) ELSE g[n - 1]
      <4>1. CASE n = 0
        BY <3>1, <3>3, <4>1
      <4>2. CASE n # 0
        <5>1. n - 1 \in 0..N /\ g[n - 1] = f[n - 1]
          BY <3>3, <4>2
        <5>2. CASE n <= N
          <6>1. n \in 0..N /\ g[n] = f[n]
            BY <3>3, <5>2
          <6> QED
            BY <3>1, <4>2, <5>1, <6>1
        <5>3. CASE ~(n <= N)
          <6>1. g[n] = IF plan[n] \in wanted THEN Append(f[n - 1], plan[n]) ELSE f[n - 1]
            BY <3>2, <5>3
          <6> QED
            BY <4>2, <5>1, <6>1
        <5> QED
          BY <5>2, <5>3
      <4> QED
        BY <4>1, <4>2
    <3>5. Is(g, N + 1)
      <4>1. DOMAIN g = 0..N + 1 /\ g = [n \in 0..N + 1 |-> g[n]]
        BY <3>2
      <4> QED
        BY <3>4, <4>1
    <3> QED
      BY <3>5
  <2> HIDE DEF T
  <2>3. Nat \subseteq T
    BY <2>1, <2>2, EveryNat
  <2> QED
    BY <2>3 DEF T
<1>2. PICK f : Is(f, Len(plan)) /\ Kept(plan, wanted) = f[Len(plan)]
  BY <1>1 DEF Kept
<1>3. f[0] = <<>>
  BY <1>2
<1>4. ASSUME NEW n \in 1..Len(plan)
      PROVE  f[n] = IF plan[n] \in wanted THEN Append(f[n - 1], plan[n]) ELSE f[n - 1]
  <2>1. n \in 0..Len(plan) /\ n # 0
    OBVIOUS
  <2>2. f[n] = IF n = 0 THEN <<>>
               ELSE IF plan[n] \in wanted THEN Append(f[n - 1], plan[n]) ELSE f[n - 1]
    BY <1>2, <2>1, Zenon
  <2> QED
    BY <2>1, <2>2
<1> HIDE DEF Is
<1>5. \A n \in 1..Len(plan) :
        f[n] = IF plan[n] \in wanted THEN Append(f[n - 1], plan[n]) ELSE f[n - 1]
  BY <1>4
<1> QED
  BY <1>2, <1>3, <1>5, Zenon

\* It keeps nothing that was not there, and something if anything is wanted.
LEMMA KeptSkills ==
  ASSUME NEW plan \in Seq(Skills), NEW wanted
  PROVE  /\ Kept(plan, wanted) \in Seq(Skills)
         /\ SkillsIn(plan) \intersect wanted # {} => Kept(plan, wanted) # <<>>
<1>1. Len(plan) \in Nat /\ DOMAIN plan = 1..Len(plan) /\ \A n \in 1..Len(plan) : plan[n] \in Skills
  OBVIOUS
<1>2. PICK f : /\ Kept(plan, wanted) = f[Len(plan)]
               /\ f[0] = <<>>
               /\ \A n \in 1..Len(plan) :
                    f[n] = IF plan[n] \in wanted THEN Append(f[n - 1], plan[n]) ELSE f[n - 1]
  BY <1>1, KeptStepwise
<1> DEFINE Good(n) == /\ f[n] \in Seq(Skills)
                      /\ (\E m \in 1..n : plan[m] \in wanted) => Len(f[n]) > 0
           T == {n \in Nat : n <= Len(plan) => Good(n)}
<1>3. 0 \in T
  <2>1. f[0] \in Seq(Skills)
    BY <1>2, EmptySeq
  <2>2. ~ \E m \in 1..0 : plan[m] \in wanted
    OBVIOUS
  <2> QED
    BY <2>1, <2>2
<1>4. ASSUME NEW n \in Nat, n \in T PROVE n + 1 \in T
  <2> SUFFICES ASSUME n + 1 <= Len(plan) PROVE Good(n + 1)
    BY <1>4
  <2>1. Good(n) /\ n + 1 \in 1..Len(plan) /\ plan[n + 1] \in Skills
    BY <1>1, <1>4
  <2>2. f[n + 1] = IF plan[n + 1] \in wanted THEN Append(f[n], plan[n + 1]) ELSE f[n]
    <3>1. (n + 1) - 1 = n
      OBVIOUS
    <3> QED
      BY <1>2, <2>1, <3>1
  <2>3. CASE plan[n + 1] \in wanted
    <3>1. Append(f[n], plan[n + 1]) \in Seq(Skills) /\ Len(Append(f[n], plan[n + 1])) > 0
      BY <2>1
    <3> QED
      BY <2>2, <2>3, <3>1
  <2>4. CASE plan[n + 1] \notin wanted
    <3>1. \A m \in 1..(n + 1) : plan[m] \in wanted => m \in 1..n
      BY <2>4
    <3> QED
      BY <2>1, <2>2, <2>4, <3>1
  <2> QED
    BY <2>3, <2>4
<1> HIDE DEF T
<1>5. Nat \subseteq T
  BY <1>3, <1>4, EveryNat
<1>6. Good(Len(plan))
  <2>1. Len(plan) \in T
    BY <1>1, <1>5
  <2> QED
    BY <1>1, <2>1 DEF T
<1>7. ASSUME SkillsIn(plan) \intersect wanted # {} PROVE \E m \in 1..Len(plan) : plan[m] \in wanted
  BY <1>1, <1>7 DEF SkillsIn
<1> QED
  BY <1>2, <1>6, <1>7

\* A reordered plan is a plan.
LEMMA ReorderedIsPlan ==
  ASSUME NEW plan \in Seq(Skills), Len(plan) > 0, NEW proposal \in Seq(Skills)
  PROVE  Reordered(plan, proposal) \in Seq(Skills) /\ Len(Reordered(plan, proposal)) > 0
<1>1. PICK ordered : ordered = Kept(proposal, SkillsIn(plan))
  OBVIOUS
<1>2. PICK left : left = Kept(plan, SkillsIn(plan) \ SkillsIn(ordered))
  OBVIOUS
<1>3. ordered \in Seq(Skills) /\ left \in Seq(Skills)
  BY <1>1, <1>2, KeptSkills
<1>4. Len(ordered) > 0 \/ Len(left) > 0
  <2>1. plan[1] \in SkillsIn(plan)
    BY DEF SkillsIn
  <2>2. CASE SkillsIn(ordered) = {}
    <3>1. SkillsIn(plan) \intersect (SkillsIn(plan) \ SkillsIn(ordered)) # {}
      BY <2>1, <2>2
    <3>2. left # <<>>
      BY <1>2, <3>1, KeptSkills
    <3> QED
      BY <1>3, <3>2
  <2>3. CASE SkillsIn(ordered) # {}
    BY <1>3, <2>3 DEF SkillsIn
  <2> QED
    BY <2>2, <2>3
<1>5. ordered \o left \in Seq(Skills) /\ Len(ordered \o left) > 0
  BY <1>3, <1>4
<1> QED
  BY <1>1, <1>2, <1>5 DEF Reordered

\* Where the SAP look-up goes: right before the first po_match, the rest as it was.
LookupPut(plan, out) ==
  \E i \in 1..Len(plan) :
    /\ out \in Seq(Skills) /\ Len(out) = Len(plan) + 1
    /\ plan[i] = "po_match" /\ \A m \in 1..(i - 1) : plan[m] # "po_match"
    /\ "po_lookup_sap" \notin SkillsIn(plan)
    /\ \A n \in 1..(Len(plan) + 1) :
         out[n] = IF n < i THEN plan[n] ELSE IF n = i THEN "po_lookup_sap" ELSE plan[n - 1]

LEMMA LookupGoesBefore ==
  ASSUME NEW plan \in Seq(Skills), NEW w
  PROVE  WithLookup(plan, w) = plan \/ LookupPut(plan, WithLookup(plan, w))
<1> SUFFICES ASSUME w.force /\ WantsSap(w),
                    "po_match" \in SkillsIn(plan), "po_lookup_sap" \notin SkillsIn(plan)
             PROVE  LookupPut(plan, WithLookup(plan, w))
  BY DEF WithLookup
<1> DEFINE First(n) == plan[n] = "po_match" /\ \A m \in 1..(n - 1) : plan[m] # "po_match"
<1>1. \E n \in DOMAIN plan : First(n)
  <2> DEFINE T == {n \in DOMAIN plan : plan[n] = "po_match"}
  <2>1. T \subseteq Nat /\ T # {}
    BY DEF SkillsIn
  <2> HIDE DEF T
  <2>2. PICK n \in T : \A m \in T : n <= m
    BY <2>1, Least
  <2>3. n \in 1..Len(plan) /\ plan[n] = "po_match"
    BY <2>2 DEF T
  <2>4. \A m \in 1..(n - 1) : m \in DOMAIN plan /\ ~(n <= m)
    BY <2>3
  <2>5. \A m \in 1..(n - 1) : plan[m] # "po_match"
    BY <2>2, <2>4 DEF T
  <2> QED
    BY <2>3, <2>5
<1>2. PICK i : i = CHOOSE n \in DOMAIN plan : First(n)
  OBVIOUS
<1>3. i \in 1..Len(plan) /\ First(i)
  BY <1>1, <1>2
<1>4. PICK out : out = SubSeq(plan, 1, i - 1) \o <<"po_lookup_sap">> \o SubSeq(plan, i, Len(plan))
  OBVIOUS
<1>5. out = WithLookup(plan, w)
  <2>1. WithLookup(plan, w) = Sq!InsertAt(plan, i, "po_lookup_sap")
    BY <1>2 DEF WithLookup
  <2> QED
    BY <1>4, <2>1 DEF Sq!InsertAt
<1>6. PICK a, b : a = SubSeq(plan, 1, i - 1) /\ b = SubSeq(plan, i, Len(plan))
  OBVIOUS
<1>7. /\ a \in Seq(Skills) /\ Len(a) = i - 1 /\ \A n \in 1..(i - 1) : a[n] = plan[n]
      /\ b \in Seq(Skills) /\ Len(b) = Len(plan) - i + 1
      /\ \A n \in 1..(Len(plan) - i + 1) : b[n] = plan[n + i - 1]
  <2>1. /\ \A m \in 1..(i - 1) : plan[m] \in Skills
        /\ \A m \in i..Len(plan) : plan[m] \in Skills
    BY <1>3
  <2>2. 1 \in Int /\ i \in Int /\ i - 1 \in Int /\ Len(plan) \in Int
    BY <1>3
  <2>3. /\ a \in Seq(Skills) /\ Len(a) = i - 1 /\ \A n \in 1..(i - 1) : a[n] = plan[n]
    <3>1. /\ a \in Seq(Skills) /\ Len(a) = (IF 1 <= i - 1 THEN i - 1 - 1 + 1 ELSE 0)
          /\ \A n \in 1..(i - 1 - 1 + 1) : a[n] = plan[1 + n - 1]
      BY <1>6, <2>1, <2>2, SubSeqProperties
    <3> QED
      BY <1>3, <3>1
  <2>4. /\ b \in Seq(Skills) /\ Len(b) = (IF i <= Len(plan) THEN Len(plan) - i + 1 ELSE 0)
        /\ \A n \in 1..(Len(plan) - i + 1) : b[n] = plan[i + n - 1]
    BY <1>6, <2>1, <2>2, SubSeqProperties
  <2> QED
    BY <1>3, <2>3, <2>4
<1>8. PICK c : c = a \o <<"po_lookup_sap">>
  OBVIOUS
<1>9. /\ c \in Seq(Skills) /\ Len(c) = i
      /\ \A n \in 1..(i - 1) : c[n] = plan[n]
      /\ c[i] = "po_lookup_sap"
  BY <1>3, <1>7, <1>8 DEF Skills, Lookups, Connectors
<1>10. out = c \o b
  BY <1>4, <1>6, <1>8
<1>11. /\ out \in Seq(Skills) /\ Len(out) = Len(c) + Len(b)
       /\ \A n \in 1..Len(c) + Len(b) : out[n] = IF n <= Len(c) THEN c[n] ELSE b[n - Len(c)]
  <2>1. c \in Seq(Skills) /\ b \in Seq(Skills)
    BY <1>7, <1>9
  <2>2. /\ c \o b \in Seq(Skills) /\ Len(c \o b) = Len(c) + Len(b)
        /\ \A n \in 1..Len(c) + Len(b) : (c \o b)[n] = IF n <= Len(c) THEN c[n] ELSE b[n - Len(c)]
    BY <2>1, ConcatProperties, Zenon
  <2> QED
    BY <1>10, <2>2, Zenon
<1>12. Len(out) = Len(plan) + 1
  <2>1. Len(plan) \in Nat /\ i \in Nat /\ Len(c) = i /\ Len(b) = Len(plan) - i + 1
    BY <1>3, <1>7, <1>9
  <2> QED
    BY <1>11, <2>1
<1>13. ASSUME NEW n \in 1..(Len(plan) + 1)
       PROVE  out[n] = IF n < i THEN plan[n] ELSE IF n = i THEN "po_lookup_sap" ELSE plan[n - 1]
  <2>1. CASE n <= i
    <3>1. n \in 1..Len(c) + Len(b) /\ n <= Len(c)
      BY <1>3, <1>7, <1>9, <2>1
    <3>2. out[n] = c[n]
      BY <1>11, <3>1
    <3> QED
      BY <1>3, <1>9, <2>1, <3>2
  <2>2. CASE n > i
    <3>1. n - i \in 1..(Len(plan) - i + 1) /\ out[n] = b[n - i]
      BY <1>3, <1>7, <1>9, <1>11, <2>2
    <3>2. (n - i) + i - 1 = n - 1
      BY <1>3
    <3> QED
      BY <1>3, <1>7, <2>2, <3>1, <3>2
  <2> QED
    BY <1>3, <2>1, <2>2
<1>14. LookupPut(plan, out)
  BY <1>3, <1>11, <1>12, <1>13 DEF LookupPut
<1> QED
  BY <1>5, <1>14

LEMMA LookupKeepsPlan ==
  ASSUME NEW plan \in Seq(Skills), Len(plan) > 0, NEW w
  PROVE  WithLookup(plan, w) \in Seq(Skills) /\ Len(WithLookup(plan, w)) > 0
BY LookupGoesBefore DEF LookupPut

\* What Submit may choose is a plan: some known skills.
LEMMA PlansAreSkills ==
  ASSUME NEW j \in Jobs, NEW w, NEW p
  PROVE  p \in DefaultPlans(w) \/ p \in {WithLookup(q, w) : q \in ExplicitPlans[j]} =>
           p \in Seq(Skills) /\ Len(p) > 0
<1>1. ASSUME p \in DefaultPlans(w) PROVE p \in Seq(Skills) /\ Len(p) > 0
  <2>1. WithLookup(DefaultOrder, w) \in Seq(Skills) /\ Len(WithLookup(DefaultOrder, w)) > 0
    BY InputsAssumption, LookupKeepsPlan
  <2>2. ASSUME NEW q \in Proposals, p = Reordered(WithLookup(DefaultOrder, w), q)
        PROVE  p \in Seq(Skills) /\ Len(p) > 0
    <3>1. q \in Seq(Skills)
      BY InputsAssumption
    <3> QED
      BY <2>1, <2>2, <3>1, ReorderedIsPlan
  <2> QED
    BY <1>1, <2>1, <2>2 DEF DefaultPlans
<1>2. ASSUME NEW q \in ExplicitPlans[j], p = WithLookup(q, w) PROVE p \in Seq(Skills) /\ Len(p) > 0
  <2>1. q \in Seq(Skills) /\ q # <<>>
    BY InputsAssumption
  <2>2. Len(q) > 0
    BY <2>1
  <2> QED
    BY <1>2, <2>1, <2>2, LookupKeepsPlan
<1> QED
  BY <1>1, <1>2

\* The look-up put into the tenant's order changes nothing of what comes before what.
LEMMA OrderStays ==
  ASSUME NEW w, NEW plan, plan = WithLookup(DefaultOrder, w)
  PROVE  /\ SkillsIn(DefaultOrder) \subseteq SkillsIn(plan)
         /\ \A s : \A t \in Skills \ {"po_lookup_sap"} :
              Precedes(DefaultOrder, s, t) => Precedes(plan, s, t)
         /\ OrderDecides => \A s \in Lookups \intersect SkillsIn(plan) : Precedes(plan, s, "po_match")
         /\ OrderJudges => \A n \in DOMAIN plan :
              plan[n] = "duplicate_detect" =>
                \E m \in DOMAIN plan : m > n /\ plan[m] = "finalize_decision"
<1>1. DefaultOrder \in Seq(Skills) /\ DOMAIN DefaultOrder = 1..Len(DefaultOrder) /\ Len(DefaultOrder) \in Nat
  BY InputsAssumption
<1>2. CASE plan = DefaultOrder
  BY <1>2 DEF OrderDecides, OrderJudges
<1>3. CASE plan # DefaultOrder
  <2>1. PICK i \in 1..Len(DefaultOrder) :
          /\ plan \in Seq(Skills) /\ Len(plan) = Len(DefaultOrder) + 1
          /\ DefaultOrder[i] = "po_match" /\ \A m \in 1..(i - 1) : DefaultOrder[m] # "po_match"
          /\ "po_lookup_sap" \notin SkillsIn(DefaultOrder)
          /\ \A n \in 1..(Len(DefaultOrder) + 1) :
               plan[n] = IF n < i THEN DefaultOrder[n]
                         ELSE IF n = i THEN "po_lookup_sap" ELSE DefaultOrder[n - 1]
    <3>1. LookupPut(DefaultOrder, plan)
      BY <1>1, <1>3, LookupGoesBefore
    <3> QED
      BY <3>1 DEF LookupPut
  <2> DEFINE At(n) == IF n < i THEN n ELSE n + 1
             From(n) == IF n < i THEN n ELSE n - 1
  <2>2. DOMAIN plan = 1..(Len(DefaultOrder) + 1) /\ plan[i] = "po_lookup_sap" /\ i \in Nat
        /\ i \in DOMAIN plan
    BY <1>1, <2>1
  <2>3. ASSUME NEW n \in DOMAIN DefaultOrder
        PROVE  At(n) \in DOMAIN plan /\ plan[At(n)] = DefaultOrder[n] /\ At(n) # i
    <3>1. At(n) \in 1..(Len(DefaultOrder) + 1) /\ At(n) # i
      BY <1>1, <2>1
    <3>2. plan[At(n)] = IF At(n) < i THEN DefaultOrder[At(n)]
                        ELSE IF At(n) = i THEN "po_lookup_sap" ELSE DefaultOrder[At(n) - 1]
      BY <2>1, <3>1
    <3> QED
      BY <1>1, <2>1, <2>2, <3>1, <3>2
  <2>4. ASSUME NEW n \in DOMAIN plan, n # i
        PROVE  From(n) \in DOMAIN DefaultOrder /\ plan[n] = DefaultOrder[From(n)] /\ At(From(n)) = n
    BY <1>1, <2>1, <2>2, <2>4
  <2>5. SkillsIn(DefaultOrder) \subseteq SkillsIn(plan)
    BY <2>3 DEF SkillsIn
  <2>6. SkillsIn(plan) \subseteq SkillsIn(DefaultOrder) \union {"po_lookup_sap"}
    BY <2>2, <2>4 DEF SkillsIn
  <2>7. ASSUME NEW m \in DOMAIN DefaultOrder, NEW n \in DOMAIN DefaultOrder, m < n PROVE At(m) < At(n)
    BY <1>1, <2>1, <2>7
  <2>8. ASSUME NEW s, NEW t \in Skills \ {"po_lookup_sap"}, Precedes(DefaultOrder, s, t)
        PROVE  Precedes(plan, s, t)
    <3> SUFFICES ASSUME NEW n \in DOMAIN plan, plan[n] = t PROVE \E m \in 1..(n - 1) : plan[m] = s
      BY DEF Precedes
    <3>1. n # i
      BY <2>2, <2>8
    <3>2. From(n) \in DOMAIN DefaultOrder /\ DefaultOrder[From(n)] = t /\ At(From(n)) = n
      BY <2>4, <3>1
    <3>3. PICK m \in 1..(From(n) - 1) : DefaultOrder[m] = s
      BY <2>8, <3>2 DEF Precedes
    <3>4. m \in DOMAIN DefaultOrder /\ m < From(n)
      BY <1>1, <3>2, <3>3
    <3>5. At(m) \in DOMAIN plan /\ plan[At(m)] = s /\ At(m) < At(From(n))
      BY <2>3, <2>7, <3>2, <3>3, <3>4
    <3>6. At(m) \in 1..(n - 1)
      BY <2>2, <3>2, <3>5
    <3> QED
      BY <3>5, <3>6
  <2>9. ASSUME OrderDecides, NEW s \in Lookups \intersect SkillsIn(plan)
        PROVE  Precedes(plan, s, "po_match")
    <3>1. CASE s = "po_lookup_sap"
      <4> SUFFICES ASSUME NEW n \in DOMAIN plan, plan[n] = "po_match" PROVE i \in 1..(n - 1)
        BY <2>2, <3>1 DEF Precedes
      <4>1. n # i
        BY <2>2
      <4>2. From(n) \in DOMAIN DefaultOrder /\ DefaultOrder[From(n)] = "po_match" /\ At(From(n)) = n
        BY <2>4, <4>1
      <4>3. ~(From(n) \in 1..(i - 1))
        BY <2>1, <4>2
      <4> QED
        BY <1>1, <2>1, <2>2, <4>1, <4>2, <4>3
    <3>2. CASE s # "po_lookup_sap"
      <4>1. s \in Lookups \intersect SkillsIn(DefaultOrder)
        BY <2>6, <3>2
      <4>2. Precedes(DefaultOrder, s, "po_match")
        BY <2>9, <4>1 DEF OrderDecides
      <4> QED
        BY <2>8, <4>2 DEF Skills
    <3> QED
      BY <3>1, <3>2
  <2>10. ASSUME OrderJudges, NEW n \in DOMAIN plan, plan[n] = "duplicate_detect"
         PROVE  \E m \in DOMAIN plan : m > n /\ plan[m] = "finalize_decision"
    <3>1. n # i
      BY <2>2, <2>10
    <3>2. From(n) \in DOMAIN DefaultOrder /\ DefaultOrder[From(n)] = "duplicate_detect" /\ At(From(n)) = n
      BY <2>4, <2>10, <3>1
    <3>3. PICK m \in DOMAIN DefaultOrder : m > From(n) /\ DefaultOrder[m] = "finalize_decision"
      BY <2>10, <3>2 DEF OrderJudges
    <3>4. At(m) \in DOMAIN plan /\ plan[At(m)] = "finalize_decision"
      BY <2>3, <3>3
    <3>5. From(n) < m
      BY <1>1, <3>2, <3>3
    <3>6. At(From(n)) < At(m)
      BY <2>7, <3>2, <3>3, <3>5
    <3> QED
      BY <2>2, <3>2, <3>4, <3>6
  <2> QED
    BY <2>5, <2>8, <2>9, <2>10
<1> QED
  BY <1>2, <1>3

-----------------------------------------------------------------------------
(* What each step does to the job that takes it *)

\* The other jobs stay as they are, the document of an item is what it is.
Alone(j) ==
  /\ \A q \in Jobs \ {j} : job'[q] = job[q] /\ pc'[q] = pc[q] /\ posted'[q] = posted[q]
  /\ doc' = doc

LEMMA FinishStep ==
  ASSUME Inv, NEW j \in Jobs, NEW a, NEW n, Finish(j, a, n)
  PROVE  /\ job'[j].item = job[j].item /\ job'[j].kind = job[j].kind /\ job'[j].plan = job[j].plan
         /\ job'[j].world = job[j].world /\ job'[j].prior = job[j].prior /\ job'[j].seen = {}
         /\ job'[j].ctx = [job[j].ctx EXCEPT ![SkillAt(j)] = a]
         /\ job'[j].pos = IF job[j].pos = Len(job[j].plan) THEN job[j].pos ELSE job[j].pos + 1
         /\ pc'[j] = IF job[j].pos = Len(job[j].plan) THEN "done" ELSE "run"
         /\ \A q \in Jobs \ {j} : job'[q] = job[q] /\ pc'[q] = pc[q]
         /\ Save(job[j].item, SkillAt(j), a, n)
<1>1. PICK m : m = IF job[j].pos = Len(job[j].plan) THEN job[j].pos ELSE job[j].pos + 1
  OBVIOUS
<1>2. /\ job' = [job EXCEPT ![j] = [job[j] EXCEPT !.ctx[SkillAt(j)] = a, !.seen = {}, !.pos = m]]
      /\ pc' = [pc EXCEPT ![j] = IF job[j].pos = Len(job[j].plan) THEN "done" ELSE "run"]
      /\ Save(job[j].item, SkillAt(j), a, n)
  BY <1>1 DEF Finish
<1>3. job'[j] = [job[j] EXCEPT !.ctx[SkillAt(j)] = a, !.seen = {}, !.pos = m]
      /\ \A q \in Jobs \ {j} : job'[q] = job[q]
  BY <1>2 DEF Inv
<1>4. DOMAIN job[j] = {"item", "kind", "plan", "pos", "world", "ctx", "seen", "prior"}
  BY DEF Inv, RecordOK
<1>5. /\ job'[j].item = job[j].item /\ job'[j].kind = job[j].kind /\ job'[j].plan = job[j].plan
      /\ job'[j].world = job[j].world /\ job'[j].prior = job[j].prior /\ job'[j].seen = {}
      /\ job'[j].ctx = [job[j].ctx EXCEPT ![SkillAt(j)] = a] /\ job'[j].pos = m
  BY <1>3, <1>4
<1>6. /\ pc'[j] = IF job[j].pos = Len(job[j].plan) THEN "done" ELSE "run"
      /\ \A q \in Jobs \ {j} : pc'[q] = pc[q]
  BY <1>2 DEF Inv
<1> QED
  BY <1>1, <1>2, <1>3, <1>5, <1>6

LEMMA RunSkillStep ==
  ASSUME Inv, NEW j \in Jobs, RunSkill(j), posted \in [Jobs -> Decisions \union {None}]
  PROVE  /\ Alone(j) /\ pc[j] = "run" /\ SkillAt(j) # "duplicate_detect"
         /\ CanRun(SkillAt(j), job[j].ctx)
         /\ Finish(j, Result(SkillAt(j), job[j].item, job[j].ctx, job[j].world), 0)
         /\ posted'[j] = IF SkillAt(j) = "workflow_move_next" /\ Moves(job[j].ctx, job[j].world)
                         THEN job[j].ctx["finalize_decision"].decision ELSE posted[j]
<1>1. Finish(j, Result(SkillAt(j), job[j].item, job[j].ctx, job[j].world), 0)
  BY DEF RunSkill
<1>2. \A q \in Jobs \ {j} : job'[q] = job[q] /\ pc'[q] = pc[q]
  BY <1>1, FinishStep
<1>3. posted' = IF SkillAt(j) = "workflow_move_next" /\ Moves(job[j].ctx, job[j].world)
                THEN [posted EXCEPT ![j] = job[j].ctx["finalize_decision"].decision] ELSE posted
  BY DEF RunSkill
<1> QED
  BY <1>1, <1>2, <1>3 DEF RunSkill, Alone

LEMMA CompareStep ==
  ASSUME Inv, NEW j \in Jobs, CompareHistory(j)
  PROVE  /\ Alone(j) /\ pc[j] = "history" /\ posted' = posted
         /\ \E spent \in {0, 1} :
              /\ spent = 1 => faults < MaxFaults
              /\ Finish(j, DuplicateDetect(job[j].item, job[j].seen,
                                           IF spent = 1 THEN {} ELSE matched, job[j].world), spent)
<1>1. PICK spent \in {0, 1} :
        /\ spent = 1 => faults < MaxFaults
        /\ Finish(j, DuplicateDetect(job[j].item, job[j].seen,
                                     IF spent = 1 THEN {} ELSE matched, job[j].world), spent)
  BY DEF CompareHistory
<1>2. \A q \in Jobs \ {j} : job'[q] = job[q] /\ pc'[q] = pc[q]
  BY <1>1, FinishStep
<1> QED
  BY <1>1, <1>2 DEF CompareHistory, Alone

LEMMA ReadStep ==
  ASSUME Inv, NEW j \in Jobs, ReadExtracts(j)
  PROVE  /\ Alone(j) /\ pc[j] = "run" /\ pc'[j] = "history" /\ SkillAt(j) = "duplicate_detect"
         /\ CanRun("duplicate_detect", job[j].ctx)
         /\ job'[j].item = job[j].item /\ job'[j].kind = job[j].kind /\ job'[j].plan = job[j].plan
         /\ job'[j].pos = job[j].pos /\ job'[j].world = job[j].world /\ job'[j].ctx = job[j].ctx
         /\ job'[j].prior = MatchedBefore(job[j].item)
         /\ \/ job'[j].seen = extracted /\ faults' = faults
            \/ job'[j].seen = job[j].seen /\ faults < MaxFaults /\ faults' = faults + 1
         /\ UNCHANGED <<doc, rows, posted>>
<1>1. DOMAIN job[j] = {"item", "kind", "plan", "pos", "world", "ctx", "seen", "prior"}
  BY DEF Inv, RecordOK
<1>2. pc' = [pc EXCEPT ![j] = "history"] /\ j \in DOMAIN pc /\ j \in DOMAIN job
  BY DEF ReadExtracts, Inv
<1>3. CASE job' = [job EXCEPT ![j].seen = extracted, ![j].prior = MatchedBefore(job[j].item)]
           /\ UNCHANGED faults
  <2>1. job'[j] = [job[j] EXCEPT !.seen = extracted, !.prior = MatchedBefore(job[j].item)]
        /\ \A q \in Jobs \ {j} : job'[q] = job[q]
    BY <1>3 DEF Inv
  <2>2. /\ job'[j].item = job[j].item /\ job'[j].kind = job[j].kind /\ job'[j].plan = job[j].plan
        /\ job'[j].pos = job[j].pos /\ job'[j].world = job[j].world /\ job'[j].ctx = job[j].ctx
        /\ job'[j].prior = MatchedBefore(job[j].item) /\ job'[j].seen = extracted
    BY <1>1, <2>1
  <2> QED
    BY <1>2, <1>3, <2>1, <2>2 DEF ReadExtracts, Alone, Inv
<1>4. CASE job' = [job EXCEPT ![j].prior = MatchedBefore(job[j].item)]
           /\ faults < MaxFaults /\ faults' = faults + 1
  <2>1. job'[j] = [job[j] EXCEPT !.prior = MatchedBefore(job[j].item)]
        /\ \A q \in Jobs \ {j} : job'[q] = job[q]
    BY <1>4 DEF Inv
  <2>2. /\ job'[j].item = job[j].item /\ job'[j].kind = job[j].kind /\ job'[j].plan = job[j].plan
        /\ job'[j].pos = job[j].pos /\ job'[j].world = job[j].world /\ job'[j].ctx = job[j].ctx
        /\ job'[j].prior = MatchedBefore(job[j].item) /\ job'[j].seen = job[j].seen
    BY <1>1, <2>1
  <2> QED
    BY <1>2, <1>4, <2>1, <2>2 DEF ReadExtracts, Alone, Inv
<1> QED
  BY <1>3, <1>4 DEF ReadExtracts

LEMMA RaiseStep ==
  ASSUME Inv, NEW j \in Jobs, SkillRaises(j)
  PROVE  /\ Alone(j) /\ pc[j] \in {"run", "history"} /\ pc'[j] = "failed" /\ job' = job
         /\ faults' = faults \/ (faults < MaxFaults /\ faults' = faults + 1)
         /\ UNCHANGED <<doc, rows, posted>>
<1>1. pc' = [pc EXCEPT ![j] = "failed"] /\ j \in DOMAIN pc
  BY DEF SkillRaises, Inv
<1> QED
  BY <1>1 DEF SkillRaises, Alone

LEMMA SubmitStep ==
  ASSUME Inv, NEW j \in Jobs, Submit(j)
  PROVE  /\ Alone(j) /\ pc[j] = "new" /\ pc'[j] = "run" /\ UNCHANGED <<doc, rows, posted, faults>>
         /\ \E i \in Items, w \in WorldsOf[j] :
              /\ job'[j].item = i /\ job'[j].world = w /\ job'[j].ctx = latest[i]
              /\ job'[j].pos = 1 /\ job'[j].seen = {} /\ job'[j].prior = {}
              /\ job'[j].plan \in Seq(Skills) /\ Len(job'[j].plan) > 0
<1>1. PICK i \in Items, w \in WorldsOf[j], k \in {"default", "explicit"} :
        \E p \in (IF k = "default" THEN DefaultPlans(w) ELSE {WithLookup(q, w) : q \in ExplicitPlans[j]}) :
          job' = [job EXCEPT ![j] = [NoJob EXCEPT !.item = i, !.kind = k, !.plan = p,
                                                  !.world = w, !.ctx = latest[i]]]
  BY DEF Submit
<1>2. PICK p : /\ p \in DefaultPlans(w) \/ p \in {WithLookup(q, w) : q \in ExplicitPlans[j]}
               /\ job' = [job EXCEPT ![j] = [NoJob EXCEPT !.item = i, !.kind = k, !.plan = p,
                                                          !.world = w, !.ctx = latest[i]]]
  BY <1>1
<1>3. p \in Seq(Skills) /\ Len(p) > 0
  BY <1>2, PlansAreSkills
<1>4. job'[j] = [NoJob EXCEPT !.item = i, !.kind = k, !.plan = p, !.world = w, !.ctx = latest[i]]
      /\ \A q \in Jobs \ {j} : job'[q] = job[q]
  BY <1>2 DEF Inv
<1>5. DOMAIN NoJob = {"item", "kind", "plan", "pos", "world", "ctx", "seen", "prior"}
      /\ NoJob.pos = 1 /\ NoJob.seen = {} /\ NoJob.prior = {}
  BY DEF NoJob
<1>6. /\ job'[j].item = i /\ job'[j].world = w /\ job'[j].ctx = latest[i] /\ job'[j].plan = p
      /\ job'[j].pos = 1 /\ job'[j].seen = {} /\ job'[j].prior = {}
  BY <1>4, <1>5
<1>7. pc[j] = "new" /\ pc' = [pc EXCEPT ![j] = "run"] /\ j \in DOMAIN pc
      /\ UNCHANGED <<doc, rows, posted, faults>>
  BY DEF Submit, Inv
<1>8. Alone(j)
  BY <1>4, <1>7 DEF Alone
<1>9. pc'[j] = "run"
  BY <1>7
<1> QED
  BY <1>3, <1>6, <1>7, <1>8, <1>9

-----------------------------------------------------------------------------
(* Type correctness *)

\* Where a job is in its plan, and what the tables and the counters may hold.
PlaceOK(j) ==
  /\ pc[j] = "new" => job[j] = NoJob
  /\ pc[j] # "new" => /\ job[j].plan \in Seq(Skills) /\ job[j].pos \in 1..Len(job[j].plan)
                      /\ job[j].world \in WorldsOf[j]
  /\ job[j].seen \subseteq extracted /\ job[j].prior \subseteq Jobs
Placed ==
  /\ \A i \in Items : doc[i] \in DocumentsOf[i]
  /\ \A j \in Jobs : PlaceOK(j)
  /\ extracted \subseteq Items /\ matched \subseteq Items
  /\ posted \in [Jobs -> Decisions \union {None}]
  /\ faults \in 0..MaxFaults

LEMMA SaveGrows ==
  ASSUME NEW i \in Items, NEW s, NEW a, NEW n \in {0, 1}, Save(i, s, a, n), Placed,
         n = 1 => faults < MaxFaults
  PROVE  /\ extracted \subseteq extracted' /\ extracted' \subseteq Items
         /\ matched \subseteq matched' /\ matched' \subseteq Items
         /\ faults' \in 0..MaxFaults /\ faults <= faults'
BY ParametersAssumption DEF Save, Placed, rows

LEMMA SkillIsKnown ==
  ASSUME Placed, NEW j \in Jobs, pc[j] # "new"
  PROVE  /\ SkillAt(j) \in Skills /\ DOMAIN job[j].plan = 1..Len(job[j].plan)
         /\ Len(job[j].plan) \in Nat /\ job[j].pos \in 1..Len(job[j].plan)
BY DEF Placed, PlaceOK, SkillAt

LEMMA FinishPlaces ==
  ASSUME Inv, Placed, NEW j \in Jobs, pc[j] # "new", NEW a, NEW n \in {0, 1}, Finish(j, a, n),
         n = 1 => faults < MaxFaults, Alone(j),
         posted' \in [Jobs -> Decisions \union {None}]
  PROVE  Placed'
<1>1. job[j].item \in Items
  BY DEF Inv
<1>2. /\ extracted \subseteq extracted' /\ extracted' \subseteq Items /\ matched' \subseteq Items
      /\ faults' \in 0..MaxFaults
  <2>1. Save(job[j].item, SkillAt(j), a, n)
    BY FinishStep
  <2> QED
    BY <1>1, <2>1, SaveGrows
<1>3. PlaceOK(j)'
  <2>1. /\ job[j].plan \in Seq(Skills) /\ job[j].pos \in 1..Len(job[j].plan)
        /\ job[j].world \in WorldsOf[j] /\ job[j].prior \subseteq Jobs
    BY DEF Placed, PlaceOK
  <2>2. /\ job'[j].plan = job[j].plan /\ job'[j].world = job[j].world /\ job'[j].prior = job[j].prior
        /\ job'[j].seen = {} /\ pc'[j] # "new"
        /\ job'[j].pos = IF job[j].pos = Len(job[j].plan) THEN job[j].pos ELSE job[j].pos + 1
    BY FinishStep
  <2>3. job'[j].pos \in 1..Len(job[j].plan)
    BY <2>1, <2>2
  <2> QED
    BY <2>1, <2>2, <2>3 DEF PlaceOK
<1>4. \A q \in Jobs \ {j} : PlaceOK(q)'
  BY <1>2 DEF Placed, PlaceOK, Alone
<1>5. \A i \in Items : doc'[i] \in DocumentsOf[i]
  BY DEF Placed, Alone
<1> QED
  BY <1>2, <1>3, <1>4, <1>5 DEF Placed

LEMMA RunSkillPlaces ==
  ASSUME Inv, Placed, NEW j \in Jobs, RunSkill(j) PROVE Placed'
<1>1. posted \in [Jobs -> Decisions \union {None}]
  BY DEF Placed
<1>2. /\ Alone(j) /\ pc[j] # "new"
      /\ Finish(j, Result(SkillAt(j), job[j].item, job[j].ctx, job[j].world), 0)
  BY <1>1, RunSkillStep
<1>3. posted' \in [Jobs -> Decisions \union {None}]
  <2>1. CtxOK(job[j].ctx)
    BY DEF Inv, RecordOK
  <2>2. job[j].ctx["finalize_decision"] # None =>
          job[j].ctx["finalize_decision"].decision \in Decisions
    BY <2>1 DEF CtxOK, Artifacts, Skills, Lookups, Connectors
  <2> QED
    BY <1>1, <2>2 DEF RunSkill, Moves
<1> QED
  BY <1>2, <1>3, FinishPlaces

LEMMA ComparePlaces ==
  ASSUME Inv, Placed, NEW j \in Jobs, CompareHistory(j) PROVE Placed'
<1>1. Alone(j) /\ pc[j] # "new" /\ posted' = posted
  BY CompareStep
<1>2. PICK n, a : n \in {0, 1} /\ (n = 1 => faults < MaxFaults) /\ Finish(j, a, n)
  BY CompareStep
<1>3. posted' \in [Jobs -> Decisions \union {None}]
  BY <1>1 DEF Placed
<1> QED
  BY <1>1, <1>2, <1>3, FinishPlaces

LEMMA QuietPlaces ==
  ASSUME Inv, Placed, NEW j \in Jobs, ReadExtracts(j) \/ SkillRaises(j) PROVE Placed'
<1>1. /\ Alone(j) /\ pc[j] # "new" /\ pc'[j] # "new" /\ UNCHANGED <<doc, rows, posted>>
      /\ faults' = faults \/ (faults < MaxFaults /\ faults' = faults + 1)
  BY ReadStep, RaiseStep
<1>2. faults' \in 0..MaxFaults
  BY <1>1, ParametersAssumption DEF Placed
<1>3. PlaceOK(j)'
  <2>1. CASE ReadExtracts(j)
    <3>1. /\ job'[j].plan = job[j].plan /\ job'[j].pos = job[j].pos /\ job'[j].world = job[j].world
          /\ job'[j].prior = MatchedBefore(job[j].item)
          /\ job'[j].seen = extracted \/ job'[j].seen = job[j].seen
      BY <2>1, ReadStep
    <3>2. MatchedBefore(job[j].item) \subseteq Jobs
      BY DEF MatchedBefore
    <3> QED
      BY <1>1, <3>1, <3>2 DEF Placed, PlaceOK, rows
  <2>2. CASE SkillRaises(j)
    BY <1>1, <2>2, RaiseStep DEF Placed, PlaceOK, rows
  <2> QED
    BY <2>1, <2>2
<1>4. \A q \in Jobs \ {j} : PlaceOK(q)'
  BY <1>1 DEF Placed, PlaceOK, Alone, rows
<1> QED
  BY <1>1, <1>2, <1>3, <1>4 DEF Placed, rows

LEMMA SubmitPlaces ==
  ASSUME Inv, Placed, NEW j \in Jobs, Submit(j) PROVE Placed'
<1>1. Alone(j) /\ pc'[j] = "run" /\ UNCHANGED <<doc, rows, posted, faults>>
  BY SubmitStep
<1>2. /\ job'[j].world \in WorldsOf[j] /\ job'[j].pos = 1 /\ job'[j].seen = {} /\ job'[j].prior = {}
      /\ job'[j].plan \in Seq(Skills) /\ Len(job'[j].plan) > 0
  BY SubmitStep
<1>3. PlaceOK(j)'
  BY <1>1, <1>2 DEF PlaceOK
<1>4. \A q \in Jobs \ {j} : PlaceOK(q)'
  BY <1>1 DEF Placed, PlaceOK, Alone, rows
<1> QED
  BY <1>1, <1>3, <1>4 DEF Placed, rows

LEMMA InitPlaces == Init => Placed
BY ParametersAssumption DEF Init, Placed, PlaceOK, NoJob

LEMMA SpecPlaced == Spec => [](Inv /\ HistoryInv /\ Placed)
<1>1. ASSUME Inv, HistoryInv, Placed, [Next]_vars PROVE Placed'
  <2>1. CASE UNCHANGED vars
    BY <1>1, <2>1 DEF vars, Placed, PlaceOK
  <2>2. CASE Next
    BY <1>1, <2>2, SubmitPlaces, RunSkillPlaces, ComparePlaces, QuietPlaces DEF Next
  <2> QED
    BY <1>1, <2>1, <2>2
<1> QED
  BY <1>1, InitPlaces, SpecInv, PTL DEF Spec

\* Type correctness, for any plan the planner or a caller may make of the skills:
\* a job is always at a skill of its plan, and reads only what was extracted.
THEOREM TypeCorrect == Spec => []TypeOK
<1>1. Inv /\ Placed => TypeOK
  <2> SUFFICES ASSUME Inv, Placed PROVE TypeOK
    OBVIOUS
  <2>1. ASSUME NEW j \in Jobs, pc[j] # "new"
        PROVE  /\ job[j].item \in Items /\ job[j].world \in WorldsOf[j]
               /\ job[j].pos \in DOMAIN job[j].plan /\ SkillsIn(job[j].plan) \subseteq Skills
    BY <2>1 DEF Inv, Placed, PlaceOK, SkillsIn
  <2>2. \A j \in Jobs : /\ \A s \in Skills : job[j].ctx[s] \in Artifacts(s) \union {None}
                        /\ job[j].seen \subseteq extracted /\ job[j].prior \subseteq Jobs
    BY DEF Inv, RecordOK, CtxOK, Placed, PlaceOK
  <2>3. \A i \in Items, s \in Skills : latest[i][s] \in Artifacts(s) \union {None}
    BY DEF Inv, CtxOK
  <2> QED
    BY <2>1, <2>2, <2>3 DEF Inv, Placed, TypeOK
<1> QED
  BY <1>1, SpecPlaced, PTL

-----------------------------------------------------------------------------
(* What a MATCHED artifact says of the invoice and of the masters *)

LEMMA Thresholds == \A x \in Nat, y \in Nat \ {0} : OrDefault(x, y) \in Nat \ {0}
BY DEF OrDefault

\* po_match: a close vendor, an amount on the PO, and (unless the tenant's
\* threshold is met without them) totals that agree.
PoBacks(d, po) ==
  /\ d.poNumber /\ d.vendor # None /\ po # None
  /\ po.total # None /\ po.sim # None /\ po.sim >= 85
  /\ OrDefault(Approved, 80) > 70 => TotalsAgree(d, po)

LEMMA MatchedPo ==
  ASSUME NEW d \in Invoices, NEW po \in POs, PoGrade(d, po) = "MATCHED", d.poNumber
  PROVE  PoBacks(d, po)
<1>1. FromScore(PoScore(d, po)) = "MATCHED" /\ po.total # None /\ ~(Similarity(d, po.sim) < 85)
  BY DEF PoGrade
<1>2. po.sim \in 0..100 \union {None} /\ None \notin Nat /\ po # None
  BY ParametersAssumption DEF POs, Percents
<1>3. d.vendor # None /\ po.sim # None /\ po.sim \in 0..100 /\ Similarity(d, po.sim) = po.sim
  BY <1>1, <1>2 DEF Similarity
<1>4. PICK t : t = OrDefault(Approved, 80) /\ t \in Nat
  BY ParametersAssumption, Thresholds
<1>5. PoScore(d, po) >= 100 * t
  BY <1>1, <1>4 DEF FromScore
<1>6. ASSUME t > 70, ~TotalsAgree(d, po) PROVE FALSE
  <2>1. PoScore(d, po) = 4000 + 30 * po.sim
    BY <1>3, <1>6 DEF PoScore
  <2> QED
    BY <1>3, <1>4, <1>5, <1>6, <2>1
<1> QED
  BY <1>1, <1>2, <1>3, <1>4, <1>6 DEF PoBacks

\* gl_match: the invoice has lines and some of them are in the ledger.
LEMMA MatchedGl ==
  ASSUME NEW d \in Invoices, NEW w \in Worlds, GlMatch(d, w).decision = "MATCHED"
  PROVE  w.gl > 0 /\ d.lines > 0
<1>1. d.lines \in Nat /\ w.gl \in Nat
  BY DEF Invoices, Worlds
<1>2. PICK t : t = OrDefault(Approved, 80) /\ t \in Nat \ {0}
  BY ParametersAssumption, Thresholds
<1>3. PICK score : score = IF d.lines = 0 THEN 0 ELSE (10000 * Lesser(w.gl, d.lines)) \div d.lines
  OBVIOUS
<1>4. score >= 100 * t
  BY <1>2, <1>3 DEF GlMatch, FromScore
<1>5. ASSUME w.gl = 0 \/ d.lines = 0 PROVE score = 0
  <2>1. CASE d.lines = 0
    BY <1>3, <2>1
  <2>2. CASE w.gl = 0 /\ d.lines # 0
    <3>1. Lesser(w.gl, d.lines) = 0
      BY <1>1, <2>2 DEF Lesser
    <3>2. (10000 * 0) \div d.lines = 0
      BY <1>1, <2>2
    <3> QED
      BY <1>3, <2>2, <3>1, <3>2
  <2> QED
    BY <1>5, <2>1, <2>2
<1> QED
  BY <1>1, <1>2, <1>4, <1>5

\* finalize_decision: every grader that has an artifact says MATCHED, nothing
\* raises a concern.
LEMMA MatchedDecision ==
  ASSUME NEW ctx, CtxOK(ctx), Decision(ctx) = "MATCHED"
  PROVE  /\ ctx["extract_invoice"] # None => ~ctx["extract_invoice"].other
         /\ \A s \in Graders : ctx[s] # None => ctx[s].decision = "MATCHED"
         /\ StatusOf(ctx["matter_validate"]) # "NOT_IN_MASTER" /\ ~UsedMockData(ctx)
         /\ ctx["duplicate_detect"] # None =>
              ~ctx["duplicate_detect"].duplicate /\ ~ctx["duplicate_detect"].possible
<1>1. GradeOf(ctx) = 3
  BY GradeIsRank, Ranks DEF Grades
<1>2. \A r \in Evidence(ctx) : r \in 1..3
  BY CtxFields, Ranks DEF Evidence, Graders
<1>3. PICK worst :
        worst = IF Evidence(ctx) # {}
                THEN CHOOSE r \in Evidence(ctx) : \A q \in Evidence(ctx) : r <= q
                ELSE IF StatusOf(ctx["vendor_validate"]) = "ACTIVE" THEN 3 ELSE 2
  OBVIOUS
<1>4. Evidence(ctx) # {} => worst \in Evidence(ctx) /\ \A q \in Evidence(ctx) : worst <= q
  <2> SUFFICES ASSUME Evidence(ctx) # {}
               PROVE  \E r \in Evidence(ctx) : \A q \in Evidence(ctx) : r <= q
    BY <1>3
  <2> QED
    BY WorstOfEvidence
<1>5. worst \in 1..3
  BY <1>2, <1>3, <1>4
<1>6. PICK docked : docked = IF StatusOf(ctx["vendor_validate"]) = "MISMATCH" /\ worst > 1
                             THEN worst - 1 ELSE worst
  OBVIOUS
<1>7. PICK concern : concern = (\/ StatusOf(ctx["matter_validate"]) = "NOT_IN_MASTER"
                                \/ UsedMockData(ctx) \/ PossibleDuplicate(ctx))
  OBVIOUS
<1>8. (IF concern THEN Lesser(docked, 2) ELSE docked) = 3
  BY <1>1, <1>3, <1>6, <1>7 DEF GradeOf, Evidence, Graders
<1>9. ~concern /\ worst = 3
  BY <1>5, <1>6, <1>8 DEF Lesser
<1>10. ASSUME NEW s \in Graders, ctx[s] # None PROVE ctx[s].decision = "MATCHED"
  <2>1. Rank[ctx[s].decision] \in Evidence(ctx)
    BY <1>10 DEF Evidence
  <2>2. Rank[ctx[s].decision] = 3
    BY <1>2, <1>4, <1>9, <2>1
  <2>3. ctx[s].decision \in Grades
    BY <1>10, CtxFields DEF Graders
  <2> QED
    BY <2>2, <2>3, Ranks DEF Grades
<1>11. /\ ctx["extract_invoice"] # None => ~ctx["extract_invoice"].other
       /\ ctx["duplicate_detect"] # None => ~ctx["duplicate_detect"].duplicate
  BY DEF Decision
<1> QED
  BY <1>7, <1>9, <1>10, <1>11 DEF PossibleDuplicate

-----------------------------------------------------------------------------
(* What a run in the tenant's order knows of the invoice *)

MayBe(ctx, w, plan) == {w.po} \union {ctx[s].po : s \in Found(ctx) \ SkillsIn(plan)}

\* What the artifact of s says, once this run has run s: only what the masters
\* answered this run, the PO of a look-up it did not make apart.
Says(s, ctx, d, w, plan) ==
  /\ ctx[s] # None
  /\ s \in Lookups => ctx[s].po \in {None, w.po}
  /\ (s = "po_match" /\ ctx[s].decision = "MATCHED") =>
       PoBacks(d, ctx[s].po) /\ ctx[s].po \in MayBe(ctx, w, plan)
  /\ (s = "gl_match" /\ ctx[s].decision = "MATCHED") => w.gl > 0 /\ d.lines > 0
  /\ (s = "grn_match" /\ ctx[s].decision = "MATCHED") =>
       w.grn # None /\ ctx[s].mock = w.grn.offline
  /\ s = "matter_validate" => ctx[s] = MatterValidate(d, w)
  /\ (s = "duplicate_detect" /\ d.number # None /\ w.cloud # {}) =>
       ctx[s].duplicate \/ ctx[s].possible
  /\ (s = "finalize_decision" /\ ctx[s].decision = "MATCHED") =>
       \E po \in MayBe(ctx, w, plan) : Supported(d, po, w)

\* A skill of the plan changes its own artifact, and no PO of a look-up left out.
LEMMA MayBeStays ==
  ASSUME NEW ctx, NEW new, NEW w, NEW plan, NEW t,
         t \in SkillsIn(plan), \A s \in Skills \ {t} : new[s] = ctx[s]
  PROVE  MayBe(new, w, plan) = MayBe(ctx, w, plan)
<1>1. Found(new) \ SkillsIn(plan) = Found(ctx) \ SkillsIn(plan)
      /\ \A s \in Found(ctx) \ SkillsIn(plan) : new[s].po = ctx[s].po
  BY DEF Found, Skills
<1> QED
  BY <1>1 DEF MayBe

LEMMA SaysStays ==
  ASSUME NEW ctx, NEW new, NEW d, NEW w, NEW plan, NEW s,
         MayBe(new, w, plan) = MayBe(ctx, w, plan), new[s] = ctx[s], Says(s, ctx, d, w, plan)
  PROVE  Says(s, new, d, w, plan)
BY Zenon DEF Says

\* po_match in the tenant's order: its PO is what the look-ups of this run found,
\* or what an earlier run left of a look-up this one does not make.
LEMMA PoIsAnswered ==
  ASSUME NEW ctx, CtxOK(ctx), NEW d, NEW w \in Worlds, NEW plan,
         \A s \in Lookups \intersect SkillsIn(plan) : Says(s, ctx, d, w, plan)
  PROVE  PoOf(ctx, w) = None \/ PoOf(ctx, w) \in MayBe(ctx, w, plan)
<1>1. CASE Found(ctx) # {}
  <2>1. PICK s : s = FirstOf(Found(ctx)) /\ s \in Found(ctx)
    BY <1>1 DEF FirstOf, Found, Lookups, Connectors
  <2>2. PoOf(ctx, w) = ctx[s].po
    BY <1>1, <2>1 DEF PoOf
  <2>3. CASE s \in SkillsIn(plan)
    BY <2>1, <2>2, <2>3 DEF Found, Says, MayBe
  <2>4. CASE s \notin SkillsIn(plan)
    BY <2>1, <2>2, <2>4 DEF MayBe
  <2> QED
    BY <2>3, <2>4
<1>2. CASE Found(ctx) = {}
  BY <1>2 DEF PoOf, MayBe
<1> QED
  BY <1>1, <1>2

\* duplicate_detect: a number the cloud history knows is a concern.
LEMMA HistorySays ==
  ASSUME NEW i \in Items, NEW w \in Worlds, NEW seen, NEW hits, NEW a,
         a = DuplicateDetect(i, seen, hits, w), doc[i].number # None, w.cloud # {}
  PROVE  a.duplicate \/ a.possible
BY DEF DuplicateDetect, CloudHas, Worlds

\* finalize_decision after every check of the order, each on this run's answers:
\* MATCHED says that the masters support the invoice.
LEMMA MatchedIsSupported ==
  ASSUME NEW ctx, CtxOK(ctx), NEW d \in Invoices, NEW w \in Worlds, NEW plan,
         ctx["extract_invoice"] \in {None, d},
         \A s \in {"extract_invoice"} \union (Checks \intersect SkillsIn(DefaultOrder)) :
           Says(s, ctx, d, w, plan),
         Decision(ctx) = "MATCHED"
  PROVE  \E po \in MayBe(ctx, w, plan) : Supported(d, po, w)
<1> DEFINE ordered == SkillsIn(DefaultOrder)
           trusted(offline) == ~(EzofisLive /\ offline)
<1>1. /\ ctx["extract_invoice"] # None => ~ctx["extract_invoice"].other
      /\ \A s \in Graders : ctx[s] # None => ctx[s].decision = "MATCHED"
      /\ StatusOf(ctx["matter_validate"]) # "NOT_IN_MASTER" /\ ~UsedMockData(ctx)
      /\ ctx["duplicate_detect"] # None =>
           ~ctx["duplicate_detect"].duplicate /\ ~ctx["duplicate_detect"].possible
  BY MatchedDecision
<1>2. ~d.other
  <2>1. Says("extract_invoice", ctx, d, w, plan)
    OBVIOUS
  <2> QED
    BY <1>1, <2>1 DEF Says
<1>3. ASSUME "gl_match" \in ordered PROVE w.gl > 0 /\ d.lines > 0
  <2>1. Says("gl_match", ctx, d, w, plan)
    BY <1>3 DEF Checks
  <2> QED
    BY <1>1, <2>1 DEF Says, Graders
<1>4. ASSUME "grn_match" \in ordered PROVE w.grn # None /\ trusted(w.grn.offline)
  <2>1. Says("grn_match", ctx, d, w, plan)
    BY <1>4 DEF Checks
  <2>2. ctx["grn_match"] # None /\ w.grn # None /\ ctx["grn_match"].mock = w.grn.offline
    BY <1>1, <2>1 DEF Says, Graders
  <2> QED
    BY <1>1, <2>2 DEF UsedMockData
<1>5. ASSUME "matter_validate" \in ordered, d.matter
      PROVE  w.matter # "unknown" /\ trusted(w.matter = "offline")
  <2>1. Says("matter_validate", ctx, d, w, plan)
    BY <1>5 DEF Checks
  <2>2. ctx["matter_validate"] # None /\ ctx["matter_validate"] = MatterValidate(d, w)
    BY <2>1 DEF Says
  <2>3. ctx["matter_validate"].status # "NOT_IN_MASTER" /\ ~(EzofisLive /\ ctx["matter_validate"].mock)
    BY <1>1, <2>2 DEF StatusOf, UsedMockData
  <2>4. /\ MatterValidate(d, w).status = (IF w.matter = "unknown" THEN "NOT_IN_MASTER" ELSE "MATCHED")
        /\ MatterValidate(d, w).mock <=> w.matter = "offline"
    BY <1>5 DEF MatterValidate
  <2> QED
    BY <2>2, <2>3, <2>4
<1>6. ASSUME "duplicate_detect" \in ordered, d.number # None PROVE w.cloud = {}
  <2>1. Says("duplicate_detect", ctx, d, w, plan)
    BY <1>6 DEF Checks
  <2> QED
    BY <1>1, <1>6, <2>1 DEF Says
<1> DEFINE PoPart(po) ==
      /\ d.poNumber /\ d.vendor # None /\ po # None
      /\ po.total # None /\ po.sim # None /\ po.sim >= 85
      /\ trusted(po.origin = "offline")
      /\ OrDefault(Approved, 80) > 70 => TotalsAgree(d, po)
<1>7. \E po \in MayBe(ctx, w, plan) : "po_match" \in ordered => PoPart(po)
  <2>1. CASE "po_match" \notin ordered
    <3>1. w.po \in MayBe(ctx, w, plan)
      BY DEF MayBe
    <3> QED
      BY <2>1, <3>1
  <2>2. CASE "po_match" \in ordered
    <3>1. Says("po_match", ctx, d, w, plan)
      BY <2>2 DEF Checks
    <3>2. PICK po : po = ctx["po_match"].po /\ PoBacks(d, po) /\ po \in MayBe(ctx, w, plan)
      BY <1>1, <3>1 DEF Says, Graders
    <3>3. trusted(po.origin = "offline")
      <4>1. ctx["po_match"] # None /\ ctx["po_match"].po # None
        BY <3>1, <3>2 DEF Says, PoBacks
      <4> QED
        BY <1>1, <3>2, <4>1 DEF UsedMockData
    <3>4. PoPart(po)
      BY <3>2, <3>3 DEF PoBacks
    <3> QED
      BY <3>2, <3>4
  <2> QED
    BY <2>1, <2>2
<1>8. PICK po \in MayBe(ctx, w, plan) : "po_match" \in ordered => PoPart(po)
  BY <1>7
<1>9. Supported(d, po, w)
  BY <1>2, <1>3, <1>4, <1>5, <1>6, <1>8 DEF Supported
<1> QED
  BY <1>8, <1>9

\* What a skill says the moment it has run.
LEMMA SaysResult ==
  ASSUME NEW ctx, CtxOK(ctx), NEW i \in Items, NEW d \in Invoices, d = doc[i], NEW w \in Worlds,
         NEW plan, NEW t \in Skills, t \in SkillsIn(plan), t # "duplicate_detect", CanRun(t, ctx),
         ctx["extract_invoice"] \in {None, d},
         t = "po_match" => \A s \in Lookups \intersect SkillsIn(plan) : Says(s, ctx, d, w, plan),
         t = "finalize_decision" =>
           \A s \in {"extract_invoice"} \union (Checks \intersect SkillsIn(DefaultOrder)) :
             Says(s, ctx, d, w, plan),
         NEW new, new[t] = Result(t, i, ctx, w), \A s \in Skills \ {t} : new[s] = ctx[s]
  PROVE  Says(t, new, d, w, plan)
<1>1. PICK a : a = Result(t, i, ctx, w) /\ a = new[t]
  OBVIOUS
<1>2. a # None
  <2>1. a \in Artifacts(t)
    BY <1>1, ResultFits
  <2> QED
    BY <2>1, NoArtifactAssumption
<1>3. MayBe(new, w, plan) = MayBe(ctx, w, plan)
  BY MayBeStays
<1>4. t \notin {"extract_invoice", "finalize_decision", "workflow_move_next"} => ctx["extract_invoice"] = d
  BY DEF CanRun
<1>5. CASE t \in Lookups
  <2>1. a = Lookup(t, d, ctx, w)
    BY <1>1, <1>4, <1>5 DEF Result, Lookups, Connectors
  <2>2. a.po \in {None, w.po}
    BY <2>1 DEF Lookup
  <2> QED
    BY <1>1, <1>2, <1>5, <2>2 DEF Says, Lookups, Connectors
<1>6. CASE t = "po_match"
  <2>1. a = PoMatch(d, ctx, w)
    BY <1>1, <1>4, <1>6 DEF Result, Lookups, Connectors
  <2>2. ASSUME a.decision = "MATCHED"
        PROVE  PoBacks(d, a.po) /\ a.po \in MayBe(ctx, w, plan)
    <3>1. d.poNumber /\ a.po = PoOf(ctx, w) /\ a.po # None /\ PoGrade(d, a.po) = "MATCHED"
      BY <2>1, <2>2 DEF PoMatch
    <3>2. a.po \in POs
      BY <3>1, FoundPo
    <3>3. a.po \in MayBe(ctx, w, plan)
      BY <1>6, <3>1, PoIsAnswered
    <3> QED
      BY <3>1, <3>2, <3>3, MatchedPo
  <2> QED
    BY <1>1, <1>2, <1>3, <1>6, <2>2 DEF Says, Lookups, Connectors
<1>7. CASE t = "gl_match"
  <2>1. a = GlMatch(d, w)
    BY <1>1, <1>4, <1>7 DEF Result, Lookups, Connectors
  <2> QED
    BY <1>1, <1>2, <1>7, <2>1, MatchedGl DEF Says, Lookups, Connectors
<1>8. CASE t = "grn_match"
  <2>1. a = GrnMatch(d, w)
    BY <1>1, <1>4, <1>8 DEF Result, Lookups, Connectors
  <2>2. a.decision = "MATCHED" => w.grn # None /\ a.mock = w.grn.offline
    BY <2>1 DEF GrnMatch
  <2> QED
    BY <1>1, <1>2, <1>8, <2>2 DEF Says, Lookups, Connectors
<1>9. CASE t = "matter_validate"
  <2>1. a = MatterValidate(d, w)
    BY <1>1, <1>4, <1>9 DEF Result, Lookups, Connectors
  <2> QED
    BY <1>1, <1>2, <1>9, <2>1 DEF Says, Lookups, Connectors
<1>10. CASE t = "finalize_decision"
  <2>1. a = Finalize(ctx)
    BY <1>1, <1>10 DEF Result, Lookups, Connectors
  <2>2. a.decision = "MATCHED" => \E po \in MayBe(ctx, w, plan) : Supported(d, po, w)
    <3>1. a.decision = Decision(ctx)
      BY <2>1 DEF Finalize
    <3>2. \A s \in {"extract_invoice"} \union (Checks \intersect SkillsIn(DefaultOrder)) :
            Says(s, ctx, d, w, plan)
      BY <1>10
    <3>3. Decision(ctx) = "MATCHED" => \E po \in MayBe(ctx, w, plan) : Supported(d, po, w)
      BY <3>2, MatchedIsSupported
    <3> QED
      BY <3>1, <3>3
  <2> QED
    BY <1>1, <1>2, <1>3, <1>10, <2>2 DEF Says, Lookups, Connectors
<1>11. CASE t \in {"extract_invoice", "vendor_validate", "backorder_detect", "workflow_move_next"}
  BY <1>1, <1>2, <1>11 DEF Says, Lookups, Connectors
<1> QED
  BY <1>5, <1>6, <1>7, <1>8, <1>9, <1>10, <1>11 DEF Skills

-----------------------------------------------------------------------------
(* A default run posts MATCHED only on what the masters answered *)

\* The skills a run has behind it.
Ran(j) == {job[j].plan[n] : n \in {m \in DOMAIN job[j].plan : m < job[j].pos \/ pc[j] = "done"}}

\* An extraction, whichever run made it, is the item's document.
Extracts ==
  /\ \A i \in Items : latest[i]["extract_invoice"] \in {None, doc[i]}
  /\ \A j \in Jobs : pc[j] # "new" => job[j].ctx["extract_invoice"] \in {None, doc[job[j].item]}

\* A run in the tenant's order judges by its own answers, and posts what it judged.
KnowsOwn(j) ==
  InOrder(j) => \A s \in Ran(j) :
                  Says(s, job[j].ctx, doc[job[j].item], job[j].world, job[j].plan)
PostsBacked(j) ==
  /\ pc[j] = "new" => posted[j] = None
  /\ (InOrder(j) /\ posted[j] = "MATCHED") =>
       \E po \in MayBe(job[j].ctx, job[j].world, job[j].plan) :
         Supported(doc[job[j].item], po, job[j].world)
BackedInv == Extracts /\ \A j \in Jobs : KnowsOwn(j) /\ PostsBacked(j)

\* The job that finishes a skill has it behind it, with its artifact; nothing else
\* it knows changes.
LEMMA FinishRan ==
  ASSUME Inv, Placed, NEW j \in Jobs, pc[j] \in {"run", "history"}, NEW a, NEW n, Finish(j, a, n)
  PROVE  /\ SkillAt(j) \in Skills /\ SkillAt(j) \in SkillsIn(job[j].plan)
         /\ Ran(j)' = Ran(j) \union {SkillAt(j)}
         /\ job'[j].ctx[SkillAt(j)] = a
         /\ \A s \in Skills \ {SkillAt(j)} : job'[j].ctx[s] = job[j].ctx[s]
<1>1. /\ SkillAt(j) \in Skills /\ DOMAIN job[j].plan = 1..Len(job[j].plan)
      /\ Len(job[j].plan) \in Nat /\ job[j].pos \in 1..Len(job[j].plan)
  BY SkillIsKnown
<1>2. PICK ctx : ctx = job[j].ctx /\ CtxOK(ctx)
  BY DEF Inv, RecordOK
<1>3. job'[j].ctx = [ctx EXCEPT ![SkillAt(j)] = a]
  BY <1>2, FinishStep
<1>4. /\ job'[j].ctx[SkillAt(j)] = a
      /\ \A s \in Skills \ {SkillAt(j)} : job'[j].ctx[s] = ctx[s]
  BY <1>1, <1>2, <1>3 DEF CtxOK
<1>5. /\ job'[j].plan = job[j].plan
      /\ job'[j].pos = IF job[j].pos = Len(job[j].plan) THEN job[j].pos ELSE job[j].pos + 1
      /\ pc'[j] = IF job[j].pos = Len(job[j].plan) THEN "done" ELSE "run"
  BY FinishStep
<1>6. \A m \in DOMAIN job[j].plan :
        (m < job'[j].pos \/ pc'[j] = "done") <=> (m < job[j].pos \/ pc[j] = "done" \/ m = job[j].pos)
  BY <1>1, <1>5
<1>7. Ran(j)' = Ran(j) \union {SkillAt(j)}
  BY <1>1, <1>5, <1>6 DEF Ran, SkillAt
<1>8. SkillAt(j) \in SkillsIn(job[j].plan)
  BY <1>1 DEF SkillsIn, SkillAt
<1> QED
  BY <1>1, <1>2, <1>4, <1>7, <1>8

\* What comes before the skill a run is at is behind it.
LEMMA RanBefore ==
  ASSUME Inv, Placed, NEW j \in Jobs, pc[j] # "new", NEW s, Precedes(job[j].plan, s, SkillAt(j))
  PROVE  s \in Ran(j)
<1>1. /\ DOMAIN job[j].plan = 1..Len(job[j].plan)
      /\ Len(job[j].plan) \in Nat /\ job[j].pos \in 1..Len(job[j].plan)
  BY SkillIsKnown
<1>2. PICK m \in 1..(job[j].pos - 1) : job[j].plan[m] = s
  BY <1>1 DEF Precedes, SkillAt
<1>3. m \in DOMAIN job[j].plan /\ m < job[j].pos
  BY <1>1
<1> QED
  BY <1>2, <1>3 DEF Ran

\* In the tenant's order: which skills are behind the one that needs them.
LEMMA NeededIsRun ==
  ASSUME OrderDecides, Inv, Placed, NEW j \in Jobs, InOrder(j)
  PROVE  /\ SkillAt(j) = "po_match" => Lookups \intersect SkillsIn(job[j].plan) \subseteq Ran(j)
         /\ SkillAt(j) = "finalize_decision" =>
              {"extract_invoice"} \union (Checks \intersect SkillsIn(DefaultOrder)) \subseteq Ran(j)
         /\ SkillAt(j) = "workflow_move_next" => "finalize_decision" \in Ran(j)
<1>1. pc[j] # "new" /\ job[j].plan = WithLookup(DefaultOrder, job[j].world)
  BY DEF InOrder
<1>2. /\ \A s : \A t \in Skills \ {"po_lookup_sap"} :
           Precedes(DefaultOrder, s, t) => Precedes(job[j].plan, s, t)
      /\ \A s \in Lookups \intersect SkillsIn(job[j].plan) : Precedes(job[j].plan, s, "po_match")
  BY <1>1, OrderStays
<1>3. /\ \A s \in {"extract_invoice"} \union (Checks \intersect SkillsIn(DefaultOrder)) :
           Precedes(job[j].plan, s, "finalize_decision")
      /\ Precedes(job[j].plan, "finalize_decision", "workflow_move_next")
  BY <1>2 DEF OrderDecides, Skills
<1> QED
  BY <1>1, <1>2, <1>3, RanBefore

\* A run that finishes a skill knows what it knew and what the skill says.
LEMMA FinishKnows ==
  ASSUME Inv, Placed, NEW j \in Jobs, KnowsOwn(j), pc[j] \in {"run", "history"}, Alone(j),
         NEW a, NEW n, Finish(j, a, n),
         InOrder(j) => Says(SkillAt(j), job'[j].ctx, doc[job[j].item], job[j].world, job[j].plan)
  PROVE  /\ InOrder(j)' <=> InOrder(j)
         /\ KnowsOwn(j)'
         /\ MayBe(job[j].ctx, job[j].world, job[j].plan)' = MayBe(job[j].ctx, job[j].world, job[j].plan)
<1>1. /\ job'[j].item = job[j].item /\ job'[j].kind = job[j].kind /\ job'[j].plan = job[j].plan
      /\ job'[j].world = job[j].world /\ pc'[j] # "new" /\ doc' = doc
  BY FinishStep DEF Alone
<1>2. PICK t, new : t = SkillAt(j) /\ new = job'[j].ctx
  OBVIOUS
<1>3. /\ t \in Skills /\ t \in SkillsIn(job[j].plan) /\ Ran(j)' = Ran(j) \union {t}
      /\ \A s \in Skills \ {t} : new[s] = job[j].ctx[s]
  BY <1>2, FinishRan
<1>4. InOrder(j)' <=> InOrder(j)
  BY <1>1 DEF InOrder
<1>5. MayBe(new, job[j].world, job[j].plan) = MayBe(job[j].ctx, job[j].world, job[j].plan)
  BY <1>3, MayBeStays
<1>6. Ran(j) \subseteq Skills
  BY SkillIsKnown DEF Ran, Placed, PlaceOK
<1>7. ASSUME InOrder(j), NEW s \in Ran(j) \union {t}
      PROVE  Says(s, new, doc[job[j].item], job[j].world, job[j].plan)
  <2>1. CASE s = t
    BY <1>2, <1>7, <2>1
  <2>2. CASE s # t
    <3>1. Says(s, job[j].ctx, doc[job[j].item], job[j].world, job[j].plan)
      BY <1>7, <2>2 DEF KnowsOwn
    <3>2. new[s] = job[j].ctx[s]
      BY <1>3, <1>6, <1>7, <2>2
    <3> QED
      BY <1>5, <3>1, <3>2, SaysStays
  <2> QED
    BY <2>1, <2>2
<1>8. KnowsOwn(j)'
  BY <1>1, <1>2, <1>3, <1>4, <1>7 DEF KnowsOwn
<1> QED
  BY <1>1, <1>2, <1>4, <1>5, <1>8

LEMMA OthersKnow ==
  ASSUME NEW j \in Jobs, Alone(j), NEW q \in Jobs \ {j}, KnowsOwn(q), PostsBacked(q)
  PROVE  KnowsOwn(q)' /\ PostsBacked(q)'
<1>1. job'[q] = job[q] /\ pc'[q] = pc[q] /\ posted'[q] = posted[q] /\ doc' = doc
  BY DEF Alone
<1>2. (InOrder(q)' <=> InOrder(q)) /\ Ran(q)' = Ran(q)
  BY <1>1 DEF InOrder, Ran
<1> QED
  BY <1>1, <1>2 DEF KnowsOwn, PostsBacked

LEMMA FinishExtracts ==
  ASSUME Inv, Placed, Extracts, NEW j \in Jobs, pc[j] \in {"run", "history"}, Alone(j),
         NEW a, NEW n, Finish(j, a, n),
         SkillAt(j) = "extract_invoice" => a = doc[job[j].item]
  PROVE  Extracts'
<1>1. /\ SkillAt(j) \in Skills /\ job'[j].ctx[SkillAt(j)] = a
      /\ \A s \in Skills \ {SkillAt(j)} : job'[j].ctx[s] = job[j].ctx[s]
  BY FinishRan
<1>2. job'[j].item = job[j].item /\ job[j].item \in Items /\ doc' = doc
  BY FinishStep DEF Inv, Alone
<1>3. job'[j].ctx["extract_invoice"] \in {None, doc[job[j].item]}
  BY <1>1 DEF Extracts, Skills
<1>4. ASSUME NEW q \in Jobs, pc'[q] # "new"
      PROVE  job'[q].ctx["extract_invoice"] \in {None, doc'[job'[q].item]}
  BY <1>2, <1>3, <1>4 DEF Alone, Extracts
<1>5. ASSUME NEW i \in Items PROVE latest'[i]["extract_invoice"] \in {None, doc'[i]}
  <2>1. latest' = latest \/ latest' = [latest EXCEPT ![job[j].item][SkillAt(j)] = a]
    BY FinishStep DEF Save, rows
  <2>2. CASE latest' = latest
    BY <1>2, <2>2 DEF Extracts
  <2>3. CASE latest' = [latest EXCEPT ![job[j].item][SkillAt(j)] = a]
    <3>1. CASE i = job[j].item
      <4>1. latest'[i] = [latest[i] EXCEPT ![SkillAt(j)] = a] /\ CtxOK(latest[i])
        BY <2>3, <3>1 DEF Inv
      <4>2. latest'[i]["extract_invoice"] =
              IF SkillAt(j) = "extract_invoice" THEN a ELSE latest[i]["extract_invoice"]
        BY <4>1 DEF CtxOK, Skills
      <4> QED
        BY <1>2, <3>1, <4>2 DEF Extracts
    <3>2. CASE i # job[j].item
      BY <1>2, <2>3, <3>2 DEF Inv, Extracts
    <3> QED
      BY <3>1, <3>2
  <2> QED
    BY <2>1, <2>2, <2>3
<1> QED
  BY <1>4, <1>5 DEF Extracts

LEMMA RunSkillBacked ==
  ASSUME OrderDecides, Inv, Placed, BackedInv, NEW j \in Jobs, RunSkill(j) PROVE BackedInv'
<1>1. PICK t, ctx, i, d, w, plan, a, new :
        /\ t = SkillAt(j) /\ ctx = job[j].ctx /\ i = job[j].item /\ d = doc[i]
        /\ w = job[j].world /\ plan = job[j].plan
        /\ a = Result(t, i, ctx, w) /\ new = job'[j].ctx
  OBVIOUS
<1>2. posted \in [Jobs -> Decisions \union {None}]
  BY DEF Placed
<1>3. /\ Alone(j) /\ pc[j] = "run" /\ t # "duplicate_detect" /\ CanRun(t, ctx) /\ Finish(j, a, 0)
      /\ posted'[j] = IF t = "workflow_move_next" /\ Moves(ctx, w)
                      THEN ctx["finalize_decision"].decision ELSE posted[j]
  BY <1>1, <1>2, RunSkillStep
<1>4. CtxOK(ctx) /\ i \in Items /\ w \in Worlds /\ d \in Invoices
  BY <1>1, <1>3 DEF Inv, RecordOK
<1>5. /\ t \in Skills /\ t \in SkillsIn(plan) /\ new[t] = a
      /\ \A s \in Skills \ {t} : new[s] = ctx[s]
  BY <1>1, <1>3, FinishRan
<1>6. ctx["extract_invoice"] \in {None, d}
  BY <1>1, <1>3 DEF BackedInv, Extracts
<1>7. KnowsOwn(j) /\ PostsBacked(j)
  BY DEF BackedInv
<1>8. ASSUME InOrder(j) PROVE Says(t, new, d, w, plan)
  <2>1. /\ t = "po_match" => \A s \in Lookups \intersect SkillsIn(plan) : Says(s, ctx, d, w, plan)
        /\ t = "finalize_decision" =>
             \A s \in {"extract_invoice"} \union (Checks \intersect SkillsIn(DefaultOrder)) :
               Says(s, ctx, d, w, plan)
    BY <1>1, <1>7, <1>8, NeededIsRun DEF KnowsOwn
  <2> QED
    BY <1>1, <1>3, <1>4, <1>5, <1>6, <2>1, SaysResult
<1>9. /\ InOrder(j)' <=> InOrder(j)
      /\ KnowsOwn(j)'
      /\ MayBe(job[j].ctx, job[j].world, job[j].plan)' = MayBe(ctx, w, plan)
  BY <1>1, <1>3, <1>7, <1>8, FinishKnows
<1>10. PostsBacked(j)'
  <2>1. job'[j].item = i /\ job'[j].world = w /\ doc' = doc /\ pc'[j] # "new"
    BY <1>1, <1>3, FinishStep DEF Alone
  <2>2. ASSUME InOrder(j), posted'[j] = "MATCHED"
        PROVE  \E po \in MayBe(ctx, w, plan) : Supported(d, po, w)
    <3>1. CASE posted'[j] = posted[j]
      BY <1>1, <1>7, <2>2, <3>1 DEF PostsBacked
    <3>2. CASE t = "workflow_move_next" /\ Moves(ctx, w)
      <4>1. "finalize_decision" \in Ran(j)
        BY <1>1, <2>2, <3>2, NeededIsRun
      <4>2. Says("finalize_decision", ctx, d, w, plan)
        BY <1>1, <1>7, <2>2, <4>1 DEF KnowsOwn
      <4>3. ctx["finalize_decision"].decision = "MATCHED"
        BY <1>3, <2>2, <3>2
      <4> QED
        BY <4>2, <4>3 DEF Says
    <3> QED
      BY <1>3, <3>1, <3>2
  <2> QED
    BY <1>1, <1>9, <2>1, <2>2 DEF PostsBacked
<1>11. Extracts'
  <2>1. t = "extract_invoice" => a = d
    BY <1>1 DEF Result, Lookups, Connectors
  <2> QED
    BY <1>1, <1>3, <2>1, FinishExtracts DEF BackedInv
<1>12. \A q \in Jobs \ {j} : KnowsOwn(q)' /\ PostsBacked(q)'
  BY <1>3, OthersKnow DEF BackedInv
<1> QED
  BY <1>9, <1>10, <1>11, <1>12 DEF BackedInv

LEMMA CompareBacked ==
  ASSUME Inv, HistoryInv, Placed, BackedInv, NEW j \in Jobs, CompareHistory(j) PROVE BackedInv'
<1>1. Alone(j) /\ pc[j] = "history" /\ posted' = posted
  BY CompareStep
<1>2. PICK a, n, hits :
        /\ a = DuplicateDetect(job[j].item, job[j].seen, hits, job[j].world) /\ Finish(j, a, n)
  BY CompareStep
<1>3. SkillAt(j) = "duplicate_detect"
  BY <1>1 DEF HistoryInv
<1>4. job'[j].ctx["duplicate_detect"] = a /\ job[j].item \in Items /\ job[j].world \in Worlds
  BY <1>1, <1>2, <1>3, FinishRan DEF Inv
<1>5. a # None
  <2>1. a \in [duplicate : BOOLEAN, possible : BOOLEAN]
    BY <1>2 DEF DuplicateDetect, HardDuplicate, SameVendorSeen, CloudHas
  <2>2. a \in Artifacts("duplicate_detect")
    BY <2>1 DEF Artifacts, Lookups, Connectors
  <2> QED
    BY <2>2, NoArtifactAssumption DEF Skills
<1>6. Says(SkillAt(j), job'[j].ctx, doc[job[j].item], job[j].world, job[j].plan)
  <2>1. doc[job[j].item].number # None /\ job[j].world.cloud # {} => a.duplicate \/ a.possible
    BY <1>2, <1>4, HistorySays
  <2> QED
    BY <1>3, <1>4, <1>5, <2>1 DEF Says, Lookups, Connectors
<1>7. /\ InOrder(j)' <=> InOrder(j)
      /\ KnowsOwn(j)'
      /\ MayBe(job[j].ctx, job[j].world, job[j].plan)' = MayBe(job[j].ctx, job[j].world, job[j].plan)
  BY <1>1, <1>2, <1>6, FinishKnows DEF BackedInv
<1>8. PostsBacked(j)'
  <2>1. /\ job'[j].item = job[j].item /\ job'[j].world = job[j].world /\ doc' = doc
        /\ pc'[j] # "new" /\ posted'[j] = posted[j]
    BY <1>1, <1>2, FinishStep DEF Alone
  <2>2. PostsBacked(j)
    BY DEF BackedInv
  <2> QED
    BY <1>7, <2>1, <2>2 DEF PostsBacked
<1>9. Extracts'
  BY <1>1, <1>2, <1>3, FinishExtracts DEF BackedInv
<1>10. \A q \in Jobs \ {j} : KnowsOwn(q)' /\ PostsBacked(q)'
  BY <1>1, OthersKnow DEF BackedInv
<1> QED
  BY <1>7, <1>8, <1>9, <1>10 DEF BackedInv

LEMMA QuietBacked ==
  ASSUME Inv, BackedInv, NEW j \in Jobs, ReadExtracts(j) \/ SkillRaises(j) PROVE BackedInv'
<1>1. /\ Alone(j) /\ pc[j] \in {"run", "history"} /\ pc'[j] \in {"history", "failed"}
      /\ UNCHANGED <<doc, rows, posted>>
      /\ job'[j].item = job[j].item /\ job'[j].kind = job[j].kind /\ job'[j].plan = job[j].plan
      /\ job'[j].pos = job[j].pos /\ job'[j].world = job[j].world /\ job'[j].ctx = job[j].ctx
  BY ReadStep, RaiseStep
<1>2. (InOrder(j)' <=> InOrder(j)) /\ Ran(j)' = Ran(j)
  BY <1>1 DEF InOrder, Ran
<1>3. KnowsOwn(j)' /\ PostsBacked(j)'
  BY <1>1, <1>2 DEF BackedInv, KnowsOwn, PostsBacked
<1>4. Extracts'
  BY <1>1 DEF BackedInv, Extracts, Alone, rows
<1>5. \A q \in Jobs \ {j} : KnowsOwn(q)' /\ PostsBacked(q)'
  BY <1>1, OthersKnow DEF BackedInv
<1> QED
  BY <1>3, <1>4, <1>5 DEF BackedInv

LEMMA SubmitBacked ==
  ASSUME Inv, BackedInv, NEW j \in Jobs, Submit(j) PROVE BackedInv'
<1>1. Alone(j) /\ pc[j] = "new" /\ pc'[j] = "run" /\ UNCHANGED <<doc, rows, posted>>
  BY SubmitStep
<1>2. PICK i \in Items : job'[j].item = i /\ job'[j].ctx = latest[i] /\ job'[j].pos = 1
                         /\ job'[j].plan \in Seq(Skills)
  BY SubmitStep
<1>3. Ran(j)' = {}
  BY <1>1, <1>2 DEF Ran
<1>4. KnowsOwn(j)' /\ PostsBacked(j)'
  <2>1. posted'[j] = None
    BY <1>1 DEF BackedInv, PostsBacked
  <2>2. None # "MATCHED"
    BY ParametersAssumption DEF Decisions, Grades
  <2> QED
    BY <1>1, <1>3, <2>1, <2>2 DEF KnowsOwn, PostsBacked
<1>5. Extracts'
  BY <1>1, <1>2 DEF BackedInv, Extracts, Alone, rows
<1>6. \A q \in Jobs \ {j} : KnowsOwn(q)' /\ PostsBacked(q)'
  BY <1>1, OthersKnow DEF BackedInv
<1> QED
  BY <1>4, <1>5, <1>6 DEF BackedInv

LEMMA InitBacked == Init => BackedInv
<1> SUFFICES ASSUME Init PROVE BackedInv
  OBVIOUS
<1>1. \A i \in Items : latest[i]["extract_invoice"] = None
  BY DEF Init, NoArtifacts, Skills
<1>2. \A j \in Jobs : pc[j] = "new" /\ posted[j] = None
  BY DEF Init
<1>3. None # "MATCHED"
  BY ParametersAssumption DEF Decisions, Grades
<1> QED
  BY <1>1, <1>2, <1>3 DEF BackedInv, Extracts, KnowsOwn, PostsBacked, InOrder

LEMMA SpecBacked ==
  ASSUME OrderDecides PROVE Spec => []BackedInv
<1>1. ASSUME Inv, HistoryInv, Placed, BackedInv, [Next]_vars PROVE BackedInv'
  <2>1. CASE UNCHANGED vars
    BY <1>1, <2>1 DEF vars, BackedInv, Extracts, KnowsOwn, PostsBacked, InOrder, Ran
  <2>2. CASE Next
    BY <1>1, <2>2, SubmitBacked, RunSkillBacked, CompareBacked, QuietBacked DEF Next
  <2> QED
    BY <1>1, <2>1, <2>2
<1> QED
  BY <1>1, InitBacked, SpecPlaced, PTL DEF Spec

\* A default run posts MATCHED only if what the masters answered that very run
\* supports it, or that and a PO an earlier run's look-up stored, for any
\* tenant's order that decides before it moves and checks before it decides: no
\* other artifact an earlier run left, no job running meanwhile and no failed
\* query or write gets an invoice approved (po_match.py, finalize_decision.py).
THEOREM ApprovalsAreBacked ==
  ASSUME OrderDecides PROVE Spec => []ApprovalIsBacked
<1>1. BackedInv => ApprovalIsBacked
  BY DEF BackedInv, PostsBacked, ApprovalIsBacked, MayMatch, MayBe
<1> QED
  BY <1>1, SpecBacked, PTL

-----------------------------------------------------------------------------
(* An approved number is caught *)

\* Without a fault, the tables tell what the artifacts say: an item judged on
\* anything has its extraction in e, a MATCHED one its decision in m.
Judging == {"extract_invoice", "po_match", "gl_match", "grn_match", "vendor_validate"}
Stored(i, ctx, e, m) ==
  /\ \A s \in Judging : ctx[s] # None => i \in e
  /\ DecisionOf(ctx["finalize_decision"]) = "MATCHED" => i \in e /\ i \in m
StoredInv ==
  /\ \A i \in Items : Stored(i, latest[i], extracted, matched)
  /\ \A j \in Jobs : pc[j] # "new" => Stored(job[j].item, job[j].ctx, extracted, matched)

\* A run that found an approved number knows it, and has not decided otherwise.
Seen(j) ==
  job[j].prior # {} =>
    /\ pc[j] = "history" => \E o \in Others(job[j].item, job[j].seen) :
                              doc[o].number = doc[job[j].item].number /\ o \in matched
    /\ pc[j] \in {"run", "done"} => /\ job[j].ctx["duplicate_detect"] # None
                                    /\ job[j].ctx["duplicate_detect"].duplicate
FinalizeAhead(j) ==
  pc[j] # "done" /\ \E n \in DOMAIN job[j].plan : n >= job[j].pos /\ job[j].plan[n] = "finalize_decision"
Judged(j) ==
  (InOrder(j) /\ job[j].prior # {} /\ pc[j] # "failed") =>
    \/ FinalizeAhead(j)
    \/ /\ pc[j] # "history"
       /\ DecisionOf(job[j].ctx["finalize_decision"]) \in {"DUPLICATE", "NON_INVOICE"}
CaughtInv == faults = 0 => StoredInv /\ \A j \in Jobs : Seen(j) /\ Judged(j)

\* MATCHED takes an artifact that needs the extraction.
LEMMA JudgedOnEvidence ==
  ASSUME NEW ctx, Decision(ctx) = "MATCHED"
  PROVE  \E s \in Judging \ {"extract_invoice"} : ctx[s] # None
<1> SUFFICES ASSUME \A s \in Judging \ {"extract_invoice"} : ctx[s] = None PROVE FALSE
  OBVIOUS
<1>1. /\ ctx["po_match"] = None /\ ctx["gl_match"] = None /\ ctx["grn_match"] = None
      /\ ctx["vendor_validate"] = None
  BY DEF Judging
<1>2. EvidenceGrade(ctx) = "PARTIALLY_MATCHED"
  BY <1>1 DEF EvidenceGrade, KnownGrade, DecisionOf, StatusOf, Worse
<1> QED
  BY <1>2 DEF Decision

LEMMA StoredGrows ==
  ASSUME NEW i, NEW ctx, NEW e, NEW m, NEW e2, NEW m2, Stored(i, ctx, e, m),
         e \subseteq e2, m \subseteq m2
  PROVE  Stored(i, ctx, e2, m2)
BY DEF Stored

LEMMA StoredArtifact ==
  ASSUME NEW i, NEW ctx, NEW new, NEW t, NEW a, NEW e, NEW m, Stored(i, ctx, e, m),
         new[t] = a, \A s \in Skills \ {t} : new[s] = ctx[s],
         t \in Judging => i \in e,
         (t = "finalize_decision" /\ DecisionOf(a) = "MATCHED") => i \in e /\ i \in m
  PROVE  Stored(i, new, e, m)
BY DEF Stored, Judging, Skills

\* A step without a fault saves what it made.
LEMMA FinishStores ==
  ASSUME Inv, Placed, StoredInv, NEW j \in Jobs, pc[j] \in {"run", "history"}, Alone(j),
         NEW a, Finish(j, a, 0), faults' = 0, a # None,
         SkillAt(j) \in Judging => CanRun(SkillAt(j), job[j].ctx),
         SkillAt(j) = "finalize_decision" => a.decision = Decision(job[j].ctx)
  PROVE  StoredInv' /\ matched \subseteq matched'
<1>1. PICK t, i, ctx : t = SkillAt(j) /\ i = job[j].item /\ ctx = job[j].ctx
  OBVIOUS
<1>2. /\ t \in Skills /\ job'[j].ctx[t] = a /\ \A s \in Skills \ {t} : job'[j].ctx[s] = ctx[s]
  BY <1>1, FinishRan
<1>3. /\ job'[j].item = i /\ i \in Items /\ pc'[j] # "new"
      /\ \A q \in Jobs \ {j} : job'[q] = job[q] /\ pc'[q] = pc[q]
  BY <1>1, FinishStep DEF Inv
<1>4. /\ latest' = [latest EXCEPT ![i][t] = a]
      /\ extracted' = IF t = "extract_invoice" THEN extracted \union {i} ELSE extracted
      /\ matched' = IF t = "finalize_decision" /\ a.decision = "MATCHED"
                    THEN matched \union {i} ELSE matched
  <2>1. Save(i, t, a, 0)
    BY <1>1, FinishStep
  <2>2. faults' # faults + 0 + 1
    BY DEF Placed
  <2> QED
    BY <2>1, <2>2 DEF Save
<1>5. extracted \subseteq extracted' /\ matched \subseteq matched'
  BY <1>4
<1>6. Stored(i, ctx, extracted', matched')
  BY <1>1, <1>5, StoredGrows DEF StoredInv
<1>7. t \in Judging => i \in extracted'
  <2>1. CASE t = "extract_invoice"
    BY <1>4, <2>1
  <2>2. CASE t \in Judging \ {"extract_invoice"}
    <3>1. ctx["extract_invoice"] # None
      BY <1>1, <2>2 DEF CanRun, Judging
    <3> QED
      BY <1>6, <3>1 DEF Stored, Judging
  <2> QED
    BY <2>1, <2>2
<1>8. (t = "finalize_decision" /\ DecisionOf(a) = "MATCHED") => i \in extracted' /\ i \in matched'
  <2> SUFFICES ASSUME t = "finalize_decision", DecisionOf(a) = "MATCHED"
               PROVE  i \in extracted' /\ i \in matched'
    OBVIOUS
  <2>1. a.decision = "MATCHED" /\ Decision(ctx) = "MATCHED"
    BY <1>1 DEF DecisionOf
  <2>2. PICK s \in Judging : ctx[s] # None
    BY <2>1, JudgedOnEvidence
  <2> QED
    BY <1>4, <1>6, <2>1, <2>2 DEF Stored
<1>9. Stored(i, job'[j].ctx, extracted', matched')
  BY <1>2, <1>6, <1>7, <1>8, StoredArtifact
<1>10. ASSUME NEW q \in Jobs, pc'[q] # "new"
       PROVE  Stored(job'[q].item, job'[q].ctx, extracted', matched')
  <2>1. CASE q = j
    BY <1>3, <1>9, <2>1
  <2>2. CASE q # j
    <3>1. Stored(job[q].item, job[q].ctx, extracted, matched)
      BY <1>3, <1>10, <2>2 DEF StoredInv
    <3> QED
      BY <1>3, <1>5, <2>2, <3>1, StoredGrows
  <2> QED
    BY <2>1, <2>2
<1>11. ASSUME NEW k \in Items PROVE Stored(k, latest'[k], extracted', matched')
  <2>1. Stored(k, latest[k], extracted', matched')
    BY <1>5, StoredGrows DEF StoredInv
  <2>2. CASE k # i
    <3>1. latest'[k] = latest[k]
      BY <1>4, <2>2 DEF Inv
    <3> QED
      BY <2>1, <3>1
  <2>3. CASE k = i
    <3>1. latest'[i] = [latest[i] EXCEPT ![t] = a] /\ CtxOK(latest[i])
      BY <1>3, <1>4 DEF Inv
    <3>2. latest'[i][t] = a /\ \A s \in Skills \ {t} : latest'[i][s] = latest[i][s]
      BY <1>2, <3>1 DEF CtxOK
    <3> QED
      BY <1>7, <1>8, <2>1, <2>3, <3>2, StoredArtifact
  <2> QED
    BY <2>2, <2>3
<1> QED
  BY <1>5, <1>10, <1>11 DEF StoredInv

LEMMA OthersCaught ==
  ASSUME NEW j \in Jobs, Alone(j), NEW q \in Jobs \ {j}, Seen(q), Judged(q), matched \subseteq matched'
  PROVE  Seen(q)' /\ Judged(q)'
<1>1. job'[q] = job[q] /\ pc'[q] = pc[q] /\ doc' = doc
  BY DEF Alone
<1>2. \A i, e : Others(i, e)' = Others(i, e)
  BY <1>1 DEF Others
<1>3. Seen(q)'
  BY <1>1, <1>2 DEF Seen, Others
<1>4. Judged(q)'
  BY <1>1 DEF Judged, InOrder, FinalizeAhead
<1> QED
  BY <1>3, <1>4

\* A skill other than finalize_decision leaves it ahead.
LEMMA FinalizeStaysAhead ==
  ASSUME Inv, Placed, NEW j \in Jobs, pc[j] \in {"run", "history"}, NEW a, NEW n, Finish(j, a, n),
         SkillAt(j) # "finalize_decision", FinalizeAhead(j)
  PROVE  FinalizeAhead(j)'
<1>1. /\ DOMAIN job[j].plan = 1..Len(job[j].plan)
      /\ Len(job[j].plan) \in Nat /\ job[j].pos \in 1..Len(job[j].plan)
  BY SkillIsKnown
<1>2. PICK m \in DOMAIN job[j].plan : m >= job[j].pos /\ job[j].plan[m] = "finalize_decision"
  BY DEF FinalizeAhead
<1>3. m > job[j].pos
  BY <1>1, <1>2 DEF SkillAt
<1>4. job[j].pos # Len(job[j].plan)
  BY <1>1, <1>2, <1>3
<1>5. /\ job'[j].plan = job[j].plan
      /\ job'[j].pos = IF job[j].pos = Len(job[j].plan) THEN job[j].pos ELSE job[j].pos + 1
      /\ pc'[j] = IF job[j].pos = Len(job[j].plan) THEN "done" ELSE "run"
  BY FinishStep
<1>6. job'[j].plan = job[j].plan /\ m >= job'[j].pos /\ pc'[j] = "run"
  BY <1>1, <1>3, <1>4, <1>5
<1> QED
  BY <1>2, <1>6 DEF FinalizeAhead

LEMMA RunSkillCaught ==
  ASSUME Inv, HistoryInv, Placed, CaughtInv, NEW j \in Jobs, RunSkill(j) PROVE CaughtInv'
<1> SUFFICES ASSUME faults' = 0
             PROVE  StoredInv' /\ \A q \in Jobs : Seen(q)' /\ Judged(q)'
  BY DEF CaughtInv
<1>1. PICK t, ctx, a : /\ t = SkillAt(j) /\ ctx = job[j].ctx
                       /\ a = Result(t, job[j].item, ctx, job[j].world)
  OBVIOUS
<1>2. Alone(j) /\ pc[j] = "run" /\ t # "duplicate_detect" /\ CanRun(t, ctx) /\ Finish(j, a, 0)
  BY <1>1, RunSkillStep DEF Placed
<1>3. /\ t \in Skills /\ job'[j].ctx[t] = a
      /\ \A s \in Skills \ {t} : job'[j].ctx[s] = ctx[s]
  BY <1>1, <1>2, FinishRan
<1>4. job[j].item \in Items /\ doc[job[j].item] \in Invoices /\ job[j].world \in Worlds /\ CtxOK(ctx)
  BY <1>1, <1>2 DEF Inv, RecordOK
<1>5. a # None
  BY <1>1, <1>2, <1>3, <1>4, ResultFits, NoArtifactAssumption
<1>6. t = "finalize_decision" => a.decision = Decision(ctx)
  BY <1>1 DEF Result, Finalize, Lookups, Connectors
<1>7. StoredInv /\ \A q \in Jobs : Seen(q) /\ Judged(q)
  <2>1. Save(job[j].item, t, a, 0)
    BY <1>1, <1>2, FinishStep
  <2>2. faults = 0
    BY <1>4, <2>1, SaveGrows DEF Placed
  <2> QED
    BY <2>2 DEF CaughtInv
<1>8. StoredInv' /\ matched \subseteq matched'
  BY <1>1, <1>2, <1>5, <1>6, <1>7, FinishStores
<1>9. /\ job'[j].item = job[j].item /\ job'[j].kind = job[j].kind /\ job'[j].plan = job[j].plan
      /\ job'[j].world = job[j].world /\ job'[j].prior = job[j].prior /\ pc'[j] \in {"run", "done"}
  BY <1>2, FinishStep
<1>10. Seen(j)'
  <2>1. job'[j].ctx["duplicate_detect"] = ctx["duplicate_detect"]
    BY <1>2, <1>3 DEF Skills
  <2> QED
    BY <1>1, <1>2, <1>7, <1>9, <2>1 DEF Seen
<1>11. Judged(j)'
  <2> SUFFICES ASSUME InOrder(j)', job'[j].prior # {}, ~FinalizeAhead(j)'
               PROVE  DecisionOf(job'[j].ctx["finalize_decision"]) \in {"DUPLICATE", "NON_INVOICE"}
    BY <1>9 DEF Judged
  <2>1. InOrder(j) /\ job[j].prior # {}
    BY <1>2, <1>9 DEF InOrder
  <2>2. CASE t = "finalize_decision"
    <3>1. ctx["duplicate_detect"] # None /\ ctx["duplicate_detect"].duplicate
      BY <1>1, <1>2, <1>7, <2>1 DEF Seen
    <3>2. Decision(ctx) \in {"DUPLICATE", "NON_INVOICE"}
      BY <3>1 DEF Decision
    <3> QED
      BY <1>3, <1>5, <1>6, <2>2, <3>2 DEF DecisionOf
  <2>3. CASE t # "finalize_decision"
    <3>1. ~FinalizeAhead(j)
      BY <1>1, <1>2, <2>3, FinalizeStaysAhead
    <3>2. DecisionOf(ctx["finalize_decision"]) \in {"DUPLICATE", "NON_INVOICE"}
      BY <1>1, <1>2, <1>7, <2>1, <3>1 DEF Judged
    <3> QED
      BY <1>3, <2>3, <3>2 DEF Skills
  <2> QED
    BY <2>2, <2>3
<1> QED
  BY <1>2, <1>7, <1>8, <1>10, <1>11, OthersCaught

LEMMA CompareCaught ==
  ASSUME Inv, HistoryInv, Placed, CaughtInv, NEW j \in Jobs, CompareHistory(j) PROVE CaughtInv'
<1> SUFFICES ASSUME faults' = 0
             PROVE  StoredInv' /\ \A q \in Jobs : Seen(q)' /\ Judged(q)'
  BY DEF CaughtInv
<1>1. Alone(j) /\ pc[j] = "history"
  BY CompareStep
<1>2. PICK n, hits, a :
        /\ n \in {0, 1} /\ (n = 1 => faults < MaxFaults) /\ hits = (IF n = 1 THEN {} ELSE matched)
        /\ a = DuplicateDetect(job[j].item, job[j].seen, hits, job[j].world) /\ Finish(j, a, n)
  BY CompareStep
<1>3. SkillAt(j) = "duplicate_detect" /\ job[j].item \in Items
  BY <1>1 DEF HistoryInv, Inv
<1>4. n = 0 /\ faults = 0
  <2>1. Save(job[j].item, SkillAt(j), a, n)
    BY <1>2, FinishStep
  <2>2. faults' = faults + n \/ faults' = faults + n + 1
    BY <2>1 DEF Save
  <2> QED
    BY <1>2, <2>2 DEF Placed
<1>5. StoredInv /\ \A q \in Jobs : Seen(q) /\ Judged(q)
  BY <1>4 DEF CaughtInv
<1>6. job'[j].ctx["duplicate_detect"] = a
      /\ job'[j].ctx["finalize_decision"] = job[j].ctx["finalize_decision"]
  BY <1>1, <1>2, <1>3, FinishRan DEF Skills
<1>7. a # None
  <2>1. a \in [duplicate : BOOLEAN, possible : BOOLEAN]
    BY <1>2 DEF DuplicateDetect, HardDuplicate, SameVendorSeen, CloudHas
  <2>2. a \in Artifacts("duplicate_detect")
    BY <2>1 DEF Artifacts, Lookups, Connectors
  <2> QED
    BY <2>2, NoArtifactAssumption DEF Skills
<1>8. StoredInv' /\ matched \subseteq matched'
  BY <1>1, <1>2, <1>3, <1>4, <1>5, <1>7, FinishStores DEF Judging
<1>9. /\ job'[j].item = job[j].item /\ job'[j].kind = job[j].kind /\ job'[j].plan = job[j].plan
      /\ job'[j].world = job[j].world /\ job'[j].prior = job[j].prior /\ pc'[j] \in {"run", "done"}
  BY <1>2, FinishStep
<1>10. Seen(j)'
  <2> SUFFICES ASSUME job[j].prior # {} PROVE a.duplicate
    BY <1>6, <1>7, <1>9 DEF Seen
  <2>1. PICK o \in Others(job[j].item, job[j].seen) :
          doc[o].number = doc[job[j].item].number /\ o \in matched
    BY <1>1, <1>5 DEF Seen
  <2>2. HardDuplicate(job[j].item, job[j].seen, hits)
    BY <1>2, <1>4, <2>1 DEF HardDuplicate
  <2> QED
    BY <1>2, <2>2 DEF DuplicateDetect
<1>11. Judged(j)'
  <2> SUFFICES ASSUME InOrder(j)', job'[j].prior # {} PROVE FinalizeAhead(j)'
    BY DEF Judged
  <2>1. InOrder(j) /\ job[j].prior # {}
    BY <1>1, <1>9 DEF InOrder
  <2>2. FinalizeAhead(j)
    BY <1>1, <1>5, <2>1 DEF Judged
  <2> QED
    BY <1>1, <1>2, <1>3, <2>2, FinalizeStaysAhead
<1> QED
  BY <1>1, <1>5, <1>8, <1>10, <1>11, OthersCaught

\* Who reached MATCHED with the number has its rows in both tables.
LEMMA ReadSees ==
  ASSUME Inv, Placed, StoredInv, NEW i \in Items, MatchedBefore(i) # {}
  PROVE  \E o \in Others(i, extracted) : doc[o].number = doc[i].number /\ o \in matched
<1>1. PICK q \in Jobs :
        /\ job[q].item \notin {None, i} /\ doc[i].number # None
        /\ doc[job[q].item].number = doc[i].number
        /\ pc[q] = "done" /\ DecisionOf(job[q].ctx["finalize_decision"]) = "MATCHED"
  BY DEF MatchedBefore
<1>2. job[q].item \in extracted /\ job[q].item \in matched
  BY <1>1 DEF StoredInv, Stored
<1> QED
  BY <1>1, <1>2 DEF Others

LEMMA ReadCaught ==
  ASSUME OrderJudges, Inv, Placed, CaughtInv, NEW j \in Jobs, ReadExtracts(j) PROVE CaughtInv'
<1> SUFFICES ASSUME faults' = 0
             PROVE  StoredInv' /\ \A q \in Jobs : Seen(q)' /\ Judged(q)'
  BY DEF CaughtInv
<1>1. /\ Alone(j) /\ pc[j] = "run" /\ pc'[j] = "history" /\ SkillAt(j) = "duplicate_detect"
      /\ job'[j].item = job[j].item /\ job'[j].kind = job[j].kind /\ job'[j].plan = job[j].plan
      /\ job'[j].pos = job[j].pos /\ job'[j].world = job[j].world /\ job'[j].ctx = job[j].ctx
      /\ job'[j].prior = MatchedBefore(job[j].item)
      /\ UNCHANGED <<doc, rows, posted>>
  BY ReadStep
<1>2. job'[j].seen = extracted /\ faults = 0
  <2>1. \/ job'[j].seen = extracted /\ faults' = faults
        \/ job'[j].seen = job[j].seen /\ faults < MaxFaults /\ faults' = faults + 1
    BY ReadStep
  <2>2. faults \in Nat
    BY DEF Placed
  <2> QED
    BY <2>1, <2>2
<1>3. StoredInv /\ \A q \in Jobs : Seen(q) /\ Judged(q)
  BY <1>2 DEF CaughtInv
<1>4. StoredInv'
  <2>1. \A q \in Jobs : /\ job'[q].item = job[q].item /\ job'[q].ctx = job[q].ctx
                        /\ pc'[q] # "new" => pc[q] # "new"
    BY <1>1 DEF Alone
  <2> QED
    BY <1>1, <1>3, <2>1 DEF StoredInv, rows
<1>5. Seen(j)'
  <2>1. job[j].item \in Items
    BY <1>1 DEF Inv
  <2>2. MatchedBefore(job[j].item) # {} =>
          \E o \in Others(job[j].item, extracted) :
            doc[o].number = doc[job[j].item].number /\ o \in matched
    BY <1>3, <2>1, ReadSees
  <2> QED
    BY <1>1, <1>2, <2>2 DEF Seen, Others, rows
<1>6. Judged(j)'
  <2> SUFFICES ASSUME InOrder(j)' PROVE FinalizeAhead(j)'
    BY DEF Judged
  <2>1. job[j].plan = WithLookup(DefaultOrder, job[j].world)
    BY <1>1 DEF InOrder
  <2>2. /\ DOMAIN job[j].plan = 1..Len(job[j].plan)
        /\ Len(job[j].plan) \in Nat /\ job[j].pos \in 1..Len(job[j].plan)
    BY <1>1, SkillIsKnown
  <2>3. PICK m \in DOMAIN job[j].plan :
          m > job[j].pos /\ job[j].plan[m] = "finalize_decision"
    BY <1>1, <2>1, <2>2, OrderStays DEF SkillAt
  <2>4. m >= job'[j].pos
    BY <1>1, <2>2, <2>3
  <2> QED
    BY <1>1, <2>3, <2>4 DEF FinalizeAhead
<1> QED
  BY <1>1, <1>3, <1>4, <1>5, <1>6, OthersCaught DEF rows

LEMMA RaiseCaught ==
  ASSUME Inv, Placed, CaughtInv, NEW j \in Jobs, SkillRaises(j) PROVE CaughtInv'
<1> SUFFICES ASSUME faults' = 0
             PROVE  StoredInv' /\ \A q \in Jobs : Seen(q)' /\ Judged(q)'
  BY DEF CaughtInv
<1>1. /\ Alone(j) /\ pc[j] # "new" /\ pc'[j] = "failed" /\ job' = job
      /\ faults' = faults \/ (faults < MaxFaults /\ faults' = faults + 1)
      /\ UNCHANGED <<doc, rows, posted>>
  BY RaiseStep
<1>2. faults = 0
  BY <1>1 DEF Placed
<1>3. StoredInv /\ \A q \in Jobs : Seen(q) /\ Judged(q)
  BY <1>2 DEF CaughtInv
<1>4. StoredInv'
  <2>1. \A q \in Jobs : pc'[q] # "new" => pc[q] # "new"
    BY <1>1 DEF Alone
  <2> QED
    BY <1>1, <1>3, <2>1 DEF StoredInv, rows
<1>5. Seen(j)' /\ Judged(j)'
  BY <1>1 DEF Seen, Judged
<1> QED
  BY <1>1, <1>3, <1>4, <1>5, OthersCaught DEF rows

LEMMA SubmitCaught ==
  ASSUME Inv, Placed, CaughtInv, NEW j \in Jobs, Submit(j) PROVE CaughtInv'
<1> SUFFICES ASSUME faults' = 0
             PROVE  StoredInv' /\ \A q \in Jobs : Seen(q)' /\ Judged(q)'
  BY DEF CaughtInv
<1>1. Alone(j) /\ pc[j] = "new" /\ pc'[j] = "run" /\ UNCHANGED <<doc, rows, posted, faults>>
  BY SubmitStep
<1>2. PICK i \in Items : job'[j].item = i /\ job'[j].ctx = latest[i] /\ job'[j].prior = {}
  BY SubmitStep
<1>3. StoredInv /\ \A q \in Jobs : Seen(q) /\ Judged(q)
  BY <1>1 DEF CaughtInv
<1>4. StoredInv'
  <2>1. ASSUME NEW q \in Jobs, pc'[q] # "new"
        PROVE  Stored(job'[q].item, job'[q].ctx, extracted, matched)
    BY <1>1, <1>2, <1>3, <2>1 DEF StoredInv, Alone
  <2> QED
    BY <1>1, <1>3, <2>1 DEF StoredInv, rows
<1>5. Seen(j)' /\ Judged(j)'
  BY <1>1, <1>2 DEF Seen, Judged
<1> QED
  BY <1>1, <1>3, <1>4, <1>5, OthersCaught DEF rows

LEMMA InitCaught == Init => CaughtInv
<1> SUFFICES ASSUME Init PROVE StoredInv /\ \A j \in Jobs : Seen(j) /\ Judged(j)
  BY DEF CaughtInv
<1>1. \A i \in Items, s \in Skills : latest[i][s] = None
  BY DEF Init, NoArtifacts
<1>2. \A j \in Jobs : pc[j] = "new" /\ job[j].prior = {}
  BY DEF Init, NoJob
<1>3. StoredInv
  BY <1>1, <1>2 DEF StoredInv, Stored, Judging, Skills, DecisionOf
<1> QED
  BY <1>2, <1>3 DEF Seen, Judged

LEMMA SpecCaught ==
  ASSUME OrderJudges PROVE Spec => []CaughtInv
<1>1. ASSUME Inv, HistoryInv, Placed, CaughtInv, [Next]_vars PROVE CaughtInv'
  <2>1. CASE UNCHANGED vars
    BY <1>1, <2>1 DEF vars, CaughtInv, StoredInv, Seen, Judged, InOrder, FinalizeAhead, Others
  <2>2. CASE Next
    BY <1>1, <2>2, SubmitCaught, RunSkillCaught, CompareCaught, ReadCaught, RaiseCaught DEF Next
  <2> QED
    BY <1>1, <2>1, <2>2
<1> QED
  BY <1>1, InitCaught, SpecPlaced, PTL DEF Spec

\* An invoice whose number another item had already been approved with is told a
\* duplicate (or no invoice), for any number of jobs and items and any interleaving
\* of their two queries with the others' writes, as long as no query and no write
\* fails and the tenant's order judges what it found (duplicate_detect.py).
THEOREM DuplicatesAreCaught ==
  ASSUME OrderJudges PROVE Spec => []DuplicateIsCaught
<1>1. Inv /\ CaughtInv => DuplicateIsCaught
  <2> SUFFICES ASSUME Inv, CaughtInv, NEW j \in Jobs,
                      InOrder(j), job[j].prior # {}, pc[j] = "done", faults = 0
               PROVE  job[j].ctx["finalize_decision"].decision \in {"DUPLICATE", "NON_INVOICE"}
    BY DEF DuplicateIsCaught
  <2>1. DecisionOf(job[j].ctx["finalize_decision"]) \in {"DUPLICATE", "NON_INVOICE"}
    BY DEF CaughtInv, Judged, FinalizeAhead
  <2> QED
    BY <2>1 DEF DecisionOf
<1> QED
  BY <1>1, SpecCaught, SpecPlaced, PTL

-----------------------------------------------------------------------------
(* The jobs' turns on an item are the lease that the rows of ApRun implement *)

Active(j, i) == pc[j] \in {"run", "history"} /\ job[j].item = i
holder == [i \in Items |-> IF \E j \in Jobs : Active(j, i)
                           THEN CHOOSE j \in Jobs : Active(j, i) ELSE None]
used == {j \in Jobs : pc[j] # "new"}
Lease == INSTANCE ItemLease WITH Holders <- Jobs

OneActive == \A i \in Items : \A j, q \in Jobs : Active(j, i) /\ Active(q, i) => j = q

\* The holder of an item is its active job.
LEMMA HolderIsActive ==
  ASSUME OneActive, NEW i \in Items
  PROVE  /\ \A j \in Jobs : Active(j, i) => holder[i] = j
         /\ (\A j \in Jobs : ~Active(j, i)) => holder[i] = None
<1>1. ASSUME NEW j \in Jobs, Active(j, i) PROVE holder[i] = j
  <2>1. holder[i] = CHOOSE q \in Jobs : Active(q, i)
    BY <1>1 DEF holder
  <2>2. /\ (CHOOSE q \in Jobs : Active(q, i)) \in Jobs
        /\ Active(CHOOSE q \in Jobs : Active(q, i), i)
    BY <1>1
  <2> QED
    BY <1>1, <2>1, <2>2 DEF OneActive
<1>2. (\A j \in Jobs : ~Active(j, i)) => holder[i] = None
  BY DEF holder
<1> QED
  BY <1>1, <1>2

\* A step of a job touches no other job's turn.
LEMMA OthersActive ==
  ASSUME NEW j \in Jobs, Alone(j), NEW q \in Jobs \ {j}
  PROVE  /\ \A i : Active(q, i)' <=> Active(q, i)
         /\ q \in used' <=> q \in used
BY DEF Alone, Active, used

\* A job that takes an item takes the lease.
LEMMA SubmitAcquires ==
  ASSUME Inv, OneActive, NEW j \in Jobs, Submit(j)
  PROVE  OneActive' /\ Lease!Next
<1>1. Alone(j) /\ pc[j] = "new" /\ pc'[j] = "run"
  BY SubmitStep
<1>2. PICK i \in Items : job'[j].item = i /\ \A q \in Jobs : ~Active(q, i)
  <2>1. PICK i \in Items, w \in WorldsOf[j], k \in {"default", "explicit"} :
          /\ ItemIsFree(i)
          /\ \E p \in (IF k = "default" THEN DefaultPlans(w)
                       ELSE {WithLookup(q, w) : q \in ExplicitPlans[j]}) :
               job' = [job EXCEPT ![j] = [NoJob EXCEPT !.item = i, !.kind = k, !.plan = p,
                                                       !.world = w, !.ctx = latest[i]]]
    BY DEF Submit
  <2>2. job'[j].item = i
    <3>1. PICK p : job'[j] = [NoJob EXCEPT !.item = i, !.kind = k, !.plan = p,
                                           !.world = w, !.ctx = latest[i]]
      BY <2>1 DEF Inv
    <3> QED
      BY <3>1 DEF NoJob
  <2> QED
    BY <2>1, <2>2 DEF ItemIsFree, Active
<1>3. /\ Active(j, i)' /\ \A k \in Items \ {i} : ~Active(j, k)'
      /\ \A k \in Items : ~Active(j, k)
  BY <1>1, <1>2 DEF Active
<1>4. OneActive'
  BY <1>1, <1>2, <1>3, OthersActive DEF OneActive
<1>5. holder[i] = None
  BY <1>2, HolderIsActive
<1>6. \A k \in Items : holder'[k] = IF k = i THEN j ELSE holder[k]
  <2>1. holder'[i] = j
    <3>1. \E q \in Jobs : Active(q, i)'
      BY <1>3
    <3> QED
      BY <1>3, <1>4, <3>1 DEF holder, OneActive
  <2>2. ASSUME NEW k \in Items \ {i} PROVE holder'[k] = holder[k]
    <3>1. \A q \in Jobs : Active(q, k)' <=> Active(q, k)
      BY <1>1, <1>3, OthersActive
    <3> QED
      BY <3>1 DEF holder
  <2> QED
    BY <2>1, <2>2
<1>7. holder' = [holder EXCEPT ![i] = j]
  BY <1>6 DEF holder
<1>8. j \notin used /\ used' = used \union {j}
  BY <1>1, OthersActive DEF used
<1>9. Lease!Acquire(j, i)
  BY <1>5, <1>7, <1>8 DEF Lease!Acquire
<1> QED
  BY <1>4, <1>9 DEF Lease!Next

\* A job at work goes on with its item, or gives the lease back.
LEMMA WorkKeepsLease ==
  ASSUME Inv, OneActive, NEW j \in Jobs, Alone(j), pc[j] \in {"run", "history"},
         pc'[j] \in {"run", "history", "done", "failed"}, job'[j].item = job[j].item
  PROVE  OneActive' /\ (Lease!Next \/ UNCHANGED Lease!leaseVars)
<1>1. PICK i \in Items : i = job[j].item
  BY DEF Inv
<1>2. /\ Active(j, i) /\ \A k \in Items \ {i} : ~Active(j, k) /\ ~Active(j, k)'
      /\ Active(j, i)' <=> pc'[j] \in {"run", "history"}
  BY <1>1 DEF Active
<1>3. OneActive'
  BY <1>2, OthersActive DEF OneActive
<1>4. used' = used
  BY OthersActive DEF used
<1>5. \A q \in Jobs \ {j} : ~Active(q, i) /\ ~Active(q, i)'
  BY <1>2, OthersActive DEF OneActive
<1>6. ASSUME NEW k \in Items \ {i} PROVE holder'[k] = holder[k]
  <2>1. \A q \in Jobs : Active(q, k)' <=> Active(q, k)
    BY <1>2, OthersActive
  <2> QED
    BY <2>1 DEF holder
<1>7. CASE pc'[j] \in {"run", "history"}
  <2>1. \A q \in Jobs : Active(q, i)' <=> Active(q, i)
    BY <1>2, <1>5, <1>7
  <2>2. holder'[i] = holder[i]
    BY <2>1 DEF holder
  <2>3. holder' = holder
    BY <1>6, <2>2 DEF holder
  <2> QED
    BY <1>3, <1>4, <2>3 DEF Lease!leaseVars
<1>8. CASE pc'[j] \notin {"run", "history"}
  <2>1. holder[i] = j /\ j # None
    BY <1>2, HolderIsActive, ParametersAssumption
  <2>2. holder'[i] = None
    <3>1. \A q \in Jobs : ~Active(q, i)'
      BY <1>2, <1>5, <1>8
    <3> QED
      BY <3>1 DEF holder
  <2>3. holder' = [holder EXCEPT ![i] = None]
    BY <1>6, <2>2 DEF holder
  <2>4. Lease!Release(j, i)
    BY <1>4, <2>1, <2>3 DEF Lease!Release
  <2> QED
    BY <1>3, <2>4 DEF Lease!Next
<1> QED
  BY <1>7, <1>8

LEMMA NextKeepsLease ==
  ASSUME Inv, Placed, OneActive, [Next]_vars
  PROVE  OneActive' /\ (Lease!Next \/ UNCHANGED Lease!leaseVars)
<1>1. CASE UNCHANGED vars
  BY <1>1 DEF vars, OneActive, Active, Lease!leaseVars, holder, used
<1>2. ASSUME NEW j \in Jobs, Submit(j)
      PROVE  OneActive' /\ (Lease!Next \/ UNCHANGED Lease!leaseVars)
  BY <1>2, SubmitAcquires
<1>3. ASSUME NEW j \in Jobs, RunSkill(j) \/ CompareHistory(j)
      PROVE  OneActive' /\ (Lease!Next \/ UNCHANGED Lease!leaseVars)
  <2>1. /\ Alone(j) /\ pc[j] \in {"run", "history"}
        /\ \E a, n : Finish(j, a, n)
    BY <1>3, RunSkillStep, CompareStep DEF Placed
  <2>2. job'[j].item = job[j].item /\ pc'[j] \in {"run", "done"}
    BY <2>1, FinishStep
  <2> QED
    BY <2>1, <2>2, WorkKeepsLease
<1>4. ASSUME NEW j \in Jobs, ReadExtracts(j) \/ SkillRaises(j)
      PROVE  OneActive' /\ (Lease!Next \/ UNCHANGED Lease!leaseVars)
  <2>1. /\ Alone(j) /\ pc[j] \in {"run", "history"} /\ pc'[j] \in {"history", "failed"}
        /\ job'[j].item = job[j].item
    BY <1>4, ReadStep, RaiseStep
  <2> QED
    BY <2>1, WorkKeepsLease
<1> QED
  BY <1>1, <1>2, <1>3, <1>4 DEF Next

\* Jobs take their items' turns as ItemLease lets them, as the rows of ApRun do: the
\* guard ItemIsFree is the promise of the unique index (tenant_db.py) and no more.
THEOREM TurnsAreLeases == Spec => Lease!Spec
<1>1. Init => OneActive /\ Lease!Init
  BY DEF Init, OneActive, Active, Lease!Init, holder, used
<1>2. Inv /\ Placed /\ OneActive /\ [Next]_vars =>
        OneActive' /\ [Lease!Next]_(Lease!leaseVars)
  BY NextKeepsLease
<1> QED
  BY <1>1, <1>2, SpecPlaced, PTL DEF Spec, Lease!Spec
================================================================================
