------------------------------ MODULE ApDecision ------------------------------
(***************************************************************************)
(* The AP skills themselves (src/app/ap_skills/<skill>.py): what each one  *)
(* makes of the invoice, of the masters and of the artifacts before it,    *)
(* and how finalize_decision and workflow_move_next turn those artifacts   *)
(* into the decision posted to the workflow.  ApRun has the run around     *)
(* them (row, credits, ticket); here the rows of ap_skill_artifacts have   *)
(* contents, and jobs of different items meet in duplicate_detect, which   *)
(* reads the artifacts of the whole tenant in two queries.                 *)
(*                                                                         *)
(* An item stands for one document: a second run of it starts from the     *)
(* extraction stored by the first (runner.py:315-317), so what is on the   *)
(* invoice never changes.  What the masters answer is chosen per job.      *)
(*                                                                         *)
(* Abstracted: names (how close a master's vendor is, in percent), line    *)
(* items (how many of them matched), labels and reasons, the embedder      *)
(* behind the similarity, the metadata push, and the HANA copy of a match. *)
(* A payload with invoice_json and a skill list without extract_invoice is *)
(* left out.                                                               *)
(***************************************************************************)
EXTENDS Integers, Sequences, FiniteSets
Sq == INSTANCE SequencesExt

CONSTANTS
  Jobs, Items,
  DocumentsOf,    \* DocumentsOf[i]: what the invoice of item i may say
  WorldsOf,       \* WorldsOf[j]: what the masters may answer job j
  DefaultOrder,   \* the tenant's enabled skills, in order
  ExplicitPlans,  \* ExplicitPlans[j]: the skill lists the caller of j may ask for
  Proposals,      \* answers of the LLM planner ({}: the planner is off)
  Approved, Partial, Tolerance,  \* thresholds of the tenant's plan, 0 if unset
  EzofisLive,     \* EZOFIS_ENV is "live"
  MaxFaults,      \* bound on the number of failed queries, writes and skills
  None

Connectors == [po_lookup_sap |-> "sap", po_lookup_quickbooks |-> "quickbooks",
               po_lookup_sage |-> "sage"]
Lookups == DOMAIN Connectors
Skills == Lookups \union
  {"extract_invoice", "po_match", "gl_match", "grn_match", "duplicate_detect",
   "vendor_validate", "matter_validate", "backorder_detect", "finalize_decision",
   "workflow_move_next"}

Percents == 0..100
Grades == {"MATCHED", "PARTIALLY_MATCHED", "NOT_MATCHED"}
Decisions == Grades \union {"DUPLICATE", "NON_INVOICE"}

\* A purchase order: how close its vendor is to the invoice's (None: it names
\* none), its amount, and where the record comes from.
POs == [sim : Percents \union {None}, total : Nat \union {None},
        origin : {"live", "sap_sample", "offline"}]
Invoices == [other : BOOLEAN, number : Nat \union {None}, vendor : Nat \union {None},
             poNumber : BOOLEAN, total : Nat \union {None}, lines : Nat, matter : BOOLEAN]
\* What a job meets: the PO master its payload names (master_source, resource),
\* whether its pipeline forces the SAP look-up, and what the masters answer.
Masters == {"unset", "form", "sap", "quickbooks", "sage"}
Worlds == [source : Masters, resource : Masters, force : BOOLEAN,
           po : POs \union {None}, gl : Nat,
           grn : [sim : Percents, hits : Nat, total : BOOLEAN, offline : BOOLEAN] \union {None},
           master : [status : {"ACTIVE", "INACTIVE"}, offline : BOOLEAN] \union {None},
           matter : {"live", "offline", "unknown"}, cloud : SUBSET {"same", "vendor"},
           short : BOOLEAN, instance : BOOLEAN]

ASSUME InputsAssumption ==
  /\ DocumentsOf \in [Items -> SUBSET Invoices]
  /\ WorldsOf \in [Jobs -> SUBSET Worlds]
  /\ DefaultOrder \in Seq(Skills) /\ Len(DefaultOrder) > 0
  /\ DOMAIN ExplicitPlans = Jobs
  /\ \A j \in Jobs : ExplicitPlans[j] \subseteq Seq(Skills) /\ <<>> \notin ExplicitPlans[j]
  /\ Proposals \subseteq Seq(Skills)
ASSUME ParametersAssumption ==
  /\ Approved \in Nat /\ Partial \in Nat /\ Tolerance \in Nat /\ MaxFaults \in Nat
  /\ EzofisLive \in BOOLEAN
  /\ None \notin Nat /\ None \notin Items /\ None \notin Jobs
  /\ None \notin POs /\ None \notin Worlds /\ None \notin Decisions

VARIABLES
  doc,        \* doc[i]: the document of item i
  pc,         \* pc[j]: "new", "run", "history" (between the two queries), "done", "failed"
  job,        \* job[j]: item, plan, position, what the masters answer, ctx.artifacts
  latest,     \* latest[i][s]: the latest artifact row of skill s for item i
  extracted,  \* the items with an extract_invoice row
  matched,    \* the items with a finalize_decision row that says MATCHED
  posted,     \* posted[j]: the decision job j moved its workflow with
  faults

vars == <<doc, pc, job, latest, extracted, matched, posted, faults>>
rows == <<latest, extracted, matched>>

-----------------------------------------------------------------------------
(* Scores and grades (po_match, gl_match, grn_match), in hundredths *)

OrDefault(x, default) == IF x = 0 THEN default ELSE x
Lesser(a, b) == IF a < b THEN a ELSE b
Distance(a, b) == IF a < b THEN b - a ELSE a - b

\* decision_from_score, with the settings' 80 and 50 where the plan sets none.
FromScore(score) ==
  IF score >= 100 * OrDefault(Approved, 80) THEN "MATCHED"
  ELSE IF score >= 100 * OrDefault(Partial, 50) THEN "PARTIALLY_MATCHED"
  ELSE "NOT_MATCHED"

Similarity(inv, sim) == IF inv.vendor = None \/ sim = None THEN 0 ELSE sim

\* The totals differ by at most the tolerance, in percent of the PO's.
TotalsAgree(inv, po) ==
  /\ inv.total # None /\ po.total # None /\ po.total # 0
  /\ 100 * Distance(inv.total, po.total) <= OrDefault(Tolerance, 2) * po.total

\* Faulty variant (mutation test): two totals are enough, however far apart.
PoScoreAnyTotals(inv, po) ==
  4000 + 30 * Similarity(inv, po.sim)
       + (IF inv.total # None /\ po.total # None THEN 3000 ELSE 0)

PoScore(inv, po) ==
  4000 + 30 * Similarity(inv, po.sim) + (IF TotalsAgree(inv, po) THEN 3000 ELSE 0)

\* Full MATCHED requires an amount on the PO and a close vendor.
PoGrade(inv, po) ==
  IF /\ FromScore(PoScore(inv, po)) = "MATCHED"
     /\ po.total = None \/ Similarity(inv, po.sim) < 85
  THEN "PARTIALLY_MATCHED" ELSE FromScore(PoScore(inv, po))

\* The look-ups of ctx that found a PO, and the first of some, in the code's order.
Found(ctx) == {s \in Lookups : ctx[s] # None /\ ctx[s].po # None}
FirstOf(found) ==
  IF "po_lookup_sap" \in found THEN "po_lookup_sap"
  ELSE IF "po_lookup_quickbooks" \in found THEN "po_lookup_quickbooks" ELSE "po_lookup_sage"

\* wants_sap_or_hana_po_master: master_source decides if it is there.
WantsSap(w) == IF w.source # "unset" THEN w.source = "sap" ELSE w.resource = "sap"

\* wants_form_po_master
WantsForm(w) == ~WantsSap(w) /\ {w.source, w.resource} \intersect {"quickbooks", "sage"} = {}

\* A connector artifact with a PO, whichever run left it; else the form master,
\* unless the payload names a connector.
PoOf(ctx, w) ==
  IF Found(ctx) # {} THEN ctx[FirstOf(Found(ctx))].po
  ELSE IF WantsForm(w) THEN w.po ELSE None

PoMatch(inv, ctx, w) ==
  LET po == IF inv.poNumber THEN PoOf(ctx, w) ELSE None
  IN  [po |-> po, decision |-> IF po = None THEN "NOT_MATCHED" ELSE PoGrade(inv, po)]

\* The connectors a look-up gives way to if they found the PO.
Before(s) == CASE s = "po_lookup_sap" -> {}
               [] s = "po_lookup_quickbooks" -> {"po_lookup_sap"}
               [] OTHER -> {"po_lookup_sap", "po_lookup_quickbooks"}

Lookup(s, inv, ctx, w) ==
  LET skipped == /\ inv.poNumber
                 /\ \/ w.resource \notin {"unset", Connectors[s]}
                    \/ Before(s) \intersect Found(ctx) # {}
  IN  [skipped |-> skipped, po |-> IF skipped \/ ~inv.poNumber THEN None ELSE w.po]

GlMatch(inv, w) ==
  [decision |-> FromScore(IF inv.lines = 0 THEN 0
                          ELSE (10000 * Lesser(w.gl, inv.lines)) \div inv.lines)]

GrnScore(inv, grn) ==
  4000 + 25 * Similarity(inv, grn.sim)
       + (IF inv.lines > 0 THEN (3500 * Lesser(grn.hits, inv.lines)) \div inv.lines
          ELSE IF grn.total THEN 3500 ELSE 0)

GrnMatch(inv, w) ==
  IF w.grn = None THEN [decision |-> "NOT_MATCHED", mock |-> FALSE]
  ELSE [decision |-> FromScore(GrnScore(inv, w.grn)), mock |-> w.grn.offline]

\* The PO's vendor if po_match found one, else the vendor master.
VendorValidate(inv, ctx, w) ==
  IF inv.vendor = None THEN [status |-> "MISSING", mock |-> FALSE]
  ELSE IF ctx["po_match"] # None /\ ctx["po_match"].po # None /\ ctx["po_match"].po.sim # None
       THEN [status |-> IF ctx["po_match"].po.sim >= 85 THEN "ACTIVE" ELSE "MISMATCH",
             mock |-> FALSE]
  ELSE IF w.master # None THEN [status |-> w.master.status, mock |-> w.master.offline]
  ELSE [status |-> "UNVERIFIED", mock |-> FALSE]

MatterValidate(inv, w) ==
  IF ~inv.matter THEN [status |-> "SKIPPED", mock |-> FALSE]
  ELSE [status |-> IF w.matter = "unknown" THEN "NOT_IN_MASTER" ELSE "MATCHED",
        mock |-> w.matter = "offline"]

\* Without an established match the check is skipped.
BackorderDetect(ctx, w) ==
  [detected |-> /\ ctx["po_match"].decision # "NOT_MATCHED"
                /\ ctx["po_match"].po # None
                /\ w.short]

-----------------------------------------------------------------------------
(* finalize_decision *)

Rank == [d \in Decisions |->
           IF d = "MATCHED" THEN 3 ELSE IF d = "PARTIALLY_MATCHED" THEN 2
           ELSE IF d = "NOT_MATCHED" THEN 1 ELSE 0]

\* Faulty variant (mutation test): the better of the two.
WorseIsBetter(l, r) ==
  IF l = "none" THEN r ELSE IF r = "none" THEN l ELSE IF Rank[l] >= Rank[r] THEN l ELSE r

\* _worse; "none" stands for an empty decision.
Worse(l, r) ==
  IF l = "none" THEN r ELSE IF r = "none" THEN l ELSE IF Rank[l] <= Rank[r] THEN l ELSE r

DecisionOf(artifact) == IF artifact = None THEN "none" ELSE artifact.decision
StatusOf(artifact) == IF artifact = None THEN "none" ELSE artifact.status

\* used_mock_data: a record of an offline fallback, in a live deployment.
UsedMockData(ctx) ==
  /\ EzofisLive
  /\ \/ ctx["po_match"] # None /\ ctx["po_match"].po # None
          /\ ctx["po_match"].po.origin = "offline"
     \/ \E s \in {"grn_match", "vendor_validate", "matter_validate"} :
          ctx[s] # None /\ ctx[s].mock

\* The grade of the evidence so far: PO, GL and GRN in turn, then vendor and matter.
KnownGrade(ctx) ==
  LET lines == Worse(Worse(DecisionOf(ctx["po_match"]), DecisionOf(ctx["gl_match"])),
                     DecisionOf(ctx["grn_match"]))
      vetted == IF StatusOf(ctx["vendor_validate"]) # "MISMATCH" THEN lines
                ELSE Worse(lines, IF lines = "MATCHED" THEN "PARTIALLY_MATCHED" ELSE "NOT_MATCHED")
  IN  IF StatusOf(ctx["matter_validate"]) # "NOT_IN_MASTER" THEN vetted
      ELSE Worse(vetted, "PARTIALLY_MATCHED")

\* Faulty variant (mutation test): no grade without evidence.
EvidenceGradeNoDefault(ctx) == KnownGrade(ctx)

EvidenceGrade(ctx) ==
  IF KnownGrade(ctx) # "none" THEN KnownGrade(ctx)
  ELSE IF StatusOf(ctx["vendor_validate"]) = "ACTIVE" THEN "MATCHED" ELSE "PARTIALLY_MATCHED"

PossibleDuplicate(ctx) == ctx["duplicate_detect"] # None /\ ctx["duplicate_detect"].possible

Decision(ctx) ==
  IF ctx["extract_invoice"] # None /\ ctx["extract_invoice"].other THEN "NON_INVOICE"
  ELSE IF ctx["duplicate_detect"] # None /\ ctx["duplicate_detect"].duplicate THEN "DUPLICATE"
  ELSE IF /\ EvidenceGrade(ctx) = "MATCHED"
          /\ UsedMockData(ctx) \/ PossibleDuplicate(ctx)
       THEN "PARTIALLY_MATCHED"
  ELSE EvidenceGrade(ctx)

Finalize(ctx) == [decision |-> Decision(ctx), mock |-> UsedMockData(ctx)]

\* workflow_move_next posts, unless it has no instance (or no activity), no
\* decision, or one reached on mock data.
Moves(ctx, w) ==
  w.instance /\ ctx["finalize_decision"] # None /\ ~ctx["finalize_decision"].mock

-----------------------------------------------------------------------------
(* duplicate_detect *)

Others(i, seen) == {o \in seen \ {i} : doc[o].number # None /\ doc[i].number # None}

\* Faulty variant (mutation test): a duplicate also has the same vendor.
HardDuplicateOfVendor(i, seen, hits) ==
  \E o \in Others(i, seen) :
    doc[o].number = doc[i].number /\ doc[o].vendor = doc[i].vendor /\ o \in hits

\* An item extracted before with the same number, and matched.
HardDuplicate(i, seen, hits) ==
  \E o \in Others(i, seen) : doc[o].number = doc[i].number /\ o \in hits

\* Another number of the same vendor: name_similarity of the numbers only ranks.
SameVendorSeen(i, seen) ==
  \E o \in Others(i, seen) :
    doc[o].number # doc[i].number /\ doc[i].vendor # None /\ doc[o].vendor = doc[i].vendor

CloudHas(i, w, what) == doc[i].number # None /\ what \in w.cloud

DuplicateDetect(i, seen, hits, w) ==
  [duplicate |-> HardDuplicate(i, seen, hits) \/ CloudHas(i, w, "same"),
   possible |-> SameVendorSeen(i, seen) \/ CloudHas(i, w, "vendor")]

-----------------------------------------------------------------------------
(* Jobs *)

NoArtifacts == [s \in Skills |-> None]
NoJob == [item |-> None, kind |-> "default", plan |-> <<>>, pos |-> 1, world |-> None,
          ctx |-> NoArtifacts, seen |-> {}, prior |-> {}]

Init ==
  /\ doc \in [Items -> UNION {DocumentsOf[i] : i \in Items}]
  /\ \A i \in Items : doc[i] \in DocumentsOf[i]
  /\ pc = [j \in Jobs |-> "new"]
  /\ job = [j \in Jobs |-> NoJob]
  /\ latest = [i \in Items |-> NoArtifacts]
  /\ extracted = {} /\ matched = {}
  /\ posted = [j \in Jobs |-> None]
  /\ faults = 0

SkillsIn(plan) == {plan[n] : n \in DOMAIN plan}

\* ensure_ezofis_hana_po_lookup puts the SAP look-up before po_match.
WithLookup(plan, w) ==
  IF /\ w.force /\ WantsSap(w)
     /\ "po_match" \in SkillsIn(plan) /\ "po_lookup_sap" \notin SkillsIn(plan)
  THEN Sq!InsertAt(plan, CHOOSE n \in DOMAIN plan :
                           plan[n] = "po_match" /\ \A m \in 1..(n - 1) : plan[m] # "po_match",
                   "po_lookup_sap")
  ELSE plan

\* The skills of plan that are wanted, in its order (SelectSeq, as a function of
\* the position so that it can be reasoned about).
Kept(plan, wanted) ==
  LET kept[n \in 0..Len(plan)] ==
        IF n = 0 THEN <<>>
        ELSE IF plan[n] \in wanted THEN Append(kept[n - 1], plan[n]) ELSE kept[n - 1]
  IN  kept[Len(plan)]

\* maybe_reorder: what the planner names, then what it left out; it is not asked
\* about a single skill.
Reordered(plan, proposal) ==
  LET ordered == Kept(proposal, SkillsIn(plan))
  IN  IF Len(plan) < 2 THEN plan
      ELSE ordered \o Kept(plan, SkillsIn(plan) \ SkillsIn(ordered))

DefaultPlans(w) ==
  LET plan == WithLookup(DefaultOrder, w)
  IN  {plan} \union {Reordered(plan, p) : p \in Proposals}

\* One job per item at a time: the lease of ApRun (SkillExclusion).
ItemIsFree(i) == \A q \in Jobs : pc[q] \in {"run", "history"} => job[q].item # i

\* The row is inserted and load_artifacts fills ctx.
Submit(j) ==
  /\ pc[j] = "new"
  /\ \E i \in Items, w \in WorldsOf[j], k \in {"default", "explicit"} :
       /\ ItemIsFree(i)
       /\ \E p \in (IF k = "default" THEN DefaultPlans(w)
                    ELSE {WithLookup(q, w) : q \in ExplicitPlans[j]}) :
            job' = [job EXCEPT ![j] = [NoJob EXCEPT !.item = i, !.kind = k, !.plan = p,
                                                    !.world = w, !.ctx = latest[i]]]
  /\ pc' = [pc EXCEPT ![j] = "run"]
  /\ UNCHANGED <<doc, rows, posted, faults>>

SkillAt(j) == job[j].plan[job[j].pos]

\* invoice_from, and backorder_detect's own check.
CanRun(s, ctx) ==
  /\ s \notin {"extract_invoice", "finalize_decision", "workflow_move_next"} =>
       ctx["extract_invoice"] # None
  /\ s = "backorder_detect" => ctx["po_match"] # None

Result(s, i, ctx, w) ==
  LET inv == ctx["extract_invoice"]
  IN  CASE s = "extract_invoice" -> doc[i]
        [] s \in Lookups -> Lookup(s, inv, ctx, w)
        [] s = "po_match" -> PoMatch(inv, ctx, w)
        [] s = "gl_match" -> GlMatch(inv, w)
        [] s = "grn_match" -> GrnMatch(inv, w)
        [] s = "vendor_validate" -> VendorValidate(inv, ctx, w)
        [] s = "matter_validate" -> MatterValidate(inv, w)
        [] s = "backorder_detect" -> BackorderDetect(ctx, w)
        [] s = "finalize_decision" -> Finalize(ctx)
        [] OTHER -> [moved |-> Moves(ctx, w)]

\* save_artifact inserts a row; a failure is logged and the run goes on.
\* (spent: the faults of this step before it.)
Save(i, s, artifact, spent) ==
  \/ /\ latest' = [latest EXCEPT ![i][s] = artifact]
     /\ extracted' = IF s = "extract_invoice" THEN extracted \union {i} ELSE extracted
     /\ matched' = IF s = "finalize_decision" /\ artifact.decision = "MATCHED"
                   THEN matched \union {i} ELSE matched
     /\ faults' = faults + spent
  \/ /\ faults + spent < MaxFaults
     /\ faults' = faults + spent + 1
     /\ UNCHANGED rows

\* The artifact enters ctx and the table, and the loop goes on.
Finish(j, artifact, spent) ==
  LET s == SkillAt(j)
      last == job[j].pos = Len(job[j].plan)
      next == IF last THEN job[j].pos ELSE job[j].pos + 1
  IN  /\ job' = [job EXCEPT ![j] = [@ EXCEPT !.ctx[s] = artifact, !.seen = {}, !.pos = next]]
      /\ pc' = [pc EXCEPT ![j] = IF last THEN "done" ELSE "run"]
      /\ Save(job[j].item, s, artifact, spent)

\* A skill that reads nothing but its own job and the masters.
RunSkill(j) ==
  /\ pc[j] = "run"
  /\ SkillAt(j) # "duplicate_detect"
  /\ CanRun(SkillAt(j), job[j].ctx)
  /\ Finish(j, Result(SkillAt(j), job[j].item, job[j].ctx, job[j].world), 0)
  /\ posted' = IF SkillAt(j) = "workflow_move_next" /\ Moves(job[j].ctx, job[j].world)
               THEN [posted EXCEPT ![j] = job[j].ctx["finalize_decision"].decision] ELSE posted
  /\ UNCHANGED doc

\* A skill raises: what it needs is missing, or a look-up fails.
SkillRaises(j) ==
  /\ pc[j] \in {"run", "history"}
  /\ \/ ~CanRun(SkillAt(j), job[j].ctx) /\ UNCHANGED faults
     \/ faults < MaxFaults /\ faults' = faults + 1
  /\ pc' = [pc EXCEPT ![j] = "failed"]
  /\ UNCHANGED <<doc, job, rows, posted>>

\* The jobs of other items that reached MATCHED for this number, by finishing
\* finalize_decision in the default pipeline (a proof variable: no code reads it).
MatchedBefore(i) ==
  {q \in Jobs : /\ job[q].kind = "default" /\ job[q].item \notin {None, i}
                /\ doc[i].number # None /\ doc[job[q].item].number = doc[i].number
                /\ pc[q] = "done" /\ DecisionOf(job[q].ctx["finalize_decision"]) = "MATCHED"}

\* The first query: every extraction of the tenant, [] if it fails.
ReadExtracts(j) ==
  /\ pc[j] = "run"
  /\ SkillAt(j) = "duplicate_detect"
  /\ CanRun("duplicate_detect", job[j].ctx)
  /\ \/ /\ job' = [job EXCEPT ![j].seen = extracted, ![j].prior = MatchedBefore(job[j].item)]
        /\ UNCHANGED faults
     \/ /\ faults < MaxFaults
        /\ faults' = faults + 1
        /\ job' = [job EXCEPT ![j].prior = MatchedBefore(job[j].item)]
  /\ pc' = [pc EXCEPT ![j] = "history"]
  /\ UNCHANGED <<doc, rows, posted>>

\* The second query (nothing, if it fails), then the cloud history.
CompareHistory(j) ==
  /\ pc[j] = "history"
  /\ \E spent \in {0, 1} :
       /\ spent = 1 => faults < MaxFaults
       /\ Finish(j, DuplicateDetect(job[j].item, job[j].seen,
                                    IF spent = 1 THEN {} ELSE matched, job[j].world), spent)
  /\ UNCHANGED <<doc, posted>>

Next ==
  \E j \in Jobs :
    Submit(j) \/ RunSkill(j) \/ ReadExtracts(j) \/ CompareHistory(j) \/ SkillRaises(j)

Spec == Init /\ [][Next]_vars
-----------------------------------------------------------------------------
(* Types *)

\* What the artifact of a skill may be.
Artifacts(s) ==
  CASE s = "extract_invoice" -> Invoices
    [] s \in Lookups -> [skipped : BOOLEAN, po : POs \union {None}]
    [] s = "po_match" -> [decision : Grades, po : POs \union {None}]
    [] s = "gl_match" -> [decision : Grades]
    [] s = "grn_match" -> [decision : Grades, mock : BOOLEAN]
    [] s = "duplicate_detect" -> [duplicate : BOOLEAN, possible : BOOLEAN]
    [] s = "vendor_validate" ->
         [status : {"MISSING", "ACTIVE", "INACTIVE", "MISMATCH", "UNVERIFIED"}, mock : BOOLEAN]
    [] s = "matter_validate" ->
         [status : {"SKIPPED", "MATCHED", "NOT_IN_MASTER"}, mock : BOOLEAN]
    [] s = "backorder_detect" -> [detected : BOOLEAN]
    [] s = "finalize_decision" -> [decision : Decisions, mock : BOOLEAN]
    [] OTHER -> [moved : BOOLEAN]

ASSUME NoArtifactAssumption == \A s \in Skills : None \notin Artifacts(s)

TypeOK ==
  /\ DOMAIN doc = Items /\ \A i \in Items : doc[i] \in DocumentsOf[i]
  /\ pc \in [Jobs -> {"new", "run", "history", "done", "failed"}]
  /\ \A j \in Jobs :
       /\ pc[j] # "new" => /\ job[j].item \in Items /\ job[j].world \in WorldsOf[j]
                           /\ job[j].pos \in DOMAIN job[j].plan
                           /\ SkillsIn(job[j].plan) \subseteq Skills
       /\ \A s \in Skills : job[j].ctx[s] \in Artifacts(s) \union {None}
       /\ job[j].seen \subseteq extracted /\ job[j].prior \subseteq Jobs
  /\ \A i \in Items, s \in Skills : latest[i][s] \in Artifacts(s) \union {None}
  /\ matched \subseteq Items /\ extracted \subseteq Items
  /\ posted \in [Jobs -> Decisions \union {None}]
  /\ faults \in 0..MaxFaults

-----------------------------------------------------------------------------
(* Properties *)

\* What the tenant's order must do for a decision to mean anything: extraction and
\* every check before finalize_decision, that before the move, and the look-ups
\* before po_match.  resolve_skills takes skills_order as it is configured.
Precedes(plan, s, t) ==
  \A n \in DOMAIN plan : plan[n] = t => \E m \in 1..(n - 1) : plan[m] = s
Checks == {"po_match", "gl_match", "grn_match", "matter_validate", "duplicate_detect"}
OrderDecides ==
  LET ordered == SkillsIn(DefaultOrder)
  IN  /\ \A s \in {"extract_invoice"} \union (Checks \intersect ordered) :
           Precedes(DefaultOrder, s, "finalize_decision")
      /\ Precedes(DefaultOrder, "finalize_decision", "workflow_move_next")
      /\ \A s \in Lookups \intersect ordered : Precedes(DefaultOrder, s, "po_match")

\* What duplicate_detect finds is judged: finalize_decision follows it.
OrderJudges ==
  \A n \in DOMAIN DefaultOrder :
    DefaultOrder[n] = "duplicate_detect" =>
      \E m \in DOMAIN DefaultOrder : m > n /\ DefaultOrder[m] = "finalize_decision"

\* A run of the whole default pipeline, in the tenant's order.
InOrder(j) ==
  /\ pc[j] # "new" /\ job[j].kind = "default"
  /\ job[j].plan = WithLookup(DefaultOrder, job[j].world)

\* What the masters say, with PO po, supports paying document d without a human.
\* (The totals agree as po_match compares them, in percent of the PO's; the
\* phase-0 inventory of the docs calls the same tolerance an absolute amount.)
Supported(d, po, w) ==
  LET ordered == SkillsIn(DefaultOrder)
      trusted(offline) == ~(EzofisLive /\ offline)
  IN  /\ ~d.other
      /\ "po_match" \in ordered =>
           /\ d.poNumber /\ d.vendor # None /\ po # None
           /\ po.total # None /\ po.sim # None /\ po.sim >= 85
           /\ trusted(po.origin = "offline")
           /\ OrDefault(Approved, 80) > 70 => TotalsAgree(d, po)
      /\ "gl_match" \in ordered => w.gl > 0 /\ d.lines > 0
      /\ "grn_match" \in ordered => w.grn # None /\ trusted(w.grn.offline)
      /\ ("matter_validate" \in ordered /\ d.matter) =>
           w.matter # "unknown" /\ trusted(w.matter = "offline")
      /\ ("duplicate_detect" \in ordered /\ d.number # None) => w.cloud = {}

\* The POs po_match may take: what the master answered this run, and what a
\* connector answered an earlier run of the item, if no look-up of this run's
\* plan replaces it (po_match does not tell whose artifact it reads).
MayMatch(j) ==
  {job[j].world.po} \union
  {job[j].ctx[s].po : s \in Found(job[j].ctx) \ SkillsIn(job[j].plan)}

\* A default run posts MATCHED only if what the masters answered that very run
\* supports it, the PO apart, which may also be one that an earlier run's
\* look-up stored: no other artifact of an earlier run and nothing other items
\* do meanwhile gets an invoice approved.  The caps of po_match and
\* finalize_decision, the mock rule and the order of the skills together.
ApprovalIsBacked ==
  \A j \in Jobs :
    (InOrder(j) /\ posted[j] = "MATCHED") =>
      \E po \in MayMatch(j) : Supported(doc[job[j].item], po, job[j].world)

\* An invoice number another item's default run had already reached MATCHED
\* with, before duplicate_detect made its first query, is never graded as a
\* new invoice; it takes a failed query or a failed artifact write to miss it.
DuplicateIsCaught ==
  \A j \in Jobs :
    (InOrder(j) /\ job[j].prior # {} /\ pc[j] = "done" /\ faults = 0) =>
      job[j].ctx["finalize_decision"].decision \in {"DUPLICATE", "NON_INVOICE"}

\* What the three grades of finalize_decision are meant to be: the worst grade
\* any of PO, GL and GRN gave (without any: MATCHED for a vendor known to be
\* active, else PARTIALLY_MATCHED), one grade less for a vendor that does not
\* match, and at most PARTIALLY_MATCHED under any concern.
GradeOf(ctx) ==
  LET vendor == StatusOf(ctx["vendor_validate"])
      evidence == {Rank[ctx[s].decision] :
                     s \in {t \in {"po_match", "gl_match", "grn_match"} : ctx[t] # None}}
      worst == IF evidence # {} THEN CHOOSE r \in evidence : \A q \in evidence : r <= q
               ELSE IF vendor = "ACTIVE" THEN 3 ELSE 2
      docked == IF vendor = "MISMATCH" /\ worst > 1 THEN worst - 1 ELSE worst
      concern == \/ StatusOf(ctx["matter_validate"]) = "NOT_IN_MASTER"
                 \/ UsedMockData(ctx) \/ PossibleDuplicate(ctx)
  IN  IF concern THEN Lesser(docked, 2) ELSE docked

\* finalize_decision computes that grade, whichever skills ran before it and in
\* whichever order, unless it says DUPLICATE or NON_INVOICE.
DecisionIsGraded ==
  [][\A j \in Jobs :
       LET after == job'[j].ctx["finalize_decision"]
       IN  (/\ pc[j] = "run" /\ SkillAt(j) = "finalize_decision"
            /\ <<pc'[j], job'[j]>> # <<pc[j], job[j]>> /\ pc'[j] # "failed"
            /\ after.decision \in Grades)
             => Rank[after.decision] = GradeOf(job[j].ctx)]_vars

=============================================================================
