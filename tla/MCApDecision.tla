----------------------------- MODULE MCApDecision -----------------------------
(***************************************************************************)
(* Instances of ApDecision for TLC: two jobs over two items, so a job may  *)
(* re-run the other's item, copy its invoice number or be of its vendor.   *)
(* The first job runs the default pipeline and meets the answers below one *)
(* at a time; the second may also ask for a few skills, and what it leaves *)
(* behind is what the first one may find.                                  *)
(***************************************************************************)
EXTENDS ApDecision

CONSTANTS j1, j2, i1, i2

GoodInvoice == [other |-> FALSE, number |-> 1, vendor |-> 1, poNumber |-> TRUE, total |-> 100,
                lines |-> 2, matter |-> TRUE]
OtherVendor == [GoodInvoice EXCEPT !.vendor = 2]
BareInvoice == [GoodInvoice EXCEPT !.number = 5, !.lines = 0, !.matter = FALSE]
MCDocumentsOf ==
  [i \in Items |-> IF i = i1 THEN {GoodInvoice}
                  ELSE {OtherVendor, BareInvoice, [BareInvoice EXCEPT !.other = TRUE]}]

GoodPo == [sim |-> 100, total |-> 101, origin |-> "live"]
GoodGrn == [sim |-> 100, hits |-> 2, total |-> TRUE, offline |-> FALSE]
GoodWorld == [source |-> "unset", resource |-> "form", force |-> TRUE, po |-> GoodPo, gl |-> 2,
              grn |-> GoodGrn, master |-> None, matter |-> "live", cloud |-> {},
              short |-> FALSE, instance |-> TRUE]

MCPos == {GoodPo, [GoodPo EXCEPT !.sim = 60], [GoodPo EXCEPT !.total = 150],
          [GoodPo EXCEPT !.origin = "offline"]}
\* One answer off at a time, and a pair.
ManyWorlds ==
  {[GoodWorld EXCEPT !.po = p] : p \in MCPos} \union
  {[GoodWorld EXCEPT !.matter = "unknown", !.gl = 1],
   [GoodWorld EXCEPT !.cloud = {"vendor"}]}
FewWorlds ==
  {[GoodWorld EXCEPT !.resource = "sap"],
   [GoodWorld EXCEPT !.source = "sap", !.force = FALSE],
   [GoodWorld EXCEPT !.po = None, !.grn = None, !.master = [status |-> "ACTIVE", offline |-> TRUE]]}
MCWorldsOf == [j \in Jobs |-> IF j = j1 THEN ManyWorlds ELSE FewWorlds]

MCDefaultOrder == <<"extract_invoice", "po_match", "gl_match", "grn_match", "duplicate_detect",
                    "vendor_validate", "matter_validate", "backorder_detect",
                    "finalize_decision", "workflow_move_next">>
ASSUME OrderFits == OrderDecides /\ OrderJudges
MCExplicitPlans ==
  [j \in Jobs |-> IF j = j1 THEN {}
                  ELSE {<<"extract_invoice", "po_lookup_sap">>,
                        <<"vendor_validate", "finalize_decision">>, <<"workflow_move_next">>}]
\* The planner repeats a skill and puts the move first.
MCProposals == {<<"workflow_move_next", "extract_invoice", "extract_invoice", "vendor_validate",
                  "finalize_decision">>}
=============================================================================
