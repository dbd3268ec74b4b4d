---------------------------- MODULE MCAlertRules ----------------------------
(* Instances of AlertRules for TLC.                                        *)
EXTENDS AlertRules, TLC

Rule(e, f, k, l, a) == [expr |-> e, for |-> f, keep |-> k, labels |-> l, annotations |-> a]

OnePromRule == {"p"}
MCPromContents == {
  [g |-> [alerts |-> [x |-> Rule("pe", "pf", "pk", [sev |-> "p", team |-> "p"], [s |-> "p"])],
          records |-> <<"pr1", "pr2">>],
   h |-> [alerts |-> <<>>, records |-> <<"pr3">>]]}

MCAlertMaps == {"ad", "ac"}
MCRecordMaps == {"rd", "rc"}
MCVmRules == {"v1"}
MCClusterOf == [ad |-> "", ac |-> "c1", rd |-> "", rc |-> "c1", v1 |-> "c1"]

\* A rule that patches another, one that stands alone, an empty group.
MCAlertContents == {
  [g |-> [x |-> Rule(None, "f1", None, [sev |-> "1"], None)]],
  [g |-> [x |-> Rule("e2", None, "k2", [team |-> "2"], [s |-> "2", d |-> "2"])],
   h |-> [y |-> Rule("e3", None, None, [sev |-> "3"], None)]]}

UnlabelledAlertContents == {[h |-> [y |-> Rule("e4", None, None, None, None)]]}

MCLabelNames == {"sev", "team", "s", "d", "alertgroup"}
MCLabelValues == {"p", "1", "2", "3", "g", "h"}

MCRecordContents == {[g |-> <<"r1">>], [h |-> <<"r2">>, i |-> <<"r3">>]}
=============================================================================
