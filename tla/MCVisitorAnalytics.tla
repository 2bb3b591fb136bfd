-------------------------- MODULE MCVisitorAnalytics --------------------------
(***************************************************************************)
(* Visitor analytics, in one small instance: the races of visits and       *)
(* flushes (VisitorBuffer), and what the dashboard makes of the sessions   *)
(* (VisitorReports).  The two abstract the same rows differently, so each  *)
(* is explored with the other at rest.                                     *)
(***************************************************************************)
EXTENDS VisitorBuffer, VisitorReports, TLC

VARIABLE component

AnalyticsInit == VisitInit /\ ReportInit /\ component \in {"buffer", "reports"}

AnalyticsNext ==
  /\ UNCHANGED component
  /\ \/ component = "buffer" /\ VisitNext /\ UNCHANGED reportVars
     \/ component = "reports" /\ ReportNext /\ UNCHANGED visitVars

AnalyticsSpec == AnalyticsInit /\ [][AnalyticsNext]_<<visitVars, reportVars, component>>

Alike == Permutations(Visit) \union Permutations(Flusher) \union Permutations(Visitor)
=============================================================================
