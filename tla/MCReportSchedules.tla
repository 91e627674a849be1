--------------------------- MODULE MCReportSchedules ---------------------------
(* Friday to Tuesday, which is the second of the month.  One change report      *)
(* keeps a page up to date, another posts; twin is a second entry for scope's   *)
(* project, with posts of its own.  One PI team refreshes the page once a day   *)
(* and one polls.                                                               *)
EXTENDS ReportSchedules

CONSTANTS scope, twin, rollup, standup, hygiene, pi, polled, monthly, page1, project, all

MCPageOf      == [r \in PageReports |-> IF r \in {twin, rollup} THEN NewPost ELSE page1]
MCKeyOf       == [r \in ChangeReports |-> IF r = rollup THEN all ELSE project]
MCDeployments == {{scope, twin}, {rollup}, {pi, polled}, {standup, hygiene, monthly}}
=============================================================================
