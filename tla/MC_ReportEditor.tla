-------------------------- MODULE MC_ReportEditor --------------------------
EXTENDS ReportEditor

MCReports == {"r1", "r2"}
=============================================================================
