--------------------------- MODULE MCReportExporter ---------------------------
(* Small instances of the report-exporter for TLC. *)
EXTENDS ReportExporter

CONSTANTS r1, r2, a, b

TwoRuns == {r1, r2}

Output(n, ok) == [name |-> n, supported |-> ok]

\* Two outputs, a name given twice, and an output of an unsupported type.
MCConfigs == {<<Output(a, TRUE), Output(b, TRUE)>>,
              <<Output(a, TRUE), Output(a, TRUE)>>,
              <<Output(a, TRUE), Output(b, FALSE)>>}

\* A report without rulesets; rules that fail twice, warn, fail and pass together.
MCReports == {<< >>,
              << << <<"Failed", "Failed">>, <<"Warning", "Failed", "Passed">> >>,
                 << <<"Errored">> >> >>}
=============================================================================
