-------------------------- MODULE MCReportWindows --------------------------
(* ReportWindows from days that precede the ends of months and years: of a   *)
(* leap year, of a century that is one and of one that is not, and of the    *)
(* last year there is.                                                       *)
EXTENDS ReportWindows

MCStarts == {<<1900, 2, 23, 4>>, <<1999, 12, 27, 0>>, <<2000, 2, 26, 5>>, <<2023, 12, 28, 3>>,
             <<2024, 2, 26, 0>>, <<2024, 4, 27, 5>>, <<9999, 12, 27, 0>>}
=============================================================================
