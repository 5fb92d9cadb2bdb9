----------------------------- MODULE IMemReport -----------------------------
(***************************************************************************)
(* A whole run of stf_imem on a regular trace: IMem reads the trace, then  *)
(* IMemPrint writes the reports from its single table.                     *)
(***************************************************************************)
EXTENDS IMem

VARIABLES pphase, sort_output, mi, ei, first, prev_pc, prev_size,
          current_block, block_count, sorted_map, linear, sorted_out, cumulative

P == INSTANCE IMemPrint WITH imem_mapvec <- <<imem>>

printVars == <<pphase, sort_output, mi, ei, first, prev_pc, prev_size,
               current_block, block_count, sorted_map, linear, sorted_out,
               cumulative>>

allVars == <<vars, printVars>>

ReportInit == Init /\ P!Init

\* print() runs only once processTrace() has returned.
ReportNext ==
    \/ Next /\ UNCHANGED printVars
    \/ phase = "done" /\ P!Next /\ UNCHANGED vars

\* Only safety is checked: every loop of processTrace() and print() is
\* over a finite trace or table, so no fairness is assumed.
ReportSpec == ReportInit /\ [][ReportNext]_allVars

PrintTypeOK == P!TypeOK

\* See IMemPrint: print() implements the one-step abstract report, whose
\* final assertion fails exactly when the block totals miss inst_count_.
ImplementsAbstractReport == P!ImplementsAbstractReport

\* See IMemPrint: print() does not abort on its cumulative-count assertion.
ReportAssertionHolds == P!ReportAssertionHolds

=============================================================================
