------------------------------- MODULE MC_Dump -------------------------------
EXTENDS Dump

\* Two threads of one process, a third process, a thread whose three ids
\* are all IdMax (the value of the sentinel), and instructions that are
\* invalid, taken branches or traps, unknown to the decoder or with a
\* micro-op, known or not.
MC_Insts ==
    {[ids |-> <<0, 0, 0>>, valid |-> TRUE,  taken |-> FALSE, trap |-> FALSE,
      known |-> TRUE,  uops |-> <<>>],
     [ids |-> <<0, 0, 1>>, valid |-> FALSE, taken |-> TRUE,  trap |-> FALSE,
      known |-> FALSE, uops |-> <<>>],
     [ids |-> <<0, 1, 1>>, valid |-> TRUE,  taken |-> FALSE, trap |-> TRUE,
      known |-> TRUE,  uops |-> <<FALSE>>],
     [ids |-> <<7, 7, 7>>, valid |-> TRUE,  taken |-> FALSE, trap |-> FALSE,
      known |-> TRUE,  uops |-> <<TRUE>>]}

=============================================================================
