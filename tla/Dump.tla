-------------------------------- MODULE Dump --------------------------------
(***************************************************************************)
(* The trace dumper: processTrace_ of src/tools/stf_dump/stf_dump.cpp and  *)
(* the start/end check of its parseCommandLine.  The trace is a function   *)
(* from instruction index (1-based, as inst.index()) to the fields the     *)
(* dump loop tests; the output is a sequence of abstract lines: a PID      *)
(* label, or an instruction line with the marker printed after its PC and  *)
(* whether its records (memory accesses, operands, events...) follow.      *)
(* The disassembler the loop prints through is the MavisDisassembler of    *)
(* src/include/disassemblers/mavis_disassembler.hpp: every printed opcode  *)
(* goes through its decoder, and its destructor warns when the decoder met *)
(* an opcode it does not know.  Text, widths, the header and the           *)
(* disassembly text itself are left out.                                   *)
(***************************************************************************)
EXTENDS Integers, Sequences, SequencesExt

CONSTANTS
    TraceLen,    \* number of instructions in the trace
    Insts,       \* records [ids, valid, taken, trap, known, uops] an
                 \* instruction may be: known = the decoder knows its
                 \* opcode, uops = the same for each of its micro-ops
    IdMax,       \* std::numeric_limits<uint32_t>::max()
    StartInsts,  \* values of -s (config.start_inst) to try
    EndInsts     \* values of -e (config.end_inst) to try; 0 = no end

ASSUME TraceLen \in Nat /\ StartInsts \subseteq Nat /\ EndInsts \subseteq Nat

VARIABLES
    trace,       \* the instructions of the trace file
    start_inst,  \* config.start_inst
    end_inst,    \* config.end_inst
    concise,     \* config.concise_mode
    pos,         \* index of the instruction the iterator is at
    prev,        \* <<hw_tid_prev, pid_prev, tid_prev>>
    out,         \* lines written to std::cout
    err,         \* indices reported invalid on std::cerr
    phase,       \* "parse", "dump", "done" or "abort"
    unknown,     \* the decoder's hasUnknownDisasm()
    warned       \* ~MavisDisassembler printed its unknown-instruction warning

vars == <<trace, start_inst, end_inst, concise, pos, prev, out, err, phase,
          unknown, warned>>

Indices == 1 .. TraceLen

\* Mutation: the previous ids start at 0 instead of the sentinel.
IdsUnsetZero == <<0, 0, 0>>

\* hw_tid_prev, pid_prev, tid_prev = std::numeric_limits<uint32_t>::max().
IdsUnset == <<IdMax, IdMax, IdMax>>

Init ==
    /\ trace \in [Indices -> Insts]
    /\ start_inst \in StartInsts
    /\ end_inst \in EndInsts
    /\ concise \in BOOLEAN
    /\ pos = 0
    /\ prev = IdsUnset
    /\ out = <<>>
    /\ err = <<>>
    /\ phase = "parse"
    /\ unknown = FALSE
    /\ warned = FALSE

\* Mutation: the reader is seeked past start_inst instructions.
StartSkipLate == start_inst

\* start_inst ? start_inst - 1 : 0 instructions are skipped by the seek.
StartSkip == IF start_inst # 0 THEN start_inst - 1 ELSE 0

\* stf_assert(!end_inst || end_inst >= start_inst), then the iterator is
\* positioned after the skipped instructions (at the end when the trace
\* is shorter).
ParseCommandLine ==
    /\ phase = "parse"
    /\ unknown = FALSE
    /\ warned = FALSE
    /\ IF end_inst = 0 \/ end_inst >= start_inst
       THEN phase' = "dump" /\ pos' = Min({StartSkip, TraceLen}) + 1
       ELSE phase' = "abort" /\ pos' = pos
    /\ UNCHANGED <<trace, start_inst, end_inst, concise, prev, out, err,
                   unknown, warned>>

\* A PID label is due when any of the three ids differs from the previous.
LabelDue(ids) == ids # prev

\* What follows the PC: the branch target of a taken branch; in concise
\* mode a FAULT/INTERRUPT tag; otherwise blank padding.
InstMarker(i) ==
    IF i.taken THEN "target"
    ELSE IF concise /\ i.trap THEN "trap"
    ELSE "blank"

\* config.end_inst && inst.index() >= config.end_inst: leave the loop.
AtEnd(k) == end_inst # 0 /\ k >= end_inst

\* Mutation: the micro-ops of the instruction are not decoded.
DecodedInstOnly(i) == <<i.known>>

\* Whether the decoder knows each opcode printOpcodeWithDisassembly
\* decodes for an instruction: its own, then, unless concise, those of
\* its micro-ops.
Decoded(i) == <<i.known>> \o (IF concise THEN <<>> ELSE i.uops)

\* printDisassembly_: decoder_.decode(opcode) for each opcode, which
\* latches hasUnknownDisasm() on one the decoder does not know.
Disassemble(u, known) == u \/ \E j \in DOMAIN known : ~known[j]

\* processTrace_ returns and destroys its disassembler, whose destructor
\* warns on std::cerr when the decoder met an unknown opcode.
Leave(u) == phase' = "done" /\ warned' = u

\* One iteration of the dump loop: the invalid diagnostic, the PID label
\* when not concise and an id changed, the previous ids, the instruction
\* line with its records unless concise, then the end test.
DumpInst ==
    /\ phase = "dump"
    /\ pos \in Indices
    /\ LET i     == trace[pos]
           label == IF ~concise /\ LabelDue(i.ids)
                    THEN <<[kind |-> "label", ids |-> i.ids]>> ELSE <<>>
       IN  /\ err' = IF i.valid THEN err ELSE Append(err, pos)
           /\ out' = out \o label \o <<[kind |-> "inst", index |-> pos,
                                        marker |-> InstMarker(i),
                                        records |-> ~concise]>>
           /\ prev' = i.ids
           /\ unknown' = Disassemble(unknown, Decoded(i))
    /\ pos' = pos + 1
    /\ IF AtEnd(pos) THEN Leave(unknown')
       ELSE phase' = "dump" /\ UNCHANGED warned
    /\ UNCHANGED <<trace, start_inst, end_inst, concise>>

\* it == stf_reader.end(): the trace is exhausted.
EndOfTrace ==
    /\ phase = "dump"
    /\ pos \notin Indices
    /\ Leave(unknown)
    /\ UNCHANGED <<trace, start_inst, end_inst, concise, pos, prev, out, err,
                   unknown>>

Next == ParseCommandLine \/ DumpInst \/ EndOfTrace

Spec == Init /\ [][Next]_vars

-----------------------------------------------------------------------------
(***************************************************************************)
(* Properties                                                              *)
(***************************************************************************)
InstLines == SelectSeq(out, LAMBDA l : l.kind = "inst")

\* The window the options ask for: from the start_inst-th instruction (the
\* first when -s is 0 or 1) up to the end_inst-th (the last when -e is 0).
Window ==
    LET lo == IF start_inst = 0 THEN 1 ELSE start_inst
        hi == IF end_inst = 0 THEN TraceLen ELSE Min({end_inst, TraceLen})
    IN  lo .. hi

\* The seek by start_inst - 1 and the end test after printing (lines 154,
\* 259) together dump every instruction of the window exactly once, in
\* order, and nothing else; every invalid one of them, and only those, is
\* reported on std::cerr.
DumpCoversWindow ==
    phase = "done" =>
        /\ [k \in DOMAIN InstLines |-> InstLines[k].index]
             = SetToSortSeq(Window, <)
        /\ err = SetToSortSeq({k \in Window : ~trace[k].valid}, <)

\* The warning of ~MavisDisassembler (mavis_disassembler.hpp 46-57) at the
\* end of the dump is printed exactly when an instruction of the window,
\* or, outside concise mode, one of its micro-ops, has an opcode the
\* decoder does not know: what the dump did not print (before -s, after
\* -e, micro-ops in concise mode) never raises it.
UnknownWarningMatchesWindow ==
    phase = "done" =>
        (warned <=> \E k \in Window :
                        \/ ~trace[k].known
                        \/ ~concise /\ \E j \in DOMAIN trace[k].uops : ~trace[k].uops[j])

\* Outside concise mode, the PID labels attribute every instruction to its
\* thread: the last label before an instruction line carries that
\* instruction's ids, and a label is printed only when the ids change.
\* The one exception is the sentinel of lines 150-152: instructions at
\* the start of the dump whose three ids are all UINT32_MAX get no label.
LabelsAttributeThreads ==
    ~concise =>
        \A k \in DOMAIN out :
            LET before == {j \in 1 .. k - 1 : out[j].kind = "label"}
            IN  /\ out[k].kind = "inst" =>
                     IF before = {}
                     THEN trace[out[k].index].ids = <<IdMax, IdMax, IdMax>>
                     ELSE out[Max(before)].ids = trace[out[k].index].ids
                /\ (out[k].kind = "label" /\ before # {}) =>
                     out[Max(before)].ids # out[k].ids

=============================================================================
