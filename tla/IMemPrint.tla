------------------------------ MODULE IMemPrint ------------------------------
(***************************************************************************)
(* IMemMapVec::print of src/tools/stf_imem/stf_imem.hpp: the report phase  *)
(* that runs once the profiler has read the trace.  It walks the tables    *)
(* from the back of imem_mapvec_ to the front, each in ascending PC order, *)
(* writes the linear report (a gap marker "..." between non-contiguous    *)
(* entries when the sorted output is off), cuts the walk into blocks of    *)
(* contiguous entries, ranks the blocks in a multimap keyed by (count, PC) *)
(* and writes them from the largest key down, summing a cumulative count   *)
(* that it finally asserts equal to inst_count_.                           *)
(*                                                                         *)
(* Text, widths and percentages are left out: a line of the linear report  *)
(* is a map header, a gap marker or an entry; a line of the sorted report  *)
(* is a block.  An entry is referred to as <<table index, PC>>.            *)
(***************************************************************************)
EXTENDS Integers, Sequences, SequencesExt, FiniteSets, IMemData

VARIABLES
    imem_mapvec,     \* the profiler's tables (front = newest), read only here
    inst_count,      \* the profiler's inst_count_, read only here
    pphase,          \* "idle", "scan", "sorted", "finished", "skipped", "aborted"
    sort_output,     \* config.sort_output
    mi,              \* the table being walked (it, a reverse iterator)
    ei,              \* position in that table's PCs (imem_it); 0 = header due
    first,           \* first
    prev_pc,         \* prev_pc
    prev_size,       \* prev_size
    current_block,   \* current_block: entries of the open block
    block_count,     \* block_count
    sorted_map,      \* the multimap, in insertion order: [count, pc, block]
    linear,          \* lines of the linear report
    sorted_out,      \* blocks of the sorted report, in output order
    cumulative       \* cumulative_count

printVars == <<pphase, sort_output, mi, ei, first, prev_pc, prev_size,
               current_block, block_count, sorted_map, linear, sorted_out,
               cumulative>>

Entry(r) == imem_mapvec[r[1]][r[2]]

SortedPCs(t) == SetToSortSeq(DOMAIN t, <)

Init ==
    /\ pphase = "idle"
    /\ sort_output \in BOOLEAN
    /\ mi = 0
    /\ ei = 0
    /\ first = TRUE
    /\ prev_pc = 0
    /\ prev_size = 0
    /\ current_block = <<>>
    /\ block_count = 0
    /\ sorted_map = <<>>
    /\ linear = <<>>
    /\ sorted_out = <<>>
    /\ cumulative = 0

\* The header of print(): start the walk at rbegin().
Begin ==
    /\ pphase = "idle"
    /\ pphase' = "scan"
    /\ mi' = Len(imem_mapvec)
    /\ ei' = 0
    /\ UNCHANGED <<sort_output, first, prev_pc, prev_size, current_block,
                   block_count, sorted_map, linear, sorted_out, cumulative>>

\* "============ MAP n": the header of the table about to be walked.
MapHeader ==
    /\ pphase = "scan"
    /\ mi >= 1
    /\ ei = 0
    /\ linear' = Append(linear, [kind |-> "map", table |-> mi])
    /\ ei' = 1
    /\ UNCHANGED <<pphase, sort_output, mi, first, prev_pc, prev_size,
                   current_block, block_count, sorted_map, sorted_out, cumulative>>

BlockKey(blk, cnt) == [count |-> cnt, pc |-> blk[1][2], block |-> blk]

\* prev_size = cur.second.getOpcodeSize()
EntrySize(r) == OpcodeSize(Entry(r))

\* Mutation: block_count is not reset when a block is closed.
OpenCountNoReset(brk) == block_count

\* The count the entry adds to: block_count, reset to 0 when a block was
\* just closed.
OpenCount(brk) == IF brk /\ sort_output THEN 0 ELSE block_count

\* Mutation: "..." is printed at a discontinuity whether or not sorting.
GapLineAlways(brk) == IF brk THEN <<[kind |-> "gap"]>> ELSE <<>>

\* "..." at a discontinuity of the unsorted report.
GapLine(brk) == IF brk /\ ~sort_output THEN <<[kind |-> "gap"]>> ELSE <<>>

\* One entry of the inner loop: close the open block at a discontinuity
\* (or print "..." when not sorting), add the entry to the open block,
\* print its line, remember its PC and size.
ScanEntry ==
    /\ pphase = "scan"
    /\ mi >= 1
    /\ ei >= 1
    /\ ei <= Cardinality(DOMAIN imem_mapvec[mi])
    /\ LET pc    == SortedPCs(imem_mapvec[mi])[ei]
           r     == <<mi, pc>>
           break == ~first /\ prev_pc + prev_size # pc
           blk0  == IF break /\ sort_output THEN <<>> ELSE current_block
           cnt0  == OpenCount(break)
       IN  /\ first' = FALSE
           /\ sorted_map' = IF break /\ sort_output
                            THEN Append(sorted_map, BlockKey(current_block, block_count))
                            ELSE sorted_map
           /\ current_block' = IF sort_output THEN Append(blk0, r) ELSE blk0
           /\ block_count' = IF sort_output THEN cnt0 + Entry(r).count ELSE cnt0
           /\ linear' = linear \o GapLine(break) \o <<[kind |-> "item", ref |-> r]>>
           /\ prev_pc' = pc
           /\ prev_size' = EntrySize(r)
           /\ ei' = ei + 1
    /\ UNCHANGED <<pphase, sort_output, mi, sorted_out, cumulative>>

\* The inner loop is over: map_num++ and on to the next table.
NextMap ==
    /\ pphase = "scan"
    /\ mi >= 1
    /\ ei > Cardinality(DOMAIN imem_mapvec[mi])
    /\ mi' = mi - 1
    /\ ei' = 0
    /\ UNCHANGED <<pphase, sort_output, first, prev_pc, prev_size, current_block,
                   block_count, sorted_map, linear, sorted_out, cumulative>>

\* Mutation: the last open block is never added to the ranking.
EndScanNoFlush ==
    /\ pphase = "scan"
    /\ mi = 0
    /\ pphase' = IF ~sort_output THEN "finished"
                 ELSE IF sorted_map = <<>> THEN "skipped"
                 ELSE "sorted"
    /\ UNCHANGED <<sort_output, mi, ei, first, prev_pc, prev_size, current_block,
                   block_count, sorted_map, linear, sorted_out, cumulative>>

\* After the walk: close the last block; without sorting the report is
\* done; an empty ranking skips the sorted report with a warning.
EndScan ==
    /\ pphase = "scan"
    /\ mi = 0
    /\ LET sm == IF sort_output /\ current_block # <<>>
                 THEN Append(sorted_map, BlockKey(current_block, block_count))
                 ELSE sorted_map
       IN  /\ sorted_map' = sm
           /\ pphase' = IF ~sort_output THEN "finished"
                        ELSE IF sm = <<>> THEN "skipped"
                        ELSE "sorted"
    /\ UNCHANGED <<sort_output, mi, ei, first, prev_pc, prev_size, current_block,
                   block_count, linear, sorted_out, cumulative>>

\* SortedMapKey::operator<: smaller count, or equal count and larger PC.
KeyLess(a, b) == a.count < b.count \/ (a.count = b.count /\ a.pc > b.pc)

\* The element rbegin() reaches next: the largest key; among equal keys the
\* multimap keeps insertion order, so the reverse walk meets the last one.
NextRanked ==
    CHOOSE k \in DOMAIN sorted_map :
        /\ \A j \in DOMAIN sorted_map : ~KeyLess(sorted_map[k], sorted_map[j])
        /\ \A j \in DOMAIN sorted_map :
              (j > k) => KeyLess(sorted_map[j], sorted_map[k])

\* The reverse iterator over the multimap has not reached rend().
MoreRanked == sorted_map # <<>>

\* One block of the sorted report: each of its entries adds its count to
\* cumulative_count as its line is printed.
EmitBlock ==
    /\ pphase = "sorted"
    /\ MoreRanked
    /\ LET k   == NextRanked
           blk == sorted_map[k].block
       IN  /\ sorted_out' = Append(sorted_out, sorted_map[k])
           /\ cumulative' = cumulative + FoldLeft(LAMBDA acc, r : acc + Entry(r).count, 0, blk)
           /\ sorted_map' = RemoveAt(sorted_map, k)
    /\ UNCHANGED <<pphase, sort_output, mi, ei, first, prev_pc, prev_size,
                   current_block, block_count, linear>>

\* stf_assert(cumulative_count == inst_count_): a mismatch throws.
CheckCumulative ==
    /\ pphase = "sorted"
    /\ sorted_map = <<>>
    /\ pphase' = IF cumulative = inst_count THEN "finished" ELSE "aborted"
    /\ UNCHANGED <<sort_output, mi, ei, first, prev_pc, prev_size, current_block,
                   block_count, sorted_map, linear, sorted_out, cumulative>>

Next == Begin \/ MapHeader \/ ScanEntry \/ NextMap \/ EndScan \/ EmitBlock \/ CheckCumulative

-----------------------------------------------------------------------------
(***************************************************************************)
(* The abstract report, with the reports exposed once print() is over.     *)
(***************************************************************************)
Final == pphase \in {"finished", "skipped", "aborted"}

Abstract == INSTANCE IMemPrintAbstract
                WITH report_phase  <- IF Final THEN pphase ELSE "idle",
                     linear_report <- IF Final THEN linear ELSE <<>>,
                     sorted_report <- IF Final THEN sorted_out ELSE <<>>

-----------------------------------------------------------------------------
(***************************************************************************)
(* Properties                                                              *)
(***************************************************************************)
TypeOK ==
    /\ pphase \in {"idle", "scan", "sorted", "finished", "skipped", "aborted"}
    /\ sort_output \in BOOLEAN
    /\ mi \in 0 .. Len(imem_mapvec)
    /\ first \in BOOLEAN
    /\ prev_size \in {0, 2, 4}
    /\ \A b \in Range(sorted_map) \cup Range(sorted_out) :
          b.count = Abstract!BlockTotal(b.block) /\ b.pc = b.block[1][2]
    /\ cumulative \in Nat

\* The internal-consistency assertion at the end of the sorted report: no
\* block was lost, cumulative_count reaches inst_count_ and print() does
\* not throw.
ReportAssertionHolds == pphase # "aborted"

\* print() implements its abstract specification: once it returns or
\* throws, the linear report, the ranked blocks and the outcome of the
\* final assertion are those the tables determine, whichever of the two
\* reports was asked for.
ImplementsAbstractReport == Abstract!Spec

\* The specification: the linear report emits the tables from the most
\* recently created (the front of imem_mapvec_) to the first created.
TablesNewestFirst ==
    LET hs == SelectSeq(linear, LAMBDA l : l.kind = "map")
    IN  \A i, j \in DOMAIN hs : i < j => hs[i].table < hs[j].table

=============================================================================
