-------------------------- MODULE IMemPrintAbstract --------------------------
(***************************************************************************)
(* What IMemMapVec::print promises, in one step: from the profiler's       *)
(* tables it writes the linear report (a map header per table, newest      *)
(* table last in imem_mapvec_ first, entries in PC order, a gap marker     *)
(* between non-contiguous entries when not sorting) and, when sorting,    *)
(* the ranked blocks of contiguous entries, checking that their counts    *)
(* add up to inst_count_.  IMemPrint is shown to implement this module.    *)
(***************************************************************************)
EXTENDS Integers, Sequences, SequencesExt, FiniteSets, IMemData

VARIABLES
    imem_mapvec,     \* the profiler's tables (front = newest)
    inst_count,      \* the profiler's inst_count_
    sort_output,     \* config.sort_output
    report_phase,    \* "idle", then "finished", "skipped" or "aborted"
    linear_report,   \* lines of the linear report
    sorted_report    \* blocks of the sorted report, in output order

reportVars == <<sort_output, report_phase, linear_report, sorted_report>>

Entry(r) == imem_mapvec[r[1]][r[2]]

SortedPCs(t) == SetToSortSeq(DOMAIN t, <)

\* The table walked k-th: from the back of the vector to the front.
Walked(k) == Len(imem_mapvec) - k + 1

\* All entries <<table, PC>> in the order the walk meets them.
WalkOrder ==
    FlattenSeq([k \in 1 .. Len(imem_mapvec) |->
                  [j \in 1 .. Cardinality(DOMAIN imem_mapvec[Walked(k)]) |->
                      <<Walked(k), SortedPCs(imem_mapvec[Walked(k)])[j]>>]])

Contiguous(r, s) == r[2] + OpcodeSize(Entry(r)) = s[2]

\* Positions in the walk where a new block starts.
BlockStarts ==
    {k \in 1 .. Len(WalkOrder) : k = 1 \/ ~Contiguous(WalkOrder[k - 1], WalkOrder[k])}

\* The lines of walk position k: a gap marker when it starts a new block
\* and the output is not sorted, then the entry.
WalkLines(k) ==
    IF k \in BlockStarts /\ k > 1 /\ ~sort_output
    THEN <<[kind |-> "gap"], [kind |-> "item", ref |-> WalkOrder[k]]>>
    ELSE <<[kind |-> "item", ref |-> WalkOrder[k]]>>

\* The linear report without its map headers.
ExpectedLinearBody == FlattenSeq([k \in 1 .. Len(WalkOrder) |-> WalkLines(k)])

\* The linear report: each table's header, then the lines of its entries.
ExpectedLinear ==
    FlattenSeq([t \in 1 .. Len(imem_mapvec) |->
        <<[kind |-> "map", table |-> Walked(t)]>>
        \o FlattenSeq(LET ks == SetToSortSeq({k \in 1 .. Len(WalkOrder) :
                                               WalkOrder[k][1] = Walked(t)}, <)
                      IN  [j \in DOMAIN ks |-> WalkLines(ks[j])])])

\* The blocks: maximal runs of contiguous entries of the walk.
ExpectedBlocks ==
    {LET nxt == {j \in BlockStarts : j > k}
         e   == IF nxt = {} THEN Len(WalkOrder) ELSE Min(nxt) - 1
     IN  SubSeq(WalkOrder, k, e) : k \in BlockStarts}

BlockTotal(blk) == FoldLeft(LAMBDA acc, r : acc + Entry(r).count, 0, blk)

\* The blocks with their totals and first PCs, as the ranking keys them.
RankedBlocks ==
    {[count |-> BlockTotal(b), pc |-> b[1][2], block |-> b] : b \in ExpectedBlocks}

\* The orders the sorted report may list them in: by descending total,
\* equal totals by ascending first PC (equal keys in either order).
Rankings ==
    {s \in [1 .. Cardinality(RankedBlocks) -> RankedBlocks] :
        /\ Range(s) = RankedBlocks
        /\ \A i, j \in DOMAIN s :
              i < j => \/ s[i].count > s[j].count
                       \/ s[i].count = s[j].count /\ s[i].pc <= s[j].pc}

AllCounted == MapThenSumSet(LAMBDA b : b.count, RankedBlocks) = inst_count

Init ==
    /\ sort_output \in BOOLEAN
    /\ report_phase = "idle"
    /\ linear_report = <<>>
    /\ sorted_report = <<>>

\* print(): the linear report; then, when sorting, nothing more for an
\* empty profile, else the ranked blocks and the final assertion.
Report ==
    /\ report_phase = "idle"
    /\ \/ /\ report_phase' = "finished"
          /\ ~sort_output
          /\ sorted_report' = <<>>
       \/ /\ report_phase' = "skipped"
          /\ sort_output /\ RankedBlocks = {}
          /\ sorted_report' = <<>>
       \/ /\ report_phase' \in {"finished", "aborted"}
          /\ sort_output /\ RankedBlocks # {}
          /\ report_phase' = IF AllCounted THEN "finished" ELSE "aborted"
          /\ sorted_report' \in Rankings
    /\ linear_report' = ExpectedLinear
    /\ UNCHANGED sort_output

\* The profiler's steps change the tables, never the report.
Spec == Init /\ [][Report]_reportVars

=============================================================================
