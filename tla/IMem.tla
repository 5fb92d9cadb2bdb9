-------------------------------- MODULE IMem --------------------------------
(***************************************************************************)
(* The footprint profiler for regular traces: the read loop of             *)
(* IMemMapVecIntf::processTrace_ together with IMem::count_impl of         *)
(* src/tools/stf_imem/stf_imem.hpp.  A regular trace only ever uses the    *)
(* first table of imem_mapvec_ (itv_ never moves), so the table is one     *)
(* function from PC to entry.                                              *)
(*                                                                         *)
(* The trace is not given in advance: every step reads one event the       *)
(* reader may produce, and the reader may be exhausted at any point.       *)
(***************************************************************************)
EXTENDS Integers, Sequences, FiniteSets, FiniteSetsExt, TLC, IMemData, InstEvents

CONSTANTS
    WarmupCount,     \* STFImemConfig::warmup_count
    RunLengthCount,  \* STFImemConfig::runlength_count
    KeepCounts,      \* values of STFImemConfig::keep_count to try
    MaxRead          \* bound: most events read from the trace

ASSUME {WarmupCount, RunLengthCount, MaxRead} \subseteq Nat /\ KeepCounts \subseteq Nat

VARIABLES
    imem,            \* the table *itv_: PC -> IMemData
    inst_count,      \* inst_count_
    max_count,       \* max_count_
    max_warmup,      \* max_warmup_
    max_run_length,  \* max_run_length_
    read,            \* events taken from the reader so far
    phase,           \* "counting" while the read loop runs, then "done"
    keep_count,      \* config.keep_count
    recorded         \* ghost: per PC, the events counted into its entry

vars == <<imem, inst_count, max_count, max_warmup, max_run_length,
          read, phase, keep_count, recorded>>

Init ==
    /\ imem = [pc \in {} |-> 0]
    /\ inst_count = 0
    /\ max_count = 0
    /\ max_warmup = 0
    /\ max_run_length = 0
    /\ read = 0
    /\ phase = "counting"
    /\ keep_count \in KeepCounts
    /\ recorded = [pc \in PCs |-> <<>>]

(***************************************************************************)
(* count_impl(config, inst), one disjunct per branch of its if/else.       *)
(***************************************************************************)
\* Mutation: the warm-up window test is off by one.
InWarmupInclusive == inst_count <= WarmupCount

InWarmup == inst_count < WarmupCount

\* Key not found: insert a new entry, through the createIMem_ overload for
\* a load/store, a taken branch, or anything else.
InsertNew(e) ==
    LET op   == e.opcode
        is16 == op \in Opcode16
        new  == IF IsLoadStoreOp(op)
                THEN NewIMemData(is16, op, InWarmup, FALSE, FALSE, InstAddr(e))
                ELSE IF e.taken
                THEN NewIMemData(is16, op, InWarmup, TRUE, TRUE, 0)
                ELSE NewIMemData(is16, op, InWarmup, FALSE, FALSE, 0)
    IN  /\ e.pc \notin DOMAIN imem
        /\ imem' = imem @@ (e.pc :> new)
        /\ recorded' = [recorded EXCEPT ![e.pc] = Append(@, e)]
        /\ UNCHANGED <<max_count, max_warmup, max_run_length>>

\* Key and opcode found: incCount_, then incWarmup_ or incRunLength_,
\* then nextStride_ for a load/store or nextBranchHistory_ for a taken branch.
MatchExisting(e) ==
    LET d   == imem[e.pc]
        d1  == [d EXCEPT !.count = @ + 1]
        d2  == IF InWarmup THEN [d1 EXCEPT !.warmup = @ + 1]
               ELSE IF inst_count < RunLengthCount
                    THEN [d1 EXCEPT !.runlength = @ + 1]
                    ELSE d1
        d3  == IF IsLoadStoreOp(e.opcode) THEN NextStride(d2, InstAddr(e))
               ELSE IF e.taken THEN NextBranchHistory(d2, TRUE)
               ELSE d2
    IN  /\ e.pc \in DOMAIN imem
        /\ d.opcode = e.opcode
        /\ imem' = [imem EXCEPT ![e.pc] = d3]
        /\ max_count' = RaiseMax(max_count, d3.count)
        /\ max_warmup' = IF InWarmup THEN RaiseMax(max_warmup, d3.warmup) ELSE max_warmup
        /\ max_run_length' = IF ~InWarmup /\ inst_count < RunLengthCount
                             THEN RaiseMax(max_run_length, d3.runlength)
                             ELSE max_run_length
        /\ recorded' = [recorded EXCEPT ![e.pc] = Append(@, e)]

\* Mutation: a mismatching opcode replaces the stored entry.
OpcodeMismatchReplaces(e) ==
    /\ e.pc \in DOMAIN imem
    /\ imem[e.pc].opcode # e.opcode
    /\ imem' = [imem EXCEPT ![e.pc] = NewIMemData(e.opcode \in Opcode16, e.opcode,
                                                  InWarmup, FALSE, FALSE, 0)]
    /\ UNCHANGED <<max_count, max_warmup, max_run_length, recorded>>

\* Key found with a different opcode: only a warning is printed.
OpcodeMismatch(e) ==
    /\ e.pc \in DOMAIN imem
    /\ imem[e.pc].opcode # e.opcode
    /\ UNCHANGED <<imem, max_count, max_warmup, max_run_length, recorded>>

CountImpl(e) == InsertNew(e) \/ MatchExisting(e) \/ OpcodeMismatch(e)

(***************************************************************************)
(* The body of the read loop of processTrace_.                             *)
(***************************************************************************)
\* An event dropped by the thread-id filters or because it faulted.
SkipEvent ==
    /\ phase = "counting"
    /\ read < MaxRead
    /\ \E hw, pid, tid \in ThreadIds, fault \in BOOLEAN :
          ~Admitted(hw, pid, tid, fault)
    /\ read' = read + 1
    /\ UNCHANGED <<imem, inst_count, max_count, max_warmup, max_run_length,
                   phase, keep_count, recorded>>

\* Mutation: the cap is tested on inst_count_ before the increment.
KeepReachedBefore(n) == n - 1 >= keep_count

\* inst_count_ >= config.keep_count, tested on the incremented count.
KeepReached(n) == n >= keep_count

\* An admitted event: count_impl, ++inst_count_, and the keep_count break.
CountEvent ==
    /\ phase = "counting"
    /\ read < MaxRead
    /\ \E e \in CountedEvents : CountImpl(e)
    /\ inst_count' = inst_count + 1
    /\ read' = read + 1
    /\ phase' = IF KeepReached(inst_count + 1) THEN "done" ELSE "counting"
    /\ UNCHANGED keep_count

\* The reader (or the region iterator) has no more events.
EndOfTrace ==
    /\ phase = "counting"
    /\ phase' = "done"
    /\ UNCHANGED <<imem, inst_count, max_count, max_warmup, max_run_length,
                   read, keep_count, recorded>>

Next == SkipEvent \/ CountEvent \/ EndOfTrace

Spec == Init /\ [][Next]_vars

-----------------------------------------------------------------------------
(***************************************************************************)
(* Properties                                                              *)
(***************************************************************************)
TypeOK ==
    /\ DOMAIN imem \subseteq PCs
    /\ \A pc \in DOMAIN imem : imem[pc] \in IMemDataType(Opcodes, Addrs \cup {0}, MaxRead)
    /\ inst_count \in 0 .. MaxRead
    /\ {max_count, max_warmup, max_run_length} \subseteq 0 .. MaxRead
    /\ read \in 0 .. MaxRead
    /\ phase \in {"counting", "done"}
    /\ keep_count \in KeepCounts
    /\ recorded \in [PCs -> Seq(CountedEvents)]

SumOver(field) == MapThenSumSet(LAMBDA pc : imem[pc][field], DOMAIN imem)

\* The entries read back from a ring in chronological order: the m slots
\* written last, ending just before the write cursor.
RingWindow(ring, idx, m) == [j \in 1 .. m |-> ring[(idx - m + j - 1) % MaxLHist]]

LastN(s, m) == SubSeq(s, Len(s) - m + 1, Len(s))

\* Warm-up accounting (count_impl's in_warmup test, the constructor and
\* incWarmup_/incRunLength_): the warm-up counts of all entries together
\* never exceed the warm-up budget nor the events admitted, and no single
\* execution is counted both as warm-up and as run length.
WarmupWithinBudget ==
    /\ SumOver("warmup") <= Min({inst_count, WarmupCount})
    /\ \A pc \in DOMAIN imem : imem[pc].warmup + imem[pc].runlength <= imem[pc].count

\* Local stride history (nextStride and its ring cursor): for every load or
\* store PC, the stride ring read back from the cursor holds the last
\* MAX_LHIST_ differences between the addresses its consecutive executions
\* accessed (the address the specification names: the first access).
StrideHistoryIsRecent ==
    \A pc \in DOMAIN imem :
        IsLoadStoreOp(imem[pc].opcode) =>
            LET as == [i \in 1 .. Len(recorded[pc]) |-> FirstAddr(recorded[pc][i])]
                n  == Len(as)
                m  == Min({n - 1, MaxLHist})
                diffs == [i \in 1 .. n - 1 |-> as[i + 1] - as[i]]
            IN  /\ imem[pc].last_address = as[n]
                /\ RingWindow(imem[pc].recent_strides, imem[pc].recent_strides_idx, m)
                     = LastN(diffs, m)

\* Local branch history (nextBranchHistory): for every branch PC, the
\* history ring read back from the cursor holds the taken/not-taken
\* outcomes of its last MAX_LHIST_ executions.
BranchHistoryIsRecent ==
    \A pc \in DOMAIN imem :
        OpKind[imem[pc].opcode] = "branch" =>
            LET outs == [i \in 1 .. Len(recorded[pc]) |-> recorded[pc][i].taken]
                m    == Min({Len(outs), MaxLHist})
            IN  RingWindow(imem[pc].branch_lhr, imem[pc].branch_lhr_idx, m)
                  = LastN(outs, m)

\* What the local branch history really holds (hazard of lines 753-754:
\* count_impl classifies by isTakenBranch(), so nextBranchHistory_ only
\* ever sees taken executions): an entry is a branch entry exactly when
\* one of its executions was taken, its cursor has advanced once per taken
\* execution, and the slots read back from the cursor are all "taken".
\* The not-taken outcomes BranchHistoryIsRecent asks for never get in.
BranchHistoryRecordsTakenOnly ==
    \A pc \in DOMAIN imem :
        LET d == imem[pc]
            n == Len(SelectSeq(recorded[pc], LAMBDA e : e.taken))
            m == Min({n, MaxLHist})
        IN  /\ d.is_branch = (n > 0)
            /\ d.branch_lhr_idx = n % MaxLHist
            /\ RingWindow(d.branch_lhr, d.branch_lhr_idx, m) = [j \in 1 .. m |-> TRUE]

\* The keep_count cap of processTrace_ (line 703) is tested after
\* ++inst_count_: the profile never holds more than keep_count
\* instructions, except that keep_count = 0 still lets the first admitted
\* instruction in, and the read loop stops as soon as the cap is reached.
KeepCountCapsProfile ==
    LET cap == Max({keep_count, 1})
    IN  /\ inst_count <= cap
        /\ inst_count = cap => phase = "done"

\* The comment on max_count_ (line 232) says it is the "Maximum single
\* instruction count", and the sorted report prints it as "Max count"
\* (line 631): it should be the largest count of any entry.  incCount_
\* (line 469) is its only writer, and createIMem_ never calls it, so an
\* entry executed once never raises it.
MaxCountIsLargestCount ==
    max_count = Max({0} \cup {imem[pc].count : pc \in DOMAIN imem})

\* An entry, once created, is never replaced or dropped, and it changes
\* only in a step that counts an execution of its own opcode at its PC: an
\* opcode mismatch (count_impl's last branch) leaves it exactly as it was.
EntriesChangeOnlyByOwnExecutions ==
    [][\A pc \in DOMAIN imem :
          /\ pc \in DOMAIN imem'
          /\ imem'[pc] # imem[pc] =>
                /\ Len(recorded'[pc]) = Len(recorded[pc]) + 1
                /\ recorded'[pc][Len(recorded'[pc])].opcode = imem[pc].opcode
                /\ imem'[pc].opcode = imem[pc].opcode]_vars

\* The run-length counts of all entries together are the number of events
\* counted while inst_count_ was inside [warmup_count, runlength_count).
RunLengthWithinWindow ==
    SumOver("runlength") <= Max({0, Min({inst_count, RunLengthCount}) - WarmupCount})

\* Every entry of a load/store opcode is classified as a load/store, so
\* the sorted report prints its stride history (printIMem_, line 446):
\* the classification of the constructor (is_loadstore_ = mem_addr != 0)
\* must not depend on the address the first execution accessed.
LoadStoreClassified ==
    \A pc \in DOMAIN imem : IsLoadStoreOp(imem[pc].opcode) => imem[pc].is_loadstore

=============================================================================
