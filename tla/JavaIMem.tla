------------------------------ MODULE JavaIMem ------------------------------
(***************************************************************************)
(* The footprint profiler for Java traces: the read loop of                *)
(* IMemMapVecIntf::processTrace_ together with JavaIMem::count_impl of     *)
(* src/tools/stf_imem/stf_imem.hpp.  Code loaded at a reused address gives *)
(* one PC several opcodes, so the profiler keeps a vector of tables        *)
(* (imem_mapvec_) and an active table (itv_).  A new table goes to the     *)
(* front of the vector, so the model keeps the vector as a sequence and    *)
(* itv_ as a position in it.  No local history is kept for Java traces.    *)
(***************************************************************************)
EXTENDS Integers, Sequences, FiniteSets, FiniteSetsExt, TLC, IMemData, InstEvents

CONSTANTS
    WarmupCount,     \* STFImemConfig::warmup_count
    RunLengthCount,  \* STFImemConfig::runlength_count
    KeepCount,       \* STFImemConfig::keep_count
    MaxRead          \* bound: most events read from the trace

ASSUME {WarmupCount, RunLengthCount, KeepCount, MaxRead} \subseteq Nat

VARIABLES
    imem_mapvec,     \* sequence of tables PC -> IMemData
    itv,             \* index of the active table *itv_
    inst_count,      \* inst_count_
    max_count,       \* max_count_
    max_warmup,      \* max_warmup_
    max_run_length,  \* max_run_length_
    read,            \* events taken from the reader so far
    phase,           \* "counting" while the read loop runs, then "done"
    seen_opcodes     \* ghost: per PC, the opcodes counted at it

vars == <<imem_mapvec, itv, inst_count, max_count, max_warmup, max_run_length,
          read, phase, seen_opcodes>>

EmptyMap == [pc \in {} |-> 0]

\* IMemMapVec(): imem_mapvec_(1), itv_ = begin().
Init ==
    /\ imem_mapvec = <<EmptyMap>>
    /\ itv = 1
    /\ inst_count = 0
    /\ max_count = 0
    /\ max_warmup = 0
    /\ max_run_length = 0
    /\ read = 0
    /\ phase = "counting"
    /\ seen_opcodes = [pc \in PCs |-> {}]

InWarmup == inst_count < WarmupCount

\* std::map::insert: does nothing when the key is already present.
MapInsert(m, k, v) == IF k \in DOMAIN m THEN m ELSE m @@ (k :> v)

Holds(t, pc, op) == pc \in DOMAIN t /\ t[pc].opcode = op

\* incCount_, then incWarmup_ or incRunLength_, on the entry of table i.
CountInTable(i, pc) ==
    LET d  == imem_mapvec[i][pc]
        d1 == [d EXCEPT !.count = @ + 1]
        d2 == IF InWarmup THEN [d1 EXCEPT !.warmup = @ + 1]
              ELSE IF inst_count < RunLengthCount
                   THEN [d1 EXCEPT !.runlength = @ + 1]
                   ELSE d1
    IN  /\ imem_mapvec' = [imem_mapvec EXCEPT ![i][pc] = d2]
        /\ max_count' = RaiseMax(max_count, d2.count)
        /\ max_warmup' = IF InWarmup THEN RaiseMax(max_warmup, d2.warmup) ELSE max_warmup
        /\ max_run_length' = IF ~InWarmup /\ inst_count < RunLengthCount
                             THEN RaiseMax(max_run_length, d2.runlength)
                             ELSE max_run_length

\* Key and opcode found in the active table.
MatchActive(e) ==
    /\ Holds(imem_mapvec[itv], e.pc, e.opcode)
    /\ CountInTable(itv, e.pc)
    /\ UNCHANGED itv

\* Mutation: the search loop has no break, so itv_ is left at end().
MatchOtherTableNoBreak(e) ==
    /\ ~Holds(imem_mapvec[itv], e.pc, e.opcode)
    /\ \E i \in DOMAIN imem_mapvec :
          /\ Holds(imem_mapvec[i], e.pc, e.opcode)
          /\ \A j \in 1 .. i - 1 : ~Holds(imem_mapvec[j], e.pc, e.opcode)
          /\ CountInTable(i, e.pc)
          /\ itv' = Len(imem_mapvec) + 1

\* The linear search over all tables stops at the first one that holds
\* the PC with this opcode; that table becomes active.
MatchOtherTable(e) ==
    /\ ~Holds(imem_mapvec[itv], e.pc, e.opcode)
    /\ \E i \in DOMAIN imem_mapvec :
          /\ Holds(imem_mapvec[i], e.pc, e.opcode)
          /\ \A j \in 1 .. i - 1 : ~Holds(imem_mapvec[j], e.pc, e.opcode)
          /\ CountInTable(i, e.pc)
          /\ itv' = i

\* Mutation: without the itt fallback the entry goes to the active table
\* even when that table already has the PC (and std::map::insert drops it).
InsertNewNoFallback(e) ==
    LET lacking == {i \in DOMAIN imem_mapvec : e.pc \notin DOMAIN imem_mapvec[i]}
        new     == NewIMemData(e.opcode \in Opcode16, e.opcode, InWarmup, FALSE, FALSE, 0)
        vec1    == IF lacking = {} THEN <<EmptyMap>> \o imem_mapvec ELSE imem_mapvec
        itv1    == IF lacking = {} THEN 1 ELSE itv
    IN  /\ \A i \in DOMAIN imem_mapvec : ~Holds(imem_mapvec[i], e.pc, e.opcode)
        /\ imem_mapvec' = [vec1 EXCEPT ![itv1] = MapInsert(@, e.pc, new)]
        /\ itv' = itv1
        /\ UNCHANGED <<max_count, max_warmup, max_run_length>>

\* Mutation: only the active table is searched before inserting.
InsertNewActiveOnly(e) ==
    LET lacking == {i \in DOMAIN imem_mapvec : e.pc \notin DOMAIN imem_mapvec[i]}
        new     == NewIMemData(e.opcode \in Opcode16, e.opcode, InWarmup, FALSE, FALSE, 0)
        vec1    == IF lacking = {} THEN <<EmptyMap>> \o imem_mapvec ELSE imem_mapvec
        itv1    == IF lacking = {} THEN 1
                   ELSE IF e.pc \in DOMAIN imem_mapvec[itv] THEN Max(lacking)
                   ELSE itv
    IN  /\ ~Holds(imem_mapvec[itv], e.pc, e.opcode)
        /\ imem_mapvec' = [vec1 EXCEPT ![itv1] = MapInsert(@, e.pc, new)]
        /\ itv' = itv1
        /\ UNCHANGED <<max_count, max_warmup, max_run_length>>

\* Mutation: a new table is opened whenever the active table has the PC.
InsertNewEagerTable(e) ==
    LET lacking == {i \in DOMAIN imem_mapvec : e.pc \notin DOMAIN imem_mapvec[i]}
        fresh   == lacking = {} \/ e.pc \in DOMAIN imem_mapvec[itv]
        new     == NewIMemData(e.opcode \in Opcode16, e.opcode, InWarmup, FALSE, FALSE, 0)
        vec1    == IF fresh THEN <<EmptyMap>> \o imem_mapvec ELSE imem_mapvec
        itv1    == IF fresh THEN 1 ELSE itv
    IN  /\ \A i \in DOMAIN imem_mapvec : ~Holds(imem_mapvec[i], e.pc, e.opcode)
        /\ imem_mapvec' = [vec1 EXCEPT ![itv1] = MapInsert(@, e.pc, new)]
        /\ itv' = itv1
        /\ UNCHANGED <<max_count, max_warmup, max_run_length>>

\* No table holds the PC with this opcode.  The search remembered the last
\* table without the PC (itt).  If every table has the PC, a new table is
\* put at the front and becomes active; otherwise, if the active table has
\* the PC, itt becomes active.  The new entry goes into the active table.
InsertNew(e) ==
    LET lacking == {i \in DOMAIN imem_mapvec : e.pc \notin DOMAIN imem_mapvec[i]}
        new     == NewIMemData(e.opcode \in Opcode16, e.opcode, InWarmup, FALSE, FALSE, 0)
        vec1    == IF lacking = {} THEN <<EmptyMap>> \o imem_mapvec ELSE imem_mapvec
        itv1    == IF lacking = {} THEN 1
                   ELSE IF e.pc \in DOMAIN imem_mapvec[itv] THEN Max(lacking)
                   ELSE itv
    IN  /\ \A i \in DOMAIN imem_mapvec : ~Holds(imem_mapvec[i], e.pc, e.opcode)
        /\ imem_mapvec' = [vec1 EXCEPT ![itv1] = MapInsert(@, e.pc, new)]
        /\ itv' = itv1
        /\ UNCHANGED <<max_count, max_warmup, max_run_length>>

CountImpl(e) ==
    /\ \/ MatchActive(e)
       \/ MatchOtherTable(e)
       \/ InsertNew(e)
    /\ seen_opcodes' = [seen_opcodes EXCEPT ![e.pc] = @ \cup {e.opcode}]

(***************************************************************************)
(* The body of the read loop of processTrace_ (as in IMem).                *)
(***************************************************************************)
SkipEvent ==
    /\ phase = "counting"
    /\ read < MaxRead
    /\ \E hw, pid, tid \in ThreadIds, fault \in BOOLEAN :
          ~Admitted(hw, pid, tid, fault)
    /\ read' = read + 1
    /\ UNCHANGED <<imem_mapvec, itv, inst_count, max_count, max_warmup,
                   max_run_length, phase, seen_opcodes>>

CountEvent ==
    /\ phase = "counting"
    /\ read < MaxRead
    /\ \E e \in CountedEvents : CountImpl(e)
    /\ inst_count' = inst_count + 1
    /\ read' = read + 1
    /\ phase' = IF inst_count + 1 >= KeepCount THEN "done" ELSE "counting"

EndOfTrace ==
    /\ phase = "counting"
    /\ phase' = "done"
    /\ UNCHANGED <<imem_mapvec, itv, inst_count, max_count, max_warmup,
                   max_run_length, read, seen_opcodes>>

Next == SkipEvent \/ CountEvent \/ EndOfTrace

Spec == Init /\ [][Next]_vars

-----------------------------------------------------------------------------
(***************************************************************************)
(* Properties                                                              *)
(***************************************************************************)
TypeOK ==
    /\ \A i \in DOMAIN imem_mapvec :
          /\ DOMAIN imem_mapvec[i] \subseteq PCs
          /\ \A pc \in DOMAIN imem_mapvec[i] :
                imem_mapvec[i][pc] \in IMemDataType(Opcodes, {0}, MaxRead)
    /\ itv \in DOMAIN imem_mapvec
    /\ inst_count \in 0 .. MaxRead
    /\ {max_count, max_warmup, max_run_length} \subseteq 0 .. MaxRead
    /\ read \in 0 .. MaxRead
    /\ phase \in {"counting", "done"}
    /\ seen_opcodes \in [PCs -> SUBSET Opcodes]

TotalCount ==
    LET TableSum(t) == MapThenSumSet(LAMBDA pc : t[pc].count, DOMAIN t)
    IN  MapThenSumSet(LAMBDA i : TableSum(imem_mapvec[i]), DOMAIN imem_mapvec)

\* Every admitted event is counted in exactly one entry of one table, so
\* the counts of all tables add up to inst_count_, as the assertion at
\* the end of print() requires.
CountsSumToInstCount == TotalCount = inst_count

\* A PC and opcode pair lives in at most one table: the search over all
\* tables finds an existing pair before a new entry is inserted, and every
\* PC+opcode seen is recorded under exactly that pair.
PairsRecordedOnce ==
    \A pc \in PCs :
        /\ \A op \in seen_opcodes[pc] :
              Cardinality({i \in DOMAIN imem_mapvec : Holds(imem_mapvec[i], pc, op)}) = 1
        /\ \A i \in DOMAIN imem_mapvec :
              pc \in DOMAIN imem_mapvec[i] => imem_mapvec[i][pc].opcode \in seen_opcodes[pc]

\* The vector of tables grows only as far as address reuse forces it: there
\* are never more tables than the most opcodes seen at a single PC (and one
\* table before anything is seen).
TablesBoundedByReuse ==
    Len(imem_mapvec) <= Max({1} \cup {Cardinality(seen_opcodes[pc]) : pc \in PCs})

=============================================================================
