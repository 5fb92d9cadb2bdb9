------------------------------ MODULE IMemData ------------------------------
(***************************************************************************)
(* One footprint entry of the profiler: class IMemData of                  *)
(* src/tools/stf_imem/stf_imem.hpp.  An entry is a record; its operations  *)
(* are operators from an entry (and the event's data) to the new entry.    *)
(* The two local-history rings (recent_strides_, branch_lhr_) are          *)
(* functions over 0..MaxLHist-1 with a write cursor, exactly as the code   *)
(* keeps them; the code's capacity MAX_LHIST_ is 50, MaxLHist is a         *)
(* constant so that a model can reach the wrap-around.                     *)
(***************************************************************************)
EXTENDS Integers

CONSTANTS
    MaxLHist,   \* MAX_LHIST_: capacity of both history rings (50 in the code)
    AddrBits    \* width of a memory address (64 in the code)

ASSUME MaxLHist \in Nat \ {0}
ASSUME AddrBits \in Nat \ {0}

Slots == 0 .. MaxLHist - 1

AddrSpace == 2^AddrBits

\* static_cast<int64_t>(curr - last) on uint64_t operands: the difference
\* is taken modulo 2^w and reinterpreted as two's complement.
StrideOf(curr, last) ==
    LET d == (curr - last) % AddrSpace
    IN  IF d >= AddrSpace \div 2 THEN d - AddrSpace ELSE d

\* Mutation: the cursor is not advanced after the outcome is written.
NextBranchHistoryStuck(d, taken) ==
    [d EXCEPT !.is_branch = TRUE, !.branch_lhr[d.branch_lhr_idx] = taken]

\* IMemData::nextBranchHistory: mark the entry as a branch, write the
\* outcome at the cursor and advance the cursor, wrapping at MAX_LHIST_.
NextBranchHistory(d, taken) ==
    [d EXCEPT !.is_branch = TRUE,
              !.branch_lhr[d.branch_lhr_idx] = taken,
              !.branch_lhr_idx = IF @ + 1 = MaxLHist THEN 0 ELSE @ + 1]

\* Mutation: the stride cursor wraps one slot late.
NextStrideWrapLate(d, curr) ==
    [d EXCEPT !.recent_strides[d.recent_strides_idx] = StrideOf(curr, d.last_address),
              !.recent_strides_idx = IF @ = MaxLHist THEN 0 ELSE @ + 1,
              !.last_address = curr]

\* Mutation: last_address_ is never advanced.
NextStrideNoLast(d, curr) ==
    [d EXCEPT !.recent_strides[d.recent_strides_idx] = StrideOf(curr, d.last_address),
              !.recent_strides_idx = IF @ = MaxLHist - 1 THEN 0 ELSE @ + 1]

\* IMemData::nextStride: store curr - last at the cursor, advance the
\* cursor (wrapping at MAX_LHIST_ - 1) and remember curr.
NextStride(d, curr) ==
    [d EXCEPT !.recent_strides[d.recent_strides_idx] = StrideOf(curr, d.last_address),
              !.recent_strides_idx = IF @ = MaxLHist - 1 THEN 0 ELSE @ + 1,
              !.last_address = curr]

\* The IMemData constructor every createIMem_ overload ends in.  The entry
\* counts its first execution; it is a load/store only when the address is
\* non-zero, and a branch entry records its first outcome.
NewIMemData(is16, opcode, inWarmup, isBranch, brTaken, memAddr) ==
    LET d == [is_16bit           |-> is16,
              opcode             |-> opcode,
              warmup             |-> IF inWarmup THEN 1 ELSE 0,
              runlength          |-> IF inWarmup THEN 0 ELSE 1,
              count              |-> 1,
              is_loadstore       |-> memAddr # 0,
              last_address       |-> memAddr,
              recent_strides     |-> [i \in Slots |-> 0],
              recent_strides_idx |-> 0,
              is_branch          |-> isBranch,
              branch_lhr         |-> [i \in Slots |-> FALSE],
              branch_lhr_idx     |-> 0]
    IN  IF isBranch THEN NextBranchHistory(d, brTaken) ELSE d

\* IMemMapVec::incCount_/incWarmup_/incRunLength_: after the entry's
\* counter is incremented, max_ = std::max(max_, that counter).
RaiseMax(m, v) == IF v > m THEN v ELSE m

\* IMemData::getOpcodeSize
OpcodeSize(d) == IF d.is_16bit THEN 2 ELSE 4

\* The set of all entries, for the type invariants of the profilers.
IMemDataType(Opcodes, Addrs, Bound) ==
    [is_16bit: BOOLEAN, opcode: Opcodes,
     warmup: 0 .. Bound, runlength: 0 .. Bound, count: 1 .. Bound,
     is_loadstore: BOOLEAN, last_address: Addrs,
     recent_strides: [Slots -> -(AddrSpace \div 2) .. (AddrSpace \div 2) - 1],
     recent_strides_idx: Slots,
     is_branch: BOOLEAN, branch_lhr: [Slots -> BOOLEAN], branch_lhr_idx: Slots]

=============================================================================
