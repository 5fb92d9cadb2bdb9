# TLA+ models of the stf_tools trace profiler, dumper and Mavis helpers

This directory holds TLA+ models of the instruction-footprint profiler in
`src/tools/stf_imem/stf_imem.hpp`, the trace dumper and
the annotations `mavis_helpers.hpp` gives the Mavis decoder, together with the TLC configurations that
check them. The models are written from the C++ source. `spec.md` is used only
to state what the code is supposed to do, and each disagreement between it and
the code is recorded as a finding in `PROJECT.json`.

## 1. The system (inventory)

| Part | Source | State | Operations |
|---|---|---|---|
| Footprint entry `IMemData` | stf_imem.hpp 57-221 | opcode, size class, count / warmup / runlength, load-store flag, last address, a stride ring of 50 entries with a cursor, branch flag, a branch-history ring of 50 bits with a cursor | constructor, `incCount/incWarmup/incRunLength`, `nextStride`, `nextBranchHistory` |
| Read loop `IMemMapVecIntf::processTrace_` | 660-726 | `inst_count_` | filter on hw_tid/pid/tid and faults, `count_impl`, `++inst_count_`, break at `keep_count`, end of trace / ROI |
| Regular profiler `IMem::count_impl` | 736-792 | one table `PC -> IMemData`; `max_count_`, `max_warmup_`, `max_run_length_` | insert, match (count + history), opcode mismatch (warning only) |
| Java profiler `JavaIMem::count_impl` | 802-862 | a vector of tables (newest at front), active table `itv_` | fast path on the active table, linear search over all tables with fallback `itt`, a new table when every table has the PC |
| Report `IMemMapVec::print` | 509-654 | walk cursor, `first`, `prev_pc`, `prev_size`, open block, `block_count`, the `multimap<SortedMapKey, …>`, `cumulative_count` | walk the tables, write the linear report with gap markers, cut blocks, rank them, write the sorted report, assert the cumulative count |
| Trace morpher `STFMorpher` | stf_morph/stf_morpher.hpp | morph maps by index and by PC, register state, mutable load/store address per op | not modelled: only the class, its containers and the register-state loops are under `src/`; `process()`, `Op::write` and the rule parser, where every decision is made, are not |
| Trace dumper | stf_dump/stf_dump.cpp | previous hw_tid/pid/tid (sentinel `UINT32_MAX`), instruction window | dump loop |
| Disassembler `MavisDisassembler` | mavis_disassembler.hpp | the decoder's latched `hasUnknownDisasm()` | `printDisassembly_` per printed opcode; the destructor's unknown-instruction warning |
| Mavis annotations `AnnotationType` | mavis_helpers.hpp 358-409 | `form_` of each annotation, the static `mnemonic_map_` shared by all of them | `update()`: resolve the form directly or through the overlay's base, record the mnemonic with `try_emplace`; four `stf_assert`s |
| ISA description choice | mavis_helpers.hpp 411-441 | none | `getISASpecJSON` / `getISASpecPath`: RISC-V RV32/RV64 or throw |
| Instruction-type tables | mavis_helpers.hpp 13-322 | none (compile-time tables, string lookups) | — |

**How the parts interact.** The trace reader and the ROI iterator are
external. They feed `processTrace_` one instruction at a time. The loop
filters each event and passes the admitted ones to the variant's
`count_impl`, which updates the table(s) and the running maxima. After the
trace ends, `print()` reads the tables and `inst_count_` to write the two
reports. Everything is single-threaded: there are no callbacks, locks or
messages, and nothing is persisted and reloaded. The hard behaviours are
therefore sequential:

- long event sequences that reach boundary states (ring wrap-around, the
  warm-up and run-length windows, `keep_count`);
- the interplay of the Java tables with the remembered `itv_`/`itt`;
- the report's block cutting, which carries `prev_pc` across tables;
- the final assertion, which ties the report to every earlier counting step.

stf_dump prints every instruction, and outside concise mode each of its
micro-ops, through a `MavisDisassembler`. The warning it prints when it is
destroyed sums up every decode of the run. The decoder behind the
disassembly text is Mavis. While Mavis loads its ISA
description, `mavis_helpers.hpp` gives it an annotation per instruction, and
these share one static map of mnemonics to forms. That load is a sequence
of steps whose outcome depends on the order of the objects in the file.

## 2. Modules

| Module | Models | State ↔ code |
|---|---|---|
| `IMemData` | the entry (constructor, `nextStride` with the `int64_t` cast of a `uint64_t` difference modulo `2^AddrBits`, `nextBranchHistory`, `getOpcodeSize`) | record fields are the members; the rings are functions over `0..MaxLHist-1` |
| `InstEvents` | the events the reader can yield: PC, opcode, taken flag, access addresses; the thread/fault filter; the address `count_impl` extracts | opcode kinds (`load/store/branch/other`, 16-bit) are a constant map, standing in for the decoder |
| `IMem` | `processTrace_` + `IMem::count_impl` | `imem` = `*itv_`, `inst_count`, the three maxima; actions `SkipEvent`, `CountEvent` (`InsertNew` / `MatchExisting` / `OpcodeMismatch`), `EndOfTrace`; the ghost `recorded` keeps each PC's counted events for the history properties |
| `JavaIMem` | `processTrace_` + `JavaIMem::count_impl` | `imem_mapvec` is a sequence (index 1 = `begin()`), `itv` an index; actions `MatchActive`, `MatchOtherTable`, `InsertNew`; the ghost `seen_opcodes` |
| `IMemPrint` | `print()` as a step machine: `Begin`, `MapHeader`, `ScanEntry`, `NextMap`, `EndScan`, `EmitBlock`, `CheckCumulative` | one step per loop iteration of the code; lines are abstract records (header, gap, entry, block), not text |
| `IMemPrintAbstract` | what `print()` promises, as one step `Report` from the tables: the linear report, the ranked blocks (any order among equal keys) and whether the assertion fires | `IMemPrint` defines `Abstract == INSTANCE IMemPrintAbstract WITH` the report phase and both reports exposed only once `pphase` is final; `ImplementsAbstractReport == Abstract!Spec` |
| `IMemReport`, `JavaIMemReport` | composition: the profile, then `print()` over its tables | `INSTANCE IMemPrint`, with `imem_mapvec <- <<imem>>` for the regular profiler |
| `Dump` | `processTrace_` of stf_dump.cpp and the start/end assertion of its `parseCommandLine`, composed with `MavisDisassembler` | `trace` maps index to [ids, valid, taken, trap, known, uops] (`known`: the decoder knows the opcode); `unknown` is the decoder's latch, set by `Disassemble` over the opcodes `Decoded` lists; `Leave` is the return of `processTrace_` and the destructor's `warned`; `pos` is the iterator's index, `prev` is the three `*_prev` ids, `out`/`err` are the lines on stdout/stderr; actions `ParseCommandLine`, `DumpInst` (one loop iteration, including the end test), `EndOfTrace` |
| `MavisAnnotation` | `AnnotationType::update` and `getISASpecJSON` | `insts` are the JSON instruction objects in the order Mavis reads them (a missing key is `Absent`); `mnemonic_map`, `form`; actions `SelectSpec` (the description file), `Update` (one constructor call, the whole of `update()`), `LoadDone` |
| `MC_*` | the constants of each run | |

An action covers the whole branch of the code it models. For example,
`MatchExisting` does `incCount_`, the warm-up or run-length increment, the
history push and the maxima update in one step, and `CountEvent` also
increments `inst_count` and applies the `keep_count` break.

## 3. Runs

| Run | Checks | Result |
|---|---|---|
| `imem_profile` (MC_IMem.cfg) | `TypeOK`, `WarmupWithinBudget`, `StrideHistoryIsRecent`, `BranchHistoryRecordsTakenOnly`, `KeepCountCapsProfile`, action property `EntriesChangeOnlyByOwnExecutions` | pass, 10 684 states |
| `imem_runlength_window` | `RunLengthWithinWindow` | violation: the constructor sets runlength 1 after the window (code bug) |
| `imem_loadstore_flag` | `LoadStoreClassified` | violation: a load whose first access is at address 0 is not a load/store (divergence) |
| `imem_first_address` (MaxAccesses 2) | `StrideHistoryIsRecent` | violation: the last access is recorded, not the first (divergence) |
| `imem_max_count` | `MaxCountIsLargestCount` | violation: "Max count" ignores entries executed once (code bug) |
| `java_profile` | `TypeOK`, `CountsSumToInstCount`, `PairsRecordedOnce`, `TablesBoundedByReuse` | pass, 331 115 states |
| `imem_report` | `PrintTypeOK`, refinement `ImplementsAbstractReport` | pass, ~101 000 states |
| `imem_report_mismatch_abort` | `ReportAssertionHolds` | violation: an opcode mismatch in a regular trace makes the sorted report throw (code bug) |
| `java_report` | `PrintTypeOK`, `ReportAssertionHolds`, refinement `ImplementsAbstractReport` | pass, ~203 000 states |
| `java_report_table_order` | `TablesNewestFirst` | violation: tables are printed oldest first (divergence) |
| `dump` | `DumpCoversWindow`, `LabelsAttributeThreads`, `UnknownWarningMatchesWindow` | pass, 249 856 states |
| `mavis_annotation` | `UpdateFailsOnlyOnMalformed`, `FormsFollowFirstDefinitions` | pass, 388 323 states |

`DumpCoversWindow` says that, for every `-s`/`-e` pair, including 0, a
start past the end, and an end before the start, exactly the instructions of
the requested window are dumped, in order. It also says that exactly the
invalid ones among them are reported on stderr.

`LabelsAttributeThreads` says that the last PID label before each
instruction line carries that instruction's ids, and that no label repeats
the one before it. It states the one exception the `UINT32_MAX` sentinel
makes (lines 150-152): instructions at the start of the dump whose three ids
are all `UINT32_MAX` get no label. The run includes such a thread
(`IdMax` = 7 stands for `UINT32_MAX`). Starting the previous ids at 0
instead makes a thread 0:0:0 lose its label, and TLC finds that.

`UnknownWarningMatchesWindow` composes the dump loop with the disassembler.
The warning at exit is printed exactly when an instruction of the `-s`/`-e`
window, or, outside concise mode, one of its micro-ops, has an opcode the
decoder does not know. Nothing the dump did not print raises it.

`MaxCountIsLargestCount` is what the comment on `max_count_` (line 232,
"Maximum single instruction count") and the "Max count" line of the sorted
report (line 631) promise: the largest count of any entry. The maxima are
raised only inside `incCount_`, `incWarmup_` and `incRunLength_`, never
when `createIMem_` adds an entry (line 469). TLC violates the property
after a single event: the new entry has count 1 and `max_count` stays 0.
After a trace that runs every PC once, the report prints "Max count = 0".

`BranchHistoryIsRecent` in `IMem` states what the specification asks of
the branch-history ring. TLC finds it violated after a single not-taken
branch, because line 754 records only taken branches. The comment at line
753 already records this gap, so no run keeps it. Instead,
`BranchHistoryRecordsTakenOnly` pins down what the ring really holds:
- an entry is a branch entry exactly when one of its executions was taken;
- its cursor has advanced once per taken execution, across the wrap;
- every slot read back from the cursor says "taken".

`KeepCountCapsProfile` checks the `keep_count` break of line 703, tested
after `++inst_count_`. The profile never holds more than `keep_count`
instructions, and the loop stops as soon as it reaches them. The one
exception is `keep_count = 0`, which still admits the first instruction.
The run tries `keep_count` 0 and 4.

`ImplementsAbstractReport` checks that `print()` refines `IMemPrintAbstract`
for every profile that either profiler can build. For the regular profiler
this includes the profiles where an opcode mismatch makes the assertion
fire. Once the report is over, it
holds the linear report, with its headers and gaps, in both modes. It also
holds a ranking of the blocks and the outcome of the final assertion, all
as the tables determine them. The abstract report is declarative
(`WalkOrder`, `BlockStarts`, `ExpectedLinearBody`, `ExpectedBlocks`): the
entries in walk order with a gap before each one that does not follow its
predecessor, and each maximal contiguous block exactly once with its total,
ordered by `SortedMapKey`, with equal keys in any order. The multimap keeps
equal keys in insertion order, which the specification does not fix. With
`-s` the linear report has no gap markers.

`UpdateFailsOnlyOnMalformed` says that loading fails exactly at the first
object update() cannot annotate. Such an object has no mnemonic, or has no
form and no base that an earlier object defines. The map lookup at lines
388-389 therefore agrees with the order of the objects in the file, even
through overlays of overlays. This holds because every successful update
records its own mnemonic. `FormsFollowFirstDefinitions` says that each
annotation and each map entry resolves to the first definition of each
base. A mnemonic defined twice with different forms keeps its own new form,
but the map and every later overlay of it stay on the first one. This is
what `try_emplace` does, and `insert_or_assign` would break it.

Each property of a passing run has a mutant in `PROJECT.json`. A mutant is a
plausible bug in the mapped operator, such as a ring cursor that wraps late,
an inclusive warm-up test, a search without `break`, no `itt` fallback, a
block count that is not reset, a gap marker printed in sorted mode, or the
last block not flushed. TLC finds a violation for each.

### Bounds and why they are enough

- **Ring capacity.** `MaxLHist = 2` instead of 50. With five events on two
  PCs, one PC can reach three executions, which pushes two strides and
  wraps the cursor. The code treats the capacity only through the two wrap
  tests.
- **Address width.** `AddrBits = 5` with addresses {0, 2, 13} gives
  negative strides and the wrap of the unsigned difference.
- **Windows.** `WarmupCount = 1`, `RunLengthCount = 3`, `keep_count` 4 (and
  0 in `imem_profile`): a trace crosses both window boundaries and the keep
  break.
- **Java run.** Three PCs, three opcodes and six events give up to three
  tables (the report run keeps two PCs). A PC can then be missing from some tables and present in others,
  which exercises the `itt` fallback and a stale `itv_`.
- **Report runs.** Three PCs, with a 16-bit opcode, so contiguity depends
  on the previous size. Gaps and equal block counts both occur.

- **Mavis annotations.** Four objects drawn from 15 shapes over three
  mnemonics and two forms. That is enough for a redefinition followed by an
  overlay of it, an overlay of an overlay, an overlay before its base, and
  each malformed shape. Two ISAs and two IEMs cover both outcomes of
  `getISASpecJSON`.
- **Dump.** Traces of five instructions drawn from four kinds (an unknown
  opcode, an unknown and a known micro-op, and the sentinel thread) with
  every start/end option. These cover a seek past the end, a
  one-instruction window, and a rejected end < start.

**Fairness.** None is assumed, and no liveness property is checked.
stf_imem, stf_dump and the Mavis load are single threads, and each loop
runs over a finite trace, a finite table or a finite object list. Termination
therefore holds by construction and says nothing about the code.
`CHECK_DEADLOCK FALSE` is set because the model stops for good once the
trace ends or `print()` returns or throws.

## 4. Not modelled, and why

- **The trace morpher (`stf_morph`).** The header under `src/` holds only
  `STFMorpher`'s state, the `Op`/`OpcodeMorph` containers, `getMorphIndex_`,
  the two register-state loops and the constructor's seek to
  `start_inst - 1`. Which rule applies, collisions under `-C`, the stride
  advance and the end of the window are all decided in `process()`,
  `Op::write` and `processOpcodeMorphArguments_`. These are not in the
  repository, so there is no control flow to translate.
- **Where the linear report goes.** `print()` skips the linear lines when
  sorting to stdout (line 588). The model assumes file output, where the
  guard always passes. The guard decides only which stream gets the text.
- **Output formatting.** Widths, percentages, disassembly text and the
  `.s_imem` file name are text layout, and no property depends on them.
- **The trace reader, the ROI iterators and the decoder.** These are
  external. Whether the decoder knows an opcode is a field of the
  instruction. They appear only as the set of events they can yield and an end
  that can come at any point.
- **The instruction-type and ISA-extension tables of `mavis_helpers.hpp`.**
  These are compile-time tables and string lookups, and nothing in `src/`
  uses them. The `MavisDisassembler` constructors only build the decoder. Mavis itself is external: it appears only as the
  order in which it hands the instruction objects to the annotations.
- **Command-line parsing.** The configuration values are CONSTANTS, or are
  chosen in `Init` where a run tries several. The
  exception is stf_dump's start/end assertion, which is modelled.
- **stf_dump's header and records.** The version, trace info and ISA header,
  and the text of memory, operand, event, comment, micro-op and ready-register
  records, are printing only. The model keeps whether the records follow an
  instruction line.

## 5. Plan for the next sittings

1. **Larger instances** where they stay under the time limit. Examples are
   a third PC in the Java report run.
