--------------------------- MODULE MavisAnnotation ---------------------------
(***************************************************************************)
(* The annotations Mavis builds while it loads an ISA description: class   *)
(* AnnotationType of src/include/mavis_helpers.hpp and the choice of the   *)
(* description file by getISASpecJSON.  Mavis constructs one annotation    *)
(* per instruction object of the JSON, in file order; each constructor     *)
(* calls update(), which resolves the instruction's form, directly or      *)
(* through the "base" of its "overlay", and records it in the static       *)
(* mnemonic_map_ shared by every annotation.                               *)
(*                                                                         *)
(* An instruction object is a record whose fields are Absent when the key  *)
(* is missing; a form is a model value standing for its name.              *)
(***************************************************************************)
EXTENDS Integers, Sequences, FiniteSets, FiniteSetsExt

CONSTANTS
    Mnemonics,   \* instruction mnemonics
    Forms,       \* names of instruction forms
    Objs,        \* the instruction objects the JSON may hold
    NumObjs,     \* number of instruction objects in the file
    SpecISAs,    \* values of stf::ISA the trace may carry
    SpecIEMs,    \* values of stf::INST_IEM the trace may carry
    Absent       \* a key missing from a JSON object or from mnemonic_map_

ASSUME Absent \notin Mnemonics \union Forms


VARIABLES
    isa,            \* ISA of the trace
    iem,            \* initial IEM of the trace
    insts,          \* the instruction objects, in the order Mavis reads them
    mnemonic_map,   \* AnnotationType::mnemonic_map_: mnemonic -> form name
    form,           \* form_ of each annotation built so far
    pos,            \* index of the next instruction object
    phase           \* "spec", "load", "done" or "abort" (an exception)

vars == <<isa, iem, insts, mnemonic_map, form, pos, phase>>

Indices == 1 .. NumObjs

\* getISASpecJSON: the description of a RISC-V trace with a 32- or 64-bit
\* IEM; every other combination throws.
ISASpecJSON(i, m) ==
    IF i = "RISCV" /\ m \in {"RV32", "RV64"} THEN "riscv_isa_spec.json" ELSE Absent

Init ==
    /\ isa \in SpecISAs
    /\ iem \in SpecIEMs
    /\ insts \in [Indices -> Objs]
    /\ mnemonic_map = [m \in Mnemonics |-> Absent]
    /\ form = <<>>
    /\ pos = 1
    /\ phase = "spec"

\* getISASpecPath: the decoder asks for the description file before Mavis
\* reads any instruction.
SelectSpec ==
    /\ phase = "spec"
    /\ phase' = IF ISASpecJSON(isa, iem) = Absent THEN "abort" ELSE "load"
    /\ UNCHANGED <<isa, iem, insts, mnemonic_map, form, pos>>

\* Mutation: insert_or_assign, a later definition overwrites the form.
TryEmplaceAssign(map, m, f) == [map EXCEPT ![m] = f]

\* std::unordered_map::try_emplace: insert only when the key is new.
TryEmplace(map, m, f) == IF map[m] = Absent THEN [map EXCEPT ![m] = f] ELSE map

\* Mutation: the object's own mnemonic is looked up instead of its base.
ParentFormOwn(o) == mnemonic_map[o.mnemonic]

\* The form an object names through its overlay's base, read from the map.
ParentForm(o) == mnemonic_map[o.overlay.base]

\* The stf_assert conditions of update(), in the order they are tested.
UpdateFails(o) ==
    \/ o.mnemonic = Absent
    \/ /\ o.form = Absent
       /\ \/ o.overlay = Absent
          \/ o.overlay.base = Absent
          \/ ParentForm(o) = Absent

\* AnnotationType(inst) -> update(inst): a form-less object takes its
\* base's form from mnemonic_map_, an object with a form takes that form;
\* either way its own mnemonic is recorded with the form by try_emplace.
Update ==
    /\ phase = "load"
    /\ pos \in Indices
    /\ LET o == insts[pos]
           f == IF o.form = Absent THEN ParentForm(o) ELSE o.form
       IN  IF UpdateFails(o)
           THEN /\ phase' = "abort"
                /\ UNCHANGED <<mnemonic_map, form, pos>>
           ELSE /\ form' = Append(form, f)
                /\ mnemonic_map' = TryEmplace(mnemonic_map, o.mnemonic, f)
                /\ pos' = pos + 1
                /\ UNCHANGED phase
    /\ UNCHANGED <<isa, iem, insts>>

\* Every instruction object has been read.
LoadDone ==
    /\ phase = "load"
    /\ pos \notin Indices
    /\ phase' = "done"
    /\ UNCHANGED <<isa, iem, insts, mnemonic_map, form, pos>>

Next == SelectSpec \/ Update \/ LoadDone

Spec == Init /\ [][Next]_vars

-----------------------------------------------------------------------------
(***************************************************************************)
(* Properties, stated from the instruction objects of the file alone.      *)
(***************************************************************************)
\* The first object before the k-th with mnemonic m, 0 when there is none.
FirstDef(m, k) ==
    LET js == {j \in 1 .. k - 1 : insts[j].mnemonic = m}
    IN  IF js = {} THEN 0 ELSE Min(js)

\* An object update() cannot annotate: no mnemonic, or no form and no
\* overlay base named by an earlier object.
Malformed(k) ==
    LET o == insts[k]
    IN  \/ o.mnemonic = Absent
        \/ /\ o.form = Absent
           /\ \/ o.overlay = Absent
              \/ o.overlay.base = Absent
              \/ FirstDef(o.overlay.base, k) = 0

\* The form object k stands for: its own, or that of the first object
\* defining its base, followed through chains of overlays.
RECURSIVE Resolved(_)
Resolved(k) ==
    IF insts[k].form # Absent THEN insts[k].form
    ELSE Resolved(FirstDef(insts[k].overlay.base, k))

\* Loading fails exactly at the first malformed object (or earlier, on an
\* ISA/IEM without a description): the map lookup of lines 388-389 finds
\* a base exactly when an earlier object, form-less or not, has that
\* mnemonic, because every successful update records its own mnemonic.
UpdateFailsOnlyOnMalformed ==
    /\ \A k \in 1 .. pos - 1 : ~Malformed(k)
    /\ phase = "abort" =>
           \/ ISASpecJSON(isa, iem) = Absent /\ pos = 1
           \/ Malformed(pos)

\* Every annotation has the form its object resolves to through the first
\* definition of each base, and mnemonic_map_ holds for every mnemonic the
\* form of its first definition: a redefinition with another form keeps
\* its own form but leaves the map, and every later overlay of it, on the
\* first one.
FormsFollowFirstDefinitions ==
    /\ \A k \in DOMAIN form : form[k] = Resolved(k)
    /\ \A m \in Mnemonics :
           mnemonic_map[m] = IF FirstDef(m, pos) = 0 THEN Absent
                             ELSE Resolved(FirstDef(m, pos))

=============================================================================
