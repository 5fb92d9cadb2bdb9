------------------------- MODULE MC_MavisAnnotation -------------------------
(***************************************************************************)
(* Three mnemonics and two forms: enough for a redefinition with another   *)
(* form, an overlay of an overlay, and an overlay read before its base.    *)
(***************************************************************************)
EXTENDS MavisAnnotation

CONSTANTS m1, m2, m3, f1, f2

\* Well-formed objects with a form, overlays of m1 or m2, an object with
\* both a form and an overlay, and the three malformed shapes.
MC_Objs ==
    [mnemonic : {m1, m2, m3}, form : {f1, f2}, overlay : {Absent}]
    \union [mnemonic : {m2, m3}, form : {Absent}, overlay : {[base |-> m1], [base |-> m2]}]
    \union {[mnemonic |-> m3, form |-> f2, overlay |-> [base |-> m1]],
            [mnemonic |-> Absent, form |-> f1, overlay |-> Absent],
            [mnemonic |-> m3, form |-> Absent, overlay |-> Absent],
            [mnemonic |-> m3, form |-> Absent, overlay |-> [base |-> Absent]]}

=============================================================================
