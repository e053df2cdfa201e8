---------------------------- MODULE MCWriterLock -----------------------------
(* Instances of WriterLock for TLC.                                         *)
EXTENDS WriterLock, TLC

CONSTANTS p1, p2, p3

MCTwo      == {p1, p2}
MCThree    == {p1, p2, p3}
MCSymmetry == Permutations({p1, p2, p3})

MCFailing  == {{"query", "io", "legacy"}, {"query", "io", "legacy", "override"}}
MCWorking  == {{"legacy"}}
MCNone     == {{}}
MCOverride == {{"override"}}
==============================================================================
