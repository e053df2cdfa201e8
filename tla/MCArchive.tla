------------------------------ MODULE MCArchive ------------------------------
(* Instances of Archive for TLC.                                            *)
EXTENDS Archive, TLC

CONSTANTS p1, p2, thread, stray

MCProcs   == {p1, p2}
MCRecords == {thread, stray}
MCOf      == 1 :> thread @@ 2 :> thread

MCSerial == [archivers : {{p1}, {p2}}, ops : {2}, approvals : {2},
             versions : {2}, records : {MCRecords}]
MCBoth   == [archivers : {MCProcs}, ops : {1}, approvals : {1},
             versions : {2}, records : {MCRecords}]
MCTwice  == [archivers : {MCProcs}, ops : {2}, approvals : {2},
             versions : {0}, records : {{thread}}]
MCSetups == MCSerial \cup MCBoth \cup MCTwice

MCSymmetry == Permutations(MCProcs)
==============================================================================
