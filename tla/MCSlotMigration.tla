-------------------------- MODULE MCSlotMigration --------------------------
(***************************************************************************)
(* TLC instance of SlotMigration. Either clients delete keys, or a MIGRATE *)
(* fails (the README says what is lost when both happen). A failed MIGRATE *)
(* may leave RESTOREs behind that are executed late; one with REPLACE may  *)
(* overwrite newer values then, so those are not late. Packets of the      *)
(* source overtake each other where it loses its last slot and clients     *)
(* only read. The two modes without pings are for the refinement alone:    *)
(* FairSpec, which has everybody hear from Source and Target again and     *)
(* again, has no behaviour there.                                          *)
(***************************************************************************)
EXTENDS SlotMigration

Calm == [deletes |-> FALSE, writes |-> 0, faults |-> 0, packets |-> 0, late |-> {},
         lastSlot |-> FALSE, clusterReplace |-> FALSE]
AllModes ==
  { [Calm EXCEPT !.deletes = TRUE, !.writes = 1, !.packets = 1, !.lastSlot = TRUE],
    [Calm EXCEPT !.writes = 1, !.faults = 1, !.late = {FALSE}, !.packets = 1],
    [Calm EXCEPT !.packets = 2, !.lastSlot = TRUE] }
    \cup { [Calm EXCEPT !.writes = 2, !.faults = 1, !.late = {FALSE}, !.clusterReplace = given] :
             given \in BOOLEAN }
=============================================================================
