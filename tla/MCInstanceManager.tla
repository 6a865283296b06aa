------------------------ MODULE MCInstanceManager ------------------------
(***************************************************************************)
(* Small instances of InstanceManager for TLC.  The sizes at which a vector *)
(* moves are those of a growth by doubling.                                *)
(***************************************************************************)
EXTENDS InstanceManager

\* Two runs, released as run() does it; a composition, released in the order of the
\* test; and a run that reuses what is left.
ThreeTasks == << [runs |-> 2, composition |-> FALSE, paramFirst |-> FALSE],
                 [runs |-> 1, composition |-> TRUE, paramFirst |-> TRUE],
                 [runs |-> 1, composition |-> FALSE, paramFirst |-> FALSE] >>

Doubling == {0, 1, 2, 4, 8, 16}
=============================================================================
