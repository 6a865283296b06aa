------------------------------ MODULE MCReplay ------------------------------
(* Small instances of Replay for TLC. *)
EXTENDS Replay

\* Two replays of the first build, of which one is short, one of a build that is not
\* installed, and one of another that is.
FourReplays == << [build |-> 1, short |-> FALSE], [build |-> 1, short |-> TRUE],
                  [build |-> 3, short |-> FALSE], [build |-> 2, short |-> FALSE] >>
=============================================================================
