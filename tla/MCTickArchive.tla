--------------------------- MODULE MCTickArchive ---------------------------
(***************************************************************************)
(* The instance of TickGovernance for TLC: a mirror that is configured and *)
(* required, and none at all.                                              *)
(***************************************************************************)
EXTENDS TickGovernance

MCDrives ==
    {[configured |-> TRUE, required |-> TRUE], [configured |-> FALSE, required |-> FALSE]}

=============================================================================
