---------------------------- MODULE MCDirBuffer ----------------------------
(* Small instances of DirBuffer for TLC. *)
EXTENDS DirBuffer

CONSTANTS e1, e2, e3

MCEntry == {e1, e2, e3}

=============================================================================
