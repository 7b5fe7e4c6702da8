---------------------------- MODULE MCFileBuffer ----------------------------
(* Small instances of FileBuffer for TLC. *)
EXTENDS FileBuffer

CONSTANTS e1, e2, e3

MCEntry == {e1, e2, e3}

=============================================================================
