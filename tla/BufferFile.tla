----------------------------- MODULE BufferFile -----------------------------
(***************************************************************************)
(* What the files of the fallback buffers hold: a sequence of entries.     *)
(* Garbage stands for bytes that end what can be decoded: the torn end of  *)
(* an unfinished gzip member, or a body without its header.  Whatever      *)
(* follows it is lost to any reader.                                       *)
(***************************************************************************)
EXTENDS Functions, Sequences

CONSTANTS
    Entry,       \* what callers write: each entry is written at most once
    Garbage      \* undecodable bytes

Chunk == Entry \cup {Garbage}

\* The entries a reader can decode from the content s of a file.
Readable(s) == {s[i] : i \in {j \in 1..Len(s) : \A k \in 1..j : s[k] # Garbage}}

\* What reaches the disk of content s when writing it is interrupted: a part
\* of it, followed by the torn rest.
TornPrefixes(s) == {SubSeq(s, 1, n) \o <<Garbage>> : n \in 0..Len(s)}

=============================================================================
