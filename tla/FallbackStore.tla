---------------------------- MODULE FallbackStore ----------------------------
(***************************************************************************)
(* What a fallback buffer promises its caller (the interface of            *)
(* fallback/fallback.go): entries are put into it, and taken out of it in  *)
(* batches of any size and order, each entry once.  After a fault of the   *)
(* disk or a crash of the process entries may be missing, and the entry    *)
(* being put may be there although its Put failed; but nothing is ever     *)
(* taken that was not put.                                                 *)
(***************************************************************************)
CONSTANT Entry

VARIABLES stored, taken, faulty

vars == <<stored, taken, faulty>>

Init == stored = {} /\ taken = {} /\ faulty = FALSE

Put(e) ==
    /\ e \notin stored \cup taken
    /\ stored' = stored \cup {e}
    /\ UNCHANGED <<taken, faulty>>

Take(S) ==
    /\ stored' = stored \ S
    /\ taken' = taken \cup S
    /\ UNCHANGED faulty

\* From the first fault on.
Fail ==
    /\ faulty' = TRUE
    /\ \/ stored' \subseteq stored
       \/ \E e \in Entry : stored' \subseteq stored \cup {e}
    /\ UNCHANGED taken

Next ==
    \/ \E e \in Entry : Put(e)
    \/ \E S \in SUBSET stored : Take(S)
    \/ Fail

Spec == Init /\ [][Next]_vars

=============================================================================
