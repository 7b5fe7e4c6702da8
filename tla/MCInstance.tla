----------------------------- MODULE MCInstance -----------------------------
(* Small instances of Instance for TLC. *)
EXTENDS Instance

CONSTANTS p1, p2, m1, m2, m3, b1, b2, b3, b4

Callers == {p1, p2}
Messages == {m1, m2, m3}

\* One buffer for each caller, for the place in the queue, and the worker.
Buffers == {b1, b2, b3, b4}

Config(mode, reconnects, m, c, o, r, f) ==
    [WriteBehavior |-> mode, Reconnects |-> reconnects,
     msgs |-> m, calls |-> c, outages |-> o, restarts |-> r, faults |-> f]

\* In every configuration two calls at a time and an outage that may last for ever;
\* with a fallback buffer, two outages and a restart, or a failure as well.
CheckedSetups ==
    {Config(mode, reconnects, 3, 2, 1, 0, 0) : mode \in {"Block", "Loose"}, reconnects \in BOOLEAN}
    \cup {Config("Fallback", reconnects, 2, 2, 1, 0, 0) : reconnects \in BOOLEAN}
    \cup {Config("Fallback", reconnects, 2, 1, 2, 1, 0) : reconnects \in BOOLEAN}
    \cup {Config("Fallback", TRUE, 2, 1, 1, 1, 1)}

FallbackSetup == {Config("Fallback", TRUE, 2, 1, 1, 0, 0)}
BlockSetup == {Config("Block", TRUE, 2, 2, 0, 0, 0)}

=============================================================================
