----------------------------- MODULE MCMsgpack ------------------------------
(* Values at the boundaries of every MessagePack format. *)
EXTENDS Msgpack

Naturals64 == {Word(0), Word(127), Word(128), Word(255), Word(256), Word(65535), Word(65536),
    ZeroExtend(<<127, 255, 255, 255>>), ZeroExtend(<<128, 0, 0, 0>>),
    ZeroExtend(<<255, 255, 255, 255>>), ZeroExtend(<<1, 0, 0, 0, 0>>),
    <<127, 255, 255, 255, 255, 255, 255, 255>>}
Large64 == {<<128, 0, 0, 0, 0, 0, 0, 0>>, <<255, 255, 255, 255, 255, 255, 255, 255>>}
Negatives64 == {SignExtend(<<255>>), SignExtend(<<224>>), SignExtend(<<223>>), SignExtend(<<128>>),
    SignExtend(<<255, 127>>), SignExtend(<<128, 0>>), SignExtend(<<255, 127, 255>>),
    SignExtend(<<128, 0, 0, 0>>), SignExtend(<<255, 127, 255, 255, 255>>),
    <<128, 0, 0, 0, 0, 0, 0, 0>>}

Lengths == {0, 31, 32, 127, 128, 255, 256, 32767, 32768, 65535, 65536}
Counts == {0, 1, 2, 15, 16, 32767, 32768, 65535, 65536}
Seconds == {Word(0), Word(1700000001), ZeroExtend(<<128, 0, 0, 0>>), ZeroExtend(<<1, 0, 0, 0, 1>>),
    ZeroExtend(<<3, 255, 255, 255, 254>>), ZeroExtend(<<4, 0, 0, 0, 0>>), SignExtend(<<255>>)}

Nil == [k |-> "nil"]
Str(n) == [k |-> "str", how |-> "AppendString", n |-> n]

MCValues ==
    {Nil, Str(3)}
    \cup {[k |-> "bool", b |-> b] : b \in BOOLEAN}
    \cup {[k |-> "float", single |-> b] : b \in BOOLEAN}
    \cup {[k |-> "int", w |-> w] : w \in Naturals64 \cup Negatives64}
    \cup {[k |-> "uint", w |-> w] : w \in Naturals64 \cup Large64}
    \cup {[k |-> "str", how |-> h, n |-> n] : n \in Lengths,
             h \in {"AppendString", "AppendStringDynamic", "AppendStringUnknownLength", "AppendStringMax255"}}
    \cup {[k |-> "bin", how |-> h, n |-> n] : n \in Lengths, h \in {"AppendBinary", "AppendBinaryUnknownLength"}}
    \cup {[k |-> c, n |-> n] : c \in {"array", "map"}, n \in Counts}
    \cup {[k |-> "time", f |-> f, s |-> s, ns |-> ns] : s \in Seconds, ns \in {0, 999999999},
             f \in {"TsAuto", "Ts32", "Ts64", "Ts96", "TsInt", "TsFluentd", "Ext"}}

\* What comes before and behind them.
MCCommon == {Str(3), [k |-> "array", n |-> 2], [k |-> "map", n |-> 1]}

\* Every cut of the values without a body, and of the others those in the head, in
\* the first bytes of the body and in its last.
MCCuts == 1..7

=============================================================================
