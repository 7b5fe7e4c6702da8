------------------------------ MODULE MCLogger ------------------------------
(* A small instance of Logger for TLC. *)
EXTENDS Logger, TLC

CONSTANTS p1, p2, l1, l2, b1, b2, b3

Goroutines == {p1, p2}
Loggers == {l1, l2}
Buffers == {b1, b2, b3}

Verb == Directive("none", 0, 0, "d")
Percent == Directive("none", 0, 0, "%")
Hidden == Directive("flags", 0, 1, "d")
Message(ds, args, sev) == [format |-> ds, args |-> args, sev |-> sev]

MCMessages == {
    \* an empty string, a value without a key, a pair, and a key without a value
    Message(<<>>, <<String(""), Value("u"), String("k"), String("s"), String("k")>>, 6),
    \* an argument of the format, a field, and a stack trace
    Message(<<Percent, Verb>>, <<Value("v"), String("k"), Value("w")>>, 2),
    \* one that fmt has enough with, but countFmtArgs has not
    Message(<<Verb, Hidden>>, <<Value("v")>>, 6) }

\* Fields of two such calls wrap to none, as they are counted in a byte.
MCFieldArguments == {<<String("k"), Appender("a", 128)>>}

\* A value that AppendAny knows and one that it does not.
MCSlogRecords == {[attrs |-> <<Attr("x", TRUE), Attr("y", FALSE)>>, level |-> "error"]}

Symmetry == Permutations(Proc)

\* countFmtArgs counts the arguments fmt uses, or fewer if widths are among them,
\* in all formats of up to three directives in which none is hidden; one that is
\* makes it count too many.
Directives ==
    {PlainText} \cup {d \in [pre : {"none", "flags", "width", "both"}, m : {0, 1, 3}, n : {0, 1, 3},
                         verb : {"d", "%"}] : d.m > 0 => d.pre \in {"width", "both"}}

ASSUME CountAgrees ==
    /\ \A n \in 0..3 : \A ds \in [1..n -> {d \in Directives : Exact(d)}] :
          countFmtArgs(Format(ds)) = Wants(ds)
    /\ \A n \in 0..3 : \A ds \in [1..n -> {d \in Directives : Exact(d) \/ Starred(d)}] :
          countFmtArgs(Format(ds)) <= Wants(ds)
    /\ countFmtArgs(Format(<<Verb, Hidden>>)) > Wants(<<Verb, Hidden>>)

=============================================================================
