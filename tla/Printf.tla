------------------------------- MODULE Printf -------------------------------
(***************************************************************************)
(* countFmtArgs of printf.go: how many of a call's arguments belong to its *)
(* format string; the others are fields of the record.                     *)
(***************************************************************************)
EXTENDS FiniteSets, Naturals, Sequences

Digits == <<"0", "1", "2", "3", "4", "5", "6", "7", "8", "9">>
Digit == [c \in {Digits[i] : i \in 1..10} |-> CHOOSE v \in 0..9 : Digits[v + 1] = c]

\* The scan: in the text, behind a %, or in the number behind %[, with that
\* number, the current argument, and the highest one so far.
Use(s, arg) == [s EXCEPT !.in = "text", !.cur = arg, !.n = IF arg > @ THEN arg ELSE @]

IndexEnds(s) == IF s.val > 0 THEN Use(s, s.val) ELSE [s EXCEPT !.in = "text"]

InText(s, c) == IF c = "%" THEN [s EXCEPT !.in = "verb"] ELSE s

InVerb(s, c) ==
    CASE c = "%" -> [s EXCEPT !.in = "text"]
      [] c = "[" -> [s EXCEPT !.in = "index", !.val = 0]
      [] OTHER -> Use(s, s.cur + 1)

InIndex(s, c) ==
    CASE c \in DOMAIN Digit -> [s EXCEPT !.val = 10 * @ + Digit[c]]
      [] c = "]" -> IndexEnds(s)
      [] OTHER -> InText(IndexEnds(s), c)

\* b is a sequence of characters.
countFmtArgs(b) ==
    LET scan[i \in 0..Len(b)] ==
          IF i = 0 THEN [in |-> "text", val |-> 0, cur |-> 0, n |-> 0]
          ELSE LET s == scan[i - 1] IN
               CASE s.in = "text" -> InText(s, b[i])
                 [] s.in = "verb" -> InVerb(s, b[i])
                 [] s.in = "index" -> InIndex(s, b[i])
        end == scan[Len(b)]
    IN IF end.in = "index" THEN IndexEnds(end).n ELSE end.n

-----------------------------------------------------------------------------
(* What package fmt does, for formats made of directives *)

\* A directive is plain text, or a verb, d or %, of the n-th argument or of the
\* next one (n = 0).  Before it there may be flags and a width, or a width that is
\* an argument itself, alone or with a precision that is one; the first of them
\* may be the m-th argument.  For countFmtArgs all characters but %, [ and those
\* of an index are alike, so one spelling of each is enough.
Directive(pre, m, n, verb) == [pre |-> pre, m |-> m, n |-> n, verb |-> verb]
PlainText == Directive("none", 0, 0, "text")

FormatDirective ==
    {PlainText} \cup {d \in [pre : {"none", "flags", "width", "both"}, m : 0..9, n : 0..9, verb : {"d", "%"}] :
                    d.m > 0 => d.pre \in {"width", "both"}}

Index(n) == IF n = 0 THEN <<>> ELSE <<"[", Digits[n + 1], "]">>

Prefix(d) ==
    CASE d.pre = "none" -> <<>>
      [] d.pre = "flags" -> <<"-", "5">>
      [] d.pre = "width" -> Index(d.m) \o <<"*">>
      [] d.pre = "both" -> Index(d.m) \o <<"*", ".", "*">>

\* Its characters.
Chars(d) ==
    IF d.verb = "text" THEN <<"a">> ELSE <<"%">> \o Prefix(d) \o Index(d.n) \o <<d.verb>>

\* Those of a format ds, a sequence of directives.
Format(ds) ==
    LET chars[i \in 0..Len(ds)] == IF i = 0 THEN <<>> ELSE chars[i - 1] \o Chars(ds[i])
    IN chars[Len(ds)]

\* What doPrintf does: widths and precisions are arguments, an index says which
\* is the next one, and every verb but % takes it.  arg is the last argument, n
\* the highest so far.
Fetch(s, arg) == [arg |-> arg, n |-> IF arg > s.n THEN arg ELSE s.n]

Stars(d) == CASE d.pre = "width" -> 1 [] d.pre = "both" -> 2 [] OTHER -> 0

FetchStars(s, d) ==
    IF Stars(d) = 0 THEN s
    ELSE Fetch(s, (IF d.m > 0 THEN d.m - 1 ELSE s.arg) + Stars(d))

FetchIndex(s, d) == IF d.n > 0 THEN [s EXCEPT !.arg = d.n - 1] ELSE s

FetchVerb(s, d) == IF d.verb = "d" THEN Fetch(s, s.arg + 1) ELSE s

Fetches(s, d) == FetchVerb(FetchIndex(FetchStars(s, d), d), d)

\* The arguments a format asks for.
Wants(ds) ==
    LET fetched[i \in 0..Len(ds)] ==
          IF i = 0 THEN [arg |-> 0, n |-> 0] ELSE Fetches(fetched[i - 1], ds[i])
    IN fetched[Len(ds)].n

\* countFmtArgs looks at the character behind % only.  That is enough for verbs
\* with flags or an index, and for %%.
Exact(d) ==
    \/ d = PlainText
    \/ d.verb = "%" /\ d.pre = "none" /\ d.n = 0
    \/ d.verb = "d" /\ (d.pre = "none" \/ (d.pre = "flags" /\ d.n = 0))

\* It takes a width from the arguments for the verb itself and counts less than
\* fmt uses.
Starred(d) == d.verb = "d" /\ Stars(d) > 0 /\ d.n = 0

\* Of the others it may count more: an index behind flags or a width is not seen
\* (%#[1]x), and a % behind anything begins another directive (%5%).
AllExact(ds) == \A i \in 1..Len(ds) : Exact(ds[i])
NoneHidden(ds) == \A i \in 1..Len(ds) : Exact(ds[i]) \/ Starred(ds[i])

=============================================================================
