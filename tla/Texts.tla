-------------------------------- MODULE Texts --------------------------------
(***************************************************************************)
(* Texts as the chunker cuts them and the lookup joins them.               *)
(*                                                                         *)
(* A text is a sequence of atoms <<line, column>>; NL, FF, Dots and         *)
(* Sentinel are atoms of no line.  An atom is a character and costs a token: the    *)
(* token counter is outside the project and taken to be additive.          *)
(***************************************************************************)
EXTENDS Integers, Sequences, SequencesExt

Nil == << >>   \* None

NL == <<0, 0>>         \* a newline
Dots == <<0, 1>>       \* what stands for a collapsed body
Sentinel == <<0, 2>>   \* a note on what was left out
FF == <<0, 3>>         \* a form feed or another break that only splitlines() sees

LineBreaks == {NL, FF}

Tokens(text) == Len(text)

\* text.split("\n"), and its inverse.
Lines(text) ==
    FoldLeft(LAMBDA ls, c : IF c = NL THEN Append(ls, << >>)
                            ELSE [ls EXCEPT ![Len(ls)] = Append(@, c)],
             << << >> >>, text)

JoinLines(lines) ==
    FoldLeft(LAMBDA text, i : IF i = 1 THEN lines[1] ELSE text \o <<NL>> \o lines[i],
             << >>, [i \in DOMAIN lines |-> i])

RStrip(text) == SubSeq(text, 1, SelectLastInSeq(text, LAMBDA c : c \notin LineBreaks))
Strip(text) == Reverse(RStrip(Reverse(RStrip(text))))

Each(seq, Of(_)) == [i \in DOMAIN seq |-> Of(seq[i])]
Concat(seq, Of(_)) == FlattenSeq(Each(seq, Of))

\* The lexicographic order of sequences of numbers.
LexLess(a, b) ==
    \E i \in 1 .. Len(b) :
        /\ \A j \in 1 .. i - 1 : j <= Len(a) /\ a[j] = b[j]
        /\ i > Len(a) \/ a[i] < b[i]

\* The elements of a set, each behind those that are less.
InOrder(S, less) ==
    [k \in 1 .. Cardinality(S) |->
        CHOOSE x \in S : Cardinality({y \in S : <<y, x>> \in less}) = k - 1]

Ascending(S) == InOrder(S, {p \in S \X S : p[1] < p[2]})

NonEmpty(text) == IF text = << >> THEN << >> ELSE <<text>>
==============================================================================
