----------------------------- MODULE MCRetrieval -----------------------------
(***************************************************************************)
(* Instances of Retrieval for TLC: small files of every shape the chunker  *)
(* treats differently, written as outlines from which the trees are built. *)
(***************************************************************************)
EXTENDS RetrievedSource

Run == 2
Upper == 1     \* "RUN"
Runner == 3
Helper == 4
FileName(path) == 10 + path
Missing == 20

MCSameIgnoringCase == {<<a, b>> \in {Run, Upper} \X {Run, Upper} : TRUE}
MCWithin == {<<Run, Runner>>, <<Upper, Runner>>}

\* An outline: a kind, a name, the characters of its first line, its members.
Outline(kind, name, head, members) ==
    [kind |-> kind, name |-> name, head |-> head, members |-> members]

Line(w) == Outline("line", NoName, w, << >>)
Feed(w) == Outline("feed", NoName, w, << >>)   \* a statement with a form feed in it
Function(name, head, widths) ==
    Outline("function", name, head, [i \in DOMAIN widths |-> Line(widths[i])])
Class(name, head, members) == Outline("class", name, head, members)
Bodyless(kind, name, head) == Outline(kind, name, head, << >>)

\* Characters of a line from a column on.
Word(line, from, width) == [i \in 1 .. width |-> <<line, from + i>>]
FedWord(line, width) == Word(line, 0, 1) \o <<FF>> \o Word(line, 2, width - 2)

\* A node under construction has its children in it.
Leaf(kind, text) == [kind |-> kind, name |-> NoName, text |-> text, kids |-> << >>]
Branch(kind, name, kids) ==
    [kind |-> kind, name |-> name, text |-> Concat(kids, LAMBDA kid : kid.text), kids |-> kids]
Gap == Leaf("gap", <<NL>>)

Spaced(nodes) ==
    [i \in 1 .. 2 * Len(nodes) - 1 |-> IF i % 2 = 1 THEN nodes[(i + 1) \div 2] ELSE Gap]

RECURSIVE Height(_)
Height(o) ==
    IF o.kind = "binding" THEN 1
    ELSE (IF o.head = 0 /\ o.kind # "line" THEN 0 ELSE 1)
         + FoldLeft(LAMBDA h, m : h + Height(m), 0, o.members)

\* A binding holds arrow functions on one line; a statement of several lines is
\* a leaf; a decorated definition has its decorator on a line of its own.
RECURSIVE Build(_, _)
Build(o, line) ==
    LET above(i) == FoldLeft(LAMBDA h, m : h + Height(m), 0, SubSeq(o.members, 1, i - 1))
        members == [i \in DOMAIN o.members |-> Build(o.members[i], line + 1 + above(i))]
        before(i) == o.head + FoldLeft(LAMBDA h, m : h + m.head, 0, SubSeq(o.members, 1, i - 1))
        arrows == [i \in DOMAIN o.members |->
                      [Leaf("arrow", Word(line, before(i), o.members[i].head))
                          EXCEPT !.name = o.members[i].name]]
        head == Leaf("tok", Word(line, 0, o.head))
    IN  CASE o.kind = "line" -> Leaf("statement", Word(line, 0, o.head))
          [] o.kind = "feed" -> Leaf("statement", FedWord(line, o.head))
          [] o.kind = "statement" ->
                Leaf("statement", Branch("statement", NoName, Spaced(<<head>> \o members)).text)
          [] o.kind = "binding" -> Branch("binding", o.name, <<head>> \o arrows)
          [] o.kind = "decorated" -> Branch("decorated", NoName, <<head, Gap>> \o members)
          [] o.kind \in {"function", "class"} /\ o.members = << >> ->
                Branch(o.kind, o.name, <<head>>)
          [] OTHER -> Branch(o.kind, o.name,
                             <<head, Gap, Branch("block", NoName, Spaced(members))>>)

RECURSIVE Places(_)
Places(n) ==
    {<< >>} \cup UNION {{<<k>> \o p : p \in Places(n.kids[k])} : k \in DOMAIN n.kids}

TreeFrom(root) ==
    [p \in Places(root) |->
        LET n == FoldLeft(LAMBDA m, k : m.kids[k], root, p) IN [n EXCEPT !.kids = Len(@)]]

File(path, key, form, root) ==
    [path |-> path, key |-> key, name |-> FileName(path), form |-> form,
     dotted |-> TRUE, tree |-> TreeFrom(root)]

CodeFile(path, key, o) == File(path, key, "code", Branch("module", NoName, <<Build(o, 1)>>))

TextFile(form, widths) ==
    LET texts == [i \in DOMAIN widths |-> Leaf("statement", Word(i, 0, widths[i]))]
    IN  File(1, 1, form, Branch("module", NoName, Spaced(texts)))

----------------------------------------------------------------------------
(* With MaxTokens = 8: heads that leave room for a statement, for one      *)
(* character and for none, statements that fit together, alone and not.    *)

Widths(widths, n) == UNION {[1 .. k -> widths] : k \in 1 .. n}

Bodies == Widths({1, 3, 9}, 2) \cup [1 .. 3 -> {1, 3}] \cup {<<1, 9, 3>>, <<9, 1, 9>>}

Functions == {Function(Run, head, ws) : head \in {2, 5, 8}, ws \in Bodies}

Members ==
    {<<Line(2), Function(Run, 2, <<3, 1, 3>>)>>,
     <<Function(Run, 3, <<1>>), Function(Run, 2, <<4, 9>>)>>,
     <<Line(9), Function(Run, 2, <<1>>)>>,
     <<Bodyless("function", Run, 3), Bodyless("function", Runner, 9), Line(1)>>,
     <<Class(Upper, 2, <<Function(Run, 2, <<1>>), Line(1)>>), Line(2)>>,
     <<Bodyless("class", Runner, 2), Line(9)>>,
     <<Outline("decorated", NoName, 2, <<Function(Run, 2, <<3, 3>>)>>)>>,
     <<Outline("binding", Run, 2, <<Bodyless("arrow", NoName, 2), Bodyless("arrow", Helper, 1)>>)>>}

Classes == {Class(Runner, head, ms) : head \in {1, 4, 7, 8}, ms \in Members}

Others ==
    {Outline("function", Run, 2, <<Line(1), Function(Run, 1, <<3, 4>>), Line(1)>>),
     Outline("function", Run, 2, <<Outline("statement", NoName, 3, <<Line(4), Line(9)>>), Line(1)>>),
     Outline("binding", Run, 2, <<Bodyless("arrow", NoName, 2), Bodyless("arrow", NoName, 3)>>),
     Outline("binding", Run, 2, <<Bodyless("arrow", NoName, 9)>>),
     Bodyless("class", Runner, 9)}

\* Form feeds: in a function, in a class that is cut, in a line of a text and
\* between two lines.
FedFunction == Outline("function", Run, 2, <<Feed(4)>>)
FedClass == Class(Runner, 4, <<Feed(3), Function(Run, 2, <<3>>)>>)
FedText ==
    File(1, 1, "text", Branch("module", NoName, <<Leaf("statement", FedWord(1, 3)), Gap,
                                                  Leaf("statement", Word(2, 0, 2))>>))
FedGap ==
    File(1, 1, "text", Branch("module", NoName, <<Leaf("statement", Word(1, 0, 2)), Gap,
                                                  Leaf("gap", <<FF>>), Gap,
                                                  Leaf("statement", Word(3, 0, 1))>>))

Texts == {TextFile("text", ws) : ws \in Widths({0, 2, 7, 8}, 3)}
           \cup {TextFile(form, <<2, 7>>) : form \in {"data", "unparsed"}}
           \cup {FedText, FedGap}

Tagged(file, branch) == [file |-> file, branch |-> branch]

\* A file alone; with another of the branch; with one of another branch, at
\* another path or at the same.
Neighbour == Function(Run, 2, <<3, 1>>)
Neighbours ==
    {Tagged(CodeFile(2, 2, Neighbour), "main"), Tagged(CodeFile(2, 2, Neighbour), "topic"),
     Tagged(CodeFile(1, 2, Neighbour), "topic")}

Alone == {{Tagged(CodeFile(1, 1, o), "main")} : o \in Functions \cup Classes \cup Others \cup {FedFunction, FedClass}}
Pairs == UNION {{{Tagged(CodeFile(1, 1, o), "main"), n} : n \in Neighbours} : o \in Others}

MCRepositories == Alone \cup Pairs \cup {{Tagged(f, "main")} : f \in Texts}

\* A function in pieces and a text with a line that is left out, beside others.
MCSplit ==
    Pairs \cup
    {{Tagged(CodeFile(1, 1, Function(Run, 2, <<3, 3, 3>>)), "main")},
     {Tagged(TextFile("text", <<8, 2, 2>>), "main")}}

MCQueries == {Run, Upper, FileName(1), Missing}
==============================================================================
