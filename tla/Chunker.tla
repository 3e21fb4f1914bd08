------------------------------- MODULE Chunker -------------------------------
(***************************************************************************)
(* The chunker: from a parsed file to the symbols and the chunks that the  *)
(* chunk backend inserts.  Code goes through chunker/code.py, text through *)
(* chunker/basic.py; chunker/chunk.py chooses, drops what is too large and *)
(* numbers the rest.                                                       *)
(*                                                                         *)
(* A syntax tree is a function from places to nodes [kind, name, text,     *)
(* kids].  The place of a node is the sequence of the child indices that   *)
(* lead to it from the root, which is at << >>; kids is the number of its  *)
(* children, and its text is theirs one behind the other.  Blanks between  *)
(* nodes are children of kind "gap", anonymous tokens and everything       *)
(* before a body are "tok".  Indentation is left out.                      *)
(***************************************************************************)
EXTENDS Texts

CONSTANT MaxTokens   \* max_chunk_size

ASSUME MaxTokensAssumption == MaxTokens \in Nat \ {0}

----------------------------------------------------------------------------
(* Nodes.                                                                  *)

ClassKinds == {"class"}
FunctionKinds == {"function", "arrow"}
Declarations == ClassKinds \cup FunctionKinds
BodyKinds == {"block"}
Unnamed == {"gap", "tok"}   \* no is_named node

NoName == 0   \* no identifier among the children; written as a name, "anonymous"

Children(t, p) == [k \in 1 .. t[p].kids |-> Append(p, k)]
Text(t, p) == t[p].text
TextOf(t, places) == Concat(places, LAMBDA q : t[q].text)

StartLine(t, p) == Head(Text(t, p))[1]
EndLine(t, p) == Last(Text(t, p))[1]

\* A tree: every node has its parent and its children.
IsTree(t) ==
    /\ DOMAIN t \subseteq Seq(Nat) /\ IsFiniteSet(DOMAIN t) /\ << >> \in DOMAIN t
    /\ \A p \in DOMAIN t :
          /\ t[p] \in [kind : STRING, name : Int, text : Seq(Int \X Int), kids : Nat]
          /\ p # << >> => Front(p) \in DOMAIN t /\ Last(p) \in 1 .. t[Front(p)].kids
          /\ \A k \in 1 .. t[p].kids : Append(p, k) \in DOMAIN t

\* The index of the first child of these kinds, 0 when there is none.
FirstChild(t, p, kinds) == SelectInSeq(Children(t, p), LAMBDA q : t[q].kind \in kinds)

BodyIndex(t, p) == FirstChild(t, p, BodyKinds)
HasBody(t, p) == BodyIndex(t, p) > 0
Body(t, p) == Append(p, BodyIndex(t, p))

\* The source before and after the body.
BeforeBody(t, p) == TextOf(t, SubSeq(Children(t, p), 1, BodyIndex(t, p) - 1))
AfterBody(t, p) == TextOf(t, SubSeq(Children(t, p), BodyIndex(t, p) + 1, t[p].kids))

AstSignature(t, p) == RStrip(IF HasBody(t, p) THEN BeforeBody(t, p) ELSE Text(t, p))

\* A parameter of an arrow function that stands alone is its first identifier,
\* before the name it is bound to.
SymbolName(t, p) ==
    IF t[p].name = NoName /\ t[p].kind = "arrow" /\ p # << >> /\ t[Front(p)].kind = "binding"
    THEN t[Front(p)].name
    ELSE t[p].name

----------------------------------------------------------------------------
(* Splitting a text that is too large.                                     *)

\* Each piece is the longest prefix that fits, a character at least.
CharSplit(text, max) ==
    LET pieces == (Len(text) + max - 1) \div max
        Stop(i) == IF i * max < Len(text) THEN i * max ELSE Len(text)
    IN  [i \in 1 .. pieces |-> SubSeq(text, (i - 1) * max + 1, Stop(i))]

\* Lines packed into pieces; the newline between two pieces is lost.
PackedLines(text, max) ==
    LET Pack(acc, line) ==
            IF acc.current # << >> /\ acc.tokens + Tokens(line) + 1 > max
            THEN [pieces |-> Append(acc.pieces, JoinLines(acc.current)),
                  current |-> <<line>>, tokens |-> Tokens(line)]
            ELSE [pieces |-> acc.pieces, current |-> Append(acc.current, line),
                  tokens |-> acc.tokens + Tokens(line)
                                + (IF acc.current # << >> THEN 1 ELSE 0)]
    IN  FoldLeft(Pack, [pieces |-> << >>, current |-> << >>, tokens |-> 0], Lines(text))

\* Mutant: the last piece is never flushed.
NeverFlushed(packed) == packed.pieces

WithLastPiece(packed) == Append(packed.pieces, JoinLines(packed.current))

PackLines(text, max) == WithLastPiece(PackedLines(text, max))

SplitOversized(text, max) ==
    IF Tokens(text) <= max THEN <<text>>
    ELSE Concat(PackLines(text, max),
                LAMBDA p : IF Tokens(p) <= max THEN <<p>> ELSE CharSplit(p, max))

----------------------------------------------------------------------------
(* The overview of a large class.                                          *)

\* The text in front of a child becomes a unit.
Flush(acc) == acc.units \o NonEmpty(acc.run)

\* The class body as units: runs of text and collapsed functions, those of the
\* bodies in it from inner.  run is the source from last_pos on.
UnitsOver(t, block, inner) ==
    LET Collect(acc, child) ==
            IF ~HasBody(t, child) \/ t[child].kind \notin Declarations
            THEN [acc EXCEPT !.run = @ \o Text(t, child)]
            ELSE IF t[child].kind \in FunctionKinds
            THEN [units |-> Append(Flush(acc), Append(BeforeBody(t, child), Dots)),
                  run |-> AfterBody(t, child)]
            ELSE [units |-> Append(Flush(acc), BeforeBody(t, child))
                               \o inner[Body(t, child)] \o NonEmpty(AfterBody(t, child)),
                  run |-> << >>]
    IN  Flush(FoldLeft(Collect, [units |-> << >>, run |-> << >>], Children(t, block)))

CollectUnits(t, block) ==
    LET Units[b \in DOMAIN t] == UnitsOver(t, b, Units)
    IN  Units[block]

\* Mutant: the header in front of every piece is not counted.
BudgetWithoutHeader(header) == MaxTokens

\* What a header leaves of max_chunk_size.
Budget(header) == IF Tokens(header) < MaxTokens THEN MaxTokens - Tokens(header) ELSE 1

\* Units packed behind the header, budget characters in a piece.
PackUnits(header, units, budget) ==
    LET Flushed(acc) == IF acc.current = << >> THEN acc.pieces
                        ELSE Append(acc.pieces, header \o acc.current)
        Pack(acc, unit) ==
            IF Tokens(unit) > budget
            THEN [pieces |-> Flushed(acc) \o Each(SplitOversized(unit, budget),
                                                 LAMBDA sub : header \o sub),
                  current |-> << >>]
            ELSE IF Tokens(acc.current) + Tokens(unit) > budget
            THEN [pieces |-> Flushed(acc), current |-> unit]
            ELSE [acc EXCEPT !.current = @ \o unit]
        pieces == Flushed(FoldLeft(Pack, [pieces |-> << >>, current |-> << >>], units))
    IN  IF pieces = << >> THEN <<header>> ELSE pieces

Collapse(header, units, tail) ==
    IF units = << >> THEN <<header \o tail>>
    ELSE PackUnits(header, units, Budget(header))

CollapseChildren(t, p) ==
    IF HasBody(t, p)
    THEN Collapse(BeforeBody(t, p), CollectUnits(t, Body(t, p)), AfterBody(t, p))
    ELSE <<Text(t, p)>>

----------------------------------------------------------------------------
(* The pieces of a large function.                                         *)

\* A method is shown in its class: class header, "...", an empty line.
BuildFunctionHeader(t, p) ==
    LET inClass == /\ Len(p) >= 2
                   /\ t[Front(p)].kind \in BodyKinds
                   /\ t[Front(Front(p))].kind \in ClassKinds
    IN  IF inClass
        THEN BeforeBody(t, Front(Front(p))) \o <<Dots, NL, NL>> \o BeforeBody(t, p)
        ELSE BeforeBody(t, p)

\* The named children of a body, by their indices.
Statements(t, body) == {k \in 1 .. t[body].kids : t[Append(body, k)].kind \notin Unnamed}

\* Mutant: a group begins with the statement the last one ended with.
GroupAgain(groups, i) ==
    Append(groups, <<IF groups = << >> THEN i ELSE Last(groups)[2], i>>)

NextGroup(groups, i) == Append(groups, <<i, i>>)

\* Statements that fit behind the header, as first and last index; a newline
\* is counted between two of them.
GroupStatements(t, body, budget) ==
    LET Group(acc, i) ==
            LET cost == Tokens(Text(t, Append(body, i)))
            IN  IF acc.groups = << >> \/ acc.running + cost + 1 > budget
                THEN [groups |-> NextGroup(acc.groups, i), running |-> cost]
                ELSE [groups |-> [acc.groups EXCEPT ![Len(acc.groups)][2] = i],
                      running |-> acc.running + cost + 1]
    IN  FoldLeft(Group, [groups |-> << >>, running |-> 0],
                 Ascending(Statements(t, body))).groups

Pieces(texts, start, end) ==
    Each(texts, LAMBDA text : [text |-> text, start |-> start, end |-> end])

EmitBodyChunks(t, header, body, start) ==
    LET Span(g) == TextOf(t, SubSeq(Children(t, body), g[1], g[2]))
        Emit(g) == Pieces(SplitOversized(header \o <<NL>> \o Span(g), MaxTokens),
                          start, EndLine(t, Append(body, g[2])))
    IN  Concat(GroupStatements(t, body, Budget(header)), Emit)

\* Mutant: a function without a statement has no piece.
SplitStatementsOnly(t, p) ==
    IF HasBody(t, p)
    THEN EmitBodyChunks(t, BuildFunctionHeader(t, p), Body(t, p), StartLine(t, p))
    ELSE << >>

SplitLargeFunction(t, p) ==
    IF ~HasBody(t, p) \/ Statements(t, Body(t, p)) = {}
    THEN Pieces(<<Text(t, p)>>, StartLine(t, p), EndLine(t, p))
    ELSE EmitBodyChunks(t, BuildFunctionHeader(t, p), Body(t, p), StartLine(t, p))

----------------------------------------------------------------------------
(* Symbols and chunks.  The id of a symbol is that of its file and its     *)
(* place in the tree, which stands for a fresh uuid; a chunk is named by   *)
(* its symbol and its number there.                                        *)

Symbol(id, type, name, parent, start, end, signature) ==
    [id |-> id, type |-> type, name |-> name, parent |-> parent,
     start |-> start, end |-> end, signature |-> signature]

MakeChonks(symbol, pieces) ==
    {[id |-> <<symbol.id, i>>, symbol |-> symbol.id, piece |-> i - 1,
      count |-> Len(pieces),
      prev |-> IF i > 1 THEN <<symbol.id, i - 1>> ELSE Nil,
      next |-> IF i < Len(pieces) THEN <<symbol.id, i + 1>> ELSE Nil,
      content |-> pieces[i].text, start |-> pieces[i].start, end |-> pieces[i].end,
      signature |-> symbol.signature] : i \in DOMAIN pieces}

\* The symbols a walk has registered, in order, and the chunks it has yielded.
Result(symbols, chunks) == [symbols |-> symbols, chunks |-> chunks]
Nothing == Result(<< >>, {})

----------------------------------------------------------------------------
(* Files.  A file is [path, key, name, form, dotted, tree]: key stands for *)
(* its digest, dotted says whether its name has an extension.  Its form is *)
(* "code", "unparsed" when no parser loads for its language, "data" for a  *)
(* language of NON_CODE_EXTENSIONS, "text" for an unknown one.             *)

CONSTANT MaxCharacters   \* the 1 000 000 characters of should_chunk

Contents(file) == Text(file.tree, << >>)

FileId(file) == <<file.key>>
SymbolId(file, p) == FileId(file) \o p

FileSymbol(file) ==
    Symbol(FileId(file), "file", file.name, Nil, 1, Len(Lines(Contents(file))), << >>)

----------------------------------------------------------------------------
(* The walk over the tree.                                                 *)

\* The declarations above a place, by how long their places are.
Above(t, p) == {i \in 0 .. Len(p) - 1 : t[SubSeq(p, 1, i)].kind \in Declarations}

\* The declarations the walk comes to: of a declaration only the children of
\* the body are walked, of another node all.
Walked(t) ==
    {p \in DOMAIN t :
        /\ t[p].kind \in Declarations
        /\ \A i \in Above(t, p) : p[i + 1] = BodyIndex(t, SubSeq(p, 1, i))}

\* In the order in which the walk comes to them: a node is before those in it.
InWalkOrder(places) == InOrder(places, {pq \in places \X places : LexLess(pq[1], pq[2])})

\* The symbol around a place is that of the nearest declaration above it.
Owner(file, p) ==
    LET above == Above(file.tree, p)
    IN  IF above = {} THEN FileId(file) ELSE SymbolId(file, SubSeq(p, 1, Max(above)))

DeclaredSymbol(file, p) ==
    LET t == file.tree
    IN  Symbol(SymbolId(file, p), IF t[p].kind \in ClassKinds THEN "class" ELSE "method",
               SymbolName(t, p), Owner(file, p), StartLine(t, p), EndLine(t, p),
               AstSignature(t, p))

DeclarationPieces(t, p) ==
    IF Tokens(Text(t, p)) <= MaxTokens \/ t[p].kind \in ClassKinds
    THEN Pieces(IF Tokens(Text(t, p)) <= MaxTokens THEN <<Text(t, p)>> ELSE CollapseChildren(t, p),
                StartLine(t, p), EndLine(t, p))
    ELSE SplitLargeFunction(t, p)

WalkSymbols(file) == Each(InWalkOrder(Walked(file.tree)), LAMBDA p : DeclaredSymbol(file, p))

WalkChunks(file) ==
    UNION {MakeChonks(DeclaredSymbol(file, p), DeclarationPieces(file.tree, p)) :
              p \in Walked(file.tree)}

CodeChunker(file) == Result(<<FileSymbol(file)>> \o WalkSymbols(file), WalkChunks(file))

----------------------------------------------------------------------------
(* Text.                                                                   *)

\* What basic_chunker keeps free in every chunk.
Reserve == 5

\* Mutant: a line must leave the reserve free too.
LineFitsReserve(line) == Tokens(line) + Reserve < MaxTokens

LineKept(line) == Tokens(line) < MaxTokens

\* A chunk is started when what is packed leaves no room; lines count from 0.
NextChunk(acc) ==
    [acc EXCEPT !.chunks = Append(@, [text |-> acc.text, start |-> acc.start,
                                      end |-> acc.curr - 1]),
                !.text = << >>, !.tokens = 0, !.start = acc.curr]

\* Lines packed into chunks; a line of max_chunk_size or more is left out.
BasicChunker(text) ==
    LET Added(acc, line) == [acc EXCEPT !.text = @ \o line \o <<NL>>,
                                        !.tokens = @ + Tokens(line) + 1]
        Room(acc, line) ==
            IF acc.tokens + Tokens(line) + Reserve > MaxTokens THEN NextChunk(acc) ELSE acc
        Counted(acc) == [acc EXCEPT !.curr = @ + 1]
        Take(acc, line) ==
            Counted(IF LineKept(line) THEN Added(Room(acc, line), line) ELSE Room(acc, line))
    IN  NextChunk(FoldLeft(Take, [chunks |-> << >>, text |-> << >>, tokens |-> 0,
                                  start |-> 0, curr |-> 0], Lines(text))).chunks

\* The chunks that fit are numbered without those that do not.
TextChonks(symbol, texts) ==
    LET fits == {i \in DOMAIN texts : Tokens(texts[i].text) <= MaxTokens}
        Number(i) == Cardinality({j \in fits : j < i})
    IN  {[id |-> <<symbol, Number(i) + 1>>, symbol |-> symbol, piece |-> Number(i),
          count |-> 1, prev |-> Nil, next |-> Nil,
          content |-> texts[i].text, start |-> texts[i].start, end |-> texts[i].end,
          signature |-> Strip(Lines(texts[i].text)[1])] : i \in fits}

TextChunks(file) ==
    Result(<<FileSymbol(file)>>, TextChonks(FileId(file), BasicChunker(Contents(file))))

----------------------------------------------------------------------------
(* Documents.                                                              *)

IsBlank(text) == \A i \in DOMAIN text : text[i] \in LineBreaks

ChunkDocumentWithoutId(file) ==
    IF IsBlank(Contents(file)) THEN Nothing
    ELSE IF file.form = "code" THEN CodeChunker(file) ELSE TextChunks(file)

Fitting(chunks) == {c \in chunks : Tokens(c.content) <= MaxTokens}

\* The chunks that fit, and the symbols with chunk_ids, those of dropped chunks
\* included.  The index of a chunk in the file only breaks ties that do not
\* occur and is left out.
Document(result) ==
    [symbols |-> result.symbols,
     owners |-> {c.symbol : c \in result.chunks},
     chunks |-> Fitting(result.chunks)]

ChunkDocument(file) == Document(ChunkDocumentWithoutId(file))

ShouldChunk(file) ==
    /\ Len(Contents(file)) \in 1 .. MaxCharacters
    /\ file.dotted

PackToChunks(file) ==
    IF ShouldChunk(file) THEN ChunkDocument(file) ELSE Document(Nothing)

\* exp_chunk.py, which chunk_codebase_index.py imports: its test of the
\* extension of a supported language names no global and raises NameError.
ExpRaises(file) == ShouldChunk(file) /\ ~IsBlank(Contents(file)) /\ file.form # "text"
==============================================================================
