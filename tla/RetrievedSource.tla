--------------------------- MODULE RetrievedSource ---------------------------
(***************************************************************************)
(* Retrieval with the chunker: what a client reads of a file against the   *)
(* source of the file.                                                     *)
(***************************************************************************)
EXTENDS Retrieval, Chunker

FilesOf(repositories) == {e.file : e \in UNION repositories}

PackedFiles == [file \in FilesOf(Repositories) |-> PackToChunks(file)]
RaisingFiles == {file \in FilesOf(Repositories) : ExpRaises(file)}

ASSUME ChunkerAssumption == Chunked = PackedFiles /\ Raising = RaisingFiles

\* The atoms of a text that are characters.
Atoms(text) == {c \in ToSet(text) : c[1] > 0}

\* The text of a node is that of its children, which have no character in common.
IsJoined(t, p) ==
    /\ t[p].kids > 0 \/ t[p].kind \in BodyKinds => Text(t, p) = TextOf(t, Children(t, p))
    /\ \A j, k \in 1 .. t[p].kids :
          j # k => Atoms(Text(t, Append(p, j))) \cap Atoms(Text(t, Append(p, k))) = {}

\* How many lines of the source end within the first n characters: tree-sitter's
\* rows, and contents.count("\n").
Breaks(text, n) == Cardinality({i \in 1 .. n : text[i] = NL})

\* How many breaks are in a text that splitlines() sees and they do not.
OtherBreaks(text) == Cardinality({i \in DOMAIN text : text[i] = FF})

\* A node has text, which ends on a character; it begins where its parent does or
\* behind, and a character is as many lines further as newlines are before it.
HasLines(t, p) ==
    /\ Text(t, p) # << >> /\ Last(Text(t, p)) \notin LineBreaks
    /\ StartLine(t, Front(p)) <= StartLine(t, p)
    /\ \A i \in DOMAIN Text(t, p) :
          Text(t, p)[i] \notin LineBreaks =>
              Text(t, p)[i][1] = StartLine(t, p) + Breaks(Text(t, p), i)

\* What a parser returns: the root is no declaration, and no name is empty.
IsParsed(t) ==
    /\ t[<< >>].kind \notin Declarations
    /\ \A p \in DOMAIN t :
          /\ IsJoined(t, p)
          /\ p # << >> /\ t[p].kind \notin Unnamed => HasLines(t, p)
          /\ t[p].kind \in Declarations => SymbolName(t, p) # EmptyQuery

IsFile(file) ==
    /\ file.key \in Nat /\ file.path \in Int
    /\ file.name \in Int /\ file.name # EmptyQuery
    /\ IsTree(file.tree)
    /\ file.form = "code" => IsParsed(file.tree)

ASSUME FilesAssumption == \A file \in FilesOf(Repositories) : IsFile(file)

----------------------------------------------------------------------------
(* Properties.                                                             *)

\* Whatever the walk makes of a tree, insert_symbols takes it: it walks parents
\* first and gives every class and function a chunk, even one it then drops.
\* The only files that cannot be indexed are those that the chunker raises on
\* (chunk_codebase_index.py:262-309).
InsertsAccepted ==
    \A e \in refused : backend = "exp_chunk" /\ ExpRaises(e.file)

\* The file of a symbol, its tree and the place of the symbol there.
FileOf(s) == (CHOOSE e \in files : e.file.key = s.key /\ e.file.path = s.path).file
TreeOf(s) == FileOf(s).tree
PlaceOf(s) == Tail(s.id)

IsCode(s) == FileOf(s).form = "code" /\ s.type # "file"
SymbolText(s) == Text(TreeOf(s), PlaceOf(s))
Bodied(s) == HasBody(TreeOf(s), PlaceOf(s))
BodyOf(s) == Body(TreeOf(s), PlaceOf(s))
HeaderOf(s) == BeforeBody(TreeOf(s), PlaceOf(s))
Large(s) == Tokens(SymbolText(s)) > MaxTokens

\* The atoms of a text that are in a set, in their order.
Restricted(text, atoms) == Concat(text, LAMBDA c : IF c \in atoms THEN <<c>> ELSE << >>)

\* However a function is cut - at statements, at lines, at characters, its
\* header in front or not - and in whatever order its rows are loaded, its code
\* has every character of its statements once and in order
\* (code.py:394-461, retrieval_pipeline.py:506-534).
KeepsStatements ==
    Resting =>
        \A s \in db.symbols :
            IsCode(s) /\ s.type = "method" /\ Bodied(s) =>
                LET source == Concat(Ascending(Statements(TreeOf(s), BodyOf(s))),
                                     LAMBDA i : Text(TreeOf(s), Append(BodyOf(s), i)))
                IN  Restricted(CodeOf(s), Atoms(source)) = Restricted(source, Atoms(source))

\* The text of a class body without the bodies of its functions.
Skeleton(t, block) ==
    LET Shown[p \in DOMAIN t] ==
            IF HasBody(t, p) /\ t[p].kind \in Declarations
            THEN BeforeBody(t, p)
                 \o (IF t[p].kind \in FunctionKinds THEN << >>
                     ELSE Concat(Children(t, Body(t, p)), LAMBDA q : Shown[q]))
                 \o AfterBody(t, p)
            ELSE Text(t, p)
    IN  Concat(Children(t, block), LAMBDA q : Shown[q])

\* The overview of a large class has everything of its body but the bodies of
\* its functions, once and in order, unless its header leaves no room for more
\* (code.py:223-341).
OverviewKeeps ==
    Resting =>
        \A s \in db.symbols :
            /\ IsCode(s) /\ s.type = "class" /\ Large(s) /\ Bodied(s)
            /\ Tokens(HeaderOf(s)) < MaxTokens
            => LET skeleton == Skeleton(TreeOf(s), BodyOf(s))
                   body == Atoms(Text(TreeOf(s), BodyOf(s)))
               IN  Restricted(CodeOf(s), body) = Restricted(skeleton, body)

\* Every chunk fits, and a symbol without code is too large and cannot be cut: a
\* function without a statement, a class without a body, or a class whose header
\* alone fills the chunk (chunk.py:117 drops its chunks without a word).
OnlyUnsplittableDropped ==
    /\ \A c \in db.chunks : Tokens(c.content) <= MaxTokens /\ c.start <= c.end + 1
    /\ Resting =>
          \A s \in db.symbols :
              IsCode(s) /\ LoadChunks(db, s.id) = {} =>
                  /\ Large(s)
                  /\ \/ ~Bodied(s)
                     \/ s.type = "method" /\ Statements(TreeOf(s), BodyOf(s)) = {}
                     \/ s.type = "class" /\ Tokens(HeaderOf(s)) >= MaxTokens

\* A symbol whose code is its source: no function or class in pieces, no text
\* with a line left out.
SourceOf(s) == IF s.type = "file" THEN Append(Contents(FileOf(s)), NL) ELSE SymbolText(s)
Unsplit(s) == CodeOf(s) = SourceOf(s)

\* A file that is no code is found whole under its file symbol, but for the
\* lines of max_chunk_size and more (basic.py:40).  A symbol is numbered by the
\* newlines of the file and its answers are cut by splitlines() (handlers.py:144,
\* 424): where its code is its source, they differ by exactly the other breaks of
\* the source, so the lines counted are those of the file when it has none.
TextKeepsLines ==
    Resting =>
        \A s \in db.symbols :
            /\ s.type = "file" /\ FileOf(s).form # "code" =>
                  CodeOf(s) = Concat(Lines(Contents(FileOf(s))),
                                     LAMBDA line : IF Tokens(line) < MaxTokens
                                                   THEN Append(line, NL) ELSE << >>)
            /\ Unsplit(s) =>
                  LineCount(SourceOf(s)) = s.end - s.start + 1 + OtherBreaks(SourceOf(s))

\* The promise of the tool description "Line numbers are absolute file lines":
\* the lines of a range are from the lines it says (tools.py:126).
RangeIsLines ==
    reading # Closed /\ reading.mode = "range" =>
        \A c \in Atoms(reading.got) : c[1] \in reading.reply.start .. reading.reply.end
==============================================================================
