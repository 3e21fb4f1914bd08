---------------------------- MODULE SymbolLookup ----------------------------
(***************************************************************************)
(* Lookup and reconstruction of symbols: retrieval/retrieval_pipeline.py   *)
(* and what mcp/handlers.py makes of a reconstructed symbol, as operators  *)
(* on the rows of the index.                                               *)
(*                                                                         *)
(* db is [symbols, chunks, tags]: sets of rows, tags a set of pairs of a   *)
(* tag and a chunk id.  A symbol row and a chunk row also have the path    *)
(* and the key of their file.  Names and paths are numbers in the order of *)
(* their text; a query that is no name of a symbol is a number too.        *)
(***************************************************************************)
EXTENDS Texts

CONSTANTS
    EmptyQuery,         \* a query without a character
    SameIgnoringCase,   \* pairs of names equal under COLLATE NOCASE
    Within              \* pairs of names, the first in the second, lowered

----------------------------------------------------------------------------
(* Scope: which symbols a lookup sees.  An empty set restricts nothing.    *)

Scope(tags, paths) == [tags |-> tags, paths |-> paths]

PathInScope(row, scope) == scope.paths = {} \/ row.path \in scope.paths

\* Mutant: the chunk must be one of the symbol itself.
OwnTagInScope(db, row, scope) ==
    \/ scope.tags = {}
    \/ \E c \in db.chunks : c.symbol = row.id /\ \E t \in scope.tags : <<t, c.id>> \in db.tags

\* Some chunk of the same contents of the same file has a tag of the scope.
TagInScope(db, row, scope) ==
    \/ scope.tags = {}
    \/ \E c \in db.chunks :
          /\ c.key = row.key /\ c.path = row.path
          /\ \E t \in scope.tags : <<t, c.id>> \in db.tags

InScope(db, row, scope) == PathInScope(row, scope) /\ TagInScope(db, row, scope)

\* The row of an id, as a set of at most one.
SymbolRow(db, id, scope) == {s \in db.symbols : s.id = id /\ InScope(db, s, scope)}

----------------------------------------------------------------------------
(* Order.                                                                  *)

TypeRank == [class |-> 1, file |-> 2, method |-> 3]

\* The order of uuids is arbitrary: that of the tree stands for it.
SymbolSortKey(s) == <<s.path, s.start, s.end, TypeRank[s.type], s.name>> \o s.id

Before(a, b) == LexLess(SymbolSortKey(a), SymbolSortKey(b))

InSymbolOrder(rows) == InOrder(rows, {p \in rows \X rows : Before(p[1], p[2])})

\* The chunks of one symbol: its index among them decides.
PieceSortKey(c) == <<c.piece, c.count, c.start, c.end>>

InPieceOrder(rows) ==
    InOrder(rows, {p \in rows \X rows : LexLess(PieceSortKey(p[1]), PieceSortKey(p[2]))})

----------------------------------------------------------------------------
(* Finding.                                                                *)

LoadChunks(db, id) == {c \in db.chunks : c.symbol = id}

DedupeKey(db, s) ==
    <<s.path, s.start, s.end, Cardinality(LoadChunks(db, s.id))>>

\* The first row of every key.
Deduplicate(db, rows) ==
    {s \in rows :
        ~ \E r \in rows : DedupeKey(db, r) = DedupeKey(db, s) /\ Before(r, s)}

FirstNonEmpty(a, b, c) == IF a # {} THEN a ELSE IF b # {} THEN b ELSE c

\* Exact names, else names equal but for case, else names that contain it.
Matching(rows, name) ==
    FirstNonEmpty({s \in rows : s.name = name},
                  {s \in rows : <<name, s.name>> \in SameIgnoringCase},
                  {s \in rows : <<name, s.name>> \in Within})

\* The order of the matches decides which of two equal ones is kept, and nothing
\* else: they are a set.
FindSymbols(db, name, scope) ==
    IF name = EmptyQuery THEN {}
    ELSE Deduplicate(db, Matching({s \in db.symbols : InScope(db, s, scope)}, name))

----------------------------------------------------------------------------
(* Reconstruction.                                                         *)

\* The chain of pieces from a set of heads, as far as its links go.
Chain(rows, heads) ==
    LET Linked(sofar) == IF sofar = << >> THEN heads ELSE {c \in rows : c.id = Last(sofar).next}
        Extended(sofar) == sofar \o SetToSeq(Linked(sofar))
        Follow[n \in 0 .. Cardinality(rows)] ==
            IF n = 0 THEN << >> ELSE Extended(Follow[n - 1])
    IN  Follow[Cardinality(rows)]

\* What a chain does not reach comes behind it.
WithRest(chain, rows) == chain \o InPieceOrder(rows \ ToSet(chain))

\* The chunks of a symbol along their chain; all by index when it has no
\* single head.
OrderedChunks(rows) ==
    LET heads == {c \in rows : c.prev = Nil}
    IN  IF Cardinality(rows) >= 2 /\ Cardinality(heads) = 1
        THEN WithRest(Chain(rows, heads), rows)
        ELSE InPieceOrder(rows)

\* Where splitlines() ends the lines of a text: at a newline, at a form feed, at
\* the end.  text.splitlines(keepends=True) and its length.
LineEnds(text) == {i \in 1 .. Len(text) : text[i] \in LineBreaks \/ i = Len(text)}

LineCount(text) == Cardinality(LineEnds(text))

KeptLines(text) ==
    LET ends == Ascending(LineEnds(text))
    IN  [k \in 1 .. LineCount(text) |->
            SubSeq(text, IF k = 1 THEN 1 ELSE ends[k - 1] + 1, ends[k])]

\* Mutant: every piece is held against the limit by itself.
EachWithin(pieces, maxLines) ==
    {n \in 0 .. Len(pieces) : \A k \in 1 .. n : LineCount(pieces[k]) <= maxLines}

\* How many pieces have up to maxLines lines together.
TogetherWithin(pieces, maxLines) ==
    {n \in 0 .. Len(pieces) :
        \A k \in 1 .. n : LineCount(FlattenSeq(SubSeq(pieces, 1, k))) <= maxLines}

\* Pieces with the note that others were left out, on a line of its own.
WithNote(pieces, text) ==
    [pieces |-> pieces,
     code |-> text \o (IF text = << >> \/ Last(text) = NL THEN << >> ELSE <<NL>>)
                   \o <<Sentinel>>]

\* The first n pieces.
UpTo(pieces, n) ==
    IF n = Len(pieces) THEN [pieces |-> pieces, code |-> FlattenSeq(pieces)]
    ELSE WithNote(SubSeq(pieces, 1, n), FlattenSeq(SubSeq(pieces, 1, n)))

\* Whole pieces up to maxLines lines, then a note of what is left out.
LimitPieces(pieces, maxLines) ==
    UpTo(pieces, IF maxLines = 0 THEN Len(pieces) ELSE Max(TogetherWithin(pieces, maxLines)))

\* The signature of the first piece, Nil when there is no piece.
PieceSignature(ordered) ==
    LET firsts == SelectSeq(ordered, LAMBDA c : c.piece = 0)
    IN  CASE firsts # << >> -> firsts[1].signature
          [] firsts = << >> /\ ordered # << >> -> ordered[1].signature
          [] OTHER -> Nil

Descendants(db, id) ==
    LET Children(S) == {s.id : s \in {r \in db.symbols : r.parent \in S}}
        Below[n \in 0 .. Cardinality(db.symbols)] ==
            IF n = 0 THEN Children({id}) ELSE Below[n - 1] \cup Children(Below[n - 1])
    IN  {s \in db.symbols : s.id \in Below[Cardinality(db.symbols)]}

SymbolCode(row, signature, limited, children) ==
    [id |-> row.id, name |-> row.name, type |-> row.type, path |-> row.path,
     start |-> row.start, end |-> row.end, signature |-> signature,
     code |-> limited.code, pieces |-> limited.pieces, children |-> children]

\* The code of a symbol from its ordered chunks.
CodeOfChunks(row, ordered, maxLines, children) ==
    SymbolCode(row, PieceSignature(ordered),
               LimitPieces(Each(ordered, LAMBDA c : c.content), maxLines), children)

BuildCodeTree(db, row, rows, maxLines) ==
    LET Code(s, children) ==
            CodeOfChunks(s, OrderedChunks(LoadChunks(db, s.id)), maxLines, children)
        Children(s) == InSymbolOrder({r \in rows : r.parent = s.id})
        Below[s \in rows] == Code(s, Each(Children(s), LAMBDA child : Below[child]))
    IN  Code(row, Each(Children(row), LAMBDA child : Below[child]))

\* Signatures instead of code; only the children of the root are kept.
SignatureTree(code, maxLines) ==
    LET Bare(c, children) ==
            [c EXCEPT !.code = LimitPieces(NonEmpty(c.signature), maxLines).code,
                      !.pieces = << >>, !.children = children]
    IN  Bare(code, Each(code.children, LAMBDA child : Bare(child, << >>)))

Rendered(tree, how) ==
    IF how.detail = "body" THEN tree ELSE SignatureTree(tree, how.maxLines)

\* How a symbol is rendered: as body or signature, with its children or not,
\* up to so many lines (0: all).
Whole == [detail |-> "body", children |-> TRUE, maxLines |-> 0]

\* The symbol of an id in scope, as a set of at most one.
Reconstruct(db, id, scope, how) ==
    LET Below(row) == IF how.children /\ row.type \in {"file", "class"}
                      THEN {s \in Descendants(db, row.id) : PathInScope(s, scope)}
                      ELSE {}
    IN  {Rendered(BuildCodeTree(db, row, Below(row), how.maxLines), how) :
            row \in SymbolRow(db, id, scope)}

\* What is selected among matches: the chosen one, or the only one.
Selected(matches, chosen) ==
    IF chosen # Nil THEN {chosen}
    ELSE IF Cardinality(matches) = 1 THEN {s.id : s \in matches} ELSE {}

\* The matches of a name and, when one is selected, its code.
LookupAmong(db, matches, selected, scope, how) ==
    LET ids == {s.id : s \in matches}
    IN  [matches |-> matches,
         invalid |-> ~(selected \subseteq ids),
         selected |-> UNION {Reconstruct(db, id, scope, how) : id \in selected \cap ids}]

LookupIn(db, matches, chosen, scope, how) ==
    LookupAmong(db, matches, Selected(matches, chosen), scope, how)

Lookup(db, name, chosen, scope, how) ==
    LookupIn(db, FindSymbols(db, name, scope), chosen, scope, how)

\* api.resolve_lookup: the code of the selected symbol or else of every match,
\* the latter with its children and all its lines.
ResolveLookup(db, found, scope, how) ==
    LET all == [how EXCEPT !.children = TRUE, !.maxLines = 0]
    IN  IF found.selected # {} THEN found.selected
        ELSE UNION {Reconstruct(db, s.id, scope, all) : s \in found.matches}

----------------------------------------------------------------------------
(* Answers of the handlers: a symbol's code cut to a number of characters. *)

Marker == <<Sentinel>>   \* "...(truncated)...", as one character

Reply(code, text, truncated, returnedEnd) ==
    [id |-> code.id, path |-> code.path, start |-> code.start, end |-> code.end,
     code |-> text, truncated |-> truncated, returnedEnd |-> returnedEnd]

\* The whole lines that fit in front of the marker; when the first one does not
\* fit, as much of it as does.
FittingPrefix(text, budget) ==
    LET ends == {i \in LineEnds(text) : i <= budget}
    IN  SubSeq(text, 1, IF ends = {} THEN budget ELSE Max(ends))

\* Mutants: one line too far; the last line that is surely whole.
LastLineAfter(code, prefix) == code.start + LineCount(prefix)
LastLineBefore(code, prefix) == code.start + LineCount(prefix) - 2

LastLineOf(code, prefix) ==
    code.start + (IF LineCount(prefix) > 1 THEN LineCount(prefix) - 1 ELSE 0)

CutReply(code, prefix) == Reply(code, prefix \o Marker, TRUE, LastLineOf(code, prefix))

TruncateText(code, limit) ==
    IF Len(code.code) <= limit THEN Reply(code, code.code, FALSE, code.end)
    ELSE IF limit <= Len(Marker)
    THEN Reply(code, SubSeq(Marker, 1, limit), TRUE, code.start - 1)
    ELSE CutReply(code, FittingPrefix(code.code, limit - Len(Marker)))

GetSymbol(db, id, scope, limit) ==
    {TruncateText(code, limit) : code \in Reconstruct(db, id, scope, Whole)}

\* The lines from first to last of the file, taken by their distance from the
\* start of the symbol: RANGE_EMPTY is no answer.
Slice(lines, first, last) ==
    SubSeq(lines, first + 1, IF last < Len(lines) THEN last ELSE Len(lines))

RangeOf(code, first, last) ==
    LET Ranged(from, to) ==
            [code EXCEPT !.code = FlattenSeq(Slice(KeptLines(code.code), from - code.start,
                                                   to - code.start + 1)),
                         !.start = from, !.end = to]
        From == Max({first, code.start})
        To == Min({last, code.end})
    IN  IF From > To THEN {} ELSE {Ranged(From, To)}

GetSymbolRange(db, id, first, last, scope, limit) ==
    UNION {{TruncateText(ranged, limit) : ranged \in RangeOf(code, first, last)} :
              code \in Reconstruct(db, id, scope, Whole)}

\* What lookup_symbol shows: the selected symbol, or all matches.  One name
\* without a match makes the whole call an error, shown as the empty set.
Entries(result) ==
    LET Entry(s) == [id |-> s.id, start |-> s.start, end |-> s.end, signature |-> s.signature]
    IN  {Entry(s) : s \in IF result.selected # {} THEN result.selected
                            ELSE result.matches}

LookupResponse(results) ==
    IF \E r \in results : Entries(r) = {} THEN {} ELSE UNION {Entries(r) : r \in results}
==============================================================================
