------------------------------ MODULE Retrieval ------------------------------
(***************************************************************************)
(* From chunked files to what a client reads of them: the files of a       *)
(* repository are inserted (chunk_codebase_index.py), then a client looks  *)
(* names up, opens a symbol, reads on when the answer is truncated, asks   *)
(* for a range of lines, or uses api.py with its options.                  *)
(*                                                                         *)
(* The index does not change while it is read: IndexRefresh and McpSession *)
(* are about that.  What the chunker makes of a file is a parameter here;  *)
(* RetrievedSource has the chunker itself.                                 *)
(***************************************************************************)
EXTENDS SymbolLookup

CONSTANTS
    Repositories,  \* sets of files with the branch each is indexed for
    Chunked,       \* what pack_to_chunks makes of each file
    Raising,       \* the files exp_chunk.py raises on
    Backends,      \* modules chunk_codebase_index.py takes the chunker from
    LongPaths,     \* can the directory be too long for a tag?
    Session,       \* the branch the session runs on
    Queries,       \* names that are looked up
    CharLimits,    \* character limits of the handlers
    LineLimits     \* max_lines of the api

\* base/index_d.py: a symbol and a chunk as the chunker hands them over.
SymbolRecord ==
    [id : Seq(Int), type : {"class", "file", "method"}, name : Int, parent : Seq(Int),
     start : Int, end : Int, signature : Seq(Int \X Int)]

ChunkRecord ==
    [id : Seq(Int) \X Int, symbol : Seq(Int), piece : Int, count : Int,
     prev : {Nil} \cup (Seq(Int) \X Int), next : {Nil} \cup (Seq(Int) \X Int),
     content : Seq(Int \X Int), start : Int, end : Int, signature : Seq(Int \X Int)]

\* No name and no id is empty, ids are used once, and a chunk is of a symbol of
\* its file and the only one with its number there.
WellFormed(packed) ==
    /\ packed.symbols \in Seq(SymbolRecord)
    /\ packed.chunks \subseteq ChunkRecord /\ IsFiniteSet(packed.chunks)
    /\ \A i, j \in DOMAIN packed.symbols : packed.symbols[i].id = packed.symbols[j].id => i = j
    /\ \A c, d \in packed.chunks : c.id = d.id => c = d
    /\ \A s \in ToSet(packed.symbols) : s.name # EmptyQuery /\ s.id # Nil
    /\ \A c \in packed.chunks : \E s \in ToSet(packed.symbols) : c.symbol = s.id
    /\ \A c, d \in packed.chunks : c.symbol = d.symbol /\ c.piece = d.piece => c = d

\* Ids are fresh: those of two files differ.
Apart(a, b) ==
    /\ \A s \in ToSet(a.symbols), r \in ToSet(b.symbols) : s.id # r.id
    /\ \A c \in a.chunks, d \in b.chunks : c.id # d.id

ASSUME ChunkedAssumption ==
    \A repository \in Repositories :
        /\ \A e \in repository : e.file.path \in Int /\ WellFormed(Chunked[e.file])
        /\ \A e, f \in repository : e # f => Apart(Chunked[e.file], Chunked[f.file])

\* No two files have the same contents, which IndexRefresh is about, and a branch
\* has one version of a path.
ASSUME RepositoriesAssumption ==
    \A repository \in Repositories : \A e, f \in repository :
        /\ e.file.key = f.file.key => e = f
        /\ e.file.path = f.file.path /\ e.branch = f.branch => e = f

\* The handlers' limit, 12000 characters, leaves room in front of the marker.
ASSUME CharLimitsAssumption == \A limit \in CharLimits : limit \in Nat /\ limit > Len(Marker)

\* _validate_render_options refuses negative limits.
ASSUME LineLimitsAssumption == LineLimits \subseteq Nat

VARIABLES
    backend,   \* "chunk" or "exp_chunk"
    longPath,  \* is the directory's path too long for a tag?
    todo,      \* files that are not indexed yet, with their branches
    files,     \* files that are
    refused,   \* files whose indexing raised
    db,        \* the rows
    found,     \* the ids the last lookup showed
    reading,   \* the symbol the client reads, and what it has read of it
    answer     \* what the api has answered

vars == <<backend, longPath, todo, files, refused, db, found, reading, answer>>

Closed == [mode |-> "closed"]
NoAnswer == [codes |-> {}]

NoRows == [symbols |-> {}, chunks |-> {}, tags |-> {}]

Init ==
    /\ backend \in Backends /\ longPath \in LongPaths
    /\ todo \in Repositories
    /\ files = {} /\ refused = {}
    /\ db = NoRows
    /\ found = {} /\ reading = Closed /\ answer = NoAnswer

----------------------------------------------------------------------------
(* Indexing.                                                               *)

\* insert_symbols wants parents first and a chunk for every symbol but files.
InsertRaises(packed) ==
    \/ \E i \in DOMAIN packed.symbols :
          /\ packed.symbols[i].parent # Nil
          /\ \A j \in 1 .. i - 1 : packed.symbols[j].id # packed.symbols[i].parent
    \/ \E i \in DOMAIN packed.symbols :
          /\ packed.symbols[i].type # "file"
          /\ packed.symbols[i].id \notin packed.owners

WithFile(row, file) ==
    [f \in DOMAIN row \cup {"path", "key"} |->
        IF f = "path" THEN file.path ELSE IF f = "key" THEN file.key ELSE row[f]]

SymbolRows(file, packed) == {WithFile(s, file) : s \in ToSet(packed.symbols)}
ChunkRows(file, packed) == {WithFile(c, file) : c \in packed.chunks}

\* Up to 240 characters a tag has the directory's path, beyond that a hash of
\* it; the scope of a lookup always has the path.
TagToString(branch) == IF longPath THEN <<"hashed", branch>> ELSE <<"plain", branch>>
ScopeTag(branch) == <<"plain", branch>>

\* Mutant: only symbols with a chunk are inserted.
InsertedOwners(rows, entry, packed) ==
    [symbols |-> rows.symbols \cup {s \in SymbolRows(entry.file, packed) : s.id \in packed.owners},
     chunks |-> rows.chunks \cup ChunkRows(entry.file, packed),
     tags |-> rows.tags \cup {<<TagToString(entry.branch), c.id>> : c \in packed.chunks}]

DeletedRows(key) ==
    LET kept == {c \in db.chunks : c.key # key}
    IN  [symbols |-> {s \in db.symbols : s.key # key}, chunks |-> kept,
         tags |-> {t \in db.tags : \E c \in kept : t[2] = c.id}]

InsertedRows(rows, entry, packed) ==
    [symbols |-> rows.symbols \cup SymbolRows(entry.file, packed),
     chunks |-> rows.chunks \cup ChunkRows(entry.file, packed),
     tags |-> rows.tags \cup {<<TagToString(entry.branch), c.id>> : c \in packed.chunks}]

\* A file whose chunker raises keeps the rows it had; one whose insert raises
\* has none left.
IndexFile(entry) ==
    LET Raised == refused' = refused \cup {entry} /\ UNCHANGED files
        Emptied == DeletedRows(entry.file.key)
        packed == Chunked[entry.file]
    IN  /\ todo' = todo \ {entry}
        /\ IF backend = "exp_chunk" /\ entry.file \in Raising
           THEN Raised /\ UNCHANGED db
           ELSE IF InsertRaises(packed)
           THEN Raised /\ db' = Emptied
           ELSE /\ files' = files \cup {entry}
                /\ db' = InsertedRows(Emptied, entry, packed)
                /\ UNCHANGED refused
        /\ UNCHANGED <<backend, longPath, found, reading, answer>>

----------------------------------------------------------------------------
(* The client.                                                             *)

SessionScope(paths) == Scope({ScopeTag(Session)}, paths)

\* Between two questions: everything is indexed, nothing is asked.
Resting == todo = {} /\ found = {} /\ reading = Closed /\ answer = NoAnswer

LookUp(names) ==
    /\ Resting
    /\ found' = {shown.id : shown \in LookupResponse(
                     {Lookup(db, n, Nil, SessionScope({}), Whole) : n \in names})}
    /\ UNCHANGED <<backend, longPath, todo, files, refused, db, reading, answer>>

\* What a truncated answer holds of the code, the marker at its end left out.
Kept(reply) ==
    IF reply.truncated THEN Front(reply.code) ELSE reply.code

Open(id, limit) ==
    /\ \E reply \in GetSymbol(db, id, SessionScope({}), limit) :
          reading' = [mode |-> "whole", id |-> id, limit |-> limit, end |-> reply.end,
                      reply |-> reply, got |-> Kept(reply)]
    /\ found' = {}
    /\ UNCHANGED <<backend, longPath, todo, files, refused, db, answer>>

\* The lines behind those a truncated answer returned, up to the symbol's end.
ReadOn ==
    /\ reading.mode = "whole"
    /\ reading.reply.truncated
    /\ \E reply \in GetSymbolRange(db, reading.id, reading.reply.returnedEnd + 1,
                                   reading.end, SessionScope({}), reading.limit) :
          reading' = [reading EXCEPT !.reply = reply, !.got = @ \o Kept(reply)]
    /\ UNCHANGED <<backend, longPath, todo, files, refused, db, found, answer>>

AskRange(id, first, last, limit) ==
    /\ 1 <= first /\ first <= last
    /\ \E reply \in GetSymbolRange(db, id, first, last, SessionScope({}), limit) :
          reading' = [mode |-> "range", id |-> id, limit |-> limit, end |-> last,
                      reply |-> reply, got |-> Kept(reply)]
    /\ found' = {}
    /\ UNCHANGED <<backend, longPath, todo, files, refused, db, answer>>

\* api.lookup_symbol gives the selected symbol, api.resolve_lookup every match
\* when none is: with the id of a match or without.
Operations == {"lookup", "resolve"}

Ask(operation, name, chosen, paths, how) ==
    /\ Resting
    /\ \E result \in {Lookup(db, name, chosen, SessionScope(paths), how)} :
          /\ ~result.invalid
          /\ answer' = [operation |-> operation, how |-> how,
                        codes |-> IF operation = "lookup" THEN result.selected
                                  ELSE ResolveLookup(db, result, SessionScope(paths), how)]
    /\ UNCHANGED <<backend, longPath, todo, files, refused, db, found, reading>>

\* The next question is another one.
Finish ==
    /\ ~Resting /\ todo = {}
    /\ found' = {} /\ reading' = Closed /\ answer' = NoAnswer
    /\ UNCHANGED <<backend, longPath, todo, files, refused, db>>

Ids == {s.id : s \in db.symbols}
LinesOf(id) == UNION {s.start - 1 .. s.end + 1 : s \in {r \in db.symbols : r.id = id}}
Renderings == [detail : {"body", "signature"}, children : BOOLEAN, maxLines : LineLimits]

Next ==
    \/ \E entry \in todo : IndexFile(entry)
    \/ \E n, m \in Queries : LookUp({n, m})
    \/ \E id \in found, limit \in CharLimits : Open(id, limit)
    \/ ReadOn
    \/ Finish
    \/ \E id \in found, limit \in CharLimits :
          \E first, last \in LinesOf(id) : AskRange(id, first, last, limit)
    \/ \E operation \in Operations, n \in Queries, chosen \in Ids \cup {Nil}, how \in Renderings :
          \E paths \in {{}} \cup {{e.file.path} : e \in files} :
              Ask(operation, n, chosen, paths, how)

Spec == Init /\ [][Next]_vars

----------------------------------------------------------------------------
(* Properties.                                                             *)

\* Every chunk has a symbol and every symbol its parent, ids name one row, and
\* nothing has the tag of a branch it was not indexed for.
TypeOK ==
    /\ backend \in Backends
    /\ files \cap refused = {} /\ (files \cup refused) \cap todo = {}
    /\ \A s \in db.symbols : s.parent = Nil \/ s.parent \in Ids
    /\ \A c \in db.chunks : c.symbol \in Ids
    /\ \A r, s \in db.symbols : r.id = s.id => r = s
    /\ \A c, d \in db.chunks : c.id = d.id => c = d
    /\ \A t \in db.tags : \E e \in files, c \in db.chunks :
          c.key = e.file.key /\ t = <<TagToString(e.branch), c.id>>
    /\ found \subseteq Ids
    /\ reading.mode \in {"closed", "whole", "range"}

\* Reading on never returns to a line: every further answer ends behind the one
\* before it, in symbols in pieces too, so it comes to an end
\* (handlers.py:154).
ReadingAdvances ==
    [][reading # Closed /\ reading'.mode = "whole" /\ reading' # reading =>
          reading'.reply.returnedEnd > reading.reply.returnedEnd]_vars

\* Does the session's branch hold the symbol's file with any chunk?
OnBranch(s) ==
    \E e \in files : /\ e.file.key = s.key /\ e.file.path = s.path /\ e.branch = Session
                     /\ \E c \in db.chunks : c.key = s.key /\ c.path = s.path

\* Looking a symbol up by its name finds it - or one with the same lines and as
\* many pieces - even when it has no chunk of its own; and nothing found is from
\* another branch, even from the same path.  Under a path too long for a tag
\* nothing is found at all (retrieval_pipeline.py:135-150, 361, 379-398).
FindsThisBranch ==
    Resting =>
        IF longPath
        THEN \A n \in Queries : FindSymbols(db, n, SessionScope({})) = {}
        ELSE /\ \A s \in db.symbols :
                   OnBranch(s) <=> \E m \in FindSymbols(db, s.name, SessionScope({})) :
                                      /\ DedupeKey(db, m) = DedupeKey(db, s)
                                      /\ m.key = s.key
             /\ \A n \in Queries : \A m \in FindSymbols(db, n, SessionScope({})) : OnBranch(m)

\* The row and the code of a symbol.
RowOf(id) == CHOOSE s \in db.symbols : s.id = id
CodeOf(s) == (CHOOSE c \in Reconstruct(db, s.id, Scope({}, {}), Whole) : TRUE).code

\* Has a text no line longer than size?
LinesFit(text, size) == \A i \in DOMAIN KeptLines(text) : Len(KeptLines(text)[i]) <= size

\* A client that reads on from where the truncated answer says it ended has in
\* the end the code of the symbol, all of it once and in order - when no line is
\* longer than an answer and the code has no more lines than the symbol: in
\* pieces that repeat a header it may have.  A range that is not truncated has
\* the lines it was asked for (handlers.py:123-161, 418-434).
ReadsAreWhole ==
    reading # Closed /\ ~reading.reply.truncated =>
        LET s == RowOf(reading.id)
            code == CodeOf(s)
            first == reading.reply.start - s.start + 1
            last == reading.reply.end - s.start + 1
        IN  /\ /\ reading.mode = "whole"
               /\ LinesFit(code, reading.limit - Len(Marker))
               /\ LineCount(code) <= s.end - s.start + 1
               => reading.got = code
            /\ reading.mode = "range" /\ last <= LineCount(code)
               => reading.got = FlattenSeq(SubSeq(KeptLines(code), first, last))

\* Codes and, round after round, those below them.
WithBelow(codes, depth) ==
    LET Down[n \in 0 .. depth] ==
            IF n = 0 THEN codes
            ELSE Down[n - 1] \cup UNION {ToSet(c.children) : c \in Down[n - 1]}
    IN  Down[depth]

\* Code shown up to maxLines lines (0: all): all of it when it has no more lines,
\* else a beginning that has no more and the note, on a line of its own.
Honoured(code, full, maxLines) ==
    \/ code = full /\ (maxLines = 0 \/ LineCount(full) <= maxLines)
    \/ /\ maxLines > 0
       /\ \E n \in 0 .. Len(full) :
             LET shown == SubSeq(full, 1, n)
             IN  /\ LineCount(shown) <= maxLines
                 /\ code \in {shown \o <<Sentinel>>, shown \o <<NL, Sentinel>>}

\* Does the limit of the answer hold in every symbol of its trees?
AnswerHonoured ==
    \A c \in WithBelow(answer.codes, Cardinality(db.symbols)) :
        Honoured(c.code, CodeOf(RowOf(c.id)), answer.how.maxLines)

\* With max_lines, lookup_symbol shows of every symbol in its tree at most that
\* many lines and then the note, and all of the code without a note only when it
\* has no more lines than that (retrieval_pipeline.py:537-563, api.py:271-272).
LimitHonoured ==
    answer # NoAnswer /\ answer.operation = "lookup" /\ answer.how.detail = "body" =>
        AnswerHonoured
==============================================================================
