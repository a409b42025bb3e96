---------------------------- MODULE DocumentTools ----------------------------
(***************************************************************************)
(* Operations of the document tools, the MIME parser, the upload validator *)
(* and the storage listing that are loops with limits, early returns or a  *)
(* second reading of what was written, and what they should give.          *)
(***************************************************************************)
EXTENDS Integers, Sequences, SequencesExt, FiniteSetsExt, FiniteSets

Limit == [error |-> TRUE, found |-> <<>>]

-----------------------------------------------------------------------------
(* search_cells over the cells of all sheets, row by row: whether each      *)
(* contains the query.                                                      *)

Inspect(state, i, cells, maxMatches, maxCells) ==
    IF state.done \/ state.error THEN state
    ELSE IF i > maxCells THEN [state EXCEPT !.error = TRUE]
    ELSE IF ~cells[i] THEN state
    ELSE [state EXCEPT !.found = Append(@, i), !.done = Len(state.found) + 1 >= maxMatches]

SearchCells(cells, maxMatches, maxCells) ==
    LET state == FoldLeft(LAMBDA s, i : Inspect(s, i, cells, maxMatches, maxCells),
                          [found |-> <<>>, done |-> FALSE, error |-> FALSE],
                          [i \in DOMAIN cells |-> i])
    IN  IF state.error THEN Limit ELSE [error |-> FALSE, found |-> state.found]

\* The first matches, in reading order; the limit strikes exactly when they do not
\* all lie, or the search does not end, within the cells that may be inspected.
SearchAgrees(cells, maxMatches, maxCells) ==
    LET matches == SelectSeq([i \in DOMAIN cells |-> i], LAMBDA i : cells[i])
        wanted  == SubSeq(matches, 1, Min({maxMatches, Len(matches)}))
        last    == IF Len(matches) >= maxMatches THEN matches[maxMatches] ELSE Len(cells)
    IN  SearchCells(cells, maxMatches, maxCells)
           = IF last > maxCells THEN Limit ELSE [error |-> FALSE, found |-> wanted]

-----------------------------------------------------------------------------
(* search_text of a PDF: how often each page contains the query.            *)

Hit(state, page, maxMatches) ==
    IF Len(state) >= maxMatches THEN state ELSE Append(state, page)

SearchText(hits, maxMatches, maxPages) ==
    IF Len(hits) > maxPages THEN Limit
    ELSE [error |-> FALSE,
          found |-> FoldLeft(LAMBDA s, page : Hit(s, page, maxMatches), <<>>,
                             FlattenSeq([p \in DOMAIN hits |-> [k \in 1..hits[p] |-> p]]))]

\* As many matches as there are, or as were asked for, and the earliest: a page
\* is left unsearched only when nothing of it was still wanted.
PdfSearchAgrees(hits, maxMatches, maxPages) ==
    LET r        == SearchText(hits, maxMatches, maxPages)
        upTo(p)  == FoldLeft(LAMBDA a, b : a + b, 0, SubSeq(hits, 1, p))
        found(p) == Cardinality({i \in DOMAIN r.found : r.found[i] <= p})
    IN  ~r.error => /\ \A p \in DOMAIN hits : found(p) = Min({maxMatches, upTo(p)})
                    /\ \A i, j \in DOMAIN r.found : i < j => r.found[i] <= r.found[j]

-----------------------------------------------------------------------------
(* read_range from one corner to the other of a sheet.                      *)

ReadRange(from, to, sheet, maxCells) ==
    LET count == (to.row - from.row + 1) * (to.column - from.column + 1)
        width == to.column - from.column + 1
    IN  IF \/ count > maxCells
           \/ to.row > Max({sheet.row, 1}) \/ to.column > Max({sheet.column, 1})
        THEN Limit
        ELSE [error |-> FALSE,
              found |-> IF to.row < from.row \/ to.column < from.column THEN <<>>
                        ELSE [k \in 1..count |-> <<from.row + ((k - 1) \div width),
                                                   from.column + ((k - 1) % width)>>]]

\* Every cell between the corners once, in reading order, never more than the limit
\* and none outside the sheet; nothing at all if the corners are the other way round.
RangeAgrees(from, to, sheet, maxCells) ==
    LET r   == ReadRange(from, to, sheet, maxCells)
        box == (from.row..to.row) \X (from.column..to.column)
    IN  /\ Len(r.found) <= maxCells
        /\ ~r.error => /\ Range(r.found) = box /\ Len(r.found) = Cardinality(box)
                       /\ \A i \in 1..Len(r.found)-1 :
                             \/ r.found[i][1] < r.found[i + 1][1]
                             \/ r.found[i][1] = r.found[i + 1][1] /\ r.found[i][2] < r.found[i + 1][2]
        /\ (box # {} /\ Cardinality(box) <= maxCells
              /\ to.row <= sheet.row /\ to.column <= sheet.column) => ~r.error

-----------------------------------------------------------------------------
(* extract_text of a page range: pages are sequences of the sizes of their  *)
(* text blocks, 0 for one that is blank when stripped.                      *)

Gather(state, size, maxText) ==
    IF state.error \/ size = 0 THEN state
    ELSE IF state.characters + size > maxText THEN [state EXCEPT !.error = TRUE]
    ELSE [state EXCEPT !.characters = @ + size, !.found = Append(@, size)]

ExtractText(pages, start, end, maxPages, maxText) ==
    IF \/ start < 1 \/ end < start \/ end - start + 1 > maxPages
       \/ end > Len(pages)
    THEN Limit
    ELSE LET state == FoldLeft(LAMBDA s, size : Gather(s, size, maxText),
                               [found |-> <<>>, characters |-> 0, error |-> FALSE],
                               FlattenSeq(SubSeq(pages, start, end)))
         IN  IF state.error THEN Limit ELSE [error |-> FALSE, found |-> state.found]

\* All the text of the pages or an error, never a part of it.
TextAgrees(pages, start, end, maxPages, maxText) ==
    LET r    == ExtractText(pages, start, end, maxPages, maxText)
        all  == SelectSeq(FlattenSeq(SubSeq(pages, start, end)), LAMBDA size : size > 0)
        fits == FoldLeft(LAMBDA a, b : a + b, 0, all) <= maxText
    IN  r = IF start \in 1..end /\ end <= Len(pages) /\ end - start < maxPages /\ fits
            THEN [error |-> FALSE, found |-> all] ELSE Limit

-----------------------------------------------------------------------------
(* parse_mime_message: the parts of a mail in the order of walk.            *)

IsAttachment(part) ==
    part.disposition = "attachment" \/ part.named \/ part.inlined \/ part.type = "other"

Given == -1

\* A file without a name is called by the number of attachments before it.
Sorted(state, part) ==
    IF part.type = "multipart" THEN state
    ELSE IF IsAttachment(part)
         THEN [state EXCEPT !.attachments = Append(@, IF part.named THEN Given ELSE Len(@))]
    ELSE IF part.empty THEN state
    ELSE IF part.type = "plain" THEN [state EXCEPT !.text = @ + 1]
    ELSE IF part.type = "html"  THEN [state EXCEPT !.html = @ + 1]
    ELSE state

ParseMime(parts) == FoldLeft(Sorted, [attachments |-> <<>>, text |-> 0, html |-> 0], parts)

\* No part is lost but empty texts, and texts of another subtype that nothing marks
\* as a file; two attachments without a name get different ones.
MimeAgrees(parts) ==
    LET r       == ParseMime(parts)
        kept    == SelectSeq(parts, LAMBDA p : /\ p.type # "multipart"
                                               /\ IsAttachment(p) \/ (~p.empty /\ p.type # "text"))
        unnamed == {i \in DOMAIN r.attachments : r.attachments[i] # Given}
    IN  /\ Len(r.attachments) + r.text + r.html = Len(kept)
        /\ \A i, j \in unnamed : r.attachments[i] = r.attachments[j] => i = j

-----------------------------------------------------------------------------
(* What the storage writes beside a payload, and asks when it reads it.     *)
(* Extensions are classes: of a known document type, of another that is     *)
(* short enough, none, and unfit.                                           *)

Known    == {".pdf", ".csv"}
Declared == [e \in Known |-> IF e = ".csv" THEN {"text/csv", "application/csv"} ELSE {"application/pdf"}]
MimeOf   == [e \in Known |-> IF e = ".csv" THEN "text/csv" ELSE "application/pdf"]

\* validate, for the kind of content the bytes are found to be.
Validated(upload) ==
    /\ upload.name = "safe"
    /\ upload.size >= 1
    /\ upload.extension \in Known
    /\ upload.mime \in Declared[upload.extension]
    /\ upload.content = upload.extension

Refused == [kind |-> "refused"]

\* store, or store_original, up to the metadata it writes.
StoredMetadata(upload, original) ==
    LET suffix == IF upload.extension = "unfit" THEN "" ELSE upload.extension
    IN  IF ~original /\ Validated(upload)
        THEN [kind |-> "validated_upload", name |-> upload.name, suffix |-> upload.extension,
              extension |-> upload.extension, mime |-> MimeOf[upload.extension], size |-> upload.size]
        ELSE IF original /\ upload.name = "safe" /\ upload.mime # "malformed"
        THEN [kind |-> "opaque_original", name |-> upload.name, suffix |-> upload.extension,
              extension |-> suffix, mime |-> upload.mime, size |-> upload.size]
        ELSE Refused

\* _validate_metadata.
Readable(data) ==
    /\ data.name = "safe"
    /\ data.size >= 0
    /\ \/ /\ data.kind = "validated_upload"
          /\ data.size >= 1
          /\ data.extension \in Known
          /\ data.suffix = data.extension
          /\ data.mime = MimeOf[data.extension]
       \/ /\ data.kind = "opaque_original"
          /\ data.extension # "unfit"
          /\ data.mime # "malformed"

\* Whatever is stored can be read back, and only what is a document of its declared
\* type is kept as one.
StorageAgrees(upload, original) ==
    LET data == StoredMetadata(upload, original)
    IN  data # Refused => /\ Readable(data)
                          /\ data.kind = "validated_upload" => data.extension = upload.content

-----------------------------------------------------------------------------
(* list_files, a page after a key, and the walk of a caller through it.     *)

ListFiles(ids, after, limit) ==
    LET later == SelectSeq(SetToSortSeq(ids, LAMBDA a, b : a < b), LAMBDA id : id > after)
    IN  SubSeq(later, 1, Min({limit, Len(later)}))

\* A caller that goes on after the last key it got, until it could have them all.
Walk(ids, limit) ==
    FoldLeft(LAMBDA got, i : got \o ListFiles(ids, IF got = <<>> THEN 0 ELSE Last(got), limit),
             <<>>, [i \in 1..Cardinality(ids) |-> i])

\* Page after page, every object once.
PagesAgree(ids, limit) ==
    LET all == Walk(ids, limit)
    IN  Range(all) = ids /\ Len(all) = Cardinality(ids)
=============================================================================
