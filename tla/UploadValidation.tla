--------------------------- MODULE UploadValidation ---------------------------
(***************************************************************************)
(* What the upload validator finds out about the bytes of a file, and the  *)
(* tools that open the file later and have to come to the same opinion.    *)
(*                                                                         *)
(* Files are sequences of the things the checks tell apart; what a library *)
(* says of a format is a field of the input.                               *)
(***************************************************************************)
EXTENDS Integers, Sequences, SequencesExt, FiniteSetsExt, Functions

Total(s) == FoldLeft(LAMBDA a, b : a + b, 0, s)

\* _write_staged: the chunks of a source are counted before they are written.
WriteStaged(chunks, maxSize) ==
    FoldLeft(LAMBDA s, chunk :
                IF s.error THEN s
                ELSE IF s.size + chunk > maxSize THEN [s EXCEPT !.error = TRUE]
                ELSE [s EXCEPT !.size = @ + chunk],
             [size |-> 0, error |-> FALSE], chunks)

\* All of the source or an error, and never more on the disk than the limit.
StagingAgrees(chunks, maxSize) ==
    LET r == WriteStaged(chunks, maxSize)
    IN  /\ r.error = (Total(chunks) > maxSize)
        /\ r.size <= maxSize
        /\ ~r.error => r.size = Total(chunks)

-----------------------------------------------------------------------------
(* _validate_pdf.  The bytes are "header", "eof", "blank" and "other"; the  *)
(* end of the file is searched in its last window.                          *)

ValidPdf(pdf, window, maxPages) ==
    LET size   == Len(pdf.bytes)
        suffix == SubSeq(pdf.bytes, Max({0, size - window}) + 1, size)
        marks  == {i \in DOMAIN suffix : suffix[i] = "eof"}
    IN  /\ size > 0 /\ pdf.bytes[1] = "header"
        /\ marks # {}
        /\ \A i \in Max(marks)+1..Len(suffix) : suffix[i] = "blank"
        /\ pdf.parses /\ ~pdf.encrypted
        /\ pdf.pages \in 1..maxPages

\* A PDF and nothing after it: what follows the last marker is blank, all of it.
PdfAgrees(pdf, window, maxPages) ==
    ValidPdf(pdf, window, maxPages) <=>
        \E end \in Max({1, Len(pdf.bytes) - window + 1})..Len(pdf.bytes) :
            /\ pdf.bytes[1] = "header" /\ pdf.bytes[end] = "eof"
            /\ \A i \in end+1..Len(pdf.bytes) : pdf.bytes[i] = "blank"
            /\ pdf.parses /\ ~pdf.encrypted /\ pdf.pages >= 1 /\ pdf.pages <= maxPages

-----------------------------------------------------------------------------
(* _validate_image: frames have a number of pixels and load or do not.      *)

LoadFrame(state, frame, maxPixels) ==
    LET total == state.decoded + frame.pixels
    IN  IF state.error THEN state
        ELSE IF total > maxPixels THEN [state EXCEPT !.error = TRUE]
        ELSE [decoded |-> total, error |-> ~frame.loads]

ImageResult(image, maxFrames, maxPixels) ==
    IF ~image.matches \/ Len(image.frames) \notin 1..maxFrames THEN [decoded |-> 0, error |-> TRUE]
    ELSE FoldLeft(LAMBDA s, f : LoadFrame(s, f, maxPixels),
                  [decoded |-> 0, error |-> FALSE], image.frames)

\* ImageTools._open, which looks at the first frame only.
OpensImage(image, maxPixels) ==
    image.frames[1].pixels <= maxPixels /\ image.frames[1].loads

\* Never more is decoded than the limit, and what was accepted can be opened again.
ImageAgrees(image, maxFrames, maxPixels) ==
    LET r == ImageResult(image, maxFrames, maxPixels)
    IN  /\ r.decoded <= maxPixels
        /\ ~r.error <=> /\ image.matches
                        /\ Len(image.frames) \in 1..maxFrames
                        /\ \A i \in DOMAIN image.frames : image.frames[i].loads
                        /\ Total([i \in DOMAIN image.frames |-> image.frames[i].pixels]) <= maxPixels
        /\ ~r.error => OpensImage(image, maxPixels)

-----------------------------------------------------------------------------
(* _validate_xlsx: the entries of the archive, before anything of them is   *)
(* expanded, and then what the expansion finds.                             *)

RequiredParts == {"types", "workbook"}

SafeArchive(entries, maxEntries, maxExpanded, maxRatio) ==
    LET names == [i \in DOMAIN entries |-> entries[i].name]
    IN  /\ Len(entries) <= maxEntries
        /\ IsInjective(names)
        /\ Total([i \in DOMAIN entries |-> entries[i].size]) <= maxExpanded
        /\ \A i \in DOMAIN entries :
              entries[i].compressed > 0 => entries[i].size <= entries[i].compressed * maxRatio
        /\ \A i \in DOMAIN entries : entries[i].path = "safe"
        /\ RequiredParts \subseteq Range(names)

ValidXlsx(archive, maxEntries, maxExpanded, maxRatio) ==
    /\ SafeArchive(archive.entries, maxEntries, maxExpanded, maxRatio)
    /\ \A i \in DOMAIN archive.entries : archive.entries[i].intact
    /\ archive.sheets > 0

\* Every part a reader asks for by its name is there once, and whole; an intact
\* archive does not expand to more than the ratio allows of what was uploaded.
XlsxAgrees(archive, maxEntries, maxExpanded, maxRatio) ==
    LET entries    == archive.entries
        expanded   == Total([i \in DOMAIN entries |-> entries[i].size])
        compressed == Total([i \in DOMAIN entries |-> entries[i].compressed])
    IN  ValidXlsx(archive, maxEntries, maxExpanded, maxRatio) =>
           /\ \A part \in RequiredParts :
                 \E i \in DOMAIN entries : /\ entries[i].name = part /\ entries[i].intact
                                           /\ \A j \in DOMAIN entries : entries[j].name = part => j = i
           /\ expanded <= maxExpanded /\ expanded <= maxRatio * compressed

-----------------------------------------------------------------------------
(* _validate_csv and the decoding of the same bytes by SpreadsheetTools.    *)
(* The bytes are plain characters, a byte order mark, characters of UTF-8   *)
(* that are or are not also bytes of cp1252, single bytes that are one of   *)
(* cp1252 or of neither, control bytes, and a field csv refuses.            *)

Undecodable(encoding) ==
    CASE encoding = "utf-8"   -> {"latin", "undefined"}
      [] encoding = "cp1252"  -> {"wide", "undefined"}
      [] encoding = "latin-1" -> {}

Decodes(bytes, encoding) == Range(bytes) \cap Undecodable(encoding) = {}

\* One reading: the first thing that stops it is its outcome.
Reading(bytes, encoding) ==
    LET text  == IF encoding = "utf-8" /\ bytes # <<>> /\ bytes[1] = "bom" THEN Tail(bytes) ELSE bytes
        stops == {i \in DOMAIN text : text[i] \in Undecodable(encoding) \cup {"oversized"}}
    IN  CASE text = <<>> -> "no records"
          [] stops # {}  -> IF text[Min(stops)] = "oversized" THEN "csv error" ELSE "undecodable"
          [] OTHER       -> "read"

ValidCsv(bytes) ==
    /\ "control" \notin Range(bytes)
    /\ \/ Reading(bytes, "utf-8") = "read"
       \/ Reading(bytes, "utf-8") = "undecodable" /\ Reading(bytes, "cp1252") = "read"

\* SpreadsheetTools._decode_csv; utf-8 after utf-8-sig finds nothing new.
DecodedAs(bytes) ==
    CASE Decodes(bytes, "utf-8") -> "utf-8"
      [] ~Decodes(bytes, "utf-8") /\ Decodes(bytes, "cp1252") -> "cp1252"
      [] OTHER -> "latin-1"

\* A CSV is accepted exactly when it is text of one of the two encodings as a
\* whole, and the tools then read it in the encoding it was accepted in: the
\* catch-all of _decode_csv never turns an accepted file into other characters.
CsvAgrees(bytes) ==
    LET sound == Range(bytes) \cap {"control", "oversized"} = {}
    IN  /\ ValidCsv(bytes) <=> /\ sound /\ bytes \notin {<<>>, <<"bom">>}
                               /\ Decodes(bytes, "utf-8") \/ Decodes(bytes, "cp1252")
        /\ ValidCsv(bytes) => /\ DecodedAs(bytes) # "latin-1"
                              /\ Reading(bytes, DecodedAs(bytes)) = "read"
=============================================================================
