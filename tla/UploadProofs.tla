----------------------------- MODULE UploadProofs -----------------------------
(***************************************************************************)
(* Proofs about UploadValidation and DocumentTools, for files and sheets   *)
(* of any size.                                                            *)
(***************************************************************************)
EXTENDS UploadValidation, DocumentTools, SequenceTheorems, FiniteSetTheorems,
        WellFoundedInduction, TLAPS

-----------------------------------------------------------------------------
(* First and last positions of a sequence with a property.                 *)

LEMMA MinOfPositions ==
    ASSUME NEW S \in SUBSET Nat, S # {}
    PROVE  Min(S) \in S /\ \A x \in S : Min(S) <= x
<1>1. PICK m \in S : \A y \in S : <<y, m>> \notin OpToRel(<, Nat)
  BY WFMin, NatLessThanWellFounded
<1>2. \A y \in S : y \in Nat
  OBVIOUS
<1>3. \A y \in S : ~(y < m)
  BY <1>1, <1>2 DEF OpToRel
<1>4. \A y \in S : m <= y
  BY <1>2, <1>3
<1> QED BY <1>4 DEF Min

LEMMA MaxOfPositions ==
    ASSUME NEW n \in Nat, NEW S \in SUBSET 1..n, S # {}
    PROVE  Max(S) \in S /\ \A x \in S : Max(S) >= x
<1> DEFINE T == {n - x : x \in S}
<1>1. T \subseteq Nat /\ T # {}
  <2>1. \A x \in S : n - x \in Nat
    OBVIOUS
  <2>2. T \subseteq Nat
    BY <2>1, Zenon
  <2>3. T # {}
    BY Zenon
  <2> QED BY <2>2, <2>3
<1>2. PICK m \in T : \A y \in T : <<y, m>> \notin OpToRel(<, Nat)
  <2> HIDE DEF T
  <2> QED BY <1>1, WFMin, NatLessThanWellFounded
<1>3. PICK x \in S : m = n - x
  BY <1>2
<1>4. \A y \in S : x >= y
  <2> TAKE y \in S
  <2>1. n - y \in T /\ n - y \in Nat /\ m \in Nat
    BY <1>3
  <2>2. \A z \in T : z \in Nat => ~(z < m)
    <3> HIDE DEF T
    <3> QED BY <1>2, <2>1 DEF OpToRel
  <2>3. ~(n - y < m)
    BY <2>1, <2>2
  <2> QED BY <1>3, <2>3
<1> QED BY <1>4 DEF Max

-----------------------------------------------------------------------------
(* CSV.                                                                    *)

Characters == {"char", "bom", "accent", "wide", "latin", "undefined", "control", "oversized"}

LEMMA ReadText ==
    ASSUME NEW bytes \in Seq(Characters), NEW encoding \in {"utf-8", "cp1252", "latin-1"}
    PROVE  /\ Reading(bytes, encoding) = "read" =>
                 /\ "oversized" \notin Range(bytes) /\ Decodes(bytes, encoding)
                 /\ bytes # <<>> /\ (encoding = "utf-8" => bytes # <<"bom">>)
           /\ "oversized" \notin Range(bytes) /\ bytes # <<>> /\ bytes # <<"bom">> =>
                 Reading(bytes, encoding) = IF Decodes(bytes, encoding) THEN "read"
                                                                       ELSE "undecodable"
<1> DEFINE stripped == encoding = "utf-8" /\ bytes # <<>> /\ bytes[1] = "bom"
           text  == IF stripped THEN Tail(bytes) ELSE bytes
           stops == {i \in DOMAIN text : text[i] \in Undecodable(encoding) \cup {"oversized"}}
<1>1. Undecodable(encoding) \in SUBSET {"latin", "wide", "undefined"}
  BY DEF Undecodable
<1>2. Range(bytes) = {bytes[i] : i \in 1..Len(bytes)}
  BY DEF Range
<1>3. text \in Seq(Characters) /\ DOMAIN text = 1..Len(text)
  OBVIOUS
<1>4. \A i \in 1..Len(text) : text[i] \in Range(bytes)
  <2>1. CASE stripped
    <3>1. Len(text) = Len(bytes) - 1 /\ \A i \in 1..Len(text) : text[i] = bytes[i + 1]
      BY <2>1
    <3> QED BY <1>2, <3>1
  <2>2. CASE ~stripped
    BY <1>2, <2>2
  <2> QED BY <2>1, <2>2
<1>5. \A x \in Range(bytes) : x = "bom" \/ \E i \in 1..Len(text) : text[i] = x
  <2> TAKE x \in Range(bytes)
  <2>1. PICK i \in 1..Len(bytes) : bytes[i] = x
    BY <1>2
  <2>2. CASE stripped
    <3>1. Len(text) = Len(bytes) - 1 /\ \A k \in 1..Len(text) : text[k] = bytes[k + 1]
      BY <2>2
    <3>2. i = 1 \/ (i - 1 \in 1..Len(text) /\ text[i - 1] = x)
      BY <2>1, <3>1
    <3> QED BY <2>1, <2>2, <3>2
  <2>3. CASE ~stripped
    BY <2>1, <2>3
  <2> QED BY <2>2, <2>3
<1>6. text = <<>> <=> bytes = <<>> \/ (encoding = "utf-8" /\ bytes = <<"bom">>)
  <2>1. CASE stripped
    <3>1. Len(bytes) >= 1 /\ Len(text) = Len(bytes) - 1
      BY <2>1
    <3>2. text = <<>> <=> Len(bytes) = 1
      <4> HIDE DEF text
      <4>1. text = <<>> <=> Len(text) = 0
        BY <1>3, EmptySeq
      <4> QED BY <3>1, <4>1
    <3>3. Len(bytes) = 1 => bytes = <<"bom">>
      <4> SUFFICES ASSUME Len(bytes) = 1 PROVE bytes = <<"bom">>
        OBVIOUS
      <4>1. <<"bom">> \in Seq(Characters) /\ Len(<<"bom">>) = 1 /\ <<"bom">>[1] = "bom"
        BY DEF Characters
      <4>2. \A i \in 1..Len(bytes) : bytes[i] = <<"bom">>[i]
        BY <2>1, <4>1
      <4> QED BY <4>1, <4>2, SeqEqual
    <3> QED BY <2>1, <3>2, <3>3
  <2>2. CASE ~stripped
    BY <2>2
  <2> QED BY <2>1, <2>2
<1>c. Decodes(bytes, encoding) <=> \A x \in Range(bytes) : x \notin Undecodable(encoding)
  BY DEF Decodes
<1>7. /\ Decodes(bytes, encoding) <=> \A i \in 1..Len(text) : text[i] \notin Undecodable(encoding)
      /\ "oversized" \notin Range(bytes) <=> \A i \in 1..Len(text) : text[i] # "oversized"
  <2>1. "bom" \notin Undecodable(encoding) \cup {"oversized"}
    BY <1>1
  <2> HIDE DEF text
  <2> QED BY <1>4, <1>5, <1>c, <2>1
<1>8. stops = {} <=> Decodes(bytes, encoding) /\ "oversized" \notin Range(bytes)
  BY <1>3, <1>7
<1>9. stops \in SUBSET Nat
  BY <1>3
<1>10. Reading(bytes, encoding) = CASE text = <<>> -> "no records"
                                    [] stops # {}  -> IF text[Min(stops)] = "oversized"
                                                      THEN "csv error" ELSE "undecodable"
                                    [] OTHER       -> "read"
  BY DEF Reading
<1>11. stops # {} => Min(stops) \in stops
  BY <1>9, MinOfPositions
<1>12. stops # {} => Min(stops) \in 1..Len(text)
  BY <1>3, <1>11
<1> HIDE DEF text, stops
<1>13. ASSUME Reading(bytes, encoding) = "read" PROVE text # <<>> /\ stops = {}
  BY <1>10, <1>13
<1>14. ASSUME text # <<>> PROVE stops = {} => Reading(bytes, encoding) = "read"
  BY <1>10, <1>14
<1>15. ASSUME text # <<>>, "oversized" \notin Range(bytes), stops # {}
       PROVE  Reading(bytes, encoding) = "undecodable"
  BY <1>7, <1>10, <1>12, <1>15
<1> QED BY <1>6, <1>8, <1>13, <1>14, <1>15

\* The validator accepts a CSV (_validate_csv) exactly when it is text of one of
\* two encodings, and SpreadsheetTools reads it in that one: of whatever length, no
\* accepted file is ever read by the catch-all latin-1 of _decode_csv.
THEOREM CsvIsReadAsAccepted ==
    \A bytes \in Seq(Characters) : CsvAgrees(bytes)
<1> TAKE bytes \in Seq(Characters)
<1>1. \A e \in {"utf-8", "cp1252"} :
         /\ Reading(bytes, e) = "read" =>
               /\ "oversized" \notin Range(bytes) /\ Decodes(bytes, e)
               /\ bytes # <<>> /\ (e = "utf-8" => bytes # <<"bom">>)
         /\ "oversized" \notin Range(bytes) /\ bytes # <<>> /\ bytes # <<"bom">> =>
               Reading(bytes, e) = IF Decodes(bytes, e) THEN "read" ELSE "undecodable"
  BY ReadText
<1>2. bytes = <<"bom">> => Reading(bytes, "utf-8") = "no records"
  BY DEF Reading
<1>3. /\ Decodes(bytes, "utf-8") => DecodedAs(bytes) = "utf-8"
      /\ ~Decodes(bytes, "utf-8") /\ Decodes(bytes, "cp1252") => DecodedAs(bytes) = "cp1252"
  BY DEF DecodedAs
<1>4. ASSUME ValidCsv(bytes)
      PROVE  /\ Range(bytes) \cap {"control", "oversized"} = {}
             /\ bytes \notin {<<>>, <<"bom">>}
             /\ Decodes(bytes, "utf-8") \/ Decodes(bytes, "cp1252")
  BY <1>1, <1>2, <1>4 DEF ValidCsv
<1>5. ASSUME /\ Range(bytes) \cap {"control", "oversized"} = {}
             /\ bytes \notin {<<>>, <<"bom">>}
             /\ Decodes(bytes, "utf-8") \/ Decodes(bytes, "cp1252")
      PROVE  /\ ValidCsv(bytes) /\ DecodedAs(bytes) # "latin-1"
             /\ Reading(bytes, DecodedAs(bytes)) = "read"
  BY <1>1, <1>3, <1>5 DEF ValidCsv
<1> QED BY <1>4, <1>5 DEF CsvAgrees
-----------------------------------------------------------------------------
(* PDF.                                                                    *)

LEMMA MaxOfTwo ==
    ASSUME NEW a \in Int, NEW b \in Int
    PROVE  Max({a, b}) = IF a >= b THEN a ELSE b
<1> DEFINE m == IF a >= b THEN a ELSE b
<1>1. m \in {a, b} /\ \A y \in {a, b} : m >= y
  OBVIOUS
<1>2. \A x \in {a, b} : (\A y \in {a, b} : x >= y) => x = m
  OBVIOUS
<1> HIDE DEF m
<1>3. Max({a, b}) = m
  BY <1>1, <1>2 DEF Max
<1> QED BY <1>3 DEF m

\* _validate_pdf searches the last window of the file for its last end marker: a
\* PDF is accepted exactly when some marker in the window has nothing but blanks
\* after it, whatever else precedes it.
THEOREM PdfEndsInBlanks ==
    ASSUME NEW Contents,
           NEW pdf \in [bytes : Seq(Contents), parses : BOOLEAN, encrypted : BOOLEAN,
                        pages : Nat],
           NEW window \in Nat \ {0}, NEW maxPages \in Nat
    PROVE  PdfAgrees(pdf, window, maxPages)
<1> DEFINE bytes  == pdf.bytes
           size   == Len(bytes)
           start  == Max({0, size - window})
           suffix == SubSeq(bytes, start + 1, size)
           marks  == {i \in DOMAIN suffix : suffix[i] = "eof"}
           Opens  == pdf.parses /\ ~pdf.encrypted /\ pdf.pages \in 1..maxPages
           Ends(end) == bytes[end] = "eof" /\ \A i \in end + 1..size : bytes[i] = "blank"
<1>1. bytes \in Seq(Contents) /\ size \in Nat
  OBVIOUS
<1>2. /\ start = IF size >= window THEN size - window ELSE 0
      /\ Max({1, size - window + 1}) = start + 1
  <2> HIDE DEF bytes
  <2>1. 0 \in Int /\ 1 \in Int /\ size - window \in Int /\ size - window + 1 \in Int
    BY <1>1
  <2> HIDE DEF size
  <2>2. /\ Max({0, size - window}) = IF 0 >= size - window THEN 0 ELSE size - window
        /\ Max({1, size - window + 1}) = IF 1 >= size - window + 1 THEN 1 ELSE size - window + 1
    BY <2>1, MaxOfTwo
  <2>3. start = Max({0, size - window})
    OBVIOUS
  <2> HIDE DEF start
  <2> QED BY <1>1, <2>2, <2>3
<1> HIDE DEF bytes
<1>3. start \in Nat /\ start <= size
  BY <1>1, <1>2
<1> HIDE DEF start
<1>4. /\ Len(suffix) = size - start /\ DOMAIN suffix = 1..(size - start)
      /\ \A i \in 1..(size - start) : suffix[i] = bytes[start + i]
  BY <1>1, <1>3
<1>5. /\ marks \in SUBSET 1..(size - start)
      /\ \A i \in 1..(size - start) : i \in marks <=> bytes[start + i] = "eof"
  BY <1>4
<1>6. ValidPdf(pdf, window, maxPages) <=>
        /\ size > 0 /\ bytes[1] = "header"
        /\ marks # {}
        /\ \A i \in Max(marks) + 1..Len(suffix) : suffix[i] = "blank"
        /\ Opens
  BY DEF ValidPdf, bytes, start
<1>7. PdfAgrees(pdf, window, maxPages) <=>
        (ValidPdf(pdf, window, maxPages) <=>
           \E end \in start + 1..size : bytes[1] = "header" /\ Ends(end) /\ Opens)
  BY <1>2 DEF PdfAgrees, bytes
<1> HIDE DEF suffix, marks, Opens
<1>8. marks # {} => Max(marks) \in marks /\ \A i \in marks : Max(marks) >= i
  <2> DEFINE last == size - start
  <2>1. last \in Nat /\ marks \in SUBSET 1..last
    BY <1>1, <1>3, <1>5
  <2> HIDE DEF last
  <2> QED BY <2>1, MaxOfPositions
<1>9. ASSUME ValidPdf(pdf, window, maxPages)
      PROVE  \E end \in start + 1..size : bytes[1] = "header" /\ Ends(end) /\ Opens
  <2> DEFINE m == Max(marks)
             end == start + m
  <2>1. m \in marks /\ m \in 1..(size - start)
    BY <1>5, <1>6, <1>8, <1>9
  <2>2. bytes[end] = "eof"
    BY <1>5, <2>1
  <2>3. \A i \in m + 1..(size - start) : bytes[start + i] = "blank"
    BY <1>4, <1>6, <1>9, <2>1
  <2> HIDE DEF m
  <2>4. end \in start + 1..size
    BY <1>1, <1>3, <2>1
  <2>5. ASSUME NEW i \in end + 1..size PROVE bytes[i] = "blank"
    <3>1. i - start \in m + 1..(size - start) /\ start + (i - start) = i
      BY <1>1, <1>3, <2>1
    <3> QED BY <2>3, <3>1
  <2> QED BY <1>6, <1>9, <2>2, <2>4, <2>5
<1>10. ASSUME NEW end \in start + 1..size, bytes[1] = "header", Ends(end), Opens
       PROVE  ValidPdf(pdf, window, maxPages)
  <2>1. end - start \in 1..(size - start) /\ start + (end - start) = end /\ size > 0
    BY <1>1, <1>3
  <2>2. end - start \in marks
    BY <1>5, <1>10, <2>1
  <2> DEFINE m == Max(marks)
  <2>3. m >= end - start /\ m \in 1..(size - start)
    BY <1>5, <1>8, <2>2
  <2> HIDE DEF m
  <2>4. ASSUME NEW i \in m + 1..(size - start) PROVE suffix[i] = "blank"
    <3>1. start + i \in end + 1..size /\ i \in 1..(size - start)
      BY <1>1, <1>3, <2>3
    <3> QED BY <1>4, <1>10, <3>1
  <2> QED BY <1>4, <1>6, <1>10, <2>1, <2>2, <2>4 DEF m
<1> QED BY <1>7, <1>9, <1>10

-----------------------------------------------------------------------------
(* The metadata of stored files.                                           *)

\* What is stored can be read back, whatever the upload, and only a document of
\* its declared type is kept as one.
THEOREM StoredIsReadable ==
    ASSUME NEW upload, upload.size \in Nat, NEW original \in BOOLEAN
    PROVE  StorageAgrees(upload, original)
<1> DEFINE data == StoredMetadata(upload, original)
<1>1. CASE ~original /\ Validated(upload)
  <2>1. /\ data.kind = "validated_upload" /\ data.name = upload.name
        /\ data.suffix = upload.extension /\ data.extension = upload.extension
        /\ data.mime = MimeOf[upload.extension] /\ data.size = upload.size
    BY <1>1 DEF StoredMetadata
  <2>2. /\ upload.name = "safe" /\ upload.size >= 1 /\ upload.extension \in Known
        /\ upload.content = upload.extension
    BY <1>1 DEF Validated
  <2> HIDE DEF data
  <2>3. Readable(data) /\ (data.kind = "validated_upload" => data.extension = upload.content)
    BY <2>1, <2>2 DEF Readable
  <2> QED  BY <2>3 DEF StorageAgrees, data
<1>2. CASE original /\ upload.name = "safe" /\ upload.mime # "malformed"
  <2>1. /\ data.kind = "opaque_original" /\ data.name = upload.name
        /\ data.extension = IF upload.extension = "unfit" THEN "" ELSE upload.extension
        /\ data.mime = upload.mime /\ data.size = upload.size
    BY <1>2 DEF StoredMetadata
  <2> HIDE DEF data
  <2>2. data.extension # "unfit"
    BY <2>1
  <2>3. data.size \in Nat
    BY <2>1
  <2>4. data.size >= 0
    BY <2>3
  <2>5. Readable(data) /\ data.kind # "validated_upload"
    BY <1>2, <2>1, <2>2, <2>4 DEF Readable
  <2> QED  BY <2>5 DEF StorageAgrees, data
<1>3. CASE /\ ~(~original /\ Validated(upload))
           /\ ~(original /\ upload.name = "safe" /\ upload.mime # "malformed")
  <2>1. data = Refused
    BY <1>3 DEF StoredMetadata
  <2> HIDE DEF data
  <2> QED  BY <2>1 DEF StorageAgrees, data
<1> QED  BY <1>1, <1>2, <1>3

-----------------------------------------------------------------------------
(* A range of cells in reading order.                                      *)

\* Positions in a box w cells wide.
LEMMA CellAt ==
    ASSUME NEW w \in Nat \ {0}, NEW i \in Nat
    PROVE  /\ i \div w \in Nat /\ i % w \in 0..w-1
           /\ i = w * (i \div w) + (i % w)
<1>1. i \div w \in Int /\ w * (i \div w) <= i /\ i < w * (i \div w) + w
  OBVIOUS
<1>2. i % w = i - w * (i \div w)
  OBVIOUS
<1>3. i \div w >= 0
  OBVIOUS
<1> QED  BY <1>1, <1>2, <1>3

LEMMA PositionOf ==
    ASSUME NEW w \in Nat \ {0}, NEW q \in Nat, NEW r \in 0..w-1
    PROVE  (w * q + r) \div w = q /\ (w * q + r) % w = r
<1> DEFINE i == w * q + r
           d == i \div w
<1>1. i \in Nat
  OBVIOUS
<1>2. d \in Nat /\ i % w \in 0..w-1 /\ i = w * d + (i % w)
  BY <1>1, CellAt
<1>3. d = q
  <2>1. ASSUME d + 1 <= q PROVE FALSE
    <3>1. w * (d + 1) <= w * q
      BY <1>2, <2>1
    <3> QED  BY <1>2, <3>1
  <2>2. ASSUME q + 1 <= d PROVE FALSE
    <3>1. w * (q + 1) <= w * d
      BY <1>2, <2>2
    <3> QED  BY <1>2, <3>1
  <2> QED  BY <1>2, <2>1, <2>2
<1> QED  BY <1>2, <1>3

Box(a, b, c, d) == (a..b) \X (c..d)

\* h rows of w cells, from row r and column c on.
Cells(r, c, h, w) == [k \in 1..h*w |-> <<r + ((k - 1) \div w), c + ((k - 1) % w)>>]

LEMMA CellInBox ==
    ASSUME NEW h \in Nat \ {0}, NEW w \in Nat \ {0}, NEW k \in 1..h*w
    PROVE  /\ (k - 1) \div w \in 0..h-1 /\ (k - 1) % w \in 0..w-1
           /\ k - 1 = w * ((k - 1) \div w) + ((k - 1) % w)
<1> DEFINE q == (k - 1) \div w
           i == k - 1
<1>1. i \in Nat /\ i < h * w
  OBVIOUS
<1>2. q \in Nat /\ i % w \in 0..w-1 /\ i = w * q + (i % w)
  BY <1>1, CellAt
<1>3. q < h
  <2>1. ASSUME h <= q PROVE FALSE
    <3>1. w * h <= w * q /\ w * h = h * w
      BY <1>2, <2>1
    <3> QED  BY <1>1, <1>2, <3>1
  <2> QED  BY <1>2, <2>1
<1> QED  BY <1>2, <1>3

LEMMA CellsCover ==
    ASSUME NEW r \in Int, NEW c \in Int, NEW h \in Nat \ {0}, NEW w \in Nat \ {0}
    PROVE  /\ Len(Cells(r, c, h, w)) = h * w
           /\ Range(Cells(r, c, h, w)) = Box(r, r + h - 1, c, c + w - 1)
<1> DEFINE f == Cells(r, c, h, w)
           box == (r..(r + h - 1)) \X (c..(c + w - 1))
<1>0. h * w \in Nat /\ DOMAIN f = 1..h*w
  BY DEF Cells
<1>1. Len(f) = h * w
  BY <1>0 DEF Cells
<1>2. ASSUME NEW k \in 1..h*w PROVE f[k] \in box
  <2> DEFINE q == (k - 1) \div w
             m == (k - 1) % w
  <2>1. q \in 0..h-1 /\ m \in 0..w-1
    BY CellInBox
  <2>2. f[k] = <<r + q, c + m>>
    BY DEF Cells
  <2> HIDE DEF q, m, f
  <2>3. r + q \in r..(r + h - 1) /\ c + m \in c..(c + w - 1)
    BY <2>1
  <2> QED  BY <2>2, <2>3
<1>3. ASSUME NEW x \in r..(r + h - 1), NEW y \in c..(c + w - 1)
      PROVE  \E k \in 1..h*w : f[k] = <<x, y>>
  <2> DEFINE q == x - r
             m == y - c
             i == w * q + m
  <2>1. q \in 0..h-1 /\ m \in 0..w-1 /\ x = r + q /\ y = c + m
    OBVIOUS
  <2> HIDE DEF q, m
  <2>2. w * q <= w * (h - 1) /\ w * (h - 1) = h * w - w /\ w * q \in Nat
    BY <2>1
  <2>3. i \in Nat /\ i + 1 \in 1..h*w /\ (i + 1) - 1 = i
    BY <1>0, <2>1, <2>2
  <2>4. i \div w = q /\ i % w = m
    BY <2>1, PositionOf
  <2> HIDE DEF i
  <2>5. f[i + 1] = <<r + (i \div w), c + (i % w)>>
    BY <2>3 DEF Cells
  <2> QED  BY <2>1, <2>3, <2>4, <2>5
<1> HIDE DEF f
<1>4. ASSUME NEW e \in box PROVE \E k \in 1..h*w : f[k] = e
  <2>1. PICK x \in r..(r + h - 1), y \in c..(c + w - 1) : e = <<x, y>>
    OBVIOUS
  <2> QED  BY <1>3, <2>1
<1> HIDE DEF box
<1>5. Range(f) = box
  BY <1>0, <1>2, <1>4 DEF Range
<1> QED  BY <1>1, <1>5 DEF f, box, Box

LEMMA CellsInOrder ==
    ASSUME NEW r \in Int, NEW c \in Int, NEW h \in Nat \ {0}, NEW w \in Nat \ {0},
           NEW i \in 1..h*w-1
    PROVE  LET f == Cells(r, c, h, w)
           IN  \/ f[i][1] < f[i + 1][1]
               \/ f[i][1] = f[i + 1][1] /\ f[i][2] < f[i + 1][2]
<1> DEFINE f == Cells(r, c, h, w)
           q == (i - 1) \div w
           m == (i - 1) % w
<1>0. h * w \in Nat /\ i \in 1..h*w /\ i + 1 \in 1..h*w /\ (i + 1) - 1 = i
  OBVIOUS
<1>1. q \in Nat /\ m \in 0..w-1 /\ i - 1 = w * q + m
  BY <1>0, CellInBox
<1>2. f[i] = <<r + q, c + m>> /\ f[i + 1] = <<r + (i \div w), c + (i % w)>>
  BY <1>0 DEF Cells
<1> HIDE DEF f, q, m
<1>3. CASE m + 1 <= w - 1
  <2>1. i = w * q + (m + 1) /\ m + 1 \in 0..w-1
    BY <1>0, <1>1, <1>3
  <2>2. i \div w = q /\ i % w = m + 1
    BY <1>1, <2>1, PositionOf
  <2>3. f[i + 1] = <<r + q, c + (m + 1)>>
    BY <1>2, <2>2
  <2> QED  BY <1>1, <1>2, <2>3 DEF f
<1>4. CASE ~(m + 1 <= w - 1)
  <2>1. m + 1 = w
    BY <1>1, <1>4
  <2>2. w * (q + 1) = w * q + w /\ w * (q + 1) \in Nat
    BY <1>1
  <2>3. i = w * (q + 1) + 0
    BY <1>0, <1>1, <2>1, <2>2
  <2>4. i \div w = q + 1
    BY <1>1, <2>3, PositionOf
  <2>5. f[i][1] = r + q /\ f[i + 1][1] = r + (q + 1)
    BY <1>2, <2>4
  <2> QED  BY <1>1, <2>5 DEF f
<1> QED  BY <1>3, <1>4

LEMMA AtLeastOne ==
    ASSUME NEW n \in Nat
    PROVE  n <= Max({n, 1}) /\ (Max({n, 1}) = n \/ Max({n, 1}) = 1)
<1>1. \E x \in {n, 1} : \A y \in {n, 1} : x >= y
  OBVIOUS
<1> QED  BY <1>1 DEF Max

LEMMA BoxSize ==
    ASSUME NEW a \in Int, NEW b \in Int, NEW c \in Int, NEW d \in Int, a <= b, c <= d
    PROVE  Cardinality(Box(a, b, c, d)) = (b - a + 1) * (d - c + 1)
<1> DEFINE S == a..b
           T == c..d
<1>1. IsFiniteSet(S) /\ Cardinality(S) = b - a + 1
  BY FS_Interval
<1>2. IsFiniteSet(T) /\ Cardinality(T) = d - c + 1
  BY FS_Interval
<1> HIDE DEF S, T
<1>3. Cardinality(S \X T) = Cardinality(S) * Cardinality(T)
  BY <1>1, <1>2, FS_Product
<1>4. Box(a, b, c, d) = S \X T
  BY DEF Box, S, T
<1> QED  BY <1>1, <1>2, <1>3, <1>4

LEMMA EmptyBox ==
    ASSUME NEW a \in Int, NEW b \in Int, NEW c \in Int, NEW d \in Int
    PROVE  Box(a, b, c, d) = {} <=> b < a \/ d < c
<1>1. ASSUME a <= b, c <= d PROVE <<a, c>> \in (a..b) \X (c..d)
  BY <1>1
<1>2. ASSUME b < a \/ d < c PROVE (a..b) \X (c..d) = {}
  <2>1. a..b = {} \/ c..d = {}
    BY <1>2
  <2> QED  BY <2>1
<1>3. (a <= b /\ c <= d) \/ b < a \/ d < c
  OBVIOUS
<1> QED  BY <1>1, <1>2, <1>3 DEF Box

\* read_range gives every cell between two corners once, in reading order, within
\* the limit and the sheet, and nothing if the corners are the other way round,
\* for corners, sheets and limits of any size.
THEOREM RangeIsWhole ==
    ASSUME NEW from \in [row : Int, column : Int], NEW to \in [row : Int, column : Int],
           NEW sheet \in [row : Nat, column : Nat], NEW maxCells \in Nat
    PROVE  RangeAgrees(from, to, sheet, maxCells)
<1> DEFINE a       == from.row
           b       == to.row
           c       == from.column
           d       == to.column
           h       == b - a + 1
           w       == d - c + 1
           box     == Box(a, b, c, d)
           r       == ReadRange(from, to, sheet, maxCells)
           Over    == h * w > maxCells \/ b > Max({sheet.row, 1}) \/ d > Max({sheet.column, 1})
           Less(e, f)  == e[1] < f[1] \/ (e[1] = f[1] /\ e[2] < f[2])
           Ordered == \A i \in 1..Len(r.found)-1 : Less(r.found[i], r.found[i + 1])
<1>1. /\ Over => r.error /\ r.found = <<>>
      /\ ~Over /\ (b < a \/ d < c) => ~r.error /\ r.found = <<>>
      /\ ~Over /\ ~(b < a \/ d < c) => ~r.error /\ r.found = Cells(a, c, h, w)
  BY DEF ReadRange, Limit, Cells
<1>2. a \in Int /\ b \in Int /\ c \in Int /\ d \in Int
  OBVIOUS
<1>3. b <= sheet.row /\ d <= sheet.column /\ h * w <= maxCells => ~Over
  <2>1. sheet.row \in Nat /\ sheet.column \in Nat
    OBVIOUS
  <2>2. sheet.row <= Max({sheet.row, 1}) /\ sheet.column <= Max({sheet.column, 1})
    BY <2>1, AtLeastOne
  <2> QED  BY <1>2, <2>1, <2>2, AtLeastOne
<1>4. SUFFICES /\ Len(r.found) <= maxCells
               /\ ~r.error => Range(r.found) = box /\ Len(r.found) = Cardinality(box) /\ Ordered
               /\ box # {} /\ Cardinality(box) <= maxCells /\ b <= sheet.row /\ d <= sheet.column
                     => ~r.error
  BY DEF RangeAgrees, Box
<1> HIDE DEF a, b, c, d, r
<1>5. h \in Int /\ w \in Int /\ a + h - 1 = b /\ c + w - 1 = d /\ h * w \in Int
  BY <1>2
<1>6. box = {} <=> b < a \/ d < c
  BY <1>2, EmptyBox
<1>7. ASSUME box # {} PROVE Cardinality(box) = h * w
  <2>1. a <= b /\ c <= d
    BY <1>2, <1>6, <1>7
  <2> HIDE DEF Over, Less, Ordered
  <2> QED  BY <1>2, <2>1, BoxSize
<1>8. CASE Over
  <2> HIDE DEF Over, box
  <2>1. r.error /\ Len(r.found) = 0
    BY <1>1, <1>8
  <2> QED  BY <1>3, <1>7, <1>8, <2>1
<1>9. CASE ~Over /\ (b < a \/ d < c)
  <2> HIDE DEF Over, box
  <2>1. ~r.error /\ r.found = <<>> /\ box = {}
    BY <1>1, <1>6, <1>9
  <2>2. Len(r.found) = 0 /\ Range(r.found) = {} /\ Cardinality(box) = 0
    BY <2>1, FS_EmptySet DEF Range
  <2> QED  BY <2>1, <2>2
<1>10. CASE ~Over /\ ~(b < a \/ d < c)
  <2>1. h \in Nat \ {0} /\ w \in Nat \ {0} /\ h * w <= maxCells
    BY <1>2, <1>10
  <2>2. ~r.error /\ r.found = Cells(a, c, h, w) /\ box # {}
    BY <1>1, <1>6, <1>10
  <2> HIDE DEF Over, h, w
  <2>3. Len(r.found) = h * w /\ Range(r.found) = box
    <3>1. /\ Len(Cells(a, c, h, w)) = h * w
          /\ Range(Cells(a, c, h, w)) = Box(a, a + h - 1, c, c + w - 1)
      BY <1>2, <2>1, CellsCover
    <3> QED  BY <1>5, <2>2, <3>1
  <2>4. Ordered
    <3>1. ASSUME NEW i \in 1..h*w-1
          PROVE  Less(Cells(a, c, h, w)[i], Cells(a, c, h, w)[i + 1])
      BY <1>2, <2>1, CellsInOrder
    <3> HIDE DEF Less
    <3> QED  BY <2>2, <2>3, <3>1
  <2> HIDE DEF box, Ordered
  <2> QED  BY <1>7, <2>1, <2>2, <2>3, <2>4
<1> QED  BY <1>8, <1>9, <1>10
=============================================================================
