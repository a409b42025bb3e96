------------------------------ MODULE Operators ------------------------------
(***************************************************************************)
(* The parts of the system that keep nothing between two calls, gathered   *)
(* with examples of their inputs: the calculator, the resolution of        *)
(* threads, the document tools and the validation of uploads.              *)
(***************************************************************************)
EXTENDS Integers, FiniteSets, Sequences

CONSTANTS MaxDepth, MaxNodes, MaxCoefficient,
          Formulas  \* of the calculator, that the run evaluates

VARIABLE example

Calc   == INSTANCE Calculation
Docs   == INSTANCE DocumentTools
Files  == INSTANCE UploadValidation
Thread == INSTANCE ThreadResolution

ASSUME OperatorsAssumption ==
    {MaxDepth, MaxNodes} \subseteq Nat \ {0} /\ MaxCoefficient \in Nat

-----------------------------------------------------------------------------
(* Calls of the operators.                                                 *)

Current == [id |-> 9, refs |-> {1}, subject |-> "s", people |-> {"a", "b"}, locator |-> 0]
Mails   == [id : {0, 1}, refs : {{}, {8}, {9}}, subject : {"none", "s"}, people : {{"a"}, {"c"}},
            time : 1..2, size : 1..2, locator : {0, 1}]

\* Replies of every time and size, one that is not related, and the mail itself.
Thread3 == {m \in Mails : /\ m.id = 1 /\ m.refs = {8} /\ m.people = {"c"} /\ m.subject = "s"
                          /\ m.locator = 1} \cup
           {m \in Mails : /\ m.id = 0 /\ m.refs = {8} /\ m.people = {"c"} /\ m.subject = "s"
                          /\ m.time = 1 /\ m.size = 1}

SeqsUpTo(S, n) == UNION {[1..k -> S] : k \in 0..n}

Uploads == [name : {"safe", "unsafe"}, size : 0..1, extension : {".pdf", ".csv", ".eml", "", "unfit"},
            mime : {"application/pdf", "text/csv", "application/csv", "message/rfc822", "malformed"},
            content : {".pdf", ".csv", "else"}]

PartsOfMail == {p \in [type : {"multipart", "plain", "html", "text", "other"}, disposition : {"none", "attachment"},
                       named : BOOLEAN, inlined : BOOLEAN, empty : BOOLEAN] :
                   p.type = "multipart" => ~p.named /\ ~p.inlined /\ ~p.empty /\ p.disposition = "none"}

Bytes  == {"char", "bom", "accent", "wide", "latin", "undefined", "control", "oversized"}
Pdfs   == [bytes : {<<"header">> \o s : s \in SeqsUpTo({"eof", "blank", "other"}, 4)},
           parses : BOOLEAN, encrypted : BOOLEAN, pages : 0..3]
Images == [matches : BOOLEAN, frames : SeqsUpTo([pixels : 1..3, loads : BOOLEAN], 3)]

\* Of an entry that is intact something is left when it is compressed.
Entry    == {e \in [name : {"types", "workbook", "sheet"}, size : {0, 2, 5}, compressed : 0..1,
                    path : {"safe", "unsafe"}, intact : BOOLEAN] :
                /\ e.intact => (e.compressed = 0 <=> e.size = 0)
                /\ e.path = "unsafe" => e.intact}
Archives == [entries : SeqsUpTo(Entry, 2) \cup SeqsUpTo({e \in Entry : e.intact /\ e.path = "safe"}, 3),
             sheets : 0..1]

Usages == [input : -1..2, cached : -1..2, output : -1..2]
Rates  == [input : 0..3, cached : 0..3, output : 0..3]

Corner == [row : 1..3, column : 1..3]

Example ==
    \/ \E e \in Formulas : example = <<"calculate", e>>
    \/ \E n \in -25..25, scale \in 0..1 : example = <<"round", n * 50, scale>>
    \/ \E charged, expected \in -12..12, absolute \in {0, 3}, percent \in {0, 25, 50} :
          example = <<"tolerance", charged, expected, absolute, percent>>
    \/ \E s \in SeqsUpTo(Calc!Statuses, 3) : example = <<"consolidate", s>>
    \/ \E revenue, cost \in {<<n>> : n \in -7..7} \cup {Calc!Missing} : example = <<"margin", revenue, cost>>
    \/ \E s \in SeqsUpTo(Mails, 1) \cup SeqsUpTo(Thread3, 3), messages \in 1..3, characters \in 2..4 :
          example = <<"thread", s, messages, characters>>
    \/ \E cells \in SeqsUpTo(BOOLEAN, 5), matches \in 1..3, limit \in 1..5 :
          example = <<"search", cells, matches, limit>>
    \/ \E from, to, sheet \in Corner, limit \in {2, 6} : example = <<"range", from, to, sheet, limit>>
    \/ \E pages \in SeqsUpTo(SeqsUpTo(0..2, 2), 2), start, end \in 0..3, text \in 1..4, max \in 1..2 :
          example = <<"text", pages, start, end, max, text>>
    \/ \E s \in SeqsUpTo(PartsOfMail, 2) : example = <<"mime", s>>
    \/ \E upload \in Uploads, original \in BOOLEAN : example = <<"upload", upload, original>>
    \/ \E ids \in SUBSET (1..5), limit \in 1..3 : example = <<"pages", ids, limit>>
    \/ \E hits \in SeqsUpTo(0..2, 3), matches \in 1..3, limit \in 2..3 :
          example = <<"find", hits, matches, limit>>
    \/ \E chunks \in SeqsUpTo(1..3, 3), limit \in 1..6 : example = <<"stage", chunks, limit>>
    \/ \E pdf \in Pdfs, window \in 2..3 : example = <<"pdf", pdf, window>>
    \/ \E image \in Images : example = <<"image", image>>
    \/ \E archive \in Archives : example = <<"xlsx", archive>>
    \/ \E bytes \in SeqsUpTo(Bytes, 3) : example = <<"csv", bytes>>
    \/ \E usage \in Usages, price \in Rates : example = <<"cost", usage, price>>

Agrees(x) ==
    CASE x[1] = "calculate"   -> Calc!CalculationAgrees(x[2])
      [] x[1] = "round"       -> Calc!RoundingAgrees(x[2], x[3])
      [] x[1] = "tolerance"   -> Calc!ToleranceAgrees(x[2], x[3], x[4], x[5])
      [] x[1] = "consolidate" -> Calc!ConsolidationAgrees(x[2])
      [] x[1] = "margin"      -> Calc!MarginAgrees(x[2], x[3])
      [] x[1] = "thread"      -> Thread!ThreadAgrees(Current, x[2], x[3], x[4])
      [] x[1] = "search"      -> Docs!SearchAgrees(x[2], x[3], x[4])
      [] x[1] = "range"       -> Docs!RangeAgrees(x[2], x[3], x[4], x[5])
      [] x[1] = "text"        -> Docs!TextAgrees(x[2], x[3], x[4], x[5], x[6])
      [] x[1] = "mime"        -> Docs!MimeAgrees(x[2])
      [] x[1] = "upload"      -> Docs!StorageAgrees(x[2], x[3])
      [] x[1] = "pages"       -> Docs!PagesAgree(x[2], x[3])
      [] x[1] = "find"        -> Docs!PdfSearchAgrees(x[2], x[3], x[4])
      [] x[1] = "stage"       -> Files!StagingAgrees(x[2], x[3])
      [] x[1] = "pdf"         -> Files!PdfAgrees(x[2], x[3], 2)
      [] x[1] = "image"       -> Files!ImageAgrees(x[2], 2, 4)
      [] x[1] = "xlsx"        -> Files!XlsxAgrees(x[2], 3, 9, 4)
      [] x[1] = "csv"         -> Files!CsvAgrees(x[2])
      [] x[1] = "cost"        -> Calc!CostAgrees(x[2], x[3], 4)

-----------------------------------------------------------------------------
NoExample == example = <<>>

\* Each operator computes what its reference definition says, on every example.
OperatorsAgree == ~NoExample => Agrees(example)
=============================================================================
