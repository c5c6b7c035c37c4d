----------------------------- MODULE AttachText -----------------------------
(***************************************************************************)
(* internal/emailfilter/attachtext: the text of a document attached to a   *)
(* message, for the rules that look into attachments.                      *)
(*                                                                         *)
(* A document is the parts that are read of it, in the order they are      *)
(* read; a part of an Office document is a sequence of XML tokens, a part  *)
(* of a PDF one page.  A character is its width in bytes; the XML decoder,   *)
(* the zip reader and the PDF reader are external.                         *)
(***************************************************************************)
EXTENDS Integers, Sequences, FiniteSets, SequencesExt, FiniteSetsExt, Functions

CONSTANTS
  WordRuns, SheetRuns, Pages, \* what parts are made of
  MaxRuns, MaxParts,          \* how many in a part, and how many parts
  MaxText,  \* MaxTextBytes, 1 MiB in the code
  MaxUnzip, \* maxUnzippedBytes, counted in tokens here; 64 MiB in the code
  MaxPages, \* maxPDFPages, 1000 in the code
  MaxInput  \* MaxInputBytes: parts of a document that is not too large

Start(name) == [is |-> "start", name |-> name, text |-> <<>>]
End(name) == [is |-> "end", name |-> name, text |-> <<>>]
Chars(s) == [is |-> "chars", name |-> "", text |-> s]
\* What the decoder returns at a place that is no XML.
Broken == [is |-> "broken", name |-> "", text |-> <<>>]
Page(is, s) == <<[is |-> is, name |-> "", text |-> s]>>

Break == 1  \* a line break or a tab: one byte
Bytes(s) == SumFunction(s)
-----------------------------------------------------------------------------
(* limitedText: what was written, and why the reading stopped.             *)
Nothing == [out |-> <<>>, err |-> "none", inside |-> FALSE, ref |-> FALSE, cell |-> FALSE,
            row |-> FALSE, budget |-> MaxUnzip, found |-> FALSE]

\* The longest prefix of whole characters within n bytes.
truncateUTF8(s, n) == SubSeq(s, 1, Max({k \in 0..Len(s) : Bytes(SubSeq(s, 1, k)) <= n}))

WriteString(r, s) ==
  LET room == MaxText - Bytes(r.out)
  IN IF room <= 0 THEN [r EXCEPT !.err = "full"]
     ELSE IF Bytes(s) > room THEN [r EXCEPT !.out = @ \o truncateUTF8(s, room), !.err = "full"]
     ELSE [r EXCEPT !.out = @ \o s]

EndOfRun(r) == [r EXCEPT !.inside = FALSE]

\* wordText: the runs of w:t, with a break for a paragraph, a line or a tab.
Word(r, t) ==
  CASE t.is = "broken" -> [r EXCEPT !.err = "xml"]
    [] t = Start("t") -> [r EXCEPT !.inside = TRUE]
    [] t \in {Start("tab"), Start("br"), End("p")} -> WriteString(r, <<Break>>)
    [] t = End("t") -> EndOfRun(r)
    [] t.is = "chars" /\ r.inside -> WriteString(r, t.text)
    [] OTHER -> r

\* sharedStringsText: every string of the workbook, one a line.
Shared(r, t) ==
  CASE t.is = "broken" -> [r EXCEPT !.err = "xml"]
    [] t = Start("t") -> [r EXCEPT !.inside = TRUE]
    [] t = End("t") -> EndOfRun(r)
    [] t = End("si") -> WriteString(r, <<Break>>)
    [] t.is = "chars" /\ r.inside -> WriteString(r, t.text)
    [] OTHER -> r

\* sheetText: the cells that hold a value themselves; one of type "s" holds the
\* place of a shared string.
Sheet(r, t) ==
  CASE t.is = "broken" -> [r EXCEPT !.err = "xml"]
    [] t \in {Start("c"), Start("c s")} -> [r EXCEPT !.ref = t = Start("c s"), !.cell = FALSE]
    [] t \in {Start("v"), Start("t")} -> [r EXCEPT !.inside = ~r.ref]
    [] t \in {End("v"), End("t")} -> EndOfRun(r)
    [] t = End("c") -> IF r.cell THEN WriteString(r, <<Break>>) ELSE r
    [] t = End("row") -> LET w == IF r.row THEN WriteString(r, <<Break>>) ELSE r
                         IN IF w.err = "none" THEN [w EXCEPT !.row = FALSE] ELSE w
    [] t.is = "chars" /\ r.inside /\ t.text # <<>> ->
         WriteString([r EXCEPT !.cell = TRUE, !.row = TRUE], t.text)
    [] OTHER -> r

\* budgetReader: what may still be unzipped, over all the parts.
budgetRead(w) ==
  IF w.err # "none" THEN w
  ELSE IF w.budget = 0 THEN [w EXCEPT !.err = "budget"]
  ELSE [w EXCEPT !.budget = @ - 1]

\* One part through the budget of the package: once it is used up the next read
\* fails, the one that finds the end of the part too unless the unzipper told the
\* end with the last of the part.
Part(doc, r, part, Step(_, _)) ==
  LET fresh == [r EXCEPT !.inside = FALSE, !.ref = FALSE, !.cell = FALSE, !.row = FALSE,
                         !.found = TRUE]
      read(w, t) == LET b == budgetRead(w) IN IF b.err # "none" THEN b ELSE Step(b, t)
      end == FoldLeft(read, fresh, part)
  IN IF end.err = "none" /\ end.budget = 0 /\ ~doc.early THEN [end EXCEPT !.err = "budget"] ELSE end

\* The parts of a document in their order, until one of them stops the reading.
Parts(r, parts, Read(_, _)) ==
  FoldLeft(LAMBDA w, p : IF w.err # "none" THEN w ELSE Read(w, p), r, parts)

extractDOCX(doc) ==
  LET w == Parts(Nothing, doc.parts, LAMBDA r, p : Part(doc, r, p, Word))
  IN IF w.err = "none" /\ ~w.found THEN [w EXCEPT !.err = "not a document"] ELSE w

\* The shared strings, when the workbook has them, and then its sheets.
extractXLSX(doc) ==
  IF doc.parts = <<>> THEN [Nothing EXCEPT !.err = "not a document"]
  ELSE LET strings == IF doc.strings THEN Part(doc, Nothing, Head(doc.parts), Shared) ELSE Nothing
           sheets == IF doc.strings THEN Tail(doc.parts) ELSE doc.parts
       IN Parts(strings, sheets, LAMBDA r, p : Part(doc, r, p, Sheet))

\* A page is null, unreadable, a panic of the reader, or its text.
extractPDF(doc) ==
  Parts(Nothing, SubSeq(doc.parts, 1, Min({MaxPages, Len(doc.parts)})),
        LAMBDA r, p :
          CASE p[1].is = "null" -> r
            [] p[1].is \in {"unreadable", "panic"} -> [r EXCEPT !.err = p[1].is]
            [] p[1].is = "page" -> LET w == WriteString(r, p[1].text)
                                   IN IF w.err = "none" THEN WriteString(w, <<Break>>) ELSE w)

\* Detect: the name's extension decides, then the content type.
Detect(doc) == IF doc.extension # "none" THEN doc.extension ELSE doc.contentType

\* Extract: the text limit is no error, and what was read before an error is kept.
Extract(doc) ==
  CASE Detect(doc) = "none" -> [text |-> <<>>, err |-> "unsupported"]
    [] Detect(doc) # "none" /\ Len(doc.parts) > MaxInput -> [text |-> <<>>, err |-> "too large"]
    [] Detect(doc) # "none" /\ Len(doc.parts) <= MaxInput /\ ~doc.opens ->
         [text |-> <<>>, err |-> "not a document"]
    [] OTHER ->
         LET r == CASE Detect(doc) = "docx" -> extractDOCX(doc)
                    [] Detect(doc) = "xlsx" -> extractXLSX(doc)
                    [] Detect(doc) = "pdf" -> extractPDF(doc)
         IN [text |-> r.out, err |-> IF r.err = "full" THEN "none" ELSE r.err]
-----------------------------------------------------------------------------
(* The screener reads the attachments of a message when some rule asks for *)
(* their text, and leaves one that has its text, or no data, alone.        *)
VARIABLES
  attachment, \* the document, and whether it has data whose text some rule asks for
  seen        \* the text the rules see, and the error logged

attachVars == <<attachment, seen>>

Documents(runs) == BoundedSeq({FlattenSeq(r) : r \in BoundedSeq(runs, MaxRuns)}, MaxParts)
Doc(ext, type, parts, strings) ==
  [extension |-> ext, contentType |-> type, parts |-> parts, strings |-> strings]

\* A document opens or not, and its unzipper tells the end of a part early or not.
Init ==
  /\ seen = [text |-> <<>>, err |-> "unread"]
  /\ \E asked, opens, early \in BOOLEAN :
     \E doc \in {Doc("docx", "pdf", ps, FALSE) : ps \in Documents(WordRuns)}
          \cup {Doc("none", "xlsx", ps, s) : ps \in Documents(SheetRuns), s \in BOOLEAN}
          \cup {Doc("none", "pdf", ps, FALSE) : ps \in BoundedSeq(Pages, MaxParts + 1)}
          \cup {Doc("none", "none", <<>>, FALSE)} :
       attachment = [doc |-> doc @@ [opens |-> opens, early |-> early], asked |-> asked]

ReadAttachmentText ==
  /\ seen.err = "unread" /\ attachment.asked /\ Detect(attachment.doc) # "none"
  /\ seen' = Extract(attachment.doc)
  /\ UNCHANGED attachment

Next == ReadAttachmentText

Spec == Init /\ [][Next]_attachVars
-----------------------------------------------------------------------------
(* The text of a document, said of places rather than by reading.          *)
Inside(part, i, names) ==
  LET starts == {k \in 1..(i - 1) : part[k].name \in names /\ part[k].is = "start"}
      ends == {k \in 1..(i - 1) : part[k].name \in names /\ part[k].is = "end"}
  IN starts # {} /\ \A k \in ends : k < Max(starts)

WordAt(part, i) ==
  IF part[i] \in {Start("tab"), Start("br"), End("p")} THEN <<Break>>
  ELSE IF part[i].is = "chars" /\ Inside(part, i, {"t"}) THEN part[i].text ELSE <<>>

WholeText(doc) ==
  IF Detect(doc) = "pdf"
  THEN FlattenSeq([i \in 1..Min({MaxPages, Len(doc.parts)}) |->
                     IF doc.parts[i][1].is = "page" THEN Append(doc.parts[i][1].text, Break) ELSE <<>>])
  ELSE FlattenSeq([p \in DOMAIN doc.parts |->
                     FlattenSeq([i \in DOMAIN doc.parts[p] |-> WordAt(doc.parts[p], i)])])

Read == seen.err # "unread"

\* The rules see the text of a PDF or Word document from its beginning, whole
\* characters, as much as the limit has room for; less only when the reading
\* failed (Extract, limitedText).
TextIsPrefix ==
  Read /\ Detect(attachment.doc) # "xlsx" =>
    LET whole == WholeText(attachment.doc)
    IN /\ IsPrefix(seen.text, whole)
       /\ seen.err = "none" => seen.text = truncateUTF8(whole, MaxText)

\* Of a workbook, no number that stands for a shared string is text, and when
\* nothing stopped the reading every value that is not one, is (sheetText).
SheetsTellValues ==
  Read /\ Detect(attachment.doc) = "xlsx" /\ ~attachment.doc.strings =>
    LET ps == attachment.doc.parts
        value(p, i) ==
          /\ ps[p][i].is = "chars"
          /\ LET cells == {k \in 1..(i - 1) : ps[p][k] \in {Start("c"), Start("c s")}}
                 opens == {k \in 1..(i - 1) : ps[p][k] \in {Start("v"), Start("t")}}
             IN /\ opens # {}
                /\ \A k \in 1..(i - 1) : ps[p][k] \in {End("v"), End("t")} => k < Max(opens)
                /\ LET before == {k \in cells : k < Max(opens)}
                   IN before = {} \/ ps[p][Max(before)] = Start("c")
        values == FlattenSeq([p \in DOMAIN ps |->
                    FlattenSeq([i \in DOMAIN ps[p] |-> IF value(p, i) THEN ps[p][i].text ELSE <<>>])])
        wide(s) == SelectSeq(s, LAMBDA c : c # Break)
    IN /\ IsPrefix(wide(seen.text), wide(values))
       /\ seen.err = "none" /\ Bytes(seen.text) < MaxText - 1 => wide(seen.text) = wide(values)

\* Reading stops at its limits: no text past the limit, and no more tokens than
\* the budget of the whole package allows (WriteString, budgetReader).
ReadingBounded ==
  Read => /\ Bytes(seen.text) <= MaxText
          /\ seen.err = "none" /\ Detect(attachment.doc) # "pdf" /\ Bytes(seen.text) < MaxText - 1 =>
               SumFunction([p \in DOMAIN attachment.doc.parts |-> Len(attachment.doc.parts[p])])
                 <= MaxUnzip
=============================================================================
