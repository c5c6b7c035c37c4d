---------------------------- MODULE MimeParser ----------------------------
(***************************************************************************)
(* What the submission endpoint makes of a message                         *)
(* (internal/email/transports/smtp/mime) and what SendEmail then makes of  *)
(* its reply headers (reply_headers.go): the walk over the parts, the      *)
(* address lists and the threading headers, each a pure function of its    *)
(* input.  A step parses one input.                                        *)
(*                                                                         *)
(* A part is a leaf [type, attached, size] or a multipart [boundary,       *)
(* parts].  A character is one of the kinds the scanner tells apart.       *)
(***************************************************************************)
EXTENDS Integers, Sequences, FiniteSets, SequencesExt

CONSTANTS
  Bodies,          \* part trees
  AddressEntries,  \* entries of an address list, as sequences of characters
  MaxEntries,      \* bound on the entries of a list
  MaxThread,       \* bound on the Message-IDs of a thread
  MaxNesting,      \* maxNestingDepth
  MaxPart,         \* maxAttachmentBytes
  MaxAttachments,
  MaxReferences,
  MaxLine          \* maxReferencesLineBytes, in the units ids are measured in

VARIABLES input, output

vars == <<input, output>>

\* A Message-ID as wellFormedMessageID sees one: its length, whether it is in
\* angle brackets and printable, and where its @ stands.
MaxIdLength == 3
MessageIds == [size : 1..MaxIdLength + 1, brackets : BOOLEAN, printable : BOOLEAN,
               at : {"none", "first", "inside", "last"}]
-----------------------------------------------------------------------------
(* parser.go: walk, leaf and attach.                                       *)

IsMultipart(p) == "parts" \in DOMAIN p

NoBody == [ok |-> TRUE, text |-> <<>>, html |-> <<>>, attachments |-> <<>>]
Refused(out) == [out EXCEPT !.ok = FALSE]

\* readBounded reads one byte past the limit to see that there is one.
Lesser(a, b) == IF a < b THEN a ELSE b
readBounded(size) == Lesser(size, MaxPart + 1) <= MaxPart

\* isAttachment: said to be one, or nothing the body can hold.
isAttachment(leaf) == leaf.attached \/ leaf.type \notin {"plain", "html"}

\* Mutation: one attachment more than the limit is taken.
attachOneMore(leaf, out) ==
  IF Len(out.attachments) > MaxAttachments \/ ~readBounded(leaf.size) THEN Refused(out)
  ELSE [out EXCEPT !.attachments = Append(@, leaf)]

attach(leaf, out) ==
  IF Len(out.attachments) >= MaxAttachments \/ ~readBounded(leaf.size) THEN Refused(out)
  ELSE [out EXCEPT !.attachments = Append(@, leaf)]

\* appendPart: an empty part adds nothing.
appendPart(existing, leaf) == IF leaf.size = 0 THEN existing ELSE Append(existing, leaf)

leaf(p, out) ==
  IF isAttachment(p) THEN attach(p, out)
  ELSE IF ~readBounded(p.size) THEN Refused(out)
  ELSE IF p.type = "html" THEN [out EXCEPT !.html = appendPart(@, p)]
  ELSE [out EXCEPT !.text = appendPart(@, p)]

\* A part as the walk meets it.  One it descends into gives way to its parts, a
\* level down; what is left is taken in order, up to the first that is refused.
Met(p, depth) == [part |-> p, depth |-> depth]

descend(m) ==
  IF IsMultipart(m.part) /\ m.part.boundary /\ m.depth <= MaxNesting
  THEN [i \in DOMAIN m.part.parts |-> Met(m.part.parts[i], m.depth + 1)]
  ELSE <<m>>

visit(out, m) ==
  IF ~out.ok THEN out
  ELSE IF m.depth > MaxNesting \/ IsMultipart(m.part) THEN Refused(out)
  ELSE leaf(m.part, out)

walk(p) ==
  LET level[n \in 0..MaxNesting + 1] ==
        IF n = 0 THEN <<Met(p, 0)>>
        ELSE LET above == level[n - 1]
             IN  FlattenSeq([i \in DOMAIN above |-> descend(above[i])])
  IN  FoldLeft(visit, NoBody, level[MaxNesting + 1])
-----------------------------------------------------------------------------
(* headers.go: splitAddressList and addressList.                           *)

StartScan == [entries |-> <<>>, entry |-> <<>>, quote |-> FALSE, angle |-> FALSE,
              group |-> FALSE, comments |-> 0, escaped |-> FALSE]

\* Mutation: a comment inside a comment ends both.
ScanFlat(s, c) ==
  LET t == [s EXCEPT !.entry = Append(@, c)]
  IN  IF s.escaped THEN [t EXCEPT !.escaped = FALSE]
      ELSE IF c = "\\" /\ (s.quote \/ s.comments > 0) THEN [t EXCEPT !.escaped = TRUE]
      ELSE IF s.quote THEN [t EXCEPT !.quote = c # "quote"]
      ELSE IF c = "quote" THEN [t EXCEPT !.quote = TRUE]
      ELSE IF c = "(" THEN [t EXCEPT !.comments = 1]
      ELSE IF c = ")" /\ s.comments > 0 THEN [t EXCEPT !.comments = 0]
      ELSE IF s.comments > 0 THEN t
      ELSE IF c = "<" THEN [t EXCEPT !.angle = TRUE]
      ELSE IF c = ">" THEN [t EXCEPT !.angle = FALSE]
      ELSE IF s.angle THEN t
      ELSE IF c = ":" THEN [t EXCEPT !.group = TRUE]
      ELSE IF c = ";" THEN [t EXCEPT !.group = FALSE]
      ELSE IF c = "," /\ ~s.group THEN [s EXCEPT !.entries = Append(@, s.entry), !.entry = <<>>]
      ELSE t

\* One character of the scan, in the order of the switch's cases.
Scan(s, c) ==
  LET t == [s EXCEPT !.entry = Append(@, c)]
  IN  IF s.escaped THEN [t EXCEPT !.escaped = FALSE]
      ELSE IF c = "\\" /\ (s.quote \/ s.comments > 0) THEN [t EXCEPT !.escaped = TRUE]
      ELSE IF s.quote THEN [t EXCEPT !.quote = c # "quote"]
      ELSE IF c = "quote" THEN [t EXCEPT !.quote = TRUE]
      ELSE IF c = "(" THEN [t EXCEPT !.comments = @ + 1]
      ELSE IF c = ")" /\ s.comments > 0 THEN [t EXCEPT !.comments = @ - 1]
      ELSE IF s.comments > 0 THEN t
      ELSE IF c = "<" THEN [t EXCEPT !.angle = TRUE]
      ELSE IF c = ">" THEN [t EXCEPT !.angle = FALSE]
      ELSE IF s.angle THEN t
      ELSE IF c = ":" THEN [t EXCEPT !.group = TRUE]
      ELSE IF c = ";" THEN [t EXCEPT !.group = FALSE]
      ELSE IF c = "," /\ ~s.group THEN [s EXCEPT !.entries = Append(@, s.entry), !.entry = <<>>]
      ELSE t

\* Entries that are blank are dropped.
splitAddressList(chars) ==
  LET s == FoldLeft(Scan, StartScan, chars)
  IN  SelectSeq(Append(s.entries, s.entry), LAMBDA e : e # <<>>)

\* Whether net/mail (external) parses an entry: one with a stray "@" does not.
Parses(entry) == \A i \in DOMAIN entry : entry[i] # "@"

\* addressList: the whole list when it parses, else the entries that do.
addressList(chars) ==
  IF chars = <<>> THEN <<>> ELSE SelectSeq(splitAddressList(chars), Parses)

Joined(entries) ==
  FoldLeft(LAMBDA acc, e : IF acc = <<>> THEN e ELSE acc \o <<",">> \o e, <<>>, entries)
-----------------------------------------------------------------------------
(* threading.go and reply_headers.go.                                      *)

wellFormedMessageID(id) ==
  /\ id.size <= MaxIdLength /\ id.brackets
  /\ id.printable /\ id.at = "inside"

\* references: the root and the most recent.
references(ids) ==
  LET kept == SelectSeq(ids, wellFormedMessageID)
  IN  IF Len(kept) <= MaxReferences THEN kept
      ELSE <<kept[1]>> \o SubSeq(kept, Len(kept) - MaxReferences + 2, Len(kept))

\* messageIDProblem and validateReplyHeaders: what SendEmail refuses.
messageIDProblem(id) ==
  id.size > MaxIdLength \/ ~id.brackets \/ ~id.printable \/ id.at \in {"none", "first", "last"}

validateReplyHeaders(ids) ==
  Len(ids) <= MaxReferences /\ \A i \in DOMAIN ids : ~messageIDProblem(ids[i])

\* referencesLine: the root, and as many of the last as fit a line.
LineSize(ids) == FoldLeft(LAMBDA n, id : n + id.size + 1, -1, ids)

referencesLine(ids) ==
  LET Fits(i) == LineSize(<<ids[1]>> \o SubSeq(ids, i, Len(ids))) <= MaxLine
      from == CHOOSE i \in 2..Len(ids) + 1 :
                (i = Len(ids) + 1 \/ Fits(i)) /\ \A j \in 2..i - 1 : ~Fits(j)
  IN  IF ids = <<>> \/ LineSize(ids) <= MaxLine THEN ids
      ELSE <<ids[1]>> \o SubSeq(ids, from, Len(ids))
-----------------------------------------------------------------------------
Inputs ==
  {<<"body", b>> : b \in Bodies}
  \cup {<<"list", l>> : l \in UNION {[1..n -> AddressEntries] : n \in 0..MaxEntries}}
  \cup {<<"thread", t>> : t \in UNION {[1..n -> {id \in MessageIds : id.printable}] : n \in 0..2}
                                \cup {[i \in 1..n |-> [size |-> 1 + ((i + k) % MaxIdLength), brackets |-> TRUE,
                                                       printable |-> i # bad, at |-> "inside"]] :
                                       n \in 0..MaxThread, k \in 0..2, bad \in 0..MaxThread}}

Init == input \in Inputs /\ output = <<"none">>

\* Parse, for the part of the message the input is.
Parse ==
  /\ output = <<"none">>
  /\ output' = CASE input[1] = "body" -> <<"body", walk(input[2])>>
                 [] input[1] = "list" -> <<"list", addressList(Joined(input[2]))>>
                 [] OTHER -> <<"thread", references(input[2])>>
  /\ UNCHANGED input

Next == Parse

Spec == Init /\ [][Next]_vars
-----------------------------------------------------------------------------
TypeOK == input[1] \in {"body", "list", "thread"} /\ output[1] \in {"none", input[1]}

\* The parts of a message by where they stand: the indexes that lead there, as far
\* down as one level past the limit.
Places(p) ==
  LET down[n \in 0..MaxNesting + 1] ==
        IF n = 0 THEN {<<<<>>, p>>}
        ELSE UNION {{<<Append(q[1], i), q[2].parts[i]>> : i \in DOMAIN q[2].parts} :
                      q \in {r \in down[n - 1] : IsMultipart(r[2])}}
  IN  UNION {down[n] : n \in 0..MaxNesting + 1}

Sound(p) == \A q \in Places(p) : Len(q[1]) <= MaxNesting /\ (IsMultipart(q[2]) => q[2].boundary)

\* The leaves in the order of a reader: where two places part, by index.
Leaves(p) ==
  LET leaves == {q \in Places(p) : ~IsMultipart(q[2])}
      Before(q, r) == \E i \in DOMAIN q[1] \cap DOMAIN r[1] :
                        q[1][i] < r[1][i] /\ \A k \in 1..i - 1 : q[1][k] = r[1][k]
  IN  [n \in 1..Cardinality(leaves) |->
         (CHOOSE q \in leaves : Cardinality({r \in leaves : Before(r, q)}) = n - 1)[2]]

\* No part of a message is lost on the way ("a silently truncated attachment is
\* worse than a refused one", readBounded): a message is refused whole, for being
\* nested too deep, unbounded, too large or with too many attachments, or every
\* part of it is in the text, the HTML or the attachments, in order.
PartsKept ==
  output[1] = "body" =>
    LET parts == Leaves(input[2])
        attached == SelectSeq(parts, isAttachment)
        Shown(type) == SelectSeq(parts, LAMBDA p : ~isAttachment(p) /\ p.type = type /\ p.size > 0)
        out == output[2]
    IN  /\ out.ok <=> /\ Sound(input[2]) /\ Len(attached) <= MaxAttachments
                      /\ \A i \in DOMAIN parts : parts[i].size <= MaxPart
        /\ out.ok => out.attachments = attached /\ out.html = Shown("html")
                     /\ out.text = Shown("plain")

\* "Only the ones that fail are dropped" (addressList): whatever commas stand in
\* names, comments, groups and addresses, every entry of a list that parses is
\* kept, and no other; else a visible recipient would become a blind one.
AddressesKept ==
  output[1] = "list" => output[2] = SelectSeq(input[2], Parses)

\* The parser trims what it reads to what SendEmail accepts, and neither loses the
\* root of a thread or its last message ("what a client threads on"): no
\* submission is refused for its threading, and the line fits.
ThreadKept ==
  output[1] = "thread" =>
    LET ids == output[2]
        all == SelectSeq(input[2], LAMBDA id : ~messageIDProblem(id))
        line == referencesLine(ids)
    IN  /\ validateReplyHeaders(ids)
        /\ all # <<>> => ids # <<>> /\ Head(ids) = Head(all) /\ Last(ids) = Last(all)
        /\ LineSize(line) <= MaxLine
        /\ ids # <<>> => Head(line) = Head(ids) /\ Last(line) = Last(ids)

\* A submission is parsed whole or refused.
ParsedWhole == PartsKept /\ AddressesKept /\ ThreadKept
=============================================================================
