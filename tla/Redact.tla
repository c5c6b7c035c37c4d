------------------------------- MODULE Redact -------------------------------
(***************************************************************************)
(* internal/redact: secrets masked in a stored message before GetEvent     *)
(* shows it.  A body is a sequence of what the patterns tell apart: a      *)
(* label of a family, a delimiter, a line break, the tags of a cell, an    *)
(* issued credential, the two lines of a key block, a digit run, a word.   *)
(* Blanks belong to their neighbours.                                      *)
(***************************************************************************)
EXTENDS Integers, Sequences, FiniteSets, SequencesExt, FiniteSetsExt, Functions

CONSTANTS
  Fragments,    \* what a body is put together from
  MaxFragments, \* how many at most
  Digits, MinDigits, MaxDigits \* digit runs Luhn is asked about; 13 to 19 in the code

Mask == "*****"
Open == "<td>"
Shut == "</td>"
Tags == {Open, Shut}
Break == "line break"
Delimiter == ":"
KeyBegin == "-----BEGIN"
KeyEnd == "-----END"
Card == "digits that pass Luhn"
Issued == "issued credential"

Labels == {"password", "code", "secret"}
Levels == {"off", "passwords", "codes", "secrets", "unknown"}

\* Mutant of patternsFor: a level masks its own family only.
patternsForOwn(l) ==
  CASE l = "off" -> <<>>
    [] l = "passwords" -> <<"password">>
    [] l = "codes" -> <<"code">>
    [] OTHER -> <<"secret">>

\* The families a level masks; a level this build does not know masks them all.
patternsFor(l) ==
  CASE l = "off" -> <<>>
    [] l = "passwords" -> <<"password">>
    [] l = "codes" -> <<"password", "code">>
    [] OTHER -> <<"password", "code", "secret">>

LevelFromString(s) == IF s \in {"off", "codes", "secrets"} THEN s ELSE "passwords"
String(l) == IF l \in {"off", "codes", "secrets"} THEN l ELSE "passwords"
-----------------------------------------------------------------------------
(* A match of a pattern at i: how many tokens it keeps and how many it     *)
(* replaces.                                                               *)
NoMatch == [hit |-> FALSE, kept |-> 0, masked |-> 0]
Hit(kept, masked) == [hit |-> TRUE, kept |-> kept, masked |-> masked]

At(body, i) == IF i \in DOMAIN body THEN body[i] ELSE "end"

\* The length of the run of tokens from i that satisfy Test.
RunOf(body, i, Test(_)) ==
  Min({n \in 0..Len(body) : i + n > Len(body) \/ ~Test(body[i + n])})

Breaks(body, i) == RunOf(body, i, LAMBDA t : t = Break)
ToLineEnd(body, i) == RunOf(body, i, LAMBDA t : t # Break /\ t \notin Tags)

\* The first position after a label at i and its delimiter, either of them
\* followed by line breaks; 0 when there is none.
AfterDelimiter(body, i) ==
  LET d == i + 1 + Breaks(body, i + 1)
  IN IF At(body, d) = Delimiter THEN d + 1 + Breaks(body, d + 1) ELSE 0

\* The value is what is left of the line, or of the text before a tag.
ValueAt(body, i, v) ==
  IF v = 0 \/ ToLineEnd(body, v) = 0 THEN NoMatch ELSE Hit(v - i, ToLineEnd(body, v))

buildPattern(label, body, i) ==
  IF At(body, i) # label THEN NoMatch ELSE ValueAt(body, i, AfterDelimiter(body, i))

\* At most four tags, each followed by line breaks, before the value.
buildHTMLPattern(label, body, i) ==
  IF At(body, i) # label \/ AfterDelimiter(body, i) = 0 THEN NoMatch
  ELSE LET v == AfterDelimiter(body, i)
           n == RunOf(body, v, LAMBDA t : t \in Tags \cup {Break})
       IN IF Cardinality({k \in v..(v + n - 1) : body[k] \in Tags}) > 4 THEN NoMatch
          ELSE ValueAt(body, i, v + n)

\* A cell with a label alone, then a cell with the value, to the next tag.
buildCellPattern(label, body, i) ==
  LET a == i + 1 + Breaks(body, i + 1)                   \* the label
      b == a + 1 + Breaks(body, a + 1)
      c == IF At(body, b) = Delimiter THEN b + 1 + Breaks(body, b + 1) ELSE b
      d == c + 1 + Breaks(body, c + 1)                   \* the next cell
      v == d + 1 + Breaks(body, d + 1)
      n == RunOf(body, v, LAMBDA t : t \notin Tags)
  IN IF At(body, i) = Open /\ At(body, a) = label /\ At(body, c) = Shut /\ At(body, d) = Open /\ n > 0
     THEN Hit(v - i, n) ELSE NoMatch

\* ReplaceAllString: the leftmost match, then the next after it.
Replaced(body, Match(_, _), put) ==
  LET from[i \in 1..(Len(body) + 1)] ==
        IF i > Len(body) THEN <<>>
        ELSE LET m == Match(body, i)
             IN IF ~m.hit THEN <<body[i]>> \o from[i + 1]
                ELSE SubSeq(body, i, i + m.kept - 1) \o put \o from[i + m.kept + m.masked]
  IN from[1]

\* A key block keeps its first and last line; an issued credential goes whole.
maskShapes(body) ==
  LET block(b, i) ==
        LET ends == {j \in (i + 1)..Len(b) : b[j] = KeyEnd}
        IN IF At(b, i) = KeyBegin /\ ends # {} THEN Hit(1, Min(ends) - i - 1) ELSE NoMatch
      issued(b, i) == IF At(b, i) = Issued THEN Hit(0, 1) ELSE NoMatch
  IN Replaced(Replaced(body, block, <<Break, Mask, Break>>), issued, <<Mask>>)

maskCards(body) == [i \in DOMAIN body |-> IF body[i] = Card THEN Mask ELSE body[i]]

maskUnlabelled(body, l) ==
  CASE l = "off" -> body
    [] l \in {"passwords", "codes"} -> maskShapes(body)
    [] OTHER -> maskCards(maskShapes(body))

\* The families one after the other, each on what the one before left.
Families(body, l, Pattern(_, _, _)) ==
  FoldLeft(LAMBDA b, label : Replaced(b, LAMBDA x, i : Pattern(label, x, i), <<Mask>>),
           body, patternsFor(l))

Text(body, l) ==
  IF l = "off" THEN body ELSE maskUnlabelled(Families(body, l, buildPattern), l)

HTML(body, l) ==
  IF l = "off" THEN body
  ELSE maskUnlabelled(Families(Families(body, l, buildHTMLPattern), l, buildCellPattern), l)

Subject(subject, l) ==
  IF l = "off" THEN subject ELSE maskUnlabelled(Families(subject, l, buildPattern), l)

\* The Luhn checksum: every second digit from the right counts double.
luhn(ds) ==
  LET n == Len(ds)
      worth(i) == IF (n - i) % 2 = 0 THEN ds[i]
                  ELSE IF 2 * ds[i] > 9 THEN 2 * ds[i] - 9 ELSE 2 * ds[i]
  IN n \in MinDigits..MaxDigits /\ SumFunction([i \in 1..n |-> worth(i)]) % 10 = 0
-----------------------------------------------------------------------------
(* A stored message is read while the setting changes.  A word is named by *)
(* its place, so that what is shown says which words are.                  *)
Names == <<"w1", "w2", "w3", "w4", "w5", "w6", "w7", "w8", "w9", "w10", "w11", "w12", "w13",
           "w14", "w15">>
Named(body) == [i \in DOMAIN body |-> IF body[i] = "word" THEN Names[i] ELSE body[i]]

Bodies == {Named(FlattenSeq(fs)) : fs \in BoundedSeq(Fragments, MaxFragments)}

VARIABLES
  body,    \* the stored message: its subject, text and HTML are one text here
  setting, \* the stored setting, or "unset" when no source is wired
  shown    \* what the last GetEvent or ListEvents answered, and at which level

redactVars == <<body, setting, shown>>

NothingShown == [level |-> "none", text |-> <<>>, html |-> <<>>, subject |-> <<>>, event |-> <<>>]

Init == body \in Bodies /\ setting = "unset" /\ shown = NothingShown

\* A level named in another build's words reads as the default.
SetRedaction ==
  \E s \in {"off", "passwords", "codes", "secrets", "another"} :
    /\ setting # s /\ setting' = s
    /\ UNCHANGED <<body, shown>>

redactionLevel == IF setting = "unset" THEN "passwords" ELSE LevelFromString(setting)

\* The event with its subject as it was sent, and the message masked.
GetEvent ==
  /\ LET l == redactionLevel
     IN shown' = [level |-> l, text |-> Text(body, l), html |-> HTML(body, l),
                  subject |-> Subject(body, l), event |-> body]
  /\ UNCHANGED <<body, setting>>

\* The delivery list: events, and no message.
ListEvents ==
  /\ shown' = [NothingShown EXCEPT !.event = body]
  /\ UNCHANGED <<body, setting>>

Next == SetRedaction \/ GetEvent \/ ListEvents

Spec == Init /\ [][Next]_redactVars
-----------------------------------------------------------------------------
(* What a reader would call introduced, said of positions rather than by   *)
(* scanning.                                                               *)
Between(lo, hi, S) == \A k \in (lo + 1)..(hi - 1) : body[k] \in S
Plain(lo, hi) == \A k \in lo..hi : body[k] \notin Tags \cup {Break}

\* A label at i, a delimiter, and p on the line the value begins on; HTML may
\* have up to tags tags before it.
Introduces(i, p, tags) ==
  \E d \in (i + 1)..(p - 1), v \in (i + 2)..p :
    /\ body[d] = Delimiter /\ Between(i, d, {Break})
    /\ d < v /\ Between(d, v, Tags \cup {Break}) /\ Plain(v, p)
    /\ Cardinality({k \in d..v : body[k] \in Tags}) <= tags

\* A label alone in the cell before the one p is in.
HeadsCell(i, p) ==
  \E a, c, d \in 1..(p - 1) :
    /\ a < i /\ i < c /\ c < d /\ body[a] = Open /\ body[c] = Shut /\ body[d] = Open
    /\ Between(a, i, {Break}) /\ Between(c, d, {Break})
    /\ Between(i, c, {Break, Delimiter})
    /\ Cardinality({k \in i..c : body[k] = Delimiter}) <= 1
    /\ \A k \in (d + 1)..p : body[k] \notin Tags

Points(i, p, view) ==
  IF view = "html" THEN Introduces(i, p, 4) \/ HeadsCell(i, p) ELSE Introduces(i, p, 0)

InBlock(p) ==
  \E a \in 1..(p - 1), b \in (p + 1)..Len(body) :
    body[a] = KeyBegin /\ body[b] = KeyEnd /\ \A k \in a..p : body[k] # KeyEnd

\* The three masked fields of the message.
Views == {"text", "html", "subject"}
Shown(view) == ToSet(shown[view])
Words == {p \in DOMAIN body : body[p] \in ToSet(Names)}
Masked(l) == {i \in DOMAIN body : body[i] \in ToSet(patternsFor(l))}

\* A word that a label of a masked family introduces is not shown, where the
\* label is not itself part of what another label introduces; an issued
\* credential is shown at no level, nor a card at the widest (Text, HTML, Subject).
\* Said of the message GetEvent shows; the event beside it is not masked
\* (SubjectsAlwaysHidden, which fails).
LabelledHidden ==
  shown.level \notin {"none", "off"} =>
    \A view \in Views :
      /\ \A p \in Words, i \in Masked(shown.level) :
           /\ Points(i, p, view) /\ ~\E j \in Masked(shown.level) : Points(j, i, view)
           => body[p] \notin Shown(view)
      /\ Issued \notin Shown(view)
      /\ shown.level = "secrets" => Card \notin Shown(view)

\* "the delivery list shows them without anyone opening a message" (Subject,
\* TestSubjectsAreRedactedToo): an issued credential in a subject is shown nowhere.
\* It fails: the events of ListEvents and GetEvent carry the subject as it was sent.
SubjectsAlwaysHidden ==
  shown.level \notin {"none", "off"} => Issued \notin Shown("subject") \cup ToSet(shown.event)

\* A word nothing introduces is still shown, outside a key block, and so are the
\* tags: what is masked is what a label of a masked family points at (Text,
\* HTML).
RestShown ==
  shown.level # "none" =>
    \A view \in Views :
      /\ \A p \in Words :
           ~InBlock(p) /\ (\A i \in Masked(shown.level) : ~Points(i, p, view))
           => body[p] \in Shown(view)
      /\ (\A p \in DOMAIN body : ~InBlock(p)) =>
           SelectSeq(shown.html, LAMBDA t : t \in Tags) = SelectSeq(body, LAMBDA t : t \in Tags)

\* No label of a masked family takes the first or the last line of a key block.
BlocksWhole(l, view) ==
  \A a \in DOMAIN body, i \in Masked(l) : body[a] \in {KeyBegin, KeyEnd} => ~Points(i, a, view)

\* A key block's lines are shown at no level, unless a label of a masked family
\* took its first or last line (maskShapes runs after the labels).
KeyBlocksHidden ==
  shown.level \notin {"none", "off"} =>
    \A view \in Views, p \in Words :
      InBlock(p) /\ BlocksWhole(shown.level, view) => body[p] \notin Shown(view)

\* The same without the exception, which is what the comment of shapePatterns
\* promises of a private key: the labels' patterns run first, a label such as
\* "Private key:" takes the block's first line, and the block is no longer one.
KeyBlocksAlwaysHidden ==
  shown.level \notin {"none", "off"} =>
    \A view \in Views, p \in Words : InBlock(p) => body[p] \notin Shown(view)

\* A wider level shows no word a narrower one hides (patternsFor), while no
\* label takes a line of a key block.
WiderHidesMore ==
  LET hidden(l) == {p \in Words : body[p] \notin ToSet(Text(body, l))}
  IN BlocksWhole("secrets", "text") => /\ hidden("passwords") \subseteq hidden("codes")
        /\ hidden("codes") \subseteq hidden("secrets")
        /\ hidden("secrets") = hidden("unknown")

\* The checksum notices one wrong digit and two neighbours swapped, but for 0
\* and 9 (luhn).
LuhnNoticesSlips ==
  \A n \in MinDigits..MaxDigits : \A ds \in [1..n -> Digits] : luhn(ds) =>
    /\ \A i \in 1..n, d \in Digits : d # ds[i] => ~luhn([ds EXCEPT ![i] = d])
    /\ \A i \in 1..(n - 1) :
         ds[i] # ds[i + 1] /\ {ds[i], ds[i + 1]} # {0, 9}
         => ~luhn([ds EXCEPT ![i] = ds[i + 1], ![i + 1] = ds[i]])
=============================================================================
