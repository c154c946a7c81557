------------------------------ MODULE BodyText ------------------------------
(* A decoded body in the hands of a control client (control/body.rs and the *)
(* pages of runtime/control.rs).  A text is a sequence of characters, each  *)
(* of some bytes; ranges are of bytes, and one that is handed out must not  *)
(* cut a character.  A search steps through the folded text with a          *)
(* Knuth-Morris-Pratt matcher that remembers in a ring where the last       *)
(* folded units come from.  A client reads a representation page by page,   *)
(* going on where the answer says; a selection is named by a URI.  A form   *)
(* is decoded in bounded pieces.  Cancellation is left out: wherever the    *)
(* work stands, it ends it with an error and no answer.                     *)
EXTENDS Integers, Sequences, SequencesExt, FiniteSets

CONSTANTS
  Tasks,         \* what is asked: [op, ...]
  Width,         \* the bytes of a character
  FoldOf,        \* the folded characters of a character
  DefaultPage,   \* DEFAULT_BODY_PAGE_LENGTH
  MaxPage,       \* MAX_BODY_PAGE_LENGTH
  FlushEvery,    \* the bytes of a form that are decoded at a time
  MaxForm,       \* MAX_DECODED_CONTENT_BYTES, of the array of values
  MaxInline      \* MAX_INLINE_SELECTION_BYTES

VARIABLES
  task,   \* the request
  work    \* what is done of it, and the answer

textVars == <<task, work>>

Less(a, b) == IF a > b THEN a - b ELSE 0    \* saturating_sub
Least(a, b) == IF a < b THEN a ELSE b
Greatest(a, b) == IF a > b THEN a ELSE b

(*---------------------------- bytes of a text -----------------------------*)

BytesUpTo(chars, n) == FoldLeft(LAMBDA sum, c : sum + Width[c], 0, SubSeq(chars, 1, n))
TextBytes(chars) == BytesUpTo(chars, Len(chars))
Boundaries(chars) == {BytesUpTo(chars, n) : n \in 0..Len(chars)}

AlignedStart(chars, offset) ==
  IF offset >= TextBytes(chars) THEN offset
  ELSE Min({b \in Boundaries(chars) : b >= offset})
AlignedEnd(chars, offset) == Max({b \in Boundaries(chars) : b <= offset})

Span(from, to) == [offset |-> from, length |-> to - from]

(*--------------------------------- search ---------------------------------*)

FoldedText(chars) == FlattenSeq([i \in DOMAIN chars |-> FoldOf[chars[i]]])

(* The folded text unit by unit, each with the bytes of its character. *)
UnitsOf(chars, i) ==
  [k \in DOMAIN FoldOf[chars[i]] |->
     [value |-> FoldOf[chars[i]][k],
      start |-> BytesUpTo(chars, i - 1), end |-> BytesUpTo(chars, i)]]
Units(chars) == FlattenSeq([i \in DOMAIN chars |-> UnitsOf(chars, i)])

(* A bug: a mismatch starts over, forgetting the shorter match under way. *)
StartsOver(query, table, value) ==
  [m \in 0..(Len(query) - 1) |-> IF value # query[m + 1] THEN 0 ELSE m]

(* A mismatch falls back to the longest shorter match under way. *)
Fallback(query, table, value) ==
  LET back[m \in 0..(Len(query) - 1)] ==
        IF m > 0 /\ value # query[m + 1] THEN back[table[m]] ELSE m
  IN back

Advance(query, table, matched, value) ==
  LET kept == Fallback(query, table, value)[matched]
  IN IF value = query[kept + 1] THEN kept + 1 ELSE kept

Failure(query) ==
  FoldLeft(LAMBDA table, i : Append(table, Advance(query, table, Last(table), query[i + 1])),
           <<0>>, [i \in 1..(Len(query) - 1) |-> i])

NewSearch(query) ==
  [at |-> "searching", query |-> FoldedText(query), table |-> Failure(FoldedText(query)),
   ring |-> [slot \in 0..(Len(FoldedText(query)) - 1) |-> [start |-> 0, end |-> 0]],
   next |-> 0, matched |-> 0, unit |-> 0, total |-> 0, matches |-> << >>]

(* What is read around a match of bytes from..to: half a page on each side, *)
(* unless that is more than a page.                                         *)
WindowFrom(chars, from) == AlignedStart(chars, Less(from, DefaultPage \div 2))
WindowTo(chars, to) ==
  AlignedEnd(chars, Least(to + DefaultPage \div 2, TextBytes(chars)))
ShortWindow(chars, start) ==
  Span(start, AlignedEnd(chars, Least(start + MaxPage, TextBytes(chars))))

CoveringWindow(chars, from, to) ==
  IF WindowTo(chars, to) - WindowFrom(chars, from) <= MaxPage
  THEN Span(WindowFrom(chars, from), WindowTo(chars, to))
  ELSE ShortWindow(chars, AlignedStart(chars,
                            Greatest(WindowFrom(chars, from), Less(to, MaxPage))))

MatchAt(from, to) ==
  [range |-> Span(from, to),
   before |-> Span(AlignedStart(task.text, Less(from, task.context)), from),
   after |-> Span(to, AlignedEnd(task.text, Least(to + task.context, TextBytes(task.text)))),
   window |-> CoveringWindow(task.text, from, to)]

WithMatch(w, from, to) ==
  [w EXCEPT !.total = @ + 1, !.matched = w.table[@],
            !.matches = IF Len(@) >= task.limit THEN @ ELSE Append(@, MatchAt(from, to))]

Remember(w, unit) ==
  [w EXCEPT !.ring[w.next] = [start |-> unit.start, end |-> unit.end],
            !.next = (@ + 1) % Len(w.query),
            !.matched = Advance(w.query, w.table, @, unit.value),
            !.unit = @ + 1]

Pushed(w, unit) ==
  IF w.matched = Len(w.query) THEN WithMatch(w, w.ring[w.next].start, unit.end) ELSE w

PushUnit ==
  /\ work.at = "searching" /\ work.unit < Len(Units(task.text))
  /\ \E unit \in {Units(task.text)[work.unit + 1]} :
       work' = Pushed(Remember(work, unit), unit)
  /\ UNCHANGED task

EndSearch ==
  /\ work.at = "searching" /\ work.unit = Len(Units(task.text))
  /\ work' = [work EXCEPT !.at = "done"]
  /\ UNCHANGED task

(*---------------------------------- URIs ----------------------------------*)

(* The query of a selection URI: pairs of a name and a value, which is      *)
(* canonical when it is written the one way its meaning is.                 *)
SelectorName(kind) == IF kind = "json-pointer" THEN "pointer" ELSE "key"
Pair(name, value) == [name |-> name, value |-> value, canonical |-> TRUE]

WithRange(pairs, offset, length) == pairs \o <<Pair("offset", offset), Pair("length", length)>>
BasePairs(kind, selector) == <<Pair(SelectorName(kind), selector)>>
ToUri(kind, selector, offset, length) == WithRange(BasePairs(kind, selector), offset, length)

NoUri == [valid |-> TRUE, stage |-> 0, selector |-> << >>, offset |-> << >>, length |-> << >>]

(* A name is taken once and in its order, the selector before the range. *)
ParsePair(kind, read, pair) ==
  IF ~read.valid \/ ~pair.canonical THEN [read EXCEPT !.valid = FALSE]
  ELSE IF pair.name = SelectorName(kind) /\ read.selector = << >> /\ read.stage = 0
  THEN [read EXCEPT !.selector = <<pair.value>>, !.stage = 1]
  ELSE IF pair.name = "offset" /\ read.offset = << >> /\ read.stage <= 1
  THEN [read EXCEPT !.offset = <<pair.value>>, !.stage = 2]
  ELSE IF pair.name = "length" /\ read.length = << >> /\ read.stage <= 2
  THEN [read EXCEPT !.length = <<pair.value>>, !.stage = 3]
  ELSE [read EXCEPT !.valid = FALSE]

Given(option, default) == IF option = << >> THEN default ELSE option[1]

(* The request a URI stands for, as an option. *)
ParseUri(kind, pairs) ==
  LET read == FoldLeft(LAMBDA r, pair : ParsePair(kind, r, pair), NoUri, pairs) IN
  IF ~read.valid \/ read.selector = << >> \/ Given(read.length, DefaultPage) \notin 1..MaxPage
  THEN << >>
  ELSE <<[selector |-> read.selector[1], offset |-> Given(read.offset, 0),
          length |-> Given(read.length, DefaultPage)]>>

(*---------------------------------- pages ---------------------------------*)

(* What is paged is a text, or bytes that are none; positions stand for its *)
(* bytes.  The raw form comes in chunks.                                    *)
Total == TextBytes(task.text)
IsBoundary(offset) == ~task.utf8 \/ offset \in Boundaries(task.text)

(* The part of a chunk from first..last bytes that start..end takes. *)
ChunkPart(first, last, start, end) ==
  IF last > start /\ first < end
  THEN [i \in 1..(Least(last, end) - Greatest(first, start)) |-> Greatest(first, start) + i]
  ELSE << >>

ChunkEnd(n) == FoldLeft(LAMBDA sum, size : sum + size, 0, SubSeq(task.chunks, 1, n))
ChunkBytes(start, end) ==
  FlattenSeq([n \in DOMAIN task.chunks |-> ChunkPart(ChunkEnd(n - 1), ChunkEnd(n), start, end)])

Bytes(start, end) == [i \in 1..(end - start) |-> start + i]

Page(offset, start, content) ==
  [offset |-> offset, start |-> start, content |-> content,
   next |-> IF start + Len(content) < Total THEN <<start + Len(content)>> ELSE << >>]

RawPage(offset, length) ==
  Page(offset, Least(offset, Total),
       ChunkBytes(Least(offset, Total), Least(Least(offset, Total) + length, Total)))

(* A page of a text ends with a character; it holds at least one. *)
NextBoundary(start) == Min({b \in Boundaries(task.text) : b > start})

PageEnd(start, end) ==
  IF ~task.utf8 THEN end
  ELSE IF AlignedEnd(task.text, end) <= start /\ start < Total THEN NextBoundary(start)
  ELSE AlignedEnd(task.text, end)

PageFrom(offset, start, length) ==
  Page(offset, start, Bytes(start, PageEnd(start, Least(start + length, Total))))

(* An offset inside of a character is refused with the offsets around it;   *)
(* a character has at most four bytes.                                      *)
Nearest(offset) ==
  [floor |-> Max({0} \union {b \in Boundaries(task.text) : b \in Less(offset, 3)..(offset - 1)}),
   ceiling |-> Min({Total} \union {b \in Boundaries(task.text) : b \in (offset + 1)..(offset + 3)})]

RefusePage(reason, nearest) ==
  work' = [work EXCEPT !.at = "refused", !.reason = reason, !.nearest = nearest]

Continue(page, uri) ==
  work' = [work EXCEPT !.at = IF page.next = << >> THEN "done" ELSE "reading",
                       !.pages = Append(@, page), !.uri = uri,
                       !.offset = IF page.next = << >> THEN @ ELSE page.next[1]]

NewReading(offset, uri) ==
  [at |-> "reading", offset |-> offset, pages |-> << >>, uri |-> uri, reason |-> "none",
   nearest |-> << >>]

ReadRaw ==
  /\ work.at = "reading" /\ task.form = "raw"
  /\ Continue(RawPage(work.offset, task.length), << >>)
  /\ UNCHANGED task

ReadDecoded ==
  /\ work.at = "reading" /\ task.form = "decoded"
  /\ \E start \in {Least(work.offset, Total)} :
       IF IsBoundary(start) THEN Continue(PageFrom(work.offset, start, task.length), << >>)
       ELSE RefusePage("inside", <<Nearest(start)>>)
  /\ UNCHANGED task

NextUri(page, read) ==
  IF page.next = << >> THEN << >>
  ELSE WithRange(BasePairs(task.kind, read.selector), page.next[1], read.length)

(* A page of a selection is asked for by its URI. *)
SelectedPage(read) ==
  IF read.offset > Total THEN RefusePage("beyond", << >>)
  ELSE IF ~IsBoundary(read.offset) THEN RefusePage("inside", <<Nearest(read.offset)>>)
  ELSE \E page \in {PageFrom(read.offset, read.offset, read.length)} :
         Continue(page, NextUri(page, read))

ReadSelected ==
  /\ work.at = "reading" /\ task.form = "selected"
  /\ \E parsed \in {ParseUri(task.kind, work.uri)} :
       IF parsed = << >> THEN RefusePage("uri", << >>) ELSE SelectedPage(parsed[1])
  /\ UNCHANGED task

(*---------------------------------- forms ---------------------------------*)

Plus == 43
Percent == 37
Ampersand == 38
Equals == 61

HexDigits == (48..57) \union (65..70) \union (97..102)
HexValue(byte) ==
  CASE byte \in 48..57 -> byte - 48
    [] byte \in 65..70 -> byte - 55
    [] byte \in 97..102 -> byte - 87

IsEscape(input, i) ==
  /\ input[i] = Percent /\ i + 2 <= Len(input)
  /\ input[i + 1] \in HexDigits /\ input[i + 2] \in HexDigits

FormByte(input, i) ==
  IF input[i] = Plus THEN [byte |-> 32, taken |-> 1]
  ELSE IF IsEscape(input, i)
  THEN [byte |-> 16 * HexValue(input[i + 1]) + HexValue(input[i + 2]), taken |-> 3]
  ELSE [byte |-> input[i], taken |-> 1]

(* What str::from_utf8 says of the bytes from i on (of one to three bytes a *)
(* character): a character, an error of some bytes, or too few.             *)
Continues(bytes, i) == i \in DOMAIN bytes /\ bytes[i] \in 128..191
Utf8Next(bytes, i) ==
  IF bytes[i] < 128 THEN [kind |-> "char", bytes |-> 1]
  ELSE IF bytes[i] \in 194..223
  THEN IF Continues(bytes, i + 1) THEN [kind |-> "char", bytes |-> 2]
       ELSE IF i = Len(bytes) THEN [kind |-> "short", bytes |-> 0] ELSE [kind |-> "bad", bytes |-> 1]
  ELSE IF bytes[i] \in 225..236
  THEN IF ~Continues(bytes, i + 1)
       THEN IF i = Len(bytes) THEN [kind |-> "short", bytes |-> 0] ELSE [kind |-> "bad", bytes |-> 1]
       ELSE IF Continues(bytes, i + 2) THEN [kind |-> "char", bytes |-> 3]
       ELSE IF i + 1 = Len(bytes) THEN [kind |-> "short", bytes |-> 0]
       ELSE [kind |-> "bad", bytes |-> 2]
  ELSE [kind |-> "bad", bytes |-> 1]

Replacement == <<239, 191, 189>>

(* The state of a decoder: the bytes that wait, the text so far; not fits   *)
(* once the text would be longer than the limit.                            *)
NewDecoder == [bytes |-> << >>, output |-> << >>, fits |-> TRUE, scanned |-> 0]

AppendBounded(d, bytes, limit) ==
  IF ~d.fits \/ Len(d.output) + Len(bytes) > limit THEN [d EXCEPT !.fits = FALSE]
  ELSE [d EXCEPT !.output = @ \o bytes]

Drop(bytes, n) == SubSeq(bytes, n + 1, Len(bytes))

FlushOne(d, found, final, limit) ==
  CASE found.kind = "char" ->
         [AppendBounded(d, SubSeq(d.bytes, 1, found.bytes), limit)
            EXCEPT !.bytes = Drop(@, found.bytes)]
    [] found.kind = "bad" ->
         [AppendBounded(d, Replacement, limit) EXCEPT !.bytes = Drop(@, found.bytes)]
    [] found.kind = "short" /\ final ->
         [AppendBounded(d, Replacement, limit) EXCEPT !.bytes = << >>]
    [] found.kind = "short" /\ ~final -> d

(* A bug: what is cut off at the end of a piece is given up there. *)
FlushAlways(d, final, limit) ==
  FoldLeft(LAMBDA e, i : IF e.bytes = << >> \/ ~e.fits THEN e
                         ELSE FlushOne(e, Utf8Next(e.bytes, 1), TRUE, limit),
           d, d.bytes)

(* As many characters as are complete; at the end, what is left. *)
Flush(d, final, limit) ==
  FoldLeft(LAMBDA e, i : IF e.bytes = << >> \/ ~e.fits THEN e
                         ELSE FlushOne(e, Utf8Next(e.bytes, 1), final, limit),
           d, d.bytes)

FlushIfDue(d, limit) ==
  IF d.scanned >= FlushEvery THEN [Flush(d, FALSE, limit) EXCEPT !.scanned = 0] ELSE d

DecodeByte(d, found, limit) ==
  FlushIfDue([d EXCEPT !.bytes = Append(@, found.byte), !.scanned = @ + found.taken], limit)

(* What of the input is decoded to, as far as the limit allows. *)
DecodeFrom(input, read, limit) ==
  IF read.at > Len(input) \/ ~read.decoder.fits THEN read
  ELSE [decoder |-> DecodeByte(read.decoder, FormByte(input, read.at), limit),
        at |-> read.at + FormByte(input, read.at).taken]

DecodeComponent(input, limit) ==
  Flush(FoldLeft(LAMBDA read, byte : DecodeFrom(input, read, limit),
                 [decoder |-> NewDecoder, at |-> 1], input).decoder,
        TRUE, limit)

(* The bytes up to the first delimiter, and those behind it. *)
DelimiterAt(input, delimiter) ==
  Min({Len(input) + 1} \union {i \in DOMAIN input : input[i] = delimiter})
UpTo(input, delimiter) == SubSeq(input, 1, DelimiterAt(input, delimiter) - 1)
Behind(input, delimiter) == SubSeq(input, DelimiterAt(input, delimiter) + 1, Len(input))

(* The values found so far are written as an array of JSON strings; `size`  *)
(* is what is written of it, without the closing bracket.                   *)
NewForm(input) ==
  [at |-> "form", rest |-> input, values |-> << >>, size |-> 1, reason |-> "none",
   inline |-> TRUE, uri |-> << >>]

Quoted(value) == 2 + Len(value)
Separator(w) == IF w.values = << >> THEN 0 ELSE 1

RefuseForm(reason) == work' = [work EXCEPT !.at = "refused", !.reason = reason]

(* A selection that is too long to be answered is named instead. *)
Represented(w, size) ==
  IF size <= MaxInline THEN [w EXCEPT !.size = size]
  ELSE [w EXCEPT !.size = size, !.inline = FALSE, !.uri = ToUri("form-field", 0, 0, DefaultPage)]

Finish(w, input) ==
  work' = IF DelimiterAt(input, Ampersand) <= Len(input)
          THEN [w EXCEPT !.rest = Behind(input, Ampersand)]
          ELSE IF w.values = << >> THEN [w EXCEPT !.at = "refused", !.reason = "notfound"]
          ELSE IF w.size >= MaxForm THEN [w EXCEPT !.at = "refused", !.reason = "size"]
          ELSE [Represented(w, w.size + 1) EXCEPT !.at = "done"]

WriteValue(value) ==
  IF ~value.fits \/ work.size + Separator(work) + Quoted(value.output) >= MaxForm
  THEN RefuseForm("size")
  ELSE Finish([work EXCEPT !.size = @ + Separator(work) + Quoted(value.output),
                           !.values = Append(@, value.output)], work.rest)

(* A key that is longer than the one looked for is not decoded to its end. *)
IsField(decoded) == decoded.fits /\ decoded.output = task.key

ReadField ==
  /\ work.at = "form"
  /\ \E field \in {UpTo(work.rest, Ampersand)} :
       IF IsField(DecodeComponent(UpTo(field, Equals), Len(task.key)))
       THEN WriteValue(DecodeComponent(Behind(field, Equals), MaxForm))
       ELSE Finish(work, work.rest)
  /\ UNCHANGED task

(*---------------------------------- work ----------------------------------*)

TextInit == task = << >> /\ work = [at |-> "idle"]

(* A task is validated before it starts: its query and key are not empty,   *)
(* its length is in range.                                                  *)
BeginText ==
  /\ work.at = "idle"
  /\ task' \in Tasks
  /\ work' = CASE task'.op = "search" -> NewSearch(task'.query)
               [] task'.op = "page" ->
                    NewReading(task'.offset, task'.uri)
               [] task'.op = "form" ->
                    IF Len(task'.input) > MaxForm
                    THEN [NewForm(task'.input) EXCEPT !.at = "refused", !.reason = "input"]
                    ELSE NewForm(task'.input)

TextNext ==
  \/ BeginText \/ PushUnit \/ EndSearch
  \/ ReadRaw \/ ReadDecoded \/ ReadSelected \/ ReadField

TextSpec == TextInit /\ [][TextNext]_textVars
=============================================================================
