---------------------------- MODULE ControlReads ----------------------------
(* What control clients do with captured bodies: the jobs that get a body   *)
(* decoded (BodyJobs), and what a worker that has it answers from it: an    *)
(* inspection of JSON (JsonWalk), or a search, a page, a form (BodyText).   *)
(* The answer is computed from the bytes alone, and a job only waits for    *)
(* it, so the three share no state.  Bound: a behaviour either makes calls  *)
(* or computes one answer, and that one before anything else happened.      *)
EXTENDS BodyJobs, JsonWalk, BodyText

readVars == <<bodyVars, walkVars, textVars>>

ReadsInit == JobsInit /\ WalkInit /\ TextInit

WorksOnJobs == JobsNext /\ WalkInit /\ TextInit /\ UNCHANGED <<walkVars, textVars>>
Walks == JobsInit /\ TextInit /\ WalkNext /\ UNCHANGED <<bodyVars, textVars>>
Texts == JobsInit /\ WalkInit /\ TextNext /\ UNCHANGED <<bodyVars, walkVars>>

ReadsNext == WorksOnJobs \/ Walks \/ Texts

ReadsSpec == ReadsInit /\ [][ReadsNext]_readVars /\ Fairness

(*------------------ answers about the JSON of a body ----------------------*)

(* What the three inspections of JsonWalk must answer, said of the document *)
(* as a whole: its values, in the order they start, each with the pointer   *)
(* the document gives it.                                                   *)

Values == DOMAIN text.values
At(op) == walk.at = "done" /\ inspection.op = op

InOrder(S) == SetToSortSeq(S, LAMBDA i, j : i < j)
InEndOrder(S) == SetToSortSeq(S, LAMBDA i, j : text.values[i].last < text.values[j].last)
RawOf(i) == text.values[i].raw
Under(S) == {i \in Values : text.values[i].up \in S}
HintOf(i) == [segment |-> DecodeSegment(Last(RawSegments(RawOf(i))), FALSE)[1],
              kind |-> text.values[i].kind]

(*--------------------------------- finder ---------------------------------*)

Wanted ==
  {i \in Values : /\ text.values[i].field
                  /\ KeyMatches(text.values[i].key, inspection.name, inspection.mode)}

Described(i) ==
  [pointer |-> RawOf(i), kind |-> text.values[i].kind, count |-> text.values[i].count]

CostOf(S) == FoldSet(LAMBDA i, sum : sum + 1 + Len(RawOf(i)), 0, S)

(* `listed` is kept when every match goes in for which there is room. *)
Listable(listed) ==
  /\ Cardinality(listed) <= inspection.limit /\ CostOf(listed) <= WireBudget
  /\ \A i \in Wanted \ listed :
       \E before \in {{j \in listed : text.values[j].last < text.values[i].last}} :
         Cardinality(before) = inspection.limit \/ CostOf(before \union {i}) > WireBudget

(* The finder counts the fields of the name, however deep and whatever      *)
(* they hold, each once: not the fields of another name, nor the elements   *)
(* of an array that is such a field.  It describes them with their own      *)
(* pointer and number of children, in the order in which they end, and      *)
(* leaves out only what there is no room for.                               *)
FoundAreTheFields ==
  At("find") =>
    /\ seen.total = Cardinality(Wanted)
    /\ \E listed \in SUBSET Wanted :
         /\ Listable(listed)
         /\ IsPrefix(seen.matches, [n \in 1..Cardinality(listed) |-> Described(InEndOrder(listed)[n])])
         /\ Len(seen.matches) < Cardinality(listed) => CostOf(listed) > MaxResult

(*---------------------------------- probe ---------------------------------*)

MatchLen(i) ==
  Max({n \in 0..Len(inspection.pattern) :
         n <= text.values[i].depth
           /\ \A k \in 1..n : SegmentMatches(inspection.pattern, k, RawSegments(RawOf(i))[k])})

Matched == {i \in Values : MatchLen(i) = Len(inspection.pattern)
                             /\ text.values[i].depth = Len(inspection.pattern)}
Lengths == {text.values[i].count : i \in {j \in Matched : text.values[j].kind = "array"}}

(* Any one more item would have found room. *)
LongestText == Max({Len(RawOf(i)) : i \in Values})
Roomy == seen.used + 1 + LongestText <= Min({WireBudget, MaxResult})

Subsequence(part, whole) ==
  \E S \in SUBSET DOMAIN whole : part = [n \in 1..Cardinality(S) |-> whole[InOrder(S)[n]]]

(* What is listed of a sequence: the first of it, at most MaxListed. *)
Lists(listed, whole) ==
  /\ Subsequence(listed, whole) /\ Len(listed) <= MaxListed
  /\ Roomy => Len(listed) = Min({Len(whole), MaxListed})

Each(S, Of(_)) == [n \in 1..Cardinality(S) |-> Of(InOrder(S)[n])]

SummaryIsTrue(summary) ==
  \E i \in Matched :
    /\ text.values[i].kind = "object" /\ RawOf(i) = summary.pointer
    /\ summary.count = text.values[i].count
    /\ Len(summary.keys) + summary.omitted = summary.count
    /\ Lists(summary.keys, Each(Under({i}), HintOf))

MatchesAreTold ==
  /\ seen.count = Cardinality(Matched)
  /\ \A kind \in Kinds :
       seen.kinds[kind] = Cardinality({i \in Matched : text.values[i].kind = kind})
  /\ Lists(seen.examples, Each(Matched, RawOf))
  /\ seen.omitted = seen.count - Len(seen.examples)
  /\ seen.lengths = IF Lengths = {} THEN << >>
                    ELSE <<[minimum |-> Min(Lengths), maximum |-> Max(Lengths)]>>
  /\ Len(seen.summaries) + seen.omittedSummaries = seen.kinds["object"]
  /\ \A n \in DOMAIN seen.summaries : SummaryIsTrue(seen.summaries[n])

Deepest == Max({MatchLen(i) : i \in Values})
Reached == {i \in Values : MatchLen(i) = Deepest /\ text.values[i].depth = Deepest}
Instead == Each({i \in Under(Reached) : MatchLen(i) = Deepest}, HintOf)

(* The hint of a miss: where the pattern is left first of all by a value    *)
(* that follows it furthest, and what is there instead.                     *)
HintIsTrue(hint) ==
  /\ hint.prefix = RawOf(Min(Reached))
  /\ IsInjective(hint.next) /\ Len(hint.next) <= MaxListed
  /\ Range(hint.next) \subseteq Range(Instead)
  /\ Roomy => Len(hint.next) = Min({MaxListed, Cardinality(Range(Instead))})
  /\ hint.omitted = 0 => Range(hint.next) = Range(Instead)

(* The probe tells of a pattern what the document says: how many values it  *)
(* matches and of which types, the first of them, the lengths of the        *)
(* arrays, the children of the objects; of one that matches nothing, how    *)
(* far it leads.  It does so although it looks into few containers.         *)
ProbeTellsThePattern ==
  At("probe") =>
    /\ MatchesAreTold
    /\ seen.count # 0 => seen.hint = << >>
    /\ seen.hint # << >> => HintIsTrue(seen.hint[1])
    /\ seen.count = 0 /\ Roomy => seen.hint # << >>

(*-------------------------------- selector --------------------------------*)

Targets == {i \in Values : RawOf(i) = inspection.target}

(* The event an element or a field starts with. *)
Start(i) == IF text.values[i].field THEN text.values[i].first - 1 ELSE text.values[i].first
LaterSibling(event) ==
  \E i, j \in Values : i < j /\ text.values[i].up = text.values[j].up /\ Start(j) = event

Written(event, within) ==
  (IF within /\ LaterSibling(event) THEN <<<<",">>>> ELSE << >>)
    \o <<text.events[event]>>
    \o (IF text.events[event][1] = "key" THEN <<<<":">>>> ELSE << >>)

Serialized(i) ==
  FlattenSeq([n \in 1..(1 + text.values[i].last - text.values[i].first) |->
                Written(text.values[i].first + n - 1, n > 1)])

OnTheWay == {i \in Values : PointerPrefix(RawOf(i), inspection.target)}
Furthest == {i \in OnTheWay : \A j \in OnTheWay : text.values[j].depth <= text.values[i].depth}
Offered == Each(Under(Furthest), HintOf)

(* The selection is the value of the pointer, whole, alone and well formed: *)
(* of several (a key may be repeated) the first.  A pointer without a value *)
(* is answered with the value furthest on the way to it and what is there.  *)
SelectionIsTheValue ==
  At("select") =>
    IF Targets # {}
    THEN /\ seen.selected
         /\ seen.error = (Len(Serialized(Min(Targets))) > MaxSelection)
         /\ ~seen.error => seen.output = Serialized(Min(Targets))
    ELSE /\ ~seen.selected
         /\ seen.longest = RawOf(Min(Furthest))
         /\ seen.next = SubSeq(Offered, 1, Min({Len(Offered), MaxListed}))
         /\ seen.omitted = Len(Offered) - Len(seen.next)

(*------------------- answers about the text of a body ---------------------*)

(* What a client of BodyText may rely on.  The properties are about the     *)
(* whole of an answer, or of the answers a client collects.                 *)

Asked(op) == task # << >> /\ task.op = op

(*--------------------------------- search ---------------------------------*)

(* Where the folded query occurs in the folded text, overlapping itself or  *)
(* not: the number of its first unit.                                       *)
Occurrences ==
  {u \in DOMAIN Units(task.text) :
     /\ u + Len(work.query) - 1 \in DOMAIN Units(task.text)
     /\ \A k \in DOMAIN work.query : Units(task.text)[u + k - 1].value = work.query[k]}

Nth(n) == CHOOSE u \in Occurrences : Cardinality({v \in Occurrences : v < u}) = n - 1

(* The characters an occurrence has a part of. *)
OccurrenceSpan(u) ==
  Span(Units(task.text)[u].start, Units(task.text)[u + Len(work.query) - 1].end)

EndOf(span) == span.offset + span.length
WholeCharacters(span) == {span.offset, EndOf(span)} \subseteq Boundaries(task.text)

(* The context holds every character that is within the bytes asked for. *)
ContextIsWhole(match) ==
  /\ WholeCharacters(match.before) /\ WholeCharacters(match.after)
  /\ EndOf(match.before) = match.range.offset /\ match.after.offset = EndOf(match.range)
  /\ \A b \in Boundaries(task.text) :
       /\ b <= match.range.offset =>
            (b >= match.before.offset <=> match.range.offset - b <= task.context)
       /\ b >= EndOf(match.range) =>
            (b <= EndOf(match.after) <=> b - EndOf(match.range) <= task.context)

(* A page of the decoded body read at the window holds the match. *)
WindowHolds(match) ==
  /\ WholeCharacters(match.window) /\ match.window.length \in 1..MaxPage
  /\ match.range.length <= MaxPage =>
       match.window.offset <= match.range.offset /\ EndOf(match.range) <= EndOf(match.window)

(* A search counts every occurrence of the query in the text, whatever the  *)
(* case, those that overlap and those that begin or end within what a       *)
(* character folds to included, and describes the first of them, in order,  *)
(* with the characters they are of.                                         *)
EveryOccurrenceIsFound ==
  Asked("search") /\ work.at = "done" =>
    /\ work.total = Cardinality(Occurrences)
    /\ Len(work.matches) = Least(work.total, task.limit)
    /\ \A n \in DOMAIN work.matches :
         /\ work.matches[n].range = OccurrenceSpan(Nth(n))
         /\ ContextIsWhole(work.matches[n]) /\ WindowHolds(work.matches[n])

(*---------------------------------- pages ---------------------------------*)

ReadSoFar == FlattenSeq([n \in DOMAIN work.pages |-> work.pages[n].content])

(* The spellings of a request for a page of a selection. *)
Optional(pair, absent) == {<<pair>>} \union (IF absent THEN {<< >>} ELSE {})
Spellings(r) ==
  {BasePairs(task.kind, r.selector) \o offset \o length :
     offset \in Optional(Pair("offset", r.offset), r.offset = 0),
     length \in Optional(Pair("length", r.length), r.length = DefaultPage)}

(* What the client asks for: an offset and a length, if its URI means any. *)
Requests ==
  IF task.form # "selected" THEN {[offset |-> task.offset, length |-> task.length]}
  ELSE {r \in [selector : {pair.value : pair \in Range(task.uri)},
               offset : {0} \union {pair.value : pair \in Range(task.uri)}, length : 1..MaxPage] :
          task.uri \in Spellings(r)}

PageIsSound(page, length) ==
  /\ page.start = page.offset \/ page.content = << >>
  /\ page.start < Total => page.content # << >>
  /\ IsBoundary(page.start + Len(page.content)) \/ task.form = "raw"
  /\ Len(page.content) <= length
       \/ (task.form # "raw" /\ task.utf8
             /\ page.start + Len(page.content) = NextBoundary(page.start))

(* The offsets of a refusal are the ends of the character asked inside of. *)
NearestAreTheEnds(offset, nearest) ==
  \E n \in DOMAIN task.text :
    /\ BytesUpTo(task.text, n - 1) < offset /\ offset < BytesUpTo(task.text, n)
    /\ nearest = [floor |-> BytesUpTo(task.text, n - 1), ceiling |-> BytesUpTo(task.text, n)]

RefusalIsRight(offset) ==
  /\ work.pages = << >> /\ task.form # "raw"
  /\ CASE work.reason = "inside" -> NearestAreTheEnds(offset, work.nearest[1])
       [] work.reason = "beyond" -> offset > Total
       [] work.reason = "uri" -> FALSE

(* A client that begins at any character and goes on where each page says   *)
(* reads the rest of the representation, all of it and nothing twice, in    *)
(* pages of whole characters; the URI of the next page of a selection is    *)
(* one the server takes and means that page, and a URI means one request.   *)
PagesAreTheWhole ==
  Asked("page") =>
    /\ Requests = {} => work.at = "reading" \/ (work.at = "refused" /\ work.reason = "uri")
    /\ \A r \in Requests :
         /\ ReadSoFar = Bytes(Least(r.offset, Total), Least(r.offset, Total) + Len(ReadSoFar))
         /\ \A n \in DOMAIN work.pages : PageIsSound(work.pages[n], r.length)
         /\ work.at = "done" => Len(ReadSoFar) = Less(Total, r.offset)
         /\ work.at = "refused" => RefusalIsRight(r.offset)

(*---------------------------------- forms ---------------------------------*)

(* The bytes of a component, and what they are as text, read at once. *)
RECURSIVE Unescape(_)
Unescape(input) ==
  IF input = << >> THEN << >>
  ELSE <<FormByte(input, 1).byte>> \o Unescape(Drop(input, FormByte(input, 1).taken))

RECURSIVE Lossy(_)
Lossy(bytes) ==
  IF bytes = << >> THEN << >>
  ELSE CASE Utf8Next(bytes, 1).kind = "char" ->
              SubSeq(bytes, 1, Utf8Next(bytes, 1).bytes)
                \o Lossy(Drop(bytes, Utf8Next(bytes, 1).bytes))
         [] Utf8Next(bytes, 1).kind = "bad" ->
              Replacement \o Lossy(Drop(bytes, Utf8Next(bytes, 1).bytes))
         [] Utf8Next(bytes, 1).kind = "short" -> Replacement

RECURSIVE FieldsOf(_)
FieldsOf(input) ==
  <<UpTo(input, Ampersand)>>
    \o (IF DelimiterAt(input, Ampersand) > Len(input) THEN << >>
        ELSE FieldsOf(Behind(input, Ampersand)))

ValuesOf ==
  LET named == SelectSeq(FieldsOf(task.input),
                         LAMBDA field : Lossy(Unescape(UpTo(field, Equals))) = task.key)
  IN [n \in DOMAIN named |-> Lossy(Unescape(Behind(named[n], Equals)))]

ArraySize(values) ==
  2 + FoldLeft(LAMBDA sum, value : sum + 3 + Len(value), 0, values) - 1

(* A selection that is not in the answer is read from its first page on. *)
ReferenceIsGood ==
  work.inline \/ ParseUri("form-field", work.uri)
                    = <<[selector |-> 0, offset |-> 0, length |-> DefaultPage]>>

(* The extraction of a form field gives the values of all fields of that    *)
(* key, in order, decoded as a whole, whatever the pieces they are decoded  *)
(* in cut apart; it says that there is none, or that they are too long,     *)
(* only when that is so.                                                    *)
FormIsTheFields ==
  Asked("form") /\ work.at \in {"done", "refused"} =>
    CASE work.at = "done" ->
           /\ work.values = ValuesOf
           /\ work.size = ArraySize(ValuesOf) /\ work.size <= MaxForm
           /\ ReferenceIsGood
      [] work.reason = "notfound" -> ValuesOf = << >>
      [] work.reason = "size" -> ArraySize(ValuesOf) > MaxForm
      [] work.reason = "input" -> Len(task.input) > MaxForm

(*------------------------- what runs are asked ----------------------------*)

(* The answers about the JSON of a body are true of the document, whichever *)
(* observer walked it and however much of it it did not look into.          *)
InspectionsAreTrue == FoundAreTheFields /\ ProbeTellsThePattern /\ SelectionIsTheValue

(* A body reaches the client whole: every occurrence of what it searches,   *)
(* page by page, or field by field.                                         *)
BodyIsServedWhole == EveryOccurrenceIsFound /\ PagesAreTheWhole /\ FormIsTheFields
=============================================================================
