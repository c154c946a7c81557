---------------------------- MODULE CaptureQuery ----------------------------
(* The queries of clients (src/control/capture_query.rs): which are         *)
(* refused, and which captures they match.  A filter that a query may leave *)
(* out is a sequence of at most one.  A text is a sequence of characters;   *)
(* what a glob matches is the glob library's.                               *)
EXTENDS CaptureWorld, Functions, SequencesExt

CONSTANTS
  Requested,   \* of each capture, what its request shows from the start
  Responded,   \* and what its response shows once it has started
  FoldOf,      \* the case folding of a character, one or more characters
  Globs,       \* the folded texts that each folded glob matches
  MaxPattern   \* MAX_CAPTURE_PATTERN_BYTES

Fold(text) == FlattenSeq([i \in DOMAIN text |-> FoldOf[text[i]]])

(*-------------------------------- refusal ---------------------------------*)

TextsOf(filter) == {f.value : f \in Range(filter)}

PatternsOf(query) ==
  Range(query.method) \union Range(query.text)
    \union TextsOf(query.original) \union TextsOf(query.effective)
    \union UNION {{header.name} \union Range(header.value) : header \in Range(query.header)}

Inverted(least, most) == \E a \in Range(least), b \in Range(most) : a > b

StatusRefused(status) ==
  LET bounds == Range(status.minimum) \union Range(status.maximum)
      given == Range(status.exact) \union bounds
  IN \/ given = {}
     \/ status.exact # << >> /\ bounds # {}
     \/ ~(given \subseteq 100..599)
     \/ Inverted(status.minimum, status.maximum)

GlobRefused(filter) ==
  \E f \in Range(filter) : f.mode = "glob" /\ Fold(f.value) \notin DOMAIN Globs

Refused(query) ==
  \/ \E text \in PatternsOf(query) : Len(text) > MaxPattern
  \/ \E status \in Range(query.status) : StatusRefused(status)
  \/ Inverted(query.startedMin, query.startedMax)
  \/ Inverted(query.sequenceMin, query.sequenceMax)
  \/ \E header \in Range(query.header) : header.name = << >>
  \/ GlobRefused(query.original) \/ GlobRefused(query.effective)

(*-------------------------------- matching --------------------------------*)

Within(value, least, most) ==
  /\ \A a \in Range(least) : value >= a
  /\ \A b \in Range(most) : value <= b

MappingOf(c) ==
  LET remote == Requested[c].original # Requested[c].effective
  IN CASE ~remote /\ ~Requested[c].local -> "unmapped"
       [] remote /\ ~Requested[c].local -> "remote_only"
       [] ~remote /\ Requested[c].local -> "local_only"
       [] remote /\ Requested[c].local -> "remote_then_local"

(* Failed and cancelled streams are not told apart: either breaks. *)
LifecycleOf(shown) ==
  IF shown.broken THEN "broken" ELSE IF shown.ended = Sides THEN "complete" ELSE "live"

ContainsFolded(text, needle) ==
  \E i \in 0..(Len(Fold(text)) - Len(Fold(needle))) :
    SubSeq(Fold(text), i + 1, i + Len(Fold(needle))) = Fold(needle)

TextMatches(filter, text) ==
  IF filter.mode = "glob" THEN Fold(text) \in Globs[Fold(filter.value)]
  ELSE ContainsFolded(text, filter.value)

StatusMatches(status, c, shown) ==
  /\ shown.started
  /\ \A exact \in Range(status.exact) : Responded[c].status = exact
  /\ Within(Responded[c].status, status.minimum, status.maximum)

HeadersOf(c, shown) ==
  Range(Requested[c].headers)
    \union (IF shown.started THEN Range(Responded[c].headers) ELSE {})

HeaderMatches(header, c, shown) ==
  \E h \in HeadersOf(c, shown) :
    /\ Fold(h.name) = Fold(header.name)
    /\ \A value \in Range(header.value) : ContainsFolded(h.value, value)

Digits == <<"0", "1", "2", "3", "4", "5", "6", "7", "8", "9">>
Decimal(status) ==
  <<Digits[1 + (status \div 100)], Digits[1 + ((status \div 10) % 10)], Digits[1 + (status % 10)]>>

TextsShown(c, shown) ==
  {Requested[c].method, Requested[c].original, Requested[c].effective}
    \union (IF shown.started THEN {Decimal(Responded[c].status)} ELSE {})
    \union UNION {{h.name, h.value} : h \in HeadersOf(c, shown)}

QueryMatches(query, c, shown) ==
  /\ Within(c, query.sequenceMin, query.sequenceMax)
  /\ Within(Requested[c].at, query.startedMin, query.startedMax)
  /\ \A mapping \in Range(query.mapping) : MappingOf(c) = mapping
  /\ \A lifecycle \in Range(query.lifecycle) : LifecycleOf(shown) = lifecycle
  /\ \A method \in Range(query.method) : Fold(Requested[c].method) = Fold(method)
  /\ \A filter \in Range(query.original) : TextMatches(filter, Requested[c].original)
  /\ \A filter \in Range(query.effective) : TextMatches(filter, Requested[c].effective)
  /\ \A status \in Range(query.status) : StatusMatches(status, c, shown)
  /\ \A header \in Range(query.header) : HeaderMatches(header, c, shown)
  /\ \A text \in Range(query.text) : \E t \in TextsShown(c, shown) : ContainsFolded(t, text)
=============================================================================
