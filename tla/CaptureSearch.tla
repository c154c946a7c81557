---------------------------- MODULE CaptureSearch ----------------------------
(* search_captures of src/runtime/control.rs: a client reads the captures   *)
(* that match a query page by page, newest first, with the cursor of each   *)
(* page.  A call takes batches of the store from the event loop and gives   *)
(* each to a worker; what does not fit the page, by number or by bytes, is  *)
(* the next page's.  Captures come, change and go between any two batches.  *)
(* A call may be cancelled; its worker runs on with the permit, which waits *)
(* and searches share.                                                      *)
EXTENDS CaptureWait, CaptureQuery

CONSTANTS
  Queries,      \* the queries the client may have
  Limits,       \* and the size of page it asks for
  MaxPageLimit, \* MAX_CAPTURE_PAGE_LIMIT
  RowSize,      \* serialized_len of the row of a capture
  PageBudget,   \* CAPTURE_SEARCH_PAGE_JSON_BUDGET
  MaxPages,     \* bound: calls of the client
  MaxWaitLog    \* bound: changes announced while there are waits

ASSUME SearchAssumption ==
  /\ Captures # {} /\ MaxPageLimit \in Nat
  /\ RowSize \in [Captures -> Nat] /\ PageBudget \in Nat \ {0}

VARIABLE search

searchVars == <<vars, search>>

(* at: where the call is, and between calls what its client has.  rows and  *)
(* bytes: the page so far; cursor: where the call is, from: where it        *)
(* started; batch, older: what the worker has, and whether there is more.   *)
(* got, pages, steady: all rows delivered, how many pages had a cursor, and *)
(* the captures that were retained and matched from the first call on.      *)
Resting == {"idle", "paused", "ended", "failed"}

(* The cursor of None: at or above all captures. *)
Top == CHOOSE c \in Captures : \A d \in Captures : d <= c

SearchInit ==
  search \in [at : {"idle"}, query : {<< >>}, limit : {0}, from : {Top}, cursor : {Top},
              rows : {<< >>}, bytes : {0}, batch : {{}}, older : {<< >>}, orphans : {0},
              got : {<< >>}, pages : {0}, steady : {{}}, calls : {0}]

MatchesIn(query, c, record) ==
  record.place = "stored" /\ QueryMatches(query, c, record.shown)

At(progress) == search.at = progress
SearchBecomes(s) == search' = s /\ UNCHANGED <<worldVars, wait>>

(* A call that ends drops what it holds. *)
Over(s, at) == [s EXCEPT !.at = at, !.rows = << >>, !.bytes = 0, !.batch = {}, !.older = << >>]

(* A page is delivered, with the cursor of the next one or none. *)
Delivered(s, next) ==
  [Over(s, IF next = << >> THEN "ended" ELSE "paused")
     EXCEPT !.got = @ \o s.rows, !.pages = @ + Len(next),
            !.from = IF next = << >> THEN 0 ELSE next[1]]

AskPage ==
  /\ search.at \in {"idle", "paused"} /\ search.calls < MaxPages
  /\ \E limit \in IF search.calls = 0 THEN Limits ELSE {search.limit},
        query \in IF search.calls = 0 THEN Queries ELSE {search.query} :
       SearchBecomes([search EXCEPT
         !.calls = @ + 1, !.query = query, !.limit = limit, !.cursor = search.from,
         !.steady = IF At("idle") THEN {c \in Captures : MatchesIn(query, c, store[c])} ELSE @,
         !.at = IF limit \in 1..MaxPageLimit THEN "entering" ELSE search.at])
  /\ UNCHANGED free

AcquireSearch ==
  /\ At("entering") /\ free > 0
  /\ free' = free - 1
  /\ SearchBecomes([search EXCEPT !.at = "compiling"])

CompileSearch ==
  /\ At("compiling")
  /\ IF Refused(search.query)
     THEN free' = free + 1 /\ SearchBecomes(Over(search, "failed"))
     ELSE UNCHANGED free /\ SearchBecomes([search EXCEPT !.at = "describing"])

DescribeSearch ==
  /\ At("describing") /\ Idle
  /\ SearchBecomes([search EXCEPT !.at = "asking"]) /\ UNCHANGED free

(*-------------------------------- a batch ---------------------------------*)

Scannable == {c \in Held : c <= search.cursor}

(* The cursor of the batch: below its oldest record, if there is an older. *)
BelowBatch(batch) ==
  IF batch = Scannable THEN << >> ELSE <<Min(batch) - 1>>

TakeSearchBatch ==
  /\ At("asking") /\ Idle /\ search.bytes < PageBudget /\ Scannable # {}
  /\ \E batch \in {Newest(Scannable)} :
       SearchBecomes([search EXCEPT
         !.at = "matching", !.older = BelowBatch(batch),
         !.batch = {[capture |-> c, shown |-> Shown(c)] : c \in batch}])
  /\ UNCHANGED free

(* Nothing is left, or the page is full to the byte. *)
StopAsking ==
  /\ At("asking")
  /\ \/ search.bytes = PageBudget /\ SearchBecomes(Delivered(search, <<search.cursor>>))
     \/ /\ search.bytes < PageBudget /\ Idle /\ Scannable = {}
        /\ SearchBecomes(Delivered(search, << >>))
  /\ free' = free + 1

(*------------------------- a page out of a batch --------------------------*)

SizeOf(S) == MapThenSumSet(LAMBDA c : RowSize[c], S)

Matching(s) ==
  {e.capture : e \in {f \in s.batch : QueryMatches(s.query, f.capture, f.shown)}}

(* The newest that match, as many as the page has room for. *)
Fitting(s, matching) ==
  {c \in matching :
     \E newer \in {{d \in matching : d >= c}} :
       /\ Len(s.rows) + Cardinality(newer) <= s.limit
       /\ s.bytes + SizeOf(newer) <= PageBudget}

(* In the order of the sort by descending sequence. *)
NewestFirst(S) ==
  CHOOSE rows \in [1..Cardinality(S) -> S] : \A i, j \in DOMAIN rows : i < j => rows[i] > rows[j]

Extended(s, fitting) ==
  [s EXCEPT !.rows = @ \o NewestFirst(fitting),
            !.bytes = @ + SizeOf(fitting), !.batch = {}, !.older = << >>]

IsFull(s) == Len(s.rows) = s.limit
HasOlder(s, fitting) == \E e \in s.batch : \A c \in fitting : e.capture < c

(* A bug: a full page goes on below the batch, not below its last row. *)
CursorOfBatch(s, matching, fitting) ==
  IF Len(s.rows) + Cardinality(fitting) = s.limit THEN << >>
  ELSE IF matching = fitting THEN << >> ELSE <<Max(matching \ fitting)>>

(* The cursor of the page: the row that did not fit, or what is below the   *)
(* last row of a page that is full, if the batch has more.                  *)
PageCursor(s, matching, fitting) ==
  IF Len(s.rows) + Cardinality(fitting) = s.limit
  THEN IF HasOlder(s, fitting) THEN <<Min(fitting) - 1>> ELSE << >>
  ELSE IF matching = fitting THEN << >> ELSE <<Max(matching \ fitting)>>

(* One row alone may exceed the budget of a page. *)
Unsendable(s, matching, fitting) ==
  /\ matching # fitting /\ Len(s.rows) + Cardinality(fitting) < s.limit
  /\ RowSize[Max(matching \ fitting)] > PageBudget

Continued(s, extended, next) ==
  IF IsFull(extended) THEN Delivered(extended, IF next # << >> THEN next ELSE s.older)
  ELSE IF next # << >> THEN Delivered(extended, next)
  ELSE IF s.older = << >> THEN Delivered(extended, << >>)
  ELSE [extended EXCEPT !.at = "asking", !.cursor = s.older[1]]

MatchPage ==
  /\ At("matching")
  /\ \E matching \in {Matching(search)} :
     \E fitting \in {Fitting(search, matching)} :
       SearchBecomes(
         IF Unsendable(search, matching, fitting) THEN Over(search, "failed")
         ELSE Continued(search, Extended(search, fitting),
                        PageCursor(search, matching, fitting)))
  /\ free' = IF search'.at = "asking" THEN free ELSE free + 1

(*------------------------------ cancellation ------------------------------*)

(* The client may ask again where the call began. *)
CancelSearch ==
  /\ search.at \notin Resting
  /\ SearchBecomes([Over(search, IF search.got = << >> /\ search.from = Top THEN "idle" ELSE "paused")
                      EXCEPT !.orphans = IF search.at \in {"compiling", "matching"}
                                         THEN @ + 1 ELSE @])
  /\ free' = IF search.at \in {"describing", "asking"} THEN free + 1 ELSE free

OrphanEnds ==
  /\ search.orphans > 0
  /\ SearchBecomes([search EXCEPT !.orphans = @ - 1]) /\ free' = free + 1

(*------------------------------ specification -----------------------------*)

SearchProgress ==
  \/ AcquireSearch \/ CompileSearch \/ DescribeSearch
  \/ TakeSearchBatch \/ StopAsking \/ MatchPage

SearchSteps == AskPage \/ SearchProgress \/ CancelSearch \/ OrphanEnds

(* Bounds: a behaviour has waits or a search; waits have few changes;       *)
(* captures are only admitted before a search, rest after it, and change    *)
(* while it looks at them or its client has a cursor, stored ones only.     *)
Waited == \E w \in Waits : wait[w].at # "idle"
WaitBounds == /\ Len(log) + Cardinality(removing) <= MaxWaitLog
              /\ \A c \in Captures : Shown(c).revision = 0
OnlyAdmitted ==
  /\ removing = {} /\ Len(log) = Cardinality(Held)
  /\ \A c \in Captures : Shown(c).revision = 0

WorldMoves ==
  /\ search.at \in {"idle", "paused", "asking"} \/ ~Idle
  /\ WorldNext /\ UNCHANGED <<wait, free>>
  /\ CASE Waited -> WaitBounds'
       [] search.calls > 0 -> \A c \in Captures : store'[c].place # "new" \/ store'[c].shown = Fresh
       [] OTHER -> OnlyAdmitted'
  /\ search' = [search EXCEPT !.steady = {c \in @ : MatchesIn(search.query, c, store'[c])}]

Waiting ==
  /\ search.calls = 0 /\ WaitBounds
  /\ \E w \in Waits : Steps(w)
  /\ UNCHANGED search

SearchNext ==
  \/ WorldMoves
  \/ Waiting
  \/ ~Waited /\ SearchSteps

(* A handler of the event loop runs to its end, a command that is queued is *)
(* served, a worker finishes, the deadline of a wait comes.  As every call  *)
(* ends, a permit that is awaited stays free at last.                       *)
WaitProgress(w) ==
  \/ EnterCompile(w) \/ Compile(w) \/ Describe(w) \/ Inspect(w)
  \/ TimeOut(w) \/ WorkerEnds(w)

SearchFairness ==
  /\ WF_searchVars(RemoveNext /\ WorldMoves)
  /\ \A w \in Waits : WF_searchVars(WaitProgress(w) /\ Waiting)
  /\ WF_searchVars(SearchProgress) /\ WF_searchVars(OrphanEnds)

SearchSpec == Init /\ SearchInit /\ [][SearchNext]_searchVars /\ SearchFairness

(*------------------------------- properties -------------------------------*)

Descends(rows) == \A i, j \in DOMAIN rows : i < j => rows[i] > rows[j]

(* A client that follows the cursors reads each capture at most once,       *)
(* newest first, and misses none: what was retained and matched since it    *)
(* began is delivered or below the cursor, whatever came, changed or went   *)
(* meanwhile.  A page with a cursor has a row, so that the client gets on.  *)
PagesMissNothing ==
  At("idle") \/
    /\ Descends(search.got)
    /\ \A c \in Range(search.got) : c > search.from
    /\ At("failed") \/ \A c \in search.steady : c > search.from => c \in Range(search.got)
    /\ search.pages <= Len(search.got)

(* Every call of either kind is answered, although all wait for the same    *)
(* few permits and workers run on after their call.                         *)
EveryCallIsAnswered ==
  /\ EveryWaitEnds
  /\ At("entering") ~> search.at \in Resting
=============================================================================
