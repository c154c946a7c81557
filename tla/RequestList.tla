---------------------------- MODULE RequestList ----------------------------
(***************************************************************************)
(* The request list of the terminal interface as the event loop owns it:   *)
(* the captures, the tree made of them, what is selected and opened in it, *)
(* and the search.  A handler of the code is an operator from the state    *)
(* `a' of the list to its next; RequestSearch lets them run.               *)
(*                                                                         *)
(* The search has a mode (idle, editing, committed) and, once something is *)
(* typed, an `active' query known by its generation and the revision of    *)
(* the tree it is to be answered for.                                      *)
(***************************************************************************)
EXTENDS RequestTree

CONSTANTS
    None,
    Matched,            \* query -> the labels it occurs in
    MaxProbes           \* MAX_STALE_MATCH_PROBES

ASSUME RequestListAssumption == MaxProbes \in Nat \ {0}

Idle == [mode |-> "idle", active |-> None, prior |-> None, text |-> "", back |-> <<>>,
         revealed |-> {}, expanded |-> {}, baseline |-> {}]

-----------------------------------------------------------------------------
(* The search as the list keeps it.  What is active has `results' of an     *)
(* earlier run while it is waiting for another (Refreshing) or none yet.    *)
Key(active) == <<active.generation, active.revision>>

RunOf(active) == [key |-> Key(active), query |-> active.query]
Cancel == [key |-> None, query |-> ""]

(* refresh_for_tree: the active search is to run again on another tree. *)
RefreshForTree(a) ==
    LET old == a.search.active
        new == [old EXCEPT !.revision = a.treeRevision, !.progress = "waiting", !.first = FALSE]
    IN  IF old = None THEN a
        ELSE IF old.revision = a.treeRevision THEN a
        ELSE [a EXCEPT !.search.active = new, !.intent = RunOf(new)]

EnsureTree(a) ==
    IF a.revision = a.treeRevision THEN a
    ELSE RefreshForTree([a EXCEPT !.tree = a.store, !.treeRevision = a.revision])

(* reset of what the queries typed so far revealed, and of the selection *)
RestoreSelection(a, path) ==
    LET b == EnsureTree(a)
    IN  CASE path = <<>> \/ InTree(b.tree, path) -> [b EXCEPT !.selected = path]
          [] OTHER -> IF InTree(b.tree, b.selected) THEN b ELSE [b EXCEPT !.selected = <<>>]

CloseRevealed(a) == [a EXCEPT !.opened = @ \ a.search.revealed, !.search.revealed = {}]

BeginEditing(a) ==
    [a EXCEPT
       !.generation = @ + 1, !.intent = Cancel,
       !.search = [mode |-> "editing", active |-> None, prior |-> a.search.active, text |-> "",
                   back |-> a.selected, revealed |-> {}, expanded |-> {},
                   baseline |-> a.opened]]

ActivateEditedQuery(a, query) ==
    LET new == [query |-> query, generation |-> a.generation + 1, revision |-> a.treeRevision,
                progress |-> "waiting", results |-> None, first |-> TRUE]
        typed == [a EXCEPT !.generation = @ + 1, !.search.text = query]
    IN  IF query = "" THEN [typed EXCEPT !.search.active = None, !.intent = Cancel]
        ELSE [typed EXCEPT !.search.active = new, !.intent = RunOf(new)]

EditQuery(a, query) ==
    ActivateEditedQuery(EnsureTree(RestoreSelection(CloseRevealed(a), a.search.back)), query)

CommitEditing(a) ==
    [a EXCEPT !.search = [Idle EXCEPT !.mode = "committed", !.active = a.search.active]]

CancelEditing(a) ==
    LET s == a.search
        restored == IF s.prior = None THEN Idle
                    ELSE [Idle EXCEPT !.mode = "committed", !.active = s.prior]
        closed == [a EXCEPT !.search = restored, !.intent = Cancel,
                            !.opened = @ \ (s.revealed \cup s.expanded)]
    IN  RefreshForTree(EnsureTree(RestoreSelection(closed, s.back)))

ClearCommitted(a) == [a EXCEPT !.search = Idle, !.intent = Cancel]

(* Branches that open by themselves are noted with the editing they opened in. *)
NoteAutoExpand(a, branches) ==
    LET b == [a EXCEPT !.opened = @ \cup branches]
        noted == (branches \ a.opened) \cup (branches \cap a.search.revealed)
    IN  IF a.search.mode # "editing" THEN b
        ELSE [b EXCEPT !.search.expanded = @ \cup noted, !.search.revealed = @ \ branches]
Reveal(a, path, editing) ==
    LET b == IF editing /\ a.search.mode = "editing" THEN CloseRevealed(a) ELSE a
        above == {SubSeq(path, 1, n) : n \in 1 .. Len(path) - 1}
        fresh == (above \ b.opened) \ b.search.expanded
        c == [b EXCEPT !.opened = @ \cup above, !.selected = path]
    IN  IF editing /\ a.search.mode = "editing"
        THEN [c EXCEPT !.search.revealed = @ \cup fresh] ELSE c

-----------------------------------------------------------------------------
(* The matcher: the nodes whose label the query occurs in, in the logical   *)
(* order, each with its position in the tree that was searched.             *)
SearchMatches(tree, query) ==
    LET order == LogicalOrder(tree)
        found == SelectSeq([i \in DOMAIN order |-> i],
                   LAMBDA i : Last(order[i]).label \in Matched[query])
    IN  [n \in DOMAIN found |-> [path |-> order[found[n]], position |-> found[n]]]

(* apply_outcome: the outcome of another generation or tree is ignored. *)
ApplyOutcome(a, o) ==
    LET old == a.search.active
        here == SelectSeq(o.results, LAMBDA m : InTree(a.tree, m.path))
        ready == [a EXCEPT !.search.active.progress = "ready", !.search.active.first = FALSE,
                           !.search.active.results = o.results]
    IN  CASE old = None -> a
          [] old # None /\ Key(old) # o.key -> a
          [] old # None /\ Key(old) = o.key /\ o.kind = "cancelled" -> a
          [] old # None /\ Key(old) = o.key /\ o.kind = "failed" ->
               [a EXCEPT !.search.active.progress = "failed", !.search.active.first = FALSE]
          [] OTHER -> IF old.first /\ here # <<>> THEN Reveal(ready, here[1].path, TRUE)
                      ELSE ready
\* Mutant: the selected match is its own next.
NavigatedFromHere(a, forward) ==
    LET matches == a.search.active.results
        at == LogicalPosition(a.tree, a.selected)
        start == Cardinality({i \in DOMAIN matches : matches[i].position < at})
    IN  Reveal(a, matches[(start % Len(matches)) + 1].path, FALSE)

(* navigate_request_search: from the selected node to the next or previous  *)
(* match, around the end; matches that are gone are passed over.           *)
UpTo(matches, at) == Cardinality({i \in DOMAIN matches : matches[i].position <= at})
StartOf(matches, at, forward) ==
    CASE forward -> UpTo(matches, at)
      [] ~forward /\ at # 0 /\ UpTo(matches, at - 1) > 0 -> UpTo(matches, at - 1) - 1
      [] OTHER -> Len(matches) - 1

Probe(matches, start, forward, n) ==
    matches[((IF forward THEN start + n ELSE start + Len(matches) - n) % Len(matches)) + 1].path

\* Mutant: the first candidate is taken, be it there or not.
LandedAnywhere(a, forward, start) ==
    Reveal(a, Probe(a.search.active.results, start, forward, 0), FALSE)

Landed(a, forward, start) ==
    LET matches == a.search.active.results
        alive == {n \in 0 .. MaxProbes - 1 :
                    n < Len(matches) /\ InTree(a.tree, Probe(matches, start, forward, n))}
    IN  IF alive = {} THEN a
        ELSE Reveal(a, Probe(matches, start, forward, CHOOSE n \in alive : \A m \in alive : n <= m),
                    FALSE)

Navigated(a, forward) ==
    Landed(a, forward, StartOf(a.search.active.results, LogicalPosition(a.tree, a.selected), forward))

NavigateSearch(a, forward) ==
    LET b == EnsureTree(a)
    IN  CASE b.tree = <<>> \/ b.search.active.results = None -> b
          [] OTHER -> IF b.search.active.results = <<>> THEN b ELSE Navigated(b, forward)

-----------------------------------------------------------------------------
(* The captures and the tree's rows. *)

(* The selection moves to the first row when an eviction took its node away. *)
RepairAfterEviction(a) ==
    LET b == EnsureTree(a)
    IN  IF InTree(b.tree, b.selected) THEN b
        ELSE [b EXCEPT !.selected = FirstRow(VisiblePaths(b.tree, b.opened))]

EvictOldest(a) == [a EXCEPT !.store = Tail(@), !.revision = @ + 1]

Insert(store, c) ==
    SelectSeq(store, LAMBDA d : d.sequence < c.sequence) \o <<c>>
      \o SelectSeq(store, LAMBDA d : d.sequence > c.sequence)

Trimmed(a) == IF Len(a.store) <= a.maxRecords THEN a ELSE RepairAfterEviction(EvictOldest(a))
Expanded(a, c) == IF a.auto THEN NoteAutoExpand(a, ToSet(BranchesOf(c))) ELSE a
FirstSelected(a, c) == [a EXCEPT !.selected = IF a.auto THEN c.path ELSE <<c.path[1]>>]

AddCapture(a, c) ==
    LET added == Expanded(Trimmed([a EXCEPT !.store = Insert(@, c), !.revision = @ + 1]), c)
    IN  IF a.store = <<>> /\ a.search.mode = "idle" THEN FirstSelected(added, c) ELSE added

Without(b, gone) ==
    EnsureTree([b EXCEPT !.store = SelectSeq(@, LAMBDA r : r.sequence \notin gone),
                         !.revision = @ + 1])
Closed(c) == [c EXCEPT !.opened = {p \in @ : InTree(c.tree, p)}]
Reselected(b, c) ==
    [c EXCEPT !.selected = SelectedPath(b.selected, b.tree, c.tree, VisiblePaths(c.tree, c.opened))]
DeleteFrom(b, gone) ==
    IF {b.store[i].sequence : i \in DOMAIN b.store} \cap gone = {} THEN b
    ELSE Reselected(b, Closed(Without(b, gone)))
DeleteUnder(b) == DeleteFrom(b, SequencesUnder(b.tree, b.selected))

DeleteSelected(a) == IF a.selected = <<>> THEN a ELSE DeleteUnder(EnsureTree(a))

ClearRequests(a) ==
    [a EXCEPT !.store = <<>>, !.revision = @ + (IF a.store = <<>> THEN 0 ELSE 1),
              !.opened = {}, !.selected = <<>>, !.rows = <<>>]

(* Folding: the keys that open and close branches. *)
OnBranch(a) == a.selected # <<>> /\ ~IsLeaf(a.selected)

Toggle(a) == [a EXCEPT !.opened = IF a.selected \in @ THEN @ \ {a.selected}
                                  ELSE @ \cup {a.selected}]
ToggleSubtree(a) == IF OnBranch(a) THEN Toggle(a) ELSE a
OpenSubtree(a) == IF OnBranch(a) THEN [a EXCEPT !.opened = @ \cup {a.selected}] ELSE a
KeyLeft(a) == IF a.selected \in a.opened THEN [a EXCEPT !.opened = @ \ {a.selected}]
              ELSE IF a.selected = <<>> THEN a ELSE [a EXCEPT !.selected = Front(@)]
ExpandSubtree(a) ==
    LET b == EnsureTree(a)
        below == {p \in ToSet(BranchPaths(b.tree)) : Under(p, b.selected)}
    IN  IF OnBranch(a) THEN [b EXCEPT !.opened = @ \cup below] ELSE a
ExpandAll(a) == LET b == EnsureTree(a)
                IN  [b EXCEPT !.opened = @ \cup ToSet(BranchPaths(b.tree))]
CollapseChildren(a) ==
    LET below == {p \in a.opened : Under(p, a.selected) /\ p # a.selected}
    IN  IF OnBranch(a) THEN [a EXCEPT !.opened = (@ \ below) \cup {a.selected}] ELSE a
CollapseAll(a) == [a EXCEPT !.opened = {}, !.selected = SubSeq(@, 1, IF @ = <<>> THEN 0 ELSE 1)]

(* The widget moves the selection over the rows of the last frame. *)
SelectRow(a, down) ==
    LET here == {i \in DOMAIN a.rows : a.rows[i] = a.selected}
        at == IF here = {} THEN (IF down THEN 0 ELSE Len(a.rows) + 1)
              ELSE CHOOSE i \in here : TRUE
        to == IF down THEN at + 1 ELSE at - 1
    IN  IF a.rows = <<>> THEN [a EXCEPT !.selected = <<>>]
        ELSE [a EXCEPT !.selected = a.rows[CASE to < 1 -> 1
                                             [] to > Len(a.rows) -> Len(a.rows)
                                             [] OTHER -> to]]

ClickRow(a, row) == IF a.selected = row THEN Toggle(a) ELSE [a EXCEPT !.selected = row]
=============================================================================
