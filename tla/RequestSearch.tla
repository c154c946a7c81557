--------------------------- MODULE RequestSearch ---------------------------
(***************************************************************************)
(* The search of the request list and the service that answers it.         *)
(* Captures arrive and are evicted while the user walks, folds, deletes    *)
(* and searches the tree.  The event loop puts a request in one watched    *)
(* slot; the service runs one worker at a time and puts what it found in   *)
(* another.  A turn of the loop is one handler and then the dispatch of    *)
(* the search it asked for.                                                *)
(***************************************************************************)
EXTENDS RequestList

CONSTANTS
    Uris,               \* a sequence: what the captures that arrive are for
    Settings,           \* [auto, maxRecords]: request_list.auto_expand and
                        \* CaptureRetentionPolicy::max_records
    MaxCaptureEvents,   \* bound: captures and evictions by memory pressure
    MaxKeys,            \* bound: keys pressed
    MaxListKeys         \* bound: those of them pressed in the tree

ASSUME RequestSearchAssumption ==
    /\ Settings \subseteq [auto : BOOLEAN, maxRecords : Nat \ {0}]
    /\ {MaxCaptureEvents, MaxKeys, MaxListKeys} \subseteq Nat

VARIABLES
    app,                \* the list
    requests,           \* the slot of the requests: [value, changed]
    outcomes,           \* the slot of the outcomes: [value, changed]
    pending,            \* the request the service runs next
    worker,             \* the search that runs: [request, cancelled]
    captured, pressures, searchKeys, listKeys,
    aside               \* history: Esc restored a search whose run `/' withdrew

service == <<pending, worker>>
bounds == <<captured, pressures, searchKeys, listKeys>>
vars == <<app, requests, outcomes, service, bounds, aside>>

Init ==
    /\ \E setting \in Settings :
         app = [store |-> <<>>, revision |-> 0, tree |-> <<>>, treeRevision |-> 0,
                selected |-> <<>>, opened |-> {}, rows |-> <<>>, auto |-> setting.auto,
                maxRecords |-> setting.maxRecords,
                search |-> Idle, generation |-> 0, intent |-> None]
    /\ requests = [value |-> None, changed |-> FALSE]
    /\ outcomes = [value |-> None, changed |-> FALSE]
    /\ pending = None /\ worker = None
    /\ captured = {} /\ pressures = 0 /\ searchKeys = 0 /\ listKeys = 0
    /\ aside = FALSE

-----------------------------------------------------------------------------
(* take_request_search_dispatch at the end of a turn: an active search      *)
(* follows the tree first, and the request carries the tree of now.         *)
Turn(a) ==
    LET b == IF a.search.mode # "idle" THEN EnsureTree(a) ELSE a
        run == [key |-> b.intent.key, query |-> b.intent.query, tree |-> b.tree]
    IN  /\ app' = [b EXCEPT !.intent = None]
        /\ requests' = IF b.intent = None THEN requests
                       ELSE [value |-> IF b.intent = Cancel THEN None ELSE run, changed |-> TRUE]

Waiting(a) == a.search.active # None /\ a.search.active.progress = "waiting"

(* A run put in the slot answers for the search again; see SearchIsAnswered.  *)
Aside == aside' = (aside /\ app'.search.active = app.search.active)

(* Captures are announced in any order. *)
CaptureArrives(n) ==
    /\ n \notin captured /\ Cardinality(captured) + pressures < MaxCaptureEvents
    /\ captured' = captured \cup {n}
    /\ Turn(AddCapture(app, Entry(n, Uris[n])))
    /\ Aside
    /\ UNCHANGED <<outcomes, service, pressures, searchKeys, listKeys>>

(* memory pressure noticed with a dirty mark: evict_oldest_capture *)
Pressure ==
    /\ Cardinality(captured) + pressures < MaxCaptureEvents
    /\ pressures' = pressures + 1
    /\ Turn(IF app.store = <<>> THEN app ELSE RepairAfterEviction(EvictOldest(app)))
    /\ Aside
    /\ UNCHANGED <<outcomes, service, captured, searchKeys, listKeys>>

Press ==
    /\ searchKeys + listKeys < MaxKeys
    /\ searchKeys' = searchKeys + 1
    /\ UNCHANGED <<outcomes, service, captured, pressures, listKeys>>

Editing == app.search.mode = "editing"
Committed == app.search.mode = "committed"

Slash == Press /\ ~Editing /\ Turn(BeginEditing(app)) /\ aside' = FALSE

Type(query) ==
    /\ Press /\ Editing /\ query # app.search.text
    /\ Turn(EditQuery(app, query)) /\ Aside

(* Esc, or Enter on an empty input *)
Escape ==
    /\ Press /\ Editing
    /\ Turn(CancelEditing(app))
    /\ aside' = (Waiting(app') /\ requests'.value = None)

Enter == Press /\ Editing /\ app.search.text # "" /\ Turn(CommitEditing(app)) /\ Aside

Clear == Press /\ Committed /\ Turn(ClearCommitted(app)) /\ Aside

Navigate(forward) == Press /\ Committed /\ Turn(NavigateSearch(app, forward)) /\ Aside

ListKey(a) ==
    /\ listKeys < MaxListKeys /\ searchKeys + listKeys < MaxKeys /\ ~Editing /\ a # app
    /\ listKeys' = listKeys + 1
    /\ Turn(a) /\ Aside
    /\ UNCHANGED <<outcomes, service, captured, pressures, searchKeys>>

Delete == ListKey(DeleteSelected(app))
ClearAll == ListKey(ClearRequests(app))
Fold ==
    \/ ListKey(ToggleSubtree(app))
    \/ ListKey(OpenSubtree(app))
    \/ ListKey(KeyLeft(app))
    \/ ListKey(ExpandSubtree(app))
    \/ ListKey(ExpandAll(app))
    \/ ListKey(CollapseChildren(app))
    \/ ListKey(CollapseAll(app))
Move ==
    \/ \E down \in BOOLEAN : ListKey(SelectRow(app, down))
    \/ \E i \in DOMAIN app.rows : ListKey(ClickRow(app, app.rows[i]))

(* A frame: the tree is rebuilt when it is stale, and its rows are drawn. *)
Draw ==
    LET a == EnsureTree(app)
        rows == VisiblePaths(a.tree, a.opened)
    IN  /\ <<a.tree, a.treeRevision, rows>> # <<app.tree, app.treeRevision, app.rows>>
        /\ Turn([a EXCEPT !.rows = rows])
        /\ Aside
        /\ UNCHANGED <<outcomes, service, bounds>>

-----------------------------------------------------------------------------
(* The service. *)

Spawn(request) == [request |-> request, cancelled |-> FALSE]

(* Between two searches: a newer request replaces the pending one, and an  *)
(* idle service waits for a request and clears the outcome of the last.    *)
StartPending ==
    LET request == IF requests.changed THEN requests.value ELSE pending
    IN  /\ worker = None /\ pending # None
        /\ pending' = None
        /\ worker' = IF request = None THEN None ELSE Spawn(request)
        /\ requests' = [requests EXCEPT !.changed = FALSE]
        /\ UNCHANGED <<app, outcomes, bounds, aside>>

StartChanged ==
    /\ worker = None /\ pending = None /\ requests.changed
    /\ outcomes' = [value |-> None, changed |-> TRUE]
    /\ worker' = IF requests.value = None THEN None ELSE Spawn(requests.value)
    /\ requests' = [requests EXCEPT !.changed = FALSE]
    /\ UNCHANGED <<app, pending, bounds, aside>>
\* Mutant: the first pending request is kept, not the latest.
KeptPending ==
    /\ worker # None /\ requests.changed
    /\ worker' = [worker EXCEPT !.cancelled = TRUE]
    /\ outcomes' = [value |-> None, changed |-> TRUE]
    /\ pending' = IF pending = None THEN requests.value ELSE pending
    /\ requests' = [requests EXCEPT !.changed = FALSE]
    /\ UNCHANGED <<app, bounds, aside>>

(* A search that is superseded is cancelled, and its worker waited for. *)
Supersede ==
    /\ worker # None /\ requests.changed
    /\ worker' = [worker EXCEPT !.cancelled = TRUE]
    /\ outcomes' = [value |-> None, changed |-> TRUE]
    /\ pending' = requests.value
    /\ requests' = [requests EXCEPT !.changed = FALSE]
    /\ UNCHANGED <<app, bounds, aside>>

(* run_search, and its outcome published: a worker that is cancelled may be *)
(* past its last look at the flag; one that panics is a failed search.     *)
Outcome(kind) ==
    [kind |-> kind, key |-> worker.request.key,
     results |-> IF kind = "completed"
                 THEN SearchMatches(worker.request.tree, worker.request.query) ELSE <<>>]

WorkerEnds(kind) ==
    /\ worker # None
    /\ kind = "cancelled" => worker.cancelled
    /\ outcomes' = [value |-> Outcome(kind), changed |-> TRUE]
    /\ worker' = None
    /\ UNCHANGED <<app, requests, pending, bounds, aside>>

(* The event loop sees the last outcome put in the slot, if any. *)
OutcomeSeen ==
    /\ outcomes.changed
    /\ outcomes' = [outcomes EXCEPT !.changed = FALSE]
    /\ Turn(IF outcomes.value = None THEN app ELSE ApplyOutcome(app, outcomes.value))
    /\ Aside
    /\ UNCHANGED <<service, bounds>>

Next ==
    \/ \E n \in DOMAIN Uris : CaptureArrives(n)
    \/ Pressure \/ Draw
    \/ Slash \/ Escape \/ Enter \/ Clear
    \/ \E query \in DOMAIN Matched : Type(query)
    \/ \E forward \in BOOLEAN : Navigate(forward)
    \/ Delete \/ ClearAll \/ Fold \/ Move
    \/ StartPending \/ StartChanged \/ Supersede \/ OutcomeSeen
    \/ \E kind \in {"completed", "cancelled", "failed"} : WorkerEnds(kind)

Spec == Init /\ [][Next]_vars

-----------------------------------------------------------------------------
(* Every search that is ready shows what its query matches in the tree of   *)
(* now: a superseded worker, a late outcome or a tree that changed under it *)
(* (apply_outcome, refresh_for_tree) never leave the results of another     *)
(* query, or of captures that are gone or not yet there, on the screen as   *)
(* the answer.                                                              *)
ResultsAnswerTheQuery ==
    LET active == app.search.active
    IN  (active # None /\ active.progress = "ready") =>
           active.results = SearchMatches(app.store, active.query)

(* Whatever the matches and the new captures opened while a query was       *)
(* edited is known as such (note_transient_opening): the list with it       *)
(* closed again is the list `/' was pressed in, so Esc gives back that list.*)
SearchLeavesNoTrace ==
    LET s == app.search
    IN  /\ Editing => /\ app.opened = s.baseline \cup s.revealed \cup s.expanded
                      /\ s.baseline \cap (s.revealed \cup s.expanded) = {}
        /\ s.revealed \cap s.expanded = {}

(* In a search that is ready, n and p go to the next match before or behind *)
(* the selected node in the order of the tree, around its end, wherever the *)
(* selection has been moved meanwhile (navigate_request_search).            *)
NextOfReady(forward) ==
    LET order == LogicalOrder(app.store)
        n == Len(order)
        at == IF InTree(app.store, app.selected)
              THEN LogicalPosition(app.store, app.selected)
              ELSE IF forward THEN 0 ELSE n + 1
        matched == {i \in 1 .. n : Last(order[i]).label
                                     \in Matched[app.search.active.query]}
        distance(i) == ((IF forward THEN i - at ELSE at - i) + n + n - 1) % n
    IN  \E i \in matched : /\ app'.selected = order[i]
                           /\ \A j \in matched : distance(i) <= distance(j)

(* With the results of an older tree, whose positions no longer hold, they  *)
(* go to a node that matches and is there, or nowhere; and they do find one *)
(* if any of the results is there, as far as MAX_STALE_MATCH_PROBES reaches.*)
NextOfOlder ==
    LET active == app.search.active
        there == {m.path : m \in {r \in ToSet(active.results) : InTree(app.store, r.path)}}
    IN  /\ app'.selected # app.selected =>
              app'.selected \in there /\ Last(app'.selected).label \in Matched[active.query]
        /\ (there # {} /\ Len(active.results) <= MaxProbes) => app'.selected \in there

NextMatchIsNext ==
    [][\A forward \in BOOLEAN :
         (Navigate(forward) /\ app.search.active.results \notin {None, <<>>}) =>
           IF app.search.active.progress = "ready" THEN NextOfReady(forward)
                                                   ELSE NextOfOlder]_vars

(* Deleting what is selected leaves the cursor where it was: on the row     *)
(* just above what went, unless that is the branch it hung from, and always *)
(* on a row that is there while any is (DeleteSelectionContext).            *)
DeleteKeepsPlace ==
    [][(Delete /\ app'.store # app.store) =>
         LET before == VisiblePaths(app.store, app.opened)
             after == VisiblePaths(app'.store, app'.opened)
             gone == {i \in DOMAIN before : ~InTree(app'.store, before[i])}
             first == CHOOSE i \in gone : \A j \in gone : i <= j
         IN  /\ after = <<>> => app'.selected = <<>>
             /\ after # <<>> => app'.selected \in ToSet(after)
             /\ (gone # {} /\ first > 1 /\ ~Under(before[first], before[first - 1])) =>
                   app'.selected = before[first - 1]]_vars

(* A search that waits for its results is under way, whatever was           *)
(* superseded on the way: its run is in the request slot, pending, with a   *)
(* worker nobody cancelled, or its outcome is in the other slot unseen.     *)
(* One search is left out: one that waited when `/' was pressed and that    *)
(* Esc restores.  `/' withdrew its run, and it is run again only when the   *)
(* tree changes.                                                            *)
WaitingIsUnderWay ==
    LET key == Key(app.search.active)
        runs(request) == request # None /\ request.key = key
    IN  (Waiting(app) /\ ~aside) =>
          \/ requests.changed /\ runs(requests.value)
          \/ /\ ~requests.changed
             /\ \/ runs(pending)
                \/ worker # None /\ ~worker.cancelled /\ runs(worker.request)
                \/ outcomes.changed /\ runs(outcomes.value) /\ outcomes.value.kind # "cancelled"

(* A search shows its answer, or is on the way to it. *)
SearchIsAnswered == ResultsAnswerTheQuery /\ WaitingIsUnderWay

(* A search gives what was asked for and takes nothing away. *)
SearchIsSound == SearchIsAnswered /\ SearchLeavesNoTrace
=============================================================================
