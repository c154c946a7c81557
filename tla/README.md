# Fluxcope in TLA+

Fluxcope is a terminal HTTP(S) proxy that records traffic: proxy tasks publish
what they forward, one runtime task owns the recorded captures and the settings,
a terminal interface shows them, and control clients (the MCP broker) read and
change them over a private socket. This directory models the parts of it in which
several tasks meet on shared state, checks them with TLC and proves the most
important facts with TLAPS. Paths below are relative to the crate's `src/`.

## 1. The system

| Part | State it keeps | Operations | What is hard |
|---|---|---|---|
| Capture records, publisher, store (`capture/model.rs`, `publisher.rs`, `store.rs`) | admission semaphore, one memory budget with a lease per record, bounded queue, records with a revision, the retained store | start, set response, append, finish, abandon; insert, evict, delete, clear; snapshot | two body pumps and the handler write while the runtime removes; memory goes back with the last `Arc`; permits come back from either side |
| Change feed (`capture/change.rs`) | epoch, ring of the last changes, a watch channel | publish, subscribe, read, sleep | the epoch is announced after the lock is left; a reader may fall behind the ring |
| Runtime event loop (`runtime/event_loop.rs`, `app/requests.rs`) | store, settings, revision, pending transaction | one `select!` over captures, dirty marks, keys, commands, completions | coalesced marks; the order between channels |
| Settings transactions (`runtime/settings.rs`, `gateway.rs`, `app.rs`) | file, live settings, policy, revision, draft | begin, candidate, prepare, rename, finalize, abort; popup save; shutdown | cancellation after admission, rename after cancellation, late completions, drain |
| `wait_for_capture`, `search_captures` (`runtime/control.rs`, `control/capture_query.rs`) | permits, subscription, cursor, remembered states, the page so far | admit, scan in batches, follow, answer; fill a page, continue after it | the scan races the feed; workers outlive their call; captures change between pages |
| Body jobs (`runtime/control.rs`, `capture/body_work.rs`) | queue and permits of decoding, cache of decoded bodies | admit, revalidate, decode, cache, invalidate | everything is stale after each await |
| Body decoder of the interface (`capture/decode.rs`, `app/detail/`) | pending, desired and active keys, two channels | request, cancel, run, deliver | three mutexes taken one at a time by two threads |
| Tool calls (`mcp/stdio.rs`, `mcp/broker.rs`, `control_rpc/`, `control/audit.rs`) | requests in flight, permits of three kinds, connections, leases, response budget, audit ring | receive, cancel, validate, connect, lease, parse, dispatch, serialize, write, record | cancellation, deadline, lost peer or shutdown around a mutation that goes on |
| Tools and instances (`mcp/broker.rs`, `mcp/body.rs`, `mcp/capture.rs`) | what was found, probed and pruned for a call; links handed out | list, select by endpoint, run or neither, call, wait, read a link | instances die or are replaced between reading the registry, probing and calling |
| Instance registry (`instance_registry/`, `instance/`) | descriptors, index, sockets, temporary files, lock file | bind, probe, replace, publish, clean up; scan, prune, reconcile | crashes between file operations, two runs for one endpoint |
| Request list and search (`app/request_tree.rs`, `app/request_list_search/`, `request_search/`) | tree, opened rows, selection, query, results; two watched slots, one worker | captures come and go; walk, fold, delete, `/`, type, Enter, Esc, `n`, `p`; supersede, cancel | an old outcome after a new request; the list changes under an edited query |
| Mapping operations, policy, recording (`settings/mapping_ops.rs`, `mapping.rs`, `request_policy.rs`, `recording.rs`) | settings document, compiled policy | edit presets and rules, compile, match, explain | names with padding, rules that shadow each other, tolerated invalid rules |
| Mapping tools (`mcp/mapping.rs`, `control/settings/mapping.rs`, `runtime/settings/preview.rs`) | the client's view and its revision, the last preview, the last audit record | read a view, explain, validate a proposal, preview, mutate, send again | a rule is named by its position in a view; others change the document between view, preview and change |
| Settings popup (`app/settings_popup*`, `select.rs`) | draft, topic, row, table cursors, select window, dialog | keys, clicks, edit in place, save, report of a save | cursors as indices of lists that change; a preset that is only shown |
| JSON walk, body search (`control/json_walk.rs`, `control/body.rs`) | frames, one path buffer, an observer; a ring of spans, a fallback table; pieces of a form | find, probe, select; search, page, extract, under limits | containers skipped, characters that fold to several, cuts inside characters and escapes |
| Drawing, certificates, command line, logging, scripts | see the components of `PROJECT.json` | | sequential |

How they interact. A proxy task calls `CapturePublisher::try_start`, which takes a
permit and budget and sends the record through a bounded channel; the event loop
inserts it in the store, which binds it to the feed. From then on each mutation of the
record is published under the record's lock. Control operations send a `RuntimeCommand`
to the event loop and await a reply; between two replies anything may change, and what
they keep (cursors, remembered states, cached bodies) is corrected from a subscription of
the feed. Settings changes of clients and of the popup go through one coordinator, which
begins and ends a transaction in the event loop and does the file work in between.
The interface asks its decoder for the body on screen; decoder and body jobs share the
admission of `body_work.rs`. An MCP client speaks to a broker process over stdio; the
broker finds instances in the registry and opens one connection of the private RPC per
call. The request list is rebuilt from the store when it has changed, and its search is
answered by a service that sees one request at a time.

## 2. Modules

| Module | Models | Uses |
|---|---|---|
| `CaptureLifecycle` | publisher, records, pumps, the budget with its arithmetic of chunks (`reserve_body_prefix`), queue, store, event loop branches for captures, shutdown | `RecordView` |
| `RecordView` | abstract: what the feed says of one record (admitted, each revision in order, removed once) | |
| `ChangeFeed` | the feed with its two-step publish | |
| `ChangeLog` | abstract: a log read in order, or a gap reported | |
| `SettingsTransactions` | coordinator, gateway, event loop, popup draft, file, shutdown | |
| `VersionedSettings` | abstract: a value with a revision that only grows | |
| `CaptureWorld` | the store and the feed as a client meets them between its awaits | `RecordView` |
| `CaptureWait` | `wait_for_capture` with search admission | `CaptureWorld` |
| `CaptureQuery` | capture queries: what is refused, what a capture must be to match, as operators | |
| `CaptureSearch` | `search_captures`: batches, pages under a limit of rows and of bytes, cursors; beside the waits | `CaptureWait`, `CaptureQuery` |
| `BodyJobs` | body jobs, admission, cache of decoded bodies | `CaptureWorld` |
| `DecodeService` | the interface's decoder and the application that asks it | |
| `JsonWalk` | JSON pointers and patterns; the walk event by event, with its finder, probe and selector | |
| `BodyText` | folded search, pages and their URIs, form fields | |
| `ControlReads` | body jobs and what a worker answers from a body; what these answers must be, said of the whole document and the whole text | `BodyJobs`, `JsonWalk`, `BodyText` |
| `ControlCalls` | tool calls from stdin to the audit and back: broker, RPC server, operation | |
| `BrokerTools` | the tools: what each must know of its instance, what it sends and says of itself; links to bodies, as operators | |
| `InstanceSelection` | which instance a call reaches: scan, probes, pruning, selection, replacement during a wait; and both sides of the broker in one specification (`BrokerSpec`) | `ControlCalls`, `BrokerTools` |
| `InstanceRegistry` | the registry's files and the processes that work on them | |
| `RequestTree` | the tree of captures, its rows and positions, as operators | |
| `RequestList` | the list on the tree: opening, selection, deletion, the search's own state | `RequestTree` |
| `RequestSearch` | the list under keys and captures, the dispatcher and the search service | `RequestList` |
| `MappingDocument` | presets, rules, `apply_mapping_mutation`, `normalized_settings` checks, as operators | |
| `RequestPolicy` | compilation of a document, evaluation of a request, explanation, and the reference reading of the document | `MappingDocument` |
| `MappingTools` | the mapping tools as a client uses them: inputs and the mutations they become, views, previews, explanations, what the answer and the audit say was changed; the document with its revisions | `RequestPolicy` |
| `SettingsFile` | the settings file over starts, commits, failures and changes by hand: tolerant reading, writing that leaves defaults out, keeping what the user wrote besides | `RequestPolicy` |
| `MappingCalls` | transactions, mapping tools and the settings file in one specification | `SettingsTransactions`, `MappingTools`, `SettingsFile` |
| `SettingsPopup` | the popup and its select control: rows, modes, keys and clicks, filter and window, as operators on its record | `MappingDocument` |
| `SettingsEditor` | the popup, mapping mutations and finalized transactions on one document | `SettingsPopup`, `RequestPolicy` |
| `MC*` | model values, symmetry and state constraints, where a `.cfg` cannot say them | |
| `TerminalFeeds_proofs`, `CaptureLifecycle_proofs`, `SettingsTransactions_proofs`, `InstanceRegistry_proofs`, `Sums`, `CaptureWorld_proofs`, `ControlCalls_proofs`, `MappingEditors_proofs` | theorems | |

State and actions. A variable is a field of the code and has its name where TLA+ allows
it; the comment beside it says which. An action is the code between two points where
another task can interfere: a lock region, an atomic operation, one file operation, or the
piece of an async function between two awaits; where the piece is longer than one handler a
program counter (`start`, `main`, `service.at`, `job[j].at`, `wait[w].at`, `call[c]`,
`server[c]`, `pc`) says how far it is. A record mutates and publishes under one lock, so in
`CaptureWorld` that is one step, while `ChangeFeed` opens the publish itself. `Arc` ownership
is the variable `refs`: a lease goes back to the budget when its last owner leaves. In
`ControlCalls` who holds which permit is derived from where calls and workers are, since a
permit lives exactly as long as its owner. The list and the popup are records that operators
transform, one operator per handler, because a key press runs several of them in a row.
Operators named as mutants or bugs in their comments (`RequestAgain`, `NowInLogLate`, ...)
are used by no specification: each is the plausible mistake that the property it belongs to
detects.

Refinements. `CaptureLifecycle` implements `RecordView` (`FeedKeepsPromise`), `CaptureWorld`
implements the same `RecordView` (`WorldKeepsPromise`), both proved, so that what `CaptureWait` and
`BodyJobs` rely on is what the pumps and the store deliver. `ChangeFeed` implements
`ChangeLog` (`ImplementsLog`, also proved), whose promise `CaptureWorld` uses for
subscriptions. `SettingsTransactions` implements `VersionedSettings` (`CommitsAreVersioned`);
`SettingsEditor` takes its transactions one at a time, as that refinement allows.

## 3. Runs

All runs are expected to pass.

| Run | Question | Bounds and why they are enough |
|---|---|---|
| `capture_races` | two exchanges race for permits, a queue of one and a budget of five bytes, against insertion, eviction, delete and clear | budget and queue are exhausted, the store keeps one record so every insertion evicts; frames of one byte, since sizes matter in the next run |
| `capture_bodies` | one exchange, frames of 1 and 3 bytes, preview limit 3, chunk size 2 with overhead, a failed body, a reader, shutdown: previews are prefixes and stay cut, signalled pressure evicts the oldest record, permits come back | preview limit and memory budget cut inside a frame, at its ends and on a chunk boundary; the record itself is the one evicted under pressure; the loop takes the mark and reads the counter in two steps, with marks and pressure in between. How several exchanges share permits is the question of `capture_races` |
| `feed` | two publishers, two subscribers, ring of two, four epochs | the ring wraps twice and a reader can be overrun by two changes |
| `settings` | one client and one popup save, two keys, two edits, failures, cancellation, quit; answers, unlocking, drain. Or one client with the mapping tools, three calls, one change by others. Or the file over starts, commits and changes by hand | the two origins meet at every step, with an edit before and after each. For the tools, a view, a preview and the change it previews are three calls, a lost answer is sent again without counting, and a draft or another's transaction may stand in the way or change the document between any two; the four documents have three rules to move, names that differ in blanks, a name too long for the audit, a glob that is none, and no proxy section; views, and previews of three URLs, meet `MaxProjection = 7` and `MaxPreviewUrls = 2`. Or the settings file, found in seven states (absent, empty, no YAML, explicit defaults, keys the program does not know, old and malformed patterns, a malformed prefilter or proxy section), over two starts, two commits and one change by hand |
| `wait_races` | one wait, two captures of two mutations, ring of two, log of three changes, batches of one | admissions, updates and an eviction happen before, in and after the scan, and the ring overruns. The constraint `Unfinished` only stops at states in which every call has answered and no worker runs, where no property can change |
| `search_pages` | a client reads all pages of a search of three captures, in batches of two, pages of one or two rows and three bytes, two calls; or two waits contend for one permit | captures come before the search, change and go while it asks or while the client holds a cursor; a page is full by rows, by bytes, at the end of a batch and by both at once. Time-outs, cancellation and surviving workers contend for the permit |
| `body_reads` | three calls, two at a time, a capture whose decoded body grows past half the cache, a mutation, delete and clear, ring of one; or one answer of each kind from a body | a body changes or goes before and after every step of a call; hit, miss, eviction and re-admission in both directions; two calls drain and apply batches in either order; a call may be dropped anywhere and all end. Documents of up to five values nest objects and arrays with keys that fold together, look like an index or must be escaped, and every limit is met; texts of four characters of 1, 2 and 4 bytes hold overlapping and half-folded occurrences; pages begin anywhere; forms are cut in pieces of two bytes inside characters and escapes |
| `decode` | four selections among three bodies, two workers, channels of one place | enough to leave and revisit a body while its first job is at any step; the application may leave at any step too, with a result unread and the channel full |
| `registry` | two runs that want one endpoint, two killed earlier, one broker, one fault | a takeover meets a dead owner, a live one, one that is being published and one being cleaned up; the broker's scan is cut by `MaxScan = 2` of three entries; the fault strikes at any file operation, and the starting files are every leftover a kill can produce |
| `calls` | two calls of a mapping mutation, a recording switch or a read, in one session or two, every semaphore of capacity one, two disturbances | each resource is contended by the other call; a disturbance (cancellation, deadline, end of a session or of the instance) may strike twice anywhere. Or one call, and one read of a link it brought, with every way to name an instance: up to three instances live, one dead, one taking over an endpoint, two events among them at any step; `IndexLimit = 2` of three entries, one probe at a time |
| `search` | two captures or evictions, four keys of which one in the tree, three queries, two settings of expansion and retention | a capture comes or goes before the query, while it is edited, while a worker runs and after its outcome; a second request supersedes the first at each step; retention of one evicts at once |
| `settings_popup` | two changes of the draft or mutations from four documents (prefilter only, full, tolerated but invalid, empty), any keys and clicks | an edit made in the popup is followed by one through the tools, or by a save; every cursor has a list of length 0, 1 and 2 to stand on; rules shadow each other by origin, by path, by duplicate and by spelling |

`CHECK_DEADLOCK FALSE` is said where the system may stop: all exchanges are over, all
requests answered, all calls made, all keys pressed, or the process has shut down.
`ChangeFeed` checks deadlock. Bounds (`MaxObserved`, `MaxEpoch`, `MaxEdits`, `MaxLog`,
`MaxRevision`, `MaxPages`, `MaxWaitLog`, `MaxCalls`, `MaxSelections`, `MaxFaults`, `MaxDisturbances`, `MaxProbes`,
`MaxCaptureEvents`, `MaxAsked`, `MaxWorldEvents`, `MaxToolCalls`, `MaxElsewhere`, `MaxLoads`, `MaxSaves`, `MaxHandEdits`, `Asks`, `Starts`, `MaxKeys`, `MaxListKeys`, `Readable`, `MayShutDown`, `MayQuit`) are declared
as such beside the constants. Symmetry is used only on interchangeable exchanges, threads,
clients and keys, and never in a run with a liveness property.

The types of `ChangeFeed`, `CaptureLifecycle`, `SettingsTransactions`, `InstanceRegistry`, `DecodeService`, `CaptureWorld`, `BodyJobs`,
`CaptureSearch` and the variables of `ControlCalls` that its theorems are about are proved (section 4). In the other modules
`TypeOK` says what each variable ranges over and is the first conjunct of the invariants still
to be proved.

Fairness. A spawned task of the multi-thread runtime that can run is polled eventually: weak
fairness of each task's steps. The event loop's `select!` is not biased between its
branches (and `biased` where it prefers shutdown), each branch handler is finite: weak
fairness of the loop's steps. tokio's semaphore is first come first served: strong fairness of
acquiring a permit (`BodyJobs`); in `CaptureSearch` and `ControlCalls` a call waits for a permit
only behind another whose progress is fair, so weak fairness is enough. A blocking worker
reads a bounded input and looks at its flag: weak fairness of its end. Deadlines come: weak
fairness of `TimeOut`. A registry operation that holds the lock goes on, and a broker's client
asks for discovery again: weak fairness of both. Never assumed fair: clients' calls and
cancellation, key presses, exchanges, selections, kills, shutdown, dropped connections; once the
application has left `DecodeService`, its shutdown is fair; in
`BodyJobs` and `ControlCalls` the deadline is not needed for termination and is left unfair.

What the properties say, in short.
Captures: the budget is conserved and covers every record; a permit follows its exchange; the
feed tells the truth about the store; a removed record is never written to the outside again;
a preview is a prefix and stays cut. Feed: the ring is the end of the log and nobody sleeps
through a change. Settings (`CommitsAreTrue`, `NobodyWaitsForEver`):
disk, live settings, answers and revisions agree, a commit is based on the latest, everyone is
answered, the editor is unlocked and the drain ends. Mapping tools (`ToolsDoWhatTheySay`): what is
in a view can be found at its position, a change is made to the object that was named and to
nothing else, once, and comes out as its preview said; the answer and the audit name what was
changed. Settings file (`FileSaysTheSettings`): what was written reads back, without a
complaint, as the settings in force; no entry the user wrote is lost that could have stayed, and
writing again changes nothing. Wait: no match is missed, and what is
remembered is retained and accounted. Search pages (`PagesMissNothing`): what a client puts together from
the pages of one search holds every capture that matched all the time, none twice, newest first.
Body jobs: a call is charged for what it does, cached
bodies are those of their revision and a stale one is about to be removed. Decoder: `pending`
is exactly the jobs and a superseded worker is cancelled. Registry: who serves keeps its
endpoint, is listed and found, and what is dead can be recognised and goes away. Calls
(`CallsAreAccountedFor`): the audit holds every mutation once, as what it was; a success was applied, a refusal never is;
every call ends and gives its permits back. Selection (`CallsReachWhomTheyMean`): who answers is whom the call
meant, a refusal has a true reason, a list without a warning is complete, a tool that says it
reads changes nothing, a link leads to its bytes or to a refusal. Search: what is shown as the answer is the
answer, and what waits is on its way; Esc gives back the list `/` was pressed in; `n` and
`p` go to the next match, and from results of an older tree to one that is still there; deletion keeps the place. Popup: the policy is what the document
says, edits keep the document valid, cursors stay on what they stand for, and what was only
shown is not written. The comment above each definition states it precisely.

## 4. Proofs

All for every value of the constants that satisfies the module's assumption (named, beside the
constants: types of the constants, positive capacities, finitely many exchanges, captures, calls, endpoints and runs, for body jobs and searches at least one
capture; for the popup that documents and mutations are typed, the default document is valid and the names
offered for new presets are not blank and not the default one; for the mapping tools that inputs are what their
schemas admit; for the selection of instances also what the inputs of the tools require: discovery takes no
selector, a wait both parts of one, and at first an endpoint holds nobody or a run that was started
for it).

* `TerminalFeeds_proofs`, first of the change feed. Inductive invariant `FeedInv`: types, `RingIsSuffix`, the position of every
  subscription (`Positioned`: next epoch and seen version lie inside the log) and
  `NoLostWakeup`. The position is needed because an index into the ring is computed from it,
  and the ring's shape because reading is by index. `FeedNeverSleepsThroughAChange` is the
  invariant; `FeedImplementsLog` maps every step of the feed to a step of `ChangeLog` or a stutter.
  Then of the decoder. `DecodeInv`: types; `Asking` (what a step of a request knows of `pending` and
  `desired`); `OneJobEach` (the keys in the channel, in the hands of the service and with workers are
  disjoint, none is twice in the channel, and together they are `pending`, but for the key that is being
  entered and for those a stopped service leaves); `Flagged` (a running worker can be found by its
  key, and one of another body is cancelled outside the two steps that see to it); `Known` (of a body that was never
  selected there is no trace) and, on a first visit, `Served`. A key is entered in `pending` and
  sent in different steps, and registered, looked at again and joined without a lock on the application, so
  that no two of these parts hold without the others. The number of jobs of a key, which the
  property counts, is at most one by `OneJobEach`. Results: `DecodeInvariant`,
  `DecodesWhatIsSelected`.
* `CaptureLifecycle_proofs`. `CaptureInv`: types, `used <= BudgetLimit`, `LeaseCoversRecord`,
  `Custody` (who may hold a record in each state of its exchange) and `QueueOwned` (what is in the
  queue is owned by it). Custody is what keeps a lease from being released while a pump can still
  reserve, and with it `LeaseCoversRecord` from being broken by a late append. The arithmetic of
  a frame is the lemma `PrefixChargeBounds` about `BodyPrefixCharge`. Results: `CaptureInvariant`,
  `LeasesCoverRecords`.
  In the same module, `PermitInv` counts holders: free permits plus the exchanges that
  hold one are the capacity, and an exchange holds one exactly while it is due. `Fresh` (an exchange
  that was not started has no task and no terminal side) strengthens it, so that ending a side
  cannot give back a permit that was never taken. Result:
  `PermitsFollowExchanges`.
  Then the records and what is announced of them. `FeedInv`, for each exchange:
  `Unannounced` (nothing is said of a record that was not taken from the queue), `Listed` (bound
  exactly while the feed lists it, with its revision) and `Removing` (how far a delete, clear or
  drop has come, so that a store operation never removes a record twice). Each action of a task is
  classified as silent, as announcing the next revision, or as the death of an unlisted record
  (`Handles`); each step of the runtime admits or removes one record. Results:
  `FeedKeepsItsPromise` (the refinement of `RecordView`), `FeedAlwaysMatchesStore`,
  `RemovedNeverGrow` and, with `PreviewGrows` about the two limits of a preview,
  `PreviewsArePrefixes`. Its second half, that a cut preview is final, is a statement of steps: each action
  either leaves the bodies alone or is the fragment, for which a limit that is set asks for no more
  bytes (`CutHeld`, lemmas `RecordsStandCut` to `NextCut`).
  Last, the counts of bytes. `BytesInv`: the budget is the sum of the leases (every step changes
  one lease, and the budget by as much); `Unleased` (an exchange that is not yet charged has neither
  lease nor owner, so that its first lease replaces nothing); and `WithinPolicy` (the count of the store is
  within the policy unless it is evicting, and covered by what the stored records hold unless a
  clear is dropping them). The cover is why the retention loop, which stops when no record is left,
  ends within the policy: with no record left the count is zero. Results:
  `BytesInvariant`, `BytesStayAccounted`.
* `Sums`. What `MapThenSumSet` computes over a finite set, for the proofs about counters: a sum grows
  by what an element brings, loses what one takes, and changes by what one value changes. The
  induction is over the subsets of the set, by the well-foundedness of strict inclusion
  (`SetInduction`), with a set of good subsets in place of a predicate.
* `SettingsTransactions_proofs`. `SettingsInv`: types; `Waiting` (the queue holds queued requests,
  each once); `Executing` (the request the coordinator has in hand is active, and from the moment
  there is a candidate it is what that request makes of the settings Begin handed over);
  `Unanswered` and `AnswersNameCommits` (no success before its time, and none for a revision that
  was never made); and the four parts of `CommitsAreTrue`. What is committed is read from the
  coordinator's candidate several steps after it was derived, so `CommitOnLatest` needs
  `Executing`; a cancelled request may leave the queue only because it is in it once. Results:
  `SettingsInvariant`, `CommitsStayTrue`. `CommitsImplementRegister` maps each finalized transaction
  to a step of `VersionedSettings`; it adds the invariant `AsksOne` (what a client asks differs in
  one option from what it read), which lives from the read of one request to its commit. The
  theorems are about the `Spec` of `SettingsTransactions`; `MappingCalls` composes it.
* `InstanceRegistry_proofs`. `RegistryInv`: types; `LockHeld` (who is inside a locked section holds
  the lock); `KnownArePast` (a run that a descriptor names, or that another process has read of, has
  linked its descriptor already and so never serves again once it stopped); `StaleAreDead`,
  `Accepting`, `Bound` (who answers, and who has a socket); `LinkIsOwned` and `RemovedIsGone` (what
  the holder of the lock may rely on between its file operations). A probe runs without the lock
  and its verdict is used under it: `KnownArePast` is why it cannot have become false meanwhile.
  Results: `RegistryInvariant`, `EntriesStayUsable`, `LiveEntriesStay`.
* `CaptureWorld_proofs`. `WorldInv`: types; `RemovingStored` (what is being evicted is still stored);
  `Told` (the last word of the feed on a record is what the store holds: nothing of a record that
  was not admitted, its present revision, or its removal). From it `WorldKeepsItsPromise`, the
  refinement of `RecordView`. `WaitInv` adds for each wait: `Placed` (where its subscription is and what
  it holds at each step); `Unmissed` (of every stored capture there is a change still to be read, or the scan
  will reach it, or it is in hand, or it was inspected in vain at this revision);
  `SeenInTime` and `MemoryInTime` (a snapshot taken earlier is the present one, or a later change of
  the capture is still to be read). A batch is read from the store without a lock on what follows, so a
  capture may change between being seen and being inspected: `SeenInTime` is why that is not
  forgotten, and `Told` is why a removal that is read is one. A batch takes the newest captures
  below the last one (`NewestIsAbove`), so what it leaves is what the next one asks for. Results:
  `WaitInvariant`, `WaitsMissNothing`.
  In the same module, since they read the same world, the body jobs. `JobsInv`: types; `Accounts`
  (jobs and bytes of the queue and the permits are those of the calls that wait and work); for each
  call `Sound` (which lease it has, what it was charged for, that what it has of the body is of the
  revision it asked for, and that its snapshot is of the present unless something was announced
  since it read the epoch); `Books` of the cache; and for each entry `Traced`: some change announced
  it, and every later change about its capture is still to be read, or is in the batch of a call
  that has yet to apply it. A call drains the subscription in one step and applies what it drained in
  another, and several may hold a batch at once, so that the entry of a stale body is found only by
  accounting for each change of the log. A batch keeps an entry only for the last change it read of the
  capture, to which the entry is then traced. Each cache operation is a lemma about `Books`
  (`RemovingKeeps`, `TouchedKeeps`, `InsertedKeeps`, ...): `bytes` is the sum over the entries and `lru` their
  inverse, so no subtraction saturates, and the loop that evicts (`MakingRoomKeeps`) ends within
  the capacity. Each step of a call makes one call another and the admission what that asks for
  (`Turns`, `AccountsFollow`). Results: `JobsInvariant`, `ChargesStayRight`, `CacheStaysRight`. The
  theorems are about `JobsSpec`; `ControlReads` composes it.
  And the pages of a search, about `SearchSpec`. `SearchInv`: types; `GotDescends` (what was delivered lies
  above the cursor the client has, newest first, with a row for each cursor); `RowsDescend` (the page so far lies
  between the cursor of the call and that of the client, and has room); `BatchIsBetween` (the batch lies
  below the page and above what the next batch begins with); `SteadyRead` (a capture that has matched since
  the first call is in what was delivered, in the page, among the matches of the batch, or below them
  all); and `SteadyMatch`. A batch is matched as it was when it was taken, while its captures change,
  and a page ends in the middle of it: that nothing is lost there needs the three intervals to
  be adjacent, not only each to be right. `FittingIs` shows that what fits a page, by number and by bytes, is an
  upper part of what matches, which the sums of `Sums` give; `FirstFits` that an empty page takes a row or
  the search fails, so that a cursor comes with a row; `NewestFirstIs` that the rows of a set are all of
  it in falling order. The four ways a page goes on (`MatchedKeeps`) are one lemma about a floor
  (`RowsReachFloor`): below the last row, at the row that did not fit, at the end, at the next batch.
  Results: `SearchInvariant`, `PagesAreComplete`.
* `ControlCalls_proofs`. `ControlInv`: types; `BufferSound`; for each call `NotYetSent` (the
  server has not seen what the broker has not sent), `ServedInOrder` (what the server returns for a
  mutation is what the operation came to, which nothing changes any more), `ToldAsItWas` and
  `AppliedAsItWas`; `AuditSound` (a record is of a mutation that ended, as what it was, each call
  once; the ring is full before it forgets, and the count of reads is that of the reads that
  ended). What the caller is told passes through five stages at which the connection, the session or
  the deadline may end, and the audit is written after the response and before or after its
  delivery, so that the three agree follows only from an account of where each call is. Results:
  `ControlInvariant`, `CallsAccountedFor`, about the `Spec` of `ControlCalls`, for any number of
  calls and sessions and every capacity.
  `SelectionInv` is the invariant of `InstanceSelection`, for any instances, endpoints, limits and
  calls, one part for each phase of a call: `CallSeen` (who was well all the time is well and listed now, and who
  is listed was seen), `Founds` (at each endpoint at most one was found), `Reading` (who is meant and was well all the time is
  found or still in the index), `Probing` (is found, and once probed is among the live; the probed are
  live, stale or rejected, by count), `Chosen` (is the chosen one); and `AnswerIsTrue`, which holds at any time.
  The property speaks of answers only. It needs what was true of the registry when
  the index was read to survive takeovers, deaths and the broker's own pruning up to the answer, which
  holds of the runs that were well all the time and of no others, and fails if a full index
  was cut (`omitted`). `WorldKeeps` is the one lemma for whatever happens to instances;
  `SomeoneIsProbed` shows that probing a few at a time ends only with all of them probed;
  `LinkIsReadBack` that a link comes back from its URI as it was. Results: `BrokerInvariant`,
  `CallsAreRight` and `BrokerAccountsForCalls`, about `BrokerSpec`, which the run checks.
* `MappingEditors_proofs`, first of the settings editor, for documents, names, texts and mutations of any kind and number
  (`EditorAssumption`). `EditorInvariant`: types; `PopupInvariant`, in which the popup is `Sound` (the row exists,
  and so does what the mode speaks of: a cursor is on a rule or on the first place of an empty table, an
  editor on a rule or pattern there is, a select box shows its focus) and the draft is `AsGood` as what it began
  as (valid if that was valid, well formed if that was); and `TxInvariant` (a transaction under way
  locks the popup and carries a document as well formed as the live one; from there until a successful save is
  reported the popup's original is as well formed as the live one). The last part is what lets a draft be saved
  over a live document that mutations have changed since the popup was opened: nothing compares
  the two at the commit. Every handler is shown to be a `UserStep`: `Kept` (sound, and the draft as good) and
  `Follows` (a table or list that changes does so under the cursor, which goes along). A click first settles what
  is being edited (`Settling`) and then acts on what is then shown (`Clicking`), so that its
  cursor is that of neither state alone; `SettleThenClick` puts the two together. That a mutation
  keeps names distinct and rules valid is `MutationKeepsForm`, one lemma per operation below it; that one
  nothing on the screen shows changes nothing is proved operation by operation too (`Unseen`).
  Results: `EditorStaysSound`, `EditsStayValid`, `CursorKeepsToItsRule`, `NothingUnseenIsSaved`,
  about `EditorSpec`.
  Then of the mapping tools, about `ToolsSpec`, whose steps are those `MappingSpec` takes of the tools.
  `ToolsInvariant`: types; `Histories` (a revision of the client is what its mutation made of the
  revision before, compiles, and was answered with the place where the changed object now is) and `Once` (no call
  made two revisions); `CallSound`, by which a change that waits to be committed still expects the newest
  revision, since the editor is locked meanwhile; `AskedSound` and `AnswerSound` (a proposal is
  what a view showed, and an answer is of the revision its snapshot was taken at, however many were stored
  since); `Mine` and `ChangeSound` (a revision of the call under way was made at its end, of the one it
  expected, and this is what the answer and the audit say); and `PreviewSound`. The properties speak of the
  object that was named and of its place, the invariant of the mutations the inputs become, so the lemmas
  behind `StepsOfTheTools`, one per tool, show that the mutation touches that object only. That a call sent again does
  not act twice needs `Once` and, for what calls itself idempotent, that repeating the mutation on its own result
  changes nothing (`Again`). Results: `ToolsSpecIsSound`, `ToolsSpecKeepsItsWord`.

Model-checked only:
* liveness under fairness and ENABLED, which the prover does not treat: `PressureNoticed`,
  `PermitsReturned`, `CatchesUp`, `NobodyWaitsForEver`, `EveryCallIsAnswered`, `DecoderEnds`,
  `EveryCallEnds`, `DeadAreForgotten`, `CallsEnd`;
* what is written with recursive operators, or is what a recursion computes for every input:
  `InspectionsAreTrue`, `BodyIsServedWhole` (`ControlReads`) and
  `SearchIsSound`, `NextMatchIsNext`, `DeleteKeepsPlace` (`RequestTree`);
* what compares a document or policy with a reference reading built from
  sequences and folds, and is so far checked on small inputs only: `FileSaysTheSettings`,
  `PolicyFollowsDocument`. The policy is compiled with the folds of the community modules, and what a fold
  computes is induction over its input, which the library's theorems cannot be cited for.

## 5. What is abstracted

Headers, bodies and settings are sizes, prefixes and small sets of keys; a query is which
captures satisfy it. Wall-clock time appears only as deadlines that may come at any moment.
Counters of 64 bits (epochs, sequences, revisions) are unbounded: the code panics on the overflow of
an epoch and a run does not reach it. `Relaxed` metrics are atomic. `Frame` takes
the metrics and marks that follow the record's lock in `append` with the lock: risen pressure whose mark is
still to come is a state the runtime meets after `RespondReserve` too. `CaptureWorld` has one
feed reader per client and takes the store's policy as any choice of oldest records.
`BodyJobs` models a decoded read; searches, extractions and selections take the same path. What
is answered from the body is computed from its bytes alone, so `ControlReads` lets a behaviour
either make calls or compute one answer. `JsonWalk` takes a document as the events of the JSON
library's parser; scalars differ by type only, strings need no escapes in the output. `BodyText`
takes case folding as a function of characters, UTF-8 up to three bytes in forms, and leaves out
the checks of cancellation.
`DecodeService` does not model which of several limits refuses a request, only that one may.

`InstanceRegistry`: a fault is a kill, a failed operation or the deadline of a broker; a second
failure inside the rollback of a first is not modelled. Two live runs may want one endpoint, as
homes may be shared between containers. Ownership, permissions and symbolic links are not.
`ControlCalls`: the broker's check of a found instance, itself a small call, is one step. The
generation check of the handshake is left out: a socket carries its run's ID in its name and
the registry validates both, so a broker meets no other run behind it. A task that shutdown
aborts may have begun a mutation that commits without an audit record; `AuditIsTrue` (a conjunct of `CallsAreAccountedFor`) leaves
such a call ("aborted") out.
`InstanceSelection`: what instances do is the environment's (`InstanceRegistry` has their files);
a probe and a call are one step each, and `ControlCalls` opens a call; a behaviour of
`BrokerSpec` is either of many calls or of single ones, since permits do not depend on what is
selected. A link is its fields; how a URI is spelled is one bit. The permits of the scan and the
probes are left to `ControlCalls`.
`RequestSearch`: a match is a set of URIs; highlights, the scroll offset, the limit of a query's
length and editing inside it are left out, and the index of paths is set membership. One search
is left out of `SearchIsAnswered` (a conjunct of `SearchIsSound`) by name: one that waited when `/` was pressed and that
Esc restores; its run was withdrawn and comes back when the tree changes.
`MappingTools`: an answer's size is the number of its presets and rules; a URL that cannot be
parsed is one text; instance, configuration and persistence mode of an answer are left out, and
so are the permits of the workers. A transaction is one step here, since how it is taken apart is
the other half of `MappingCalls`: there a mutation is any change of one key, and a behaviour is of
one half only, because what a change does and how it is committed do not depend on each other.
The client reads, previews and changes one call at a time; others act once it has a view.
`SettingsFile`: a file is a tree of maps, lists and leaves; the order of keys, which the code
keeps, is layout, and the sections that are always written in full are left out. `null` stands only
where an option may be absent. A start that cannot read or write its file, symbolic links and
permissions are not modelled; of a failed write only that the file is the old one. Commits come
one at a time: their race is the first part of `MappingCalls`.
`SettingsEditor`: a name is a text with or without padding, a URL an origin, a path and how it
was spelled, a glob what it matches. Typing replaces a text by any of a small set. Text cursors,
hints, error texts, scrolling, hit regions and double clicks are left out; the select shows two
items for the code's six. One transaction runs at a time: how they race is
`SettingsTransactions`.

Not modelled: see the components with that status in `PROJECT.json`, each with its reason.

## 6. What does not hold

No run expects a violation. Six properties are stated in the modules and belong to no run,
because TLC refutes them and no sentence of the repository promises them outright:

1. `ReportedRevisionNeverReverts` (`SettingsTransactions`): the completion of a save may be taken after
   a later commit and sets `App`'s settings and revision back.
2. `ClientsNeverCommitOverADraft`: a failed save unlocks the editor during a client's transaction, which
   then commits over a dirty draft and stays pending for ever.
3. `DirtyDraftSurvivesCompletion`: an edit made between Finalize and the completion of a save is
   discarded by the completion, which closes the popup.
4. `DraftStartsFromSettings`: a failed save reopens a popup that was closed meanwhile, with default
   settings as draft.
5. `PendingTextIsUnderWay` (`DecodeService`): a body selected again while the service drops its old job
   is accepted and never answered; it stays on Loading until another body is selected.
6. `ShownBodyWasDecoded`: a body selected again while its cancelled worker still runs is shown as
   that worker's empty result.

`FirstVisitIsDecoded`, the part of `DecodingFollowsTheUser` that holds, says that 5 and 6 need a body to be visited twice.

Met while modelling, and kept in the models as the code has them:

* A call whose connection ends without a frame is answered `invalid_argument`, "frame prefix is
  truncated", although a mutation may have been applied. The answer is "truncated" in
  `ControlCalls` and `AnswersAreTrue` claims nothing of it.
* An instance that is registered but answers its probe with an error is reported as "selected
  endpoint is not registered" (`select`, `mcp/broker.rs:555`), and a second live instance that
  answers its probe with an error makes a call without a selector unambiguous.
  `AbsenceIsTrue` and `AnswererIsMeant` speak of instances that were well all the time.
* `mapping_runtime_status` (`app.rs`) and `MappingSettingsView::scoped` compare the names of presets exactly,
  where the policy and the mutations trim them.
* Hence, in a document loaded with two names that differ in blanks only, a view tells the presets
  apart and the tools change the first of them, which is the one `ChangesWhatWasNamed` takes as named.
* A document with an enabled pattern that is no glob is accepted at the start. Then a preview of a change
  without effect is refused as not compiling, while the change itself is answered as unchanged, and
  every mapping change with an effect is refused until the pattern is mended.
* With a dangling `active_preset` in the file, creating a preset of that name, or renaming one
  to it, makes it active, while the tool is described as creating "without activating it".
* A comment in `recording.rs` says that patterns accept arbitrary text, while a document with an
  enabled pattern that is no glob is refused when it is compiled.
* Creating a preset where the proxy section exists, is enabled and has none makes the flag that
  the popup shows jump to enabled.
* Choosing again an active preset that was written with padding makes the draft dirty although
  nothing visible changed; `UnseenIsUnsaid` excludes it by `ActiveIsTrimmed`.
* What the user wrote besides is kept by its place in a list: after a rule was deleted, an unknown key
  of it belongs to the rule that took its place. No such key changes what the file says.
* A change by hand between the temporary file and the rename is overwritten; the file is read when
  the commit is prepared and not looked at again.

## 7. Plan

Done: captures, feed, settings, wait, body jobs and what they answer, decoder, registry, tool calls and their instances, request list and
search, mapping operations and tools, policy and popup, each with its abstract specification or its
reference reading where it has one.

To come, most important first:

1. A proof of `FileSaysTheSettings` (`SettingsFile`), which needs induction over the file's lists.
2. The supervision of the runtime's services.
