------------------------ MODULE SettingsTransactions ------------------------
(***************************************************************************)
(* A change of the settings, from a key in the settings popup or a control *)
(* request to the file, the live policy and every copy the program keeps.  *)
(*                                                                         *)
(* Three tasks take part.  The event loop (AppRuntime) owns the live       *)
(* settings, their revision, the App copy shown by the TUI and the popup's *)
(* draft.  The coordinator (run_settings_transactions) executes one        *)
(* request at a time: it asks the event loop to Begin, compiles, writes    *)
(* and renames the file in blocking workers, and asks it to Finalize or to *)
(* Abort.  The submitter of a request waits for the result: a control      *)
(* client, or, for a save of the popup, a task that hands the result back  *)
(* to the event loop as a completion.  Between Finalize and completion the *)
(* event loop takes any other event first.                                 *)
(*                                                                         *)
(* Settings are abstracted to the set of options that differ from          *)
(* AppSettings::default(), which is {}.                                    *)
(***************************************************************************)
EXTENDS Integers, Sequences, FiniteSets

CONSTANTS
  Tags,           \* the options a change may set
  Loaded,         \* the settings found in the file at start
  Clients,        \* control calls that mutate the mapping, one change each
  Saves,          \* bound: saves of the popup
  NoRequest,
  MaxEdits,       \* bound: keys that change the draft
  QueueCapacity,  \* SETTINGS_TRANSACTION_QUEUE_CAPACITY
  Persistent,     \* config_mode is default_owned: commits rename the file
  MayFail,        \* bound: whether validation and file operations may fail
  MayQuit         \* bound: whether the process is shut down

ASSUME SettingsAssumption ==
  /\ Loaded \subseteq Tags /\ Loaded # {}
  /\ Clients \intersect Saves = {} /\ NoRequest \notin Clients \union Saves
  /\ MaxEdits \in Nat /\ QueueCapacity \in Nat \ {0}
  /\ {Persistent, MayFail, MayQuit} \subseteq BOOLEAN

Requests == Clients \union Saves

VARIABLES
  history,    \* the live settings, with those of the earlier revisions
  author,     \* the request that committed each revision
  tx,         \* AppRuntime.pending_settings_transaction, named by its request
  disk,       \* the settings file
  app,        \* App: settings, settings_revision, settings_transaction_pending
  popup,      \* SettingsPopup: visible, draft.original, draft.current
  edits,      \* keys that changed the draft so far
  loop,       \* the event loop: running, draining or closed
  cancelled,  \* the requests whose token is cancelled
  req,        \* a request: where it is, what it asks, what it was answered
  queue,      \* the bounded channel to the coordinator
  coord       \* the coordinator: its step and the transaction it executes

liveVars == <<history, author, tx>>
vars == <<liveVars, disk, app, popup, edits, loop, cancelled, req, queue, coord>>

Settings == SUBSET Tags
Default  == {}
Revision == Len(history)
Live     == history[Revision]
Shutdown == loop # "running"

\* Draft.is_dirty
Dirty == popup.value # popup.base

\* The token of a save is a child of the shutdown token.
Cancelled(r) == r \in cancelled \/ (Shutdown /\ r \in Saves)

\* The coordinator holds an admitted transaction.
Admitted == {"admitted", "compiled", "prepared", "committing", "finalize",
             "abort"}

Answer == [ok: BOOLEAN, changed: BOOLEAN, revision: Nat, settings: Settings]
Failed == [ok |-> FALSE, changed |-> FALSE, revision |-> 0, settings |-> {}]

RequestState ==
  [at: {"unused", "read", "submitting", "queued", "active", "answered", "delivered"},
   want: Settings, base: Settings, expected: Nat, answer: Answer]

TypeOK ==
  /\ history \in Seq(Settings) /\ history # <<>>
  /\ author \in Seq(Requests) /\ Len(author) = Len(history) - 1
  /\ tx \in Requests \union {NoRequest} /\ disk \in Settings
  /\ app \in [settings: Settings, revision: Nat, pending: BOOLEAN]
  /\ popup \in [visible: BOOLEAN, base: Settings, value: Settings]
  /\ edits \in Nat /\ loop \in {"running", "draining", "closed"}
  /\ cancelled \subseteq Requests
  /\ req \in [Requests -> RequestState]
  /\ queue \in Seq(Requests)
  /\ coord \in [at: Admitted \union {"idle", "begin", "replied", "stopped"},
                r: Requests \union {NoRequest}, base: Settings,
                candidate: Settings, revision: Nat]

Init ==
  /\ history = <<Loaded>> /\ author = <<>> /\ tx = NoRequest /\ disk = Loaded
  /\ app = [settings |-> Loaded, revision |-> 1, pending |-> FALSE]
  /\ popup = [visible |-> FALSE, base |-> Default, value |-> Default]
  /\ edits = 0 /\ loop = "running" /\ cancelled = {}
  /\ req = [r \in Requests |->
              [at |-> "unused", want |-> {}, base |-> {}, expected |-> 0,
               answer |-> Failed]]
  /\ queue = <<>>
  /\ coord = [at |-> "idle", r |-> NoRequest, base |-> {}, candidate |-> {},
              revision |-> 0]

(***************************************************************************)
(* The popup, in the event loop.  While a transaction is pending the only  *)
(* keys the popup takes are those that move the cursor.                    *)
(***************************************************************************)
Opened(settings) == [visible |-> TRUE, base |-> settings, value |-> settings]

\* SettingsPopup::close resets the draft to AppSettings::default().
Closed == [visible |-> FALSE, base |-> Default, value |-> Default]

Keys == loop = "running" /\ UNCHANGED <<liveVars, disk, loop, cancelled, queue, coord>>

OpenPopup ==
  /\ Keys /\ ~popup.visible
  /\ popup' = Opened(app.settings)
  /\ UNCHANGED <<app, edits, req>>

Editable == popup.visible /\ ~app.pending

\* A key or a paste that changes the draft.
Edit ==
  /\ Keys /\ Editable /\ edits < MaxEdits
  /\ \E t \in Tags :
       popup' = [popup EXCEPT !.value = IF t \in @ THEN @ \ {t}
                                                   ELSE @ \union {t}]
  /\ edits' = edits + 1
  /\ UNCHANGED <<app, req>>

\* Escape, and Discard when the draft is dirty.
CloseKey ==
  /\ Keys /\ Editable
  /\ popup' = Closed
  /\ UNCHANGED <<app, edits, req>>

\* Save, also of a clean draft; handle_settings_save_request takes the draft
\* in the same turn of the event loop and spawns the task that submits it.
SaveKey(s) ==
  /\ Keys /\ Editable
  /\ req[s].at = "unused"
  /\ req' = [req EXCEPT ![s].at = "submitting", ![s].want = popup.value,
                        ![s].base = popup.base]
  /\ app' = [app EXCEPT !.pending = TRUE]
  /\ UNCHANGED <<popup, edits>>

\* What App holds after finish_settings_save.
Completion(s) ==
  [settings |-> req[s].answer.settings, revision |-> req[s].answer.revision,
   pending |-> FALSE]

\* settings_completion_rx: finish_settings_save or fail_settings_save.  The
\* completions of two saves may come in any order: their tasks race.
Complete(s) ==
  /\ Keys /\ req[s].at = "answered" /\ coord.r # s
  /\ req' = [req EXCEPT ![s].at = "delivered"]
  /\ IF req[s].answer.ok
       THEN popup' = Closed /\ app' = Completion(s)
       ELSE /\ popup' = [popup EXCEPT !.visible = TRUE]
            /\ app' = [app EXCEPT !.pending = FALSE]
  /\ UNCHANGED edits

(***************************************************************************)
(* Submission, by a control client or by the task of a save.               *)
(***************************************************************************)
Submitting ==
  UNCHANGED <<liveVars, disk, app, popup, edits, loop, coord>>

\* get_mapping_settings, answered by the event loop.
ReadSettings(c) ==
  /\ Submitting /\ loop = "running"
  /\ req[c].at = "unused"
  /\ req' = [req EXCEPT ![c].at = "read", ![c].expected = Revision]
  /\ UNCHANGED <<cancelled, queue>>

SubmitMutation(c) ==
  /\ Submitting
  /\ req[c].at = "read"
  /\ \E t \in Tags : req' = [req EXCEPT ![c].at = "submitting",
                                        ![c].want = {t}]
  /\ UNCHANGED <<cancelled, queue>>

\* A client disconnects or its deadline passes.
Cancel(c) ==
  /\ Submitting
  /\ req[c].at \in {"submitting", "queued", "active"} /\ c \notin cancelled
  /\ cancelled' = cancelled \union {c}
  /\ UNCHANGED <<req, queue>>

Answered(r, answer) ==
  req' = [req EXCEPT ![r].at = "answered", ![r].answer = answer]

\* SettingsTransactionClient::submit waits for a slot of the channel, for its
\* token, or for the end of the coordinator.
Enqueue(r) ==
  /\ Submitting
  /\ req[r].at = "submitting"
  /\ \/ /\ coord.at # "stopped" /\ Len(queue) < QueueCapacity
        /\ queue' = Append(queue, r)
        /\ req' = [req EXCEPT ![r].at = "queued"]
     \/ /\ Cancelled(r) \/ coord.at = "stopped"
        /\ Answered(r, Failed) /\ UNCHANGED queue
  /\ UNCHANGED cancelled

(***************************************************************************)
(* The coordinator.                                                        *)
(***************************************************************************)
Coordinating == UNCHANGED <<app, popup, edits, loop, liveVars>>

Goto(at) == coord' = [coord EXCEPT !.at = at]

\* Receive the next request and ask the event loop to begin.
Take ==
  /\ Coordinating
  /\ coord.at = "idle" /\ queue # <<>>
  /\ coord' = [at |-> "begin", r |-> Head(queue), base |-> {},
               candidate |-> {}, revision |-> 0]
  /\ queue' = Tail(queue)
  /\ req' = [req EXCEPT ![Head(queue)].at = "active"]
  /\ UNCHANGED <<disk, cancelled>>

\* The coordinator sees the shutdown token and cancels what it executes.
NoticeShutdownIdle ==
  /\ Coordinating
  /\ Shutdown /\ coord.r \notin cancelled
  /\ cancelled' = cancelled \union {coord.r}
  /\ UNCHANGED <<disk, req, queue, coord>>

NoticeShutdown ==
  /\ Coordinating
  /\ Shutdown /\ coord.at \notin {"idle", "stopped"} /\ coord.r \notin cancelled
  /\ cancelled' = cancelled \union {coord.r}
  /\ UNCHANGED <<disk, req, queue, coord>>

\* request_admission gives up before the command is queued.
GiveUpBegin ==
  /\ Coordinating
  /\ coord.at = "begin" /\ (Cancelled(coord.r) \/ loop = "closed")
  /\ Answered(coord.r, Failed)
  /\ Goto("replied")
  /\ UNCHANGED <<disk, cancelled, queue>>

\* The candidate settings, derived from the ones Begin handed over.
CandidateReplaces(r, base) == req[r].want

Candidate(r, base) ==
  IF r \in Saves THEN req[r].want ELSE base \union req[r].want

\* A worker step that fails, or is cancelled, sends Abort.  A cancelled worker
\* may also have finished first, until begin_commit.  (A save was validated by
\* the popup: only a change can fail, in its compilation or in a file.)
Fails(at) ==
  LET r == coord.r
  IN
  /\ coord.at = at
  /\ \/ Cancelled(r)
     \/ MayFail /\ at = "compiled"
     \/ MayFail /\ at = "admitted" /\ (r \in Clients \/ req[r].want # coord.base)
  /\ Goto("abort") /\ UNCHANGED disk

\* apply_mapping_mutation_owned or the draft as it is, and the compiled policy
\* unless nothing changes.
CompileCandidate ==
  /\ coord.at = "admitted"
  /\ LET candidate == Candidate(coord.r, coord.base)
     IN  coord' = [coord EXCEPT
                     !.candidate = candidate,
                     !.at = IF candidate = coord.base THEN "finalize"
                                                      ELSE "compiled"]
  /\ UNCHANGED disk

\* SettingsCommitter::prepare writes the temporary file.
Prepare == coord.at = "compiled" /\ Goto("prepared") /\ UNCHANGED disk

\* begin_commit: the last look at the token.
BeginCommit ==
  /\ coord.at = "prepared" /\ ~Cancelled(coord.r)
  /\ Goto("committing") /\ UNCHANGED disk

RenameThenLook ==
  /\ coord.at = "committing"
  /\ disk' = IF Persistent THEN coord.candidate ELSE disk
  /\ Goto(IF Cancelled(coord.r) THEN "abort" ELSE "finalize")

\* commit_to_completion renames the file, whatever is cancelled meanwhile.
Rename ==
  /\ coord.at = "committing"
  /\ disk' = IF Persistent THEN coord.candidate ELSE disk
  /\ Goto("finalize")

RenameFails ==
  /\ coord.at = "committing" /\ MayFail
  /\ Goto("abort") /\ UNCHANGED disk

Work ==
  /\ Coordinating /\ UNCHANGED <<cancelled, req, queue>>
  /\ \/ CompileCandidate \/ Prepare \/ BeginCommit \/ Rename \/ RenameFails
     \/ \E at \in {"admitted", "compiled", "prepared"} : Fails(at)

\* Send the answer; on shutdown the requests still queued are refused.
Reply ==
  /\ Coordinating
  /\ coord.at = "replied"
  /\ coord' = [coord EXCEPT !.at = "idle", !.r = NoRequest]
  /\ UNCHANGED <<disk, cancelled, req, queue>>

StopAndForget ==
  /\ Coordinating
  /\ Shutdown /\ coord.at = "idle"
  /\ coord' = [coord EXCEPT !.at = "stopped"]
  /\ queue' = <<>>
  /\ UNCHANGED <<disk, cancelled, req>>

StopCoordinator ==
  /\ Coordinating
  /\ Shutdown /\ coord.at = "idle"
  /\ coord' = [coord EXCEPT !.at = "stopped"]
  /\ queue' = <<>>
  /\ req' = [r \in Requests |->
               IF req[r].at = "queued"
                 THEN [req[r] EXCEPT !.at = "answered"] ELSE req[r]]
  /\ UNCHANGED <<disk, cancelled>>

(***************************************************************************)
(* The commands of the coordinator, executed by the event loop: in run_loop*)
(* or, after it, in drain_pending_settings_transaction.                    *)
(***************************************************************************)
Serving(at) ==
  /\ coord.at = at
  /\ loop = "running" \/ (loop = "draining" /\ tx # NoRequest)
  /\ UNCHANGED <<disk, edits, loop, cancelled, queue>>

\* check_settings_admission
Admissible(r) ==
  /\ r \in Clients => /\ req[r].expected = Revision
                      /\ ~Dirty /\ ~app.pending
  /\ tx = NoRequest

HandleBegin ==
  LET r == coord.r
  IN
  /\ Serving("begin")
  /\ IF ~Cancelled(r) /\ Admissible(r)
       THEN /\ tx' = r
            /\ app' = [app EXCEPT !.pending = TRUE]
            /\ coord' = [coord EXCEPT !.at = "admitted", !.base = Live,
                                      !.revision = Revision]
            /\ UNCHANGED req
       ELSE Answered(r, Failed) /\ Goto("replied") /\ UNCHANGED <<tx, app>>
  /\ UNCHANGED <<history, author, popup>>

\* The policy, the settings and the revision are replaced before the App is
\* asked; when the App refuses, the transaction stays pending.
HandleFinalize ==
  LET r       == coord.r
      changed == coord.candidate # coord.base
      refused == changed /\ r \in Clients /\ Dirty
  IN
  /\ Serving("finalize") /\ tx = r
  /\ IF changed
       THEN history' = Append(history, coord.candidate) /\ author' = Append(author, r)
       ELSE UNCHANGED <<history, author>>
  /\ IF refused
       THEN Answered(r, Failed) /\ UNCHANGED <<tx, app, popup>>
       ELSE /\ tx' = NoRequest
            /\ app' = IF changed
                        THEN [settings |-> coord.candidate, pending |-> FALSE,
                              revision |-> Revision + 1]
                        ELSE [app EXCEPT !.pending = FALSE]
            /\ popup' = IF changed /\ popup.visible /\ ~Dirty
                          THEN Opened(coord.candidate) ELSE popup
            /\ Answered(r, [ok |-> TRUE, changed |-> changed,
                            settings |-> coord.candidate,
                            revision |-> coord.revision +
                                           (IF changed THEN 1 ELSE 0)])
  /\ Goto("replied")

HandleAbort ==
  /\ Serving("abort") /\ tx = coord.r
  /\ tx' = NoRequest
  /\ app' = [app EXCEPT !.pending = FALSE]
  /\ Answered(coord.r, Failed)
  /\ Goto("replied")
  /\ UNCHANGED <<history, author, popup>>

Quit ==
  /\ MayQuit /\ loop = "running" /\ loop' = "draining"
  /\ UNCHANGED <<liveVars, disk, app, popup, edits, cancelled, req, queue, coord>>

\* close_control_ingress, once nothing is pending.
CloseIngress ==
  /\ loop = "draining" /\ tx = NoRequest /\ loop' = "closed"
  /\ UNCHANGED <<liveVars, disk, app, popup, edits, cancelled, req, queue, coord>>

EventLoop == HandleBegin \/ HandleFinalize \/ HandleAbort \/ CloseIngress

Coordinator ==
  Take \/ NoticeShutdown \/ GiveUpBegin \/ Work \/ Reply \/ StopCoordinator

Next ==
  \/ OpenPopup \/ Edit \/ CloseKey
  \/ \E s \in Saves : SaveKey(s) \/ Complete(s)
  \/ \E c \in Clients : ReadSettings(c) \/ SubmitMutation(c) \/ Cancel(c)
  \/ \E r \in Requests : Enqueue(r)
  \/ Coordinator \/ EventLoop \/ Quit

Spec == Init /\ [][Next]_vars

(***************************************************************************)
(* Fairness: both tasks are polled while they have something to do, and    *)
(* the submitters and completions are never starved.                       *)
(***************************************************************************)
FairSpec ==
  /\ Spec /\ WF_vars(Coordinator) /\ WF_vars(EventLoop)
  /\ \A r \in Requests : WF_vars(Enqueue(r))
  /\ \A s \in Saves : WF_vars(Complete(s))

(***************************************************************************)
(* Properties.                                                             *)
(***************************************************************************)

\* A transaction nobody will end: it was committed and is still pending.
Stranded == \E i \in 1..Len(author) : author[i] = tx

\* What AppRuntime holds as pending is the transaction the coordinator is
\* executing, from Begin to its terminal command, over cancellation and
\* shutdown: neither side forgets the other (a refused Finalize aside).
TransactionOwned ==
  /\ coord.at \in Admitted => tx = coord.r
  /\ tx # NoRequest => Stranded \/ coord.at \in Admitted

\* What is compiled, written and committed was derived from the settings that
\* are live when it becomes live, and a mapping mutation from the revision
\* its client named: no commit of the popup slips between admission and
\* finalization.
CommitOnLatest ==
  coord.at \in Admitted =>
    /\ coord.base = Live /\ coord.revision = Revision
    /\ coord.r \in Clients => req[coord.r].expected = Revision

\* A transaction has one owner and one base: what is committed was derived from
\* what is live, and nobody is left holding a transaction that ended.
TransactionsAreCurrent == TransactionOwned /\ CommitOnLatest

\* The file holds the live settings: what was renamed is always finalized,
\* whatever is cancelled and also when the process shuts down in between, and
\* the other configuration modes never write it.
DiskMatchesLive ==
  IF Persistent
    THEN disk = IF coord.at = "finalize" THEN coord.candidate ELSE Live
    ELSE disk = Loaded

\* A success is what it says: the revision it names holds the settings that
\* were asked for, and was made by this request if it says "committed".
AnswersAreTrue ==
  \A r \in Requests :
    LET a == req[r].answer
    IN  a.ok =>
          /\ a.revision \in 1..Revision /\ history[a.revision] = a.settings
          /\ a.changed => author[a.revision - 1] = r
          /\ IF r \in Saves THEN a.settings = req[r].want
                            ELSE req[r].want \subseteq a.settings

\* Whoever owns the transaction, what it commits is derived from what is live,
\* and disk, live settings and what the clients were told agree.
CommitsAreTrue == TransactionsAreCurrent /\ DiskMatchesLive /\ AnswersAreTrue

\* The settings are a versioned register: every commit of a client extends
\* the revision it read (VersionedSettings).
Register == INSTANCE VersionedSettings WITH
  Writers <- Clients, read <- [c \in Clients |-> req[c].expected]

CommitsAreVersioned ==
  /\ Register!registerInit(Loaded)
  /\ [][Register!registerNext(coord.r \in Saves)]_history

\* Every request that was submitted is answered: neither cancellation, a full
\* queue, a stranded transaction nor shutdown leaves its caller waiting.
EveryRequestAnswered ==
  \A r \in Requests :
    req[r].at = "submitting" ~> req[r].at \in {"answered", "delivered"}

\* The lock on the editor is released again.
EditorUnlocks == app.pending ~> ~app.pending \/ Shutdown \/ Stranded

\* Shutdown waits for the transaction that is being committed, and for nothing
\* else; only a stranded one keeps it from ending.
DrainEnds == Shutdown ~> loop = "closed" \/ Stranded

\* Whoever waits for a transaction is let go: the client that asked for it, the
\* user whose editor is locked while it is pending, and the process that ends.
NobodyWaitsForEver == EveryRequestAnswered /\ EditorUnlocks /\ DrainEnds

(***************************************************************************)
(* Claims of the documentation that the code does not keep.                *)
(***************************************************************************)

\* "settings_revision: per-run optimistic concurrency token ... incremented
\* after every successful TUI or RPC settings commit": the one App reports in
\* a status never goes back.  finish_settings_save installs the settings and
\* the revision of its own save, also when a later commit came first.
ReportedRevisionNeverReverts == [][app'.revision >= app.revision]_vars

\* "dirty TUI drafts cannot be overwritten": a draft that differs from what
\* was saved is still there after the completion of the save.
DirtyDraftSurvivesCompletion ==
  [][\A s \in Saves :
       (/\ req[s].at = "answered" /\ req'[s].at = "delivered"
        /\ popup.visible /\ Dirty /\ popup.value # req[s].want)
         => popup'.visible /\ popup'.value = popup.value]_vars

\* "MCP writes are rejected while the target TUI settings popup has unsaved
\* changes": no client commits over a dirty draft.  A late fail_settings_save
\* unlocks the editor during a client's transaction, and HandleFinalize looks
\* at the draft only after it has replaced the live settings.
ClientsNeverCommitOverADraft ==
  [][\A c \in Clients : author' = Append(author, c) => ~Dirty]_vars

\* "Owns the persisted baseline and the one editable settings copy": what the
\* open popup edits started as settings of this run.  A late
\* fail_settings_save reopens a popup that close() has reset to the defaults.
DraftStartsFromSettings ==
  popup.visible => \E i \in 1..Revision : popup.base = history[i]
=============================================================================
