--------------------------- MODULE SettingsEditor ---------------------------
(* The settings document between its two editors.  The live document and   *)
(* the policy compiled from it belong to the event loop; the popup edits a *)
(* draft of it and saves it; the mapping tools of the control service      *)
(* apply one mutation each.  A change is a transaction that locks the      *)
(* popup until it is finalized; a save also reports to the popup           *)
(* afterwards.  How transactions race and persist is SettingsTransactions. *)
EXTENDS SettingsPopup, RequestPolicy

CONSTANTS
  StartDocs,  \* the documents the program starts with
  Mutations,  \* the mutations the control service is asked for
  Urls,       \* the URLs requests and explanations are about
  MaxEdits    \* bound: changes of the draft and mutations

ASSUME EditorAssumption ==
  /\ StartDocs \union {DefaultDoc} \subseteq Documents /\ ValidProxy(DefaultDoc.proxy)
  /\ \A m \in Mutations : IsMutation(m)
  /\ TypedNames \union {DefaultName} \subseteq Names /\ FreshNames \in Seq(Names)
  /\ ~IsBlank(DefaultName) /\ DefaultName = Trim(DefaultName)
  /\ \A i \in DOMAIN FreshNames :
       ~IsBlank(FreshNames[i]) /\ Trim(FreshNames[i]) # DefaultName
  /\ TypedTexts \subseteq RuleTexts /\ AddedRule \in [Tables -> RuleRecords]
  /\ Globs \union {AddedGlob} \union Words \union Ports \subseteq STRING
  /\ PageRows \in Nat /\ MaxVisible \in Nat \ {0} /\ MaxEdits \in Nat

VARIABLES
  live,     \* the settings document in force
  policy,   \* the request policy in force
  tx,       \* the transaction under way, as an option: [origin, doc]
  txPending, \* App.settings_transaction_pending
  reports,  \* the saves that ended and are not reported to the popup yet
  edits     \* changes of the draft and mutations so far

editorVars == <<popup, live, policy, tx, txPending, reports, edits>>
liveVars == <<live, policy>>

EditorTypeOK ==
  /\ popup \in Popups /\ live \in Documents
  /\ tx \in Options([origin : {"tui", "mcp"}, doc : Documents])
  /\ txPending \in BOOLEAN
  /\ reports \in Options([ok : BOOLEAN, doc : Documents])
  /\ edits \in 0..MaxEdits

ValidDoc(doc) == doc.port # "0" /\ ValidProxy(doc.proxy)

EditorInit ==
  /\ live \in StartDocs
  /\ policy = Compile(live)
  /\ popup = Closed
  /\ tx = << >>
  /\ txPending = FALSE
  /\ reports = << >>
  /\ edits = 0

(* Bound: what a key or click changes in the draft is counted; when the   *)
(* edits are used up the user only leaves what is edited, and saves.       *)
Counted ==
  /\ edits' = edits + (IF popup'.draft = popup.draft \/ ~popup'.visible THEN 0 ELSE 1)
  /\ edits = MaxEdits => ~popup'.visible \/ popup'.mode.kind \in {"browse", "unsaved"}

Open ==
  /\ ~popup.visible
  /\ popup' = Opened(live)
  /\ UNCHANGED <<live, policy, tx, txPending, reports, edits>>

Use ==
  /\ ~txPending
  /\ IF edits < MaxEdits THEN Key \/ Click ELSE Leave
  /\ Counted
  /\ UNCHANGED <<live, policy, tx, txPending, reports>>

(* While a transaction is pending only navigation is left, and the topics  *)
(* can be clicked.                                                         *)
UseLocked ==
  /\ txPending
  /\ edits < MaxEdits
  /\ \/ BrowseMove
     \/ /\ popup.visible
        /\ popup.mode.kind \in {"browse", "rules", "patterns"}
        /\ \E topic \in Topics :
             popup' = [SelectTopic(popup, topic) EXCEPT !.focus = "topics"]
  /\ UNCHANGED <<live, policy, tx, txPending, reports, edits>>

(* `s` on the rows, or the answer of the dialog: a draft that is not valid  *)
(* is kept, a valid one is queued and its transaction begun in the same    *)
(* turn.  Bound: a save is reported before the next change; changes that    *)
(* overlap are the subject of SettingsTransactions.                        *)
Save ==
  /\ ~txPending
  /\ tx = << >> /\ reports = << >>
  /\ In("browse") \/ In("unsaved")
  /\ IF ValidDoc(popup.draft)
     THEN /\ tx' = <<[origin |-> "tui", doc |-> popup.draft]>>
          /\ txPending' = TRUE
          /\ UNCHANGED popup
     ELSE /\ popup' = [popup EXCEPT !.mode = Browse]
          /\ UNCHANGED <<tx, txPending>>
  /\ UNCHANGED <<live, policy, reports, edits>>

(* A mutation of the control service: refused while a transaction is       *)
(* pending or the draft has changes, when it is rejected and when the      *)
(* result does not compile; one without an effect begins nothing.          *)
Mutate ==
  /\ ~txPending
  /\ tx = << >> /\ reports = << >>
  /\ ~Dirty(popup)
  /\ edits < MaxEdits
  /\ \E m \in Mutations : \E result \in {Mutated(live.proxy, m)} :
       /\ result.ok /\ result.changed /\ Compiles([live EXCEPT !.proxy = result.proxy])
       /\ tx' = <<[origin |-> "mcp", doc |-> [live EXCEPT !.proxy = result.proxy]]>>
  /\ txPending' = TRUE
  /\ edits' = edits + 1
  /\ UNCHANGED <<popup, live, policy, reports>>

Reported(outcome) ==
  reports' = IF tx[1].origin = "tui" THEN Append(reports, [ok |-> outcome, doc |-> tx[1].doc])
             ELSE reports

(* The commit installs document and policy together, unlocks the popup and *)
(* opens it anew when it has no change to lose.                            *)
Finalize ==
  /\ tx # << >>
  /\ tx[1].doc = live \/ Compiles(tx[1].doc)
  /\ live' = tx[1].doc
  /\ policy' = IF tx[1].doc = live THEN policy ELSE Compile(tx[1].doc)
  /\ popup' = IF tx[1].doc # live /\ popup.visible /\ ~Dirty(popup)
              THEN Opened(tx[1].doc) ELSE popup
  /\ txPending' = FALSE
  /\ tx' = << >>
  /\ Reported(TRUE)
  /\ UNCHANGED edits

(* The document does not compile, or is not written. *)
Abort ==
  /\ tx # << >>
  /\ txPending' = FALSE
  /\ tx' = << >>
  /\ Reported(FALSE)
  /\ UNCHANGED <<popup, live, policy, edits>>

(* The end of a save reaches the popup: it closes, or shows the error. *)
Report ==
  /\ reports # << >>
  /\ popup' = IF Head(reports).ok THEN Closed
              ELSE [popup EXCEPT !.mode = Browse, !.visible = TRUE]
  /\ txPending' = FALSE
  /\ reports' = Tail(reports)
  /\ UNCHANGED <<live, policy, tx, edits>>

EditorNext == Open \/ Use \/ UseLocked \/ Save \/ Mutate \/ Finalize \/ Abort \/ Report

EditorSpec == EditorInit /\ [][EditorNext]_editorVars

(*-------------------------------- properties ------------------------------*)

(* The rule of a table a URL should meet, 0 for none: the last one that is *)
(* enabled, valid and names its whole path, or else its origin alone.      *)
Meets(name, rules, url, path) ==
  {k \in DOMAIN rules :
     /\ rules[k].enable
     /\ ValidFields(name, rules[k])
     /\ rules[k].from.origin = url.origin
     /\ rules[k].from.path = path}

LastOf(whole, origin) == Max({0} \union IF whole # {} THEN whole ELSE origin)

WantedRule(px, i, name, url) ==
  IF i = 0 THEN 0
  ELSE IF ~px[1].presets[i][name].enable THEN 0
  ELSE LastOf(Meets(name, px[1].presets[i][name].rules, url, url.path),
              Meets(name, px[1].presets[i][name].rules, url, ""))

WantedOf(px, i, table, index) ==
  IF index = 0 THEN << >> ELSE <<px[1].presets[i][table].rules[index].to>>

RuleName(i, table, index) ==
  IF index = 0 THEN << >> ELSE <<[preset |-> i, table |-> table, index |-> index]>>

WantedLocal(px, i, remote, met, local) ==
  [remote |-> IF remote = 0 THEN << >> ELSE <<met>>,
   local |-> WantedOf(px, i, "local", local),
   rules |-> RuleName(i, "remote", remote) \o RuleName(i, "local", local)]

WantedMet(px, i, remote, met) ==
  WantedLocal(px, i, remote, met, WantedRule(px, i, "local", met))

WantedFrom(px, i, url, remote) ==
  WantedMet(px, i, remote, IF remote = 0 THEN url
                           ELSE ApplyTo(WantedOf(px, i, "remote", remote)[1], url))

Wanted(px, i, url) == WantedFrom(px, i, url, WantedRule(px, i, "remote", url))

WantedMatches(px, url) == Wanted(px, CompiledPreset(px), url)

WantedRecord(prefilter, url) ==
  \/ ~prefilter.enable
  \/ prefilter.patterns = << >>
  \/ \E glob \in Enabled(prefilter.patterns) \ BadGlobs :
       Matches[glob] \cap ({url} \union Alternates(url)) # {}

AgreeOn(doc, effective, wanted, outcome, explained) ==
  /\ outcome.decision = [mapped |-> wanted.remote, local |-> wanted.local]
  /\ outcome.included = WantedRecord(doc.prefilter, effective)
  /\ explained.matches = wanted.rules
  /\ explained.local = wanted.local
  /\ explained.effective \in {effective} \union Alternates(effective)

AgreeWith(doc, url, wanted, outcome, explained) ==
  AgreeOn(doc, IF wanted.remote = << >> THEN url ELSE wanted.remote[1],
          wanted, outcome, explained)

Agree(doc, compiled) ==
  \A url \in Urls :
    AgreeWith(doc, url, WantedMatches(doc.proxy, url), Evaluate(compiled, url, TRUE),
              Explain(doc.proxy, url))

(* What the proxy does with a request, and what the mapping tools explain  *)
(* of it, is at all times what the document in force says: the last rule   *)
(* that is enabled and valid counts, a whole path goes before an origin,   *)
(* and the local table is asked about the URL the remote one made.         *)
PolicyFollowsDocument ==
  /\ Agree(live, policy)
  /\ [][liveVars' # liveVars => Agree(live', policy')]_editorVars

WellFormed(px) ==
  \/ px = << >>
  \/ /\ DistinctNames(px[1].presets)
     /\ \A i \in DOMAIN px[1].presets : ValidRules(px[1].presets[i])

(* Names stay distinct and rules valid whichever editor changes the        *)
(* document; and a draft that was opened from a document that can be saved *)
(* can be saved after every edit, whatever was typed.                      *)
EditsKeepItValid ==
  /\ [](ValidDoc(popup.original) => ValidDoc(popup.draft))
  /\ [](WellFormed(popup.original.proxy) => WellFormed(popup.draft.proxy))
  /\ [][WellFormed(live.proxy) => WellFormed(live'.proxy)]_liveVars

(* The list `before` became `after` by one change of the element at `at`,  *)
(* which is now at `to`, or by one element more or less there.             *)
ChangedAt(before, after, at, to) ==
  CASE Len(after) = Len(before) + 1 -> RemoveAt(after, to) = before
    [] Len(after) = Len(before) ->
         \E i \in {at, to} : RemoveAt(before, i) = RemoveAt(after, to)
    [] OTHER -> after = RemoveAt(before, at)

(* Every cursor is on something that exists, or on the first place of what *)
(* is empty: the row, the rule or pattern that is edited in place, the     *)
(* item the select would commit.  A pattern is moved up without a check.   *)
CursorsInBounds ==
  LET mode == popup.mode IN
  /\ popup.topic \in Topics
  /\ popup.visible => popup.row \in DOMAIN RowsOf(popup)
  /\ mode.kind \in {"rules", "patterns"} =>
       LET list == IF mode.kind = "rules" THEN Rules(popup, mode.table) ELSE Patterns(popup) IN
       mode.index = 1 \/ mode.index \in DOMAIN list
  /\ mode.kind = "rule" => mode.index \in DOMAIN Rules(popup, mode.table)
  /\ mode.kind = "pattern" => mode.index \in DOMAIN Patterns(popup)
  /\ mode.kind = "select" => InWindow(mode.box, Items(popup.draft.proxy))

(* What the user does in a table happens to the rule or pattern under a    *)
(* cursor that is on one, and the cursor is on it afterwards; the others   *)
(* keep their order.                                                       *)
CursorFollowsTheRule ==
  /\ []CursorsInBounds
  /\ [][LET before == popup.mode
         after == popup'.mode IN
     /\ before.kind \in {"rules", "rule"} /\ after.kind = "rules" /\ before.table = after.table
          => LET table == Rules(popup, before.table)
                 next == Rules(popup', before.table) IN
             next # table => ChangedAt(table, next, before.index, after.index)
     /\ before.kind = "patterns" /\ after.kind = "patterns" /\ Patterns(popup') # Patterns(popup)
          => ChangedAt(Patterns(popup), Patterns(popup'), before.index, after.index)]_popup

View(px) ==
  [presets |-> IF Virtual(px) THEN <<DefaultPreset>> ELSE px[1].presets,
   shown |-> IF Virtual(px) THEN 1 ELSE ActiveIndex(px),
   enable |-> MappingShown(px)]

ActiveIsTrimmed(px) ==
  \/ px = << >>
  \/ px[1].active = << >>
  \/ px[1].active[1] = Trim(px[1].active[1])

(* An edit that changes nothing the user sees, because it was refused or   *)
(* set what was set, leaves the draft as it was: the preset that is only   *)
(* shown does not get into the file.                                       *)
UnseenIsUnsaid ==
  [][popup.visible /\ popup'.visible /\ popup'.original = popup.original
       /\ ActiveIsTrimmed(popup.draft.proxy)
       /\ View(popup'.draft.proxy) = View(popup.draft.proxy)
       => popup'.draft.proxy = popup.draft.proxy]_popup
=============================================================================
