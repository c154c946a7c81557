---------------------------- MODULE MappingTools ----------------------------
(* The mapping tools as a client meets them.  It reads a view of the rules, *)
(* names a preset and the position of a rule it was shown, looks at a       *)
(* preview and sends the change; meanwhile the document changes elsewhere,  *)
(* and a reply may be lost and the call sent again.  On the wire positions  *)
(* count from 0 and an optional field is a sequence of at most one; what a  *)
(* mutation does to the document is MappingDocument.                        *)
EXTENDS RequestPolicy

CONSTANTS
  ToolDocs,        \* the documents an instance starts with
  ReadScopes,      \* what views are asked for: [preset, table], both optional
  Operations,      \* what the tools are asked to do
  Elsewhere,       \* the mutations that come from the popup or another client
  Probes,          \* the lists of URLs a preview explains
  NotAUrl,         \* a text that is no absolute http or https URL
  MaxPreviewUrls,  \* MAX_PREVIEW_URLS
  MaxProjection,   \* RESPONSE_MAX_BYTES, in presets and rules
  Shortened,       \* what is left of the names too long for the audit
  MaxToolCalls,    \* bound: calls of the client
  MaxElsewhere     \* bound: transactions of others

(* What the tools take. *)
RuleInputs == [from : RuleTexts, to : RuleTexts, enabled : Options(BOOLEAN)]
TableInputs == [enabled : Options(BOOLEAN), rules : Seq(RuleInputs)]
Bodies == [remote : TableInputs, local : TableInputs]
GateInputs == [kind : {"global"}] \union [kind : {"table"}, preset : Names, table : Tables]

OperationsOf(tool) ==
  CASE tool = "create_preset" -> [tool : {tool}, name : Names, initial : Options(Bodies)]
    [] tool = "rename_preset" -> [tool : {tool}, name : Names, newName : Names]
    [] tool = "delete_preset" -> [tool : {tool}, name : Names]
    [] tool = "set_active_preset" -> [tool : {tool}, active : Options(Names)]
    [] tool = "set_mapping_gate" -> [tool : {tool}, gate : GateInputs, enabled : BOOLEAN]
    [] tool = "create_mapping_rule" ->
         [tool : {tool}, preset : Names, table : Tables, index : Options(Nat), rule : RuleInputs]
    [] tool = "update_mapping_rule" ->
         [tool : {tool}, preset : Names, table : Tables, index : Nat,
          from : RuleTexts, to : RuleTexts]
    [] tool = "delete_mapping_rule" ->
         [tool : {tool}, preset : Names, table : Tables, index : Nat]
    [] tool = "move_mapping_rule" ->
         [tool : {tool}, preset : Names, table : Tables, from : Nat, to : Nat]
    [] tool = "set_mapping_rule_enabled" ->
         [tool : {tool}, preset : Names, table : Tables, index : Nat, enabled : BOOLEAN]

PresetTools == {"create_preset", "rename_preset", "delete_preset", "set_active_preset",
                "set_mapping_gate"}
RuleTools == {"create_mapping_rule", "update_mapping_rule", "delete_mapping_rule",
              "move_mapping_rule", "set_mapping_rule_enabled"}

ToolDocuments ==
  [proxy : Proxies,
   prefilter : [enable : BOOLEAN, patterns : Seq([pattern : STRING, enable : BOOLEAN])]]

ASSUME ToolsAssumption ==
  /\ ToolDocs \subseteq ToolDocuments
  /\ ReadScopes \subseteq [preset : Options(Names), table : Options(Tables)]
  /\ \A op \in Operations : op.tool \in PresetTools \union RuleTools /\ op \in OperationsOf(op.tool)
  /\ \A m \in Elsewhere : IsMutation(m)
  /\ Plain("") \in Names
  /\ {MaxPreviewUrls, MaxProjection, MaxToolCalls, MaxElsewhere} \subseteq Nat

VARIABLES
  revisions,  \* the documents so far, the last one in force
  makers,     \* the calls that made the revisions after the first; Others
  editor,     \* idle, or what stands in the way: draft, busy, pending
  call,       \* the call under way, or the last one
  basis,      \* the revision of the last view the client was given, or 0
  preview,    \* the last preview it was given, as an option
  audit,      \* the last mutation of the audit, as an option
  spent       \* calls of the client and transactions of others so far

toolVars == <<revisions, makers, editor, call, basis, preview, audit, spent>>

(*------------------------------- the inputs -------------------------------*)

Others == [id |-> 0]

(* An absent `enabled` means enabled. *)
Defaulted(enabled) == enabled = << >> \/ enabled = <<TRUE>>

RuleFrom(input) == [from |-> input.from, to |-> input.to, enable |-> Defaulted(input.enabled)]

TableFrom(input) ==
  [enable |-> Defaulted(input.enabled),
   rules |-> [i \in DOMAIN input.rules |-> RuleFrom(input.rules[i])]]

PresetFrom(name, body) ==
  [name |-> name, remote |-> TableFrom(body.remote), local |-> TableFrom(body.local)]

ProxyFrom(input) ==
  [enable |-> Defaulted(input.enabled),
   active |-> input.active,
   presets |-> [i \in DOMAIN input.presets |->
                  PresetFrom(input.presets[i].name, input.presets[i])]]

InitialFrom(body) ==
  IF body = << >> THEN Preset(Plain(""), TRUE) ELSE PresetFrom(Plain(""), body[1])

CreateMutation(op) == [op |-> "create", name |-> op.name, initial |-> InitialFrom(op.initial)]
RenameMutation(op) == [op |-> "rename", name |-> op.name, newName |-> op.newName]
DeleteMutation(op) == [op |-> "delete", name |-> op.name]
ActivateMutation(op) == [op |-> "activate", name |-> op.active]

GateMutation(op) ==
  IF op.gate.kind = "global" THEN [op |-> "enable", enabled |-> op.enabled]
  ELSE [op |-> "enable_table", preset |-> op.gate.preset, table |-> op.gate.table,
        enabled |-> op.enabled]

Positioned(index) == IF index = << >> THEN << >> ELSE <<index[1] + 1>>

CreateRuleMutation(op) ==
  [op |-> "insert_rule", preset |-> op.preset, table |-> op.table,
   index |-> Positioned(op.index), rule |-> RuleFrom(op.rule)]
UpdateRuleMutation(op) ==
  [op |-> "update_rule", preset |-> op.preset, table |-> op.table, index |-> op.index + 1,
   from |-> op.from, to |-> op.to]
DeleteRuleMutation(op) ==
  [op |-> "delete_rule", preset |-> op.preset, table |-> op.table, index |-> op.index + 1]

(* A bug: `to` is taken for a position before the rule is moved. *)
MoveBefore(op) ==
  [op |-> "move_rule", preset |-> op.preset, table |-> op.table, from |-> op.from + 1,
   to |-> IF op.to > op.from THEN op.to ELSE op.to + 1]

MoveRuleMutation(op) ==
  [op |-> "move_rule", preset |-> op.preset, table |-> op.table, from |-> op.from + 1,
   to |-> op.to + 1]
EnableRuleMutation(op) ==
  [op |-> "enable_rule", preset |-> op.preset, table |-> op.table, index |-> op.index + 1,
   enabled |-> op.enabled]

PresetMutation(op) ==
  CASE op.tool = "create_preset" -> CreateMutation(op)
    [] op.tool = "rename_preset" -> RenameMutation(op)
    [] op.tool = "delete_preset" -> DeleteMutation(op)
    [] op.tool = "set_active_preset" -> ActivateMutation(op)
    [] op.tool = "set_mapping_gate" -> GateMutation(op)

RuleMutation(op) ==
  CASE op.tool = "create_mapping_rule" -> CreateRuleMutation(op)
    [] op.tool = "update_mapping_rule" -> UpdateRuleMutation(op)
    [] op.tool = "delete_mapping_rule" -> DeleteRuleMutation(op)
    [] op.tool = "move_mapping_rule" -> MoveRuleMutation(op)
    [] op.tool = "set_mapping_rule_enabled" -> EnableRuleMutation(op)

ToMutation(op) == IF op.tool \in RuleTools THEN RuleMutation(op) ELSE PresetMutation(op)

(* The operation of a preview becomes the input of the tool it previews.    *)
InputOf(op, revision) ==
  [field \in DOMAIN op \union {"expected"} |-> IF field = "expected" THEN revision ELSE op[field]]

PreviewedMutation(op, revision) == ToMutation(InputOf(op, revision))

(*------------------------------- the answers ------------------------------*)

PresetRef(name) == [kind |-> "preset", name |-> name]
TableRef(preset, table) == [kind |-> "table", preset |-> preset, table |-> table]
RuleRef(preset, table, index) ==
  [kind |-> "rule", preset |-> preset, table |-> table, index |-> index]

AffectedPlace(m, rules) == RuleRef(Trim(m.preset), m.table, Place(m, rules) - 1)

(* What a mutation acted on; m was accepted. *)
Affected(px, m) ==
  CASE m.op \in {"create", "delete"} -> PresetRef(Trim(m.name))
    [] m.op = "rename" -> [kind |-> "preset_name", name |-> Trim(m.newName)]
    [] m.op = "activate" -> [kind |-> "active_preset"]
    [] m.op = "enable" -> [kind |-> "proxy"]
    [] m.op = "enable_table" -> TableRef(Trim(m.preset), m.table)
    [] m.op = "insert_rule" ->
         AffectedPlace(m, px[1].presets[PresetIndex(px, m.preset)][m.table].rules)
    [] m.op = "move_rule" -> RuleRef(Trim(m.preset), m.table, m.to - 1)
    [] OTHER -> RuleRef(Trim(m.preset), m.table, m.index - 1)

(* What it is declared to act on, before anything is looked up. *)
AuditTarget(m) ==
  CASE m.op \in {"create", "rename", "delete"} -> PresetRef(m.name)
    [] m.op = "activate" -> [kind |-> "active_preset"]
    [] m.op = "enable" -> [kind |-> "proxy"]
    [] m.op = "enable_table" -> TableRef(m.preset, m.table)
    [] m.op = "insert_rule" ->
         IF m.index = << >> THEN TableRef(m.preset, m.table)
         ELSE RuleRef(m.preset, m.table, m.index[1] - 1)
    [] m.op = "move_rule" -> RuleRef(m.preset, m.table, m.from - 1)
    [] OTHER -> RuleRef(m.preset, m.table, m.index - 1)

BoundedName(name) ==
  IF name.text \in DOMAIN Shortened THEN [name EXCEPT !.text = Shortened[@]] ELSE name

(* A reference as the audit keeps it: a long name is cut, and said to be.  *)
Bounded(ref) ==
  CASE "name" \in DOMAIN ref ->
         [target |-> [ref EXCEPT !.name = BoundedName(@)],
          truncated |-> BoundedName(ref.name) # ref.name]
    [] "preset" \in DOMAIN ref ->
         [target |-> [ref EXCEPT !.preset = BoundedName(@)],
          truncated |-> BoundedName(ref.preset) # ref.preset]
    [] OTHER -> [target |-> ref, truncated |-> FALSE]

RuleView(i, rule) ==
  [index |-> i - 1, from |-> rule.from, to |-> rule.to, enabled |-> <<rule.enable>>]

TableView(table, included) ==
  [enabled |-> <<table.enable>>,
   included |-> included,
   omitted |-> IF included THEN 0 ELSE Len(table.rules),
   rules |-> IF included THEN [i \in DOMAIN table.rules |-> RuleView(i, table.rules[i])]
             ELSE << >>]

PresetView(i, preset, table) ==
  [index |-> i - 1,
   name |-> preset.name,
   remote |-> TableView(preset.remote, table # <<"local">>),
   local |-> TableView(preset.local, table # <<"remote">>)]

(* A view is asked for by the name as it is written. *)
InScope(preset, scope) == scope.preset = << >> \/ scope.preset[1] = preset.name

InOrder(S) ==
  CHOOSE s \in [1 .. Cardinality(S) -> S] : \A i, j \in DOMAIN s : i < j => s[i] < s[j]

ScopedIndices(proxy, scope) ==
  InOrder({i \in DOMAIN proxy.presets : InScope(proxy.presets[i], scope)})

ProjectionOf(proxy, scope, indices) ==
  [enabled |-> <<proxy.enable>>,
   active |-> proxy.active,
   scope |-> scope,
   total |-> Len(proxy.presets),
   omitted |-> Len(proxy.presets) - Len(indices),
   presets |-> [k \in DOMAIN indices |->
                  PresetView(indices[k], proxy.presets[indices[k]], scope.table)]]

Projection(proxy, scope) == ProjectionOf(proxy, scope, ScopedIndices(proxy, scope))

ProjectionSize(projection) ==
  FoldLeft(LAMBDA size, preset : size + 1 + Len(preset.remote.rules) + Len(preset.local.rules),
           0, projection.presets)

Refused(why) == [ok |-> FALSE, why |-> why]

(* Without a proxy section the defaults are shown. *)
ProxyOf(px) == IF px = << >> THEN DefaultProxy ELSE px[1]

Viewed(projection) ==
  IF ProjectionSize(projection) > MaxProjection THEN Refused("too large")
  ELSE [ok |-> TRUE, view |-> projection]

Scoped(proxy, scope) ==
  IF scope.preset # << >> /\ \A i \in DOMAIN proxy.presets : ~InScope(proxy.presets[i], scope)
  THEN Refused("no such preset")
  ELSE Viewed(Projection(proxy, scope))

Validation(px) == [gates |-> Gates(px), valid |-> ValidProxy(px)]

(* A text that is no URL is explained as such: it meets no rule. *)
Explained(px, url) ==
  IF url = NotAUrl THEN [validation |-> Validation(px), explanation |-> << >>]
  ELSE [validation |-> Validation(px), explanation |-> <<Explain(px, url)>>]

PreviewOf(doc, m, urls, result) ==
  IF ~result.ok THEN Refused("rejected")
  ELSE IF ~Compiles([doc EXCEPT !.proxy = result.proxy]) THEN Refused("does not compile")
  ELSE [ok |-> TRUE,
        affected |-> Affected(doc.proxy, m),
        changed |-> result.changed,
        validation |-> Validation(result.proxy),
        explanations |-> [i \in DOMAIN urls |-> Explained(result.proxy, urls[i])]]

Previewed(doc, m, urls) == PreviewOf(doc, m, urls, Mutated(doc.proxy, m))

(*-------------------------------- the calls -------------------------------*)

Newest == Len(revisions)
Document == revisions[Newest]

ToolsInit(docs, around) ==
  /\ \E doc \in docs : revisions = <<doc>>
  /\ makers = << >> /\ editor = around /\ call = [at |-> "none"]
  /\ basis = 0 /\ preview = << >> /\ audit = << >>
  /\ spent = [calls |-> 0, elsewhere |-> 0]

(* What the event loop has against a change of the document, as an option. *)
Admission(expected) ==
  IF expected # Newest THEN <<"conflict">>
  ELSE CASE editor = "draft" -> <<"draft">>
         [] editor = "busy" -> <<"pending">>
         [] OTHER -> << >>

MayCall ==
  /\ call.at \in {"none", "answered", "lost"}
  /\ spent.calls < MaxToolCalls
  /\ spent' = [spent EXCEPT !.calls = @ + 1]

(* A read takes the document and its revision together; a worker answers. *)
Snapshot(what, op, expected) ==
  [at |-> "taken", id |-> spent.calls + 1, what |-> what, op |-> op, expected |-> expected,
   taken |-> Newest, answer |-> Refused("no answer")]

GetMappingSettings(scope) ==
  /\ MayCall
  /\ call' = Snapshot("get", scope, Newest)
  /\ UNCHANGED <<revisions, makers, editor, basis, preview, audit>>

IsWhole(v) == v.omitted = 0 /\ v.scope.table = << >>
ViewGiven == call.at = "answered" /\ call.what = "get" /\ call.answer.ok

(* A view of everything is also sent back as a proposal. *)
Proposals ==
  {<< >>} \union (IF ViewGiven /\ IsWhole(call.answer.view) THEN {<<call.answer.view>>} ELSE {})

ExplainMapping(url) ==
  /\ MayCall
  /\ \E proposal \in Proposals :
       call' = Snapshot("explain", [proposal |-> proposal, url |-> url], Newest)
  /\ UNCHANGED <<revisions, makers, editor, basis, preview, audit>>

(* A proposal is checked without looking at what is in force. *)
ValidateMapping ==
  /\ MayCall
  /\ \E proposal \in Proposals \ {<< >>} : call' = Snapshot("validate", proposal[1], Newest)
  /\ UNCHANGED <<revisions, makers, editor, basis, preview, audit>>

Denied(snapshot, why) == [snapshot EXCEPT !.at = "answered", !.answer = Refused(why)]

(* A preview is admitted like the change it previews, and like a read it   *)
(* holds nothing.                                                          *)
PreviewMutation(op, urls) ==
  /\ basis # 0
  /\ MayCall
  /\ \E snapshot \in {Snapshot("preview", [op |-> op, urls |-> urls], basis)} :
       call' = IF Len(urls) > MaxPreviewUrls THEN Denied(snapshot, "too many URLs")
               ELSE IF Admission(snapshot.expected) # << >>
               THEN Denied(snapshot, Admission(snapshot.expected)[1])
               ELSE snapshot
  /\ UNCHANGED <<revisions, makers, editor, basis, preview, audit>>

ExplainedFor(op, doc) ==
  [ok |-> TRUE,
   explained |-> Explained(IF op.proposal = << >> THEN doc.proxy
                           ELSE <<ProxyFrom(op.proposal[1])>>, op.url)]

AnswerTo(asked, doc) ==
  CASE asked.what = "get" -> Scoped(ProxyOf(doc.proxy), asked.op)
    [] asked.what = "validate" -> [ok |-> TRUE, validation |-> Validation(<<ProxyFrom(asked.op)>>)]
    [] asked.what = "explain" -> ExplainedFor(asked.op, doc)
    [] asked.what = "preview" ->
         Previewed(doc, PreviewedMutation(asked.op.op, asked.expected), asked.op.urls)

(* The worker answers for the document that was taken, whatever is in force *)
(* by then.                                                                *)
Told(answer) ==
  /\ call' = [call EXCEPT !.at = "answered", !.answer = answer]
  /\ basis' = IF call.what = "get" /\ answer.ok THEN call.taken ELSE basis
  /\ preview' = CASE call.what = "preview" ->
                       <<[revision |-> call.taken, asked |-> call.op, answer |-> answer]>>
                  [] call.what = "get" /\ answer.ok -> << >>
                  [] OTHER -> preview

ReadEnds ==
  /\ call.at = "taken"
  /\ \E answer \in {AnswerTo(call, revisions[call.taken])} : Told(answer)
  /\ UNCHANGED <<revisions, makers, editor, audit, spent>>

(* The audit names what was acted on, or else what was to be acted on. *)
Audited(asked, answer) ==
  <<[tool |-> asked.op.tool,
     prior |-> asked.expected,
     resulting |-> IF answer.ok THEN <<answer.revision>> ELSE << >>,
     on |-> Bounded(IF answer.ok THEN answer.affected ELSE AuditTarget(ToMutation(asked.op)))]>>

(* The answer to a change is recorded; it may not reach the client. *)
Ends(asked, answer) ==
  /\ audit' = Audited(asked, answer)
  /\ \E at \in {"answered", "lost"} :
       call' = [asked EXCEPT !.at = at, !.answer = answer]

(* Admitted, the call owns the transaction and locks the document. *)
Admitting(asked) ==
  IF Admission(asked.expected) = << >>
  THEN call' = [asked EXCEPT !.at = "pending"] /\ UNCHANGED audit
  ELSE Ends(asked, Refused(Admission(asked.expected)[1]))

MutateMapping(op) ==
  /\ basis # 0
  /\ MayCall
  /\ Admitting(Snapshot("mutate", op, basis))
  /\ UNCHANGED <<revisions, makers, editor, basis, preview>>

(* The client has no answer and sends the call again, as it was. *)
Retry ==
  /\ call.at = "lost"
  /\ Admitting(call)
  /\ UNCHANGED <<revisions, makers, editor, basis, preview, spent>>

Accepted(m, result) ==
  [ok |-> TRUE, changed |-> result.changed, revision |-> Newest + (IF result.changed THEN 1 ELSE 0),
   affected |-> Affected(Document.proxy, m)]

(* A change without effect ends before the document is compiled. *)
Committed(m, result) ==
  IF ~result.ok THEN Refused("rejected")
  ELSE IF result.changed /\ ~Compiles([Document EXCEPT !.proxy = result.proxy])
       THEN Refused("does not compile")
       ELSE Accepted(m, result)

Commit ==
  /\ call.at = "pending"
  /\ \E m \in {ToMutation(call.op)} : \E result \in {Mutated(Document.proxy, m)} :
       \E answer \in {Committed(m, result)} :
         /\ Ends(call, answer)
         /\ IF answer.ok /\ answer.changed
            THEN /\ revisions' = Append(revisions, [Document EXCEPT !.proxy = result.proxy])
                 /\ makers' = Append(makers, [id |-> call.id, op |-> call.op,
                                              affected |-> answer.affected])
            ELSE UNCHANGED <<revisions, makers>>
  /\ UNCHANGED <<editor, basis, preview, spent>>

(* The file is not written: nothing changes. *)
CommitFails ==
  /\ call.at = "pending"
  /\ Ends(call, Refused("not written"))
  /\ UNCHANGED <<revisions, makers, editor, basis, preview, spent>>

(* What happens elsewhere: the popup has a draft or none, a transaction of *)
(* another begins and ends.  Bound: not before the client has a view.      *)
EditElsewhere ==
  /\ basis # 0 /\ call.at # "pending"
  /\ editor' \in (IF editor = "idle" THEN {"draft", "busy"}
                  ELSE IF editor = "draft" THEN {"idle", "busy"} ELSE {})
  /\ spent.elsewhere < MaxElsewhere
  /\ UNCHANGED <<revisions, makers, call, basis, preview, audit, spent>>

Installed(result) ==
  IF result.ok /\ result.changed /\ Compiles([Document EXCEPT !.proxy = result.proxy])
  THEN /\ revisions' = Append(revisions, [Document EXCEPT !.proxy = result.proxy])
       /\ makers' = Append(makers, Others)
  ELSE UNCHANGED <<revisions, makers>>

EndElsewhere ==
  /\ editor = "busy"
  /\ editor' = "idle"
  /\ spent' = [spent EXCEPT !.elsewhere = @ + 1]
  /\ \E m \in Elsewhere : Installed(Mutated(Document.proxy, m))
  /\ UNCHANGED <<call, basis, preview, audit>>

(* A client that was shown a preview sends what it saw. *)
Intended == IF preview # << >> THEN {preview[1].asked.op} ELSE Operations

ToolsNext ==
  \/ \E scope \in ReadScopes : GetMappingSettings(scope)
  \/ \E url \in UNION {ToSet(urls) : urls \in Probes} : ExplainMapping(url)
  \/ ValidateMapping
  \/ \E op \in Operations, urls \in Probes : PreviewMutation(op, urls)
  \/ \E op \in Intended : MutateMapping(op)
  \/ ReadEnds \/ Retry \/ Commit \/ CommitFails
  \/ EditElsewhere \/ EndElsewhere

ToolsSpec == ToolsInit(ToolDocs, "idle") /\ [][ToolsNext]_toolVars

(*-------------------------------- properties ------------------------------*)

(* What a change of one table does to its rules: it happens at the position *)
(* of the answer, and the other rules keep their order.                    *)
RulesStep(op, at, old, new) ==
  CASE op.tool = "create_mapping_rule" ->
         /\ new[at + 1] = RuleFrom(op.rule)
         /\ RemoveAt(new, at + 1) = old
         /\ op.index \in {<< >>, <<at>>}
         /\ op.index = << >> => at = Len(old)
    [] op.tool = "delete_mapping_rule" -> at = op.index /\ new = RemoveAt(old, at + 1)
    [] op.tool = "move_mapping_rule" ->
         /\ at = op.to
         /\ new[at + 1] = old[op.from + 1]
         /\ RemoveAt(new, at + 1) = RemoveAt(old, op.from + 1)
    [] OTHER ->
         /\ at = op.index
         /\ RemoveAt(new, at + 1) = RemoveAt(old, at + 1)
         /\ new[at + 1] = IF op.tool = "update_mapping_rule"
                          THEN [old[at + 1] EXCEPT !.from = op.from, !.to = op.to]
                          ELSE [old[at + 1] EXCEPT !.enable = op.enabled]

TableStep(op, i, ref, was, now) ==
  /\ RulesStep(op, ref.index, was.presets[i][op.table].rules, now.presets[i][op.table].rules)
  /\ [now EXCEPT !.presets[i][op.table].rules = was.presets[i][op.table].rules] = was

(* i is the preset the operation names, active the one that was active. *)
PresetStep(op, i, active, ref, was, now) ==
  CASE op.tool = "create_preset" ->
         /\ Front(now.presets) = was.presets
         /\ Last(now.presets) = [InitialFrom(op.initial) EXCEPT !.name = ref.name]
         /\ [now EXCEPT !.presets = was.presets] = was
    [] op.tool = "rename_preset" ->
         /\ ref.name = now.presets[i].name
         /\ [now EXCEPT !.presets[i].name = was.presets[i].name, !.active = was.active] = was
         /\ now.active = IF active = i THEN <<ref.name>> ELSE was.active
    [] op.tool = "delete_preset" ->
         /\ now.presets = RemoveAt(was.presets, i)
         /\ now.enable = was.enable
         /\ now.active = IF active = i THEN << >> ELSE was.active
    [] op.tool = "set_active_preset" ->
         /\ [now EXCEPT !.active = was.active] = was
         /\ IF op.active = << >> THEN now.active = << >>
            ELSE ActiveIndex(<<now>>) = PresetIndex(<<was>>, op.active[1])
    [] op.tool = "set_mapping_gate" /\ op.gate.kind = "global" ->
         now = [was EXCEPT !.enable = op.enabled]
    [] op.tool = "set_mapping_gate" /\ op.gate.kind = "table" ->
         now = [was EXCEPT !.presets[i][op.gate.table].enable = op.enabled]

NameIn(op) ==
  CASE "preset" \in DOMAIN op -> op.preset
    [] op.tool \in {"create_preset", "rename_preset", "delete_preset"} -> op.name
    [] op.tool = "set_mapping_gate" /\ op.gate.kind = "table" -> op.gate.preset
    [] OTHER -> Plain("")

ToolStep(op, ref, px, next) ==
  IF op.tool \in RuleTools
  THEN TableStep(op, PresetIndex(px, NameIn(op)), ref, ProxyOf(px), ProxyOf(next))
  ELSE PresetStep(op, PresetIndex(px, NameIn(op)), ActiveIndex(px), ref,
                  ProxyOf(px), ProxyOf(next))

(* Nothing but the object that was named by its place in the view changed, *)
(* and the answer says where it is now.  (Where two names differ in blanks *)
(* only, a view tells them apart and the tools take the first.)            *)
ChangesWhatWasNamed ==
  \A r \in DOMAIN makers :
    makers[r] # Others =>
      ToolStep(makers[r].op, makers[r].affected, revisions[r].proxy, revisions[r + 1].proxy)

(* A tool that calls itself idempotent has no effect the second time. *)
Idempotent == {"set_active_preset", "set_mapping_gate", "set_mapping_rule_enabled"}

NothingTwice ==
  /\ \A r, s \in DOMAIN makers : makers[r].id = makers[s].id => makers[r] = Others \/ r = s
  /\ \A r \in DOMAIN makers :
       makers[r] # Others /\ makers[r].op.tool \in Idempotent =>
         \E again \in {Mutated(revisions[r + 1].proxy, ToMutation(makers[r].op))} :
           again.ok /\ ~again.changed

(* A table in a view has all its rules, at their positions, or says how    *)
(* many it has.                                                            *)
TableShown(shown, table) ==
  /\ shown.enabled = <<table.enable>>
  /\ Len(shown.rules) + shown.omitted = Len(table.rules)
  /\ \A k \in DOMAIN shown.rules :
       RuleFrom(shown.rules[k]) = table.rules[shown.rules[k].index + 1]

PresetShown(shown, preset) ==
  /\ shown.name = preset.name
  /\ TableShown(shown.remote, preset.remote) /\ TableShown(shown.local, preset.local)

ViewIsTrue(v, proxy) ==
  /\ v.total = Len(proxy.presets) /\ v.total = v.omitted + Len(v.presets)
  /\ \A k \in DOMAIN v.presets : PresetShown(v.presets[k], proxy.presets[v.presets[k].index + 1])
  /\ IsWhole(v) => ProxyFrom(v) = proxy

ViewsAreTrue == ViewGiven => ViewIsTrue(call.answer.view, ProxyOf(revisions[call.taken].proxy))

(* A proposal of what is in force is explained, and found valid or not, as *)
(* what is in force.                                                       *)
ProposalsAreExplained ==
  /\ call.at = "answered" /\ call.what = "validate" /\ revisions[basis].proxy # << >> =>
       call.answer.validation = Validation(revisions[basis].proxy)
  /\ call.at = "answered" /\ call.what = "explain" =>
       \E doc \in {revisions[IF call.op.proposal = << >> THEN call.taken ELSE basis]} :
         doc.proxy # << >> \/ call.op.proposal = << >> =>
           call.answer.explained = Explained(doc.proxy, call.op.url)

(* The preview of a change that was then made, and of one that was not.    *)
CameTrue(shown, maker, next) ==
  /\ shown.answer.ok
  /\ shown.answer.changed /\ shown.answer.affected = maker.affected
  /\ shown.answer.validation = Validation(next.proxy)
  /\ shown.answer.explanations =
       [i \in DOMAIN shown.asked.urls |-> Explained(next.proxy, shown.asked.urls[i])]

PreviewsComeTrue ==
  \A shown \in ToSet(preview) :
    /\ \A r \in DOMAIN makers :
         (r = shown.revision /\ makers[r] # Others) =>
           (makers[r].op = shown.asked.op => CameTrue(shown, makers[r], revisions[r + 1]))
    /\ (call.at \in {"answered", "lost"} /\ call.what = "mutate" /\ call.answer.ok) =>
         (call.op = shown.asked.op /\ call.expected = shown.revision /\ shown.answer.ok =>
            <<call.answer.changed, call.answer.affected>> =
              <<shown.answer.changed, shown.answer.affected>>)

(* What the audit says of the last change: it names what the answer names, *)
(* a name that was cut is marked, and a refusal made no revision.          *)
AuditIsOfTheCall ==
  audit # << >> /\ call.at \in {"answered", "lost"} /\ call.what = "mutate" =>
    /\ audit[1].tool = call.op.tool /\ audit[1].prior = call.expected
    /\ call.answer.ok => audit[1].on = Bounded(call.answer.affected)
    /\ audit[1].resulting # << >> =>
         /\ audit[1].resulting[1] \in {call.expected, call.expected + 1}
         /\ (audit[1].resulting[1] = call.expected + 1) <=>
              (\E r \in DOMAIN makers : r = call.expected /\ makers[r].id = call.id)
    /\ audit[1].resulting = << >> =>
         (\A r \in DOMAIN makers : makers[r].id = call.id => call.answer.why = "conflict")

(* The tools change what their client was shown, where it was shown, once, *)
(* as they were seen to in the preview, and are recorded so.               *)
ToolsDoWhatTheySay ==
  /\ ChangesWhatWasNamed /\ NothingTwice
  /\ ViewsAreTrue /\ ProposalsAreExplained /\ PreviewsComeTrue
  /\ AuditIsOfTheCall
=============================================================================
