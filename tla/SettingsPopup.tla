--------------------------- MODULE SettingsPopup ---------------------------
(* The settings popup of the terminal interface: a draft of the settings   *)
(* document, the baseline it was opened with, and where the user is in it. *)
(* popup.mode is what the keys act on: the rows of a topic ("browse"), the *)
(* preset select, a rule table or editor, the table or editor of prefilter *)
(* patterns, a text field, or the question about unsaved changes.          *)
(* Positions count from 1.  While a proxy has no preset the popup shows a  *)
(* preset that is not part of the draft.                                   *)
EXTENDS MappingDocument, Integers

CONSTANTS
  TypedNames,   \* the preset names a user types
  FreshNames,   \* "Preset 1", "Preset 2", ... in this order
  DefaultName,  \* the name of the preset shown when there is none
  TypedTexts,   \* the texts a user types into the fields of a rule
  AddedRule,    \* the rule a table is given by `a`, for each table
  Globs,        \* the prefilter patterns a user types
  AddedGlob,    \* the pattern `a` adds
  Words,        \* the texts a user types into a certificate field
  Ports,        \* the ports a user types; 0 stands for a text that is none
  PageRows,     \* rows of a table in view
  MaxVisible,   \* items in the window of a select control
  DefaultDoc    \* the settings document of a popup that is closed

VARIABLE popup

(*---------------------------- select control ------------------------------*)

(* The select control: a list of items filtered by a text, a focused        *)
(* position among those the filter leaves, and the first position the       *)
(* window of MaxVisible items shows.  A box is [filter, focus, offset]; an   *)
(* item is [id, label, role], and one whose role is "action" is left by     *)
(* every filter.                                                            *)

NoText == ""
Filters == {name.text : name \in TypedNames} \union {NoText}

(* The items the filter leaves, as their places in the list. *)
Resolved(items, filter) ==
  {i \in DOMAIN items : filter \in {NoText, items[i].label} \/ items[i].role = "action"}
Count(items, filter) == Cardinality(Resolved(items, filter))

ClampFocus(box, items) ==
  LET count == Count(items, box.filter) IN
  IF count = 0 THEN [box EXCEPT !.focus = 0, !.offset = 0]
  ELSE [box EXCEPT !.focus = Min({@, count - 1}), !.offset = Min({@, count - 1})]

EnsureFocusVisible(box) ==
  [box EXCEPT !.offset =
     IF box.focus < @ THEN box.focus
     ELSE IF box.focus >= @ + MaxVisible THEN box.focus + 1 - MaxVisible
     ELSE @]

(* The box opens on the selected item; 0 stands for none. *)
OpenBox(items, selected) ==
  EnsureFocusVisible(ClampFocus([filter |-> NoText, focus |-> Max({selected - 1, 0}), offset |-> 0],
                                items))

MoveFocus(box, items, to) == EnsureFocusVisible(ClampFocus([box EXCEPT !.focus = to], items))

(* Up, Down, PageUp and PageDown. *)
FocusMoves(box, items) ==
  {MoveFocus(box, items, to) :
     to \in {Max({box.focus - step, 0}) : step \in {1, MaxVisible}}
            \union {box.focus + step : step \in {1, MaxVisible}}}

(* Typing, erasing and pasting change the filter and go back to the top. *)
SetFilter(box, filter) ==
  IF box.filter = filter THEN box ELSE [filter |-> filter, focus |-> 0, offset |-> 0]

ScrollUp(box, items) ==
  LET offset == Max({box.offset - 1, 0}) IN
  ClampFocus([box EXCEPT !.offset = offset,
                         !.focus = Min({@, offset + MaxVisible - 1})], items)

ScrollDown(box, items) ==
  LET last == Max({Count(items, box.filter) - MaxVisible, 0})
      offset == Min({box.offset + 1, last}) IN
  ClampFocus([box EXCEPT !.offset = offset,
                         !.focus = IF @ < offset THEN offset ELSE @], items)

(* The items at a position of the filtered list: one, or none behind it. *)
ItemsAt(items, filter, position) ==
  LET shown == Resolved(items, filter) IN
  {items[i] : i \in {k \in shown : Cardinality({j \in shown : j < k}) = position}}

InWindow(box, items) ==
  LET count == Count(items, box.filter) IN
  \/ count = 0 /\ box.focus = 0 /\ box.offset = 0
  \/ box.focus < count /\ box.focus \in box.offset .. (box.offset + MaxVisible - 1)

TopicOrder == <<"server", "certificate", "recording", "interface", "proxy">>
Topics == Range(TopicOrder)
TableOf == [remote_rules |-> "remote", local_rules |-> "local"]

Browse == [kind |-> "browse"]
Selecting(box) == [kind |-> "select", box |-> box]
RuleTable(table, index) == [kind |-> "rules", table |-> table, index |-> index]
RuleEditor(table, index, from, to) ==
  [kind |-> "rule", table |-> table, index |-> index, from |-> from, to |-> to]
PatternTable(index) == [kind |-> "patterns", index |-> index]
PatternEditor(index, glob) == [kind |-> "pattern", index |-> index, glob |-> glob]
Field(widget, value) == [kind |-> "field", widget |-> widget, value |-> value]
Unsaved == [kind |-> "unsaved"]

Documents ==
  [port : STRING, certificate : [dir : STRING, file : STRING], record : BOOLEAN,
   autoExpand : BOOLEAN,
   prefilter : [enable : BOOLEAN, patterns : Seq([pattern : STRING, enable : BOOLEAN])],
   proxy : Proxies]

Boxes == [filter : Filters, focus : Nat, offset : Nat]
Modes ==
  [kind : {"browse", "unsaved"}]
    \union [kind : {"select"}, box : Boxes]
    \union [kind : {"rules"}, table : Tables, index : Indices]
    \union [kind : {"rule"}, table : Tables, index : Indices, from : RuleTexts, to : RuleTexts]
    \union [kind : {"patterns"}, index : Indices]
    \union [kind : {"pattern"}, index : Indices, glob : STRING]
    \union [kind : {"field"}, widget : {"port", "dir", "file", "name"}, value : Names]

Popups ==
  [visible : BOOLEAN, focus : {"topics", "content"}, topic : Topics, row : Indices,
   mode : Modes, draft : Documents, original : Documents]

Opened(doc) ==
  [visible |-> TRUE, focus |-> "topics", topic |-> "server", row |-> 1, mode |-> Browse,
   draft |-> doc, original |-> doc]

(* The place in a popup that is closed is left out: opening it goes to the *)
(* first row.                                                              *)
Closed == [Opened(DefaultDoc) EXCEPT !.visible = FALSE]

Dirty(p) == p.draft # p.original
In(kind) == popup.visible /\ popup.mode.kind = kind
Clamped(index, count) == Max({1, Min({index, count})})

(*-------------------------- what the popup shows --------------------------*)

Virtual(px) == px = << >> \/ px[1].presets = << >>
DefaultPreset == Preset(DefaultName, FALSE)

(* The preset on show, as an option. *)
PresetAt(px, i) == IF i = 0 THEN << >> ELSE <<px[1].presets[i]>>
Shown(px) == IF Virtual(px) THEN <<DefaultPreset>> ELSE PresetAt(px, ActiveIndex(px))

MappingShown(px) == ~Virtual(px) /\ px[1].enable

RulesIn(shown, table) == IF shown = << >> THEN << >> ELSE shown[1][table].rules
Rules(p, table) == RulesIn(Shown(p.draft.proxy), table)

Patterns(p) == p.draft.prefilter.patterns

Widgets(topic, px) ==
  CASE topic = "server" -> <<"port">>
    [] topic = "certificate" -> <<"dir", "file">>
    [] topic = "recording" -> <<"record", "prefilter", "patterns">>
    [] topic = "interface" -> <<"auto_expand">>
    [] topic = "proxy" ->
         IF Shown(px) = << >> THEN <<"preset">>
         ELSE <<"preset", "name", "enable", "enable_remote", "remote_rules",
                "enable_local", "local_rules">>

RowsOf(p) == Widgets(p.topic, p.draft.proxy)
WidgetIn(rows, row) == IF row \in DOMAIN rows THEN rows[row] ELSE "none"
Widget(p) == WidgetIn(RowsOf(p), p.row)
ClampRow(p) == [p EXCEPT !.row = Min({@, Len(RowsOf(p))})]
RowOf(widget, p) == SelectInSeq(RowsOf(p), LAMBDA w : w = widget)

(*------------------------------ proxy edits -------------------------------*)

Materialized ==
  <<[enable |-> FALSE, active |-> <<DefaultName>>, presets |-> <<DefaultPreset>>]>>

(* A bug: the preset that is only shown stays when nothing changed. *)
EvenUnchanged(px, result) == [ok |-> result.ok, proxy |-> result.proxy]

UnlessUnchanged(px, result) ==
  [ok |-> result.ok, proxy |-> IF result.changed THEN result.proxy ELSE px]

(* An edit of the preset that is only shown makes it part of the draft,    *)
(* unless it is rejected or changes nothing.                               *)
MutateProxy(px, m) ==
  UnlessUnchanged(px, Mutated(IF Virtual(px) /\ m.op # "create" THEN Materialized ELSE px, m))

Edit(p, m) == [p EXCEPT !.draft.proxy = MutateProxy(@, m).proxy]

(* An edit of the preset on show; nothing happens when there is none. *)
ShownName(p) == Shown(p.draft.proxy)[1].name

EditShown(p, m) == IF Shown(p.draft.proxy) = << >> THEN p ELSE Edit(p, m)

(*-------------------------------- tables ----------------------------------*)

SelectRule(p, table, index) ==
  [p EXCEPT !.mode = RuleTable(table, Clamped(index, Len(Rules(p, table))))]

EditRule(p, table, index, rules) ==
  IF index \notin DOMAIN rules THEN p
  ELSE [p EXCEPT !.mode = RuleEditor(table, index, rules[index].from, rules[index].to)]

StartRule(p, table, index) == EditRule(p, table, index, Rules(p, table))

AddRuleAt(p, table, at) ==
  EditShown(p, [op |-> "insert_rule", preset |-> ShownName(p), table |-> table,
                index |-> <<at>>, rule |-> AddedRule[table]])

(* The rule is added below the cursor, which goes to it. *)
AddRuleBelow(p, table, at) == SelectRule(AddRuleAt(p, table, at), table, at)
Below(index, count) == IF count = 0 THEN 1 ELSE Min({index + 1, count + 1})
AddRule(p, table, index) == AddRuleBelow(p, table, Below(index, Len(Rules(p, table))))

RemoveRule(p, table, index) ==
  SelectRule(IF index \notin DOMAIN Rules(p, table) THEN p
             ELSE EditShown(p, [op |-> "delete_rule", preset |-> ShownName(p),
                                table |-> table, index |-> index]),
             table, index)

MoveShown(p, table, index, to) ==
  IF {index, to} \subseteq DOMAIN Rules(p, table)
  THEN EditShown(p, [op |-> "move_rule", preset |-> ShownName(p), table |-> table,
                     from |-> index, to |-> to])
  ELSE p

(* A bug: the cursor stays where it is. *)
ShiftUnderCursor(p, table, index, to) ==
  SelectRule(MoveShown(p, table, index, to), table, index)

(* The cursor follows the rule that moves. *)
ShiftRule(p, table, index, to) == SelectRule(MoveShown(p, table, index, to), table, to)

ToggleRule(p, table, index) ==
  IF index \notin DOMAIN Rules(p, table) THEN p
  ELSE EditShown(p, [op |-> "enable_rule", preset |-> ShownName(p), table |-> table,
                     index |-> index, enabled |-> ~Rules(p, table)[index].enable])

ApplyRule(p) ==
  LET mode == p.mode IN
  SelectRule(EditShown(p, [op |-> "update_rule", preset |-> ShownName(p),
                           table |-> mode.table, index |-> mode.index,
                           from |-> mode.from, to |-> mode.to]),
             mode.table, mode.index)

SelectPattern(p, index) ==
  [p EXCEPT !.focus = "content", !.topic = "recording", !.row = 3,
            !.mode = PatternTable(Clamped(index, Len(Patterns(p))))]

WithPatterns(p, patterns) == [p EXCEPT !.draft.prefilter.patterns = patterns]

StartPattern(p, index) ==
  IF index \notin DOMAIN Patterns(p) THEN p
  ELSE [p EXCEPT !.mode = PatternEditor(index, Patterns(p)[index].pattern)]

AddPattern(p, at) ==
  SelectPattern(WithPatterns(p, InsertAt(Patterns(p), at, [pattern |-> AddedGlob,
                                                           enable |-> TRUE])), at)

RemovePattern(p, index) ==
  SelectPattern(IF index \notin DOMAIN Patterns(p) THEN p
                ELSE WithPatterns(p, RemoveAt(Patterns(p), index)), index)

Swapped(patterns, i, j) ==
  [patterns EXCEPT ![i] = patterns[j], ![j] = patterns[i]]

(* Only the upper position is checked on the way up. *)
RaisePattern(p, index) ==
  SelectPattern(IF index > 1 THEN WithPatterns(p, Swapped(Patterns(p), index - 1, index)) ELSE p,
                Max({index - 1, 1}))

LowerPattern(p, index) ==
  SelectPattern(IF index + 1 \in DOMAIN Patterns(p)
                THEN WithPatterns(p, Swapped(Patterns(p), index, index + 1)) ELSE p,
                index + 1)

TogglePattern(p, index) ==
  IF index \notin DOMAIN Patterns(p) THEN p
  ELSE [p EXCEPT !.draft.prefilter.patterns[index].enable = ~@]

ApplyPattern(p) ==
  SelectPattern([p EXCEPT !.draft.prefilter.patterns[p.mode.index].pattern = p.mode.glob],
                p.mode.index)

(*------------------------------ the select --------------------------------*)

(* The position of an item is its preset; the shown preset that is none of *)
(* the draft has 0, and the item that creates a preset has -1.             *)
PresetItems(presets, virtual) ==
  [i \in DOMAIN presets |->
     [id |-> IF virtual THEN 0 ELSE i, label |-> presets[i].name.text, role |-> "value"]]

Items(px) ==
  Append(IF Virtual(px) THEN PresetItems(<<DefaultPreset>>, TRUE)
         ELSE PresetItems(px[1].presets, FALSE),
         [id |-> -1, label |-> NoText, role |-> "action"])

StartSelect(p) ==
  LET px == p.draft.proxy IN
  [p EXCEPT !.focus = "content", !.topic = "proxy", !.row = 1,
            !.mode = Selecting(OpenBox(Items(px), IF Virtual(px) THEN 1 ELSE ActiveIndex(px)))]

Activated(p, result) ==
  IF result.ok THEN ClampRow([p EXCEPT !.draft.proxy = result.proxy]) ELSE p

Activate(p, i) ==
  Activated(p, Mutated(p.draft.proxy, [op |-> "activate",
                                       name |-> <<p.draft.proxy[1].presets[i].name>>]))

HasFresh(px) == \E i \in DOMAIN FreshNames : PresetIndex(px, FreshNames[i]) = 0
FreshName(px) ==
  FreshNames[SelectInSeq(FreshNames, LAMBDA name : PresetIndex(px, name) = 0)]

(* A created preset is made active; a proxy that did not exist is disabled. *)
Created(px, name) ==
  Mutated(px, [op |-> "create", name |-> name, initial |-> Preset(name, FALSE)]).proxy

WithCreated(px, created) ==
  IF px = << >> THEN <<[created[1] EXCEPT !.enable = FALSE]>> ELSE created

CreateFresh(p) ==
  [p EXCEPT !.draft.proxy = WithCreated(@, Created(@, FreshName(@)))]

ActivateLast(p) == Activate(p, Len(p.draft.proxy[1].presets))

CommitSelect(p, item) ==
  [(CASE item.id = 0 -> p
      [] item.id = -1 -> ActivateLast(CreateFresh(p))
      [] OTHER -> Activate(p, item.id)) EXCEPT !.mode = Browse]

(*------------------------------ rows and fields ---------------------------*)

(* What Enter, Space and `a` do on a row depends on its widget. *)
StartWidget(p, widget) ==
  CASE widget = "port" -> [p EXCEPT !.mode = Field(widget, Plain(p.draft.port))]
    [] widget \in {"dir", "file"} ->
         [p EXCEPT !.mode = Field(widget, Plain(p.draft.certificate[widget]))]
    [] widget = "name" -> [p EXCEPT !.mode = Field(widget, Shown(p.draft.proxy)[1].name)]
    [] widget = "patterns" -> [p EXCEPT !.mode = PatternTable(1)]
    [] widget = "preset" -> StartSelect(p)
    [] widget \in DOMAIN TableOf -> [p EXCEPT !.mode = RuleTable(TableOf[widget], 1)]
    [] OTHER -> p

StartRow(p) == StartWidget(p, Widget(p))
StartEdit(p) == StartRow(ClampRow(p))

EnableOf == [enable_remote |-> "remote", enable_local |-> "local"]

EnableTable(p, table) ==
  EditShown(p, [op |-> "enable_table", preset |-> ShownName(p), table |-> table,
                enabled |-> ~Shown(p.draft.proxy)[1][table].enable])

ToggleWidget(p, widget) ==
  CASE widget = "record" -> [p EXCEPT !.draft.record = ~@]
    [] widget = "prefilter" -> [p EXCEPT !.draft.prefilter.enable = ~@]
    [] widget = "auto_expand" -> [p EXCEPT !.draft.autoExpand = ~@]
    [] widget = "enable" ->
         Edit(p, [op |-> "enable", enabled |-> ~MappingShown(p.draft.proxy)])
    [] widget \in DOMAIN EnableOf -> EnableTable(p, EnableOf[widget])
    [] OTHER -> p

ToggleAt(p) == ToggleWidget(p, Widget(p))
ToggleRow(p) == ToggleAt(ClampRow(p))

(* `a` on a row that stands for a table adds at its end. *)
AddTo(p, widget) ==
  CASE widget = "patterns" -> AddPattern(p, Len(Patterns(p)) + 1)
    [] widget \in DOMAIN TableOf ->
         AddRuleAt(p, TableOf[widget], Len(Rules(p, TableOf[widget])) + 1)
    [] OTHER -> p

AddAt(p) == AddTo(p, Widget(p))
AddFromRow(p) == AddAt(ClampRow(p))

(* The field that is being edited is applied; the editor stays open when   *)
(* the value is refused.                                                   *)
Renamed(p, result) ==
  IF result.ok THEN ClampRow([p EXCEPT !.mode = Browse, !.draft.proxy = result.proxy]) ELSE p

ApplyValue(p, widget, value) ==
  CASE widget = "port" ->
         IF value.text = "0" THEN p ELSE [p EXCEPT !.mode = Browse, !.draft.port = value.text]
    [] widget \in {"dir", "file"} ->
         [p EXCEPT !.mode = Browse, !.draft.certificate[widget] = value.text]
    [] widget = "name" ->
         Renamed(p, MutateProxy(p.draft.proxy, [op |-> "rename", newName |-> value,
                                                name |-> Shown(p.draft.proxy)[1].name]))

ApplyField(p) == ApplyValue(p, p.mode.widget, p.mode.value)

FieldValues(widget) ==
  CASE widget = "port" -> {Plain(port) : port \in Ports}
    [] widget \in {"dir", "file"} -> {Plain(word) : word \in Words}
    [] widget = "name" -> TypedNames

SelectTopic(p, topic) == [p EXCEPT !.topic = topic, !.row = 1, !.mode = Browse]

NextTopic(p, step) ==
  LET i == SelectInSeq(TopicOrder, LAMBDA topic : topic = p.topic) IN
  SelectTopic(p, TopicOrder[((i - 1 + step) % 5) + 1])

MoveWithin(p, step, count) == [p EXCEPT !.row = Clamped(Min({@, count}) + step, count)]

MoveRow(p, step) ==
  IF p.focus = "topics" THEN NextTopic(p, step) ELSE MoveWithin(p, step, Len(RowsOf(p)))

FocusContentRow(p, row) == [p EXCEPT !.focus = "content", !.row = row, !.mode = Browse]

(*---------------------------------- keys ----------------------------------*)

(* Navigation, which a pending settings transaction does not lock. *)
Navigated(p) ==
  {[p EXCEPT !.focus = focus] : focus \in {"topics", "content"}}
    \union {MoveRow(p, step) : step \in {1, -1}}

BrowseMove == In("browse") /\ popup' \in Navigated(popup)

EnterRow ==
  /\ In("browse")
  /\ popup' = IF popup.focus = "topics" THEN [popup EXCEPT !.focus = "content"]
              ELSE StartEdit(popup)

RowKey ==
  /\ In("browse")
  /\ popup.focus = "content"
  /\ popup' \in {ToggleRow(popup), AddFromRow(popup)}

(* Esc on the rows: changes are asked about, a draft without any is left. *)
Escape(p) == IF Dirty(p) THEN [p EXCEPT !.mode = Unsaved] ELSE Closed

EscapeKey == In("browse") /\ popup' = Escape(popup)

Steps(index, count) ==
  {index - 1, index + 1, index - PageRows, Min({index + PageRows, count})}

RuleKey ==
  /\ In("rules")
  /\ LET table == popup.mode.table
         index == popup.mode.index IN
     popup' \in {StartRule(popup, table, index), ToggleRule(popup, table, index),
                 AddRule(popup, table, index), RemoveRule(popup, table, index),
                 ShiftRule(popup, table, index, index + 1),
                 ShiftRule(popup, table, index, index - 1)}
           \union {SelectRule(popup, table, to) : to \in Steps(index, Len(Rules(popup, table)))}

TypeRule ==
  /\ In("rule")
  /\ \E text \in TypedTexts, field \in {"from", "to"} : popup' = [popup EXCEPT !.mode[field] = text]

(* Enter applies the texts, Esc does not; both go back to the table. *)
EndRule ==
  /\ In("rule")
  /\ popup' \in {ApplyRule(popup), SelectRule(popup, popup.mode.table, popup.mode.index)}

PatternKey ==
  /\ In("patterns")
  /\ LET index == popup.mode.index
         count == Len(Patterns(popup))
         after == IF count = 0 THEN 1 ELSE Min({index + 1, count + 1}) IN
     popup' \in {StartPattern(popup, index), TogglePattern(popup, index),
                 AddPattern(popup, after), RemovePattern(popup, index),
                 LowerPattern(popup, index), RaisePattern(popup, index)}
           \union {SelectPattern(popup, to) : to \in Steps(index, count)}

TypePattern ==
  /\ In("pattern")
  /\ \E glob \in Globs : popup' = [popup EXCEPT !.mode.glob = glob]

EndPattern ==
  /\ In("pattern")
  /\ popup' \in {ApplyPattern(popup), SelectPattern(popup, popup.mode.index)}

TypeField ==
  /\ In("field")
  /\ \E value \in FieldValues(popup.mode.widget) : popup' = [popup EXCEPT !.mode.value = value]

EndField == In("field") /\ popup' = ApplyField(popup)

SelectMoves(box, items) ==
  FocusMoves(box, items) \union {ScrollUp(box, items), ScrollDown(box, items)}
    \union {SetFilter(box, text) : text \in Filters}

SelectKey ==
  /\ In("select")
  /\ \E box \in SelectMoves(popup.mode.box, Items(popup.draft.proxy)) :
       popup' = [popup EXCEPT !.mode = Selecting(box)]

(* Enter commits the item that has the focus, a click one in the window.   *)
(* Bound: presets are created as long as there are fresh names.            *)
CommitOption ==
  /\ In("select")
  /\ LET box == popup.mode.box IN
     \E position \in {box.focus} \union (box.offset .. (box.offset + MaxVisible - 1)) :
     \E item \in ItemsAt(Items(popup.draft.proxy), box.filter, position) :
       /\ item.id = -1 => HasFresh(popup.draft.proxy)
       /\ popup' = CommitSelect(popup, item)

(* Esc, or a click outside the select: back to the rows without an effect. *)
Leave ==
  /\ popup.visible
  /\ popup.mode.kind \in {"rules", "patterns", "field", "select"}
  /\ popup' = [popup EXCEPT !.mode = Browse]

(* The button that has the focus is left out: any answer may be given; to  *)
(* save is the action Save of the composition.                             *)
DialogKey == In("unsaved") /\ popup' \in {[popup EXCEPT !.mode = Browse], Closed}

Key ==
  \/ BrowseMove \/ EnterRow \/ RowKey \/ EscapeKey \/ RuleKey \/ TypeRule \/ EndRule
  \/ PatternKey \/ TypePattern \/ EndPattern \/ TypeField \/ EndField \/ SelectKey
  \/ CommitOption \/ Leave \/ DialogKey

(*--------------------------------- clicks ---------------------------------*)

(* A click outside what is edited in place applies it first; one the value *)
(* of which is refused has no other effect.                                *)
Settled(p) ==
  CASE p.mode.kind = "field" -> ApplyField(p)
    [] p.mode.kind = "pattern" -> ApplyPattern(p)
    [] OTHER -> p

ClickWidget(p, row, widget) ==
  CASE widget \in {"patterns"} \union DOMAIN TableOf ->
         IF p.row # row \/ p.mode.kind \notin {"rules", "patterns"}
         THEN StartEdit(FocusContentRow(p, row))
         ELSE [p EXCEPT !.focus = "content"]
    [] widget = "preset" -> StartSelect(p)
    [] widget \in {"port", "dir", "file", "name"} -> StartEdit(FocusContentRow(p, row))
    [] OTHER -> ToggleRow(FocusContentRow(p, row))

ClickRow(p, row) == ClickWidget(p, row, RowsOf(p)[row])

(* p is the popup once what was edited is settled. *)
ClickTopic(p) ==
  \E topic \in Topics :
    popup' = IF p.mode.kind = "field" THEN p
             ELSE [SelectTopic(p, topic) EXCEPT !.focus = "topics"]

(* A click on the field that is edited only moves the cursor in its text. *)
ClickContent(p) ==
  \E row \in DOMAIN RowsOf(popup) :
    /\ ~(popup.mode.kind = "field" /\ row = popup.row)
    /\ popup' = IF p.mode.kind = "field" THEN p ELSE ClickRow(p, row)

(* A click on a row of a table selects it, toggles it or opens its editor, *)
(* also on the check box of the pattern that is being edited; in the text  *)
(* that is edited it only moves the cursor.                                *)
ClickedPattern(p, i) == {p, TogglePattern(p, i), StartPattern(p, i)}

ClickPattern(p) ==
  /\ popup.topic = "recording"
  /\ \E i \in DOMAIN Patterns(popup) :
       popup' \in ClickedPattern(SelectPattern(p, i), i)

ClickedRule(p, table, i) == {p, ToggleRule(p, table, i), StartRule(p, table, i)}

ClickRule(p) ==
  /\ popup.topic = "proxy"
  /\ \E widget \in DOMAIN TableOf : \E i \in DOMAIN Rules(popup, TableOf[widget]) :
       popup' \in IF p.mode.kind = "field" THEN {p}
                  ELSE ClickedRule(SelectRule(FocusContentRow(p, RowOf(widget, p)),
                                              TableOf[widget], i), TableOf[widget], i)

(* A table that has the focus is no overlay: a click outside leaves more.  *)
ClickOutside(p) ==
  popup' = IF p.mode.kind = "field" THEN p ELSE Escape([p EXCEPT !.mode = Browse])

Click ==
  /\ popup.visible
  /\ popup.mode.kind \notin {"unsaved", "select", "rule"}
  /\ \E p \in {Settled(popup)} :
       ClickTopic(p) \/ ClickContent(p) \/ ClickPattern(p) \/ ClickRule(p) \/ ClickOutside(p)
===========================================================================
