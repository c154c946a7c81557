------------------------- MODULE MappingDocument -------------------------
(* The proxy section of the settings document and the mutations both of its *)
(* editors apply to it: the settings popup of the terminal interface and    *)
(* the mapping tools of the control service.  An optional section is a      *)
(* sequence of at most one.  A name carries whether it is padded with       *)
(* blanks; a rule text carries what the parsers make of it.                 *)
EXTENDS Naturals, Sequences, FiniteSets, SequencesExt

(* A preset name [text, padded]; trimming drops the padding. *)
Trim(name) == [name EXCEPT !.padded = FALSE]
Plain(text) == [text |-> text, padded |-> FALSE]
IsBlank(name) == name.text = ""

(* A rule text [kind, origin, path, spelled]: a URL names an origin and,    *)
(* when it is explicit, a path; a file is no URL; `spelled` is "ported" for *)
(* a port that is not the default one, and tells texts apart that are       *)
(* parsed alike.                                                            *)
Url(origin, path) ==
  [kind |-> "url", origin |-> origin, path |-> path, spelled |-> "plain"]
File(path) == [kind |-> "file", origin |-> "", path |-> path, spelled |-> "plain"]
BlankText == [kind |-> "blank", origin |-> "", path |-> "", spelled |-> "plain"]

ParsesAsUrl(text) == text.kind = "url"
ParsesAsTarget(table, text) ==
  IF table = "remote" THEN ParsesAsUrl(text) ELSE text.kind # "blank"
ValidFields(table, rule) == ParsesAsUrl(rule.from) /\ ParsesAsTarget(table, rule.to)

Tables == {"remote", "local"}
NoRules(enable) == [enable |-> enable, rules |-> << >>]
Preset(name, enable) ==
  [name |-> name, remote |-> NoRules(enable), local |-> NoRules(enable)]
DefaultProxy == [enable |-> TRUE, active |-> << >>, presets |-> << >>]

PresetIndex(px, name) ==
  IF px = << >> THEN 0
  ELSE SelectInSeq(px[1].presets, LAMBDA preset : Trim(preset.name) = Trim(name))

(* The preset the active name stands for, 0 when it names none. *)
ActiveIndex(px) ==
  IF px = << >> \/ px[1].active = << >> THEN 0 ELSE PresetIndex(px, px[1].active[1])

ActiveIs(px, name) == px[1].active # << >> /\ Trim(px[1].active[1]) = name

(*-------------------------------- documents -------------------------------*)

(* What the section and the mutations are made of. *)
Options(S) == {s \in Seq(S) : Len(s) <= 1}

Names == [text : STRING, padded : BOOLEAN]
RuleTexts == [kind : {"url", "file", "blank"}, origin : STRING, path : STRING, spelled : STRING]
RuleRecords == [from : RuleTexts, to : RuleTexts, enable : BOOLEAN]
TableRecords == [enable : BOOLEAN, rules : Seq(RuleRecords)]
PresetRecords == [name : Names, remote : TableRecords, local : TableRecords]
ProxyRecords == [enable : BOOLEAN, active : Options(Names), presets : Seq(PresetRecords)]
Proxies == Options(ProxyRecords)

Indices == Nat \ {0}
TableOps ==
  {"enable_table", "insert_rule", "update_rule", "delete_rule", "move_rule", "enable_rule"}
Ops == {"create", "rename", "delete", "activate", "enable"} \union TableOps

MutationsOf(op) ==
  CASE op = "create" -> [op : {op}, name : Names, initial : PresetRecords]
    [] op = "rename" -> [op : {op}, name : Names, newName : Names]
    [] op = "delete" -> [op : {op}, name : Names]
    [] op = "activate" -> [op : {op}, name : Options(Names)]
    [] op = "enable" -> [op : {op}, enabled : BOOLEAN]
    [] op = "enable_table" -> [op : {op}, preset : Names, table : Tables, enabled : BOOLEAN]
    [] op = "insert_rule" ->
         [op : {op}, preset : Names, table : Tables, index : Options(Indices), rule : RuleRecords]
    [] op = "update_rule" ->
         [op : {op}, preset : Names, table : Tables, index : Indices,
          from : RuleTexts, to : RuleTexts]
    [] op = "delete_rule" -> [op : {op}, preset : Names, table : Tables, index : Indices]
    [] op = "move_rule" -> [op : {op}, preset : Names, table : Tables, from : Indices, to : Indices]
    [] op = "enable_rule" ->
         [op : {op}, preset : Names, table : Tables, index : Indices, enabled : BOOLEAN]
IsMutation(m) == m.op \in Ops /\ m \in MutationsOf(m.op)

(*------------------------------- validation -------------------------------*)

DistinctNames(presets) ==
  \A i, j \in DOMAIN presets :
    /\ ~IsBlank(presets[i].name)
    /\ Trim(presets[i].name) = Trim(presets[j].name) => i = j

ValidRules(preset) ==
  \A table \in Tables : \A i \in DOMAIN preset[table].rules :
    ValidFields(table, preset[table].rules[i])

ActiveDiagnosed(px) ==
  IF px[1].active = << >> \/ IsBlank(px[1].active[1])
  THEN px[1].presets # << >>
  ELSE ActiveIndex(px) = 0

ValidProxy(px) ==
  \/ px = << >>
  \/ /\ DistinctNames(px[1].presets)
     /\ \A i \in DOMAIN px[1].presets : ValidRules(px[1].presets[i])
     /\ ~ActiveDiagnosed(px)

(* The first preset is validated as the only one of a proxy it is active in. *)
ValidInitial(preset) ==
  ValidProxy(<<[enable |-> TRUE, active |-> <<preset.name>>, presets |-> <<preset>>]>>)

(*-------------------------------- mutations -------------------------------*)

Rejected(px) == [ok |-> FALSE, changed |-> FALSE, proxy |-> px]
Done(px, changed) == [ok |-> TRUE, changed |-> changed, proxy |-> px]

(* A bug: names are compared as they are written. *)
RenameComparesAsWritten(px, i, name, newName) ==
  /\ name # newName
  /\ \E j \in DOMAIN px[1].presets \ {i} : px[1].presets[j].name = newName

RenameTakesAnothers(px, i, name, newName) ==
  /\ name # newName
  /\ \E j \in DOMAIN px[1].presets \ {i} : Trim(px[1].presets[j].name) = newName

CreatePreset(px, name, initial) ==
  IF IsBlank(name) \/ PresetIndex(px, name) # 0 \/ ~ValidInitial([initial EXCEPT !.name = name])
  THEN Rejected(px)
  ELSE Done(<<[(IF px = << >> THEN DefaultProxy ELSE px[1]) EXCEPT
                 !.presets = Append(@, [initial EXCEPT !.name = name])]>>, TRUE)

(* i is the preset `name` names, and active says whether it is active. *)
RenamePreset(px, i, name, newName, active) ==
  IF IsBlank(name) \/ IsBlank(newName) \/ i = 0 \/ RenameTakesAnothers(px, i, name, newName)
  THEN Rejected(px)
  ELSE Done(<<[px[1] EXCEPT !.presets[i].name = newName,
                            !.active = IF active THEN <<newName>> ELSE @]>>,
            \/ px[1].presets[i].name # newName
            \/ active /\ px[1].active # <<newName>>)

DeletePreset(px, i, name) ==
  IF IsBlank(name) \/ i = 0 THEN Rejected(px)
  ELSE Done(<<[px[1] EXCEPT !.presets = RemoveAt(@, i),
                            !.active = IF ActiveIs(px, name) THEN << >> ELSE @]>>, TRUE)

(* The name is optional: nothing is active without one. *)
SetActivePreset(px, next) ==
  IF px = << >> \/ (next # << >> /\ (IsBlank(next[1]) \/ PresetIndex(px, next[1]) = 0))
  THEN Rejected(px)
  ELSE Done(<<[px[1] EXCEPT !.active = next]>>, px[1].active # next)

SetGlobalEnabled(px, enabled) ==
  IF px = << >> THEN Rejected(px)
  ELSE Done(<<[px[1] EXCEPT !.enable = enabled]>>, px[1].enable # enabled)

(* The mutations of one table, `table` of the preset at i. *)
WithTable(px, i, m, table) == <<[px[1] EXCEPT !.presets[i][m.table] = table]>>
WithRules(px, i, m, rules) == <<[px[1] EXCEPT !.presets[i][m.table].rules = rules]>>

SetTableEnabled(px, i, m, table) ==
  Done(WithTable(px, i, m, [table EXCEPT !.enable = m.enabled]), table.enable # m.enabled)

(* m.index is optional: without it the rule is appended. *)
Place(m, rules) == IF m.index = << >> THEN Len(rules) + 1 ELSE m.index[1]

InsertRule(px, i, m, table) ==
  IF ~ValidFields(m.table, m.rule) \/ Place(m, table.rules) > Len(table.rules) + 1
  THEN Rejected(px)
  ELSE Done(WithRules(px, i, m, InsertAt(table.rules, Place(m, table.rules), m.rule)), TRUE)

UpdateRule(px, i, m, table) ==
  IF ~ValidFields(m.table, m) \/ m.index \notin DOMAIN table.rules THEN Rejected(px)
  ELSE Done(WithRules(px, i, m, [table.rules EXCEPT ![m.index].from = m.from,
                                                    ![m.index].to = m.to]),
            <<table.rules[m.index].from, table.rules[m.index].to>> # <<m.from, m.to>>)

DeleteRule(px, i, m, table) ==
  IF m.index \notin DOMAIN table.rules THEN Rejected(px)
  ELSE Done(WithRules(px, i, m, RemoveAt(table.rules, m.index)), TRUE)

Moved(rules, from, to) ==
  IF from = to THEN rules ELSE InsertAt(RemoveAt(rules, from), to, rules[from])

MoveRule(px, i, m, table) ==
  IF {m.from, m.to} \subseteq DOMAIN table.rules
  THEN Done(WithRules(px, i, m, Moved(table.rules, m.from, m.to)), m.from # m.to)
  ELSE Rejected(px)

SetRuleEnabled(px, i, m, table) ==
  IF m.index \notin DOMAIN table.rules THEN Rejected(px)
  ELSE Done(WithRules(px, i, m, [table.rules EXCEPT ![m.index].enable = m.enabled]),
            table.rules[m.index].enable # m.enabled)

MutatedTable(px, i, m, table) ==
  CASE m.op = "enable_table" -> SetTableEnabled(px, i, m, table)
    [] m.op = "insert_rule" -> InsertRule(px, i, m, table)
    [] m.op = "update_rule" -> UpdateRule(px, i, m, table)
    [] m.op = "delete_rule" -> DeleteRule(px, i, m, table)
    [] m.op = "move_rule" -> MoveRule(px, i, m, table)
    [] m.op = "enable_rule" -> SetRuleEnabled(px, i, m, table)

(* They need the preset m.preset names, which is the one at i. *)
MutatedPreset(px, i, m) ==
  IF IsBlank(m.preset) \/ i = 0 THEN Rejected(px)
  ELSE MutatedTable(px, i, m, px[1].presets[i][m.table])

Mutated(px, m) ==
  CASE m.op = "create" -> CreatePreset(px, Trim(m.name), m.initial)
    [] m.op = "rename" ->
         RenamePreset(px, PresetIndex(px, m.name), Trim(m.name), Trim(m.newName),
                      px # << >> /\ ActiveIs(px, Trim(m.name)))
    [] m.op = "delete" -> DeletePreset(px, PresetIndex(px, m.name), Trim(m.name))
    [] m.op = "activate" ->
         SetActivePreset(px, IF m.name = << >> THEN << >> ELSE <<Trim(m.name[1])>>)
    [] m.op = "enable" -> SetGlobalEnabled(px, m.enabled)
    [] OTHER -> MutatedPreset(px, PresetIndex(px, m.preset), m)
===========================================================================
