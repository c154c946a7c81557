--------------------------- MODULE MCMappingCalls ---------------------------
(* The settings of SettingsTransactions are two options; the documents of   *)
(* the mapping tools have presets whose names differ in blanks or are long, *)
(* three rules to move, no proxy section, and a glob that is none.  The     *)
(* files have explicit defaults, keys the program does not know ("note"),   *)
(* old and malformed patterns, and malformed sections.                      *)
EXTENDS MappingCalls, TLC

a == Plain("a")
b == Plain("b")
long == Plain("long")
padded == [text |-> "a", padded |-> TRUE]

Rule(from, to, enable) == [from |-> from, to |-> to, enable |-> enable]
one == Rule(Url("o1", ""), Url("o2", ""), TRUE)
two == Rule(Url("o1", "/x"), Url("o2", "/y"), TRUE)
three == Rule(Url("o1", ""), Url("o2", "/z"), FALSE)
mock == Rule(Url("o2", "/y"), File("mock"), TRUE)

Filled(name, remote, local) ==
  [name |-> name, remote |-> [enable |-> TRUE, rules |-> remote],
   local |-> [enable |-> TRUE, rules |-> local]]

Doc(proxy, patterns) ==
  [proxy |-> proxy, prefilter |-> [enable |-> TRUE, patterns |-> patterns]]
Active(name, presets) == <<[enable |-> TRUE, active |-> name, presets |-> presets]>>

MCToolDocs ==
  {Doc(Active(<<b>>, <<Filled(padded, <<one>>, << >>), Filled(b, <<one, two, three>>, <<mock>>)>>),
       << >>),
   Doc(Active(<<padded>>, <<Filled(a, << >>, << >>), Filled(padded, <<two>>, << >>)>>), << >>),
   Doc(Active(<<a>>, <<Filled(a, <<two>>, << >>), Filled(long, << >>, <<mock>>)>>),
       <<[pattern |-> "bad", enable |-> TRUE]>>),
   Doc(<< >>, << >>)}

MCReadScopes ==
  {[preset |-> << >>, table |-> << >>], [preset |-> <<b>>, table |-> <<"remote">>],
   [preset |-> <<a>>, table |-> << >>]}

Gate(gate, enabled) == [tool |-> "set_mapping_gate", gate |-> gate, enabled |-> enabled]
Table(preset, table) == [kind |-> "table", preset |-> preset, table |-> table]
NewRule(enabled) == [from |-> Url("o2", ""), to |-> Url("o1", ""), enabled |-> enabled]

MCOperations ==
  {[tool |-> "create_preset", name |-> long, initial |-> << >>],
   [tool |-> "create_preset", name |-> padded,
    initial |-> <<[remote |-> [enabled |-> <<FALSE>>, rules |-> <<NewRule(<< >>)>>],
                   local |-> [enabled |-> << >>, rules |-> << >>]]>>],
   [tool |-> "rename_preset", name |-> b, newName |-> long],
   [tool |-> "rename_preset", name |-> a, newName |-> a],
   [tool |-> "delete_preset", name |-> a],
   [tool |-> "set_active_preset", active |-> <<padded>>],
   [tool |-> "set_active_preset", active |-> << >>],
   Gate([kind |-> "global"], FALSE),
   Gate(Table(long, "local"), FALSE),
   [tool |-> "create_mapping_rule", preset |-> b, table |-> "remote", index |-> <<1>>,
    rule |-> NewRule(<<FALSE>>)],
   [tool |-> "create_mapping_rule", preset |-> padded, table |-> "remote", index |-> << >>,
    rule |-> NewRule(<< >>)],
   [tool |-> "update_mapping_rule", preset |-> b, table |-> "local", index |-> 0,
    from |-> Url("o2", ""), to |-> File("other")],
   [tool |-> "delete_mapping_rule", preset |-> b, table |-> "remote", index |-> 1],
   [tool |-> "move_mapping_rule", preset |-> b, table |-> "remote", from |-> 0, to |-> 2],
   [tool |-> "move_mapping_rule", preset |-> b, table |-> "remote", from |-> 1, to |-> 3],
   [tool |-> "set_mapping_rule_enabled", preset |-> b, table |-> "remote", index |-> 2,
    enabled |-> TRUE]}

MCElsewhere ==
  {[op |-> "delete_rule", preset |-> b, table |-> "remote", index |-> 1],
   [op |-> "delete", name |-> a]}

MCUrl(origin, path) == RequestUrl(origin, path, "default")
MCNotAUrl == MCUrl("", "")
MCProbes == {<<MCUrl("o1", "/x"), MCNotAUrl>>, <<MCNotAUrl, MCNotAUrl, MCNotAUrl>>}
MCMatches == [g1 |-> {}]
MCShortened == [long |-> "lo"]

MCPlaces == <<"#1", "#2", "#3">>

Note == <<"note", Leaf(Text("a note"))>>
On == <<"enable", Leaf(Flag(TRUE))>>
Off == <<"enable", Leaf(Flag(FALSE))>>
Malformed == <<"enable", Leaf(Text("si"))>>
FileRule(from, to, more) ==
  Tree(Map, {<<"from", Leaf(Text(from))>>, <<"to", Leaf(Text(to))>>} \union more)
FilePreset(name, table, rules) ==
  Tree(Map, {<<"name", Leaf(Text(name))>>,
             <<table, Tree(Map, {On, Note, <<"rules", ListTree(rules)>>})>>})
ProxySection(more, presets) ==
  <<"proxy", Tree(Map, {<<"presets", ListTree(presets)>>} \union more)>>
PrefilterSection(more, patterns) ==
  <<"recording",
    Tree(Map, {<<"prefilter",
                 Tree(Map, {<<"include_url_patterns", ListTree(patterns)>>} \union more)>>})>>
FileDoc(sections) == [at |-> "doc", doc |-> Tree(Map, sections)]

fileRules ==
  <<FileRule(Url("o1", ""), Url("o2", ""), {Off, Note}),
    FileRule(Url("o1", "/x"), Url("o2", "/y"), {On})>>
oldPattern == Leaf(Text("g1"))
newPattern == Tree(Map, {<<"pattern", Leaf(Text("g1"))>>, Note})

MCFiles ==
  {[at |-> "absent"], [at |-> "empty"], [at |-> "broken"],
   FileDoc({ProxySection({<<"active_preset", Leaf(Text(a))>>, On}, <<FilePreset(a, "map_remote", fileRules)>>),
            PrefilterSection({On}, <<oldPattern, newPattern>>)}),
   FileDoc({ProxySection({<<"active_preset", Leaf(Null)>>}, << >>), Note,
            PrefilterSection({Note}, <<oldPattern, Leaf(Flag(TRUE)), newPattern>>)}),
   FileDoc({<<"proxy", Leaf(Null)>>, PrefilterSection({Malformed, Note}, <<newPattern>>)}),
   FileDoc({ProxySection({Malformed}, << >>)})}

MCFileMutations ==
  {[op |-> "delete_rule", preset |-> a, table |-> "remote", index |-> 1],
   [op |-> "delete", name |-> a],
   [op |-> "enable", enabled |-> FALSE]}
MCPrefilters ==
  {NoPrefilter, DisabledPrefilter, [enable |-> TRUE, patterns |-> <<[pattern |-> "g1", enable |-> FALSE]>>]}
=============================================================================
