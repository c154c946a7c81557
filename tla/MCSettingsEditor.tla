-------------------------- MODULE MCSettingsEditor --------------------------
(* Two origins with a path each, names that differ in their padding, texts *)
(* that are parsed alike, a glob that is none.                             *)
EXTENDS SettingsEditor

a == Plain("a")
b == Plain("b")
padded == [text |-> "a", padded |-> TRUE]
blank == Plain("")

alike == [Url("o1", "") EXCEPT !.spelled = "variant"]
ported == [Url("o2", "/x") EXCEPT !.spelled = "ported"]

MCTypedNames == {a, Plain("c")}
MCFreshNames == <<Plain("Preset 1"), Plain("Preset 2"), Plain("Preset 3")>>
MCDefaultName == Plain("default")
MCTexts == {ported, BlankText}
Rule(from, to, enable) == [from |-> from, to |-> to, enable |-> enable]
MCAddedRule == [remote |-> Rule(Url("o1", "/x"), Url("o2", "/y"), TRUE),
                local |-> Rule(Url("o1", ""), File("mock"), TRUE)]
MCGlobs == {"g1", "bad"}
MCMatches == [g1 |-> {RequestUrl("o2", "/x", "written"), RequestUrl("o1", "/", "default")},
              example |-> {RequestUrl("o2", "/x", "default")}]

BaseDoc == [port |-> "8080", certificate |-> [dir |-> "d", file |-> "f"], record |-> TRUE,
            autoExpand |-> FALSE, prefilter |-> [enable |-> TRUE, patterns |-> << >>],
            proxy |-> << >>]

Table(rules) == [enable |-> TRUE, rules |-> rules]
FullPreset(name) ==
  [name |-> name,
   remote |-> Table(<<Rule(Url("o1", ""), Url("o2", ""), TRUE),
                      Rule(alike, ported, TRUE)>>),
   local |-> NoRules(TRUE)]

(* Patterns beside a proxy that is absent, and rules without one.          *)
Filtered == [BaseDoc EXCEPT
               !.prefilter.patterns = <<[pattern |-> "g1", enable |-> TRUE],
                                        [pattern |-> "bad", enable |-> FALSE]>>]

Full == [BaseDoc EXCEPT
           !.proxy = <<[enable |-> TRUE, active |-> <<b>>,
                        presets |-> <<Preset(padded, TRUE), FullPreset(b)>>]>>]

(* A document the tolerant loader accepts and the editors would refuse.    *)
Odd == [BaseDoc EXCEPT
          !.proxy = <<[enable |-> TRUE, active |-> <<padded>>,
                       presets |-> <<[Preset(a, TRUE) EXCEPT
                         !.remote.rules = <<Rule(Url("o1", ""), BlankText, TRUE)>>]>>]>>]
Empty == [BaseDoc EXCEPT !.proxy = <<[enable |-> TRUE, active |-> << >>, presets |-> << >>]>>]

MCStartDocs == {Filtered, Full, Odd, Empty}

MCMutations ==
  {[op |-> "create", name |-> padded, initial |-> FullPreset(blank)],
   [op |-> "rename", name |-> b, newName |-> a],
   [op |-> "rename", name |-> a, newName |-> a],
   [op |-> "rename", name |-> a, newName |-> blank],
   [op |-> "delete", name |-> b],
   [op |-> "activate", name |-> << >>],
   [op |-> "activate", name |-> <<padded>>],
   [op |-> "enable", enabled |-> FALSE],
   [op |-> "enable_table", preset |-> b, table |-> "remote", enabled |-> FALSE],
   [op |-> "insert_rule", preset |-> b, table |-> "local", index |-> << >>,
    rule |-> Rule(Url("o2", "/x"), File("x"), TRUE)],
   [op |-> "insert_rule", preset |-> a, table |-> "remote", index |-> <<2>>,
    rule |-> Rule(Url("o1", ""), Url("o2", ""), TRUE)],
   [op |-> "update_rule", preset |-> b, table |-> "remote", index |-> 1,
    from |-> Url("o2", ""), to |-> Url("o1", "")],
   [op |-> "update_rule", preset |-> b, table |-> "remote", index |-> 1,
    from |-> Url("o2", ""), to |-> File("y")],
   [op |-> "delete_rule", preset |-> b, table |-> "remote", index |-> 2],
   [op |-> "move_rule", preset |-> b, table |-> "remote", from |-> 1, to |-> 2],
   [op |-> "enable_rule", preset |-> b, table |-> "remote", index |-> 2, enabled |-> FALSE]}

MCUrls == {RequestUrl("o1", "/", "default"), RequestUrl("o1", "/x", "written"),
           RequestUrl("o1", "/x", "other"), RequestUrl("o2", "/y", "default")}
=============================================================================
