---------------------------- MODULE SettingsFile ----------------------------
(* The settings file.  It is read tolerantly at the start, and written when *)
(* settings are committed.  A write keeps what the user wrote and the       *)
(* program would leave out, explicit defaults and keys it does not know, as *)
(* long as the file still says the settings.                                *)
(*                                                                          *)
(* A file is a tree: a function from paths to nodes, where a path is a      *)
(* sequence of keys and of places in lists.  The order of keys, which the   *)
(* code also keeps, is layout.  Of the sections those are modelled that     *)
(* have defaults to leave out: the proxy section and the prefilter.         *)
EXTENDS RequestPolicy

CONSTANTS
  Places,        \* the names of the places in a list, in order
  Files,         \* what may be found at the start, or put there by the user
  FileMutations, \* the mutations of the proxy section
  Prefilters,    \* the prefilters the popup may set
  MaxLoads,      \* bound: starts of the program
  MaxSaves,      \* bound: commits
  MaxHandEdits   \* bound: changes of the file by the user

VARIABLES
  file,      \* [at, doc]: absent, empty, broken (no YAML) or a document
  session,   \* [mode, settings], or the mode is down
  prepared,  \* a commit whose temporary file is written, as an option
  last,      \* the last write, as an option; the user's writes make it none
  used       \* loads, saves and hand edits so far

fileVars == <<file, session, prepared, last, used>>

(*---------------------------------- trees ---------------------------------*)

Map == [node |-> "map"]
List == [node |-> "list"]
Null == [node |-> "null"]
Text(t) == [text |-> t]
Flag(b) == [flag |-> b]

(* Children are pairs of a key and a tree. *)
Tree(node, children) ==
  [p \in {<< >>} \union UNION {{<<c[1]>> \o q : q \in DOMAIN c[2]} : c \in children} |->
     IF p = << >> THEN node ELSE (CHOOSE c \in children : c[1] = Head(p))[2][Tail(p)]]

Leaf(node) == Tree(node, {})
ListTree(items) == Tree(List, {<<Places[i], items[i]>> : i \in DOMAIN items})

Rest(path, p) == SubSeq(p, Len(path) + 1, Len(p))
Below(d, path) == {p \in DOMAIN d : IsPrefix(path, p)}
SubTree(d, path) == [r \in {Rest(path, p) : p \in Below(d, path)} |-> d[path \o r]]

Replaced(d, path, tree) ==
  [p \in (DOMAIN d \ Below(d, path)) \union {path \o r : r \in DOMAIN tree} |->
     IF IsPrefix(path, p) THEN tree[Rest(path, p)] ELSE d[p]]

Items(d, path) ==
  [i \in 1 .. Cardinality({k \in DOMAIN Places : Append(path, Places[k]) \in DOMAIN d}) |->
     Append(path, Places[i])]

(*--------------------------------- writing --------------------------------*)

Only(condition, child) == IF condition THEN {child} ELSE {}

(* `enable` is left out where it is true, a list where it is empty, and an  *)
(* optional or default part where it is that.                              *)
EnableTree(enable) == Only(~enable, <<"enable", Leaf(Flag(FALSE))>>)
Listed(key, items) == Only(items # << >>, <<key, ListTree(items)>>)

RuleTree(rule) ==
  Tree(Map, {<<"from", Leaf(Text(rule.from))>>, <<"to", Leaf(Text(rule.to))>>}
            \union EnableTree(rule.enable))

TableTree(table) ==
  Tree(Map, EnableTree(table.enable)
            \union Listed("rules", [i \in DOMAIN table.rules |-> RuleTree(table.rules[i])]))

PresetTree(preset) ==
  Tree(Map, Only(preset.name # Plain(""), <<"name", Leaf(Text(preset.name))>>)
            \union Only(preset.remote # NoRules(TRUE), <<"map_remote", TableTree(preset.remote)>>)
            \union Only(preset.local # NoRules(TRUE), <<"map_local", TableTree(preset.local)>>))

ProxyTree(proxy) ==
  Tree(Map, EnableTree(proxy.enable)
            \union (IF proxy.active = << >> THEN {}
                    ELSE {<<"active_preset", Leaf(Text(proxy.active[1]))>>})
            \union Listed("presets",
                          [i \in DOMAIN proxy.presets |-> PresetTree(proxy.presets[i])]))

(* A pattern is always written in full. *)
PatternTree(pattern) ==
  Tree(Map, {<<"pattern", Leaf(Text(pattern.pattern))>>, <<"enable", Leaf(Flag(pattern.enable))>>})

PrefilterTree(prefilter) ==
  Tree(Map, EnableTree(prefilter.enable)
            \union Listed("include_url_patterns",
                          [i \in DOMAIN prefilter.patterns |-> PatternTree(prefilter.patterns[i])]))

NoPrefilter == [enable |-> TRUE, patterns |-> << >>]
DisabledPrefilter == [enable |-> FALSE, patterns |-> << >>]
DefaultSettings == [proxy |-> << >>, prefilter |-> NoPrefilter]

RecordingTree(prefilter) ==
  Tree(Map, Only(prefilter # NoPrefilter, <<"prefilter", PrefilterTree(prefilter)>>))

SettingsTree(settings) ==
  Tree(Map, {<<"recording", RecordingTree(settings.prefilter)>>}
            \union (IF settings.proxy = << >> THEN {}
                    ELSE {<<"proxy", ProxyTree(settings.proxy[1])>>}))

(*--------------------------------- reading --------------------------------*)

(* What is there must be of the right type; what is not has its default,   *)
(* and keys that mean nothing are passed over.                             *)
IsMap(d, p) == p \in DOMAIN d => d[p] = Map
IsList(d, p) == p \in DOMAIN d => d[p] = List
IsText(d, p) == p \in DOMAIN d => "text" \in DOMAIN d[p]
IsFlag(d, p) == p \in DOMAIN d => "flag" \in DOMAIN d[p]
IsAbsent(d, p) == p \in DOMAIN d => d[p] = Null

FlagAt(d, p) == IF p \in DOMAIN d THEN d[p].flag ELSE TRUE
TextAt(d, p, default) == IF p \in DOMAIN d THEN d[p].text ELSE default

RuleReads(d, p) ==
  /\ IsMap(d, p) /\ IsFlag(d, Append(p, "enable"))
  /\ IsText(d, Append(p, "from")) /\ IsText(d, Append(p, "to"))

TableReads(d, p) ==
  /\ IsMap(d, p) /\ IsFlag(d, Append(p, "enable")) /\ IsList(d, Append(p, "rules"))
  /\ \A item \in ToSet(Items(d, Append(p, "rules"))) : RuleReads(d, item)

PresetReads(d, p) ==
  /\ IsMap(d, p) /\ IsText(d, Append(p, "name"))
  /\ TableReads(d, Append(p, "map_remote")) /\ TableReads(d, Append(p, "map_local"))

Proxy == <<"proxy">>
ActiveOf == <<"proxy", "active_preset">>
PresetsOf == <<"proxy", "presets">>
Recording == <<"recording">>
Prefilter == <<"recording", "prefilter">>
Patterns == <<"recording", "prefilter", "include_url_patterns">>

ProxyReads(d) ==
  \/ IsAbsent(d, Proxy)
  \/ /\ IsMap(d, Proxy) /\ IsFlag(d, Append(Proxy, "enable"))
     /\ IsText(d, ActiveOf) \/ IsAbsent(d, ActiveOf)
     /\ IsList(d, PresetsOf)
     /\ \A item \in ToSet(Items(d, PresetsOf)) : PresetReads(d, item)

(* An old pattern is a text. *)
IsLegacy(d, p) == "text" \in DOMAIN d[p]
PatternReads(d, p) ==
  \/ IsLegacy(d, p)
  \/ /\ d[p] = Map /\ Append(p, "pattern") \in DOMAIN d
     /\ IsText(d, Append(p, "pattern")) /\ IsFlag(d, Append(p, "enable"))

PrefilterReads(d) ==
  /\ IsMap(d, Prefilter) /\ IsFlag(d, Append(Prefilter, "enable")) /\ IsList(d, Patterns)
  /\ \A item \in ToSet(Items(d, Patterns)) : PatternReads(d, item)

Reads(d) == IsMap(d, << >>) /\ IsMap(d, Recording) /\ PrefilterReads(d) /\ ProxyReads(d)

RuleAt(d, p) ==
  [from |-> TextAt(d, Append(p, "from"), BlankText), to |-> TextAt(d, Append(p, "to"), BlankText),
   enable |-> FlagAt(d, Append(p, "enable"))]

TableAt(d, p) ==
  [enable |-> FlagAt(d, Append(p, "enable")),
   rules |-> [i \in DOMAIN Items(d, Append(p, "rules")) |->
                RuleAt(d, Items(d, Append(p, "rules"))[i])]]

PresetAt(d, p) ==
  [name |-> TextAt(d, Append(p, "name"), Plain("")),
   remote |-> TableAt(d, Append(p, "map_remote")), local |-> TableAt(d, Append(p, "map_local"))]

ProxyAt(d) ==
  IF IsAbsent(d, Proxy) THEN << >>
  ELSE <<[enable |-> FlagAt(d, Append(Proxy, "enable")),
          active |-> IF IsAbsent(d, ActiveOf) THEN << >> ELSE <<d[ActiveOf].text>>,
          presets |-> [i \in DOMAIN Items(d, PresetsOf) |-> PresetAt(d, Items(d, PresetsOf)[i])]]>>

PatternAt(d, p) ==
  IF IsLegacy(d, p) THEN [pattern |-> d[p].text, enable |-> TRUE]
  ELSE [pattern |-> d[Append(p, "pattern")].text, enable |-> FlagAt(d, Append(p, "enable"))]

PrefilterAt(d) ==
  [enable |-> FlagAt(d, Append(Prefilter, "enable")),
   patterns |-> [i \in DOMAIN Items(d, Patterns) |-> PatternAt(d, Items(d, Patterns)[i])]]

Meaning(d) == [proxy |-> ProxyAt(d), prefilter |-> PrefilterAt(d)]

(* Malformed patterns are taken out, and then a malformed prefilter is     *)
(* replaced by a disabled one; anything else malformed is an error.        *)
WithoutMalformed(d) ==
  IF Patterns \in DOMAIN d /\ d[Patterns] = List
  THEN Replaced(d, Patterns,
                ListTree([i \in DOMAIN SelectSeq(Items(d, Patterns), LAMBDA p : PatternReads(d, p)) |->
                   SubTree(d, SelectSeq(Items(d, Patterns), LAMBDA p : PatternReads(d, p))[i])]))
  ELSE d

Mended(clean) == Replaced(clean, Prefilter, PrefilterTree(DisabledPrefilter))

ToleratedClean(d, clean) ==
  IF Reads(clean) THEN <<[settings |-> Meaning(clean), diagnosed |-> clean # d]>>
  ELSE IF Prefilter \in DOMAIN clean /\ ~PrefilterReads(clean) /\ Reads(Mended(clean))
       THEN <<[settings |-> Meaning(Mended(clean)), diagnosed |-> TRUE]>>
       ELSE << >>

Tolerated(d) == ToleratedClean(d, WithoutMalformed(d))

(*------------------------------- preservation -----------------------------*)

Says(d, settings) == Reads(d) /\ Meaning(d) = settings

(* What the previous file has and the new one would not, outermost first.  *)
Missing(value, previous) ==
  {p \in DOMAIN previous \ DOMAIN value :
     /\ p # << >> /\ Front(p) \in DOMAIN value
     /\ value[Front(p)] = Map /\ previous[Front(p)] = Map}

WithEntries(value, previous, entries) ==
  [p \in DOMAIN value \union UNION {Below(previous, e) : e \in entries} |->
     IF p \in DOMAIN value THEN value[p] ELSE previous[p]]

(* Each on its own, when not all can be kept. *)
KeptOneByOne(value, previous, settings) ==
  FoldSet(LAMBDA entry, kept : IF Says(WithEntries(kept, previous, {entry}), settings)
                               THEN WithEntries(kept, previous, {entry}) ELSE kept,
          value, Missing(value, previous))

(* A bug: whatever is not contradicted in place is taken to be harmless. *)
KeptUnseen(value, previous, settings) == WithEntries(value, previous, Missing(value, previous))

Kept(value, previous, settings) ==
  IF Says(WithEntries(value, previous, Missing(value, previous)), settings)
  THEN WithEntries(value, previous, Missing(value, previous))
  ELSE KeptOneByOne(value, previous, settings)

(* The new content of the file, given the old one as an option. *)
Content(settings, previous) ==
  IF previous = << >> THEN SettingsTree(settings)
  ELSE Kept(SettingsTree(settings), WithoutMalformed(previous[1]), settings)

(*--------------------------------- actions --------------------------------*)

Down == [mode |-> "down"]
Previous == IF file.at = "doc" THEN <<file.doc>> ELSE << >>
Write(settings, previous, start) ==
  [settings |-> settings, before |-> previous, doc |-> Content(settings, previous), start |-> start]

FileInit(found) ==
  /\ file \in found /\ session = Down /\ prepared = << >> /\ last = << >>
  /\ used = [loads |-> 0, saves |-> 0, edits |-> 0]

Found ==
  IF file.at = "doc" THEN Tolerated(file.doc)
  ELSE IF file.at = "broken" THEN << >>
       ELSE <<[settings |-> DefaultSettings, diagnosed |-> FALSE]>>

MayLoad ==
  /\ session = Down /\ used.loads < MaxLoads
  /\ used' = [used EXCEPT !.loads = @ + 1]

Written(write) == last' = <<write>> /\ file' = [at |-> "doc", doc |-> write.doc]

(* What was read without complaint is written back at once. *)
LoadDefault ==
  /\ MayLoad
  /\ \E found \in ToSet(Found) :
       /\ session' = [mode |-> "default_owned", settings |-> found.settings]
       /\ IF found.diagnosed THEN UNCHANGED <<file, last>>
          ELSE \E write \in {Write(found.settings, Previous, TRUE)} : Written(write)
  /\ UNCHANGED prepared

LoadReadOnly ==
  /\ MayLoad
  /\ file.at # "absent"
  /\ \E found \in ToSet(Found) : session' = [mode |-> "read_only_file", settings |-> found.settings]
  /\ UNCHANGED <<file, prepared, last>>

LoadTemporary ==
  /\ MayLoad
  /\ session' = [mode |-> "temporary", settings |-> DefaultSettings]
  /\ UNCHANGED <<file, prepared, last>>

(* The settings a mutation or the popup makes of those in force. *)
Candidates ==
  {[session.settings EXCEPT !.proxy = Mutated(session.settings.proxy, m).proxy] :
     m \in {m \in FileMutations : Mutated(session.settings.proxy, m).ok}}
  \union {[session.settings EXCEPT !.prefilter = p] : p \in Prefilters}

(* The old file is read and the new one written beside it.  The ephemeral  *)
(* modes write nothing.                                                    *)
PrepareFile ==
  /\ session # Down /\ prepared = << >> /\ used.saves < MaxSaves
  /\ session.mode = "default_owned" => file.at # "broken"
  /\ used' = [used EXCEPT !.saves = @ + 1]
  /\ \E settings \in Candidates :
       /\ settings # session.settings /\ Compiles(settings)
       /\ prepared' = <<IF session.mode = "default_owned" THEN Write(settings, Previous, FALSE)
                        ELSE [settings |-> settings]>>
  /\ UNCHANGED <<file, session, last>>

PersistFile ==
  /\ prepared # << >>
  /\ session' = [session EXCEPT !.settings = prepared[1].settings]
  /\ IF session.mode = "default_owned" THEN Written(prepared[1]) ELSE UNCHANGED <<file, last>>
  /\ prepared' = << >>
  /\ UNCHANGED used

PersistFails == prepared # << >> /\ prepared' = << >> /\ UNCHANGED <<file, session, last, used>>

(* The program ends, or is killed, at any step. *)
Exit ==
  /\ session # Down
  /\ session' = Down /\ prepared' = << >>
  /\ UNCHANGED <<file, last, used>>

HandEdit ==
  /\ used.edits < MaxHandEdits
  /\ used' = [used EXCEPT !.edits = @ + 1]
  /\ file' \in Files \ {file}
  /\ last' = << >>
  /\ UNCHANGED <<session, prepared>>

FileNext ==
  \/ LoadDefault \/ LoadReadOnly \/ LoadTemporary
  \/ PrepareFile \/ PersistFile \/ PersistFails \/ Exit \/ HandEdit

(*-------------------------------- properties ------------------------------*)

(* The file as the program left it says, without a complaint, the settings *)
(* that were written, also after a restart; those are in force while the   *)
(* program that owns the file runs.                                        *)
SaysWhatWasWritten ==
  \A write \in ToSet(last) :
    /\ file = [at |-> "doc", doc |-> write.doc]
    /\ Tolerated(write.doc) = <<[settings |-> write.settings, diagnosed |-> FALSE]>>
    /\ session.mode = "default_owned" => session.settings = write.settings

(* No entry of the file before is gone that could have stayed; a start     *)
(* loses none, and writing again changes nothing.                          *)
LosesNothing ==
  \A write \in ToSet(last) :
    /\ Content(write.settings, <<write.doc>>) = write.doc
    /\ \A before \in {WithoutMalformed(d) : d \in ToSet(write.before)} :
         /\ write.start => Missing(write.doc, before) = {}
         /\ \A entry \in Missing(write.doc, before) :
              ~Says(WithEntries(write.doc, before, {entry}), write.settings)

FileSaysTheSettings == SaysWhatWasWritten /\ LosesNothing
=============================================================================
