--------------------------- MODULE MCControlReads ---------------------------
(* Model values for ControlReads.  Of the captured bodies the first takes   *)
(* half of the cache once decoded, the others all of it.                    *)
EXTENDS ControlReads

MCInputSize == [c \in Captures |-> 1]
MCDecodedSize == [c \in Captures |-> IF c = 1 THEN 2 ELSE 4]

(* Documents with keys that fold to one, that look like an index, that must *)
(* be escaped; targets and patterns at depths 0, 1 and 2.                   *)
MCCaseFold == [c \in {"a", "A"} |-> "a"]

Finds(name, mode, limit) ==
  [op |-> "find", keys |-> {<<"a">>, <<"A">>}, size |-> 4, name |-> name, mode |-> mode,
   limit |-> limit]
Probes(raw, keys, size) ==
  [op |-> "probe", keys |-> keys, size |-> size, pattern |-> ParsePattern(raw)]
Selects(raw, keys, size) == [op |-> "select", keys |-> keys, size |-> size, target |-> raw]

MCInspections ==
  {Finds(<<"a">>, mode, limit) : mode \in {"exact", "folded"}, limit \in {1, 3}}
    \union {Probes(raw, {<<"0">>, <<"~">>}, 4) :
              raw \in {<< >>, <<"/", "~", "0">>, <<"/", "*", "/", "0">>, <<"/", "0", "/", "*">>}}
    \union {Probes(<<"/", "*">>, {<<"0">>}, 5)}
    \union {Selects(raw, {<<"0">>, <<"/">>}, 4) : raw \in {<< >>, <<"/", "0">>, <<"/", "~", "1">>}}
    \union {Selects(<<"/", "0", "/", "0">>, {<<"0">>}, 5)}

(* Texts of characters of one, two and four bytes, one of which folds to    *)
(* two characters; bytes that are no text, in chunks; URIs of all shapes;   *)
(* forms with escapes, and with characters that are cut or malformed.       *)
Chars == {"a", "A", "s", "ss", "e"}
MCWidth == [c \in Chars |-> CASE c = "ss" -> 2 [] c = "e" -> 4 [] OTHER -> 1]
MCFoldOf == [c \in Chars |-> CASE c = "A" -> <<"a">> [] c = "ss" -> <<"s", "s">> [] OTHER -> <<c>>]

Seqs(S, n) == UNION {[1..k -> S] : k \in 0..n}

Searches ==
  [op : {"search"}, text : Seqs({"a", "s", "ss"}, 4), limit : {2}, context : {0, 2},
   query : {<<"a", "s">>, <<"s", "s">>, <<"A", "a">>, <<"s">>, <<"s", "a", "s">>, <<"ss", "a">>}]

TextPages ==
  [op : {"page"}, form : {"decoded"}, utf8 : {TRUE}, text : Seqs({"a", "ss", "e"}, 3),
   offset : 0..5, length : 1..3, uri : {<< >>}]

BytePages ==
  [op : {"page"}, form : {"raw", "decoded"}, utf8 : {FALSE}, text : {<<"a", "a", "a", "a">>},
   chunks : {<<1, 3>>, <<2, 0, 2>>, <<1, 1, 1, 1>>}, offset : 0..5, length : 1..3, uri : {<< >>}]

(* The selector 9, offsets and lengths; a value may be spelt in another way. *)
Pairs(name, values, spelt) == [name : {name}, value : values, canonical : spelt]
Uris ==
  Seqs(Pairs("key", {9}, {TRUE}) \union Pairs("offset", {0, 1, 2}, {TRUE})
               \union Pairs("length", {1, 3}, BOOLEAN), 3)

SelectedPages ==
  [op : {"page"}, form : {"selected"}, utf8 : {TRUE}, text : {<<"a", "ss", "e", "a">>},
   kind : {"form-field"}, offset : {0}, length : {0}, uri : Uris]

Forms ==
  [op : {"form"}, key : {<<97>>, <<195, 169>>},
   input : Seqs({97, 38, 61, 195, 169}, 4) \union {[i \in 1..11 |-> 97]}]

EscapedForms ==
  [op : {"form"}, key : {<<97>>}, input : {<<97, 61>> \o s : s \in Seqs({37, 52, 226, 169}, 5)}]

MCTasks ==
  Searches \union TextPages \union BytePages \union SelectedPages \union Forms \union EscapedForms
=============================================================================
