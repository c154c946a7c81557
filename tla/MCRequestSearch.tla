--------------------------- MODULE MCRequestSearch -------------------------
EXTENDS RequestSearch

(* /x/t, and //y/t?x with the same host in its Host header *)
MCUris == <<
    [absolute |-> TRUE, origin |-> "a", host |-> "", path |-> <<"x", "t">>, query |-> ""],
    [absolute |-> FALSE, origin |-> "", host |-> "a", path |-> <<"", "y", "t">>, query |-> "x"]>>

MCSettings == {[auto |-> TRUE, maxRecords |-> 1], [auto |-> FALSE, maxRecords |-> 2]}

(* "t" is in every leaf, "x" in a branch and in a leaf *)
MCMatched == [q \in {"", "t", "x"} |->
    CASE q = "" -> {}
      [] q = "t" -> {<<"t", "">>, <<"t", "x">>}
      [] OTHER -> {<<"x", "">>, <<"t", "x">>}]
=============================================================================
