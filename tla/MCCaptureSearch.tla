-------------------------- MODULE MCCaptureSearch ---------------------------
(* Model values for CaptureSearch.  Three captures differ in mapping, in    *)
(* headers and in the size of their row; two rows fill a page's budget, or  *)
(* exceed it together.                                                      *)
EXTENDS CaptureSearch

OneWant == {[query |-> "status", milestone |-> "ResponseStarted"]}

MCFoldOf == [c \in {"a", "A", "s", "ss", "0", "2", "4"} |->
               CASE c = "A" -> <<"a">> [] c = "ss" -> <<"s", "s">> [] OTHER -> <<c>>]
MCGlobs == (<<"a", "s">> :> {<<"s">>, <<"s", "s">>, <<"a">>})

Header(name, value) == [name |-> name, value |-> value]
Request(original, effective, local, headers) ==
  [method |-> <<"A">>, original |-> original, effective |-> effective, local |-> local,
   headers |-> headers, at |-> 1]

MCRequested ==
  <<Request(<<"s">>, <<"s">>, FALSE, << >>),
    Request(<<"ss">>, <<"A">>, FALSE, <<Header(<<"s", "s">>, <<"A">>)>>),
    Request(<<"A">>, <<"A">>, TRUE, << >>)>>
MCResponded ==
  [c \in 1..3 |-> [status |-> IF c = 2 THEN 404 ELSE 200,
                   headers |-> IF c = 3 THEN <<Header(<<"ss">>, <<"a">>)>> ELSE << >>]]
MCRowSize == <<2, 1, 3>>

Anything ==
  [method |-> << >>, original |-> << >>, effective |-> << >>, status |-> << >>, header |-> << >>,
   mapping |-> << >>, lifecycle |-> << >>, startedMin |-> << >>, startedMax |-> << >>,
   sequenceMin |-> << >>, sequenceMax |-> << >>, text |-> << >>]
Status(exact, minimum, maximum) == [exact |-> exact, minimum |-> minimum, maximum |-> maximum]

MCQueries ==
  {[Anything EXCEPT
      !.method = <<<<"a">>>>, !.startedMin = <<1>>, !.lifecycle = <<"live">>,
      !.original = <<[mode |-> "glob", value |-> <<"A", "s">>]>>],
   [Anything EXCEPT
      !.header = <<[name |-> <<"ss">>, value |-> <<<<"A">>>>]>>, !.text = <<<<"0">>>>,
      !.effective = <<[mode |-> "substring", value |-> <<"a">>]>>,
      !.status = <<Status(<< >>, <<200>>, <<404>>)>>],
   [Anything EXCEPT !.sequenceMin = <<2>>, !.sequenceMax = <<1>>],
   [Anything EXCEPT !.status = <<Status(<<200>>, <<200>>, << >>)>>]}
=============================================================================
