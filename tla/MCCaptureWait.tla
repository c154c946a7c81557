--------------------------- MODULE MCCaptureWait ----------------------------
(***************************************************************************)
(* Instances of CaptureWait.                                               *)
(***************************************************************************)
EXTENDS CaptureWait

Want(query, milestone) == [query |-> query, milestone |-> milestone]

SomeWants == {Want("status", "ExchangeTerminal"), Want("live", "ResponseStarted")}

OneWant == {Want("status", "ResponseStarted")}

\* Nothing is left to see once every call has returned.
Unfinished == \E w \in Waits : wait[w].at # "answered" \/ wait[w].running
=============================================================================
