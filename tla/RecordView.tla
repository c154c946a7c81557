----------------------------- MODULE RecordView -----------------------------
(***************************************************************************)
(* What a consumer of the capture change feed may rely on, record by       *)
(* record: a record is admitted once, then every revision of it is         *)
(* announced in order and without a hole, then it is removed for one       *)
(* reason and never mentioned again.  control/capture_query and the        *)
(* wait-for-capture loop of the control service are written against this   *)
(* promise.  CaptureLifecycle, where the pumps and the runtime race, is    *)
(* shown to keep it.                                                       *)
(***************************************************************************)
EXTENDS Integers

CONSTANTS Captures, Updates, Removals

VARIABLE view   \* the last change announced about each capture

viewInit == view = [c \in Captures |-> [kind |-> "None", revision |-> 0]]

Announce(c, kind, revision) ==
  view' = [view EXCEPT ![c] = [kind |-> kind, revision |-> revision]]

\* A record may have been mutated any number of times before it was public.
Admit(c) ==
  /\ view[c].kind = "None"
  /\ view'[c].revision \in Nat
  /\ Announce(c, "Admitted", view'[c].revision)

Update(c) ==
  /\ view[c].kind \in {"Admitted"} \union Updates
  /\ \E kind \in Updates : Announce(c, kind, view[c].revision + 1)

Remove(c) ==
  /\ view[c].kind \in {"Admitted"} \union Updates
  /\ \E kind \in Removals : Announce(c, kind, view[c].revision)

viewNext == \E c \in Captures : Admit(c) \/ Update(c) \/ Remove(c)

viewSpec == viewInit /\ [][viewNext]_view
=============================================================================
