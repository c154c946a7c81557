-------------------------- MODULE VersionedSettings --------------------------
(***************************************************************************)
(* What the settings of an instance promise to the two kinds of writers:   *)
(* they are a register with a revision.  A control client adds its change  *)
(* to the very revision it has read, or not at all; the settings popup     *)
(* replaces the whole value.  SettingsTransactions, where admission, disk  *)
(* and publication are separate steps of three tasks, implements it.       *)
(***************************************************************************)
EXTENDS Integers, Sequences

CONSTANTS Tags, Writers

VARIABLES history,   \* the settings of every revision so far
          read       \* the revision each client bases its change on

registerInit(loaded) == history = <<loaded>>

Latest == history[Len(history)]

\* One change of a client that has read the latest revision.
Mutate(w) ==
  /\ read[w] = Len(history)
  /\ \E t \in Tags : history' = Append(history, Latest \union {t})

Replace == \E v \in SUBSET Tags : history' = Append(history, v)

\* "byPopup" tells whose commit a step is.
registerNext(byPopup) ==
  IF byPopup THEN Replace ELSE \E w \in Writers : Mutate(w)
==============================================================================
