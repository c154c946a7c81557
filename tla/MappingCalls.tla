---------------------------- MODULE MappingCalls ----------------------------
(***************************************************************************)
(* The change of the settings, taken apart: how transactions of clients    *)
(* and of the popup race, persist and end (SettingsTransactions), what one *)
(* client makes of the mapping tools while others change the same document *)
(* (MappingTools), and what becomes of the file over starts, commits and   *)
(* changes by hand (SettingsFile).  A behaviour is of one of them: the     *)
(* race does not depend on what a change is, the tools meet it as          *)
(* revisions, drafts and pending transactions of others, and the file sees *)
(* one commit at a time.                                                   *)
(***************************************************************************)
EXTENDS SettingsTransactions, MappingTools, SettingsFile

AnyDoc == {CHOOSE doc \in ToolDocs : TRUE}
NoFile == {[at |-> "absent"]}

TransactionsBegin == Init /\ ToolsInit(AnyDoc, "away") /\ FileInit(NoFile)
ToolsBegin == Init /\ ToolsInit(ToolDocs, "idle") /\ FileInit(NoFile)
FileBegins == Init /\ ToolsInit(AnyDoc, "file") /\ FileInit(Files)

MappingNext ==
  \/ editor = "away" /\ Next /\ UNCHANGED <<toolVars, fileVars>>
  \/ editor \notin {"away", "file"} /\ ToolsNext /\ UNCHANGED <<vars, fileVars>>
  \/ editor = "file" /\ FileNext /\ UNCHANGED <<vars, toolVars>>

MappingSpec ==
  /\ TransactionsBegin \/ ToolsBegin \/ FileBegins
  /\ [][MappingNext]_<<vars, toolVars, fileVars>>
  /\ WF_vars(Coordinator) /\ WF_vars(EventLoop)
  /\ \A r \in Requests : WF_vars(Enqueue(r))
  /\ \A s \in Saves : WF_vars(Complete(s))
=============================================================================
