---------------------------- MODULE BrokerTools ----------------------------
(* The tools and resources of the MCP broker, as far as they decide whom a  *)
(* call goes to and what may come back: what a tool needs to know of the    *)
(* instance, the operation it sends, the revision it pins, and what it      *)
(* tells its client of itself; the links to bodies that get_capture hands   *)
(* out and resource reads take.                                             *)
EXTENDS Naturals, Sequences, FiniteSets, SequencesExt

(* What a tool must know of its instance. *)
RequiresRun(requirement) == requirement \notin {"Discovery", "SnapshotRead"}

(* A call: the requirement, the operation and how it pins a revision of a   *)
(* capture ("not", "may" or "must").                                        *)
Sends(requirement, operation, pins) ==
  [requirement |-> requirement, operation |-> operation, pins |-> pins]

ListInstances == Sends("Discovery", "DescribeInstance", "not")
GetBrokerStatus == Sends("Discovery", "DescribeInstance", "not")
GetStatus == Sends("SnapshotRead", "GetStatus", "not")
SetRecordingEnabled == Sends("Mutation", "SetRecordingEnabled", "not")
MutateMapping == Sends("Mutation", "MutateMapping", "not")
GetMappingSettings == Sends("SnapshotRead", "GetMappingSettings", "not")
PreviewMappingMutation == Sends("Mutation", "PreviewMappingMutation", "not")
ValidateMappingSettings == Sends("SnapshotRead", "ValidateMappingSettings", "not")
ExplainMapping == Sends("SnapshotRead", "ExplainMapping", "not")
SearchCaptures == Sends("SnapshotRead", "SearchCaptures", "not")
GetCapture == Sends("TargetedBody", "GetCapture", "may")
SearchCaptureBody == Sends("TargetedBody", "SearchCaptureBody", "must")
ExtractCaptureBody == Sends("TargetedBody", "ExtractCaptureBody", "must")
FindJsonPointers == Sends("TargetedBody", "FindJsonPointers", "must")
ProbeJsonPointerPattern == Sends("TargetedBody", "ProbeJsonPointerPattern", "must")
ReadBodyResource == Sends("Resource", "ReadCaptureBody", "must")
ReadSelectionResource == Sends("Resource", "ReadSelectedBody", "must")
WaitForCapture == Sends("Wait", "WaitForCapture", "not")

(* What a tool says of itself: that it only reads, that it destroys, that   *)
(* repeating it changes nothing more.                                       *)
Hinted(call, readOnly, destructive, idempotent) ==
  [call |-> call, readOnly |-> readOnly, destructive |-> destructive, idempotent |-> idempotent]
Reads(call) == Hinted(call, TRUE, FALSE, TRUE)
Adds(call) == Hinted(call, FALSE, FALSE, FALSE)
Sets(call) == Hinted(call, FALSE, FALSE, TRUE)
Deletes(call) == Hinted(call, FALSE, TRUE, FALSE)

StatusTools ==
  [list_instances |-> Reads(ListInstances), get_broker_status |-> Reads(GetBrokerStatus),
   get_status |-> Reads(GetStatus), set_recording_enabled |-> Sets(SetRecordingEnabled)]
MappingReads ==
  [get_mapping_settings |-> Reads(GetMappingSettings),
   validate_mapping_settings |-> Reads(ValidateMappingSettings),
   explain_mapping |-> Reads(ExplainMapping),
   preview_mapping_mutation |-> Reads(PreviewMappingMutation)]
PresetTools ==
  [create_preset |-> Adds(MutateMapping), rename_preset |-> Adds(MutateMapping),
   delete_preset |-> Deletes(MutateMapping), set_active_preset |-> Sets(MutateMapping),
   set_mapping_gate |-> Sets(MutateMapping)]
RuleTools ==
  [create_mapping_rule |-> Adds(MutateMapping), update_mapping_rule |-> Adds(MutateMapping),
   delete_mapping_rule |-> Deletes(MutateMapping), move_mapping_rule |-> Adds(MutateMapping),
   set_mapping_rule_enabled |-> Sets(MutateMapping)]
CaptureTools ==
  [search_captures |-> Reads(SearchCaptures), get_capture |-> Reads(GetCapture),
   wait_for_capture |-> Hinted(WaitForCapture, TRUE, FALSE, FALSE)]
BodyTools ==
  [search_capture_body |-> Reads(SearchCaptureBody),
   extract_capture_body |-> Reads(ExtractCaptureBody),
   find_json_pointers |-> Reads(FindJsonPointers),
   probe_json_pointer_pattern |-> Reads(ProbeJsonPointerPattern)]
Resources ==
  [read_body |-> Reads(ReadBodyResource), read_selection |-> Reads(ReadSelectionResource)]

(* Two tables in one. *)
Joined(f, g) == [x \in DOMAIN f \cup DOMAIN g |-> IF x \in DOMAIN f THEN f[x] ELSE g[x]]

Tools ==
  Joined(Joined(Joined(StatusTools, MappingReads), Joined(PresetTools, RuleTools)),
         Joined(Joined(CaptureTools, BodyTools), Resources))

(* The operations that change an instance, and are audited one by one. *)
Mutating == {"SetRecordingEnabled", "MutateMapping"}

(*--------------------------------- links ----------------------------------*)

DefaultLength == 2      \* DEFAULT_BODY_PAGE_LENGTH
MaxLength == 3          \* MAX_BODY_PAGE_LENGTH

Link(endpoint, run, revision, side, representation, offset, length) ==
  [endpoint |-> endpoint, run |-> run, revision |-> revision, side |-> side,
   representation |-> representation, offset |-> offset, length |-> length]

(* A URI: whether authority, path and numbers are spelled as they would be  *)
(* written, the fixed segments, the others, and the pairs of the query.     *)
ContentSegments == <<"runs", "captures", "revisions", "bodies", "content">>

ToUri(link) ==
  [spelled |-> TRUE, endpoint |-> link.endpoint, segments |-> ContentSegments,
   run |-> link.run, revision |-> link.revision, side |-> link.side,
   representation |-> link.representation,
   query |-> <<<<"offset", link.offset>>, <<"length", link.length>>>>]

ValueOf(query, name, default) ==
  LET i == SelectInSeq(query, LAMBDA pair : pair[1] = name)
  IN  IF i = 0 THEN default ELSE query[i][2]

WellFormed(uri) ==
  /\ uri.spelled /\ uri.segments = ContentSegments
  /\ uri.side \in {"request", "response"} /\ uri.representation \in {"raw", "decoded"}
  /\ \A i, j \in DOMAIN uri.query :
       /\ uri.query[i][1] \in {"offset", "length"}
       /\ uri.query[i][1] = uri.query[j][1] => i = j
  /\ ValueOf(uri.query, "length", DefaultLength) \in 1..MaxLength

(* The link a URI stands for: a sequence of at most one. *)
ParseUri(uri) ==
  IF ~WellFormed(uri) THEN << >>
  ELSE <<Link(uri.endpoint, uri.run, uri.revision, uri.side, uri.representation,
              ValueOf(uri.query, "offset", 0), ValueOf(uri.query, "length", DefaultLength))>>

NextPage(link, offset) == [link EXCEPT !.offset = offset]

(* The links of a capture: a side that has not come yet has none. *)
SidesOf(responded) == {"request"} \cup (IF responded THEN {"response"} ELSE {})
BodyLinks(endpoint, run, revision, responded) ==
  {Link(endpoint, run, revision, side, representation, 0, DefaultLength) :
     side \in SidesOf(responded), representation \in {"raw", "decoded"}}
===========================================================================
