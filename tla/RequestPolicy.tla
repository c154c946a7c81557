--------------------------- MODULE RequestPolicy ---------------------------
(* What the proxy does with a request: the policy compiled from the        *)
(* settings document (mapping rules of the active preset, the recording    *)
(* prefilter), its evaluation, and the explanation the control service     *)
(* gives of a document.  A request URL is [origin, path, port]: `port`     *)
(* says whether the origin's default port is written, or another port is.  *)
EXTENDS MappingDocument

CONSTANTS
  Matches,  \* the URLs each valid prefilter pattern matches, as a function
  BadGlobs  \* the prefilter patterns that are no valid glob

RequestUrl(origin, path, port) == [origin |-> origin, path |-> path, port |-> port]

(*------------------------------- compilation ------------------------------*)

(* The preset whose rules are compiled, 0 when there is none. *)
CompiledPreset(px) ==
  IF px = << >> \/ ~px[1].enable \/ ActiveDiagnosed(px) \/ px[1].presets = << >> THEN 0
  ELSE ActiveIndex(px)

Pattern(rule) == [origin |-> rule.from.origin, path |-> rule.from.path]

(* A bug: the first rule of a pattern is kept. *)
InsertUnlessKnown(compiled, pattern, target) == compiled @@ (pattern :> target)

(* A rule is keyed by its pattern: a later one replaces an earlier one. *)
InsertCompiled(compiled, pattern, target) == (pattern :> target) @@ compiled

CompileRules(name, table) ==
  FoldLeftDomain(LAMBDA compiled, i :
    IF ~table.rules[i].enable \/ ~ValidFields(name, table.rules[i]) THEN compiled
    ELSE InsertCompiled(compiled, Pattern(table.rules[i]),
                        [to |-> table.rules[i].to, index |-> i]),
    << >>, table.rules)

CompilePresetTable(px, i, name) ==
  IF i = 0 THEN << >>
  ELSE IF ~px[1].presets[i][name].enable THEN << >>
  ELSE CompileRules(name, px[1].presets[i][name])

CompileTable(px, name) == CompilePresetTable(px, CompiledPreset(px), name)

Enabled(patterns) == {patterns[i].pattern : i \in {j \in DOMAIN patterns : patterns[j].enable}}

CompilePrefilter(prefilter) ==
  LET globs == Enabled(prefilter.patterns) \ BadGlobs IN
  [enabled |-> prefilter.enable,
   matcher |-> IF prefilter.patterns = << >> THEN "all"
               ELSE IF globs = {} THEN "none" ELSE "patterns",
   globs |-> globs]

Compile(doc) ==
  [remote |-> CompileTable(doc.proxy, "remote"),
   local |-> CompileTable(doc.proxy, "local"),
   prefilter |-> CompilePrefilter(doc.prefilter)]

(* Only an invalid glob that is enabled is an error; mapping diagnostics   *)
(* are warnings here.                                                      *)
Compiles(doc) == Enabled(doc.prefilter.patterns) \cap BadGlobs = {}

(*-------------------------------- evaluation ------------------------------*)

Met(compiled, pattern) == IF pattern \in DOMAIN compiled THEN <<compiled[pattern]>> ELSE << >>

(* The compiled rule a URL meets, as an option: its whole path comes first. *)
MatchTarget(compiled, url) ==
  IF [origin |-> url.origin, path |-> url.path] \in DOMAIN compiled
  THEN Met(compiled, [origin |-> url.origin, path |-> url.path])
  ELSE Met(compiled, [origin |-> url.origin, path |-> ""])

ApplyTo(target, url) ==
  RequestUrl(target.origin, IF target.path = "" THEN url.path ELSE target.path,
          IF target.spelled = "ported" THEN "other" ELSE "default")

(* The local table is asked about the URL the remote one made. *)
TraceFrom(policy, remote, effective) ==
  [remote |-> remote, effective |-> effective, local |-> MatchTarget(policy.local, effective)]

TraceMet(policy, remote, url) ==
  TraceFrom(policy, remote, IF remote = << >> THEN url ELSE ApplyTo(remote[1].to, url))

Trace(policy, url) == TraceMet(policy, MatchTarget(policy.remote, url), url)

Decision(trace) ==
  [mapped |-> IF trace.remote = << >> THEN << >> ELSE <<trace.effective>>,
   local |-> IF trace.local = << >> THEN << >> ELSE <<trace.local[1].to>>]

MapRequest(policy, url) == Decision(Trace(policy, url))

(* The same URL with its default port written, or left out. *)
Alternates(url) ==
  IF url.port = "other" THEN {}
  ELSE {[url EXCEPT !.port = IF @ = "default" THEN "written" ELSE "default"]}

Includes(prefilter, url) ==
  \/ ~prefilter.enabled
  \/ prefilter.matcher = "all"
  \/ /\ prefilter.matcher = "patterns"
     /\ \E glob \in prefilter.globs : Matches[glob] \cap ({url} \union Alternates(url)) # {}

(* What becomes of a request: where it goes, and whether it is recorded. *)
Evaluated(policy, url, recording, decision) ==
  [decision |-> decision,
   urls |-> IF recording THEN "recording"
            ELSE IF decision.mapped # << >> \/ decision.local # << >> THEN "mapping_only"
            ELSE "none",
   included |-> recording /\ Includes(policy.prefilter, IF decision.mapped = << >> THEN url
                                                        ELSE decision.mapped[1])]

Evaluate(policy, url, recording) ==
  Evaluated(policy, url, recording, MapRequest(policy, url))

(*------------------------------- explanation ------------------------------*)

GatesOf(px, i) ==
  [present |-> px # << >>,
   global |-> px # << >> /\ px[1].enable,
   active |-> i,
   remote |-> i # 0 /\ px[1].presets[i].remote.enable,
   local |-> i # 0 /\ px[1].presets[i].local.enable]

Gates(px) ==
  GatesOf(px, IF px = << >> \/ px[1].active = << >> THEN 0
              ELSE IF IsBlank(px[1].active[1]) THEN 0 ELSE ActiveIndex(px))

ExplainedRule(i, table, match) ==
  IF match = << >> THEN << >> ELSE <<[preset |-> i, table |-> table, index |-> match[1].index]>>

ExplainTrace(px, i, trace) ==
  [effective |-> [trace.effective EXCEPT !.port = IF @ = "written" THEN "default" ELSE @],
   local |-> Decision(trace).local,
   matches |-> ExplainedRule(i, "remote", trace.remote) \o ExplainedRule(i, "local", trace.local),
   gates |-> Gates(px)]

(* The explanation compiles the document anew and traces the URL in it; a  *)
(* default port that is written does not survive the parsing of the URL.   *)
Explain(px, url) ==
  ExplainTrace(px, CompiledPreset(px),
               Trace([remote |-> CompileTable(px, "remote"),
                      local |-> CompileTable(px, "local")], url))
===========================================================================
