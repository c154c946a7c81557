------------------------- MODULE InstanceSelection -------------------------
(* Which instance a tool call of the broker reaches, and what its client is *)
(* told when it reaches none.  Instances come, fail and go, and a new run   *)
(* takes over the endpoint of an old one, while the broker reads the        *)
(* registry, probes what it found, forgets what is dead, selects, calls,    *)
(* and looks again when a wait has lost its instance.                       *)
EXTENDS ControlCalls, BrokerTools

CONSTANTS
  Endpoints,        \* proxy endpoints: numbers, in the order of the registry
  Runs, EndpointOf, \* runs, and the endpoint each is started for
  Nobody,
  IndexLimit,       \* MAX_SCAN_FILES
  ProbeLimit,       \* LIVENESS_PROBE_LIMIT
  Starts,           \* bound: who lives and who is listed at first
  Asks,             \* bound: the calls a client may make, but for resources
  BodyLength,       \* of a revision of the capture, on either side
  MaxAsked,         \* bound: calls in a row, and twice with those of resources
  MaxWorldEvents    \* bound: what happens to instances

Statuses == {"unborn", "live", "troubled", "dead"}

(* The tools for all instances take no selector (list_instances_impl), and  *)
(* wait_for_capture takes both parts of one (RequiredInstanceSelector).     *)
AskAssumption(ask) ==
  /\ ask.tool \in DOMAIN Tools /\ ask.endpoint \in Endpoints \cup {Nobody}
  /\ ask.run \in Runs \cup {Nobody} /\ ask.pin \in Nat /\ ask.link = << >>
  /\ LET requirement == Tools[ask.tool].call.requirement
     IN  /\ requirement = "Discovery" => ask.endpoint = Nobody /\ ask.run = Nobody
         /\ requirement = "Wait" => ask.endpoint # Nobody /\ ask.run # Nobody

(* At an endpoint is nobody, or a run that was started for it. *)
StartAssumption(start) ==
  /\ start.status \in [Runs -> Statuses] /\ start.listed \in [Endpoints -> Runs \cup {Nobody}]
  /\ \A e \in Endpoints : start.listed[e] # Nobody =>
       EndpointOf[start.listed[e]] = e /\ start.status[start.listed[e]] # "unborn"

ASSUME SelectionAssumption ==
  /\ Endpoints \subseteq Nat /\ EndpointOf \in [Runs -> Endpoints] /\ Nobody \notin Runs \cup Endpoints
  /\ IsFiniteSet(Endpoints) /\ IsFiniteSet(Runs)
  /\ IndexLimit \in Nat \ {0} /\ ProbeLimit \in Nat \ {0}
  /\ BodyLength \in [1..2 -> Nat]
  /\ \A ask \in Asks : AskAssumption(ask)
  /\ \A start \in Starts : StartAssumption(start)

VARIABLES
  status,    \* of each run: "unborn", "live", "troubled" (answers errors) or "dead"
  listed,    \* the run whose descriptor is at an endpoint, or Nobody
  revision,  \* of the one capture each run retains; from 2 on it has a response
  query,     \* the call in hand and, once answered, its answer
  links,     \* the links the client was given
  failures,  \* telemetry.connection_failures is not 0
  changes,   \* what mutations reached which run
  asked, events
worldVars == <<status, listed, revision, events>>
selectionVars == <<worldVars, query, links, failures, changes, asked>>

Unasked == [tool |-> "list_instances", endpoint |-> Nobody, run |-> Nobody, pin |-> 0, link |-> << >>]
NoAnswer == [kind |-> "none yet", run |-> Nobody, revision |-> 0, page |-> << >>, next |-> << >>,
             warned |-> FALSE]

(* steady: the runs that were live and listed ever since the call came;     *)
(* seen: those that were listed at some moment of it.                       *)
Fresh(ask, at) ==
  [ask |-> ask, at |-> at, index |-> {}, candidates |-> {}, finished |-> {}, live |-> {},
   stale |-> {}, rejected |-> 0, omitted |-> 0, chosen |-> Nobody, answer |-> NoAnswer,
   steady |-> {}, seen |-> {}]

Working == query.at \notin {"closed", "open", "answered"}

SelectionInit(at, start) ==
  /\ status = start.status /\ listed = start.listed
  /\ revision = [r \in Runs |-> 1] /\ query = Fresh(Unasked, at) /\ links = {}
  /\ failures = FALSE /\ changes = {} /\ asked = 0 /\ events = 0

(*-------------------------------- instances -------------------------------*)

Healthy(stat, list) == {r \in Runs : stat[r] = "live" /\ list[EndpointOf[r]] = r}
Present(list) == {r \in Runs : list[EndpointOf[r]] = r}

World(stat, list) ==
  /\ query.at # "closed" /\ events < MaxWorldEvents /\ events' = events + 1
  /\ status' = stat /\ listed' = list
  /\ query' = IF Working
              THEN [query EXCEPT !.steady = @ \cap Healthy(stat, list),
                                 !.seen = @ \cup Present(list)]
              ELSE query
  /\ UNCHANGED <<links, failures, changes, asked>>

(* A run replaces the descriptor of a dead one, never that of a live one. *)
Publish(r) ==
  /\ status[r] = "unborn"
  /\ \A owner \in Runs : listed[EndpointOf[r]] = owner => status[owner] = "dead"
  /\ World([status EXCEPT ![r] = "live"], [listed EXCEPT ![EndpointOf[r]] = r])
  /\ UNCHANGED revision

Die(r) ==
  /\ status[r] \in {"live", "troubled"}
  /\ World([status EXCEPT ![r] = "dead"], listed) /\ UNCHANGED revision

Leave(r) ==
  /\ status[r] = "live"
  /\ World([status EXCEPT ![r] = "dead"], [listed EXCEPT ![EndpointOf[r]] = Nobody])
  /\ UNCHANGED revision

Trouble(r) ==
  /\ status[r] \in {"live", "troubled"}
  /\ World([status EXCEPT ![r] = IF @ = "live" THEN "troubled" ELSE "live"], listed)
  /\ UNCHANGED revision

CaptureChanges(r) ==
  /\ status[r] = "live" /\ revision[r] < 2 /\ revision' = [revision EXCEPT ![r] = @ + 1]
  /\ World(status, listed)

(*---------------------------------- calls ---------------------------------*)

Plan == Tools[query.ask.tool].call
Implicit == query.ask.endpoint = Nobody /\ query.ask.run = Nobody

Says(what) == [NoAnswer EXCEPT !.kind = what]
Answered(q, what) == [q EXCEPT !.at = "answered", !.answer = what]
Calling == UNCHANGED <<status, revision, links, changes, asked, events>>
Looks == Calling /\ UNCHANGED <<listed, failures>>

ResourceAsks ==
  {[tool |-> "read_body", endpoint |-> link.endpoint, run |-> link.run, pin |-> link.revision,
    link |-> <<link>>] : link \in {l \in links : ParseUri(ToUri(l)) = <<l>>}}

(* resolve_with_client: a tool that needs a run is refused without one. *)
Ask(ask) ==
  /\ query.at \in {"open", "answered"} /\ asked' = asked + 1
  /\ asked < IF ask \in Asks THEN MaxAsked ELSE 2 * MaxAsked
  /\ query' = IF RequiresRun(Tools[ask.tool].call.requirement) /\ ask.run = Nobody
              THEN Answered(Fresh(ask, "answered"), Says("invalid"))
              ELSE [Fresh(ask, "index") EXCEPT !.steady = Healthy(status, listed),
                                               !.seen = Present(listed)]
  /\ UNCHANGED <<worldVars, links, failures, changes>>

(* scan_all reads the index and then the descriptors it names, up to a      *)
(* limit; read_endpoint reads the descriptor of one endpoint.               *)
ReadIndex ==
  LET entries == {e \in Endpoints : listed[e] # Nobody}
  IN  /\ query.at = "index"
      /\ IF query.ask.endpoint # Nobody
         THEN query' = [query EXCEPT !.at = "reading", !.index = {query.ask.endpoint}]
         ELSE \E part \in SUBSET entries :
                /\ Cardinality(part) = IF Cardinality(entries) > IndexLimit
                                       THEN IndexLimit ELSE Cardinality(entries)
                /\ query' = [query EXCEPT !.at = "reading", !.index = part,
                               !.omitted = Cardinality(entries \ part)]
      /\ Looks

(* A descriptor that is gone by now is a diagnostic, but not when it was    *)
(* asked for by its endpoint.                                               *)
ReadDescriptor(e) ==
  /\ query.at = "reading" /\ e \in query.index
  /\ query' = [query EXCEPT !.index = @ \ {e},
                 !.candidates = IF listed[e] = Nobody THEN @ ELSE @ \cup {listed[e]},
                 !.rejected = IF listed[e] = Nobody /\ query.ask.endpoint = Nobody THEN @ + 1 ELSE @]
  /\ Looks

(* The generation is checked before anyone is probed. *)
Scanned ==
  LET named == query.ask.run
      others == query.candidates \ {named}
      wanted == IF named = Nobody THEN query.candidates ELSE query.candidates \cap {named}
  IN  /\ query.at = "reading" /\ query.index = {}
      /\ query' = IF query.ask.endpoint # Nobody /\ named # Nobody /\ others # {}
                  THEN Answered(query, Says("conflict"))
                  ELSE [query EXCEPT !.at = "probing", !.candidates = wanted]
      /\ Looks

(* probe_scan: in the order of the endpoints, a few at a time. *)
Unfinished == query.candidates \ query.finished
BeingProbed ==
  {r \in Unfinished :
     Cardinality({s \in Unfinished : EndpointOf[s] < EndpointOf[r]}) < ProbeLimit}

ProbeEnds(r) ==
  /\ query.at = "probing" /\ r \in BeingProbed
  /\ query' = [query EXCEPT
                 !.finished = @ \cup {r},
                 !.live = IF status[r] = "live" THEN @ \cup {r} ELSE @,
                 !.stale = IF status[r] = "dead" THEN @ \cup {r} ELSE @,
                 !.rejected = IF status[r] = "troubled" THEN @ + 1 ELSE @]
  /\ failures' = (failures \/ status[r] = "dead")
  /\ Calling /\ UNCHANGED listed

(* prune_stale_batch removes what is still as it was found; it may fail. *)
Pruned(stale) ==
  [e \in Endpoints |-> IF listed[e] \in stale THEN Nobody ELSE listed[e]]

Prune ==
  /\ query.at = "probing" /\ BeingProbed = {}
  /\ \/ /\ query' = [query EXCEPT !.at = "selecting"] /\ listed' = Pruned(query.stale)
     \/ /\ query.stale # {}
        /\ query' = [query EXCEPT !.at = "selecting", !.rejected = @ + 1] /\ UNCHANGED listed
  /\ Calling /\ UNCHANGED failures

(* A bug: the first live instance will do. *)
FirstWillDo == IF query.live = {} THEN Says("no instances")
               ELSE [NoAnswer EXCEPT !.run = CHOOSE r \in query.live : TRUE]

(* Without a selector, exactly one instance has to be there. *)
SelectOnly ==
  IF query.live = {} THEN Says("no instances")
  ELSE IF Cardinality(query.live) > 1 THEN Says("instance required")
  ELSE [NoAnswer EXCEPT !.run = CHOOSE r \in query.live : TRUE]

(* At an endpoint there is at most one candidate, of the run that was named. *)
SelectAt ==
  IF query.live # {} THEN [NoAnswer EXCEPT !.run = CHOOSE r \in query.live : TRUE]
  ELSE IF query.stale # {} THEN Says("unavailable")
  ELSE Says("not found")

SelectRun ==
  IF query.live = {} THEN Says("not found")
  ELSE [NoAnswer EXCEPT !.run = CHOOSE r \in query.live : TRUE]

Selected ==
  IF query.ask.endpoint # Nobody THEN SelectAt
  ELSE IF query.ask.run # Nobody THEN SelectRun ELSE SelectOnly

(* list_instances and get_broker_status: the answer holds what is live; the *)
(* warning stands for anything that may be missing in it.                   *)
Degraded ==
  query.stale # {} \/ query.rejected > 0 \/ query.omitted > 0 \/ failures

Select ==
  /\ query.at = "selecting"
  /\ query' = IF Plan.requirement = "Discovery"
              THEN Answered(query, [Says("ok") EXCEPT !.warned = Degraded])
              ELSE IF Selected.run = Nobody THEN Answered(query, Selected)
              ELSE [query EXCEPT !.at = "calling", !.chosen = Selected.run]
  /\ Looks

(* What the instance answers when it answers: external to the broker, but   *)
(* for the identity and the revision that the broker compares.              *)
Page(link, r) ==
  LET total == BodyLength[revision[r]]
      end == IF link.offset + link.length < total THEN link.offset + link.length ELSE total
  IN  [run |-> r, revision |-> revision[r], from |-> link.offset, to |-> end, total |-> total]

Reply(r) ==
  LET link == query.ask.link
  IN  IF query.ask.pin \notin {0, revision[r]} THEN Says("revision conflict")
      ELSE IF link = << >> THEN [Says("ok") EXCEPT !.run = r, !.revision = revision[r]]
      ELSE [Says("ok") EXCEPT
              !.run = r, !.revision = revision[r], !.page = <<Page(link[1], r)>>,
              !.next = IF Page(link[1], r).to < Page(link[1], r).total
                       THEN <<NextPage(link[1], Page(link[1], r).to)>> ELSE << >>]

Given(r, reply) ==
  IF reply.kind # "ok" THEN {}
  ELSE IF query.ask.tool = "get_capture"
  THEN BodyLinks(EndpointOf[r], r, revision[r], revision[r] > 1)
  ELSE {reply.next[i] : i \in DOMAIN reply.next}

Served ==
  LET r == query.chosen
  IN  /\ query.at \in {"calling", "waiting"} /\ status[r] = "live"
      /\ query' = Answered(query, Reply(r))
      /\ links' = links \cup Given(r, Reply(r))
      /\ changes' = IF Plan.operation \in Mutating
                    THEN changes \cup {[run |-> r, ask |-> query.ask]} ELSE changes
      /\ UNCHANGED <<worldVars, failures, asked>>

(* A wait stays at its instance until that answers or is lost. *)
WaitBegins ==
  /\ query.at = "calling" /\ Plan.requirement = "Wait" /\ status[query.chosen] = "live"
  /\ query' = [query EXCEPT !.at = "waiting"] /\ Looks

Lost ==
  LET r == query.chosen
      error == Says(IF status[r] = "dead" THEN "unavailable" ELSE "refused")
  IN  /\ query.at \in {"calling", "waiting"} /\ status[r] # "live"
      /\ query' = IF Plan.requirement = "Wait"
                  THEN [query EXCEPT !.at = "checking", !.answer = error]
                  ELSE Answered(query, error)
      /\ failures' = (failures \/ (status[r] = "dead" /\ query.at = "calling"))
      /\ Calling /\ UNCHANGED listed

(* replacement_generation_conflict: if it cannot look, the error stands. *)
Replaced ==
  LET current == listed[query.ask.endpoint]
  IN  /\ query.at = "checking"
      /\ \/ current \notin {Nobody, query.ask.run} /\ query' = Answered(query, Says("conflict"))
         \/ query' = Answered(query, query.answer)
      /\ Looks

(* Whatever is waited for can be cancelled or run into the deadline, which   *)
(* is looked at once more when an endpoint has no live instance.            *)
GiveUpCall ==
  /\ Working /\ query.at # "checking"
  /\ \E what \in {"cancelled", "deadline"} :
       /\ query.at = "selecting" =>
            what = "deadline" /\ query.ask.endpoint # Nobody /\ query.live = {}
       /\ query' = Answered(query, Says(what))
  /\ Looks

SelectionNext ==
  \/ \E r \in Runs : Publish(r) \/ Die(r) \/ Leave(r) \/ Trouble(r) \/ CaptureChanges(r)
  \/ \E ask \in Asks \cup ResourceAsks : Ask(ask)
  \/ ReadIndex \/ \E e \in Endpoints : ReadDescriptor(e)
  \/ Scanned \/ \E r \in Runs : ProbeEnds(r)
  \/ Prune \/ Select \/ Served \/ WaitBegins \/ Lost \/ Replaced \/ GiveUpCall

SelectionSpec ==
  /\ \E start \in Starts : SelectionInit("open", start)
  /\ [][SelectionNext]_selectionVars

(*------------------------------- properties -------------------------------*)

Meant(r) ==
  /\ query.ask.run \in {Nobody, r}
  /\ query.ask.endpoint \in {Nobody, EndpointOf[r]}

(* Who answered is whom the call meant.  Without a selector it was the only *)
(* one that was well all the time, unless the registry was too full to be   *)
(* read whole.                                                              *)
AnswererIsMeant ==
  query.answer.run # Nobody =>
    /\ Meant(query.answer.run)
    /\ Implicit => query.omitted > 0 \/ query.steady \subseteq {query.answer.run}

(* Who is said not to be there was not there all the time. *)
AbsenceIsTrue ==
  query.answer.kind \in {"no instances", "not found", "unavailable", "conflict"} =>
    query.omitted > 0 \/ \A r \in query.steady : ~Meant(r)

(* A conflict has another run at the endpoint; an ambiguity has two. *)
RefusalIsTrue ==
  /\ query.answer.kind = "conflict" =>
       \E r \in query.seen : EndpointOf[r] = query.ask.endpoint /\ r # query.ask.run
  /\ query.answer.kind = "instance required" => Implicit /\ Cardinality(query.seen) > 1

(* A list that comes without the warning is complete, and every probe of it *)
(* is accounted for.                                                        *)
ListIsComplete ==
  /\ query.at = "selecting" =>
       /\ query.finished = query.candidates
       /\ Cardinality(query.candidates)
            <= Cardinality(query.live) + Cardinality(query.stale) + query.rejected
  /\ query.answer.kind = "ok" /\ Plan.requirement = "Discovery" =>
       query.steady \subseteq query.live \/ (query.answer.warned /\ query.omitted > 0)

(* Nothing is changed by a tool that says it only reads, and what is        *)
(* changed is changed in the run that was named.                            *)
ChangesAreMeant ==
  \A change \in changes :
    ~Tools[change.ask.tool].readOnly /\ change.ask.run = change.run

(* A page is of the run and the revision of its link, begins where the link *)
(* says, and the next link goes on from where it ended, up to the end.      *)
PageIsTrue ==
  \A i \in DOMAIN query.answer.page :
     LET page == query.answer.page[i]
         link == query.ask.link[1]
     IN  /\ page.run = link.run /\ page.revision = link.revision /\ page.from = link.offset
         /\ IF page.to < page.total
            THEN page.to > page.from
                 /\ query.answer.next = <<[link EXCEPT !.offset = page.to]>>
            ELSE query.answer.next = << >>

(* Every link leads to the bytes it stands for, or to a refusal. *)
LinksStayTrue ==
  /\ \A link \in links : ParseUri(ToUri(link)) = <<link>> /\ EndpointOf[link.run] = link.endpoint
  /\ PageIsTrue

(* Selection by endpoint, by run or by being the only one, under take-overs *)
(* and failures: see its parts (mcp/broker.rs).                             *)
CallsReachWhomTheyMean ==
  /\ query.at = "answered" => AnswererIsMeant /\ AbsenceIsTrue /\ RefusalIsTrue
  /\ ListIsComplete /\ ChangesAreMeant /\ LinksStayTrue

(*--------------------------- the whole broker -----------------------------*)

(* What the broker does, taken apart: many calls that compete for permits,  *)
(* workers and connections of one instance (ControlCalls), and one call     *)
(* after the other that has to find its instance among several.  A          *)
(* behaviour is of the one or of the other: the selection of a call shares  *)
(* nothing with another call but the registry and the permits, and the      *)
(* permits do not depend on what is selected.                               *)

CallsBegin == Init /\ SelectionInit("closed", CHOOSE start \in Starts : TRUE)
SelectionBegins ==
    /\ Init /\ [kind |-> kind, session |-> session] = CHOOSE mix \in Mixes : TRUE
    /\ \E start \in Starts : SelectionInit("open", start)

BrokerNext ==
    \/ query.at = "closed" /\ Next /\ UNCHANGED selectionVars
    \/ query.at # "closed" /\ SelectionNext /\ UNCHANGED vars

BrokerSpec ==
    /\ CallsBegin \/ SelectionBegins
    /\ [][BrokerNext]_<<vars, selectionVars>>
    /\ \A c \in Calls : WF_vars(Progress(c))
    /\ \A s \in Sessions : WF_vars(AdmitBuffered(s))
=============================================================================
