-------------------------- MODULE MCControlCalls --------------------------
(* An instance of the broker for TLC: calls of all kinds, in one session    *)
(* or in two, against one instance; and calls with every way to name an     *)
(* instance, against up to three of four.                                   *)
EXTENDS InstanceSelection

CONSTANTS c1, c2, s1, s2, r1, r2, r3, r4

Mix(k1, k2, t1, t2) == [kind |-> (c1 :> k1) @@ (c2 :> k2),
                        session |-> (c1 :> t1) @@ (c2 :> t2)]

MCMixes == {Mix("mapping", "mapping", s1, s2), Mix("record", "read", s1, s2),
            Mix("read", "mapping", s1, s1)}

(* r2 takes over from r1. *)
MCEndpointOf == r1 :> 1 @@ r2 :> 1 @@ r3 :> 2 @@ r4 :> 3

Asked(tool, endpoint, run, pin) ==
  [tool |-> tool, endpoint |-> endpoint, run |-> run, pin |-> pin, link |-> << >>]

MCAsks ==
  {Asked("list_instances", Nobody, Nobody, 0), Asked("search_captures", Nobody, Nobody, 0),
   Asked("get_status", 1, Nobody, 0), Asked("get_mapping_settings", Nobody, r1, 0),
   Asked("delete_preset", 1, r1, 0), Asked("set_recording_enabled", 1, Nobody, 0),
   Asked("get_capture", 1, r1, 0), Asked("wait_for_capture", 1, r1, 0)}

(* The second revision has a longer body. *)
MCBodyLength == <<2, 3>>

Start(one, two, three, four, owner) ==
  [status |-> r1 :> one @@ r2 :> two @@ r3 :> three @@ r4 :> four,
   listed |-> <<owner, IF three = "unborn" THEN Nobody ELSE r3,
                IF four = "unborn" THEN Nobody ELSE r4>>]

MCStarts ==
  {Start("live", "unborn", "live", "live", r1), Start("dead", "unborn", "live", "unborn", r1),
   Start("live", "unborn", "dead", "unborn", r1), Start("dead", "live", "unborn", "unborn", r2)}
===========================================================================
