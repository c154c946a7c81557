---------------------------- MODULE RequestTree ----------------------------
(***************************************************************************)
(* The request tree of the terminal interface: captures grouped by origin  *)
(* and path.  The code keeps it as an arena of nodes with an index of path *)
(* hashes; here it is a function of the captures it was built from, a      *)
(* sequence `cs' of entries, and a node is its path, the sequence of the   *)
(* identifiers from its origin down.                                       *)
(***************************************************************************)
EXTENDS Integers, Sequences, FiniteSets, SequencesExt

(* A URI as it is displayed: an absolute one has an origin, another is     *)
(* grouped under the Host header of its request when there is one.         *)
Origin(uri) == IF uri.absolute THEN uri.origin
               ELSE IF uri.host # "" THEN uri.host ELSE "(unknown host)"

(* The segments of the path that are not empty, the query put to the last. *)
Segments(uri) ==
    LET parts == SelectSeq(uri.path, LAMBDA s : s # "")
        named == [i \in DOMAIN parts |-> <<parts[i], "">>]
    IN  CASE named # <<>> -> [named EXCEPT ![Len(named)] = <<@[1], uri.query>>]
          [] named = <<>> /\ uri.query # "" -> << <<"", uri.query>> >>
          [] OTHER -> << <<"/", "">> >>

OriginId(o) == [kind |-> "origin", label |-> <<o, "">>, sequence |-> 0]
SegmentId(s) == [kind |-> "segment", label |-> s, sequence |-> 0]
RequestId(n, uri) == [kind |-> "request", label |-> Last(Segments(uri)), sequence |-> n]

ParentPath(uri) ==
    LET segments == Front(Segments(uri))
    IN  <<OriginId(Origin(uri))>> \o [i \in DOMAIN segments |-> SegmentId(segments[i])]

(* RequestTreeEntry: a capture with its path in the tree. *)
Entry(n, uri) == [sequence |-> n, path |-> Append(ParentPath(uri), RequestId(n, uri))]

(* The branches a capture hangs from, its origin first. *)
BranchesOf(c) == [n \in 1 .. Len(c.path) - 1 |-> SubSeq(c.path, 1, n)]

IsLeaf(path) == path # <<>> /\ Last(path).kind = "request"

Under(path, ancestor) == IsPrefix(ancestor, path)

InTree(cs, path) == path # <<>> /\ \E i \in DOMAIN cs : Under(cs[i].path, path)

(* The children of a node in the order the tree keeps them: the branches in *)
(* the order their first capture was met, then the captures.               *)
StepsBelow(below, path) ==
    [i \in DOMAIN below |-> SubSeq(below[i].path, 1, Len(path) + 1)]
FirstMet(steps) ==
    [i \in DOMAIN steps |->
       IF \E j \in 1 .. i - 1 : steps[j] = steps[i] THEN <<>> ELSE steps[i]]
BranchesFirst(kids) ==
    SelectSeq(kids, LAMBDA k : k # <<>> /\ ~IsLeaf(k)) \o SelectSeq(kids, IsLeaf)

Children(cs, path) ==
    BranchesFirst(FirstMet(
      StepsBelow(SelectSeq(cs, LAMBDA c : IsStrictPrefix(path, c.path)), path)))

(* The nodes below `path' in the order of a walk that goes down only into   *)
(* the opened branches; the logical order is that of everything opened.     *)
RECURSIVE Walk(_, _, _)
Walk(cs, path, opened) ==
    LET kids == Children(cs, path)
        with(i) == IF kids[i] \in opened THEN <<kids[i]>> \o Walk(cs, kids[i], opened)
                   ELSE <<kids[i]>>
    IN  FlattenSeq([i \in DOMAIN kids |-> with(i)])

VisiblePaths(cs, opened) == Walk(cs, <<>>, opened)
LogicalOrder(cs) == VisiblePaths(cs, UNION {ToSet(BranchesOf(cs[i])) : i \in DOMAIN cs})

(* Positions in the logical order are counted from 1; 0 is "not there". *)
PositionIn(order, path) ==
    IF \E i \in DOMAIN order : order[i] = path
      THEN CHOOSE i \in DOMAIN order : order[i] = path ELSE 0
LogicalPosition(cs, path) == PositionIn(LogicalOrder(cs), path)

BranchPaths(cs) == SelectSeq(LogicalOrder(cs), LAMBDA p : ~IsLeaf(p))

SequencesUnder(cs, path) ==
    {cs[i].sequence : i \in {j \in DOMAIN cs : path # <<>> /\ Under(cs[j].path, path)}}

(* What delete_selected_requests selects instead of what it deleted: the   *)
(* last visible row of the sibling before the shallowest node that went    *)
(* with the deletion, else the sibling after it, else the first row.       *)
FirstRemoved(deleted, before, after) ==
    LET gone == {n \in 1 .. Len(deleted) : /\ InTree(before, SubSeq(deleted, 1, n))
                                           /\ ~InTree(after, SubSeq(deleted, 1, n))}
    IN  IF gone = {} THEN <<>>
        ELSE SubSeq(deleted, 1, CHOOSE n \in gone : \A m \in gone : n <= m)

FirstRow(visible) == IF visible = <<>> THEN <<>> ELSE visible[1]

(* The visible rows of a sibling that is still there, itself and below. *)
SiblingRows(siblings, i, after, visible) ==
    IF i \in DOMAIN siblings /\ InTree(after, siblings[i])
      THEN SelectSeq(visible, LAMBDA v : Under(v, siblings[i])) ELSE <<>>

SiblingRow(siblings, i, after, visible) ==
    IF i \in DOMAIN siblings /\ InTree(after, siblings[i])
      THEN SelectSeq(visible, LAMBDA v : v = siblings[i]) ELSE <<>>

Beside(earlier, later, visible) ==
    CASE earlier # <<>> -> Last(earlier)
      [] earlier = <<>> /\ later # <<>> -> later[1]
      [] OTHER -> FirstRow(visible)

(* A bug: the sibling above is looked for at the place of what went. *)
BesideNext(siblings, i, after, visible) ==
    Beside(SiblingRows(siblings, i, after, visible),
           SiblingRow(siblings, i + 1, after, visible), visible)

BesideIndex(siblings, i, after, visible) ==
    Beside(SiblingRows(siblings, i - 1, after, visible),
           SiblingRow(siblings, i + 1, after, visible), visible)

BesideStart(siblings, start, after, visible) ==
    BesideIndex(siblings, PositionIn(siblings, start), after, visible)

SelectedFrom(start, before, after, visible) ==
    IF start = <<>> THEN FirstRow(visible)
    ELSE BesideStart(Children(before, Front(start)), start, after, visible)

SelectedPath(deleted, before, after, visible) ==
    SelectedFrom(FirstRemoved(deleted, before, after), before, after, visible)
=============================================================================
