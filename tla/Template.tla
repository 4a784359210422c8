------------------------------- MODULE Template -------------------------------
(***************************************************************************)
(* makeTemplate (grpcurl.go): a message of a type with one element in each *)
(* field, down to types that have been expanded already.  Each call of the *)
(* recursion has a slice, path, of the types above it; slices share their  *)
(* backing arrays, which is why these are part of the state.               *)
(***************************************************************************)
EXTENDS Extensions

CONSTANT WellKnown      \* types with a ready-made template (Any, Value, ...)

VARIABLES
    builds,     \* frames of makeTemplate: a type, its next field, its path
    arrays,     \* the backing arrays of the slices; unused places hold "nil"
    tree,       \* the messages created, each as its path from the top
    build       \* "start", "building" or "done"

templateVars == <<builds, arrays, tree, build>>

\* A slice is an array and a length; the nil slice has no array.
NilSlice == [array |-> 0, len |-> 0]
Slice(s) == IF s.array = 0 THEN <<>> ELSE SubSeq(arrays[s.array], 1, s.len)
Cap(s) == IF s.array = 0 THEN 0 ELSE Len(arrays[s.array])

\* Go's append writes into the array while there is room, seen or not by other
\* slices; otherwise it copies to an array twice as large.
AppendSlice(s, t) ==
    IF s.len < Cap(s)
    THEN [slice |-> [s EXCEPT !.len = @ + 1],
          arrays |-> [arrays EXCEPT ![s.array][s.len + 1] = t]]
    ELSE [slice |-> [array |-> Len(arrays) + 1, len |-> s.len + 1],
          arrays |-> Append(arrays,
                Append(Slice(s), t) \o [i \in 1 .. s.len - 1 |-> "nil"])]

TemplateInit ==
    /\ builds = <<>>
    /\ arrays = <<>>
    /\ tree = {}
    /\ build = "start"

Building == builds[Len(builds)]
TypesOf(frames) == [k \in DOMAIN frames |-> frames[k].type]

\* A call of makeTemplate for t with path s, made from the frames in below.
\* Mutant: the path is not extended.
MakeWithoutPath(t, s, below) ==
    /\ tree' = tree \cup {Append(TypesOf(below), t)}
    /\ IF t \in WellKnown \/ \E i \in DOMAIN Slice(s) : Slice(s)[i] = t
       THEN builds' = below
       ELSE builds' = Append(below, [type |-> t, next |-> 1, path |-> s])
    /\ UNCHANGED arrays
Make(t, s, below) ==
    /\ tree' = tree \cup {Append(TypesOf(below), t)}
    /\ IF t \in WellKnown \/ \E i \in DOMAIN Slice(s) : Slice(s)[i] = t
       THEN builds' = below /\ UNCHANGED arrays
       ELSE /\ builds' = Append(below, [type |-> t, next |-> 1,
                                        path |-> AppendSlice(s, t).slice])
            /\ arrays' = AppendSlice(s, t).arrays

BuildRoot ==
    /\ build = "start"
    /\ \E t \in Types : Make(t, NilSlice, <<>>)
    /\ build' = "building"

BuildField ==
    /\ build = "building"
    /\ builds # <<>>
    /\ Building.next <= Len(graph[Building.type])
    /\ Make(graph[Building.type][Building.next], Building.path,
            [builds EXCEPT ![Len(builds)].next = @ + 1])
    /\ UNCHANGED build

BuildReturns ==
    /\ build = "building"
    /\ builds # <<>>
    /\ Building.next > Len(graph[Building.type])
    /\ builds' = SubSeq(builds, 1, Len(builds) - 1)
    /\ UNCHANGED <<arrays, tree, build>>

BuildEnds ==
    /\ build = "building"
    /\ builds = <<>>
    /\ build' = "done"
    /\ UNCHANGED <<builds, arrays, tree>>

BuildNext == BuildRoot \/ BuildField \/ BuildReturns \/ BuildEnds
-------------------------------------------------------------------------------
(* Properties. *)

Repeats(path) == \E i, j \in DOMAIN path : i < j /\ path[i] = path[j]

\* Although calls share the arrays behind their paths, each sees exactly the
\* types it is in; so the recursion ends, and the template has every field of
\* every type down to where a type would contain itself.
TemplateUnfolds ==
    /\ \A k \in DOMAIN builds :
          Slice(builds[k].path) = TypesOf(SubSeq(builds, 1, k))
    /\ \A k \in DOMAIN builds : ~Repeats(TypesOf(SubSeq(builds, 1, k)))
    /\ build = "done" => \A path \in tree :
          LET t == path[Len(path)] IN
          IF t \in WellKnown \/ Repeats(path)
          THEN \A u \in Types : Append(path, u) \notin tree
          ELSE {graph[t][i] : i \in DOMAIN graph[t]}
                  = {u \in Types : Append(path, u) \in tree}
-------------------------------------------------------------------------------
(* Inductive invariants behind the theorems of FormatsProofs. *)

\* A frame's path holds the types of the frames up to it, although the array
\* behind it may go on with what a later call has written there; and no type is
\* expanded within itself.
PathInv ==
    /\ builds \in Seq([type : Types, next : Nat \ {0},
                       path : [array : Nat, len : Nat]])
    /\ arrays \in Seq(Seq(Types \cup {"nil"}))
    /\ \A k \in DOMAIN builds :
          /\ builds[k].path.len = k
          /\ builds[k].path.array \in DOMAIN arrays
          /\ k <= Len(arrays[builds[k].path.array])
          /\ \A i \in 1 .. k :
                arrays[builds[k].path.array][i] = builds[i].type
          /\ builds[k].type \notin WellKnown
    /\ \A i, j \in DOMAIN builds : builds[i].type = builds[j].type => i = j

PathTo(k) == TypesOf(SubSeq(builds, 1, k))
Leaf(path) == path[Len(path)] \in WellKnown \/ Repeats(path)
FieldsOf(path) == graph[path[Len(path)]]

\* A message in the tree is a field of another one there, of a kind that has
\* fields; and those it has are there too, but for what the frames still have to do.
TreeInv ==
    /\ build \in {"start", "done"} => builds = <<>>
    /\ \A q \in tree : q \in Seq(Types) /\ q # <<>>
    /\ \A q \in tree : Len(q) > 1 =>
          LET p == SubSeq(q, 1, Len(q) - 1) IN
          /\ p \in tree /\ ~Leaf(p)
          /\ \E i \in DOMAIN FieldsOf(p) : q[Len(q)] = FieldsOf(p)[i]
    /\ \A k \in DOMAIN builds :
          /\ PathTo(k) \in tree
          /\ \A i \in DOMAIN graph[builds[k].type] :
                i < builds[k].next
                   => Append(PathTo(k), graph[builds[k].type][i]) \in tree
    /\ \A p \in tree : ~Leaf(p) =>
          \/ \E k \in DOMAIN builds : p = PathTo(k)
          \/ \A i \in DOMAIN FieldsOf(p) : Append(p, FieldsOf(p)[i]) \in tree
===============================================================================
