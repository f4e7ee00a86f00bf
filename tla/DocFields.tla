------------------------------ MODULE DocFields ------------------------------
(***************************************************************************)
(* Fields of a document's contents by path: get-field-at-path, and         *)
(* set-field-at-path, which can create what is missing on the way.         *)
(*                                                                         *)
(* A JSON value is a tuple with a tag: <<"obj", function of keys>>,        *)
(* <<"arr", sequence>>, and any other tuple for a value without children,  *)
(* <<"null">> among them.  A segment is a string.                          *)
(***************************************************************************)
EXTENDS Integers, Sequences

CONSTANT Indexes    \* the segments that parse as an index -> that index

IndexesAre == Indexes \in [DOMAIN Indexes -> Nat]
ASSUME IndexesAssumption == IndexesAre

FieldNull == <<"null">>
FieldError == <<"error">>
Kind(v) == v[1]

\* The child of v that a segment names, or an error.
ChildAt(v, seg) ==
    CASE Kind(v) = "obj" /\ seg \in DOMAIN v[2] -> v[2][seg]
      [] Kind(v) = "arr" /\ seg \in DOMAIN Indexes ->
           IF Indexes[seg] < Len(v[2]) THEN v[2][Indexes[seg] + 1] ELSE FieldError
      [] OTHER -> FieldError

WithKey(object, key, value) ==
    [k \in DOMAIN object \cup {key} |-> IF k = key THEN value ELSE object[k]]

\* v with that child replaced: an object takes any key, an array only an index
\* it has.
WithChild(v, seg, child) ==
    CASE child = FieldError -> FieldError
      [] child # FieldError /\ Kind(v) = "obj" -> <<"obj", WithKey(v[2], seg, child)>>
      [] child # FieldError /\ Kind(v) = "arr" /\ ChildAt(v, seg) # FieldError ->
           <<"arr", [v[2] EXCEPT ![Indexes[seg] + 1] = child]>>
      [] OTHER -> FieldError

\* parse_path: the root, or segments of which none is empty, "." or "..".
ParsePath(segments) ==
    IF \E i \in DOMAIN segments : segments[i] \in {"", ".", ".."} THEN FieldError ELSE segments

\* The walk along a path: a value for each number of segments, v for none.
Reached(v, path) ==
    LET at[i \in 0..Len(path)] == IF i = 0 THEN v ELSE ChildAt(at[i - 1], path[i]) IN at

ValueAtPath(v, path) == Reached(v, path)[Len(path)]

\* Something new at the end of a path changes each value that the walk passed.
PutBack(passed, path, new) ==
    LET n == Len(path)
        back[i \in 0..n] == IF i = 0 THEN new ELSE WithChild(passed[n - i], path[n - i + 1], back[i - 1])
    IN  back[n]

\* Every parent must be there.
SetAtPath(v, path, new) == PutBack(Reached(v, path), path, new)

\* A missing key becomes an array if the next segment is an index, an object
\* if not; an array grows by nulls, which have no children.
WithRoom(v, path, i) ==
    LET seg == path[i]
        array == i < Len(path) /\ path[i + 1] \in DOMAIN Indexes
        length == IF Len(v[2]) > Indexes[seg] THEN Len(v[2]) ELSE Indexes[seg] + 1
    IN  CASE Kind(v) = "obj" ->
               IF seg \in DOMAIN v[2] THEN v
               ELSE WithChild(v, seg, IF array THEN <<"arr", <<>>>> ELSE <<"obj", <<>>>>)
          [] Kind(v) = "arr" /\ seg \in DOMAIN Indexes ->
               <<"arr", [k \in 1..length |-> IF k \in DOMAIN v[2] THEN v[2][k] ELSE FieldNull]>>
          [] OTHER -> FieldError

MadeWay(v, path) ==
    LET at[i \in 0..Len(path)] == IF i = 0 THEN v ELSE ChildAt(WithRoom(at[i - 1], path, i), path[i])
    IN  at

CreateMissingParents(v, path) ==
    LET way == MadeWay(v, path)
    IN  PutBack([i \in 0..Len(path) - 1 |-> WithRoom(way[i], path, i + 1)], path, way[Len(path)])

GetFieldAtPath(contents, path) ==
    LET v == ValueAtPath(contents, path) IN IF v = FieldError THEN FieldNull ELSE v

SetFieldAtPath(contents, path, new, create) ==
    IF ValueAtPath(contents, path) # FieldError THEN SetAtPath(contents, path, new)
    ELSE IF ~create THEN FieldError
    ELSE LET made == CreateMissingParents(contents, path)
         IN  IF made = FieldError THEN FieldError ELSE SetAtPath(made, path, new)

\* get-field and set-field: one key at the top; other contents make way for an
\* object with that key.
GetField(contents, field) ==
    IF Kind(contents) = "obj" /\ field \in DOMAIN contents[2] THEN contents[2][field] ELSE FieldNull

SetField(contents, field, new) ==
    IF Kind(contents) = "obj" THEN <<"obj", WithKey(contents[2], field, new)>>
    ELSE <<"obj", WithKey(<<>>, field, new)>>

-----------------------------------------------------------------------------

\* Segments that name one index, as "0" and "00" do, are the same.  A path leads
\* to what it is a beginning of, whichever way its indexes are written.
SameSegment(seg, other) ==
    seg = other \/ ({seg, other} \subseteq DOMAIN Indexes /\ Indexes[seg] = Indexes[other])

LeadsTo(path, q) == Len(path) <= Len(q) /\ \A i \in 1..Len(path) : SameSegment(path[i], q[i])

\* What is set at a path is read back there, and whatever was at a path that
\* does not lead through it, or to it, still is; without create a path that
\* leads nowhere is refused, and one that is there never is.
FieldLaw(contents, path, new, create, others) ==
    LET after == SetFieldAtPath(contents, path, new, create)
    IN  /\ after # FieldError =>
              /\ GetFieldAtPath(after, path) = new
              /\ \A q \in others :
                    ValueAtPath(contents, q) # FieldError /\ ~LeadsTo(path, q) /\ ~LeadsTo(q, path)
                      => ValueAtPath(after, q) = ValueAtPath(contents, q)
        /\ ValueAtPath(contents, path) # FieldError => after # FieldError
        /\ ValueAtPath(contents, path) = FieldError /\ ~create => after = FieldError
        /\ Len(path) = 1 /\ Kind(contents) = "obj" /\ create
             => after = SetField(contents, path[1], new) /\ GetField(after, path[1]) = new
=============================================================================
