-------------------------------- MODULE Paths --------------------------------
(***************************************************************************)
(* Paths and names of entities: a path is brought into one form, and a     *)
(* full reference is put together from a path and a name and taken apart.  *)
(*                                                                         *)
(* A text is a sequence of characters, a path in its one form a sequence   *)
(* of segments.                                                            *)
(***************************************************************************)
EXTENDS Integers, Sequences, SequencesExt

CONSTANTS Forbidden    \* the characters no segment may have

PathError == <<"error">>

PathBlank == " "

RECURSIVE TrimPath(_), SegmentsOf(_)
TrimPath(s) ==
    IF s # <<>> /\ Head(s) = PathBlank THEN TrimPath(Tail(s))
    ELSE IF s # <<>> /\ Last(s) = PathBlank THEN TrimPath(Front(s))
    ELSE s

\* The parts between slashes.
SegmentsOf(s) ==
    LET slashes == {i \in DOMAIN s : s[i] = "/"}
        i == CHOOSE i \in slashes : \A j \in slashes : i <= j
    IN  IF slashes = {} THEN <<s>>
        ELSE <<SubSeq(s, 1, i - 1)>> \o SegmentsOf(SubSeq(s, i + 1, Len(s)))

ValidSegment(seg) ==
    /\ seg \notin {<<>>, <<".">>, <<".", ".">>}
    /\ \A i \in DOMAIN seg : seg[i] # "/" /\ seg[i] \notin Forbidden

\* The whole is trimmed, empty segments are dropped, any other must be valid.
NormalizePath(s) ==
    LET segments == SelectSeq(SegmentsOf(TrimPath(s)), LAMBDA seg : seg # <<>>)
    IN  IF \A i \in DOMAIN segments : ValidSegment(segments[i]) THEN <<"path", segments>>
        ELSE PathError

PathText(path) == IF path[2] = <<>> THEN <<"/">>
                  ELSE FlattenSeq([i \in DOMAIN path[2] |-> <<"/">> \o path[2][i]])

FullRef(s, name) ==
    LET path == NormalizePath(s)
    IN  IF path = PathError \/ ~ValidSegment(TrimPath(name)) THEN PathError
        ELSE <<"path", Append(path[2], TrimPath(name))>>

\* The last segment is the name.
SplitRef(s) ==
    LET path == NormalizePath(s)
    IN  IF path = PathError \/ path[2] = <<>> \/ ~ValidSegment(TrimPath(Last(path[2])))
        THEN PathError
        ELSE <<"ref", Front(path[2]), Last(path[2])>>

-----------------------------------------------------------------------------

\* A reference that was put together is taken apart into the path and the name
\* it was made of, and a path is its own one form, unless a segment begins or
\* ends with a blank.
PathLaw(s, name) ==
    LET path == NormalizePath(s)
        ref == FullRef(s, name)
        plain == \A i \in DOMAIN path[2] : TrimPath(path[2][i]) = path[2][i]
    IN  /\ ref # PathError =>
              SplitRef(PathText(ref)) = <<"ref", path[2], TrimPath(name)>>
        /\ path # PathError /\ plain => NormalizePath(PathText(path)) = path
=============================================================================
