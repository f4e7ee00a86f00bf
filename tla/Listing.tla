------------------------------- MODULE Listing -------------------------------
(***************************************************************************)
(* Lists of rows by page: the conditions and the order that ListOptions    *)
(* render for a store, and the pages that list, paths and search return.   *)
(*                                                                         *)
(* A row is a record of columns.  Paths and names are sequences of         *)
(* segments; Like says which segments SQL's LIKE takes for equal.          *)
(***************************************************************************)
EXTENDS Integers, Sequences, SequencesExt, FiniteSets

CONSTANTS
    Like,         \* pairs <<written, stored>> of segments: a `_` or a letter in
                  \* the other case makes them alike
    Rank          \* the order of paths and names: each one's number

Sortable == [name |-> <<"path", "name">>, path |-> <<"path", "name">>, updated |-> <<"updated">>]
DefaultSort == <<"path", "name">>

-----------------------------------------------------------------------------
(* to_sql                                                                  *)

\* path = ? OR path LIKE '?/%'; at the root any path.
UnderPrefix(prefix, path) ==
    \/ prefix = path
    \/ /\ Len(path) > Len(prefix)
       /\ \A i \in DOMAIN prefix : <<prefix[i], path[i]>> \in Like
    \/ prefix = <<>>

Selected(rows, opts) ==
    {r \in rows : /\ UnderPrefix(opts.prefix, r.path)
                  /\ opts.after = 0 \/ r.updated >= opts.after
                  /\ opts.before = 0 \/ r.updated <= opts.before}

\* One direction for every column of the sort key, and the missing ones of
\* path and name, ascending, to settle ties.
OrderClause(opts) ==
    LET key == IF opts.sort \in DOMAIN Sortable THEN Sortable[opts.sort] ELSE DefaultSort
    IN  [i \in DOMAIN key |-> <<key[i], opts.desc>>]
          \o SelectSeq(<<<<"path", FALSE>>, <<"name", FALSE>>>>,
                       LAMBDA tie : tie[1] \notin ToSet(key))

Less(col, v, w) == IF col = "updated" THEN v < w ELSE Rank[v] < Rank[w]

Before(order, a, b) ==
    \E i \in DOMAIN order :
        LET col == order[i][1]
        IN  /\ \A j \in 1..(i - 1) : a[order[j][1]] = b[order[j][1]]
            /\ IF order[i][2] THEN Less(col, b[col], a[col]) ELSE Less(col, a[col], b[col])

Sorted(rows, opts) ==
    SetToSortSeq(Selected(rows, opts), LAMBDA a, b : Before(OrderClause(opts), a, b))

\* LIMIT and OFFSET
Slice(s, limit, offset) ==
    SubSeq(s, offset + 1, IF offset + limit > Len(s) THEN Len(s) ELSE offset + limit)

ListPage(rows, opts, limit, offset) ==
    [items |-> Slice(Sorted(rows, opts), limit, offset),
     total |-> Cardinality(Selected(rows, opts))]

\* One row per path, with how many rows are at it.
PathsPage(rows, opts, limit, offset) ==
    LET paths == {r.path : r \in Selected(rows, opts)}
        sorted == SetToSortSeq(paths, LAMBDA a, b : IF opts.desc THEN Rank[b] < Rank[a]
                                                    ELSE Rank[a] < Rank[b])
    IN  [items |-> [i \in DOMAIN Slice(sorted, limit, offset) |->
                      LET path == Slice(sorted, limit, offset)[i]
                      IN  <<path, Cardinality({r \in Selected(rows, opts) : r.path = path})>>],
         total |-> Cardinality(paths)]

\* search without hidden rows: a larger slice is read, filtered, and cut.
HiddenOverfetch == 4
HiddenFetchCap == 1000
SearchPage(rows, opts, limit, offset) ==
    LET wide == limit * HiddenOverfetch
        read == Slice(Sorted(rows, opts), IF wide < HiddenFetchCap THEN wide ELSE HiddenFetchCap, offset)
    IN  [items |-> Slice(SelectSeq(read, LAMBDA r : ~r.hidden), limit, 0),
         total |-> Cardinality(Selected(rows, opts))]

-----------------------------------------------------------------------------

\* Whatever the key and the page size, the pages one after the other are all
\* the rows that are asked for, each once; so are the pages of paths; and a
\* search that leaves hidden rows out shows none of them and misses no row that
\* its page of the plain list has.
PagesLaw(rows, opts, limit) ==
    LET offsets == {limit * k : k \in 0..Cardinality(rows)}
        pages(Page(_)) == UNION {ToSet(Page(o)) : o \in offsets}
        all(o) == ListPage(rows, opts, limit, o).items
        facets(o) == PathsPage(rows, opts, limit, o).items
    IN  /\ pages(all) = Selected(rows, opts)
        /\ \A o1, o2 \in offsets : o1 # o2 => ToSet(all(o1)) \cap ToSet(all(o2)) = {}
        /\ pages(facets) = {<<r.path, Cardinality({q \in Selected(rows, opts) : q.path = r.path})>> :
                              r \in Selected(rows, opts)}
        /\ \A o1, o2 \in offsets : o1 # o2 => ToSet(facets(o1)) \cap ToSet(facets(o2)) = {}
        /\ \A o \in offsets :
              LET found == ToSet(SearchPage(rows, opts, limit, o).items)
              IN  {r \in ToSet(all(o)) : ~r.hidden} \subseteq found
                    /\ \A r \in found : ~r.hidden
=============================================================================
