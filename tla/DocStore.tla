------------------------------ MODULE DocStore ------------------------------
(***************************************************************************)
(* The document store: rows, their full-text index and their references,   *)
(* in one database that several processes write.  Each SQL statement is    *)
(* atomic, with its triggers, and nothing spans two of them.               *)
(*                                                                         *)
(* A row's optional fields (title, summary, author, ...) merge alike: the  *)
(* title stands for them.  Contents are told apart by the types they are   *)
(* valid for and by the documents they link to under each type.            *)
(***************************************************************************)
EXTENDS Naturals

CONSTANTS
    DocThreads,    \* writers, of any process
    DocKeys,       \* full references: path and name
    DocTargets,    \* what a document may link to, there or not
    DocTitles,
    DocTypes,      \* type references
    DocContents,   \* contents; Bare is {}, what a new document gets by default
    Bare,
    DocFits,       \* the pairs <<contents, type>> that validate
    DocLinks,      \* DocLinks[contents, type]: the DocRef targets walk_contents finds
    Absent,        \* a field that is not given
    MaxDocOps      \* bound on operations

\* What a row of the table, with an id of these, can be; title stands for the
\* optional columns, text for the full-text index.
DocForms(ids) ==
    [id : ids, title : DocTitles \cup {Absent}, type_ref : DocTypes, contents : DocContents,
     text : [title : DocTitles \cup {Absent}, type_ref : DocTypes, contents : DocContents]]

ASSUME DocAssumption ==
    /\ Bare \in DocContents
    /\ Absent \notin DocKeys
    /\ Absent \notin DocForms(Nat)
    /\ DocFits \subseteq DocContents \X DocTypes
    /\ DocLinks \in [DocContents \X DocTypes -> SUBSET DocTargets]
    /\ MaxDocOps \in Nat

VARIABLES
    docRows,   \* key -> the row with that path and name, or Absent
    docRefs,   \* document_refs: a set of <<document id, target>>
    docIds,    \* ids given out so far
    docPc,     \* thread -> step
    docJob,    \* thread -> what it does
    docOps,    \* operations so far
    docMixed   \* keys whose last write did not run alone and to its end

docVars == <<docRows, docRefs, docIds, docPc, docJob, docOps, docMixed>>

Given(value, otherwise) == IF value = Absent THEN otherwise ELSE value

DocInputs == [title : DocTitles \cup {Absent}, type_ref : DocTypes \cup {Absent},
              contents : DocContents \cup {Absent}]

\* compute_content: the text that is indexed, and the links; what it makes of
\* a row depends on the row's title, type and contents only.
TextOf(row) == [title |-> row.title, type_ref |-> row.type_ref, contents |-> row.contents]
LinksOf(row) == DocLinks[row.contents, row.type_ref]

\* A row as a save writes it.
RowOf(id, row) == [id |-> id, title |-> row.title, type_ref |-> row.type_ref,
                   contents |-> row.contents, text |-> TextOf(row)]

\* save's merge of its input into the row it found.
MergeDoc(input, found) ==
    IF found = Absent
    THEN [title |-> input.title, type_ref |-> input.type_ref,
          contents |-> Given(input.contents, Bare)]
    ELSE [title |-> Given(input.title, found.title),
          type_ref |-> Given(input.type_ref, found.type_ref),
          contents |-> Given(input.contents, found.contents)]

\* search by linked_to: the keys of the rows that have a reference to it.
LinkedTo(target) ==
    {k \in DocKeys : docRows[k] # Absent /\ <<docRows[k].id, target>> \in docRefs}

NoDocJob == [key |-> Absent, id |-> 0, new |-> FALSE, row |-> Absent, links |-> {},
             todo |-> {}, alone |-> TRUE]

DocInit ==
    /\ docRows = [k \in DocKeys |-> Absent]
    /\ docRefs = {}
    /\ docIds = 0
    /\ docPc = [t \in DocThreads |-> "idle"]
    /\ docJob = [t \in DocThreads |-> NoDocJob]
    /\ docOps = 0
    /\ docMixed = {}

-----------------------------------------------------------------------------
(* Which writes overlap: only the properties look at it.  A reindex writes *)
(* every row.                                                              *)

Claims(t) == IF docPc[t] = "idle" THEN {}
             ELSE IF docJob[t].key = Absent THEN DocKeys ELSE {docJob[t].key}

Rivals(t, keys) == {s \in DocThreads \ {t} : Claims(s) \cap keys # {}}

\* t begins job on these keys.
Begin(t, step, job, keys) ==
    /\ docPc[t] = "idle"
    /\ docOps < MaxDocOps
    /\ docOps' = docOps + 1
    /\ docPc' = [docPc EXCEPT ![t] = step]
    /\ docJob' = [s \in DocThreads |->
                    IF s = t THEN [job EXCEPT !.alone = Rivals(t, keys) = {}]
                    ELSE [docJob[s] EXCEPT !.alone = @ /\ s \notin Rivals(t, keys)]]

\* t is done; it has mended its keys if it ran alone.
End(t, clean) ==
    /\ docPc' = [docPc EXCEPT ![t] = "idle"]
    /\ docJob' = [docJob EXCEPT ![t] = NoDocJob]
    /\ docMixed' = IF clean /\ docJob[t].alone THEN docMixed \ Claims(t)
                   ELSE docMixed \cup Claims(t)

-----------------------------------------------------------------------------

\* save reads the row, merges, validates against the type and computes what to
\* index.  Without a type, or if the contents are not valid, it ends here.
SaveDoc(t, k, input) ==
    LET found == docRows[k]
        row == MergeDoc(input, found)
    IN  /\ <<row.contents, row.type_ref>> \in DocFits
        /\ Begin(t, "write",
                 [NoDocJob EXCEPT !.key = k, !.row = row, !.links = LinksOf(row),
                                  !.new = found = Absent,
                                  !.id = IF found = Absent THEN docIds + 1 ELSE found.id],
                 {k})
        /\ docIds' = IF found = Absent THEN docIds + 1 ELSE docIds
        /\ UNCHANGED <<docRows, docRefs, docMixed>>

\* What would break it: an UPDATE of the contents that leaves the type as it is.
WriteDocContents(t) ==
    LET job == docJob[t]
        there == docRows[job.key]
    IN  /\ docPc[t] = "write"
        /\ docRows' = [docRows EXCEPT ![job.key] =
                         IF there = Absent
                         THEN RowOf(job.id, job.row)
                         ELSE [there EXCEPT !.contents = job.row.contents]]
        /\ docPc' = [docPc EXCEPT ![t] = "unref"]
        /\ UNCHANGED <<docRefs, docIds, docJob, docOps, docMixed>>

\* INSERT, which fails if the key has been taken, or UPDATE, which keeps the
\* id and does nothing if the row is gone.
WriteDoc(t) ==
    LET job == docJob[t]
        there == docRows[job.key]
    IN  /\ docPc[t] = "write"
        /\ \/ /\ ~(job.new /\ there # Absent)
              /\ docRows' = IF job.new
                            THEN [docRows EXCEPT ![job.key] = RowOf(job.id, job.row)]
                            ELSE IF there = Absent THEN docRows
                            ELSE [docRows EXCEPT ![job.key] = RowOf(there.id, job.row)]
              /\ docPc' = [docPc EXCEPT ![t] = "unref"]
              /\ UNCHANGED <<docJob, docMixed>>
           \/ /\ job.new /\ there # Absent
              /\ End(t, TRUE)
              /\ UNCHANGED docRows
        /\ UNCHANGED <<docRefs, docIds, docOps>>

\* write_doc_refs deletes the references of the id ...
DropRefs(t) ==
    /\ docPc[t] = "unref"
    /\ docPc' = [docPc EXCEPT ![t] = "ref"]
    /\ docRefs' = {r \in docRefs : r[1] # docJob[t].id}
    /\ UNCHANGED <<docRows, docIds, docJob, docOps, docMixed>>

\* ... and inserts the new ones, one by one.
InsertRef(t) ==
    /\ docPc[t] = "ref"
    /\ \E target \in docJob[t].links :
          /\ docRefs' = docRefs \cup {<<docJob[t].id, target>>}
          /\ docJob' = [docJob EXCEPT ![t].links = @ \ {target}]
    /\ UNCHANGED <<docRows, docIds, docPc, docOps, docMixed>>

\* save reads the row again and answers with it; reindex_all goes on.
SavedDoc(t) ==
    /\ docPc[t] = "ref"
    /\ docJob[t].links = {}
    /\ \/ docJob[t].key # Absent /\ End(t, TRUE)
       \/ /\ docJob[t].key = Absent
          /\ docPc' = [docPc EXCEPT ![t] = "reindex"]
          /\ UNCHANGED <<docJob, docMixed>>
    /\ UNCHANGED <<docRows, docRefs, docIds, docOps>>

\* One statement; the documents_ad trigger clears the references of the row.
DeleteDoc(k) ==
    /\ docOps < MaxDocOps
    /\ docOps' = docOps + 1
    /\ docRows[k] # Absent
    /\ docRows' = [docRows EXCEPT ![k] = Absent]
    /\ docRefs' = {r \in docRefs : r[1] # docRows[k].id}
    /\ docJob' = [s \in DocThreads |-> [docJob[s] EXCEPT !.alone = @ /\ k \notin Claims(s)]]
    /\ UNCHANGED <<docIds, docPc, docMixed>>

\* reindex_all reads every row, then writes each one's text by its id, and its
\* references.
ReindexAll(t) ==
    /\ Begin(t, "reindex",
             [NoDocJob EXCEPT !.todo = {docRows[k] : k \in DocKeys} \ {Absent}], DocKeys)
    /\ UNCHANGED <<docRows, docRefs, docIds, docMixed>>

ReindexDoc(t) ==
    /\ docPc[t] = "reindex"
    /\ \E row \in docJob[t].todo :
          /\ docPc' = [docPc EXCEPT ![t] = "unref"]
          /\ docJob' = [docJob EXCEPT ![t].todo = @ \ {row}, ![t].id = row.id,
                                      ![t].links = LinksOf(row)]
          /\ docRows' = [k \in DocKeys |->
                           IF docRows[k] # Absent /\ docRows[k].id = row.id
                           THEN [docRows[k] EXCEPT !.text = TextOf(row)] ELSE docRows[k]]
    /\ UNCHANGED <<docRefs, docIds, docOps, docMixed>>

ReindexEnds(t) ==
    /\ docPc[t] = "reindex"
    /\ docJob[t].todo = {}
    /\ End(t, TRUE)
    /\ UNCHANGED <<docRows, docRefs, docIds, docOps>>

\* A statement fails, or the process dies.
DocFails(t) ==
    /\ docPc[t] # "idle"
    /\ End(t, FALSE)
    /\ UNCHANGED <<docRows, docRefs, docIds, docOps>>

DocNext ==
    \/ \E t \in DocThreads :
          \/ \E k \in DocKeys, input \in DocInputs : SaveDoc(t, k, input)
          \/ WriteDoc(t) \/ DropRefs(t) \/ InsertRef(t) \/ SavedDoc(t)
          \/ ReindexAll(t) \/ ReindexDoc(t) \/ ReindexEnds(t)
          \/ DocFails(t)
    \/ \E k \in DocKeys : DeleteDoc(k)

DocSpec == DocInit /\ [][DocNext]_docVars

-----------------------------------------------------------------------------

DocTypeOK ==
    /\ docRows \in [DocKeys -> DocForms(1..docIds) \cup {Absent}]
    /\ docRefs \subseteq (1..docIds) \X DocTargets
    /\ docPc \in [DocThreads -> {"idle", "write", "unref", "ref", "reindex"}]
    /\ docMixed \subseteq DocKeys

\* Saves that change the type and the contents of one document separately may
\* overlap in any way: what is stored is always valid under the type stored
\* with it, though save validates long before it writes.
ContentsFitType ==
    \A k \in DocKeys :
        docRows[k] # Absent => <<docRows[k].contents, docRows[k].type_ref>> \in DocFits

\* Full text and links follow the document.  Only overlapping or interrupted
\* writes can spoil them, and the next save or reindex that runs alone mends
\* what those left, references of another incarnation of the key included.
IndexFollowsDocument ==
    \A k \in DocKeys :
        LET row == docRows[k]
        IN  row # Absent /\ k \notin docMixed \cup UNION {Claims(t) : t \in DocThreads}
              => /\ row.text = TextOf(row)
                 /\ \A target \in DocTargets : k \in LinkedTo(target) <=> target \in LinksOf(row)

\* What a document's readers may rely on, of one key and across its stores: the
\* contents fit the type, and the searches by text and by link find what the
\* document says (the module's two invariants).
DocsConsistent == ContentsFitType /\ IndexFollowsDocument
=============================================================================
