-------------------------------- MODULE Files --------------------------------
(***************************************************************************)
(* The file store: a directory tree that callers put files into and delete *)
(* them from.  put makes the directories on the way and then writes;       *)
(* delete removes the file and then, from its directory upwards, every     *)
(* directory that it finds empty.  Each system call is one step.           *)
(*                                                                         *)
(* Paths are normalized before anything is touched (NormalizeRel); the     *)
(* tree is given by the parent of each path.                               *)
(***************************************************************************)
EXTENDS Naturals, Sequences, FiniteSets

CONSTANTS
    FilThreads,    \* callers, of any process
    FilNames,      \* paths of files
    FilDirs,       \* paths of directories below the root
    FilRoot,
    FilParent,     \* the directory that a path is in
    FilNone,       \* no content: the file is not there
    FilEmpty,      \* the content of a file that was truncated
    MaxFilOps      \* bound on operations

ASSUME FilAssumption ==
    /\ FilParent \in [FilNames \cup FilDirs -> FilDirs \cup {FilRoot}]
    /\ FilEmpty # FilNone /\ FilNone \notin FilThreads \X Nat
    /\ FilRoot \notin FilDirs
    /\ MaxFilOps \in Nat

VARIABLES
    filTree,     \* the directories that are there
    filBytes,    \* file -> content
    filPc,       \* thread -> step
    filJob,      \* thread -> [file, bytes, dirs, down, todo]
    filKept,     \* file -> what is known to be in it, FilNone if nothing is
    filLitter,   \* a put failed or was cut off, and may have left directories
    filOps       \* operations so far

filVars == <<filTree, filBytes, filPc, filJob, filKept, filLitter, filOps>>

\* normalize_rel: separators of both kinds have been cut at; empty segments and
\* "." are dropped, ".." and segments with a colon or a control character (Bad)
\* are refused, and hostile characters are replaced (Clean).
NormalizeRel(segments, Bad, Clean) ==
    LET kept == SelectSeq(segments, LAMBDA s : s \notin {"", "."})
    IN  IF kept = <<>> \/ \E i \in DOMAIN kept : kept[i] = ".." \/ kept[i] \in Bad
        THEN <<>> ELSE [i \in DOMAIN kept |-> Clean[kept[i]]]

FilThere(path) == path = FilRoot \/ path \in filTree
FilChildren(dir) ==
    {d \in filTree : FilParent[d] = dir}
        \cup {f \in FilNames : filBytes[f] # FilNone /\ FilParent[f] = dir}

NoFilJob == [file |-> FilNone, bytes |-> FilNone, dirs |-> <<>>, down |-> TRUE, todo |-> {}]

FilInit ==
    /\ filTree = {}
    /\ filBytes = [f \in FilNames |-> FilNone]
    /\ filPc = [t \in FilThreads |-> "idle"]
    /\ filJob = [t \in FilThreads |-> NoFilJob]
    /\ filKept = [f \in FilNames |-> FilNone]
    /\ filLitter = FALSE
    /\ filOps = 0

-----------------------------------------------------------------------------

FilGo(t, from, to) == filPc[t] = from /\ filPc' = [filPc EXCEPT ![t] = to]

FilStart(t, step, job) ==
    /\ FilGo(t, "idle", step)
    /\ filOps < MaxFilOps
    /\ filOps' = filOps + 1
    /\ filJob' = [filJob EXCEPT ![t] = job]

FilWriters(f) == {t \in FilThreads : filPc[t] \in {"mkdir", "truncate", "fill", "remove"}
                                       /\ filJob[t].file = f}

\* What f holds is known again when the only writer of it is done.
FilKeep(t, f, content) ==
    filKept' = [filKept EXCEPT ![f] = IF FilWriters(f) \subseteq {t} THEN content ELSE FilNone]

\* put begins with create_dir_all of the file's directory ...
FilPut(t, f) ==
    /\ FilStart(t, "mkdir", [NoFilJob EXCEPT !.file = f, !.bytes = <<t, filOps>>,
                                             !.dirs = <<FilParent[f]>>])
    /\ filKept' = [filKept EXCEPT ![f] = FilNone]
    /\ UNCHANGED <<filTree, filBytes, filLitter>>

\* ... which goes up to a directory that it finds or can make, and then down
\* again; if what it found or made is gone by then, the put fails ...
FilMkdir(t) ==
    LET dirs == filJob[t].dirs
        d == Head(dirs)
    IN  /\ filPc[t] = "mkdir"
        /\ dirs # <<>>
        /\ \/ /\ FilThere(d) \/ FilThere(FilParent[d])
              /\ filTree' = (filTree \cup {d}) \ {FilRoot}
              /\ filJob' = [filJob EXCEPT ![t].dirs = Tail(dirs), ![t].down = FALSE]
              /\ UNCHANGED <<filPc, filLitter>>
           \/ /\ ~(FilThere(d) \/ FilThere(FilParent[d]))
              /\ filJob[t].down
              /\ filJob' = [filJob EXCEPT ![t].dirs = <<FilParent[d]>> \o dirs]
              /\ UNCHANGED <<filTree, filPc, filLitter>>
           \/ /\ ~(FilThere(d) \/ FilThere(FilParent[d]))
              /\ ~filJob[t].down
              /\ FilGo(t, "mkdir", "idle")
              /\ filJob' = [filJob EXCEPT ![t] = NoFilJob]
              /\ filLitter' = TRUE
              /\ UNCHANGED filTree
        /\ UNCHANGED <<filBytes, filKept, filOps>>

\* ... then opens the file, which fails if its directory is gone ...
FilTruncate(t) ==
    LET f == filJob[t].file
    IN  /\ filPc[t] = "mkdir"
        /\ filJob[t].dirs = <<>>
        /\ \/ /\ FilThere(FilParent[f])
              /\ filBytes' = [filBytes EXCEPT ![f] = FilEmpty]
              /\ FilGo(t, "mkdir", "fill")
              /\ UNCHANGED <<filJob, filLitter>>
           \/ /\ ~FilThere(FilParent[f])
              /\ FilGo(t, "mkdir", "idle")
              /\ filJob' = [filJob EXCEPT ![t] = NoFilJob]
              /\ filLitter' = TRUE
              /\ UNCHANGED filBytes
        /\ UNCHANGED <<filTree, filKept, filOps>>

\* ... and writes the bytes: to nowhere, if the file was deleted meanwhile.
FilFill(t) ==
    LET f == filJob[t].file
    IN  /\ FilGo(t, "fill", "idle")
        /\ filBytes' = [filBytes EXCEPT ![f] = IF @ = FilNone THEN FilNone ELSE filJob[t].bytes]
        /\ filJob' = [filJob EXCEPT ![t] = NoFilJob]
        /\ FilKeep(t, f, filBytes'[f])
        /\ UNCHANGED <<filTree, filLitter, filOps>>

\* delete of one file, or dir-delete: of every file listed under a directory.
FilDelete(t, files) ==
    /\ FilStart(t, "next", [NoFilJob EXCEPT !.todo = files])
    /\ UNCHANGED <<filTree, filBytes, filKept, filLitter>>

\* (Files are at most two directories deep here.)
FilListed(dir) ==
    {f \in FilNames : /\ filBytes[f] # FilNone
                      /\ \/ FilParent[f] = dir
                         \/ FilParent[f] # FilRoot /\ FilParent[FilParent[f]] = dir}

FilNextFile(t) ==
    /\ filPc[t] = "next"
    /\ \E f \in filJob[t].todo :
          /\ filJob' = [filJob EXCEPT ![t].file = f, ![t].todo = @ \ {f}]
          /\ filKept' = [filKept EXCEPT ![f] = FilNone]
    /\ FilGo(t, "next", "remove")
    /\ UNCHANGED <<filTree, filBytes, filLitter, filOps>>

FilRemove(t) ==
    LET f == filJob[t].file
    IN  /\ FilGo(t, "remove", "look")
        /\ filBytes' = [filBytes EXCEPT ![f] = FilNone]
        /\ filJob' = [filJob EXCEPT ![t].dirs = <<FilParent[f]>>]
        /\ UNCHANGED <<filTree, filKept, filLitter, filOps>>

\* cleanup_empty_parents looks into a directory ...
FilLook(t) ==
    LET d == Head(filJob[t].dirs)
    IN  /\ FilGo(t, "look", IF d # FilRoot /\ d \in filTree /\ FilChildren(d) = {}
                            THEN "prune" ELSE "next")
        /\ UNCHANGED <<filTree, filBytes, filJob, filKept, filLitter, filOps>>

\* What would break it: a removal that takes the content along.
FilPruneAll(t) ==
    LET d == Head(filJob[t].dirs)
    IN  /\ FilGo(t, "prune", "look")
        /\ filTree' = filTree \ {d}
        /\ filBytes' = [f \in FilNames |-> IF FilParent[f] = d THEN FilNone ELSE filBytes[f]]
        /\ filJob' = [filJob EXCEPT ![t].dirs = <<FilParent[d]>>]
        /\ UNCHANGED <<filKept, filLitter, filOps>>

\* ... and removes it, which does nothing if it is not empty any more.
FilPrune(t) ==
    LET d == Head(filJob[t].dirs)
    IN  /\ FilGo(t, "prune", "look")
        /\ filTree' = IF FilChildren(d) = {} THEN filTree \ {d} ELSE filTree
        /\ filJob' = [filJob EXCEPT ![t].dirs = <<FilParent[d]>>]
        /\ UNCHANGED <<filBytes, filKept, filLitter, filOps>>

FilDeleted(t) ==
    /\ filJob[t].todo = {}
    /\ FilGo(t, "next", "idle")
    /\ filJob' = [filJob EXCEPT ![t] = NoFilJob]
    /\ UNCHANGED <<filTree, filBytes, filKept, filLitter, filOps>>

\* The process of t dies.
FilCrash(t) ==
    /\ filPc[t] # "idle"
    /\ filPc' = [filPc EXCEPT ![t] = "idle"]
    /\ filJob' = [filJob EXCEPT ![t] = NoFilJob]
    /\ filLitter' = TRUE
    /\ UNCHANGED <<filTree, filBytes, filKept, filOps>>

FilNext ==
    \E t \in FilThreads :
        \/ \E f \in FilNames : FilPut(t, f) \/ FilDelete(t, {f})
        \/ \E d \in FilDirs : FilDelete(t, FilListed(d))
        \/ FilMkdir(t) \/ FilTruncate(t) \/ FilFill(t)
        \/ FilNextFile(t) \/ FilRemove(t) \/ FilLook(t) \/ FilPrune(t) \/ FilDeleted(t)
        \/ FilCrash(t)

FilSpec == FilInit /\ [][FilNext]_filVars

-----------------------------------------------------------------------------

FilTypeOK ==
    /\ filTree \subseteq FilDirs
    /\ filPc \in [FilThreads -> {"idle", "mkdir", "truncate", "fill", "next", "remove",
                                 "look", "prune"}]
    /\ \A t \in FilThreads : filJob[t].file \in FilNames \cup {FilNone}

\* Pruning never takes a file with it: what a put that reported success has
\* written, with no other put or delete of that file since, is there, in a
\* directory that is there, whatever is deleted around it.  And when nobody is
\* at work the tree has no empty directory, unless a put ever failed halfway.
FilesSurvivePruning ==
    /\ \A f \in FilNames :
          /\ filKept[f] # FilNone => filBytes[f] = filKept[f]
          /\ filBytes[f] # FilNone => FilThere(FilParent[f])
    /\ \A d \in filTree : FilThere(FilParent[d])
    /\ filLitter \/ (\E t \in FilThreads : filPc[t] # "idle")
         \/ \A d \in filTree : FilChildren(d) # {}
=============================================================================
