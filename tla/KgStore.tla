------------------------------- MODULE KgStore -------------------------------
(***************************************************************************)
(* The directory of a project's knowledge graph: publish of                *)
(* src/kg/write.rs, which several processes may run at once without a      *)
(* lock, and a reader (with_snapshot and the tables that are read on       *)
(* demand, src/kg/store.rs) that opens its files one by one meanwhile.     *)
(*                                                                         *)
(* A publication is named by the process that makes it, as the token in    *)
(* its marker does. A digest stands for the bytes it is of: two            *)
(* publications may hold the same bytes in some of their files. A process  *)
(* writes one graph; a rename of the file system may fail.                 *)
(***************************************************************************)
EXTENDS Integers, FiniteSets

CONSTANTS Writers,       \* the processes that publish a graph
          Old,           \* the publication that may be there before
          Bytes,         \* what a file can hold
          Attempts,      \* ATTEMPTS
          ReadAttempts,  \* READ_ATTEMPTS
          MaxFaults,     \* bound on renames that fail
          None

Publications == Writers \cup {Old}

VARIABLES
  dir,      \* the publication in the directory, or None
  graph,    \* the files of each publication: its core tables, and one table read on demand
  writer,   \* where each writer is, its attempt, and what it moved away
  reader,   \* where the reader is and what it has read
  faults

vars == <<dir, graph, writer, reader, faults>>

NoRead == [at |-> "marker", attempt |-> 1, again |-> FALSE, marker |-> None,
           manifest |-> None, core |-> None, table |-> None]

Init ==
  /\ dir \in {Old, None}
  /\ graph \in [Publications -> [core : Bytes, table : Bytes]]
  /\ writer = [w \in Writers |-> [at |-> "look", attempt |-> 1, previous |-> None]]
  /\ reader = NoRead
  /\ faults = 0
-----------------------------------------------------------------------------
(* publish, from where the staging directory is complete. *)

Move(w, at) == writer' = [writer EXCEPT ![w].at = at]

\* symlink_metadata of the directory.
Look(w) ==
  /\ writer[w].at = "look"
  /\ writer' = [writer EXCEPT ![w].at = IF dir = None THEN "place" ELSE "marker", ![w].previous = None]
  /\ UNCHANGED <<dir, graph, reader, faults>>

\* has_marker: a directory without one is not replaced.
HasMarker(w) ==
  /\ writer[w].at = "marker"
  /\ Move(w, IF dir = None THEN "not_ours" ELSE "move")
  /\ UNCHANGED <<dir, graph, reader, faults>>

\* It moves to the temporary directory, unless another process has moved it.
MoveAway(w) ==
  /\ writer[w].at = "move"
  /\ \/ /\ writer' = [writer EXCEPT ![w].at = "place", ![w].previous = dir]
        /\ dir' = None /\ UNCHANGED faults
     \/ faults < MaxFaults /\ faults' = faults + 1 /\ Move(w, "failed") /\ UNCHANGED dir
  /\ UNCHANGED <<graph, reader>>


\* The staging directory takes the place. A graph that another process put there first is a
\* reason to try again; after another failure what was moved away goes back, if nothing is there.
Place(w) ==
  /\ writer[w].at = "place"
  /\ \/ dir = None /\ dir' = w /\ Move(w, "done") /\ UNCHANGED faults
     \/ dir # None /\ writer[w].attempt < Attempts /\ UNCHANGED <<dir, faults>>
        /\ writer' = [writer EXCEPT ![w].at = "look", ![w].attempt = @ + 1]
     \/ dir # None /\ writer[w].attempt = Attempts /\ Move(w, "failed") /\ UNCHANGED <<dir, faults>>
     \/ faults < MaxFaults /\ faults' = faults + 1 /\ UNCHANGED dir
        /\ Move(w, IF writer[w].previous = None THEN "failed" ELSE "restore")
  /\ UNCHANGED <<graph, reader>>

Restore(w) ==
  /\ writer[w].at = "restore"
  /\ dir' = IF dir = None THEN writer[w].previous ELSE dir
  /\ Move(w, "failed")
  /\ UNCHANGED <<graph, reader, faults>>

Write(w) == Look(w) \/ HasMarker(w) \/ MoveAway(w) \/ Place(w) \/ Restore(w)
-----------------------------------------------------------------------------
(* with_snapshot: the marker, the manifest, the files against its digests, the marker again. *)

Becomes(read) == reader' = read /\ UNCHANGED <<dir, graph, writer, faults>>

\* The end of a read that has no graph.
End(at) == [NoRead EXCEPT !.at = at]

ReadMarker ==
  /\ reader.at = "marker"
  /\ Becomes([reader EXCEPT !.at = "stat", !.marker = dir])

\* The read starts again, as often as READ_ATTEMPTS allows.
Again == IF reader.attempt = ReadAttempts THEN End("broken")
         ELSE [NoRead EXCEPT !.attempt = reader.attempt + 1]

\* manifest::read finds no manifest. When it looks again after a file that did not match, that is
\* a replacement.
NoManifest(at) == IF reader.again THEN Again ELSE End(at)

Stat ==
  /\ reader.at = "stat"
  /\ Becomes(IF dir = None THEN NoManifest("missing") ELSE [reader EXCEPT !.at = "stamp"])

Stamp ==
  /\ reader.at = "stamp"
  /\ Becomes(IF dir = None THEN NoManifest("not_ours") ELSE [reader EXCEPT !.at = "manifest"])

\* The manifest that was read before and is still there makes a file that did not match damage.
ReadManifest ==
  /\ reader.at = "manifest"
  /\ Becomes(IF dir = None THEN NoManifest("broken")
             ELSE IF ~reader.again THEN [reader EXCEPT !.at = "core", !.manifest = dir]
             ELSE IF graph[dir] = graph[reader.manifest] THEN End("broken")
             ELSE Again)

ReadCore ==
  /\ reader.at = "core"
  /\ Becomes(IF dir # None /\ graph[dir].core = graph[reader.manifest].core
             THEN [reader EXCEPT !.at = "check", !.core = graph[dir].core]
             ELSE [reader EXCEPT !.at = "stat", !.again = TRUE])

\* Variant with a bug: the marker is not read again.
CheckMarkerNever ==
  /\ reader.at = "check"
  /\ Becomes([reader EXCEPT !.at = "open"])

CheckMarker ==
  /\ reader.at = "check"
  /\ Becomes(IF dir = reader.marker THEN [reader EXCEPT !.at = "open"] ELSE Again)

\* Variant with a bug: the rows of a table are those of whatever graph is there.
ReadTableUnchecked ==
  /\ reader.at = "open"
  /\ Becomes(IF dir # None THEN [reader EXCEPT !.at = "answered", !.table = graph[dir].table]
             ELSE End("replaced"))

\* A table is read when it is asked for. One that does not match has no rows, and the failure
\* that is kept refuses the answer.
ReadTable ==
  /\ reader.at = "open"
  /\ Becomes(IF dir # None /\ graph[dir].table = graph[reader.manifest].table
             THEN [reader EXCEPT !.at = "answered", !.table = graph[dir].table]
             ELSE [reader EXCEPT !.at = "listed"])

\* What the manifest that is there now lists tells a replacement from damage.
Listed ==
  /\ reader.at = "listed"
  /\ Becomes(End(IF dir # None /\ graph[dir].table = graph[reader.manifest].table THEN "broken" ELSE "replaced"))

Read == ReadMarker \/ Stat \/ Stamp \/ ReadManifest \/ ReadCore \/ CheckMarker \/ ReadTable \/ Listed

WriterEnds == {"done", "failed", "not_ours"}
ReaderEnds == {"answered", "missing", "not_ours", "broken", "replaced"}

Ended == reader.at \in ReaderEnds /\ \A w \in Writers : writer[w].at \in WriterEnds

Next == Read \/ (\E w \in Writers : Write(w)) \/ (Ended /\ UNCHANGED vars)

Spec == Init /\ [][Next]_vars
-----------------------------------------------------------------------------
TypeOK ==
  /\ dir \in Publications \cup {None} /\ faults \in 0..MaxFaults
  /\ \A w \in Writers : /\ writer[w].at \in {"look", "marker", "move", "place", "restore"} \cup WriterEnds
                        /\ writer[w].attempt \in 1..Attempts
                        /\ writer[w].previous \in Publications \cup {None}
  /\ reader.at \in {"marker", "stat", "stamp", "manifest", "core", "check", "open", "listed"} \cup ReaderEnds
  /\ reader.attempt \in 1..ReadAttempts

\* What a reader has opened is one publication: its files, and the marker whose stamp tells which
\* compiler wrote it, are those of the manifest, whatever was replaced while it read. (It may have
\* found no marker at all, before and after: judge then takes the graph for stale.)
SnapshotIsOne ==
  reader.at \in {"open", "answered"} =>
    /\ reader.core = graph[reader.manifest].core
    /\ reader.marker \in {reader.manifest, None}

\* No answer mixes two graphs: the tables that were read on demand are those of the manifest too.
AnswerIsOne == reader.at = "answered" => reader.table = graph[reader.manifest].table

\* When the writers are done the directory holds a graph, if there was one or one of them
\* succeeded: processes that replace it at once do not delete it between them.
GraphIsKept ==
  (\A w \in Writers : writer[w].at \in WriterEnds) =>
    \/ dir # None
    \/ \A w \in Writers : writer[w].at # "done" /\ writer[w].previous = None
=============================================================================
