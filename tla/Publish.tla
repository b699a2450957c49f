------------------------------- MODULE Publish -------------------------------
(***************************************************************************)
(* How a build puts its outputs in place (publish_outputs of               *)
(* src/driver.rs: the sidecars first, the artifact last, what is replaced  *)
(* backed up in the temporary directory) and how `tsuzuri doc` replaces    *)
(* its directory (document). Every call of the file system may fail, and   *)
(* the process may die between two of them.                                *)
(*                                                                         *)
(* A place holds the old file, the new one, or nothing. The directory of   *)
(* `doc` is the output, and has no sidecars.                               *)
(***************************************************************************)
EXTENDS Integers

CONSTANT Sidecars   \* sidecars of the output: 1..Sidecars

PublishAssumption == Sidecars \in Nat

Places == 0..Sidecars   \* 0 is the output

VARIABLES
  command,    \* "build" or "doc"
  had,        \* the places that held a file when the command began
  place,      \* what each place holds: "old", "new" or "none"
  backup,     \* what the temporary directory keeps of it: "old" or "none"
  published,  \* the sidecars 1..published are in place
  temporary,  \* whether the temporary directory is there
  pc

vars == <<command, had, place, backup, published, temporary, pc>>

Init ==
  /\ command \in {"build", "doc"}
  /\ had \in SUBSET Places
  /\ place = [p \in Places |-> IF p \in had THEN "old" ELSE "none"]
  /\ backup = [p \in Places |-> "none"]
  /\ published = 0 /\ temporary = TRUE
  /\ pc = IF command = "build" THEN "sidecar" ELSE "doc"

Ends(how, removed) ==
  /\ pc' = how
  /\ temporary' = ~removed
  /\ backup' = IF removed THEN [p \in Places |-> "none"] ELSE backup

\* A sidecar that is there gets a second link in the temporary directory.
Backup ==
  /\ pc = "sidecar" /\ published < Sidecars
  /\ \/ pc' = "undo" /\ UNCHANGED backup
     \/ /\ pc' = "rename"
        /\ backup' = [backup EXCEPT ![published + 1] = IF place[published + 1] = "old" THEN "old" ELSE "none"]
  /\ UNCHANGED <<command, had, place, published, temporary>>

RenameSidecar ==
  /\ pc = "rename"
  /\ \/ pc' = "undo" /\ UNCHANGED <<place, published>>
     \/ /\ pc' = "sidecar"
        /\ place' = [place EXCEPT ![published + 1] = "new"]
        /\ published' = published + 1
  /\ UNCHANGED <<command, had, backup, temporary>>


\* The artifact comes last, and the temporary directory goes with the success.
RenameOutput ==
  /\ pc = "sidecar" /\ published = Sidecars
  /\ \/ pc' = "undo" /\ UNCHANGED <<place, backup, temporary>>
     \/ place' = [place EXCEPT ![0] = "new"] /\ Ends("ok", TRUE)
  /\ UNCHANGED <<command, had, published>>

\* Variant with a bug: a sidecar that had no file before stays.
UndoOld ==
  /\ pc = "undo" /\ published > 0
  /\ LET p == published IN
     \/ /\ place' = [place EXCEPT ![p] = IF backup[p] = "old" THEN "old" ELSE @]
        /\ backup' = [backup EXCEPT ![p] = "none"]
        /\ published' = p - 1
        /\ UNCHANGED <<pc, temporary>>
     \/ Ends("recovery", FALSE) /\ UNCHANGED <<place, published>>
  /\ UNCHANGED <<command, had>>

\* The sidecars are restored or removed, the last one first; one that cannot be ends the command,
\* and the temporary directory stays.
Undo ==
  /\ pc = "undo" /\ published > 0
  /\ LET p == published IN
     \/ /\ place' = [place EXCEPT ![p] = IF backup[p] = "old" THEN "old" ELSE "none"]
        /\ backup' = [backup EXCEPT ![p] = "none"]
        /\ published' = p - 1
        /\ UNCHANGED <<pc, temporary>>
     \/ Ends("recovery", FALSE) /\ UNCHANGED <<place, published>>
  /\ UNCHANGED <<command, had>>

Undone ==
  /\ pc = "undo" /\ published = 0
  /\ Ends("failed", TRUE)
  /\ UNCHANGED <<command, had, place, published>>
-----------------------------------------------------------------------------
\* doc: the directory that is there moves to the temporary directory.
BackupDoc ==
  /\ pc = "doc"
  /\ \/ Ends("failed", TRUE) /\ UNCHANGED place
     \/ /\ place' = [place EXCEPT ![0] = "none"]
        /\ backup' = [backup EXCEPT ![0] = place[0]]
        /\ pc' = "swap" /\ UNCHANGED temporary
  /\ UNCHANGED <<command, had, published>>

\* Variant with a bug: the temporary directory goes, whatever became of the restore.
SwapDocCareless ==
  /\ pc = "swap"
  /\ \/ place' = [place EXCEPT ![0] = "new"] /\ Ends("ok", TRUE)
     \/ place' = [place EXCEPT ![0] = backup[0]] /\ Ends("failed", TRUE)
     \/ backup[0] = "old" /\ Ends("failed", TRUE) /\ UNCHANGED place
  /\ UNCHANGED <<command, had, published>>

\* The new directory takes its place, or the old one is put back, or it stays where it is.
SwapDoc ==
  /\ pc = "swap"
  /\ \/ place' = [place EXCEPT ![0] = "new"] /\ Ends("ok", TRUE)
     \/ place' = [place EXCEPT ![0] = backup[0]] /\ Ends("failed", TRUE)
     \/ backup[0] = "old" /\ Ends("recovery", FALSE) /\ UNCHANGED place
  /\ UNCHANGED <<command, had, published>>

\* The process dies; nothing is cleaned up.
Crash ==
  /\ pc \notin {"ok", "failed", "recovery", "crashed"}
  /\ pc' = "crashed"
  /\ UNCHANGED <<command, had, place, backup, published, temporary>>

Done == pc \in {"ok", "failed", "recovery", "crashed"} /\ UNCHANGED vars

Next ==
  \/ Backup \/ RenameSidecar \/ RenameOutput \/ Undo \/ Undone
  \/ BackupDoc \/ SwapDoc \/ Crash \/ Done

Spec == Init /\ [][Next]_vars
-----------------------------------------------------------------------------
TypeOK ==
  /\ command \in {"build", "doc"} /\ had \subseteq Places /\ temporary \in BOOLEAN
  /\ place \in [Places -> {"old", "new", "none"}] /\ backup \in [Places -> {"old", "none"}]
  /\ published \in 0..Sidecars
  /\ pc \in {"sidecar", "rename", "undo", "doc", "swap", "ok", "failed", "recovery", "crashed"}

\* Until the command has succeeded, what it replaces is in its place or in the temporary
\* directory, at every step at which the process may die and after every failure.
NothingIsLost ==
  pc # "ok" => \A p \in had : place[p] = "old" \/ (temporary /\ backup[p] = "old")

\* A command that reports a plain failure left every place as it found it.
FailureIsClean ==
  pc = "failed" => \A p \in Places : place[p] = IF p \in had THEN "old" ELSE "none"

\* An output is never newer than its sidecars, at any step.
ArtifactIsLast ==
  (command = "build" /\ place[0] = "new") => \A p \in Places : place[p] = "new"
=============================================================================
