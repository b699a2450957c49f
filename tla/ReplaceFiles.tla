---------------------------- MODULE ReplaceFiles ----------------------------
(***************************************************************************)
(* The commands that rewrite the user's sources: replace_files of          *)
(* src/driver.rs (`tsuzuri fix`), apply of src/edition_migration.rs        *)
(* (`tsuzuri migrate`), which both put back what they wrote when a later   *)
(* file fails, and format_sources (`tsuzuri fmt`), which does not.         *)
(*                                                                         *)
(* A file holds the text that the command read, the text that it writes,   *)
(* or what its user saved meanwhile. A file system call may fail.          *)
(***************************************************************************)
EXTENDS Integers, FiniteSets

CONSTANTS Count,     \* files to rewrite: 1..Count
          MaxEdits   \* bound on saves of the user

ReplaceAssumption == Count \in Nat \ {0} /\ MaxEdits \in Nat

Files == 1..Count

VARIABLES
  text,        \* of each file: "original", "replacement" or "user"
  command,     \* "fix" or "fmt"
  pc, at,      \* the step of replace_file, and the file it works on
  back,        \* whether it puts a file back
  unrestored,  \* the files that it could not put back
  safe,        \* the files that the user saved, but not between the last comparison and the rename
  edits

vars == <<text, command, pc, at, back, unrestored, safe, edits>>

Init ==
  /\ text = [f \in Files |-> "original"]
  /\ command \in {"fix", "fmt"}
  /\ pc = "compare" /\ at = 1 /\ back = FALSE
  /\ unrestored = {} /\ safe = {} /\ edits = 0

Original == IF back THEN "replacement" ELSE "original"
Replacement == IF back THEN "original" ELSE "replacement"

\* The file before, when the earlier ones are put back in turn.
PutBack(f) ==
  IF f = 0 THEN pc' = "failed" /\ UNCHANGED <<at, back>>
  ELSE pc' = "compare" /\ at' = f /\ back' = TRUE

\* Variant with a bug: the file before the one that failed is left as it is.
FailedSkips ==
  IF back
  THEN unrestored' = unrestored \cup {at} /\ PutBack(at - 1)
  ELSE /\ UNCHANGED unrestored
       /\ IF command = "fmt" \/ at = 1 THEN pc' = "failed" /\ UNCHANGED <<at, back>> ELSE PutBack(at - 2)

\* A file failed: the earlier ones are put back, the last one first.
Failed ==
  IF back
  THEN unrestored' = unrestored \cup {at} /\ PutBack(at - 1)
  ELSE /\ UNCHANGED unrestored
       /\ IF command = "fmt" THEN pc' = "failed" /\ UNCHANGED <<at, back>> ELSE PutBack(at - 1)

\* The file has to be regular and as it was read.
Compare ==
  /\ pc = "compare"
  /\ \/ text[at] = Original /\ pc' = "stage" /\ UNCHANGED <<at, back, unrestored>>
     \/ Failed
  /\ UNCHANGED <<text, command, safe, edits>>

\* The new text is written to a temporary directory beside it.
Stage ==
  /\ pc = "stage"
  /\ \/ pc' = "again" /\ UNCHANGED <<at, back, unrestored>>
     \/ Failed
  /\ UNCHANGED <<text, command, safe, edits>>

\* Variant with a bug: the text is not compared again.
AgainBlind ==
  /\ pc = "again"
  /\ pc' = "rename" /\ UNCHANGED <<at, back, unrestored>>
  /\ UNCHANGED <<text, command, safe, edits>>

\* The same comparison once more, just before the file is replaced.
Again ==
  /\ pc = "again"
  /\ \/ text[at] = Original /\ pc' = "rename" /\ UNCHANGED <<at, back, unrestored>>
     \/ Failed
  /\ UNCHANGED <<text, command, safe, edits>>

Rename ==
  /\ pc = "rename"
  /\ \/ /\ text' = [text EXCEPT ![at] = Replacement]
        /\ UNCHANGED unrestored
        /\ \/ back /\ PutBack(at - 1)
           \/ ~back /\ at = Count /\ pc' = "ok" /\ UNCHANGED <<at, back>>
           \/ ~back /\ at < Count /\ pc' = "compare" /\ at' = at + 1 /\ UNCHANGED back
     \/ Failed /\ UNCHANGED text
  /\ UNCHANGED <<command, safe, edits>>

\* The user saves a file.
Edit(f) ==
  /\ edits < MaxEdits
  /\ edits' = edits + 1
  /\ text' = [text EXCEPT ![f] = "user"]
  /\ safe' = IF pc = "rename" /\ at = f THEN safe ELSE safe \cup {f}
  /\ UNCHANGED <<command, pc, at, back, unrestored>>

Done == pc \in {"ok", "failed"} /\ UNCHANGED vars

Next == Compare \/ Stage \/ Again \/ Rename \/ Done \/ \E f \in Files : Edit(f)

Spec == Init /\ [][Next]_vars
-----------------------------------------------------------------------------
TypeOK ==
  /\ text \in [Files -> {"original", "replacement", "user"}]
  /\ command \in {"fix", "fmt"} /\ back \in BOOLEAN /\ at \in Files
  /\ pc \in {"compare", "stage", "again", "rename", "ok", "failed"}
  /\ unrestored \subseteq Files /\ safe \subseteq Files /\ edits \in 0..MaxEdits

\* What the user saves while a command rewrites the sources is kept: both comparisons see it,
\* forward and while files are put back. Only the moment between the second one and the rename
\* is open.
SavesAreKept == \A f \in safe : text[f] = "user"

\* A fix that fails leaves no file rewritten but those that it reports as not restored.
FixIsUndone ==
  (command = "fix" /\ pc = "failed") => \A f \in Files : text[f] = "replacement" => f \in unrestored
=============================================================================
