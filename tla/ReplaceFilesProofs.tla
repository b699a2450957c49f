------------------------- MODULE ReplaceFilesProofs -------------------------
(***************************************************************************)
(* Proofs about ReplaceFiles, for any number of files and of saves by the  *)
(* user, and a failure at any call.                                        *)
(***************************************************************************)
EXTENDS ReplaceFiles, TLAPS

Working == pc \in {"compare", "stage", "again", "rename"}

(* A file that is about to be replaced is not one that the user saved.       *)
Window == pc = "rename" => at \notin safe

(* The files from `at` on are not rewritten yet; while files are put back,   *)
(* those behind `at` are, or are reported.                                   *)
Progress ==
  /\ back => command = "fix"
  /\ Working /\ ~back => \A f \in Files : f >= at => text[f] # "replacement"
  /\ Working /\ back => \A f \in Files : f > at /\ text[f] = "replacement" => f \in unrestored

IInv == TypeOK /\ Window /\ SavesAreKept /\ Progress /\ FixIsUndone

LEMMA Start == ReplaceAssumption /\ Init => IInv
<1> SUFFICES ASSUME ReplaceAssumption, Init PROVE IInv
  OBVIOUS
<1>1. TypeOK
  <2>1. 1 \in Files /\ 0 \in 0..MaxEdits
    BY DEF Files, ReplaceAssumption
  <2> QED
    BY <2>1 DEF Init, TypeOK
<1>2. Window /\ SavesAreKept /\ Progress /\ FixIsUndone
  BY DEF Init, Window, SavesAreKept, Progress, FixIsUndone, Working
<1> QED
  BY <1>1, <1>2 DEF IInv

(* Where the command goes on when the files before f are put back.           *)
LEMMA PutBackGoes ==
  ASSUME ReplaceAssumption, NEW f \in Nat, f + 1 \in Files, PutBack(f), TypeOK
  PROVE  /\ at' \in Files /\ back' \in BOOLEAN
         /\ pc' = "failed" \/ (pc' = "compare" /\ back' = TRUE)
         /\ pc' = "failed" => f = 0
         /\ pc' = "compare" => at' = f
<1>1. f # 0 => f \in Files
  BY DEF Files, ReplaceAssumption
<1>2. CASE f = 0
  BY <1>2 DEF PutBack, TypeOK
<1>3. CASE f # 0
  BY <1>1, <1>3 DEF PutBack, TypeOK
<1> QED
  BY <1>2, <1>3

(* A file failed, or it was put back: the files from it on are done.         *)
LEMMA GoesBack ==
  ASSUME ReplaceAssumption, TypeOK, PutBack(at - 1), command = "fix", command' = "fix",
         text' \in [Files -> {"original", "replacement", "user"}], unrestored' \subseteq Files,
         \A f \in Files : f >= at /\ text'[f] = "replacement" => f \in unrestored'
  PROVE  /\ at' \in Files /\ back' \in BOOLEAN /\ pc' \in {"compare", "failed"}
         /\ Progress' /\ FixIsUndone'
<1>1. at \in Nat /\ at >= 1 /\ at - 1 \in Nat /\ (at - 1) + 1 \in Files /\ \A f \in Files : f \in Nat /\ f >= 1
  BY DEF TypeOK, Files, ReplaceAssumption
<1>2. /\ at' \in Files /\ back' \in BOOLEAN
      /\ pc' = "failed" \/ (pc' = "compare" /\ back' = TRUE)
      /\ pc' = "failed" => at - 1 = 0
      /\ pc' = "compare" => at' = at - 1
  BY <1>1, PutBackGoes
<1>3. CASE pc' = "failed"
  <2>1. \A f \in Files : f >= at
    BY <1>1, <1>2, <1>3
  <2> QED
    BY <1>2, <1>3, <2>1 DEF Progress, FixIsUndone, Working
<1>4. CASE pc' = "compare"
  <2>1. \A f \in Files : f > at' => f >= at
    BY <1>1, <1>2, <1>4
  <2> QED
    BY <1>2, <1>4, <2>1 DEF Progress, FixIsUndone, Working
<1> QED
  BY <1>2, <1>3, <1>4

LEMMA FailedStep ==
  ASSUME ReplaceAssumption, IInv, Working, Failed, UNCHANGED <<text, command, safe, edits>>
  PROVE  IInv'
<1> USE DEF IInv
<1>1. at \in Files /\ at \in Nat
  BY DEF TypeOK, Files, ReplaceAssumption
<1>2. CASE back
  <2>1. unrestored' = unrestored \cup {at} /\ PutBack(at - 1) /\ command = "fix"
    BY <1>2 DEF Failed, Progress
  <2>2. \A f \in Files : f >= at => f = at \/ f > at
    BY <1>1 DEF Files
  <2>3. \A f \in Files : f >= at /\ text'[f] = "replacement" => f \in unrestored'
    BY <1>2, <2>1, <2>2 DEF Progress
  <2>4. unrestored' \subseteq Files
    BY <1>1, <2>1 DEF TypeOK
  <2>5. /\ at' \in Files /\ back' \in BOOLEAN /\ pc' \in {"compare", "failed"}
        /\ Progress' /\ FixIsUndone'
    BY <2>1, <2>3, <2>4, GoesBack DEF TypeOK
  <2> QED
    BY <2>4, <2>5 DEF TypeOK, Window, SavesAreKept
<1>3. CASE ~back /\ command = "fmt"
  <2>1. pc' = "failed" /\ UNCHANGED <<at, back, unrestored>>
    BY <1>3 DEF Failed
  <2> QED
    BY <1>3, <2>1 DEF TypeOK, Window, SavesAreKept, Progress, FixIsUndone, Working
<1>4. CASE ~back /\ command = "fix"
  <2>1. UNCHANGED unrestored /\ PutBack(at - 1)
    BY <1>4 DEF Failed
  <2>2. \A f \in Files : f >= at /\ text'[f] = "replacement" => f \in unrestored'
    BY <1>4 DEF Progress
  <2>3. /\ at' \in Files /\ back' \in BOOLEAN /\ pc' \in {"compare", "failed"}
        /\ Progress' /\ FixIsUndone'
    BY <1>4, <2>1, <2>2, GoesBack DEF TypeOK
  <2> QED
    BY <2>1, <2>3 DEF TypeOK, Window, SavesAreKept
<1> QED
  BY <1>2, <1>3, <1>4 DEF TypeOK

(* Compare, Stage and Again, when the file is as it has to be.               *)
LEMMA GoesOn ==
  ASSUME IInv, Working, pc' \in {"stage", "again", "rename"}, pc' = "rename" => text[at] = Original,
         UNCHANGED <<text, command, safe, edits, at, back, unrestored>>
  PROVE  IInv'
<1> USE DEF IInv
<1>1. pc' = "rename" => at \notin safe
  BY DEF Original, SavesAreKept
<1> QED
  BY <1>1 DEF TypeOK, Window, SavesAreKept, Progress, FixIsUndone, Working

LEMMA RenameStep ==
  ASSUME ReplaceAssumption, IInv, Rename
  PROVE  IInv'
<1> USE DEF IInv
<1>1. at \in Files /\ at \in Nat /\ Working /\ at \notin safe /\ \A f \in Files : f \in Nat
  BY DEF TypeOK, Files, ReplaceAssumption, Rename, Working, Window
<1>2. CASE Failed /\ UNCHANGED text
  BY <1>1, <1>2, FailedStep DEF Rename
<1>3. CASE text' = [text EXCEPT ![at] = Replacement] /\ UNCHANGED unrestored
  <2>1. text' \in [Files -> {"original", "replacement", "user"}]
    BY <1>3 DEF TypeOK, Replacement
  <2>2. \A f \in Files : text'[f] = IF f = at THEN Replacement ELSE text[f]
    BY <1>1, <1>3 DEF TypeOK
  <2>3. SavesAreKept' /\ UNCHANGED <<command, safe, edits>>
    BY <1>1, <2>2 DEF SavesAreKept, TypeOK, Rename
  <2>4. CASE back /\ PutBack(at - 1)
    <3>1. command = "fix" /\ command' = "fix" /\ Replacement = "original"
      BY <2>3, <2>4 DEF Progress, Replacement
    <3>2. \A f \in Files : f >= at /\ text'[f] = "replacement" => f \in unrestored'
      BY <1>1, <1>3, <2>2, <2>4, <3>1 DEF Progress
    <3>3. /\ at' \in Files /\ back' \in BOOLEAN /\ pc' \in {"compare", "failed"}
          /\ Progress' /\ FixIsUndone'
      BY <1>3, <2>1, <2>4, <3>1, <3>2, GoesBack DEF TypeOK
    <3> QED
      BY <1>3, <2>1, <2>3, <3>3 DEF TypeOK, Window
  <2>5. CASE ~back /\ at = Count /\ pc' = "ok" /\ UNCHANGED <<at, back>>
    BY <1>3, <2>1, <2>3, <2>5 DEF TypeOK, Window, Progress, FixIsUndone, Working
  <2>6. CASE ~back /\ at < Count /\ pc' = "compare" /\ at' = at + 1 /\ UNCHANGED back
    <3>1. at' \in Files
      BY <1>1, <2>6 DEF Files, ReplaceAssumption
    <3>2. \A f \in Files : f >= at' => f # at /\ f >= at
      BY <1>1, <2>6
    <3>3. Progress'
      BY <1>1, <2>2, <2>3, <2>6, <3>2 DEF Progress, Working
    <3> QED
      BY <1>3, <2>1, <2>3, <2>6, <3>1, <3>3 DEF TypeOK, Window, FixIsUndone
  <2> QED
    BY <1>2, <1>3, <2>4, <2>5, <2>6 DEF Rename
<1> QED
  BY <1>2, <1>3 DEF Rename

LEMMA EditStep ==
  ASSUME ReplaceAssumption, IInv, NEW f \in Files, Edit(f)
  PROVE  IInv'
<1> USE DEF IInv
<1>1. /\ text' \in [Files -> {"original", "replacement", "user"}]
      /\ \A g \in Files : text'[g] = IF g = f THEN "user" ELSE text[g]
      /\ UNCHANGED <<command, pc, at, back, unrestored>>
      /\ safe' = IF pc = "rename" /\ at = f THEN safe ELSE safe \cup {f}
  BY DEF Edit, TypeOK
<1>2. TypeOK'
  BY <1>1 DEF TypeOK, Edit, ReplaceAssumption
<1>3. Window' /\ SavesAreKept'
  BY <1>1 DEF Window, SavesAreKept, TypeOK
<1>4. Progress' /\ FixIsUndone'
  BY <1>1 DEF Progress, FixIsUndone, Working
<1> QED
  BY <1>2, <1>3, <1>4

LEMMA Inductive == ReplaceAssumption /\ IInv /\ [Next]_vars => IInv'
<1> SUFFICES ASSUME ReplaceAssumption, IInv, [Next]_vars PROVE IInv'
  OBVIOUS
<1>1. CASE Compare
  BY <1>1, FailedStep, GoesOn DEF Compare, Working
<1>2. CASE Stage
  BY <1>2, FailedStep, GoesOn DEF Stage, Working
<1>3. CASE Again
  BY <1>3, FailedStep, GoesOn DEF Again, Working
<1>4. CASE Done \/ UNCHANGED vars
  BY <1>4 DEF Done, vars, IInv, TypeOK, Window, SavesAreKept, Progress, FixIsUndone, Working
<1> QED
  BY <1>1, <1>2, <1>3, <1>4, RenameStep, EditStep DEF Next

LEMMA Invariance == ASSUME ReplaceAssumption PROVE Spec => []IInv
<1>1. Init => IInv
  BY Start
<1>2. IInv /\ [Next]_vars => IInv'
  BY Inductive
<1> QED
  BY <1>1, <1>2, PTL DEF Spec

(* A save of the user is never overwritten, but for one between the second   *)
(* comparison of replace_file and its rename.                                *)
THEOREM SavesKept == ASSUME ReplaceAssumption PROVE Spec => []SavesAreKept
<1>1. IInv => SavesAreKept
  BY DEF IInv
<1> QED
  BY <1>1, Invariance, PTL

(* A `fix` or `migrate` that fails leaves no file rewritten but those that   *)
(* it reports (replace_files, apply).                                        *)
THEOREM FixUndone == ASSUME ReplaceAssumption PROVE Spec => []FixIsUndone
<1>1. IInv => FixIsUndone
  BY DEF IInv
<1> QED
  BY <1>1, Invariance, PTL
=============================================================================
