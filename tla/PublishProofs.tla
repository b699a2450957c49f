---------------------------- MODULE PublishProofs ----------------------------
(***************************************************************************)
(* Proofs about Publish, for any number of sidecars, any of them there or  *)
(* not when the command begins, a failure at any call and a crash at any   *)
(* step.                                                                   *)
(***************************************************************************)
EXTENDS Publish, TLAPS

(* What was in the place when the command began.                             *)
Was(p) == IF p \in had THEN "old" ELSE "none"

(* A build at work: the sidecars 1..published are new and what they replaced *)
(* is backed up, and all else is as it was.                                  *)
Building ==
  pc \in {"sidecar", "rename", "undo"} =>
    /\ command = "build" /\ temporary
    /\ place[0] = Was(0)
    /\ \A p \in Places : p > published => place[p] = Was(p)
    /\ \A p \in 1..published : place[p] = "new" /\ backup[p] = Was(p)
    /\ pc = "rename" => published < Sidecars /\ backup[published + 1] = Was(published + 1)

(* `doc` at work: its directory is in its place, or then in the temporary    *)
(* directory.                                                                *)
Documenting ==
  /\ pc = "doc" => command = "doc" /\ temporary /\ \A p \in Places : place[p] = Was(p)
  /\ pc = "swap" =>
       /\ command = "doc" /\ temporary /\ place[0] = "none" /\ backup[0] = Was(0)
       /\ \A p \in Places \ {0} : place[p] = Was(p)

IInv ==
  /\ TypeOK /\ Building /\ Documenting
  /\ NothingIsLost /\ FailureIsClean /\ ArtifactIsLast

LEMMA Start == PublishAssumption /\ Init => IInv
<1> SUFFICES ASSUME PublishAssumption, Init PROVE IInv
  OBVIOUS
<1>1. 0 \in Places /\ \A p \in Places : place[p] = Was(p) /\ place[p] # "new"
  BY DEF Init, Was, Places, PublishAssumption
<1>2. TypeOK
  BY DEF Init, TypeOK, Places, PublishAssumption
<1>3. Building /\ Documenting
  BY <1>1 DEF Init, Building, Documenting, PublishAssumption
<1>4. NothingIsLost /\ FailureIsClean /\ ArtifactIsLast
  BY <1>1 DEF Init, NothingIsLost, FailureIsClean, ArtifactIsLast, Was
<1> QED
  BY <1>2, <1>3, <1>4 DEF IInv

(* While a build is at work nothing is lost, and the artifact is old.        *)
LEMMA BuildingIsSafe ==
  PublishAssumption /\ TypeOK /\ Building /\ pc \in {"sidecar", "rename", "undo"}
  => NothingIsLost /\ FailureIsClean /\ ArtifactIsLast
<1> SUFFICES ASSUME TypeOK, Building, PublishAssumption, pc \in {"sidecar", "rename", "undo"}
             PROVE  NothingIsLost /\ FailureIsClean /\ ArtifactIsLast
  OBVIOUS
<1>1. published \in Nat /\ 0 \in Places /\ \A p \in Places : p \in Nat
  BY DEF TypeOK, Places, PublishAssumption
<1>2. ASSUME NEW p \in had PROVE place[p] = "old" \/ (temporary /\ backup[p] = "old")
  <2>1. p \in Places /\ Was(p) = "old"
    BY DEF TypeOK, Was
  <2>2. p = 0 \/ p > published \/ p \in 1..published
    BY <1>1, <2>1
  <2> QED
    BY <2>1, <2>2 DEF Building
<1>3. place[0] # "new"
  BY DEF Building, Was
<1> QED
  BY <1>2, <1>3 DEF NothingIsLost, FailureIsClean, ArtifactIsLast

LEMMA BuildingIsSafeThen ==
  (PublishAssumption /\ TypeOK /\ Building /\ pc \in {"sidecar", "rename", "undo"})'
  => (NothingIsLost /\ FailureIsClean /\ ArtifactIsLast)'
  BY BuildingIsSafe, PTL

LEMMA BuildStep ==
  ASSUME IInv, PublishAssumption, Backup \/ RenameSidecar
  PROVE  IInv'
<1> USE DEF IInv
<1>1. published \in 0..Sidecars /\ Sidecars \in Nat /\ \A p \in Places : p \in Nat
  BY DEF TypeOK, Places, PublishAssumption
<1>2. published < Sidecars /\ published + 1 \in Places /\ 0 \in Places
  BY <1>1 DEF Backup, RenameSidecar, Building, Places
<1>3. TypeOK' /\ pc' \in {"sidecar", "rename", "undo"}
  BY <1>1, <1>2 DEF TypeOK, Backup, RenameSidecar
<1>4. Was(published + 1) = place[published + 1] /\ place[published + 1] # "new"
  BY <1>1, <1>2 DEF Building, Backup, RenameSidecar, Was
<1>5. Building'
  <2>1. CASE Backup
    <3>1. /\ UNCHANGED <<command, had, place, published, temporary>>
          /\ \A p \in Places : p # published + 1 => backup'[p] = backup[p]
          /\ pc' = "rename" => backup'[published + 1] = Was(published + 1)
          /\ pc' \in {"rename", "undo"} /\ pc = "sidecar"
      BY <2>1, <1>2, <1>4 DEF Backup, TypeOK, Was
    <3>2. \A p : Was(p)' = Was(p)
      BY <3>1 DEF Was
    <3>3. \A p \in 1..published : p \in Places /\ p # published + 1
      BY <1>1, <1>2 DEF Places
    <3> QED
      BY <3>1, <3>2, <3>3, <1>2 DEF Building, Was
  <2>2. CASE RenameSidecar
    <3>1. CASE pc' = "undo"
      BY <2>2, <3>1, <1>1 DEF RenameSidecar, Building, Was
    <3>2. CASE pc' # "undo"
      <4>1. /\ pc' = "sidecar" /\ published' = published + 1
            /\ UNCHANGED <<command, had, backup, temporary>>
            /\ \A p \in Places : place'[p] = IF p = published + 1 THEN "new" ELSE place[p]
        BY <2>2, <3>2, <1>2 DEF RenameSidecar, TypeOK
      <4>2. \A p : Was(p)' = Was(p)
        BY <4>1 DEF Was
      <4>3. \A p \in Places : p > published' => place'[p] = Was(p)
        BY <2>2, <4>1, <1>1 DEF Building, RenameSidecar
      <4>4. \A p \in 1..published' : p \in Places /\ (p = published + 1 \/ p \in 1..published)
        BY <4>1, <1>1, <1>2 DEF Places
      <4>5. \A p \in 1..published' : place'[p] = "new" /\ backup'[p] = Was(p)
        BY <2>2, <4>1, <4>4, <1>1 DEF Building, RenameSidecar
      <4> QED
        BY <2>2, <4>1, <4>2, <4>3, <4>5, <1>1, <1>2 DEF Building, RenameSidecar
    <3> QED
      BY <3>1, <3>2
  <2> QED
    BY <2>1, <2>2
<1>6. Documenting'
  BY <1>3 DEF Documenting
<1> QED
  BY <1>3, <1>5, <1>6, BuildingIsSafeThen DEF PublishAssumption

LEMMA UndoStep ==
  ASSUME IInv, PublishAssumption, Undo
  PROVE  IInv'
<1> USE DEF IInv
<1>1. /\ published \in 0..Sidecars /\ Sidecars \in Nat /\ published > 0 /\ published \in Places
      /\ 0 \in Places /\ \A p \in Places : p \in Nat
  BY DEF TypeOK, Places, PublishAssumption, Undo
<1>2. CASE pc' = "undo"
  <2>1. /\ published' = published - 1
        /\ UNCHANGED <<command, had, pc, temporary>> /\ pc = "undo"
        /\ \A p \in Places : place'[p] = IF p = published THEN Was(p) ELSE place[p]
        /\ \A p \in Places : p # published => backup'[p] = backup[p]
    <3>1. backup[published] = Was(published)
      BY <1>1 DEF Building, Undo
    <3> QED
      BY <1>1, <1>2, <3>1 DEF Undo, Ends, TypeOK, Was
  <2>2. TypeOK'
    BY <1>1, <1>2 DEF TypeOK, Undo, Ends
  <2>3. \A p : Was(p)' = Was(p)
    BY <2>1 DEF Was
  <2>4. \A p \in 1..published' : p \in Places /\ p # published /\ p \in 1..published
    BY <1>1, <2>1 DEF Places
  <2>5. \A p \in Places : p > published' => p = published \/ p > published
    BY <1>1, <2>1
  <2>6. Building'
    BY <1>1, <2>1, <2>3, <2>4, <2>5 DEF Building
  <2>7. Documenting'
    BY <1>2 DEF Documenting
  <2> QED
    BY <1>2, <2>2, <2>6, <2>7, BuildingIsSafeThen DEF PublishAssumption
<1>3. CASE pc' # "undo"
  <2>1. /\ pc' = "recovery" /\ temporary' = TRUE
        /\ UNCHANGED <<backup, place, published, command, had>> /\ pc = "undo"
    BY <1>3 DEF Undo, Ends
  <2>2. TypeOK' /\ Building' /\ Documenting' /\ FailureIsClean'
    BY <2>1 DEF TypeOK, Building, Documenting, FailureIsClean
  <2>3. NothingIsLost' /\ ArtifactIsLast'
    BY <2>1 DEF NothingIsLost, ArtifactIsLast, Building
  <2> QED
    BY <2>2, <2>3
<1> QED
  BY <1>2, <1>3

(* The end of a build: the artifact is put in place, or the last of the      *)
(* sidecars was restored.                                                    *)
LEMMA EndStep ==
  ASSUME IInv, PublishAssumption, RenameOutput \/ Undone
  PROVE  IInv'
<1> USE DEF IInv
<1>1. published \in 0..Sidecars /\ Sidecars \in Nat /\ 0 \in Places /\ Places = {0} \cup 1..Sidecars
  BY DEF TypeOK, Places, PublishAssumption
<1>2. CASE RenameOutput /\ pc' = "undo"
  <2>1. pc = "sidecar" /\ UNCHANGED <<command, had, place, backup, published, temporary>>
    BY <1>2 DEF RenameOutput, Ends
  <2>2. TypeOK' /\ Documenting'
    BY <1>2, <2>1 DEF TypeOK, Documenting
  <2>3. Building'
    <3>1. \A p : Was(p)' = Was(p)
      BY <2>1 DEF Was
    <3> QED
      BY <1>2, <2>1, <3>1 DEF Building
  <2> QED
    BY <1>2, <2>2, <2>3, BuildingIsSafeThen DEF PublishAssumption
<1>3. CASE RenameOutput /\ pc' # "undo"
  <2>1. /\ pc' = "ok" /\ UNCHANGED <<command, had, published>>
        /\ place' = [place EXCEPT ![0] = "new"]
        /\ backup' = [p \in Places |-> "none"] /\ temporary' = FALSE
        /\ pc = "sidecar" /\ published = Sidecars
    BY <1>3 DEF RenameOutput, Ends
  <2>2. \A p \in Places : place'[p] = "new"
    BY <1>1, <2>1 DEF Building, TypeOK
  <2>3. TypeOK' /\ Building' /\ Documenting'
    BY <1>1, <2>1 DEF TypeOK, Building, Documenting
  <2> QED
    BY <2>1, <2>2, <2>3 DEF NothingIsLost, FailureIsClean, ArtifactIsLast
<1>4. CASE Undone
  <2>1. /\ pc' = "failed" /\ UNCHANGED <<command, had, place, published>>
        /\ backup' = [p \in Places |-> "none"] /\ temporary' = FALSE
        /\ pc = "undo" /\ published = 0
    BY <1>4 DEF Undone, Ends
  <2>2. \A p \in Places : place'[p] = Was(p)
    BY <1>1, <2>1 DEF Building
  <2>3. TypeOK' /\ Building' /\ Documenting'
    BY <1>1, <2>1 DEF TypeOK, Building, Documenting
  <2>4. NothingIsLost' /\ FailureIsClean'
    BY <2>1, <2>2 DEF NothingIsLost, FailureIsClean, Was, TypeOK
  <2>5. ArtifactIsLast'
    BY <1>1, <2>1, <2>2 DEF ArtifactIsLast, Was
  <2> QED
    BY <2>3, <2>4, <2>5
<1> QED
  BY <1>2, <1>3, <1>4

LEMMA DocStep ==
  ASSUME IInv, PublishAssumption, BackupDoc \/ SwapDoc
  PROVE  IInv'
<1> USE DEF IInv
<1>1. 0 \in Places /\ command = "doc" /\ UNCHANGED <<command, had, published>>
  <2>1. 0 \in Places
    BY DEF Places, PublishAssumption
  <2>2. pc \in {"doc", "swap"} /\ UNCHANGED <<command, had, published>>
    BY DEF BackupDoc, SwapDoc
  <2> QED
    BY <2>1, <2>2 DEF Documenting
<1>2. \A p : Was(p)' = Was(p)
  BY <1>1 DEF Was
<1>3. TypeOK'
  BY <1>1 DEF TypeOK, BackupDoc, SwapDoc, Ends, Documenting, Was
<1>4. pc' \in {"failed", "swap", "ok", "recovery"}
  BY DEF BackupDoc, SwapDoc, Ends
<1>5. Building' /\ ArtifactIsLast'
  BY <1>1, <1>4 DEF Building, ArtifactIsLast
<1>6. Documenting'
  BY <1>1, <1>2 DEF Documenting, BackupDoc, SwapDoc, Ends, TypeOK
<1>7. FailureIsClean'
  BY <1>1 DEF FailureIsClean, Documenting, BackupDoc, SwapDoc, Ends, TypeOK, Was
<1>8. NothingIsLost'
  BY <1>1 DEF NothingIsLost, Documenting, BackupDoc, SwapDoc, Ends, TypeOK, Was
<1> QED
  BY <1>3, <1>5, <1>6, <1>7, <1>8

LEMMA CrashStep ==
  ASSUME IInv, Crash \/ Done \/ UNCHANGED vars
  PROVE  IInv'
<1> USE DEF IInv, Crash, Done, vars
<1>1. TypeOK' /\ Building' /\ Documenting'
  BY DEF TypeOK, Building, Documenting, Was
<1>2. NothingIsLost' /\ FailureIsClean' /\ ArtifactIsLast'
  BY DEF NothingIsLost, FailureIsClean, ArtifactIsLast
<1> QED
  BY <1>1, <1>2

LEMMA Invariance == ASSUME PublishAssumption PROVE Spec => []IInv
<1>1. Init => IInv
  BY Start
<1>2. IInv /\ [Next]_vars => IInv'
  BY BuildStep, UndoStep, EndStep, DocStep, CrashStep DEF Next
<1> QED
  BY <1>1, <1>2, PTL DEF Spec

(* What a build or `doc` replaces is in its place or backed up until the     *)
(* command has succeeded, whatever fails and whenever the process dies       *)
(* (publish_outputs, document).                                              *)
THEOREM NothingLost == ASSUME PublishAssumption PROVE Spec => []NothingIsLost
<1>1. IInv => NothingIsLost
  BY DEF IInv
<1> QED
  BY <1>1, Invariance, PTL

(* A command that reports a plain failure has left every output as it was.   *)
THEOREM FailureClean == ASSUME PublishAssumption PROVE Spec => []FailureIsClean
<1>1. IInv => FailureIsClean
  BY DEF IInv
<1> QED
  BY <1>1, Invariance, PTL

(* A new artifact is in place only when all of its sidecars are.             *)
THEOREM ArtifactLast == ASSUME PublishAssumption PROVE Spec => []ArtifactIsLast
<1>1. IInv => ArtifactIsLast
  BY DEF IInv
<1> QED
  BY <1>1, Invariance, PTL
==============================================================================
