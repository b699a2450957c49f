------------------------------- MODULE Watch -------------------------------
(***************************************************************************)
(* `tsuzuri watch`: src/watch.rs (the snapshot and the polls), the texts   *)
(* that src/resident.rs remembers, read_source_text of src/driver.rs, and  *)
(* the loop of watch_main in src/main.rs.                                  *)
(*                                                                         *)
(* One source file is watched, beside an entry file that nobody touches.   *)
(* An editor may write it in place, touch it, remove it and create it at   *)
(* any time; every access of the process to the file is a step of its own. *)
(* All texts have one length, so that a stamp is the time of the write,    *)
(* in ticks of Grain, and two writes in a tick cannot be told apart.       *)
(***************************************************************************)
EXTENDS Integers

CONSTANTS Texts,      \* what the editor writes
          Grain,      \* granularity of the file system's times
          Racy,       \* RACY
          ScanEvery,  \* DISCOVER_EVERY
          LastSave,   \* the time of the last edit
          MaxEdits,   \* bound on edits
          Removes,    \* whether the editor removes and creates the file too
          None, Failed

VARIABLES
  file,    \* the file: its text and its stamp, or None
  now,     \* the clock
  edits,   \* how often it was edited
  memory,  \* what the state remembers of it: the text, its stamp and the time of the read
  snap,    \* the observation of the watcher
  polls,   \* polls since the snapshot, modulo ScanEvery
  pc,      \* where the process is
  reg,     \* its local variables
  ran      \* the text that the last run read: None without a file, Failed when it vanished

vars == <<file, now, edits, memory, snap, polls, pc, reg, ran>>

Tick(t) == t - (t % Grain)
LastTime == LastSave + Racy
Stamp == IF file = None THEN None ELSE file.time
Text == IF file = None THEN None ELSE file.text

\* Variant with a bug: a stamp counts for every read that came after it.
IsRacyNever(stamp, read_at) == read_at < stamp

\* A write after read_at could leave the stamp as it is.
IsRacy(stamp, read_at) == read_at < stamp + Racy

\* When a file has to be read once more, if it has to be.
VerifyAfter(stamp, read_at) ==
  IF stamp # None /\ IsRacy(stamp, read_at) THEN stamp + Racy ELSE None

\* The remembered text is still that of a file with this stamp.
Holds(stamp) == memory # None /\ memory.stamp = stamp /\ ~IsRacy(memory.stamp, memory.read_at)

\* No observation yet; what a snapshot knows of the file is None when load did not find it.
NoSnap == [entry |-> None, found |-> FALSE, failed |-> FALSE]
NoReg == [for |-> None, started |-> None, stamp |-> None, found |-> FALSE, read_at |-> None,
          meta |-> None, scan |-> FALSE]

Init ==
  /\ file \in {None} \cup [text : Texts, time : {0}]
  /\ now = 0 /\ edits = 0 /\ memory = None /\ snap = NoSnap /\ polls = 0
  /\ pc = "observe" /\ reg = NoReg /\ ran = None
-----------------------------------------------------------------------------
(* The editor and the clock. *)

Edit ==
  /\ now <= LastSave /\ edits < MaxEdits
  /\ \/ file # None /\ \E t \in Texts : file' = [text |-> t, time |-> Tick(now)]
     \/ Removes /\ file # None /\ file' = None
     \/ Removes /\ file = None /\ \E t \in Texts : file' = [text |-> t, time |-> Tick(now)]
  /\ edits' = edits + 1
  /\ UNCHANGED <<now, memory, snap, polls, pc, reg, ran>>

Pass == now < LastTime /\ now' = now + 1 /\ UNCHANGED <<file, edits, memory, snap, polls, pc, reg, ran>>

outside == <<file, now, edits>>
-----------------------------------------------------------------------------
(* Project::load, for a snapshot and for a run: it ends in one of these. *)

\* observe keeps what it loaded with the stamp from before, or with a stamp of now and a
\* read to come when the scan had not found the file.
Observe(text) ==
  snap' = IF text = Failed THEN [entry |-> None, found |-> reg.found, failed |-> TRUE]
          ELSE [found |-> reg.found, failed |-> FALSE,
                entry |-> IF text = None THEN None
                          ELSE IF reg.found
                               THEN [text |-> text, stamp |-> reg.stamp,
                                     verify |-> VerifyAfter(reg.stamp, reg.started)]
                               ELSE [text |-> text, stamp |-> Stamp, verify |-> reg.started]]

Loaded(text) ==
  /\ reg' = NoReg
  /\ \/ reg.for = "observe" /\ Observe(text) /\ polls' = 0 /\ pc' = "start" /\ UNCHANGED ran
     \/ /\ reg.for = "again" /\ snap.failed /\ pc' = (IF text = Failed THEN "wait" ELSE "observe")
        /\ UNCHANGED <<snap, polls, ran>>
     \/ reg.for = "run" /\ ran' = text /\ pc' = "wait" /\ UNCHANGED <<snap, polls>>

\* collect_sources finds the file, or loads the project without it.
List ==
  /\ pc = "list"
  /\ \/ file = None /\ Loaded(None)
     \/ file # None /\ pc' = "clock" /\ UNCHANGED <<snap, polls, reg, ran>>
  /\ UNCHANGED <<outside, memory>>

Clock ==
  /\ pc = "clock"
  /\ reg' = [reg EXCEPT !.read_at = now] /\ pc' = "stat"
  /\ UNCHANGED <<outside, memory, snap, polls, ran>>

\* The metadata, and the text that is remembered for it.
Stat ==
  /\ pc = "stat"
  /\ \/ file = None /\ Loaded(Failed)
     \/ file # None /\ Holds(Stamp) /\ Loaded(memory.text)
     \/ /\ file # None /\ ~Holds(Stamp)
        /\ reg' = [reg EXCEPT !.meta = Stamp] /\ pc' = "read"
        /\ UNCHANGED <<snap, polls, ran>>
  /\ UNCHANGED <<outside, memory>>

\* Open and read; a text is remembered with the stamp and the time from before.
Read ==
  /\ pc = "read"
  /\ \/ file = None /\ Loaded(Failed) /\ UNCHANGED memory
     \/ /\ file # None /\ Loaded(file.text)
        /\ memory' = [text |-> file.text, stamp |-> reg.meta, read_at |-> reg.read_at]
  /\ UNCHANGED outside
-----------------------------------------------------------------------------
(* The watcher. *)

\* observe: the scan and the stamps, before the project is read.
Discover(for) ==
  /\ reg' = [NoReg EXCEPT !.for = for, !.started = now, !.found = file # None, !.stamp = Stamp]
  /\ pc' = "list"
  /\ UNCHANGED <<outside, memory, snap, polls, ran>>

Snapshot == pc = "observe" /\ Discover("observe")

Run ==
  /\ pc = "start"
  /\ reg' = [NoReg EXCEPT !.for = "run"] /\ pc' = "list"
  /\ UNCHANGED <<outside, memory, snap, polls, ran>>

\* A poll begins. Without a project, loading it is tried again at each scan; otherwise the stamp
\* is compared.
Poll ==
  /\ pc = "wait"
  /\ polls' = (polls + 1) % ScanEvery
  /\ LET scan == polls' = 0 IN
     IF snap.failed
     THEN /\ reg' = IF scan THEN [NoReg EXCEPT !.for = "again"] ELSE NoReg
          /\ pc' = IF scan THEN "list" ELSE "wait"
     ELSE /\ reg' = [NoReg EXCEPT !.started = now, !.scan = scan,
                       !.found = /\ snap.entry # None
                                 /\ \/ Stamp # snap.entry.stamp
                                    \/ snap.entry.verify # None /\ now >= snap.entry.verify]
          /\ pc' = "scan"
  /\ UNCHANGED <<outside, memory, snap, ran>>

\* Variant with a bug: only removed files are looked for.
ScanRemoved ==
  /\ pc = "scan"
  /\ pc' = IF reg.scan /\ file = None /\ snap.found THEN "observe"
           ELSE IF reg.found THEN "reread" ELSE "wait"
  /\ reg' = IF pc' = "reread" THEN reg ELSE NoReg
  /\ UNCHANGED <<outside, memory, snap, polls, ran>>

\* The directories are scanned for added and removed files, every so many polls.
Scan ==
  /\ pc = "scan"
  /\ pc' = IF reg.scan /\ (file # None) # snap.found THEN "observe"
           ELSE IF reg.found THEN "reread" ELSE "wait"
  /\ reg' = IF pc' = "reread" THEN reg ELSE NoReg
  /\ UNCHANGED <<outside, memory, snap, polls, ran>>

\* A file whose stamp changed counts only when its content differs.
Reread ==
  /\ pc = "reread"
  /\ pc' = IF Text = snap.entry.text THEN "absorb" ELSE "observe"
  /\ reg' = IF pc' = "absorb" THEN reg ELSE NoReg
  /\ UNCHANGED <<outside, memory, snap, polls, ran>>

\* Variant with a bug: the new stamp is taken as proven.
AbsorbBlindly ==
  /\ pc = "absorb"
  /\ snap' = [snap EXCEPT !.entry.stamp = Stamp, !.entry.verify = None]
  /\ reg' = NoReg /\ pc' = "wait"
  /\ UNCHANGED <<outside, memory, polls, ran>>

\* The stamp of the file that was read again; it may be that of a later write.
Absorb ==
  /\ pc = "absorb"
  /\ snap' = [snap EXCEPT !.entry.stamp = Stamp, !.entry.verify = VerifyAfter(Stamp, reg.started)]
  /\ reg' = NoReg /\ pc' = "wait"
  /\ UNCHANGED <<outside, memory, polls, ran>>

Process ==
  \/ List \/ Clock \/ Stat \/ Read
  \/ Snapshot \/ Run \/ Poll \/ Scan \/ Reread \/ Absorb

Next == Process \/ Edit \/ Pass

Spec == Init /\ [][Next]_vars
\* The process runs and time passes; nobody has to edit.
FairSpec == Spec /\ WF_vars(Process) /\ WF_vars(Pass)
-----------------------------------------------------------------------------
Times == 0..LastTime

TypeOK ==
  /\ file \in [text : Texts, time : Times] \cup {None}
  /\ now \in Times /\ edits \in 0..MaxEdits
  /\ memory \in [text : Texts, stamp : Times, read_at : Times] \cup {None}
  /\ snap.entry \in [text : Texts, stamp : Times \cup {None}, verify : (0..(LastTime + Racy)) \cup {None}] \cup {None}
  /\ snap.found \in BOOLEAN /\ snap.failed \in BOOLEAN
  /\ polls \in 0..(ScanEvery - 1)
  /\ ran \in Texts \cup {None, Failed}

\* A text that is given back without opening the file is the text of the file: no write hides
\* behind a stamp that stays the same.
RememberedIsCurrent == (file # None /\ Holds(Stamp)) => memory.text = file.text

TextDiffers == snap.entry # None /\ file # None /\ Text # snap.entry.text
ScanDiffers == ~snap.failed /\ (file # None) # snap.found
Unnoticed(differs) == differs /\ pc # "observe"

\* A text that differs from the snapshot's is noticed: the wait ends and another snapshot is
\* taken, however the writes fall within a tick and between the steps of a poll.
ChangeIsNoticed == []<>~Unnoticed(TextDiffers)

\* A file that was added or removed since the scan before the snapshot is noticed.
AddedIsNoticed == []<>~Unnoticed(ScanDiffers)

\* "a save during the run starts another run": when the saves are over, the last run has read
\* what is in the file.
SaveStartsRun == <>[](ran = Text)
=============================================================================
