------------------------------ MODULE McpCache ------------------------------
(***************************************************************************)
(* What the Model Context Protocol server remembers between calls: the     *)
(* outputs of the last calls (cached, src/mcp/cache.rs) and the graph of   *)
(* the last call (opened, src/mcp/knowledge.rs). One worker makes the      *)
(* calls, but the sources are saved, and the graph on disk replaced, at    *)
(* any time between the loads of one call.                                 *)
(*                                                                         *)
(* A version stands for the sources, the hash of them, and what a tool     *)
(* answers for them. A graph is named by the version it was built from.    *)
(* Bad sources do not load. A query reads the graph; a check reads the     *)
(* sources only, and answers sources that do not load with their error.    *)
(***************************************************************************)
EXTENDS Integers, Sequences

CONSTANTS Versions,    \* of the sources that load
          Bad,         \* sources that do not load
          Entries,     \* ENTRIES
          MaxChanges,  \* bound on the saves and replacements
          None

Sources == Versions \cup {Bad}

VARIABLES
  source,   \* the sources now
  disk,     \* the graph on disk, or None
  changes,
  results,  \* the entries of ResultCache, last used first
  graph,    \* the hash and the graph of the last query
  call      \* the call that runs: its tool, its place, and what it has read

vars == <<source, disk, changes, results, graph, call>>

NoCall == [at |-> "idle", tool |-> None, inputs |-> None, read |-> None, output |-> None, seen |-> {}]

Init ==
  /\ source \in Sources /\ disk \in Versions \cup {None} /\ changes = 0
  /\ results = <<>> /\ graph = [hash |-> None, of |-> None] /\ call = NoCall

\* A save, by whom it may be. Each call remembers the sources that there were while it ran.
Save ==
  /\ changes < MaxChanges /\ changes' = changes + 1
  /\ \E s \in Sources \ {source} :
       /\ source' = s
       /\ call' = IF call.at = "idle" THEN call ELSE [call EXCEPT !.seen = @ \cup {s}]
  /\ UNCHANGED <<disk, results, graph>>

\* Another process writes a graph, or takes it away.
Replace ==
  /\ changes < MaxChanges /\ changes' = changes + 1
  /\ disk' \in (Versions \cup {None}) \ {disk}
  /\ UNCHANGED <<source, results, graph, call>>
-----------------------------------------------------------------------------
(* cached *)

Key(tool, inputs) == <<tool, inputs>>
Keyed(key) == {i \in DOMAIN results : results[i].key = key}

\* get and put move the entry to the front; put keeps ENTRIES of them.
ToFront(entry) == <<entry>> \o SelectSeq(results, LAMBDA e : e.key # entry.key)
Kept(entries) == SubSeq(entries, 1, IF Len(entries) < Entries THEN Len(entries) ELSE Entries)

\* The inputs of a call, and the answer that is kept for them; sources that do not load are not
\* looked up.
Lookup(tool) ==
  /\ call.at = "idle"
  /\ LET hits == IF source = Bad THEN {} ELSE Keyed(Key(tool, source))
     IN  IF hits = {}
         THEN /\ call' = [NoCall EXCEPT !.at = "load", !.tool = tool, !.seen = {source},
                                        !.inputs = IF source = Bad THEN None ELSE source]
              /\ UNCHANGED results
         ELSE \E i \in hits :
                /\ call' = [NoCall EXCEPT !.at = "answer", !.tool = tool, !.seen = {source},
                                          !.output = results[i].output]
                /\ results' = ToFront(results[i])
  /\ UNCHANGED <<source, disk, changes, graph>>

\* The tool's own load, which it notes. A check answers sources that do not load; a query fails.
Load ==
  /\ call.at = "load"
  /\ call' = IF source = Bad
             THEN [call EXCEPT !.at = IF call.tool = "check" THEN "keep" ELSE "answer",
                               !.output = IF call.tool = "check" THEN Bad ELSE None]
             ELSE IF call.tool = "check" THEN [call EXCEPT !.at = "keep", !.read = source, !.output = source]
             ELSE [call EXCEPT !.at = "graph", !.read = source]
  /\ UNCHANGED <<source, disk, changes, results, graph>>

\* Variant with a bug: the answer is kept under the inputs that were looked up.
KeepUnderInputs ==
  /\ call.at = "keep"
  /\ results' = IF call.inputs = None THEN results
                ELSE Kept(ToFront([key |-> Key(call.tool, call.inputs), output |-> call.output]))
  /\ call' = [call EXCEPT !.at = "answer"]
  /\ UNCHANGED <<source, disk, changes, graph>>

\* The answer is kept under the inputs that the tool read, if it said what it read and the
\* sources loaded for the lookup.
Keep ==
  /\ call.at = "keep"
  /\ results' = IF call.inputs = None \/ call.read = None THEN results
                ELSE Kept(ToFront([key |-> Key(call.tool, call.read), output |-> call.output]))
  /\ call' = [call EXCEPT !.at = "answer"]
  /\ UNCHANGED <<source, disk, changes, graph>>

Answer ==
  /\ call.at = "answer"
  /\ call' = NoCall
  /\ UNCHANGED <<source, disk, changes, results, graph>>
-----------------------------------------------------------------------------
(* opened *)

\* Variant with a bug: the graph of the last query is used whatever the sources are now.
InspectKept ==
  /\ call.at = "graph"
  /\ call' = IF graph.hash # None THEN [call EXCEPT !.at = "keep", !.output = graph.of]
             ELSE IF disk = call.read THEN [call EXCEPT !.at = "open"]
             ELSE [call EXCEPT !.at = "view", !.output = call.read]
  /\ UNCHANGED <<source, disk, changes, results, graph>>

\* The graph of the last query, or a look at the one on disk.
Inspect ==
  /\ call.at = "graph"
  /\ call' = IF graph.hash = call.read THEN [call EXCEPT !.at = "keep", !.output = graph.of]
             ELSE IF disk = call.read THEN [call EXCEPT !.at = "open"]
             ELSE [call EXCEPT !.at = "view", !.output = call.read]
  /\ UNCHANGED <<source, disk, changes, results, graph>>

\* open_fresh judges what it read; a graph that is not that of the sources is built in memory.
OpenFresh ==
  /\ call.at = "open"
  /\ call' = [call EXCEPT !.at = "view", !.output = IF disk = call.read THEN disk ELSE call.read]
  /\ UNCHANGED <<source, disk, changes, results, graph>>

\* The view is kept for the next query.
View ==
  /\ call.at = "view"
  /\ graph' = [hash |-> call.read, of |-> call.output]
  /\ call' = [call EXCEPT !.at = "keep"]
  /\ UNCHANGED <<source, disk, changes, results>>

Next == Save \/ Replace \/ (\E tool \in {"check", "query"} : Lookup(tool))
        \/ Load \/ Inspect \/ OpenFresh \/ View \/ Keep \/ Answer

Spec == Init /\ [][Next]_vars
-----------------------------------------------------------------------------
TypeOK ==
  /\ source \in Sources /\ disk \in Versions \cup {None} /\ changes \in 0..MaxChanges
  /\ Len(results) <= Entries /\ \A i, j \in DOMAIN results : results[i].key = results[j].key => i = j
  /\ call.at \in {"idle", "load", "graph", "open", "view", "keep", "answer"}

\* An answer is the one for sources that the project had while the call ran, never for older ones:
\* neither a kept answer nor a kept graph goes stale by a save between the loads of a call.
AnswerIsCurrent == call.at = "answer" /\ call.output # None => call.output \in call.seen

\* What is kept is kept under what it was computed from.
KeptIsFiled ==
  /\ \A i \in DOMAIN results : results[i].output = results[i].key[2]
  /\ graph.of = graph.hash
=============================================================================
