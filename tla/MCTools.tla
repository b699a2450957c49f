-------------------- MODULE MCTools --------------------
(* The compiler's own processes, threads and files, each in a small instance: the stages that   *)
(* run in parallel (the module that is extended here), the build cache, the watcher, the build  *)
(* server and its log, the replacement of sources, outputs and the knowledge graph, the cache   *)
(* and the session of the MCP server, and the language server. A behaviour is one of a single   *)
(* component; those other than the stages take turns to use x1, x2, ...: `part` says whose they *)
(* are.                                                                                         *)
EXTENDS OrderedStage, TLC

CONSTANTS
  Parts,   \* the components whose behaviours are looked at
  Bad, Dead, Old, CloseMark, c1, c2, h1, h2, k1, k2, p1, p2, s1, s2, v1, v2

VARIABLES
  part,    \* the component of this behaviour
  x1, x2, x3, x4, x5, x6, x7, x8, x9, x10, x11, x12, x13

\* Of these pairs a component has both or none, and makes no difference between them.
Alike == UNION {Permutations(s) : s \in {{k1, k2}, {p1, p2}, {s1, s2}}}

-----------------------------------------------------------------------------
\* Two builds, and room for one entry of two.
Cache ==
  INSTANCE BuildCache WITH Keys <- {k1, k2}, Procs <- {p1, p2}, Stamps <- {s1, s2}, MaxAge <- 0,
    MaxBytes <- 1, RemoveMax <- 3, TouchAge <- 0, EvictEvery <- 0, Caller <- "build",
    MaxFaults <- 0, entry <- x1, lock <- x2, evicted <- x3, pc <- x4, at <- x5, faults <- x6,
    stolen <- x7

\* The cache of units, with one entry: it may be damaged, and the process that stores it may die.
Entry ==
  INSTANCE BuildCache WITH Keys <- {k1}, Procs <- {p1, p2}, Stamps <- {s1, s2}, MaxAge <- 0,
    MaxBytes <- 0, RemoveMax <- 3, TouchAge <- 0, EvictEvery <- 1, Caller <- "units",
    MaxFaults <- 1, entry <- x1, lock <- x2, evicted <- x3, pc <- x4, at <- x5, faults <- x6,
    stolen <- x7

Watch ==
  INSTANCE Watch WITH Texts <- {v1, v2}, Grain <- 2, Racy <- 2, ScanEvery <- 2, LastSave <- 2,
    MaxEdits <- 3, Removes <- TRUE, Failed <- Bad, file <- x1, now <- x2, edits <- x3,
    memory <- x4, snap <- x5, polls <- x6, pc <- x7, reg <- x8, ran <- x9

\* One server, and two clients beside the one that stops it.
Srv ==
  INSTANCE BuildServer WITH Servers <- {h1}, Clients <- {p1, p2, c2}, Stoppers <- {c2},
    Queue <- 2, MaxKills <- 1, lock <- x1, path <- x2, srv <- x3, conn <- x4, client <- x5,
    kills <- x6

\* Two servers that start together.
Two ==
  INSTANCE BuildServer WITH Servers <- {h1, h2}, Clients <- {c1, c2}, Stoppers <- {c2},
    Queue <- 1, MaxKills <- 1, lock <- x1, path <- x2, srv <- x3, conn <- x4, client <- x5,
    kills <- x6

Repl ==
  INSTANCE ReplaceFiles WITH Count <- 3, MaxEdits <- 2, text <- x1, command <- x2, pc <- x3,
    at <- x4, back <- x5, unrestored <- x6, safe <- x7, edits <- x8

Pub ==
  INSTANCE Publish WITH Sidecars <- 3, command <- x1, had <- x2, place <- x3, backup <- x4,
    published <- x5, temporary <- x6, pc <- x7

Kg ==
  INSTANCE KgStore WITH Writers <- {p1, p2}, Bytes <- {s1, s2}, Attempts <- 3, ReadAttempts <- 3,
    MaxFaults <- 1, dir <- x1, graph <- x2, writer <- x3, reader <- x4, faults <- x5

Log ==
  INSTANCE ServeLog WITH Loggers <- {p1, p2, c1}, LogQueue <- 2, MaxLines <- 6, queue <- x1,
    missed <- x2, total <- x3, logger <- x4, logged <- x5, thread <- x6, written <- x7,
    told <- x8, finish <- x9

Answers ==
  INSTANCE McpCache WITH Versions <- {v1, v2}, Entries <- 3, MaxChanges <- 3, source <- x1,
    disk <- x2, changes <- x3, results <- x4, graph <- x5, call <- x6

Mcp ==
  INSTANCE McpSession WITH Ids <- {1, 2, 3}, ReaderQueue <- 2, MaxPending <- 2, MaxLines <- 4,
    events <- x1, lines <- x2, session <- x3, worker <- x4, ended <- x5, tally <- x6

Editor ==
  INSTANCE Lsp WITH Docs <- {v1, v2}, Capacity <- 1, CancelLimit <- 1, MaxEdits <- 3,
    MaxRequests <- 1, client <- x1, input <- x2, channel <- x3, cancelled <- x4, told <- x5,
    loop <- x6, buffers <- x7, pending <- x8, project <- x9, good <- x10, shown <- x11,
    answers <- x12, state <- x13

-----------------------------------------------------------------------------
\* The variables that a component with so many of its own leaves alone.
rest5 == <<part, claim, claimed, stop, board, waiting, notified, worker, caller, number, batch,
      item, evals, x6, x7, x8, x9, x10, x11, x12, x13>>
rest6 == <<part, claim, claimed, stop, board, waiting, notified, worker, caller, number, batch,
      item, evals, x7, x8, x9, x10, x11, x12, x13>>
rest7 == <<part, claim, claimed, stop, board, waiting, notified, worker, caller, number, batch,
      item, evals, x8, x9, x10, x11, x12, x13>>
rest8 == <<part, claim, claimed, stop, board, waiting, notified, worker, caller, number, batch,
      item, evals, x9, x10, x11, x12, x13>>
rest9 == <<part, claim, claimed, stop, board, waiting, notified, worker, caller, number, batch,
      item, evals, x10, x11, x12, x13>>
rest13 == <<part, claim, claimed, stop, board, waiting, notified, worker, caller, number, batch,
      item, evals>>
slots == <<part, x1, x2, x3, x4, x5, x6, x7, x8, x9, x10, x11, x12, x13>>
all == <<part, claim, claimed, stop, board, waiting, notified, worker, caller, number, batch,
      item, evals, x1, x2, x3, x4, x5, x6, x7, x8, x9, x10, x11, x12, x13>>

SumInit ==
  /\ part \in Parts
  /\ Init /\ (part # "stage" => claim = [n \in Numbers |-> n])
  /\ \/ part = "stage" /\ x1 = None /\ x2 = None /\ x3 = None /\ x4 = None /\ x5 = None
        /\ x6 = None /\ x7 = None /\ x8 = None /\ x9 = None /\ x10 = None /\ x11 = None
        /\ x12 = None /\ x13 = None
     \/ part = "cache" /\ Cache!Init /\ x8 = None /\ x9 = None /\ x10 = None /\ x11 = None
        /\ x12 = None /\ x13 = None
     \/ part = "entry" /\ Entry!Init /\ x8 = None /\ x9 = None /\ x10 = None /\ x11 = None
        /\ x12 = None /\ x13 = None
     \/ part = "watch" /\ Watch!Init /\ x10 = None /\ x11 = None /\ x12 = None /\ x13 = None
     \/ part = "server" /\ Srv!Init /\ x7 = None /\ x8 = None /\ x9 = None /\ x10 = None
        /\ x11 = None /\ x12 = None /\ x13 = None
     \/ part = "servers" /\ Two!Init /\ x7 = None /\ x8 = None /\ x9 = None /\ x10 = None
        /\ x11 = None /\ x12 = None /\ x13 = None
     \/ part = "replace" /\ Repl!Init /\ x9 = None /\ x10 = None /\ x11 = None /\ x12 = None
        /\ x13 = None
     \/ part = "publish" /\ Pub!Init /\ x8 = None /\ x9 = None /\ x10 = None /\ x11 = None
        /\ x12 = None /\ x13 = None
     \/ part = "kg" /\ Kg!Init /\ x6 = None /\ x7 = None /\ x8 = None /\ x9 = None /\ x10 = None
        /\ x11 = None /\ x12 = None /\ x13 = None
     \/ part = "log" /\ Log!Init /\ x10 = None /\ x11 = None /\ x12 = None /\ x13 = None
     \/ part = "answers" /\ Answers!Init /\ x7 = None /\ x8 = None /\ x9 = None /\ x10 = None
        /\ x11 = None /\ x12 = None /\ x13 = None
     \/ part = "session" /\ Mcp!Init /\ x7 = None /\ x8 = None /\ x9 = None /\ x10 = None
        /\ x11 = None /\ x12 = None /\ x13 = None
     \/ part = "lsp" /\ Editor!Init

SumNext ==
  \/ part = "stage" /\ Next /\ UNCHANGED slots
  \/ part = "cache" /\ Cache!Next /\ UNCHANGED rest7
  \/ part = "entry" /\ Entry!Next /\ UNCHANGED rest7
  \/ part = "watch" /\ Watch!Next /\ UNCHANGED rest9
  \/ part = "server" /\ Srv!Next /\ UNCHANGED rest6
  \/ part = "servers" /\ Two!Next /\ UNCHANGED rest6
  \/ part = "replace" /\ Repl!Next /\ UNCHANGED rest8
  \/ part = "publish" /\ Pub!Next /\ UNCHANGED rest7
  \/ part = "kg" /\ Kg!Next /\ UNCHANGED rest5
  \/ part = "log" /\ Log!Next /\ UNCHANGED rest9
  \/ part = "answers" /\ Answers!Next /\ UNCHANGED rest6
  \/ part = "session" /\ Mcp!Next /\ UNCHANGED rest6
  \/ part = "lsp" /\ Editor!Next /\ UNCHANGED rest13
  \/ part \in {"server", "servers", "replace", "publish", "kg", "log", "answers", "session", "lsp"} /\ UNCHANGED all   \* these may come to rest

SumSpec == SumInit /\ [][SumNext]_all

-----------------------------------------------------------------------------
\* The variables of each component keep their types.
SumTypeOK ==
  /\ TypeOK
  /\ part = "cache" => Cache!TypeOK
  /\ part = "entry" => Entry!TypeOK
  /\ part = "watch" => Watch!TypeOK
  /\ part = "server" => Srv!TypeOK
  /\ part = "servers" => Two!TypeOK
  /\ part = "replace" => Repl!TypeOK
  /\ part = "publish" => Pub!TypeOK
  /\ part = "kg" => Kg!TypeOK
  /\ part = "log" => Log!TypeOK
  /\ part = "answers" => Answers!TypeOK
  /\ part = "session" => Mcp!TypeOK
  /\ part = "lsp" => Editor!TypeOK


\* Nothing that a resident process kept is used after it went stale. A text that is given back
\* without opening the file is the text of the file: no write hides behind a stamp that stays the
\* same (resident.rs). An answer of the MCP server is for sources that the project had while the
\* call ran, and is kept under what it was computed from (mcp/cache.rs). The state that the
\* language server answers from is that of the open buffers unless a change is pending (schedule,
\* refresh).
NothingIsStale ==
  /\ part = "watch" => Watch!RememberedIsCurrent
  /\ part = "answers" => Answers!AnswerIsCurrent /\ Answers!KeptIsFiled
  /\ part = "lsp" => Editor!StateIsCurrent




\* Every call that was queued is answered once, or was cancelled and is never answered, or is
\* still in the hands of the session, and a session whose input has ended returns only when it has
\* nothing to answer: no order of lines, results and cancels breaks this (mcp/session.rs).
AnsweredOnce == part = "session" => Mcp!AnsweredOnce /\ Mcp!EndIsClean

\* When a store reports success an intact entry was in its place, although a damaged one was there
\* before (store_files); and the last texts that had an index are there for completions until
\* newer ones have, however many edits break the project or close its documents (refresh).
GoodIsKept ==
  [][/\ part = "entry" => \A p \in {p1, p2} : Entry!StoreLeaves(p)
     /\ part = "lsp" => Editor!KeepsGood]_all
=============================================================================
