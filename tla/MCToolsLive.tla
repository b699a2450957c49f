-------------------- MODULE MCToolsLive --------------------
(* What the compiler's processes and threads do eventually: a stage ends, a lock left behind    *)
(* goes, a change is noticed, a server stops, a command, a call and a request are answered. A   *)
(* behaviour is one of a single component, and the components take turns to use the variables:  *)
(* `part` says whose they are.                                                                  *)
EXTENDS Integers, Sequences

CONSTANTS
  Parts,   \* the components whose behaviours are looked at
  None, Bad, Dead, c1, c2, h1, h2, k1, p1, p2, s1, v1, v2

VARIABLES
  part,    \* the component of this behaviour
  x1, x2, x3, x4, x5, x6, x7, x8, x9, x10, x11, x12, x13

-----------------------------------------------------------------------------
Stage ==
  INSTANCE OrderedStage WITH Workers <- {p1, p2}, ItemCount <- 5, Chunk <- 2, claim <- x1,
    claimed <- x2, stop <- x3, board <- x4, waiting <- x5, notified <- x6, worker <- x7,
    caller <- x8, number <- x9, batch <- x10, item <- x11, evals <- x12

Cache ==
  INSTANCE BuildCache WITH Keys <- {k1}, Procs <- {p1, p2}, Stamps <- {s1}, MaxAge <- 0,
    MaxBytes <- 1, RemoveMax <- 3, TouchAge <- 0, EvictEvery <- 0, Caller <- "build",
    MaxFaults <- 1, entry <- x1, lock <- x2, evicted <- x3, pc <- x4, at <- x5, faults <- x6,
    stolen <- x7

Watch ==
  INSTANCE Watch WITH Texts <- {v1, v2}, Grain <- 2, Racy <- 2, ScanEvery <- 2, LastSave <- 2,
    MaxEdits <- 2, Removes <- TRUE, Failed <- Bad, file <- x1, now <- x2, edits <- x3,
    memory <- x4, snap <- x5, polls <- x6, pc <- x7, reg <- x8, ran <- x9

Srv ==
  INSTANCE BuildServer WITH Servers <- {h1, h2}, Clients <- {c1, c2}, Stoppers <- {c2},
    Queue <- 1, MaxKills <- 1, lock <- x1, path <- x2, srv <- x3, conn <- x4, client <- x5,
    kills <- x6

Mcp ==
  INSTANCE McpSession WITH Ids <- {1, 2, 3}, ReaderQueue <- 2, MaxPending <- 2, MaxLines <- 4,
    events <- x1, lines <- x2, session <- x3, worker <- x4, ended <- x5, tally <- x6

Editor ==
  INSTANCE Lsp WITH Docs <- {v1, v2}, Capacity <- 1, CancelLimit <- 1, MaxEdits <- 2,
    MaxRequests <- 1, client <- x1, input <- x2, channel <- x3, cancelled <- x4, told <- x5,
    loop <- x6, buffers <- x7, pending <- x8, project <- x9, good <- x10, shown <- x11,
    answers <- x12, state <- x13

-----------------------------------------------------------------------------
\* The variables that a component with so many of its own leaves alone.
rest6 == <<part, x7, x8, x9, x10, x11, x12, x13>>
rest7 == <<part, x8, x9, x10, x11, x12, x13>>
rest9 == <<part, x10, x11, x12, x13>>
rest12 == <<part, x13>>
rest13 == <<part>>
all == <<part, x1, x2, x3, x4, x5, x6, x7, x8, x9, x10, x11, x12, x13>>

SumInit ==
  /\ part \in Parts
  /\ \/ part = "stage" /\ Stage!Init /\ x13 = None
     \/ part = "cache" /\ Cache!Init /\ x8 = None /\ x9 = None /\ x10 = None /\ x11 = None
        /\ x12 = None /\ x13 = None
     \/ part = "watch" /\ Watch!Init /\ x10 = None /\ x11 = None /\ x12 = None /\ x13 = None
     \/ part = "server" /\ Srv!Init /\ x7 = None /\ x8 = None /\ x9 = None /\ x10 = None
        /\ x11 = None /\ x12 = None /\ x13 = None
     \/ part = "session" /\ Mcp!Init /\ x7 = None /\ x8 = None /\ x9 = None /\ x10 = None
        /\ x11 = None /\ x12 = None /\ x13 = None
     \/ part = "lsp" /\ Editor!Init

SumNext ==
  \/ part = "stage" /\ Stage!Next /\ UNCHANGED rest12
  \/ part = "cache" /\ Cache!Next /\ UNCHANGED rest7
  \/ part = "watch" /\ Watch!Next /\ UNCHANGED rest9
  \/ part = "server" /\ Srv!Next /\ UNCHANGED rest6
  \/ part = "session" /\ Mcp!Next /\ UNCHANGED rest6
  \/ part = "lsp" /\ Editor!Next /\ UNCHANGED rest13
  \/ part \in {"server", "session", "lsp"} /\ UNCHANGED all   \* these may come to rest

\* The fairness of each component. Only one of them runs in a behaviour, so that the fairness of
\* an action of one and of an action of another is that of their disjunction.
Fair1 ==
  \/ part = "stage" /\ Stage!Call /\ UNCHANGED rest12
  \/ part = "cache" /\ Cache!Tick /\ UNCHANGED rest7
  \/ part = "watch" /\ Watch!Process /\ UNCHANGED rest9
  \/ part = "server" /\ Srv!Loop(h1) /\ UNCHANGED rest6
  \/ part = "session" /\ Mcp!RunJob /\ UNCHANGED rest6
  \/ part = "lsp" /\ Editor!Read /\ UNCHANGED rest13

Fair2 ==
  \/ part = "stage" /\ Stage!Notified /\ UNCHANGED rest12
  \/ part = "cache" /\ Cache!Step(p1) /\ UNCHANGED rest7
  \/ part = "watch" /\ Watch!Pass /\ UNCHANGED rest9
  \/ part = "server" /\ Srv!Loop(h2) /\ UNCHANGED rest6
  \/ part = "session" /\ Mcp!SendDone /\ UNCHANGED rest6
  \/ part = "lsp" /\ Editor!Loop /\ UNCHANGED rest13

Fair3 ==
  \/ part = "stage" /\ Stage!Work(p1) /\ UNCHANGED rest12
  \/ part = "cache" /\ Cache!Step(p2) /\ UNCHANGED rest7
  \/ part = "server" /\ Srv!Acceptor(h1) /\ UNCHANGED rest6
  \/ part = "session" /\ Mcp!Session /\ UNCHANGED rest6

Fair4 ==
  \/ part = "stage" /\ Stage!Work(p2) /\ UNCHANGED rest12
  \/ part = "server" /\ Srv!Acceptor(h2) /\ UNCHANGED rest6

Fair5 ==
  \/ part = "server" /\ Srv!Client(c1) /\ UNCHANGED rest6

Fair6 ==
  \/ part = "server" /\ Srv!Client(c2) /\ UNCHANGED rest6

SumSpec ==
  /\ SumInit /\ [][SumNext]_all
  /\ WF_all(Fair1) /\ WF_all(Fair2) /\ WF_all(Fair3) /\ WF_all(Fair4) /\ WF_all(Fair5)
  /\ WF_all(Fair6)

-----------------------------------------------------------------------------
\* A parallel stage ends: the calling thread gets through its items, the workers stop and are
\* joined. A lock file that a dead process left does not stay as long as cleanups go on. A text
\* that differs from the watcher's snapshot, and a file that was added or removed since, are
\* noticed, however the writes fall within a tick and between the steps of a poll.
BuildsGoOn ==
  /\ []<>~(part = "stage" /\ Stage!Goes)
  /\ []<>(part = "cache" /\ Cache!Cleaning) => []<>~(part = "cache" /\ Cache!LeftLock(k1))
  /\ []<>~(part = "watch" /\ Watch!Unnoticed(Watch!TextDiffers))
  /\ []<>~(part = "watch" /\ Watch!Unnoticed(Watch!ScanDiffers))

\* A build server that was asked to stop stops, and a command that asks one comes to its end,
\* there or in the client. An MCP session returns once its input has ended, and a call is answered
\* or cancelled, or the session ends: worker, session and jobs never wait in a circle. The language
\* server answers every request, and when the client rests the diagnostics that it shows become
\* those of the texts that it has open, if these load.
ServersAnswer ==
  /\ \A s \in {h1, h2} : []<>~(part = "server" /\ Srv!Stopping(s))
  /\ \A c \in {c1, c2} : []<>~(part = "server" /\ Srv!Asks(c))
  /\ []<>~(part = "session" /\ Mcp!Ending)
  /\ \A id \in 1..3 : []<>~(part = "session" /\ Mcp!InUse(id) /\ Mcp!Open)
  /\ []<>~(part = "lsp" /\ Editor!Unanswered(1))
  /\ <>[](part = "lsp" => Editor!Settled)
=============================================================================
