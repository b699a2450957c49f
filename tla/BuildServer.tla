----------------------------- MODULE BuildServer -----------------------------
(***************************************************************************)
(* The build server of a project, src/server.rs: the lock and the socket   *)
(* of a server that starts, its accept thread, its thread that runs the    *)
(* commands, and the clients (a `check` or `build` that asks the server,   *)
(* and `serve --stop`).                                                    *)
(*                                                                         *)
(* Servers are the processes that may start, each once; one may be killed  *)
(* at any step, which frees its lock, closes its connections and leaves    *)
(* its socket. The idle time is over when nothing happened since the last  *)
(* look at it. Requests carry no data but the operation.                   *)
(***************************************************************************)
EXTENDS Integers, Sequences, FiniteSets

CONSTANTS Servers, Clients,
          Stoppers,  \* the clients that ask for a shutdown, a subset of Clients
          Queue,     \* QUEUE
          MaxKills,  \* bound on servers that are killed
          None

VARIABLES
  lock,   \* the server that holds the lock beside the socket, or None
  path,   \* the server that made the socket at the path, or None
  srv,    \* the processes
  conn,   \* the connection of each client
  client, \* where each client is
  kills

vars == <<lock, path, srv, conn, client, kills>>

Off == [lp |-> "off", ap |-> "off", chan |-> <<>>, queued |-> 0, shut |-> FALSE, stop |-> FALSE,
        wake |-> FALSE, fresh |-> FALSE, job |-> None, cur |-> None, running |-> FALSE, late |-> 0]
NoConn == [to |-> None, at |-> "none"]

Init ==
  /\ lock = None /\ path = None /\ kills = 0
  /\ srv = [s \in Servers |-> [Off EXCEPT !.lp = "new"]]
  /\ conn = [c \in Clients |-> NoConn]
  /\ client = [c \in Clients |-> "new"]

\* The listener of a server answers from the bind to the end of its accept thread.
Listens(s) == srv[s].ap \in {"accept", "read", "ack"}
Waiting(s) == Len(SelectSeq(srv[s].chan, LAMBDA m : m # "shutdown"))
Put(s, field, value) == [srv EXCEPT ![s] = [@ EXCEPT ![field] = value]]
\* A process that ends closes what its clients hold of it.
Closed(s) ==
  [c \in Clients |-> IF conn[c].to = s /\ conn[c].at \notin {"response", "refusal", "gone"}
                     THEN [conn[c] EXCEPT !.at = "closed"] ELSE conn[c]]
Drop(c) == [conn EXCEPT ![c].at = IF @ = "gone" THEN "gone" ELSE "closed"]
Answer(c, what) == [conn EXCEPT ![c].at = IF @ = "gone" THEN "gone" ELSE what]
-----------------------------------------------------------------------------
(* The start of a server. *)

\* Variant with a bug: a lock that is held does not stop a server.
TakeLockAnyway(s) ==
  /\ srv[s].lp = "new"
  /\ lock' = IF lock = None THEN s ELSE lock
  /\ srv' = Put(s, "lp", "bind")
  /\ UNCHANGED <<path, conn, client, kills>>

TakeLock(s) ==
  /\ srv[s].lp = "new"
  /\ IF lock # None THEN srv' = [srv EXCEPT ![s] = Off] /\ UNCHANGED lock
     ELSE lock' = s /\ srv' = Put(s, "lp", "bind")
  /\ UNCHANGED <<path, conn, client, kills>>

\* bind makes the socket; an address in use is tried.
Bind(s) ==
  /\ srv[s].lp \in {"bind", "rebind"}
  /\ \/ /\ path = None /\ path' = s
        /\ srv' = [srv EXCEPT ![s].lp = "check", ![s].ap = "accept", ![s].fresh = TRUE]
     \/ /\ path # None
        /\ srv' = Put(s, "lp", IF srv[s].lp = "bind" THEN "try" ELSE "failed")
        /\ UNCHANGED path
  /\ UNCHANGED <<lock, conn, client, kills>>

\* A socket that answers is a server that runs; one that nobody answers is removed.
Try(s) ==
  /\ srv[s].lp = "try"
  /\ IF path # None /\ Listens(path)
     THEN srv' = Put(s, "lp", "failed") /\ UNCHANGED path
     ELSE srv' = Put(s, "lp", "rebind") /\ path' = None
  /\ UNCHANGED <<lock, conn, client, kills>>

Fail(s) ==
  /\ srv[s].lp = "failed"
  /\ lock' = IF lock = s THEN None ELSE lock
  /\ srv' = [srv EXCEPT ![s] = Off]
  /\ UNCHANGED <<path, conn, client, kills>>
-----------------------------------------------------------------------------
(* The thread that runs the commands. *)

\* Variant with a bug: the flag is not looked at.
CheckBlindly(s) ==
  /\ srv[s].lp = "check"
  /\ srv' = Put(s, "lp", "recv")
  /\ UNCHANGED <<lock, path, conn, client, kills>>

Check(s) ==
  /\ srv[s].lp = "check"
  /\ srv' = Put(s, "lp", IF srv[s].shut THEN "end" ELSE "recv")
  /\ UNCHANGED <<lock, path, conn, client, kills>>

Recv(s) ==
  /\ srv[s].lp = "recv" /\ srv[s].chan # <<>>
  /\ LET m == Head(srv[s].chan) IN
     srv' = [srv EXCEPT ![s].chan = Tail(@),
                        ![s].lp = IF m = "shutdown" THEN "end" ELSE "took",
                        ![s].job = IF m = "shutdown" THEN None ELSE m]
  /\ UNCHANGED <<lock, path, conn, client, kills>>

\* The wait timed out; a connection since then moved the end of the idle time.
Timeout(s) ==
  /\ srv[s].lp = "recv" /\ srv[s].chan = <<>>
  /\ srv' = [srv EXCEPT ![s].lp = IF srv[s].fresh THEN "check" ELSE "end",
                        ![s].fresh = FALSE]
  /\ UNCHANGED <<lock, path, conn, client, kills>>

\* The request is skipped when its client has gone. It is refused when the compiler was replaced,
\* which ends the server, or when the client's setting differs; otherwise its command runs.
Job(s) ==
  LET c == srv[s].job IN
  /\ srv[s].lp = "took"
  /\ \/ /\ conn[c].at = "gone" /\ UNCHANGED conn
        /\ srv' = [srv EXCEPT ![s].lp = "check", ![s].queued = @ - 1, ![s].job = None,
                              ![s].fresh = TRUE]
     \/ /\ conn[c].at # "gone" /\ conn' = Answer(c, "refusal")
        /\ \E lp \in {"check", "end"} :
             srv' = [srv EXCEPT ![s].lp = lp, ![s].queued = @ - 1, ![s].job = None,
                                ![s].fresh = (lp = "check" \/ @)]
     \/ /\ conn[c].at # "gone" /\ UNCHANGED conn
        /\ srv' = [srv EXCEPT ![s].lp = "run", ![s].queued = @ - 1, ![s].running = TRUE,
                              ![s].late = IF srv[s].shut THEN @ + 1 ELSE @]
  /\ UNCHANGED <<lock, path, client, kills>>

\* The command ends, then the reply is sent: its output, or a refusal (a panic, an output too long).
RunEnds(s) ==
  /\ srv[s].lp = "run" /\ srv[s].running
  /\ srv' = Put(s, "running", FALSE)
  /\ UNCHANGED <<lock, path, conn, client, kills>>

Reply(s) ==
  /\ srv[s].lp = "run" /\ ~srv[s].running
  /\ \E what \in {"response", "refusal"} : conn' = Answer(srv[s].job, what)
  /\ srv' = [srv EXCEPT ![s].lp = "check", ![s].job = None, ![s].fresh = TRUE]
  /\ UNCHANGED <<lock, path, client, kills>>

\* The accept thread is told to stop, and woken by a connection to its own socket.
Stop(s) ==
  /\ srv[s].lp = "end"
  /\ \/ path = s /\ srv' = [srv EXCEPT ![s].lp = "join", ![s].stop = TRUE, ![s].wake = TRUE]
     \/ path # s /\ srv' = [srv EXCEPT ![s].lp = "cleanup", ![s].stop = TRUE]
  /\ UNCHANGED <<lock, path, conn, client, kills>>

Join(s) ==
  /\ srv[s].lp = "join" /\ srv[s].ap = "ended"
  /\ srv' = Put(s, "lp", "cleanup")
  /\ UNCHANGED <<lock, path, conn, client, kills>>

\* The socket goes if it is still this server's.
Cleanup(s) ==
  /\ srv[s].lp = "cleanup"
  /\ path' = IF path = s THEN None ELSE path
  /\ srv' = Put(s, "lp", "unlock")
  /\ UNCHANGED <<lock, conn, client, kills>>

\* The lock is given up, and with the end of the process what waited in the queue is dropped.
Exit(s) ==
  /\ srv[s].lp = "unlock"
  /\ lock' = IF lock = s THEN None ELSE lock
  /\ srv' = [srv EXCEPT ![s] = [Off EXCEPT !.late = srv[s].late, !.shut = srv[s].shut]]
  /\ conn' = Closed(s)
  /\ UNCHANGED <<path, client, kills>>

Loop(s) ==
  \/ TakeLock(s) \/ Bind(s) \/ Try(s) \/ Fail(s)
  \/ Check(s) \/ Recv(s) \/ Job(s) \/ RunEnds(s) \/ Reply(s)
  \/ Stop(s) \/ Join(s) \/ Cleanup(s) \/ Exit(s)
-----------------------------------------------------------------------------
(* The accept thread. *)

\* A connection: the thread ends if the server has; otherwise it says hello.
Accept(s) ==
  /\ srv[s].ap = "accept"
  /\ \/ /\ srv[s].wake /\ UNCHANGED conn
        /\ srv' = Put(s, "ap", "ended")
     \/ \E c \in Clients :
        /\ conn[c].to = s /\ conn[c].at = "backlog"
        /\ IF srv[s].stop
           THEN srv' = Put(s, "ap", "ended") /\ conn' = Drop(c)
           ELSE /\ srv' = [srv EXCEPT ![s].ap = "read", ![s].cur = c, ![s].fresh = TRUE]
                /\ conn' = [conn EXCEPT ![c].at = "hello"]
  /\ UNCHANGED <<lock, path, client, kills>>

\* Variant with a bug: a request in the queue is not counted.
ReceiveUncounted(s) ==
  LET c == srv[s].cur IN
  /\ srv[s].ap = "read" /\ conn[c].at = "sent" /\ c \notin Stoppers
  /\ IF srv[s].queued >= Queue
     THEN conn' = Answer(c, "refusal") /\ srv' = [srv EXCEPT ![s].ap = "accept", ![s].cur = None]
     ELSE /\ conn' = [conn EXCEPT ![c].at = "queued"]
          /\ srv' = [srv EXCEPT ![s].ap = "accept", ![s].cur = None, ![s].chan = Append(@, c)]
  /\ UNCHANGED <<lock, path, client, kills>>

\* A request to run goes into the queue, or is refused when that is full.
Receive(s) ==
  LET c == srv[s].cur IN
  /\ srv[s].ap = "read" /\ conn[c].at = "sent" /\ c \notin Stoppers
  /\ IF srv[s].queued >= Queue
     THEN conn' = Answer(c, "refusal") /\ srv' = [srv EXCEPT ![s].ap = "accept", ![s].cur = None]
     ELSE /\ conn' = [conn EXCEPT ![c].at = "queued"]
          /\ srv' = [srv EXCEPT ![s].ap = "accept", ![s].cur = None,
                                ![s].queued = @ + 1, ![s].chan = Append(@, c)]
  /\ UNCHANGED <<lock, path, client, kills>>

\* A shutdown: the flag, then the reply that says whether a command runs, and the message.
ReceiveShutdown(s) ==
  /\ srv[s].ap = "read" /\ conn[srv[s].cur].at = "sent" /\ srv[s].cur \in Stoppers
  /\ srv' = [srv EXCEPT ![s].ap = "ack", ![s].shut = TRUE]
  /\ UNCHANGED <<lock, path, conn, client, kills>>

\* Variant with a bug: the thread that runs the commands is not told.
AckSilently(s) ==
  /\ srv[s].ap = "ack"
  /\ conn' = Answer(srv[s].cur, IF srv[s].running THEN "refusal" ELSE "response")
  /\ srv' = [srv EXCEPT ![s].ap = "accept", ![s].cur = None]
  /\ UNCHANGED <<lock, path, client, kills>>

Ack(s) ==
  /\ srv[s].ap = "ack"
  /\ conn' = Answer(srv[s].cur, IF srv[s].running THEN "refusal" ELSE "response")
  /\ srv' = [srv EXCEPT ![s].ap = "accept", ![s].cur = None, ![s].chan = Append(@, "shutdown")]
  /\ UNCHANGED <<lock, path, client, kills>>

\* The client went away, or its request did not arrive within the deadline.
GiveUp(s) ==
  /\ srv[s].ap = "read" /\ conn[srv[s].cur].at \in {"hello", "gone"}
  /\ conn' = Drop(srv[s].cur)
  /\ srv' = [srv EXCEPT ![s].ap = "accept", ![s].cur = None]
  /\ UNCHANGED <<lock, path, client, kills>>

Acceptor(s) == Accept(s) \/ Receive(s) \/ ReceiveShutdown(s) \/ Ack(s) \/ GiveUp(s)

Kill(s) ==
  /\ kills < MaxKills /\ srv[s].lp \notin {"new", "off"}
  /\ kills' = kills + 1
  /\ lock' = IF lock = s THEN None ELSE lock
  /\ srv' = [srv EXCEPT ![s] = [Off EXCEPT !.late = srv[s].late]]
  /\ conn' = Closed(s)
  /\ UNCHANGED <<path, client>>
-----------------------------------------------------------------------------
(* The clients. *)

\* Without a socket that answers, the command runs in the client itself.
Connect(c) ==
  /\ client[c] = "new"
  /\ IF path # None /\ Listens(path)
     THEN /\ client' = [client EXCEPT ![c] = "hello"]
          /\ conn' = [conn EXCEPT ![c] = [to |-> path, at |-> "backlog"]]
     ELSE client' = [client EXCEPT ![c] = "local"] /\ UNCHANGED conn
  /\ UNCHANGED <<lock, path, srv, kills>>

Send(c) ==
  /\ client[c] = "hello" /\ conn[c].at = "hello"
  /\ client' = [client EXCEPT ![c] = "reply"]
  /\ conn' = [conn EXCEPT ![c].at = "sent"]
  /\ UNCHANGED <<lock, path, srv, kills>>

\* The hello did not come in time, or the client was interrupted.
Leave(c) ==
  /\ \/ client[c] = "hello" /\ client' = [client EXCEPT ![c] = "local"]
     \/ client[c] \in {"hello", "reply"} /\ client' = [client EXCEPT ![c] = "dead"]
  /\ conn' = [conn EXCEPT ![c].at = IF @ \in {"closed", "response", "refusal"} THEN @ ELSE "gone"]
  /\ UNCHANGED <<lock, path, srv, kills>>

\* Variant with a bug: a connection that is closed without a reply is waited for.
FinishReplied(c) ==
  /\ client[c] \in {"hello", "reply"} /\ conn[c].at \in {"response", "refusal"}
  /\ client' = [client EXCEPT ![c] = IF conn[c].at = "response" THEN "served" ELSE "local"]
  /\ UNCHANGED <<lock, path, srv, conn, kills>>

\* The reply of the server; without one, or with a refusal, the client runs the command.
Finish(c) ==
  /\ client[c] \in {"hello", "reply"} /\ conn[c].at \in {"closed", "response", "refusal"}
  /\ client' = [client EXCEPT ![c] = IF conn[c].at = "response" THEN "served" ELSE "local"]
  /\ UNCHANGED <<lock, path, srv, conn, kills>>

Client(c) == Connect(c) \/ Send(c) \/ Finish(c)

Next ==
  \/ \E s \in Servers : Loop(s) \/ Timeout(s) \/ Acceptor(s) \/ Kill(s)
  \/ \E c \in Clients : Client(c) \/ Leave(c)

Spec == Init /\ [][Next]_vars
\* Threads and clients run; nobody has to be killed, to leave or to be idle.
FairSpec ==
  /\ Spec
  /\ \A s \in Servers : WF_vars(Loop(s)) /\ WF_vars(Acceptor(s))
  /\ \A c \in Clients : WF_vars(Client(c))
-----------------------------------------------------------------------------
Points == {"new", "bind", "rebind", "try", "failed", "check", "recv", "took", "run", "end", "join",
           "cleanup", "unlock", "off"}

TypeOK ==
  /\ lock \in Servers \cup {None} /\ path \in Servers \cup {None} /\ kills \in 0..MaxKills
  /\ \A s \in Servers :
       /\ srv[s].lp \in Points /\ srv[s].ap \in {"off", "accept", "read", "ack", "ended"}
       /\ srv[s].queued \in 0..Queue
       /\ srv[s].job \in Clients \cup {None} /\ srv[s].cur \in Clients \cup {None}
  /\ \A c \in Clients :
       /\ client[c] \in {"new", "hello", "reply", "served", "local", "dead"}
       /\ conn[c].to \in Servers \cup {None}
       /\ conn[c].at \in {"none", "backlog", "hello", "sent", "queued", "response", "refusal", "closed", "gone"}

\* Nobody removes the socket of a server that serves: a client finds it at the path for as long
\* as the thread that runs the commands goes on. So two servers that start together are one, which
\* is what the lock beside the socket is for.
ServerIsReachable ==
  \A s \in Servers : srv[s].lp \in {"check", "recv", "took", "run", "end", "join"} => path = s

\* The count that bounds the queue is that of the requests in it, and the one just taken out.
QueueIsCounted ==
  \A s \in Servers : Listens(s) =>
    /\ srv[s].queued = Waiting(s) + (IF srv[s].lp = "took" THEN 1 ELSE 0)
    /\ srv[s].queued <= Queue

\* After a shutdown was asked, at most one command begins: the one that was taken out before
\* the flag was seen.
OneMoreAfterShutdown == \A s \in Servers : srv[s].late <= 1

Stopping(s) == srv[s].shut /\ srv[s].lp # "off"

\* A server that was asked to stop stops, also with a full queue and with clients that go away.
ShutdownStops == \A s \in Servers : []<>~Stopping(s)

Asks(c) == client[c] \in {"hello", "reply"}

\* A command that asks a server comes to its end, there or in the client: no server that stops,
\* is idle or dies keeps it waiting.
CommandEnds == \A c \in Clients : []<>~Asks(c)
=============================================================================
