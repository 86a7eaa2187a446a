--------------------------- MODULE OkvsCollection ---------------------------
(***************************************************************************)
(* How node x obtains an OKVS from each of its neighbors: test.py starts   *)
(* the role 1 process of x and, in batches, one process per neighbor; each *)
(* neighbor process solves its OKVS, retries connect() until port 8999     *)
(* accepts it, sends its number and the OKVS and exits (sendMessage); the  *)
(* role 1 process serves one connection at a time (startServer) and stops  *)
(* when it holds as many entries as x has neighbors.  After the last batch *)
(* test.py starts the role 0 process.                                      *)
(*                                                                         *)
(* A process may die at any of its steps (a missing file, an uncaught      *)
(* exception, a signal, a Popen that fails): test.py looks at no exit      *)
(* status.  An OKVS is a number of blocks: its contents never change on    *)
(* the way, but a prefix of it may be all that arrives.                    *)
(***************************************************************************)
EXTENDS Integers, Sequences, SequencesExt, FiniteSets

CONSTANTS
    Neighbors,     \* the sequence of numbers in the neighbor file of x
    BatchSize,     \* batch_size of test.py (50)
    Backlog,       \* the backlog given to listen() (100)
    Size,          \* blocks in an OKVS: bin_num * total_size
    X,             \* the node itself: its role 1 process, and a number no neighbor has
    None,          \* no connection, no number read yet
    MaxFaults      \* bound: processes that die before their work is done

Senders == ToSet(Neighbors)

ASSUME NeighborsAssumption ==
    /\ Neighbors \in Seq(Senders) /\ IsInjective(Neighbors)
    /\ X \notin Senders /\ None \notin Senders \cup {X}
ASSUME BoundsAssumption ==
    /\ BatchSize \in Nat \ {0} /\ Backlog \in Nat /\ Size \in Nat \ {0}
    /\ MaxFaults \in Nat

VARIABLES
    remaining,     \* test.py: remaining_neighbors, not yet submitted
    role0,         \* test.py: the role 0 process has been started
    proc,          \* what each neighbor process is doing
    sent,          \* what its socket carries: 0, the number (1), or k blocks too (1 + k)
    dead,          \* the processes that died early
    server,        \* what the role 1 process is doing
    queue,         \* the kernel's queue of connections not yet accepted
    conn,          \* new_socket: the connection being read
    clientId,      \* client_id
    received,      \* blocks of bytesReceived
    data           \* client_data_map: per client number, whose OKVS and how much of it

vars == <<remaining, role0, proc, sent, dead, server, queue, conn, clientId,
          received, data>>

testVars   == <<remaining, role0>>
clientVars == <<proc, sent, dead>>
serverVars == <<server, queue, conn, clientId, received, data>>

Init ==
    /\ remaining = Neighbors
    /\ role0 = FALSE
    /\ proc = [n \in Senders |-> "unborn"]
    /\ sent = [n \in Senders |-> 0]
    /\ dead = {}
    /\ server = "starting"
    /\ queue = <<>>
    /\ conn = None
    /\ clientId = None
    /\ received = 0
    /\ data = <<>>

-----------------------------------------------------------------------------
(* test.py                                                                 *)

Running == {n \in Senders : proc[n] \notin {"unborn", "exited"}}

FirstBatch == SubSeq(remaining, 1, IF Len(remaining) < BatchSize
                                     THEN Len(remaining) ELSE BatchSize)

\* The next batch is submitted when every process of the last one was waited for.
LaunchBatch ==
    /\ remaining # <<>> /\ Running = {}
    /\ proc' = [n \in Senders |-> IF n \in ToSet(FirstBatch) THEN "solving" ELSE proc[n]]
    /\ remaining' = SubSeq(remaining, Len(FirstBatch) + 1, Len(remaining))
    /\ UNCHANGED <<role0, sent, dead, serverVars>>

LaunchRole0 ==
    /\ remaining = <<>> /\ Running = {} /\ ~role0
    /\ role0' = TRUE
    /\ UNCHANGED <<remaining, clientVars, serverVars>>

-----------------------------------------------------------------------------
(* The process of a neighbor: neighbor and sendMessage                     *)

Listening == server = "listening"

Solve(n) ==
    /\ proc[n] = "solving"
    /\ proc' = [proc EXCEPT ![n] = "connecting"]
    /\ UNCHANGED <<testVars, sent, dead, serverVars>>

\* connect() succeeds as soon as the kernel can queue the connection, accepted or
\* not; it fails, and is tried again a second later, while nobody listens.  The
\* kernel's queue holds one connection more than the backlog.
Connect(n) ==
    /\ proc[n] = "connecting" /\ Listening /\ Len(queue) <= Backlog
    /\ proc' = [proc EXCEPT ![n] = "sending"]
    /\ queue' = Append(queue, n)
    /\ UNCHANGED <<testVars, sent, dead, server, conn, clientId, received, data>>

\* send() of the number, then of the OKVS, which may leave in pieces.
Send(n) ==
    /\ proc[n] = "sending" /\ sent[n] < 1 + Size
    /\ sent' = [sent EXCEPT ![n] = @ + 1]
    /\ UNCHANGED <<testVars, proc, dead, serverVars>>

\* A variant that is no part of the model: the process waits for its data to be
\* stored, while the server waits for the process to close.
ExitWhenStored(n) ==
    /\ proc[n] = "sending" /\ sent[n] = 1 + Size /\ n \in DOMAIN data
    /\ proc' = [proc EXCEPT ![n] = "exited"]
    /\ UNCHANGED <<testVars, sent, dead, serverVars>>

\* close() and the end of the process.
Exit(n) ==
    /\ proc[n] = "sending" /\ sent[n] = 1 + Size
    /\ proc' = [proc EXCEPT ![n] = "exited"]
    /\ UNCHANGED <<testVars, sent, dead, serverVars>>

\* The server has closed its socket: a send() on a connection it never accepted
\* ends the process.
Refused(n) ==
    /\ proc[n] = "sending" /\ server \in {"collected", "failed"}
    /\ proc' = [proc EXCEPT ![n] = "exited"]
    /\ UNCHANGED <<testVars, sent, dead, serverVars>>

\* A process ends early: its socket, if it has one, reaches its end there.
Die(n) ==
    /\ n \in Running /\ Cardinality(dead) < MaxFaults
    /\ proc' = [proc EXCEPT ![n] = "exited"]
    /\ dead' = dead \cup {n}
    /\ UNCHANGED <<testVars, sent, serverVars>>

-----------------------------------------------------------------------------
(* The role 1 process: startServer                                         *)

Listen ==
    /\ server = "starting"
    /\ server' = "listening"
    /\ UNCHANGED <<testVars, clientVars, queue, conn, clientId, received, data>>

\* The role 1 process exits: bind, listen or accept fail, or it is killed.
Fail ==
    /\ server \in {"starting", "listening"} /\ Cardinality(dead) < MaxFaults
    /\ server' = "failed"
    /\ dead' = dead \cup {X}
    /\ queue' = <<>> /\ conn' = None /\ clientId' = None /\ received' = 0
    /\ UNCHANGED <<testVars, proc, sent, data>>

Accept ==
    /\ Listening /\ conn = None /\ queue # <<>>
    /\ conn' = Head(queue)
    /\ queue' = Tail(queue)
    /\ UNCHANGED <<testVars, clientVars, server, clientId, received, data>>

\* A variant that is no part of the model: the number is not that of the connection.
ReadAnyId ==
    /\ conn # None /\ clientId = None /\ sent[conn] > 0
    /\ clientId' \in Senders
    /\ UNCHANGED <<testVars, clientVars, server, queue, conn, received, data>>

\* One read() of the number, its result unchecked: on a connection closed before
\* anything was sent client_id_network stays as the stack left it.
ReadId ==
    /\ conn # None /\ clientId = None
    /\ \/ sent[conn] > 0 /\ clientId' = conn
       \/ sent[conn] = 0 /\ proc[conn] = "exited" /\ clientId' \in Senders \cup {X}
    /\ UNCHANGED <<testVars, clientVars, server, queue, conn, received, data>>

Available == IF conn = None \/ sent[conn] = 0 THEN 0 ELSE sent[conn] - 1 - received

\* read() returns whatever has arrived, at least something.  The streams are taken to be
\* cut between blocks: the vector of an OKVS that ends inside one is left out.
ReadMore ==
    /\ conn # None /\ clientId # None
    /\ \E k \in 1 .. Available : received' = received + k
    /\ UNCHANGED <<testVars, clientVars, server, queue, conn, clientId, data>>

\* What is stored, and when: variants of Store that are no part of the model, one
\* that does not wait for the end of the stream, two that count the entries wrongly
\* and one that keeps the number of the last connection.
StoreWhatCame == conn # None /\ clientId # None /\ Available = 0
StoreEntry ==
    data' = [k \in DOMAIN data \cup {clientId} |->
               IF k = clientId THEN [owner |-> conn, blocks |-> received] ELSE data[k]]
StoreAndLeaveAt(n) ==
    /\ StoreEntry
    /\ server' = IF Cardinality(DOMAIN data') >= n THEN "collected" ELSE server
    /\ queue' = IF server' = "collected" THEN <<>> ELSE queue
    /\ conn' = None
    /\ received' = 0
    /\ UNCHANGED <<testVars, clientVars>>
StoreBeforeTheEnd == StoreWhatCame /\ StoreAndLeaveAt(Len(Neighbors)) /\ clientId' = None
StoreLeavesEarly ==
    /\ StoreWhatCame /\ proc[conn] = "exited"
    /\ StoreAndLeaveAt(Len(Neighbors) - 1) /\ clientId' = None
StoreLeavesLate ==
    /\ StoreWhatCame /\ proc[conn] = "exited"
    /\ StoreAndLeaveAt(Len(Neighbors) + 1) /\ clientId' = None
StoreKeepsNumber ==
    /\ StoreWhatCame /\ proc[conn] = "exited"
    /\ StoreAndLeaveAt(Len(Neighbors)) /\ UNCHANGED clientId

\* The buffer is four bytes longer than an OKVS, so only the end of the stream ends
\* the reading.  What came is stored under the number, the connection closed, and
\* the loop left when the map has recvNum entries.
Store ==
    /\ StoreWhatCame /\ proc[conn] = "exited"
    /\ StoreAndLeaveAt(Len(Neighbors)) /\ clientId' = None

-----------------------------------------------------------------------------

Client(n) == Solve(n) \/ Connect(n) \/ Send(n) \/ Exit(n) \/ Refused(n)
Server    == Listen \/ Accept \/ ReadId \/ ReadMore \/ Store
TestPy    == LaunchBatch \/ LaunchRole0

Next == TestPy \/ Server \/ Fail \/ \E n \in Senders : Client(n) \/ Die(n)

\* Every process keeps running: the scheduler favours none for ever, and a failed
\* connect() is retried for ever.
Spec ==
    /\ Init /\ [][Next]_vars
    /\ WF_vars(TestPy) /\ WF_vars(Server)
    /\ \A n \in Senders : WF_vars(Client(n))

-----------------------------------------------------------------------------

\* The type of the state; only a connection being read has a number and bytes.
TypeOK ==
    /\ remaining \in Seq(Senders) /\ role0 \in BOOLEAN
    /\ proc \in [Senders -> {"unborn", "solving", "connecting", "sending", "exited"}]
    /\ sent \in [Senders -> 0 .. 1 + Size]
    /\ dead \subseteq Senders \cup {X}
    /\ server \in {"starting", "listening", "collected", "failed"}
    /\ queue \in Seq(Senders)
    /\ conn \in Senders \cup {None}
    /\ clientId \in Senders \cup {X, None}
    /\ received \in 0 .. Size
    /\ conn = None => clientId = None /\ received = 0
    /\ \A k \in DOMAIN data :
          k \in Senders \cup {X} /\ data[k] \in [owner : Senders, blocks : 0 .. Size]

\* However the pieces of the streams interleave and wherever a sender dies, an entry of
\* client_data_map is what its sender sent and nothing else: the whole OKVS under its
\* own number unless the sender died, the part it sent under its own number if it died
\* after the number, and nothing, under whatever number was read, if before.
EntriesWhole ==
    \A k \in DOMAIN data :
      LET n == data[k].owner
      IN  /\ n \notin dead => data[k] = [owner |-> k, blocks |-> Size]
          /\ sent[n] > 0 => data[k] = [owner |-> k, blocks |-> sent[n] - 1]
          /\ sent[n] = 0 => data[k].blocks = 0

\* When startServer returns it has served every neighbor, and neighbor_okvs[i] is the
\* whole OKVS of neighbors[i] for every one that did not die: a number taken for another
\* never makes up the count of the entries in the place of one still to come.
CollectedIsComplete ==
    server = "collected" =>
      \A n \in Senders :
        /\ \E k \in DOMAIN data : data[k].owner = n
        /\ n \notin dead => n \in DOMAIN data /\ data[n] = [owner |-> n, blocks |-> Size]

\* client_data_map[client_id] = receivedData replaces no entry, so that the entries that
\* end the loop are the connections served, except where a sender died before its
\* number: what it left is replaced, or replaces an entry.
NoEntryReplaced ==
    [][\A k \in DOMAIN data :
         data'[k] # data[k] => sent[conn] = 0 \/ sent[data[k].owner] = 0]_vars

\* test.py gets past its batches to the role 0 process unless the role 1 process dies,
\* although it waits for every neighbor process and these retry connect() for ever:
\* whichever neighbors die at whatever step, and whatever numbers are taken for theirs,
\* the server is there until the last neighbor process that lives has been accepted.
Role0Starts == <>role0 \/ <>(X \in dead)

\* If nobody dies the collection ends and test.py reaches the role 0 process: the
\* retries, the bounded queue and the one-at-a-time server never block each other.
Completes == <>(dead # {}) \/ <>(server = "collected" /\ role0)

\* Without deaths the role 1 process keeps the promise of Collection.
Promise == INSTANCE Collection WITH
             delivered <- {n \in DOMAIN data : data[n] = [owner |-> n, blocks |-> Size]},
             done <- (server = "collected")
PromiseKept == Promise!Spec
=============================================================================
