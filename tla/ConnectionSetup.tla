--------------------------- MODULE ConnectionSetup ---------------------------
(***************************************************************************)
(* main of triangle_counting/circuit_psi.cpp for the roles 0 (SERVER) and  *)
(* 1 (CLIENT), from the first getchar() on: the connections each opens, in *)
(* its order, the keys it waits for on the terminal both have, and the     *)
(* counting of the bytes sent.                                             *)
(*                                                                         *)
(* Each role is a straight line of steps, its Script.  A step that listens *)
(* blocks until a client is accepted, one that dials until somebody        *)
(* listens, one that receives until there is a message, and getchar()      *)
(* until there is a line on the terminal.  What the protocol does with the *)
(* connections is PsiCardinality's subject: here it moves some bytes.      *)
(* What NetIO also names, this module names apart, so that Streams_proofs  *)
(* can be about both.                                                      *)
(***************************************************************************)
EXTENDS Integers, Sequences, FiniteSets, SequencesExt

CONSTANTS
    SockTries,     \* how often the library's Connect tries before it returns nothing
    MaxLine,       \* bound: characters of a line typed at the terminal
    MaxBytes,      \* bound: bytes that a role sends over one connection
    Garbage,       \* bound: values of an uninitialised integer
    None           \* no connection, no listener, nothing printed

ASSUME BoundsAssumption ==
    /\ SockTries \in Nat /\ MaxLine \in Nat \ {0} /\ MaxBytes \in Nat
    /\ Garbage # {} /\ Garbage \subseteq Nat

SERVER == 0
CLIENT == 1
Roles  == {SERVER, CLIENT}
Peer(r) == 1 - r

\* The connections whose bytes are told apart: io stands for io and io2 together.
Counted == {"io", "arr0", "arr1", "arr2"}
Names   == {"sock", "io", "io2", "test", "arr0", "arr1", "arr2"}

-----------------------------------------------------------------------------
(* The scripts                                                             *)

Listen(n, p) == [do |-> "listen", name |-> n, port |-> p]
Dial(n, p)   == [do |-> "dial", name |-> n, port |-> p]
Send(n)      == [do |-> "send", name |-> n]
Receive(n)   == [do |-> "receive", name |-> n]
Key          == [do |-> "key"]
Reset        == [do |-> "reset"]
Psi          == [do |-> "psi"]
Accumulate   == [do |-> "accumulate"]
PrintTotals  == [do |-> "print"]

\* context.port, and the ports that main adds to it or names itself.
Port == 7777

\* EstablishConnection, io, io2, send_test, ioArr; psi_ca_sender, which waits for
\* nbins and then for a key; AccumulateCommunicationPSI, which sends first.
ServerScript ==
    << Key, Listen("sock", Port),
       Listen("io", 8080), Dial("io2", 8081), Dial("test", 8085), Send("test"),
       Listen("arr0", Port + 1), Listen("arr1", Port + 2), Listen("arr2", Port + 3),
       Reset, Receive("io"), Key, Psi,
       Accumulate, Send("sock"), Receive("sock"), PrintTotals >>

\* Variants that are no part of the model: the client listens for io2 before it dials
\* io; two streams of the circuit are taken for each other.
ClientScriptListenFirst ==
    << Key, Dial("sock", Port),
       Listen("io2", 8081), Dial("io", 8080), Listen("test", 8085), Receive("test"),
       Dial("arr0", Port + 1), Dial("arr1", Port + 2), Dial("arr2", Port + 3),
       Reset, Send("io"), Key, Psi,
       Accumulate, Receive("sock"), Send("sock"), PrintTotals >>
ClientScriptCrossed ==
    << Key, Dial("sock", Port),
       Dial("io", 8080), Listen("io2", 8081), Listen("test", 8085), Receive("test"),
       Dial("arr1", Port + 1), Dial("arr0", Port + 2), Dial("arr2", Port + 3),
       Reset, Send("io"), Key, Psi,
       Accumulate, Receive("sock"), Send("sock"), PrintTotals >>

\* The same of the other side, which receives first.
ClientScript ==
    << Key, Dial("sock", Port),
       Dial("io", 8080), Listen("io2", 8081), Listen("test", 8085), Receive("test"),
       Dial("arr0", Port + 1), Dial("arr1", Port + 2), Dial("arr2", Port + 3),
       Reset, Send("io"), Key, Psi,
       Accumulate, Receive("sock"), Send("sock"), PrintTotals >>

Script(r) == IF r = SERVER THEN ServerScript ELSE ClientScript

-----------------------------------------------------------------------------

VARIABLES
    pc,            \* pc[r]: the step that r is at; 0 when it has aborted
    listening,     \* the ports that somebody listens on
    backlog,       \* the ports with a client waiting to be accepted
    link,          \* link[r][n]: the port over which r's n is connected, or None
    tries,         \* failed attempts of the client at sock
    terminal,      \* characters of the line typed and not yet read
    chars,         \* chars[r]: what r's stdin has read and getchar() not yet returned
    messages,      \* messages[n][r]: what is on its way to r over n
    counter,       \* counter[r][n]: bytes that r sent over n
    start,         \* start[r]: sci_io_start
    sentSCI,       \* sentSCI[r]: sentBytesSCI
    recvSCI,       \* recvSCI[r]: recvBytesSCI
    printed        \* printed[r]: the totals, or None

network == <<listening, backlog, link, tries>>
keys    == <<terminal, chars>>
totals  == <<counter, start, sentSCI, recvSCI, printed>>
setupVars == <<pc, network, keys, messages, totals>>

SetupInit ==
    /\ pc = [r \in Roles |-> 1]
    /\ listening = {} /\ backlog = {} /\ tries = 0
    /\ link = [r \in Roles |-> [n \in Names |-> None]]
    /\ terminal = 0 /\ chars = [r \in Roles |-> 0]
    /\ messages = [n \in Names |-> [r \in Roles |-> <<>>]]
    /\ counter = [r \in Roles |-> [n \in Counted |-> 0]]
    /\ start = counter
    /\ sentSCI = [r \in Roles |-> 0] /\ recvSCI = [r \in Roles |-> 0]
    /\ printed = [r \in Roles |-> None]

Done(r)   == pc[r] > Len(Script(r))
At(r, do) == pc[r] \in DOMAIN Script(r) /\ Script(r)[pc[r]].do = do
Step(r)   == Script(r)[pc[r]]
Advance(r) == pc' = [pc EXCEPT ![r] = @ + 1]

\* The user types a line when a role waits for one.
TypeLine ==
    /\ terminal = 0 /\ \E r \in Roles : At(r, "key") /\ chars[r] = 0
    /\ terminal' \in 1 .. MaxLine
    /\ UNCHANGED <<pc, network, chars, messages, totals>>

\* The line goes, as a whole, to whichever role reads first.
ReadLine(r) ==
    /\ At(r, "key") /\ chars[r] = 0 /\ terminal > 0
    /\ chars' = [chars EXCEPT ![r] = terminal]
    /\ terminal' = 0
    /\ UNCHANGED <<pc, network, messages, totals>>

GetChar(r) ==
    /\ At(r, "key") /\ chars[r] > 0
    /\ chars' = [chars EXCEPT ![r] = @ - 1]
    /\ Advance(r)
    /\ UNCHANGED <<network, terminal, messages, totals>>

\* socket, bind and listen of a server.
Bind(r) ==
    /\ At(r, "listen") /\ Step(r).port \notin listening
    /\ listening' = listening \cup {Step(r).port}
    /\ UNCHANGED <<pc, backlog, link, tries, keys, messages, totals>>

\* accept of a server, which ends its constructor.
Accept(r) ==
    /\ At(r, "listen") /\ Step(r).port \in backlog
    /\ backlog' = backlog \ {Step(r).port}
    /\ link' = [link EXCEPT ![r][Step(r).name] = Step(r).port]
    /\ Advance(r)
    /\ UNCHANGED <<listening, tries, keys, messages, totals>>

\* connect of a client; it does not wait for accept.  All but that of sock are
\* repeated until they succeed.
Connect(r) ==
    /\ At(r, "dial") /\ Step(r).port \in listening \ backlog
    /\ backlog' = backlog \cup {Step(r).port}
    /\ link' = [link EXCEPT ![r][Step(r).name] = Step(r).port]
    /\ Advance(r)
    /\ UNCHANGED <<listening, tries, keys, messages, totals>>

\* An attempt at sock fails; after the last, assert(socket) ends the client.
ConnectFails(r) ==
    /\ At(r, "dial") /\ Step(r).name = "sock" /\ Step(r).port \notin listening
    /\ \/ tries < SockTries /\ tries' = tries + 1 /\ UNCHANGED pc
       \/ tries = SockTries /\ pc' = [pc EXCEPT ![r] = 0] /\ UNCHANGED tries
    /\ UNCHANGED <<listening, backlog, link, keys, messages, totals>>

\* Of what is sent only the total of AccumulateCommunicationPSI matters later.
SendNext(r) ==
    /\ At(r, "send")
    /\ messages' = [messages EXCEPT ![Step(r).name][Peer(r)] = Append(@, sentSCI[r])]
    /\ Advance(r)
    /\ UNCHANGED <<network, keys, totals>>

ReceiveNext(r) ==
    /\ At(r, "receive") /\ messages[Step(r).name][r] # <<>>
    /\ messages' = [messages EXCEPT ![Step(r).name][r] = Tail(@)]
    /\ recvSCI' = IF Step(r).name = "sock"
                  THEN [recvSCI EXCEPT ![r] = Head(messages["sock"][r])] ELSE recvSCI
    /\ Advance(r)
    /\ UNCHANGED <<network, keys, counter, start, sentSCI, printed>>

\* ResetCommunication: the counters of the circuit's streams go on from where they are.
ResetCommunication(r) ==
    /\ At(r, "reset")
    /\ start' = [start EXCEPT ![r] = counter[r]]
    /\ Advance(r)
    /\ UNCHANGED <<network, keys, messages, counter, sentSCI, recvSCI, printed>>

\* psi_ca_sender and psi_ca_receiver, of which neither returns without the other.
RunPsi ==
    /\ \A r \in Roles : At(r, "psi")
    /\ \E sent \in [Roles -> [Counted -> 0 .. MaxBytes]] :
         counter' = [r \in Roles |-> [n \in Counted |-> counter[r][n] + sent[r][n]]]
    /\ pc' = [r \in Roles |-> pc[r] + 1]
    /\ UNCHANGED <<network, keys, messages, start, sentSCI, recvSCI, printed>>

\* A variant that is no part of the model: a stream is taken twice.
SciBytesTwice(r) == 2 * (counter[r]["arr0"] - start[r]["arr0"])

\* The bytes that r sent over the two streams that are counted.
SciBytes(r) == (counter[r]["arr0"] - start[r]["arr0"]) + (counter[r]["arr1"] - start[r]["arr1"])

AccumulateCommunication(r) ==
    /\ At(r, "accumulate")
    /\ sentSCI' = [sentSCI EXCEPT ![r] = SciBytes(r)]
    /\ Advance(r)
    /\ UNCHANGED <<network, keys, messages, counter, start, recvSCI, printed>>

\* PrintCommunication's sentBytes and recvBytes; the session and sock have moved nothing
\* between ResetCommunication and the sums.
ContextTotals(r) == [sent |-> sentSCI[r], recv |-> recvSCI[r]]

\* main adds the bytes of io and io2 to comm_send and comm_recv, which nobody has set,
\* and prints these with the totals of the context.
PrintCommunication(r) ==
    /\ At(r, "print")
    /\ \E comm_send, comm_recv \in Garbage :
         printed' = [printed EXCEPT ![r] =
           [sent |-> ContextTotals(r).sent + comm_send + counter[r]["io"],
            recv |-> ContextTotals(r).recv + comm_recv + counter[Peer(r)]["io"]]]
    /\ Advance(r)
    /\ UNCHANGED <<network, keys, messages, counter, start, sentSCI, recvSCI>>

SetupNext ==
    \/ TypeLine \/ RunPsi
    \/ \E r \in Roles :
         \/ ReadLine(r) \/ GetChar(r)
         \/ Bind(r) \/ Accept(r) \/ Connect(r) \/ ConnectFails(r)
         \/ SendNext(r) \/ ReceiveNext(r)
         \/ ResetCommunication(r) \/ AccumulateCommunication(r) \/ PrintCommunication(r)

\* Two running processes, and a user who types while one of them waits.  No behaviour
\* goes on for ever, so it is enough that something happens while something can.
SetupSpec == SetupInit /\ [][SetupNext]_setupVars /\ WF_setupVars(SetupNext)

-----------------------------------------------------------------------------

\* The two objects of one name are the two ends of one connection.
EndsMatch ==
    \A n \in Names : link[SERVER][n] # None /\ link[CLIENT][n] # None
                       => link[SERVER][n] = link[CLIENT][n]

\* When both roles have exchanged their totals, each has, as the bytes received by the
\* circuit, what the other sent over the two counted streams since its own reset,
\* although the two reset and sum at different times.
SciTotalsAgree ==
    (\A r \in Roles : Done(r)) =>
      \A r \in Roles :
        recvSCI[r] = (counter[Peer(r)]["arr0"] + counter[Peer(r)]["arr1"])
                       - (start[Peer(r)]["arr0"] + start[Peer(r)]["arr1"])

\* The client has given up sock, the first connection, and the server is left in the
\* accept of it: nothing tells the server that nobody will dial.
ServerAbandoned ==
    pc[CLIENT] = 0 /\ At(SERVER, "listen") /\ Step(SERVER).name = "sock"

\* In whatever order the roles start and whoever gets the lines, they end in one of two
\* ways: both get to their end, or the client has given up sock and the server waits
\* there for ever.  Nowhere else does one wait for ever for the other to listen, to dial
\* or to send.
Settles == <>(\A r \in Roles : Done(r)) \/ <>[]ServerAbandoned

\* The Total Sent Data that a role prints is what it sent.  (It is not: see README.)
TotalIsWhatWasSent ==
    \A r \in Roles : printed[r] # None =>
      printed[r].sent = counter[r]["io"] + counter[r]["arr0"] + counter[r]["arr1"]
                          + counter[r]["arr2"]
=============================================================================
