-------------------------------- MODULE NetIO --------------------------------
(***************************************************************************)
(* The streams between the two parties: NetIO of                           *)
(* debug_files/stream_channel.hpp ("fully buffered") and sci::NetIO of     *)
(* debug_files/net_io_channel.h ("unbuffered").                            *)
(*                                                                         *)
(* Two ends hold a conversation, a sequence of messages of which each has  *)
(* a sender and a length.  Both know it: an end sends its own messages and *)
(* receives the other's, in their order, and the stream carries nothing    *)
(* but their bytes.  Between them are, for each direction, the bytes that  *)
(* the C library holds for the writer, those under way, and those it has   *)
(* read for the reader beyond what was asked for.  The library and the     *)
(* kernel may pass on any number of bytes at a time.                       *)
(***************************************************************************)
EXTENDS Integers, Sequences, FiniteSets, FiniteSetsExt, SequencesExt

CONSTANTS
    Conversations,   \* bound: the conversations that the ends may hold
    BufferSize,      \* NETWORK_BUFFER_SIZE, the bytes that the library holds
    MaxDeaths        \* bound: ends that may die

Ends     == {0, 1}
Other(e) == 1 - e

ASSUME ConversationsAssumption ==
    \A c \in Conversations : c \in Seq([from : Ends, length : Nat \ {0}])
ASSUME SizesAssumption == BufferSize \in Nat \ {0} /\ MaxDeaths \in Nat

VARIABLES
    conversation,    \* the messages, in their order
    buffering,       \* how the stream is buffered, by setvbuf
    call,            \* call[e]: the message that e is sending or receiving
    begun,           \* begun[e]: its receive has passed the flush
    have,            \* have[e]: HAVE_SENT_LEN or HAVE_RECEIVE_LEN
    out,             \* out[e]: bytes that the library holds for e to be written
    wire,            \* wire[e]: bytes under way to e
    ahead,           \* ahead[e]: bytes that the library has read and e has not
    data,            \* data[e][i]: what e has of message i
    total,           \* total[e]: totalBytesSent and totalBytesReceived
    alive            \* the ends that have not died

progress == <<call, begun, have>>
vars == <<conversation, buffering, progress, out, wire, ahead, data, total, alive>>

Init ==
    /\ conversation \in Conversations
    /\ buffering \in {"fully buffered", "unbuffered"}
    /\ call  = [e \in Ends |-> 1]
    /\ begun = [e \in Ends |-> FALSE]
    /\ have  = [e \in Ends |-> 0]
    /\ out   = [e \in Ends |-> <<>>]
    /\ wire  = [e \in Ends |-> <<>>]
    /\ ahead = [e \in Ends |-> <<>>]
    /\ data  = [e \in Ends |-> [i \in DOMAIN conversation |-> <<>>]]
    /\ total = [e \in Ends |-> [sent |-> 0, received |-> 0]]
    /\ alive = Ends

Finished(e)  == call[e] > Len(conversation)
Sending(e)   == e \in alive /\ ~Finished(e) /\ conversation[call[e]].from = e
Receiving(e) == e \in alive /\ ~Finished(e) /\ conversation[call[e]].from # e
LEN(e)       == conversation[call[e]].length

\* Byte k of message i.
Byte(i, k) == <<i, k>>
NextBytes(e, n) == [k \in 1 .. n |-> Byte(call[e], have[e] + k)]
FirstBytes(s, n) == SubSeq(s, 1, n)
Without(s, n)    == SubSeq(s, n + 1, Len(s))

\* The call of e returns.
Returned(e) ==
    /\ call'  = [call EXCEPT ![e] = @ + 1]
    /\ begun' = [begun EXCEPT ![e] = FALSE]
    /\ have'  = [have EXCEPT ![e] = 0]

-----------------------------------------------------------------------------
(* The library                                                             *)

\* fflush.  What is written to an end that has died is lost.
Flush(e) ==
    /\ out'  = [out EXCEPT ![e] = <<>>]
    /\ wire' = IF Other(e) \in alive THEN [wire EXCEPT ![Other(e)] = @ \o out[e]] ELSE wire

\* The library writes some of what it holds before it is told to.
WriteOut(e) ==
    /\ e \in alive /\ out[e] # <<>>
    /\ \E n \in 1 .. Len(out[e]) :
         /\ out'  = [out EXCEPT ![e] = Without(@, n)]
         /\ wire' = IF Other(e) \in alive
                    THEN [wire EXCEPT ![Other(e)] = @ \o FirstBytes(out[e], n)] ELSE wire
    /\ UNCHANGED <<conversation, buffering, progress, ahead, data, total, alive>>

\* The library reads from the socket: for a buffered stream up to a buffer of bytes,
\* whatever was asked for, else no more than that.
Fill(e) ==
    /\ Receiving(e) /\ begun[e] /\ have[e] < LEN(e)
    /\ ahead[e] = <<>> /\ wire[e] # <<>>
    /\ LET most == IF buffering = "unbuffered" THEN LEN(e) - have[e] ELSE BufferSize IN
       \E n \in 1 .. Min({Len(wire[e]), most}) :
         /\ ahead' = [ahead EXCEPT ![e] = FirstBytes(wire[e], n)]
         /\ wire'  = [wire EXCEPT ![e] = Without(@, n)]
    /\ UNCHANGED <<conversation, buffering, progress, out, data, total, alive>>

-----------------------------------------------------------------------------
(* The program                                                             *)

\* fwrite in the loop of SendDataInternal and send_data takes some bytes.  To begin to
\* write, the library throws away what it has read ahead.
Write(e) ==
    /\ Sending(e) /\ have[e] < LEN(e)
    /\ \E n \in 1 .. LEN(e) - have[e] :
         /\ have' = [have EXCEPT ![e] = @ + n]
         /\ IF buffering = "unbuffered"
            THEN /\ wire' = IF Other(e) \in alive
                            THEN [wire EXCEPT ![Other(e)] = @ \o NextBytes(e, n)]
                            ELSE wire
                 /\ UNCHANGED out
            ELSE /\ Len(out[e]) + n <= BufferSize
                 /\ out' = [out EXCEPT ![e] = @ \o NextBytes(e, n)]
                 /\ UNCHANGED wire
    /\ ahead' = [ahead EXCEPT ![e] = <<>>]
    /\ UNCHANGED <<conversation, buffering, call, begun, data, total, alive>>

\* A variant that is no part of the model: NetIO leaves the flush to its next receive.
AfterLoopNothing(e) == UNCHANGED <<out, wire>>

\* SendDataInternal flushes; send_data leaves that to the next receive.
AfterLoop(e) ==
    IF buffering = "fully buffered" THEN Flush(e) ELSE UNCHANGED <<out, wire>>

FinishSend(e) ==
    /\ Sending(e) /\ have[e] = LEN(e)
    /\ AfterLoop(e)
    /\ total' = [total EXCEPT ![e].sent = @ + LEN(e)]
    /\ Returned(e)
    /\ UNCHANGED <<conversation, buffering, ahead, data, alive>>

\* ReceiveDataInternal starts with a flush, and so does recv_data if it has sent since the
\* last one (has_sent); its stream is unbuffered, so there is nothing to flush otherwise.
BeginReceive(e) ==
    /\ Receiving(e) /\ ~begun[e]
    /\ begun' = [begun EXCEPT ![e] = TRUE]
    /\ Flush(e)
    /\ UNCHANGED <<conversation, buffering, call, have, ahead, data, total, alive>>

\* A variant that is no part of the model: every piece goes to the start of data.
ReadAtStart(e, piece) == piece

\* Each piece goes behind what is there.
ReadBehind(e, piece) == data[e][call[e]] \o piece

\* fread in their loop returns some bytes.
Read(e) ==
    /\ Receiving(e) /\ begun[e] /\ have[e] < LEN(e) /\ ahead[e] # <<>>
    /\ LET n == Min({Len(ahead[e]), LEN(e) - have[e]}) IN
       /\ data'  = [data EXCEPT ![e][call[e]] = ReadBehind(e, FirstBytes(ahead[e], n))]
       /\ have'  = [have EXCEPT ![e] = @ + n]
       /\ ahead' = [ahead EXCEPT ![e] = Without(@, n)]
    /\ UNCHANGED <<conversation, buffering, call, begun, out, wire, total, alive>>

\* A variant that is no part of the model: a call returns with what the first fread gave.
WholeOrPart(e) == have[e] > 0

\* The condition that ends the loop.  When the other end has died and nothing is left,
\* fread returns 0 for ever and the loop goes round without a change.
Whole(e) == have[e] = LEN(e)

FinishReceive(e) ==
    /\ Receiving(e) /\ begun[e] /\ Whole(e)
    /\ total' = [total EXCEPT ![e].received = @ + LEN(e)]
    /\ Returned(e)
    /\ UNCHANGED <<conversation, buffering, out, wire, ahead, data, alive>>

\* A process is killed, or exits when it is finished; what the library holds for it is
\* written only in the second case.
Die(e) ==
    /\ e \in alive /\ Cardinality(Ends \ alive) < MaxDeaths
    /\ alive' = alive \ {e}
    /\ IF Finished(e) THEN Flush(e) ELSE out' = [out EXCEPT ![e] = <<>>] /\ UNCHANGED wire
    /\ UNCHANGED <<conversation, buffering, progress, ahead, data, total>>

\* Writing to an end that has died ends the writer, if not at its first attempt.
BrokenPipe(e) ==
    /\ Sending(e) /\ Other(e) \notin alive
    /\ alive' = alive \ {e}
    /\ UNCHANGED <<conversation, buffering, progress, out, wire, ahead, data, total>>

\* The calls of a running process, and what the library does in them.
Go(e) ==
    \/ Fill(e) \/ (WriteOut(e) /\ Len(out[e]) = BufferSize)
    \/ Write(e) \/ FinishSend(e) \/ BeginReceive(e) \/ Read(e) \/ FinishReceive(e)

Next == \E e \in Ends : Go(e) \/ WriteOut(e) \/ Die(e) \/ BrokenPipe(e)

\* Two running processes.  Nobody has to die, and the library writes of itself only
\* when its buffer is full.
Spec == Init /\ [][Next]_vars /\ \A e \in Ends : WF_vars(Go(e))

-----------------------------------------------------------------------------

\* A call that receives returns the whole message it was meant for and nothing of
\* another, in whatever pieces the bytes came and whoever died meanwhile; and
\* totalBytesReceived is how many bytes those calls returned.
ReturnsWhole ==
    \A e \in Ends :
      LET mine == {i \in DOMAIN conversation : conversation[i].from # e /\ i < call[e]} IN
      /\ \A i \in mine : data[e][i] = [k \in 1 .. conversation[i].length |-> Byte(i, k)]
      /\ total[e].received = Cardinality(UNION {{i} \X DOMAIN data[e][i] : i \in mine})

\* No end begins to write while the library holds bytes that it has read for it, though
\* a buffered stream reads as far ahead as it can: those bytes would be lost.
NoneThrownAway == \A e \in Ends : Sending(e) => ahead[e] = <<>>

\* An end that is finished may exit: whatever it has sent reaches the other, which is
\* then finished, too, unless it dies itself.
OutlivesSender == \A e \in Ends : Finished(e) ~> (Finished(Other(e)) \/ Other(e) \notin alive)
=============================================================================
