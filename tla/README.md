# A TLA+ model of Sectric

Sectric counts the triangles at one node of a graph whose neighbor lists are private.
This directory holds TLA+ modules that model the program in `src/`, the TLC
configurations that check them on small instances, and proofs, checked by TLAPS, that
some of the properties hold for every instance. `PROJECT.json` lists the runs, the lines
each definition models, the hazards, and for each property a mutant of the code that
violates it.

## The system

One query runs many processes of one program, `gcf_psi`, started by `test.py`:

```
 test.py x ──► role 1 (node x) ◄── port 8999 ── one process per neighbor of x (role 2)
    │             │  ▲
    │             │  │  io (8080), io2 (8081), sock (7777), ioArr (7778..7780), chl, 8085
    └───────► role 0 ┘
```

1. `test.py` starts role 1, then the neighbors in batches of 50, waits for each batch,
   then starts role 0.
2. A neighbor `n` solves an OKVS that maps its k-th neighbor to the k-th of `MAX_DEGREE`
   secret words of `n`, and sends it to role 1. (An OKVS is a vector of blocks that opens,
   at each of its keys, to the value given for it, and elsewhere to something random.)
3. Role 1 opens each of these OKVSs at each of x's neighbors. It gets a word of `n` at `m`
   iff `m` is in the list of `n`: two words for each triangle (x, n, m).
4. Role 0 can compute all words of all vertices, but does not know which are meant. The
   two count what they have in common: a cuckoo table (role 1) against all keys (role 0),
   an OPRF, an OKVS, an equality circuit on shared bits and one oblivious transfer per
   bin. Role 1 prints half of the count.

### Components

| Component | State | Operations | Interacts by | Hard behaviour | What makes it correct |
|---|---|---|---|---|---|
| Query driver, `test.py` | neighbors left, processes started | launch a batch, launch role 0 | `Popen`, `wait`; exit statuses ignored | batches waiting on the server and the server on batches; failed processes | role 0 is always reached; batches and server never block each other |
| OKVS collection, `triangle.h` | listening socket, one connection, `client_data_map` | connect with retry, send, accept, read, store | TCP on port 8999 | interleaved streams, partial reads, death at any point, early close | what is stored is whole and in its place; the loop ends with the last neighbor |
| Triangle sets, `triangle.h` and `main` | OKVSs, decoded rows | solve, decode, flatten, count | the collection before, the protocol after | unsigned arithmetic, order of the files | printed number = triangles at x |
| Cuckoo table, `cuckoo_hashing.cpp`, `hash_table_entry.h` | table, stash, entry in hand | insert, place, evict, give up | used by role 1 | long chains of swaps | no element lost or doubled, each where its function says, mapping ends |
| Simple table, `simple_hashing.cpp` | rows of keys per bin | insert, list by bin | used by role 0 | none: one loop | every key under every function, once |
| PSI cardinality, `circuit_psi.cpp` | two programs, two streams | send/receive steps, joint subprotocols | byte streams `io`, `io2` | what a message is follows from its order alone; stash; reads past a vector | count of common words less the stash; nobody waits for ever |
| Block arithmetic, `circuit_psi.cpp` | two 128-bit sums | add, subtract, compare | used by both roles | carries between lanes, wrap-around | the difference of the sums is the count |
| Equality circuit, `equality.h`, `functionalities.cpp` | shared bits, triples, offsets | leaf transfers, AND tree, final AND | `ioArr[0..2]`, two threads per party and the one that joins them | order of sends and receives, offsets into triples, chunks of eight, the stream reused after the join | shares of a bin differ iff the blocks are equal; a triple masks once |
| Connections and accounting, `main`, `functionalities.cpp` | sockets, keys read ahead, byte counters | establish, reset, accumulate, print | nine connections and one terminal | order of listen and connect; a client that gives up; uninitialised totals | both ends of a name are one connection; totals are totals |
| Stream channels, `stream_channel.hpp`, `net_io_channel.h` | socket, buffers of the C library, counters, times | send, receive | TCP | pieces of any size, reading ahead, flushes, end of stream | a call returns its message, whole; nothing read ahead is lost |
| VOLE OPRF, `vole_oprf.hpp` | `pp`, key | `Client1`, `Server1`, `Evaluate1` | `io` | seed and vector read in order | both evaluate the same function |
| Spinning lock, `locks.h` | count of readers, flag of the writer | acquire, try, unlock | threads | two atomics that no step reads together; failed tries | exclusion; no trace of a failed try |
| Patched ABY channel, `channel.cpp` | queues and events | - | its classes are never constructed | - | - |
| `batch_equality.h`, `run_eq`, `run_circuit_psi` | - | - | never called by `main` | - | - |
| External: Baxos, IKNP, VOLE, OTPack, TripleGenerator, PRG, CSocket | git submodules, empty in the repository | - | - | - | taken for what their callers rely on |

## The modules

**`OkvsCollection`** composes `test.py`, the neighbor processes, the kernel's queue and
`startServer`. `proc[n]` is what a neighbor process is doing; `sent[n]` counts what its
socket carries (the number, then blocks), so a socket is a prefix of the OKVS.
`LaunchBatch`/`LaunchRole0` are `test.py`; `Solve`, `Connect`, `Send`, `Exit`, `Refused`
are `neighbor` and `sendMessage`; `Listen`, `Accept`, `ReadId`, `ReadMore`, `Store` are
`startServer`, one action per system call that can interleave with another process.
`Die` and `Fail` end a process at any step; a process that died is in `dead`. The read
of the number is unchecked in the code, so on a connection that ended before sending one
`ReadId` chooses any number, and `Store` puts an empty entry under it. What that can do is
bounded by `EntriesWhole` and `NoEntryReplaced`, which hold with deaths: such an entry is
empty, and it is the only kind that replaces another or is replaced. The loop is never left
early on its account (`CollectedIsComplete`): a neighbor connects once and gives at most one
entry. Streams are read in whole blocks (`ReadMore`). `MCOkvsCollection` gives the neighbor
lists for TLC, and `Collection` is the abstract promise: each sender's OKVS once, whole, in
any order.

**`TriangleCount`** is the query end to end: neighbor files to printed number. A word is
the pair `<<n, k>>`; `NumAdd` is the unsigned subtraction of `neighbor`; `Row` is a
decoded row; `SenderWords` is role 0's set. How the OKVSs arrive is `OkvsCollection`'s
subject and how the sets are counted is `PsiCardinality`'s: `Count` uses what these
promise, the common words less some that the stash lost.

**`CuckooHashing`** is `CuckooTable`: `Insert`, and `MapElementsToTable` as one action per
swap (`PlaceNext` for the outer loop, `Remap` for the inner one, `GiveUp` for the limiter,
`Finish`). The hash functions are arbitrary (`lut`). **`HashPlacement`** is what its users
are promised: some placement with each element in one place, in one step.

**`PsiCardinality`** is `psi_ca_receiver` and `psi_ca_sender`: an action per stretch of code
between two communications, `io` and `io2` as FIFO sequences of messages with their kind.
A read takes whatever is next; `misread` records that it was not what the reader expects.
It uses `HashPlacement` for the cuckoo table, which `CuckooHashing` is shown to implement.
`SimpleTable` is the insertion loop of the sender's table, and `Pairs` the flattening of its
rows next to the blocks `t[i]`, position by position, as `send_baxos` gets them. The OPRF
and the random words `t[b]` are symbolic. `Equality` and `Transfer` are the two
subprotocols, one joint step each; the random shares and blocks are nondeterministic.
VOLE's own messages within the OPRF are not shown. **`IntersectionCount`** is the
functionality: the number of words in both sets, less those that found no place.

**`EqualityCircuit`** is `perform_block_equality`, `perform_equality` with its two threads and
the thread that joins them, at both parties. `LeafOTs` and the two triple steps are joint
steps of external libraries; every `send_data` and `recv_data` of an AND is an action
(`SendShare`, `ReceiveShare`, in the order of `Ops`), on streams that hold `Room` messages.
The arrays are indexed as in the code (`LeftAt`, `RightAt`, `base` for `triple_count`).
`masking` is a history variable: how often each triple was used. **`SharedEquality`** is the
promise: each party gets a vector of bits, and the two differ where the blocks are equal.
`MCEqualityCircuit` gives TLC the words, masks and triples.

**`BlockArithmetic`** is `unsigned_lessthan` instruction by instruction, `add_with_carry`,
`sub_with_borrow`, and the two accumulating loops that use them.

**`ConnectionSetup`** is `main` of roles 0 and 1 from the first `getchar()` to the printed
totals: each role is a script of steps, one action per kind of step (`Bind`, `Accept`,
`Connect`, `ConnectFails`, `SendNext`, ...). The terminal is shared: `ReadLine` gives the whole
line to one role, which keeps what its `getchar()` has not returned. `comm_send` and
`comm_recv` start from any value of `Garbage`, because the code does not set them. (Its
definitions are `SetupInit`, `SetupNext`, `Peer`, ... so that one module of proofs can be
about it and `NetIO` together.)

**`NetIO`** is the send and receive loops of `NetIO` ("fully buffered") and `sci::NetIO`
("unbuffered"), with the C library between them and the kernel: bytes held to be written
(`out`), bytes under way (`wire`), bytes read ahead (`ahead`). `Write`, `Read`, `FinishSend`,
`BeginReceive` and `FinishReceive` are the loops; `WriteOut`, `Fill` and `Flush` the library;
`Die` and `BrokenPipe` the end of a process. `MCNetIO` gives the conversations for TLC.

**`ReadWriteLock`** is the spinning locker of `locks.h`, an action per operation on one of
its two atomics. **`SharedLock`** is a lock as a user sees it: readers, or one writer. The
atomics are taken to be sequentially consistent, which holds for the read-modify-write
instructions of the x86-64 that the program needs for its `__m128i`; under a weaker memory
the code's acquire and release orders would not suffice.

`CuckooHashing_proofs`, `OkvsCollection_proofs`, `TriangleCount_proofs`,
`BlockArithmetic_proofs`, `PsiCardinality_proofs`, `EqualityCircuit_proofs` and
`ReadWriteLock_proofs` hold the theorems of their modules, and `Streams_proofs` those of
both `ConnectionSetup` and `NetIO`.

How they fit: `OkvsCollection` => `Collection` (refinement), `CuckooHashing` =>
`HashPlacement` (refinement), `PsiCardinality` uses `HashPlacement` and =>
`IntersectionCount` (refinement), `EqualityCircuit` => `SharedEquality` (refinement), which is
what the step `Equality` of `PsiCardinality` does; `BlockArithmetic` justifies `% Modulus` in
`PsiCardinality`, `NetIO` its FIFO streams, `ConnectionSetup` that there are streams;
`TriangleCount` stands on `Collection` and `IntersectionCount`; `ReadWriteLock` =>
`SharedLock` (refinement).

## The runs

| Run | Instance | Shows |
|---|---|---|
| `cuckoo` | 3 words, 2 bins, 3 functions, limiter 2, up to 3 elements, equal ones too; all hash functions | `EachElementOnce`, `PlacedWhereHashed`, `WorkBound`, `OccupiedStays`, termination, refinement of `HashPlacement` |
| `okvs_faults` | 4 neighbors, batches of 2, a queue of one connection, OKVS of 2 blocks, up to 2 deaths | an entry is what its sender sent, under its own number if that came; no entry is replaced by or replaces another that had its number; the loop is left only when every neighbor was served; `test.py` gets to role 0 whichever neighbors die |
| `okvs_live` | 4 neighbors, batches of 3, queue of two, no deaths | the collection ends and refines `Collection` |
| `okvs_isolated` | no neighbors | **violated**: see Findings |
| `psi` | 2 words and a random one, 2 bins, 2 functions, sums modulo 4, random blocks 0 and 3 | shares mark the common words, each bin counts its match, streams are read as they were written and emptied, both end, refinement of `IntersectionCount` |
| `blocks` | dwords of 2 bits, all 256 values of the sums, up to 20 payloads | the difference of the sums is the count in all lanes; the comparison is right |
| `triangles` | every graph on 4 vertices, every order of the files, `MAX_DEGREE` 2 and 3, up to 2 lost words | the printed number is the number of triangles, each triangle gives two words, and a list longer than `MAX_DEGREE` gives no result, never a wrong one |
| `equality` | 2 blocks of two 14-bit words, bytes of 2 comparisons, digits of 3 bits, streams that hold nothing | in every interleaving of the six threads the tree computes the equality of the digits it has joined, no triple masks twice, both calls return, refinement of `SharedEquality` |
| `rwlock` | 3 threads, each reader or writer, acquiring or trying, as often as it likes | exclusion, atomics true to the threads, a flagged writer gets through unless tries of readers fail for ever, refinement of `SharedLock` |
| `connections` | lines of 1 or 2 characters, 2 failed tries at `sock`, at most one byte per connection | the ends of a name meet, the exchanged totals agree, both roles get to their end, or the client gives up at `sock` and the server waits in its `accept` for ever |
| `totals` | the same, and an uninitialised integer that is 0 or 1 | **violated**: see Findings |
| `netio` | all orders of 3 messages of 1 or 3 bytes, a buffer of 2 bytes, one death, both kinds of buffering | calls return whole messages, nothing read ahead is thrown away, what a finished end has sent arrives |

The bounds. *Cuckoo*: with two bins three elements cannot all be placed, so chains reach
the limiter, the stash fills and functions wrap around; the effects of a swap are local to
one bin and the hand. *Collection*: four neighbors make two batches, overflow the queue,
and leave one process waiting while others are served, queued and reading; an OKVS of two
blocks can be cut before, between and after its blocks. *PSI*: two bins hold a match, a
mismatch and an empty bin at once, and the words can collide under both functions, so that
the stash is used; the modulus is larger than the number of bins, as 2^128 is, and random
blocks of 3 wrap the sums around. *Equality*: five digits give a tree of three levels in which
some digits have no partner, and the last digit is shorter; two threads with two
comparisons each and the last AND use all three streams; the words differ in the first, an
inner, or the last digit, or not at all, at both halves of a block. *Lock*: three threads are
a reader, a writer and one that comes between them; more only repeat these roles, and the
proofs are for any number. *Connections*: two failed tries are a retry and the one before
the last; a line of two characters leaves a key for the second `getchar()`. *NetIO*: three
messages are an answer, and two in a row of one sender; three bytes do not fit the buffer of
two and one does. *Blocks*: the count passes a full lane (16), so carries
cross it. *Triangles*: four vertices give X up to three neighbors joined in all ways, which
is every way two rows and columns relate.

`CHECK_DEADLOCK FALSE` is in every configuration but that of the lock, because each program
ends; the lock's threads call again and again, and TLC checks that they are never all stuck.

### Fairness

`CuckooHashing` and `TriangleCount` are loops of a running process: weak fairness of the
loop. In `OkvsCollection` each process is scheduled by the operating system, so each has
weak fairness of its own; `Connect` needs no more, since once the server listens and the
queue has room for a neighbor it stays enabled or the server takes another connection,
and there are finitely many. Deaths are never fair: nothing makes them happen. In
`PsiCardinality` each party and each joint subprotocol has weak fairness; the keys the two
`getchar()` wait for are assumed to be pressed. In `EqualityCircuit` and `ConnectionSetup`
every step brings some thread nearer to its end, so no behaviour goes on for ever and weak
fairness of `Next` says only that the machine does not stop while somebody can go on (in
`ConnectionSetup` the user is part of it). In `ReadWriteLock` each thread is scheduled and a
holder unlocks in the end, but nobody has to call. That is not enough for a writer that has
raised its flag when readers go on trying: each is counted until it has backed out, so the
writer may never see the count at zero. The model has no bound on tries, and
`FlaggedWriterSettles` leaves that case out by name (`TriesFailForever`); without it TLC finds
the starved writer. The readers that acquire cannot do this, because each waits for the flag
after it has backed out once. In `NetIO` the program's calls are fair;
the library writes of itself only when its buffer is full, so that a forgotten flush shows;
deaths are never fair. `BlockArithmetic` has no liveness.

### Findings

* `okvs_isolated`: `startServer` tests the size of its map only after serving a connection
  (`triangle.h:222`). With no neighbors nobody connects, and role 1 waits for ever, although
  README.md:34 promises a result. The data that comes with the repository has no isolated
  node.
* `totals`: the total of sent data that `main` prints is not what was sent, for two reasons.
  `comm_send` and `comm_recv` are declared without a value (`circuit_psi.cpp:815`) and only
  added to, so the printed total starts from whatever was on the stack; and
  `AccumulateCommunicationPSI` sums the counters of `ioArr[0]` and `ioArr[1]` but not of
  `ioArr[2]` (`functionalities.cpp:688`), over which the triples of the last AND are made. The
  trace of the run shows the first; with `Garbage = {0}` the property is violated just the
  same, by the second.

## What is proved

All theorems hold for every value of the constants that meets the named assumptions of the
module (natural numbers that are positive where a size is; `Empty` and `None` unlike what
they are compared with; the neighbor list without repetitions and without x itself).

* **`CuckooHashing_proofs`**. `ShapeInvariant` (types, and entries only of elements taken up)
  is the base: without the second part an address could be asked for an element that is not
  there. On it stand `EachElementOnceInvariant` (a swap exchanges the hand with one bin, so
  "in one of table, stash, hand" and "in no two" are kept together; neither is inductive
  without the other part about the hand), `PlacedWhereHashedInvariant`, the action property
  `OccupiedStaysAlways`, and `WorkBoundInvariant`, whose invariant relates the counter to the
  chain in progress.
* **`OkvsCollection_proofs`**. The inductive invariant `IInv` adds to the types and to
  `EntriesWhole`: a process that exited without dying had sent everything
  (`ExitedAfterSending`); only a listening server has a connection (`ServesWhileListening`;
  otherwise a refused process could be mistaken for a finished one); the number read is the
  sender's, unless it ended before it sent the number, and no more blocks are read than sent
  (`ReadsWhatWasSent`); the loop is left with as many entries as neighbors (`LeftWithAll`);
  processes not yet started, the queue, the connection and the owners of entries are
  disjoint, so none is served twice (`ConnectsOnce`). From it `EntriesWholeInvariant`.
  Entries have different owners, so as many entries as neighbors are one of each: that is
  `CollectedIsCompleteInvariant`. An entry that is replaced has another owner than the
  connection, and two owners under one number are not both its: `NoEntryReplacedAlways`. All
  three hold however many processes die.

* **`TriangleCount_proofs`**. The invariant says that the decoded set is a whole number of
  rows, each as `Row` gives it from OKVSs that are complete. A word names its vertex, and
  determines the neighbor it stands for, because the k-th word goes to one neighbor: that is
  `NoWordTwiceInvariant` and `TwoWordsPerTriangleInvariant`. `PrintedIsTrianglesInvariant`
  counts with a bijection between the common words and the ordered pairs of joined
  neighbors, and another between these and two copies of the triangles.
  `OnlyFromWholeListsInvariant` is the arithmetic of `NumAdd`: a negative difference wraps to
  more than `MAX_DEGREE`.
* **`BlockArithmetic_proofs`**. Flipping the top bit turns the unsigned order of dwords into
  the signed one (`ComparesLanesInvariant`); a lane that came out smaller than a summand has
  lost one radix, which is the carry; so `add_with_carry` adds modulo the radix of a block and
  `sub_with_borrow` subtracts. The invariant is that the two sums differ by the count modulo
  that radix. It holds for dwords of any even radix, 2^32 included.
* **`PsiCardinality_proofs`**. Where the parties are determines what is on the streams
  (`StreamsAsExpected`), hence `ReadsMatchInvariant`. The rows of the simple table hold exactly
  the keys of the sender's words (`RowsHoldKeys`, induction over the insertions), and the
  flattened keys and blocks stay side by side (`PairsAreKeys`), so the receiver opens `b` at
  bin b iff the word there is the sender's: `SharesMarkCommonInvariant`. The blocks of the two
  sums are equal, modulo the modulus, but for one more per match (`SumsOfMessages`, induction
  over the bins): `EachBinCountsItsMatchInvariant`. Matching bins and placed common words are
  in bijection, so each step is one of `IntersectionCount` or none (`CountImplemented`).
* **`EqualityCircuit_proofs`**. `TripleMasksOnceInvariant`: the marked triples of a thread are
  the first `(D - Parts(level)) * NumBins`, and those of the level's ANDs once `e` is sent,
  where `Parts(i)` is how many digits the level of distance i still has. For
  `SharesOfDigitsInvariant` the two sides of a thread are always at one of six stages
  (`Stage`): the one that sends first may have joined its shares and sent of the next level
  while the other still joins, or the other way round, and what is on its way is part of the
  stage (`Channel`). `LevelJoins` is the algebra: shares of two bits, masked by a triple that
  fits and opened, become shares of their AND. Neither property is inductive without the
  stages, since it says nothing of the levels at which the sides differ. For
  `SharedEqualityImplemented`, `LastInv` adds what finished threads left in `res_shares`
  (`Collected`) and the transfers of the last AND (`LastTransfers`): it reuses the stream of the
  first thread, and what is on its way there is the last AND's once ALICE's first thread is
  done, because nothing of the last AND is sent or received before (`AliceIsDone`).
  `WordsAssumption` says that words which differ do so in some digit. It holds of words of
  `L` bits; it is an assumption because the provers know nothing of powers, and TLC evaluates
  it for the words of the run.
* **`ReadWriteLock_proofs`**. `IInv` is the types, `AtomicsTrueToHolders` and `Exclusion`.
  Exclusion is not inductive: that a reader who saw no flag excludes a writer who saw no
  readers needs the count to be the number of announced readers. `LockImplements` is the whole
  refinement, because `SharedLock` states no fairness.
* **Steps of refinements**. `MappingPlaces`: mapping a cuckoo table is a step of
  `HashPlacement` or none. `CollectionImplemented`: while nobody died, every step of the
  collection is one of `Collection` or none. `CountImplemented` and
  `SharedEqualityImplemented`: the same of whole behaviors of the protocol and of the circuit,
  but for the fairness.
* **`Streams_proofs`**, about `ConnectionSetup`. `SetupInv` says that each role is at a known
  place of its script (`Places`), so that whatever is connected was connected under the port
  of its name: `EndsMatchInvariant`. That the totals agree is not inductive, because it says
  nothing before the second sum has come; `SumFlow` follows each sum from the place where it
  is sent, over `sock`, to the place where it is received, which is the other role's place
  15 or 16, and says that nothing is counted between the reset and the sum that is not in
  both. `SciTotalsAgreeInvariant` follows for any number of bytes, any `SockTries` and any
  lines at the terminal.
* **`Streams_proofs`**, about `NetIO`. `ReturnsWhole` is not inductive: a call returns what was
  read ahead before, so the invariant has to say what every byte between the two ends is. A
  place on a stream is a number of bytes of the writer (`Rank`); `Queue` is what is read
  ahead, under way and held back, end to end; `Channel` says that it is, byte by byte, the
  bytes from the reader's place to the writer's, and that it stops early only if somebody
  died. `NothingAhead` is the argument that `fwrite` after `fread` loses nothing: when an end
  begins to write message m, the writer of what it reads has not passed m, because it cannot
  receive m before that is written; so `Queue` is empty, and so is what was read ahead. It
  needs no assumption about how often the direction changes: `ConversationsAssumption` only
  says that a conversation is a sequence of messages of a positive number of bytes.
* **Nobody waits for ever.** Liveness is beyond the prover, but most of its content is not:
  that no reachable state is stuck, and that no run is infinite. Both are safety. As ENABLED
  is out of reach too, the first is stated with the guards of the steps written out
  (`SomebodyGoes`, `CanGo`, ...).
  `Role0NotBlockedInvariant`: until `test.py` has come to role 0 somebody can go on,
  whichever neighbor processes die, unless role 1's process does; a process waits for the
  queue only while the server can take from it, and when the server has left its loop no
  process is left that would still connect. `CollectionNotBlockedInvariant`: with nobody dead
  and at least one neighbor the collection comes to its end; the hypothesis on the neighbors is exactly what
  `okvs_isolated` finds missing. They need `WaitInv`: a neighbor that has connected is in the
  queue, being read, or stored, and the server stops listening only with the last.
  `NeitherBlockedInvariant`: of the two parties of the protocol one can always go on, or both
  to the same subprotocol; it needs that a placement exists for all words and functions
  (`PlacementExists`) and that there are blocks to hide any payloads (`PayloadsExist`).
  `SomeCallGoesOnInvariant`: of the two ends of a stream one can write or has something to
  read, unless it is held in a buffer that will be written out.
  `SomeRoleGoesInvariant`: of the two roles that open their connections the one behind in its
  script can go on, or the other can at the same place, because the scripts are mirror images
  (`Mirror`): where one listens the other dials that port, where one receives the other
  sends. It needs `Opening`, which ties the port's listener, its backlog and the places of
  both roles together, and that sent messages wait (`MessageWaits`).
  `NoneBlockedInvariant`: in the circuit some thread can go on until both calls have
  returned. The stages say which side of a thread is behind, and of two sides at one AND one
  can send, receive or finish however little the stream takes, so ALICE sending first and BOB
  receiving first never wait for each other; a main thread that waits for its threads waits
  for one of these. It holds for any number of blocks and any capacity of the streams.
  The second half is `LessAndLessToDo`, `StepsRunOut`, `WorkRunsOut`, `SetupWorkRunsOut` and
  `CircuitWorkRunsOut`: what is left to be done (a finite set that shrinks, a natural number
  that decreases) is less after every step, deaths and failed attempts included. Together they
  say that a system that does not stand still while it can go on reaches its end; the step
  from here to `Completes`, `Role0Starts`, `BothFinish`, `Settles` and `BothReturn` is the
  fairness alone, and TLC checks these with it.
* **Induction** (a section of `PsiCardinality_proofs`). Induction is done with sets: a set of
  numbers with 0 and with each number the next is all of them, since otherwise it would miss
  a least one; likewise for the subsets of a finite set. From this come the sum over a finite
  set, the flattening of a sequence of sequences, and that `SetToSeq` lists each element once.
  (The induction theorems of the library take an operator as a parameter, which the provers
  cannot instantiate.)

Only model-checked: all liveness properties (`EventuallyMapped`, `Completes`, `Role0Starts`,
`BothFinish`, `EventuallyPrinted`, `BothReturn`, `FlaggedWriterSettles`, `Settles`,
`OutlivesSender`) and the fairness within the refinements; liveness and ENABLED are beyond
the prover. Every safety property of the passing runs is proved.

## Not modelled

Formatting, logging and timing; the cryptographic strength of anything (the model is about
results, with parties that follow the code); the contents of an OKVS beyond what it opens
to; collisions of random words or of the 64-bit hash of a block (`low ^ high`), which the
code accepts as improbable; an element equal to `DUMMY_ELEMENT`, for the same reason; a
repeated number in a neighbor file. And:

* A stream cut inside a block: `startServer` sizes its vector by the whole blocks received
  and copies all bytes received into it (`triangle.h:204-206`), which is undefined behaviour
  when a sender dies in the middle of a block. The streams of the model are cut between blocks.

* `batch_equality.h`, `run_eq`, `run_circuit_psi` and what only they use, and the classes of
  `channel.cpp`: no call from `main` leads there.
* The algebra of the VOLE OPRF, the libOTe session, Baxos, IKNP and the triple generator:
  submodules that are not in the repository. The models use what their callers rely on.
* `otpackArr[2]` (`functionalities.cpp:88`) is written beyond its end: undefined behaviour of
  the stack layout. The third pointer is taken to survive.
* Time statistics, among them `recv_time_with_wait`, which is overwritten where its neighbor
  is added up; `PrintTimings`; the conversions of points, integers and strings that only call
  the send and receive loops.
* The branch of `locks.h` that forwards to `std::shared_mutex`.

## Plan

Order of further work:

1. `VoleOprf`: Client1/Server1/Evaluate1 over a small field, showing that masks agree on
   equal keys.
2. The time statistics of the channels, if they are ever used for more than printing.
