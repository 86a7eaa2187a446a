----------------------- MODULE OkvsCollection_proofs -----------------------
(***************************************************************************)
(* For every neighbor list, batch size, backlog and OKVS size, and however *)
(* many processes die: what the role 1 process stores is what its sender   *)
(* sent, whole and under its own number if the sender lives, and when the  *)
(* loop is left every neighbor was served.                                 *)
(*                                                                         *)
(* The argument: while the server listens, a process that exited without   *)
(* dying has sent everything, so at the end of its stream the server holds *)
(* Size blocks; and its number was there to be read.  Each neighbor        *)
(* connects once and is stored once, so as many entries as neighbors are   *)
(* an entry of each.                                                       *)
(*                                                                         *)
(* Second, that nobody waits for ever for one who waits for him: in every  *)
(* state somebody can go on, and what is left to be done only shrinks.     *)
(***************************************************************************)
EXTENDS OkvsCollection, FiniteSetTheorems, SequenceTheorems, TLAPS

\* A process that ended while the server was there, and did not die, sent everything.
ExitedAfterSending ==
    \A n \in Senders :
      proc[n] = "exited" /\ n \notin dead /\ server \notin {"collected", "failed"} =>
        sent[n] = 1 + Size

\* Only a listening server has a connection.
ServesWhileListening == conn # None => Listening

\* The number read is that of the sender unless it ended before it sent the number, and
\* no block is read that was not sent.
ReadsWhatWasSent ==
    /\ conn # None /\ clientId # None =>
         clientId = conn \/ (sent[conn] = 0 /\ proc[conn] = "exited")
    /\ conn # None => received = 0 \/ received <= sent[conn] - 1

\* The loop is left when there are as many entries as neighbors.
LeftWithAll == server = "collected" => Cardinality(DOMAIN data) >= Len(Neighbors)

\* Every neighbor is started once, connects once and is stored once, when its process has
\* ended: the processes not yet started, the queue, the connection and the owners of the
\* entries are disjoint.
Connected == {"sending", "exited"}
ConnectsOnce ==
    /\ \A i, j \in 1 .. Len(remaining) : remaining[i] = remaining[j] => i = j
    /\ \A i \in 1 .. Len(remaining) : proc[remaining[i]] = "unborn"
    /\ \A i, j \in 1 .. Len(queue) : queue[i] = queue[j] => i = j
    /\ \A i \in 1 .. Len(queue) : proc[queue[i]] \in Connected /\ queue[i] # conn
    /\ conn # None => proc[conn] \in Connected
    /\ \A k \in DOMAIN data :
         /\ proc[data[k].owner] = "exited" /\ data[k].owner # conn
         /\ \A i \in 1 .. Len(queue) : queue[i] # data[k].owner
    /\ \A k, l \in DOMAIN data : data[k].owner = data[l].owner => k = l

IInv == TypeOK /\ ExitedAfterSending /\ ServesWhileListening /\ ConnectsOnce
               /\ ReadsWhatWasSent /\ EntriesWhole /\ LeftWithAll

\* The types hold at the start.
LEMMA TypeInit == Init => TypeOK
<1> SUFFICES ASSUME Init PROVE TypeOK
  OBVIOUS
<1>1. remaining \in Seq(Senders) /\ queue \in Seq(Senders)
  BY NeighborsAssumption DEF Init
<1>2. sent \in [Senders -> 0 .. 1 + Size] /\ received \in 0 .. Size
  BY BoundsAssumption DEF Init
<1>3. DOMAIN data = {}
  BY DEF Init
<1> QED
  BY <1>1, <1>2, <1>3 DEF Init, TypeOK

\* Batches are cut from the front of the list of neighbors.
LEMMA RestType ==
    ASSUME NEW s \in Seq(Senders), NEW m \in Nat
    PROVE  SubSeq(s, m + 1, Len(s)) \in Seq(Senders)
<1>1. \A i \in m + 1 .. Len(s) : s[i] \in Senders
  OBVIOUS
<1>2. Len(s) \in Int /\ m + 1 \in Int
  OBVIOUS
<1> QED
  BY <1>1, <1>2, SubSeqProperties

\* The next batch is a sequence of some length.
LEMMA FirstBatchLength ==
    ASSUME remaining \in Seq(Senders)
    PROVE  Len(FirstBatch) \in Nat
<1> DEFINE n == IF Len(remaining) < BatchSize THEN Len(remaining) ELSE BatchSize
<1>1. n \in Nat /\ n <= Len(remaining)
  BY BoundsAssumption
<1>2. \A i \in 1 .. n : remaining[i] \in Senders
  BY <1>1
<1>3. SubSeq(remaining, 1, n) \in Seq(Senders)
  BY <1>1, <1>2, SubSeqProperties
<1> QED
  BY <1>3 DEF FirstBatch

\* What is stored has the type of an entry, under a number that was read.
LEMMA StoredEntry ==
    ASSUME TypeOK, StoreWhatCame, StoreEntry
    PROVE  /\ DOMAIN data' = DOMAIN data \cup {clientId}
           /\ data'[clientId] = [owner |-> conn, blocks |-> received]
           /\ \A k \in DOMAIN data \ {clientId} : data'[k] = data[k]
           /\ conn \in Senders /\ clientId \in Senders \cup {X}
BY DEF TypeOK, StoreWhatCame, StoreEntry

\* Every action keeps the types.
LEMMA TypeStep == TypeOK /\ ReadsWhatWasSent /\ [Next]_vars => TypeOK'
<1> SUFFICES ASSUME TypeOK, ReadsWhatWasSent, [Next]_vars PROVE TypeOK'
  OBVIOUS
<1> USE DEF testVars, clientVars, serverVars, Listening
<1>1. CASE LaunchBatch
  <2>1. remaining' \in Seq(Senders)
    BY <1>1, RestType, FirstBatchLength DEF LaunchBatch, TypeOK
  <2>2. proc' \in [Senders -> {"unborn", "solving", "connecting", "sending", "exited"}]
    BY <1>1 DEF LaunchBatch, TypeOK
  <2> QED
    BY <1>1, <2>1, <2>2 DEF LaunchBatch, TypeOK
<1>2. CASE LaunchRole0
  BY <1>2 DEF LaunchRole0, TypeOK
<1>3. ASSUME NEW n \in Senders, Client(n) PROVE TypeOK'
  <2>1. CASE Solve(n)
    BY <2>1 DEF Solve, TypeOK
  <2>2. CASE Connect(n)
    <3>1. queue' \in Seq(Senders)
      BY <2>2 DEF Connect, TypeOK
    <3> QED
      BY <2>2, <3>1 DEF Connect, TypeOK
  <2>3. CASE Send(n)
    <3>1. sent' \in [Senders -> 0 .. 1 + Size]
      BY <2>3, BoundsAssumption DEF Send, TypeOK
    <3> QED
      BY <2>3, <3>1 DEF Send, TypeOK
  <2>4. CASE Exit(n)
    BY <2>4 DEF Exit, TypeOK
  <2>5. CASE Refused(n)
    BY <2>5 DEF Refused, TypeOK
  <2> QED
    BY <1>3, <2>1, <2>2, <2>3, <2>4, <2>5 DEF Client
<1>4. ASSUME NEW n \in Senders, Die(n) PROVE TypeOK'
  BY <1>4 DEF Die, TypeOK
<1>5. CASE Fail
  <2>1. queue' \in Seq(Senders) /\ received' \in 0 .. Size
    BY <1>5, BoundsAssumption DEF Fail
  <2> QED
    BY <1>5, <2>1 DEF Fail, TypeOK
<1>6. CASE Listen
  BY <1>6 DEF Listen, TypeOK
<1>7. CASE Accept
  <2>1. queue' \in Seq(Senders) /\ conn' \in Senders
    BY <1>7 DEF Accept, TypeOK
  <2>2. conn = None
    BY <1>7 DEF Accept
  <2> QED
    BY <1>7, <2>1, <2>2 DEF Accept, TypeOK
<1>8. CASE ReadId
  <2>1. conn # None /\ conn \in Senders /\ clientId' \in Senders \cup {X}
    BY <1>8 DEF ReadId, TypeOK
  <2> QED
    BY <1>8, <2>1 DEF ReadId, TypeOK
<1>9. CASE ReadMore
  <2>1. conn \in Senders /\ conn # None /\ sent[conn] \in 0 .. 1 + Size /\ received \in 0 .. Size
    BY <1>9 DEF ReadMore, TypeOK
  <2>2. PICK k \in 1 .. Available : received' = received + k
    BY <1>9 DEF ReadMore
  <2>3. received' \in 0 .. Size
    BY <2>1, <2>2, BoundsAssumption DEF Available
  <2> QED
    BY <1>9, <2>1, <2>3 DEF ReadMore, TypeOK
<1>10. CASE Store
  <2>1. StoreWhatCame /\ StoreEntry
    BY <1>10 DEF Store, StoreAndLeaveAt
  <2>2. /\ conn' = None /\ received' = 0 /\ clientId' = None
        /\ server' \in {"collected", server}
        /\ queue' \in {<<>>, queue}
        /\ UNCHANGED <<testVars, clientVars>>
    BY <1>10 DEF Store, StoreAndLeaveAt
  <2>3. \A k \in DOMAIN data' :
          k \in Senders \cup {X} /\ data'[k] \in [owner : Senders, blocks : 0 .. Size]
    <3> SUFFICES ASSUME NEW k \in DOMAIN data'
                 PROVE  /\ k \in Senders \cup {X}
                        /\ data'[k] \in [owner : Senders, blocks : 0 .. Size]
      OBVIOUS
    <3>1. CASE k = clientId
      BY <2>1, <3>1, StoredEntry DEF TypeOK
    <3>2. CASE k # clientId
      <4>1. k \in DOMAIN data /\ data'[k] = data[k]
        BY <2>1, <3>2, StoredEntry
      <4> QED
        BY <4>1 DEF TypeOK
    <3> QED
      BY <3>1, <3>2
  <2>4. queue' \in Seq(Senders) /\ received' \in 0 .. Size
    <3>1. <<>> \in Seq(Senders) /\ queue \in Seq(Senders)
      BY DEF TypeOK
    <3>2. queue' \in Seq(Senders)
      <4>1. queue' = <<>> \/ queue' = queue
        BY <2>2
      <4> QED
        BY <3>1, <4>1
    <3>3. 0 \in 0 .. Size
      BY BoundsAssumption
    <3> QED
      BY <2>2, <3>2, <3>3
  <2> QED
    BY <2>2, <2>3, <2>4 DEF TypeOK
<1>11. CASE UNCHANGED vars
  BY <1>11 DEF vars, TypeOK
<1> QED
  BY <1>1, <1>2, <1>3, <1>4, <1>5, <1>6, <1>7, <1>8, <1>9, <1>10, <1>11
  DEF Next, TestPy, Server

\* Cardinality facts about the neighbor list: it has as many entries as numbers.
LEMMA SendersFinite == IsFiniteSet(Senders) /\ Cardinality(Senders) = Len(Neighbors)
<1> DEFINE f == [i \in 1 .. Len(Neighbors) |-> Neighbors[i]]
<1>1. Len(Neighbors) \in Nat /\ DOMAIN Neighbors = 1 .. Len(Neighbors)
  BY NeighborsAssumption
<1>2. \A s \in Senders : \E i \in 1 .. Len(Neighbors) : f[i] = s
  BY <1>1 DEF Senders, ToSet
<1>3. f \in [1 .. Len(Neighbors) -> Senders]
  BY <1>1 DEF Senders, ToSet
<1>4. \A i, j \in 1 .. Len(Neighbors) : f[i] = f[j] => i = j
  BY <1>1, NeighborsAssumption DEF IsInjective
<1>5. f \in Bijection(1 .. Len(Neighbors), Senders)
  BY <1>2, <1>3, <1>4 DEF Bijection, Injection, Surjection, IsInjective
<1>6. ExistsBijection(1 .. Len(Neighbors), Senders)
  BY <1>5 DEF ExistsBijection
<1>7. IsFiniteSet(1 .. Len(Neighbors)) /\ Cardinality(1 .. Len(Neighbors)) = Len(Neighbors)
  <2>1. 1 \in Int /\ Len(Neighbors) \in Int
    BY <1>1
  <2>2. /\ IsFiniteSet(1 .. Len(Neighbors))
        /\ Cardinality(1 .. Len(Neighbors))
             = IF 1 > Len(Neighbors) THEN 0 ELSE Len(Neighbors) - 1 + 1
    BY <2>1, FS_Interval
  <2>3. (IF 1 > Len(Neighbors) THEN 0 ELSE Len(Neighbors) - 1 + 1) = Len(Neighbors)
    BY <1>1
  <2> QED
    BY <2>2, <2>3
<1> QED
  BY <1>6, <1>7, FS_Bijection

\* A batch is a part of the list that is not empty, and what remains is the rest.
LEMMA BatchIsCut ==
    ASSUME TypeOK, LaunchBatch
    PROVE  /\ \E i \in 1 .. Len(remaining) : remaining[i] \in ToSet(FirstBatch)
           /\ \A i \in 1 .. Len(remaining) :
                remaining[i] \in ToSet(FirstBatch)
                  \/ \E j \in 1 .. Len(remaining') : remaining'[j] = remaining[i]
           /\ \A n \in ToSet(FirstBatch) : \E i \in 1 .. Len(remaining) : remaining[i] = n
           /\ ToSet(FirstBatch) \subseteq Senders
<1> DEFINE m == IF Len(remaining) < BatchSize THEN Len(remaining) ELSE BatchSize
<1>1. /\ m \in Nat /\ m <= Len(remaining) /\ Len(remaining) \in Nat /\ 1 <= m
      /\ \A i \in 1 .. Len(remaining) : remaining[i] \in Senders
  BY BoundsAssumption DEF TypeOK, LaunchBatch
<1>2. /\ FirstBatch \in Seq(Senders) /\ Len(FirstBatch) = m
      /\ \A i \in 1 .. m : FirstBatch[i] = remaining[i]
  <2>1. \A i \in 1 .. m : remaining[i] \in Senders
    BY <1>1
  <2>2. /\ SubSeq(remaining, 1, m) \in Seq(Senders)
        /\ Len(SubSeq(remaining, 1, m)) = IF 1 <= m THEN m - 1 + 1 ELSE 0
        /\ \A i \in 1 .. m - 1 + 1 : SubSeq(remaining, 1, m)[i] = remaining[1 + i - 1]
    BY <1>1, <2>1, SubSeqProperties
  <2> HIDE DEF m
  <2>3. /\ m - 1 + 1 = m
        /\ (IF 1 <= m THEN m - 1 + 1 ELSE 0) = m
        /\ \A i \in 1 .. m : 1 + i - 1 = i
    BY <1>1
  <2> QED
    BY <2>2, <2>3 DEF FirstBatch, m
<1> HIDE DEF m
<1>3. /\ Len(remaining') = Len(remaining) - m
      /\ \A i \in 1 .. Len(remaining) - m : remaining'[i] = remaining[m + i]
  <2>1. \A i \in m + 1 .. Len(remaining) : remaining[i] \in Senders
    BY <1>1
  <2>2. /\ Len(SubSeq(remaining, m + 1, Len(remaining)))
             = IF m + 1 <= Len(remaining) THEN Len(remaining) - (m + 1) + 1 ELSE 0
        /\ \A i \in 1 .. Len(remaining) - (m + 1) + 1 :
             SubSeq(remaining, m + 1, Len(remaining))[i] = remaining[(m + 1) + i - 1]
    BY <1>1, <2>1, SubSeqProperties
  <2>3. remaining' = SubSeq(remaining, m + 1, Len(remaining))
    BY <1>2 DEF LaunchBatch
  <2>4. /\ Len(remaining) - (m + 1) + 1 = Len(remaining) - m
        /\ (IF m + 1 <= Len(remaining) THEN Len(remaining) - (m + 1) + 1 ELSE 0)
             = Len(remaining) - m
        /\ \A i \in 1 .. Len(remaining) - m : (m + 1) + i - 1 = m + i
    BY <1>1
  <2> QED
    BY <2>2, <2>3, <2>4
<1>4. ToSet(FirstBatch) = {remaining[i] : i \in 1 .. m}
  BY <1>2 DEF ToSet
<1>5. \A i \in 1 .. m : i \in 1 .. Len(remaining)
  BY <1>1
<1>6. ASSUME NEW i \in 1 .. Len(remaining), i \notin 1 .. m
      PROVE  \E j \in 1 .. Len(remaining') : remaining'[j] = remaining[i]
  <2>1. /\ i - m \in 1 .. Len(remaining) - m /\ m + (i - m) = i
    BY <1>1, <1>6
  <2> QED
    BY <1>3, <2>1
<1>7. 1 \in 1 .. m
  BY <1>1
<1> QED
  BY <1>1, <1>4, <1>5, <1>6, <1>7

\* A process moves on among the connected ones, or does not get there.
LEMMA OnceByProcess ==
    ASSUME TypeOK, ConnectsOnce, NEW n \in Senders, NEW to \in {"connecting", "exited"},
           proc[n] # "unborn", proc' = [proc EXCEPT ![n] = to],
           proc[n] \in Connected => to = "exited",
           UNCHANGED <<remaining, queue, conn, data>>
    PROVE  ConnectsOnce'
BY DEF TypeOK, ConnectsOnce, Connected

\* The batches that remain are those not started.
LEMMA OnceByBatch == TypeOK /\ ConnectsOnce /\ LaunchBatch => ConnectsOnce'
<1> SUFFICES ASSUME TypeOK, ConnectsOnce, LaunchBatch PROVE ConnectsOnce'
  OBVIOUS
<1> DEFINE m == IF Len(remaining) < BatchSize THEN Len(remaining) ELSE BatchSize
<1>1. /\ m \in Nat /\ m <= Len(remaining) /\ Len(remaining) \in Nat
      /\ \A i \in 1 .. Len(remaining) : remaining[i] \in Senders
  BY BoundsAssumption DEF TypeOK
<1>2. /\ FirstBatch \in Seq(Senders) /\ Len(FirstBatch) = m
      /\ \A i \in 1 .. m : FirstBatch[i] = remaining[i]
  <2>1. \A i \in 1 .. m : remaining[i] \in Senders
    BY <1>1
  <2>2. /\ SubSeq(remaining, 1, m) \in Seq(Senders)
        /\ Len(SubSeq(remaining, 1, m)) = IF 1 <= m THEN m - 1 + 1 ELSE 0
        /\ \A i \in 1 .. m - 1 + 1 : SubSeq(remaining, 1, m)[i] = remaining[1 + i - 1]
    BY <1>1, <2>1, SubSeqProperties
  <2> HIDE DEF m
  <2>3. /\ m - 1 + 1 = m
        /\ (IF 1 <= m THEN m - 1 + 1 ELSE 0) = m
        /\ \A i \in 1 .. m : 1 + i - 1 = i
    BY <1>1
  <2> QED
    BY <2>2, <2>3 DEF FirstBatch, m
<1> HIDE DEF m
<1>3. /\ Len(remaining') = Len(remaining) - m
      /\ \A i \in 1 .. Len(remaining) - m : remaining'[i] = remaining[m + i]
  <2>1. \A i \in m + 1 .. Len(remaining) : remaining[i] \in Senders
    BY <1>1
  <2>2. /\ Len(SubSeq(remaining, m + 1, Len(remaining)))
             = IF m + 1 <= Len(remaining) THEN Len(remaining) - (m + 1) + 1 ELSE 0
        /\ \A i \in 1 .. Len(remaining) - (m + 1) + 1 :
             SubSeq(remaining, m + 1, Len(remaining))[i] = remaining[(m + 1) + i - 1]
    BY <1>1, <2>1, SubSeqProperties
  <2>3. remaining' = SubSeq(remaining, m + 1, Len(remaining))
    BY <1>2 DEF LaunchBatch
  <2>4. /\ Len(remaining) - (m + 1) + 1 = Len(remaining) - m
        /\ (IF m + 1 <= Len(remaining) THEN Len(remaining) - (m + 1) + 1 ELSE 0)
             = Len(remaining) - m
        /\ \A i \in 1 .. Len(remaining) - m : (m + 1) + i - 1 = m + i
    BY <1>1
  <2> QED
    BY <2>2, <2>3, <2>4
<1>4. ToSet(FirstBatch) = {remaining[i] : i \in 1 .. m}
  BY <1>2 DEF ToSet
<1>5. /\ \A n \in ToSet(FirstBatch) : proc[n] = "unborn"
      /\ \A n \in Senders \ ToSet(FirstBatch) : proc'[n] = proc[n]
      /\ UNCHANGED <<queue, conn, data>>
  BY <1>1, <1>4 DEF LaunchBatch, ConnectsOnce, serverVars
<1>6. \A i \in 1 .. Len(remaining') : m + i \in 1 .. Len(remaining) /\ m + i \notin 1 .. m
  BY <1>1, <1>3
<1>7. ASSUME NEW i \in 1 .. Len(remaining')
      PROVE  remaining'[i] \in Senders \ ToSet(FirstBatch)
  <2>1. /\ m + i \in 1 .. Len(remaining) /\ m + i \notin 1 .. m
        /\ remaining'[i] = remaining[m + i]
    BY <1>1, <1>3, <1>6
  <2>2. \A j \in 1 .. m : j \in 1 .. Len(remaining)
    BY <1>1
  <2>3. \A j \in 1 .. m : remaining[j] # remaining[m + i]
    BY <2>1, <2>2 DEF ConnectsOnce
  <2> QED
    BY <1>1, <1>4, <2>1, <2>3
<1>8. ASSUME NEW i \in 1 .. Len(remaining')
      PROVE  proc'[remaining'[i]] = "unborn"
  <2>1. /\ m + i \in 1 .. Len(remaining)
        /\ remaining'[i] = remaining[m + i]
    BY <1>1, <1>3, <1>6
  <2>2. proc[remaining[m + i]] = "unborn"
    BY <2>1 DEF ConnectsOnce
  <2> QED
    BY <1>5, <1>7, <2>1, <2>2
<1>9. \A i, j \in 1 .. Len(remaining') : remaining'[i] = remaining'[j] => i = j
  <2> SUFFICES ASSUME NEW i \in 1 .. Len(remaining'), NEW j \in 1 .. Len(remaining'),
                      remaining'[i] = remaining'[j]
               PROVE  i = j
    OBVIOUS
  <2>1. m + i = m + j
    BY <1>3, <1>6 DEF ConnectsOnce
  <2> QED
    BY <1>1, <2>1
<1>10. \A n \in Senders : proc[n] \in Connected => proc'[n] \in Connected
  <2> SUFFICES ASSUME NEW n \in Senders, proc[n] \in Connected
               PROVE  proc'[n] \in Connected
    OBVIOUS
  <2>1. n \notin ToSet(FirstBatch)
    BY <1>5 DEF Connected
  <2> QED
    BY <1>5, <2>1
<1>11. ASSUME NEW i \in 1 .. Len(queue)
       PROVE  proc'[queue[i]] \in Connected
  <2>1. queue[i] \in Senders /\ proc[queue[i]] \in Connected
    BY <1>11 DEF TypeOK, ConnectsOnce
  <2> QED
    BY <1>10, <2>1
<1>12. conn # None => proc'[conn] \in Connected
  BY <1>10 DEF TypeOK, ConnectsOnce
<1>13. ASSUME NEW k \in DOMAIN data
       PROVE  proc'[data[k].owner] = "exited"
  <2>1. data[k].owner \in Senders /\ proc[data[k].owner] = "exited"
    BY <1>13 DEF TypeOK, ConnectsOnce
  <2>2. data[k].owner \notin ToSet(FirstBatch)
    BY <1>5, <2>1
  <2> QED
    BY <1>5, <2>1, <2>2
<1>14. /\ \A i, j \in 1 .. Len(queue) : queue[i] = queue[j] => i = j
       /\ \A i \in 1 .. Len(queue) : queue[i] # conn
       /\ \A k \in DOMAIN data : /\ data[k].owner # conn
                               /\ \A i \in 1 .. Len(queue) : queue[i] # data[k].owner
       /\ \A k, l \in DOMAIN data : data[k].owner = data[l].owner => k = l
  BY DEF ConnectsOnce
<1> QED
  BY <1>5, <1>8, <1>9, <1>11, <1>12, <1>13, <1>14 DEF ConnectsOnce

\* Every action keeps the neighbors apart.
LEMMA OnceStep == TypeOK /\ ConnectsOnce /\ [Next]_vars => ConnectsOnce'
<1> SUFFICES ASSUME TypeOK, ConnectsOnce, [Next]_vars PROVE ConnectsOnce'
  OBVIOUS
<1> USE DEF testVars, clientVars, serverVars
<1>1. CASE TestPy
  BY <1>1, OnceByBatch DEF TestPy, LaunchRole0, ConnectsOnce
<1>2. ASSUME NEW n \in Senders, Client(n) \/ Die(n) PROVE ConnectsOnce'
  <2>1. CASE Solve(n) \/ Exit(n) \/ Refused(n) \/ Die(n)
    <3>1. PICK to \in {"connecting", "exited"} : proc' = [proc EXCEPT ![n] = to]
      BY <2>1 DEF Solve, Exit, Refused, Die
    <3>2. /\ proc[n] # "unborn" /\ UNCHANGED <<remaining, queue, conn, data>>
          /\ proc[n] \in Connected => proc'[n] = "exited"
      BY <2>1 DEF Solve, Exit, Refused, Die, Running, Connected, TypeOK
    <3>3. proc'[n] = to
      BY <3>1 DEF TypeOK
    <3> QED
      BY <3>1, <3>2, <3>3, OnceByProcess
  <2>2. CASE Connect(n)
    <3>1. /\ proc[n] = "connecting" /\ proc' = [proc EXCEPT ![n] = "sending"]
          /\ queue' = Append(queue, n) /\ UNCHANGED <<remaining, conn, data>>
      BY <2>2 DEF Connect
    <3>2. /\ Len(queue') = Len(queue) + 1 /\ Len(queue) \in Nat
          /\ queue'[Len(queue) + 1] = n
          /\ \A i \in 1 .. Len(queue) : queue'[i] = queue[i] /\ queue[i] \in Senders
      BY <3>1 DEF TypeOK
    <3>3. \A i \in 1 .. Len(queue) : queue[i] # n
      BY <3>1 DEF ConnectsOnce, Connected
    <3>4. conn # n /\ n # None /\ \A k \in DOMAIN data : data[k].owner # n
      BY <3>1, NeighborsAssumption DEF ConnectsOnce, Connected
    <3>5. /\ proc'[n] = "sending"
          /\ \A p \in Senders \ {n} : proc'[p] = proc[p]
      BY <3>1 DEF TypeOK
    <3>6. \A i, j \in 1 .. Len(queue') : queue'[i] = queue'[j] => i = j
      BY <3>2, <3>3 DEF ConnectsOnce
    <3>7. \A i \in 1 .. Len(queue') : proc'[queue'[i]] \in Connected /\ queue'[i] # conn
      BY <3>2, <3>3, <3>4, <3>5 DEF ConnectsOnce, Connected
    <3>8. \A i \in 1 .. Len(remaining) : remaining[i] # n /\ remaining[i] \in Senders
      BY <3>1 DEF ConnectsOnce, TypeOK
    <3>9. \A k \in DOMAIN data :
            /\ proc'[data[k].owner] = "exited"
            /\ \A i \in 1 .. Len(queue') : queue'[i] # data[k].owner
      <4> SUFFICES ASSUME NEW k \in DOMAIN data
                   PROVE  /\ proc'[data[k].owner] = "exited"
                          /\ \A i \in 1 .. Len(queue') : queue'[i] # data[k].owner
        OBVIOUS
      <4>1. data[k].owner \in Senders \ {n} /\ proc[data[k].owner] = "exited"
        BY <3>4 DEF ConnectsOnce, TypeOK
      <4>2. \A i \in 1 .. Len(queue) : queue[i] # data[k].owner
        BY DEF ConnectsOnce
      <4>3. \A i \in 1 .. Len(queue') : queue'[i] # data[k].owner
        BY <3>2, <4>1, <4>2
      <4> QED
        BY <3>5, <4>1, <4>3
    <3>10. conn # None => proc'[conn] \in Connected
      BY <3>4, <3>5 DEF ConnectsOnce, TypeOK
    <3> QED
      BY <3>1, <3>5, <3>6, <3>7, <3>8, <3>9, <3>10 DEF ConnectsOnce
  <2>3. CASE Send(n)
    BY <2>3 DEF Send, ConnectsOnce
  <2> QED
    BY <1>2, <2>1, <2>2, <2>3 DEF Client
<1>3. CASE Fail
  <2>1. queue' = <<>> /\ conn' = None /\ UNCHANGED <<remaining, proc, data>>
    BY <1>3 DEF Fail
  <2>2. \A k \in DOMAIN data : data[k].owner # None
    BY NeighborsAssumption DEF TypeOK
  <2> QED
    BY <2>1, <2>2 DEF ConnectsOnce
<1>4. CASE Accept
  <2>1. /\ conn = None /\ queue # <<>> /\ conn' = Head(queue) /\ queue' = Tail(queue)
        /\ UNCHANGED <<remaining, proc, data>>
    BY <1>4 DEF Accept
  <2>2. /\ Len(queue) \in Nat \ {0} /\ conn' = queue[1]
        /\ Len(queue') = Len(queue) - 1
        /\ \A i \in 1 .. Len(queue') : queue'[i] = queue[i + 1] /\ i + 1 \in 2 .. Len(queue)
    BY <2>1 DEF TypeOK
  <2>3. \A i, j \in 1 .. Len(queue') : queue'[i] = queue'[j] => i = j
    <3> SUFFICES ASSUME NEW i \in 1 .. Len(queue'), NEW j \in 1 .. Len(queue'),
                        queue'[i] = queue'[j]
                 PROVE  i = j
      OBVIOUS
    <3>1. i + 1 = j + 1
      BY <2>2 DEF ConnectsOnce
    <3> QED
      BY <2>2, <3>1
  <2>4. \A i \in 1 .. Len(queue') : queue'[i] # conn'
    <3> SUFFICES ASSUME NEW i \in 1 .. Len(queue'), queue'[i] = conn' PROVE FALSE
      OBVIOUS
    <3>1. i + 1 = 1
      BY <2>2 DEF ConnectsOnce
    <3> QED
      BY <2>2, <3>1
  <2> QED
    BY <2>1, <2>2, <2>3, <2>4 DEF ConnectsOnce
<1>5. CASE Store
  <2>1. /\ StoreWhatCame /\ StoreEntry /\ conn' = None
        /\ queue' = <<>> \/ queue' = queue
        /\ UNCHANGED <<remaining, proc>>
    BY <1>5 DEF Store, StoreAndLeaveAt
  <2>2. conn # None /\ conn \in Senders /\ proc[conn] = "exited"
    BY <1>5, <2>1, StoredEntry DEF Store, StoreWhatCame
  <2>3. \A i \in 1 .. Len(queue') : i \in 1 .. Len(queue) /\ queue'[i] = queue[i]
    BY <2>1
  <2>4. \A k \in DOMAIN data' :
          \/ k = clientId /\ data'[k].owner = conn
          \/ k \in DOMAIN data /\ data'[k] = data[k]
    BY <2>1, StoredEntry
  <2>5. \A k \in DOMAIN data' :
          /\ proc[data'[k].owner] = "exited" /\ data'[k].owner # None
          /\ \A i \in 1 .. Len(queue') : queue'[i] # data'[k].owner
    BY <2>2, <2>3, <2>4, NeighborsAssumption DEF ConnectsOnce, TypeOK
  <2>6. \A i \in 1 .. Len(queue) : queue[i] # None
    BY NeighborsAssumption DEF TypeOK
  <2>7. \A k, l \in DOMAIN data' : data'[k].owner = data'[l].owner => k = l
    BY <2>4 DEF ConnectsOnce
  <2> QED
    BY <2>1, <2>3, <2>5, <2>6, <2>7 DEF ConnectsOnce
<1>6. CASE Listen \/ ReadId \/ ReadMore
  BY <1>6 DEF Listen, ReadId, ReadMore, ConnectsOnce
<1>7. CASE UNCHANGED vars
  BY <1>7 DEF vars, ConnectsOnce
<1> QED
  BY <1>1, <1>2, <1>3, <1>4, <1>5, <1>6, <1>7 DEF Next, Server

\* At the start no neighbor has been started.
LEMMA OnceInit == Init => ConnectsOnce
<1> SUFFICES ASSUME Init PROVE ConnectsOnce
  OBVIOUS
<1>1. /\ remaining = Neighbors /\ Neighbors \in Seq(Senders)
      /\ \A n \in Senders : proc[n] = "unborn"
      /\ Len(queue) = 0 /\ conn = None /\ DOMAIN data = {}
  BY NeighborsAssumption DEF Init
<1>2. \A i, j \in 1 .. Len(Neighbors) : Neighbors[i] = Neighbors[j] => i = j
  BY NeighborsAssumption DEF IsInjective
<1> QED
  BY <1>1, <1>2 DEF ConnectsOnce

\* Every action keeps what is known of exited processes, and serves a connection only
\* while the server listens.
LEMMA ServingStep ==
    TypeOK /\ TypeOK' /\ ExitedAfterSending /\ ServesWhileListening /\ [Next]_vars
      => ExitedAfterSending' /\ ServesWhileListening'
<1> SUFFICES ASSUME TypeOK, TypeOK', ExitedAfterSending, ServesWhileListening, [Next]_vars
             PROVE  ExitedAfterSending' /\ ServesWhileListening'
  OBVIOUS
<1> USE DEF testVars, clientVars, serverVars, Listening, ExitedAfterSending,
            ServesWhileListening
<1>1. CASE TestPy
  BY <1>1 DEF TestPy, LaunchBatch, LaunchRole0, TypeOK
<1>2. ASSUME NEW n \in Senders, Client(n) \/ Die(n)
      PROVE  ExitedAfterSending' /\ ServesWhileListening'
  <2>1. CASE Solve(n) \/ Connect(n)
    BY <2>1 DEF Solve, Connect, TypeOK
  <2>2. CASE Send(n)
    BY <2>2 DEF Send, TypeOK
  <2>3. CASE Exit(n)
    BY <2>3 DEF Exit, TypeOK
  <2>4. CASE Refused(n)
    BY <2>4 DEF Refused, TypeOK
  <2>5. CASE Die(n)
    BY <2>5 DEF Die, TypeOK
  <2> QED
    BY <1>2, <2>1, <2>2, <2>3, <2>4, <2>5 DEF Client
<1>3. CASE Fail
  BY <1>3 DEF Fail, TypeOK
<1>4. CASE Server
  BY <1>4 DEF Server, Listen, Accept, ReadId, ReadMore, Store, StoreAndLeaveAt, TypeOK
<1>5. CASE UNCHANGED vars
  BY <1>5 DEF vars
<1> QED
  BY <1>1, <1>2, <1>3, <1>4, <1>5 DEF Next

\* Every action keeps the number and the count of what was read in step with the sender.
LEMMA ReadingStep ==
    TypeOK /\ TypeOK' /\ ConnectsOnce /\ ReadsWhatWasSent /\ [Next]_vars
      => ReadsWhatWasSent'
<1> SUFFICES ASSUME TypeOK, TypeOK', ConnectsOnce, ReadsWhatWasSent, [Next]_vars
             PROVE  ReadsWhatWasSent'
  OBVIOUS
<1> USE DEF testVars, clientVars, serverVars, ReadsWhatWasSent
<1>1. CASE TestPy
  <2>1. CASE LaunchBatch
    <3>1. \A n \in ToSet(FirstBatch) : proc[n] = "unborn"
      BY <2>1, BatchIsCut DEF ConnectsOnce
    <3>2. conn # None => conn \in Senders /\ conn \notin ToSet(FirstBatch)
      BY <3>1 DEF ConnectsOnce, Connected, TypeOK
    <3> QED
      BY <2>1, <3>2 DEF LaunchBatch
  <2> QED
    BY <1>1, <2>1 DEF TestPy, LaunchRole0
<1>2. ASSUME NEW n \in Senders, Client(n) \/ Die(n) PROVE ReadsWhatWasSent'
  <2>1. CASE Solve(n) \/ Connect(n) \/ Exit(n) \/ Refused(n)
    BY <2>1 DEF Solve, Connect, Exit, Refused, TypeOK
  <2>2. CASE Send(n)
    BY <2>2, BoundsAssumption DEF Send, TypeOK
  <2>3. CASE Die(n)
    BY <2>3 DEF Die, TypeOK
  <2> QED
    BY <1>2, <2>1, <2>2, <2>3 DEF Client
<1>3. CASE Fail
  BY <1>3 DEF Fail
<1>4. CASE Listen
  BY <1>4 DEF Listen
<1>5. CASE Accept
  BY <1>5 DEF Accept, TypeOK
<1>6. CASE ReadId
  BY <1>6 DEF ReadId
<1>7. CASE ReadMore
  <2>1. conn \in Senders /\ conn # None /\ sent[conn] \in 0 .. 1 + Size /\ received \in 0 .. Size
    BY <1>7 DEF ReadMore, TypeOK
  <2>2. PICK k \in 1 .. Available : received' = received + k
    BY <1>7 DEF ReadMore
  <2>3. received' <= sent[conn] - 1
    BY <2>1, <2>2, BoundsAssumption DEF Available
  <2> QED
    BY <1>7, <2>3 DEF ReadMore
<1>8. CASE Store
  BY <1>8 DEF Store, StoreAndLeaveAt
<1>9. CASE UNCHANGED vars
  BY <1>9 DEF vars
<1> QED
  BY <1>1, <1>2, <1>3, <1>4, <1>5, <1>6, <1>7, <1>8, <1>9 DEF Next, Server

\* A living sender whose stream has ended sent its number and its whole OKVS.
LEMMA EndOfStream ==
    ASSUME IInv, StoreWhatCame, proc[conn] = "exited"
    PROVE  /\ Listening /\ conn \in Senders
           /\ sent[conn] = 0 => received = 0
           /\ sent[conn] > 0 => clientId = conn /\ received = sent[conn] - 1
           /\ conn \notin dead => clientId = conn /\ sent[conn] = 1 + Size
<1>1. conn \in Senders /\ sent[conn] \in 0 .. 1 + Size /\ received \in 0 .. Size /\ Listening
  BY DEF IInv, TypeOK, StoreWhatCame, ServesWhileListening
<1>2. sent[conn] = 0 => received = 0
  BY <1>1 DEF IInv, ReadsWhatWasSent, StoreWhatCame
<1>3. sent[conn] > 0 => clientId = conn /\ received = sent[conn] - 1
  BY <1>1, BoundsAssumption DEF IInv, ReadsWhatWasSent, StoreWhatCame, Available
<1>4. conn \notin dead => sent[conn] = 1 + Size
  BY <1>1 DEF IInv, ExitedAfterSending, Listening
<1>5. conn \notin dead => sent[conn] > 0
  BY <1>4, BoundsAssumption
<1> QED
  BY <1>1, <1>2, <1>3, <1>4, <1>5

\* Entries stay what their senders sent, since these have ended.
LEMMA EntriesKept ==
    ASSUME IInv, TypeOK', dead \subseteq dead', NEW k \in DOMAIN data, k \in DOMAIN data',
           data'[k] = data[k], sent'[data[k].owner] = sent[data[k].owner]
    PROVE  LET n == data'[k].owner
           IN  /\ n \notin dead' => data'[k] = [owner |-> k, blocks |-> Size]
               /\ sent'[n] > 0 => data'[k] = [owner |-> k, blocks |-> sent'[n] - 1]
               /\ sent'[n] = 0 => data'[k].blocks = 0
BY DEF IInv, EntriesWhole

\* What Store stores is what was sent, and it is counted.
LEMMA StoringStep == IInv /\ TypeOK' /\ [Next]_vars => EntriesWhole' /\ LeftWithAll'
<1> SUFFICES ASSUME IInv, TypeOK', [Next]_vars PROVE EntriesWhole' /\ LeftWithAll'
  OBVIOUS
<1> USE DEF testVars, clientVars, serverVars
<1>1. CASE Store
  <2>1. /\ StoreWhatCame /\ StoreEntry /\ proc[conn] = "exited"
        /\ dead' = dead /\ sent' = sent
    BY <1>1 DEF Store, StoreAndLeaveAt
  <2>2. server' = IF Cardinality(DOMAIN data') >= Len(Neighbors) THEN "collected" ELSE server
    BY <1>1 DEF Store, StoreAndLeaveAt
  <2>3. LeftWithAll'
    BY <2>1, <2>2, EndOfStream DEF LeftWithAll, Listening
  <2>4. EntriesWhole'
    <3> SUFFICES ASSUME NEW k \in DOMAIN data'
                 PROVE  LET n == data'[k].owner
                        IN  /\ n \notin dead' => data'[k] = [owner |-> k, blocks |-> Size]
                            /\ sent'[n] > 0 => data'[k] = [owner |-> k, blocks |-> sent'[n] - 1]
                            /\ sent'[n] = 0 => data'[k].blocks = 0
      BY DEF EntriesWhole
    <3>1. CASE k = clientId
      <4>1. data'[k] = [owner |-> conn, blocks |-> received]
        BY <2>1, <3>1, StoredEntry DEF IInv
      <4>2. conn \notin dead => received = Size /\ clientId = conn
        <5>1. conn \notin dead => sent[conn] > 0 /\ sent[conn] - 1 = Size
          BY <2>1, EndOfStream, BoundsAssumption
        <5> QED
          BY <2>1, <5>1, EndOfStream
      <4> QED
        BY <2>1, <3>1, <4>1, <4>2, EndOfStream
    <3>2. CASE k # clientId
      <4>1. k \in DOMAIN data /\ data'[k] = data[k]
        BY <2>1, <3>2, StoredEntry DEF IInv
      <4> QED
        BY <2>1, <4>1, EntriesKept
    <3> QED
      BY <3>1, <3>2
  <2> QED
    BY <2>3, <2>4
<1>2. ASSUME data' = data, dead \subseteq dead',
             \A n \in Senders : proc[n] = "exited" => sent'[n] = sent[n]
      PROVE  EntriesWhole'
  <2> SUFFICES ASSUME NEW k \in DOMAIN data'
               PROVE  LET n == data'[k].owner
                      IN  /\ n \notin dead' => data'[k] = [owner |-> k, blocks |-> Size]
                          /\ sent'[n] > 0 => data'[k] = [owner |-> k, blocks |-> sent'[n] - 1]
                          /\ sent'[n] = 0 => data'[k].blocks = 0
    BY DEF EntriesWhole
  <2>1. k \in DOMAIN data /\ data'[k] = data[k]
    BY <1>2
  <2>2. data[k].owner \in Senders /\ proc[data[k].owner] = "exited"
    BY <2>1 DEF IInv, TypeOK, ConnectsOnce
  <2> QED
    BY <1>2, <2>1, <2>2, EntriesKept
<1>3. ASSUME data' = data, server' = "collected" => server = "collected"
      PROVE  LeftWithAll'
  BY <1>3 DEF IInv, LeftWithAll
<1>4. CASE TestPy
  BY <1>2, <1>3, <1>4 DEF TestPy, LaunchBatch, LaunchRole0
<1>5. ASSUME NEW n \in Senders, Client(n) \/ Die(n) PROVE EntriesWhole' /\ LeftWithAll'
  <2>1. CASE Send(n)
    <3>1. \A p \in Senders : proc[p] = "exited" => sent'[p] = sent[p]
      BY <2>1 DEF Send, IInv, TypeOK
    <3> QED
      BY <1>2, <1>3, <2>1, <3>1 DEF Send
  <2>2. CASE Solve(n) \/ Connect(n) \/ Exit(n) \/ Refused(n) \/ Die(n)
    BY <1>2, <1>3, <2>2 DEF Solve, Connect, Exit, Refused, Die
  <2> QED
    BY <1>5, <2>1, <2>2 DEF Client
<1>6. CASE Fail \/ Listen \/ Accept \/ ReadId \/ ReadMore
  BY <1>2, <1>3, <1>6 DEF Fail, Listen, Accept, ReadId, ReadMore
<1>7. CASE UNCHANGED vars
  BY <1>2, <1>3, <1>7 DEF vars
<1> QED
  BY <1>1, <1>4, <1>5, <1>6, <1>7 DEF Next, Server

\* The inductive invariant holds in every state.
THEOREM InductiveInvariant == Spec => []IInv
<1>1. Init => IInv
  <2> SUFFICES ASSUME Init PROVE IInv
    OBVIOUS
  <2>1. DOMAIN data = {} /\ conn = None /\ server = "starting"
    BY DEF Init
  <2>2. \A n \in Senders : proc[n] = "unborn"
    BY DEF Init
  <2> QED
    BY <2>1, <2>2, TypeInit, OnceInit
    DEF IInv, ExitedAfterSending, ServesWhileListening, ReadsWhatWasSent, EntriesWhole,
        LeftWithAll
<1>2. IInv /\ [Next]_vars => IInv'
  BY TypeStep, ServingStep, OnceStep, ReadingStep, StoringStep DEF IInv
<1> QED
  BY <1>1, <1>2, PTL DEF Spec

\* The variables of test.py, of the neighbor processes and of the role 1 process keep
\* their types: a read never returns more than an OKVS.
THEOREM TypeInvariant == Spec => []TypeOK
<1>1. IInv => TypeOK
  BY DEF IInv
<1> QED
  BY <1>1, InductiveInvariant, PTL

\* Whatever client_data_map holds of a sender that did not die is that sender's whole
\* OKVS, under its own number.
THEOREM EntriesWholeInvariant == Spec => []EntriesWhole
<1>1. IInv => EntriesWhole
  BY DEF IInv
<1> QED
  BY <1>1, InductiveInvariant, PTL

\* The entries have different owners and are as many as the neighbors: each owns one.
LEMMA AllCollected == IInv => CollectedIsComplete
<1> SUFFICES ASSUME IInv, server = "collected" PROVE CollectedIsComplete
  BY DEF CollectedIsComplete
<1> DEFINE owner == [k \in DOMAIN data |-> data[k].owner]
<1>1. owner \in Injection(DOMAIN data, Senders)
  <2>1. owner \in [DOMAIN data -> Senders]
    BY DEF IInv, TypeOK
  <2>2. \A k, l \in DOMAIN data : owner[k] = owner[l] => k = l
    BY DEF IInv, ConnectsOnce
  <2> QED
    BY <2>1, <2>2 DEF Injection, IsInjective
<1> HIDE DEF owner
<1>2. /\ IsFiniteSet(DOMAIN data)
      /\ Cardinality(DOMAIN data) <= Cardinality(Senders)
      /\ Cardinality(DOMAIN data) = Cardinality(Senders)
           => owner \in Surjection(DOMAIN data, Senders)
  BY <1>1, SendersFinite, FS_Injection
<1>3. Cardinality(DOMAIN data) >= Cardinality(Senders)
  BY SendersFinite DEF IInv, LeftWithAll
<1>4. Cardinality(DOMAIN data) \in Nat /\ Cardinality(Senders) \in Nat
  BY <1>2, SendersFinite, FS_CardinalityType
<1>5. owner \in Surjection(DOMAIN data, Senders)
  BY <1>2, <1>3, <1>4
<1>6. ASSUME NEW n \in Senders
      PROVE  /\ \E k \in DOMAIN data : data[k].owner = n
             /\ n \notin dead => n \in DOMAIN data /\ data[n] = [owner |-> n, blocks |-> Size]
  <2>1. PICK k \in DOMAIN data : data[k].owner = n
    BY <1>5 DEF Surjection, owner
  <2>2. n \notin dead => data[k] = [owner |-> k, blocks |-> Size]
    BY <2>1 DEF IInv, EntriesWhole
  <2>3. n \notin dead => k = n
    BY <2>1, <2>2
  <2> QED
    BY <2>1, <2>2, <2>3
<1> QED
  BY <1>6 DEF CollectedIsComplete

\* When startServer has returned every neighbor was served, and the OKVS of each that did
\* not die is there, whatever numbers were taken for those that did.
THEOREM CollectedIsCompleteInvariant == Spec => []CollectedIsComplete
BY AllCollected, InductiveInvariant, PTL

\* A stored entry is never replaced unless it, or what replaces it, came without a number:
\* no neighbor is served twice, and none that sent its number is stored under another's.
THEOREM NoEntryReplacedAlways == Spec => NoEntryReplaced
<1> DEFINE KeepsEntries == \A k \in DOMAIN data :
               data'[k] # data[k] => sent[conn] = 0 \/ sent[data[k].owner] = 0
<1>1. IInv /\ [Next]_vars => [KeepsEntries]_vars
  <2> SUFFICES ASSUME IInv, Next, NEW k \in DOMAIN data, data'[k] # data[k],
                      sent[conn] # 0, sent[data[k].owner] # 0
               PROVE  FALSE
    OBVIOUS
  <2> USE DEF testVars, clientVars, serverVars
  <2>1. CASE Store
    <3>1. StoreWhatCame /\ StoreEntry /\ proc[conn] = "exited"
      BY <2>1 DEF Store, StoreAndLeaveAt
    <3>2. clientId = conn
      BY <3>1 DEF StoreWhatCame, IInv, ReadsWhatWasSent
    <3>3. data[k].owner = k
      <4>1. data[k].owner \in Senders /\ sent[data[k].owner] \in 0 .. 1 + Size
        BY DEF IInv, TypeOK
      <4>2. sent[data[k].owner] > 0
        BY <4>1
      <4>3. data[k] = [owner |-> k, blocks |-> sent[data[k].owner] - 1]
        BY <4>2 DEF IInv, EntriesWhole
      <4> QED
        BY <4>3
    <3>4. k # conn
      BY <3>3 DEF IInv, ConnectsOnce
    <3> QED
      BY <3>1, <3>2, <3>4, StoredEntry DEF IInv
  <2>2. CASE TestPy \/ Fail \/ Listen \/ Accept \/ ReadId \/ ReadMore
    BY <2>2 DEF TestPy, LaunchBatch, LaunchRole0, Fail, Listen, Accept, ReadId, ReadMore
  <2>3. CASE \E n \in Senders : Client(n) \/ Die(n)
    BY <2>3 DEF Client, Solve, Connect, Send, Exit, Refused, Die
  <2> QED
    BY <2>1, <2>2, <2>3 DEF Next, Server
<1> QED
  BY <1>1, InductiveInvariant, PTL DEF Spec, NoEntryReplaced

NobodyDied == dead = {}

\* While nobody died an entry is delivered as soon as it is there.
Delivered == {n \in DOMAIN data : data[n] = [owner |-> n, blocks |-> Size]}

\* Storing delivers the OKVS of one more neighbor, and the last one ends the collection.
LEMMA StoreDelivers ==
    ASSUME IInv, IInv', Store, dead = {}
    PROVE  Promise!Deliver(conn) /\ conn \in Senders
<1>1. /\ StoreWhatCame /\ StoreEntry /\ dead' = {}
      /\ server' = IF Cardinality(DOMAIN data') >= Len(Neighbors)
                   THEN "collected" ELSE server
  BY DEF Store, StoreAndLeaveAt, clientVars
<1>2. server = "listening" /\ clientId = conn
  BY <1>1, EndOfStream DEF Listening, Store
<1>3. DOMAIN data' = DOMAIN data \cup {conn} /\ conn \in Senders
  BY <1>1, <1>2, StoredEntry DEF IInv
<1>4. /\ \A k \in DOMAIN data : data[k] = [owner |-> k, blocks |-> Size]
      /\ \A k \in DOMAIN data' : data'[k] = [owner |-> k, blocks |-> Size]
  BY <1>1 DEF IInv, EntriesWhole
<1>5. Delivered = DOMAIN data /\ Delivered' = DOMAIN data'
  BY <1>4 DEF Delivered
<1>6. conn \notin DOMAIN data
  BY <1>1, <1>4 DEF IInv, ConnectsOnce, StoreWhatCame
<1>7. DOMAIN data' \subseteq Senders
  <2> SUFFICES ASSUME NEW k \in DOMAIN data' PROVE k \in Senders
    OBVIOUS
  <2>1. data'[k].owner = k
    BY <1>4
  <2> QED
    BY <2>1 DEF IInv, TypeOK
<1>8. Cardinality(DOMAIN data') >= Len(Neighbors) <=> DOMAIN data' = Senders
  <2>1. /\ Cardinality(DOMAIN data') <= Cardinality(Senders)
        /\ Cardinality(Senders) = Cardinality(DOMAIN data') => Senders = DOMAIN data'
        /\ IsFiniteSet(DOMAIN data')
    BY <1>7, SendersFinite, FS_Subset
  <2>2. Cardinality(DOMAIN data') \in Nat /\ Cardinality(Senders) \in Nat
    BY <2>1, SendersFinite, FS_CardinalityType
  <2> QED
    BY <2>1, <2>2, SendersFinite
<1>9. (server' = "collected") <=> Delivered' = Senders
  BY <1>1, <1>2, <1>5, <1>8
<1> QED
  BY <1>2, <1>3, <1>5, <1>6, <1>9 DEF Promise!Deliver, Delivered

\* While nobody dies the role 1 process does what Collection promises, step by step:
\* every step of the system delivers one OKVS or shows nothing.
THEOREM CollectionImplemented ==
    Spec /\ []NobodyDied => Promise!Init /\ [][Promise!Next]_(Promise!vars)
<1>1. Init => Promise!Init
  BY DEF Init, Promise!Init
<1>2. IInv /\ IInv' /\ NobodyDied /\ NobodyDied' /\ [Next]_vars
        => [Promise!Next]_(Promise!vars)
  <2> SUFFICES ASSUME IInv, IInv', dead = {}, dead' = {}, [Next]_vars
               PROVE  [Promise!Next]_(Promise!vars)
    BY DEF NobodyDied
  <2> USE DEF testVars, clientVars, serverVars
  <2>1. CASE Store
    <3>1. Promise!Deliver(conn) /\ conn \in Senders
      BY <2>1, StoreDelivers
    <3>2. Promise!Next
      BY <3>1 DEF Promise!Next, Promise!Deliver
    <3> QED
      BY <3>2
  <2>2. CASE TestPy \/ Accept \/ ReadId \/ ReadMore
    BY <2>2 DEF TestPy, LaunchBatch, LaunchRole0, Accept, ReadId, ReadMore, Promise!vars
  <2>3. CASE Listen
    BY <2>3 DEF Listen, Promise!vars
  <2>4. CASE Fail
    BY <2>4 DEF Fail
  <2>5. CASE \E n \in Senders : Client(n) \/ Die(n)
    BY <2>5 DEF Client, Solve, Connect, Send, Exit, Refused, Die, Promise!vars
  <2>6. CASE UNCHANGED vars
    BY <2>6 DEF vars, Promise!vars
  <2> QED
    BY <2>1, <2>2, <2>3, <2>4, <2>5, <2>6 DEF Next, Server
<1> QED
  BY <1>1, <1>2, InductiveInvariant, PTL DEF Spec

-----------------------------------------------------------------------------
(* That nobody waits for ever, as a statement about single states: the     *)
(* guards of the actions, written out, because the prover knows nothing of *)
(* ENABLED.  A connect() that fails is no step, and a death is nothing to  *)
(* wait for.                                                               *)

TestPyGoes == Running = {} /\ (remaining # <<>> \/ ~role0)

ClientGoes(n) ==
    \/ proc[n] \in {"solving", "sending"}
    \/ proc[n] = "connecting" /\ Listening /\ Len(queue) <= Backlog

ServerGoes ==
    \/ server = "starting"
    \/ Listening /\ conn = None /\ queue # <<>>
    \/ conn # None /\ clientId = None /\ (sent[conn] > 0 \/ proc[conn] = "exited")
    \/ conn # None /\ clientId # None /\ Available > 0
    \/ StoreWhatCame /\ proc[conn] = "exited"

SomebodyGoes == TestPyGoes \/ ServerGoes \/ \E n \in Senders : ClientGoes(n)

\* Until the role 0 process is started somebody can go on unless the role 1 process died,
\* however many neighbor processes did: test.py waits for processes that wait for the
\* server, the server never waits for one that waits for it, and it stops listening only
\* when none is left that would still connect.
Role0NotBlocked == ~role0 /\ X \notin dead => SomebodyGoes

\* While nobody died, and there is a neighbor, somebody can go on until the collection
\* has ended and the role 0 process was started.
CollectionNotBlocked ==
    dead = {} /\ Neighbors # <<>> /\ ~(role0 /\ server = "collected") => SomebodyGoes

\* What the two need to know: a neighbor not started is still in the list, one that
\* connected is in the queue, being read or stored, and the server leaves with the last.
InQueue(n) == \E i \in 1 .. Len(queue) : queue[i] = n
FailedIsDead == server = "failed" => X \in dead
UnbornRemain ==
    \A n \in Senders : proc[n] = "unborn" => \E i \in 1 .. Len(remaining) : remaining[i] = n
Role0IsLast == role0 => remaining = <<>> /\ Running = {}
ConnectedIsKept ==
    dead = {} /\ server \in {"starting", "listening"} =>
      \A n \in Senders : proc[n] \in Connected => InQueue(n) \/ n = conn \/ n \in DOMAIN data
ServesUntilAll ==
    server \in {"starting", "listening"} /\ Neighbors # <<>> =>
      Cardinality(DOMAIN data) < Len(Neighbors)

WaitInv == /\ FailedIsDead /\ UnbornRemain /\ Role0IsLast
           /\ ConnectedIsKept /\ ServesUntilAll

\* What is still to be done, thing by thing: <<what, whose, which block>>.
Unconnected(n) == proc[n] \in {"unborn", "solving", "connecting"}
Waiting(n) == Unconnected(n) \/ InQueue(n)

Pending(what, n, i) ==
    \/ n = X /\ i = 0 /\ \/ what = "role0" /\ ~role0
                         \/ what = "listen" /\ server = "starting"
                         \/ what = "serve" /\ server \in {"starting", "listening"}
    \/ n \in Senders /\ i = 0 /\ \/ what = "launch" /\ proc[n] = "unborn"
                                 \/ what = "solve" /\ proc[n] \in {"unborn", "solving"}
                                 \/ what = "connect" /\ Unconnected(n)
                                 \/ what = "exit" /\ proc[n] # "exited"
                                 \/ what = "accept" /\ Waiting(n)
                                 \/ what = "number" /\ (Waiting(n) \/ (conn = n /\ clientId = None))
                                 \/ what = "store" /\ (Waiting(n) \/ conn = n)
    \/ n \in Senders /\ \/ what = "send" /\ proc[n] # "exited" /\ sent[n] <= i
                        \/ what = "read" /\ (Waiting(n) \/ (conn = n /\ received < i))

Things == {"role0", "listen", "serve", "launch", "solve", "connect", "exit", "accept",
           "number", "store", "send", "read"}
          \X ((Senders \cup {X}) \X (0 .. Size))
ToDo == {t \in Things : Pending(t[1], t[2][1], t[2][2])}

\* At the start every neighbor is in the list, and nothing is stored.
LEMMA WaitInit == Init => WaitInv
<1> SUFFICES ASSUME Init PROVE WaitInv
  OBVIOUS
<1>1. \A n \in Senders : \E i \in 1 .. Len(remaining) : remaining[i] = n
  <2>1. remaining = Neighbors /\ Neighbors \in Seq(Senders)
    BY NeighborsAssumption DEF Init
  <2>2. DOMAIN remaining = 1 .. Len(remaining)
    BY <2>1
  <2>3. Senders = {remaining[i] : i \in DOMAIN remaining}
    BY <2>1 DEF Senders, ToSet
  <2> QED
    BY <2>2, <2>3
<1>2. Neighbors # <<>> => Cardinality(DOMAIN data) < Len(Neighbors)
  <2>1. DOMAIN data = {}
    BY DEF Init
  <2>2. Cardinality(DOMAIN data) = 0
    BY <2>1, FS_EmptySet
  <2>3. Neighbors \in Seq(Senders)
    BY NeighborsAssumption
  <2>4. Neighbors # <<>> => 0 < Len(Neighbors)
    BY <2>3
  <2> DEFINE stored == Cardinality(DOMAIN data)
  <2>5. stored = 0
    BY <2>2
  <2> HIDE DEF stored
  <2>6. Neighbors # <<>> => stored < Len(Neighbors)
    BY <2>4, <2>5
  <2> QED
    BY <2>6 DEF stored
<1>3. UnbornRemain /\ ServesUntilAll
  BY <1>1, <1>2 DEF UnbornRemain, ServesUntilAll
<1>4. FailedIsDead /\ Role0IsLast /\ ConnectedIsKept
  BY DEF Init, FailedIsDead, Role0IsLast, ConnectedIsKept, Connected
<1> QED
  BY <1>3, <1>4 DEF WaitInv

\* Launching a batch leaves exactly the others in the list.
LEMMA WaitByBatch ==
    ASSUME IInv, WaitInv, LaunchBatch
    PROVE  WaitInv'
<1> USE DEF serverVars
<1>1. UnbornRemain'
  <2> SUFFICES ASSUME NEW n \in Senders, proc'[n] = "unborn"
               PROVE  \E i \in 1 .. Len(remaining') : remaining'[i] = n
    BY DEF UnbornRemain
  <2>1. n \notin ToSet(FirstBatch) /\ proc[n] = "unborn"
    BY DEF LaunchBatch
  <2>2. PICK i \in 1 .. Len(remaining) : remaining[i] = n
    BY <2>1 DEF WaitInv, UnbornRemain
  <2> QED
    BY <2>1, <2>2, BatchIsCut DEF IInv
<1>2. ~role0 /\ ~role0'
  BY DEF LaunchBatch, WaitInv, Role0IsLast
<1>3. \A n \in Senders : proc'[n] \in Connected => proc[n] \in Connected
  BY DEF LaunchBatch, Connected, IInv, TypeOK
<1>4. UNCHANGED <<dead, server, queue, conn, data>>
  BY DEF LaunchBatch
<1>5. FailedIsDead' /\ ServesUntilAll'
  BY <1>4 DEF WaitInv, FailedIsDead, ServesUntilAll
<1>6. ConnectedIsKept'
  BY <1>3, <1>4 DEF WaitInv, ConnectedIsKept, Listening, InQueue
<1> QED
  BY <1>1, <1>2, <1>5, <1>6 DEF WaitInv, Role0IsLast

\* A process goes on: the list, the connections and the entries are as before.
LEMMA WaitByProcess ==
    ASSUME IInv, WaitInv, NEW n \in Senders, NEW to \in {"connecting", "sending", "exited"},
           proc[n] \notin {"unborn", "exited"},
           proc' = [proc EXCEPT ![n] = to], dead \subseteq dead',
           dead' = {} /\ to # "connecting" =>
             proc[n] = "sending" \/ InQueue(n)',
           \A p \in Senders : InQueue(p) => InQueue(p)',
           UNCHANGED <<remaining, role0, server, conn, data>>
    PROVE  WaitInv'
<1>1. /\ proc'[n] = to
      /\ \A p \in Senders \ {n} : proc'[p] = proc[p]
  BY DEF IInv, TypeOK
<1>2. n \in Running
  BY DEF Running
<1>3. ~role0
  BY <1>2 DEF WaitInv, Role0IsLast
<1>4. FailedIsDead' /\ UnbornRemain' /\ Role0IsLast' /\ ServesUntilAll'
  BY <1>1, <1>3 DEF WaitInv, FailedIsDead, UnbornRemain, Role0IsLast, ServesUntilAll
<1>5. ConnectedIsKept'
  <2> SUFFICES ASSUME dead' = {}, server \in {"starting", "listening"}, NEW p \in Senders, proc'[p] \in Connected
               PROVE  InQueue(p)' \/ p = conn' \/ p \in DOMAIN data'
    BY DEF ConnectedIsKept
  <2>1. dead = {}
    OBVIOUS
  <2>2. CASE proc[p] \in Connected
    BY <2>1, <2>2 DEF WaitInv, ConnectedIsKept
  <2>3. CASE proc[p] \notin Connected
    <3>1. p = n /\ to # "connecting" /\ proc[n] # "sending"
      BY <1>1, <2>3 DEF Connected
    <3> QED
      BY <2>1, <3>1
  <2> QED
    BY <2>2, <2>3
<1> QED
  BY <1>4, <1>5 DEF WaitInv

\* The server goes on: an accepted connection is being read, a stored one is an entry.
LEMMA WaitByServer ==
    ASSUME IInv, IInv', WaitInv, Server
    PROVE  WaitInv'
<1> USE DEF testVars, clientVars
<1>1. UNCHANGED <<remaining, role0, proc, dead>>
  BY DEF Server, Listen, Accept, ReadId, ReadMore, Store, StoreAndLeaveAt
<1>2. UnbornRemain' /\ Role0IsLast'
  BY <1>1 DEF WaitInv, UnbornRemain, Role0IsLast, Running
<1>3. server' = "failed" => server = "failed"
  BY DEF Server, Listen, Accept, ReadId, ReadMore, Store, StoreAndLeaveAt
<1>4. FailedIsDead'
  BY <1>1, <1>3 DEF WaitInv, FailedIsDead
<1>5. CASE Listen \/ ReadId \/ ReadMore
  BY <1>2, <1>4, <1>5
  DEF Listen, ReadId, ReadMore, WaitInv, ConnectedIsKept, ServesUntilAll, InQueue, Listening
<1>6. CASE Accept
  <2>1. /\ conn = None /\ queue # <<>> /\ conn' = Head(queue) /\ queue' = Tail(queue)
        /\ UNCHANGED <<server, data>>
    BY <1>6 DEF Accept
  <2>2. /\ Len(queue) \in Nat \ {0} /\ conn' = queue[1] /\ Len(queue') = Len(queue) - 1
        /\ \A i \in 1 .. Len(queue) - 1 : queue'[i] = queue[i + 1]
    BY <2>1 DEF IInv, TypeOK
  <2>3. ASSUME NEW n \in Senders, InQueue(n)
        PROVE  InQueue(n)' \/ n = conn'
    <3>1. PICK i \in 1 .. Len(queue) : queue[i] = n
      BY <2>3 DEF InQueue
    <3>2. CASE i = 1
      BY <2>2, <3>1, <3>2
    <3>3. CASE i # 1
      <4>1. i - 1 \in 1 .. Len(queue) - 1 /\ (i - 1) + 1 = i
        BY <2>2, <3>3
      <4>2. queue'[i - 1] = n
        BY <2>2, <3>1, <4>1
      <4> QED
        BY <2>2, <4>1, <4>2 DEF InQueue
    <3> QED
      BY <3>2, <3>3
  <2>4. \A n \in Senders : n # conn
    BY <2>1, NeighborsAssumption
  <2>5. ConnectedIsKept' /\ ServesUntilAll'
    BY <1>1, <2>1, <2>3, <2>4 DEF WaitInv, ConnectedIsKept, ServesUntilAll
  <2> QED
    BY <1>2, <1>4, <2>5 DEF WaitInv
<1>7. CASE Store
  <2>1. /\ StoreWhatCame /\ StoreEntry
        /\ server' = IF Cardinality(DOMAIN data') >= Len(Neighbors) THEN "collected" ELSE server
        /\ queue' = IF server' = "collected" THEN <<>> ELSE queue
    BY <1>7 DEF Store, StoreAndLeaveAt
  <2>2. DOMAIN data' = DOMAIN data \cup {clientId}
    BY <2>1, StoredEntry DEF IInv
  <2>3. dead = {} => clientId = conn
    BY <1>7, <2>1, EndOfStream DEF Store
  <2>4. ASSUME server' \in {"starting", "listening"}
        PROVE  /\ server' = server /\ queue' = queue
               /\ ~(Cardinality(DOMAIN data') >= Len(Neighbors))
    BY <2>1, <2>4
  <2>5. ConnectedIsKept'
    BY <1>1, <2>2, <2>3, <2>4 DEF WaitInv, ConnectedIsKept, InQueue
  <2>6. ServesUntilAll'
    <3>1. IsFiniteSet(DOMAIN data')
      <4>1. DOMAIN data' \subseteq Senders \cup {X}
        BY DEF IInv, TypeOK
      <4>2. IsFiniteSet(Senders \cup {X})
        BY SendersFinite, FS_AddElement
      <4> QED
        BY <4>1, <4>2, FS_Subset
    <3>2. Cardinality(DOMAIN data') \in Nat /\ Len(Neighbors) \in Nat
      BY <3>1, FS_CardinalityType, NeighborsAssumption
    <3> QED
      BY <2>4, <3>2 DEF ServesUntilAll
  <2> QED
    BY <1>2, <1>4, <2>5, <2>6 DEF WaitInv
<1> QED
  BY <1>5, <1>6, <1>7 DEF Server

\* Every action keeps what the two need.
LEMMA WaitStep == IInv /\ IInv' /\ WaitInv /\ [Next]_vars => WaitInv'
<1> SUFFICES ASSUME IInv, IInv', WaitInv, [Next]_vars PROVE WaitInv'
  OBVIOUS
<1> USE DEF testVars, clientVars, serverVars
<1>1. CASE LaunchBatch
  BY <1>1, WaitByBatch
<1>2. CASE LaunchRole0
  BY <1>2 DEF LaunchRole0, WaitInv, FailedIsDead, UnbornRemain, Role0IsLast, ConnectedIsKept,
              ServesUntilAll, InQueue, Running
<1>3. ASSUME NEW n \in Senders, Client(n) \/ Die(n) PROVE WaitInv'
  <2>1. CASE Solve(n)
    <3>1. /\ proc[n] = "solving" /\ proc' = [proc EXCEPT ![n] = "connecting"]
          /\ UNCHANGED <<remaining, role0, dead, server, queue, conn, data>>
      BY <2>1 DEF Solve
    <3> QED
      BY <3>1, WaitByProcess DEF InQueue
  <2>2. CASE Connect(n)
    <3>1. /\ proc[n] = "connecting" /\ proc' = [proc EXCEPT ![n] = "sending"]
          /\ queue' = Append(queue, n)
          /\ UNCHANGED <<remaining, role0, dead, server, conn, data>>
      BY <2>2 DEF Connect
    <3>2. /\ Len(queue) \in Nat /\ Len(queue') = Len(queue) + 1
          /\ queue'[Len(queue) + 1] = n
          /\ \A i \in 1 .. Len(queue) : queue'[i] = queue[i]
      <4>1. queue \in Seq(Senders)
        BY DEF IInv, TypeOK
      <4>2. queue' = Append(queue, n)
        BY <3>1
      <4> HIDE DEF testVars, clientVars, serverVars
      <4> QED
        BY ONLY <4>1, <4>2, n \in Senders
    <3>3. InQueue(n)' /\ \A p \in Senders : InQueue(p) => InQueue(p)'
      BY <3>2 DEF InQueue
    <3> QED
      BY <3>1, <3>3, WaitByProcess
  <2>3. CASE Send(n)
    BY <2>3 DEF Send, WaitInv, FailedIsDead, UnbornRemain, Role0IsLast, ConnectedIsKept,
                ServesUntilAll, InQueue, Running
  <2>4. CASE Exit(n) \/ Refused(n)
    <3>1. /\ proc[n] = "sending" /\ proc' = [proc EXCEPT ![n] = "exited"]
          /\ UNCHANGED <<remaining, role0, dead, server, queue, conn, data>>
      BY <2>4 DEF Exit, Refused
    <3> QED
      BY <3>1, WaitByProcess DEF InQueue
  <2>5. CASE Die(n)
    <3>1. /\ proc[n] \notin {"unborn", "exited"} /\ proc' = [proc EXCEPT ![n] = "exited"]
          /\ dead' # {} /\ dead \subseteq dead'
          /\ UNCHANGED <<remaining, role0, server, queue, conn, data>>
      BY <2>5 DEF Die, Running
    <3> QED
      BY <3>1, WaitByProcess DEF InQueue
  <2> QED
    BY <1>3, <2>1, <2>2, <2>3, <2>4, <2>5 DEF Client
<1>4. CASE Fail
  <2>1. /\ server' = "failed" /\ X \in dead' /\ dead' # {}
        /\ UNCHANGED <<remaining, role0, proc>>
    BY <1>4 DEF Fail
  <2> QED
    BY <2>1 DEF WaitInv, FailedIsDead, UnbornRemain, Role0IsLast, ConnectedIsKept,
                ServesUntilAll, Running
<1>5. CASE Server
  BY <1>5, WaitByServer
<1>6. CASE UNCHANGED vars
  BY <1>6 DEF vars, WaitInv, FailedIsDead, UnbornRemain, Role0IsLast, ConnectedIsKept,
              ServesUntilAll, InQueue, Running
<1> QED
  BY <1>1, <1>2, <1>3, <1>4, <1>5, <1>6 DEF Next, TestPy

\* Before the collection ends, a queue that is not empty, or a connection, lets somebody
\* go on: the sender of a connection sends, or has ended and is read to the end.
LEMMA ConnectionGoes ==
    ASSUME IInv, Listening, queue # <<>> \/ conn # None
    PROVE  SomebodyGoes
<1>1. CASE conn = None
  BY <1>1 DEF SomebodyGoes, ServerGoes
<1>2. CASE conn # None /\ proc[conn] # "exited"
  <2>1. conn \in Senders /\ proc[conn] = "sending"
    BY <1>2 DEF IInv, TypeOK, ConnectsOnce, Connected
  <2> QED
    BY <2>1 DEF SomebodyGoes, ClientGoes
<1>3. CASE conn # None /\ proc[conn] = "exited"
  <2>1. conn \in Senders /\ sent[conn] \in 0 .. 1 + Size /\ received \in 0 .. Size
    BY <1>3 DEF IInv, TypeOK
  <2>2. received = 0 \/ received <= sent[conn] - 1
    BY <1>3 DEF IInv, ReadsWhatWasSent
  <2>3. Available \in Nat
    BY <1>3, <2>1, <2>2, BoundsAssumption DEF Available
  <2>4. Available = 0 \/ Available > 0
    BY <2>3
  <2> QED
    BY <1>3, <2>4 DEF SomebodyGoes, ServerGoes, StoreWhatCame
<1> QED
  BY <1>1, <1>2, <1>3

\* While the server listens, a neighbor process that runs lets somebody go on.
LEMMA RunningGoes ==
    ASSUME IInv, Listening, NEW n \in Running
    PROVE  SomebodyGoes
<1>1. n \in Senders /\ proc[n] \in {"solving", "connecting", "sending"}
  BY DEF Running, IInv, TypeOK
<1>2. CASE proc[n] # "connecting"
  BY <1>1, <1>2 DEF SomebodyGoes, ClientGoes
<1>3. CASE proc[n] = "connecting" /\ Len(queue) <= Backlog
  BY <1>1, <1>3 DEF SomebodyGoes, ClientGoes
<1>4. CASE ~(Len(queue) <= Backlog)
  <2>1. queue # <<>>
    <3>1. Len(<<>>) = 0
      OBVIOUS
    <3> QED
      BY <1>4, <3>1, BoundsAssumption
  <2> QED
    BY <2>1, ConnectionGoes
<1> QED
  BY <1>2, <1>3, <1>4

\* When the server has left its loop no neighbor process runs that was started.
LEMMA CollectedGoes ==
    ASSUME IInv, server = "collected", ~role0
    PROVE  SomebodyGoes
<1>1. ASSUME NEW n \in Running PROVE FALSE
  <2>1. n \in Senders /\ proc[n] # "exited"
    BY DEF Running
  <2>2. PICK k \in DOMAIN data : data[k].owner = n
    BY <2>1, AllCollected DEF CollectedIsComplete
  <2> QED
    BY <2>1, <2>2 DEF IInv, ConnectsOnce
<1>2. Running = {}
  BY <1>1
<1> QED
  BY <1>2 DEF SomebodyGoes, TestPyGoes

\* test.py reaches the role 0 process without anybody waiting for ever on the way: a
\* process that test.py waits for goes on, or the server does, or it waits for a place in
\* the queue of a server that goes on; however many of the neighbor processes died, and
\* also after the server has left its loop.
THEOREM Role0NotBlockedInvariant == Spec => []Role0NotBlocked
<1>1. IInv /\ IInv' /\ WaitInv /\ [Next]_vars => WaitInv'
  BY WaitStep
<1>2. IInv /\ WaitInv => Role0NotBlocked
  <2> SUFFICES ASSUME IInv, WaitInv, ~role0, X \notin dead
               PROVE  SomebodyGoes
    BY DEF Role0NotBlocked
  <2>1. server \in {"starting", "listening", "collected"}
    BY DEF IInv, TypeOK, WaitInv, FailedIsDead
  <2>2. CASE server = "starting"
    BY <2>2 DEF SomebodyGoes, ServerGoes
  <2>3. CASE Running = {}
    BY <2>3 DEF SomebodyGoes, TestPyGoes
  <2>4. CASE server = "listening" /\ Running # {}
    BY <2>4, RunningGoes DEF Listening
  <2>5. CASE server = "collected"
    BY <2>5, CollectedGoes
  <2> QED
    BY <2>1, <2>2, <2>3, <2>4, <2>5
<1> QED
  BY <1>1, <1>2, WaitInit, InductiveInvariant, PTL DEF Spec

\* While nobody died the collection and test.py come to their ends without anybody waiting
\* for ever, provided that there is a neighbor: at the end all are stored, so the server
\* has left its loop.
THEOREM CollectionNotBlockedInvariant == Spec => []CollectionNotBlocked
<1>1. IInv /\ IInv' /\ WaitInv /\ [Next]_vars => WaitInv'
  BY WaitStep
<1>2. IInv /\ WaitInv => CollectionNotBlocked
  <2> SUFFICES ASSUME IInv, WaitInv, dead = {}, Neighbors # <<>>,
                      ~(role0 /\ server = "collected")
               PROVE  SomebodyGoes
    BY DEF CollectionNotBlocked
  <2>1. server \in {"starting", "listening", "collected"}
    BY DEF IInv, TypeOK, WaitInv, FailedIsDead
  <2>2. CASE server = "starting"
    BY <2>2 DEF SomebodyGoes, ServerGoes
  <2>3. CASE server = "listening" /\ (Running # {} \/ queue # <<>> \/ conn # None)
    BY <2>3, RunningGoes, ConnectionGoes DEF Listening
  <2>4. CASE server = "listening" /\ Running = {} /\ queue = <<>> /\ conn = None
    <3>1. CASE ~role0
      BY <2>4, <3>1 DEF SomebodyGoes, TestPyGoes
    <3>2. CASE role0
      <4>1. ASSUME NEW n \in Senders PROVE n \in DOMAIN data
        <5>1. remaining = <<>> /\ Len(<<>>) = 0
          BY <3>2 DEF WaitInv, Role0IsLast
        <5>2. proc[n] # "unborn"
          BY <5>1 DEF WaitInv, UnbornRemain
        <5>3. proc[n] = "exited"
          BY <2>4, <5>2 DEF Running
        <5>4. ~InQueue(n) /\ n # conn
          BY <2>4, <5>1, NeighborsAssumption DEF InQueue
        <5> QED
          BY <2>4, <5>3, <5>4 DEF WaitInv, ConnectedIsKept, Connected
      <4>2. /\ IsFiniteSet(DOMAIN data)
            /\ DOMAIN data \subseteq Senders \cup {X} /\ Senders \subseteq DOMAIN data
        <5>1. DOMAIN data \subseteq Senders \cup {X}
          BY DEF IInv, TypeOK
        <5>2. IsFiniteSet(Senders \cup {X})
          BY SendersFinite, FS_AddElement
        <5> QED
          BY <4>1, <5>1, <5>2, FS_Subset
      <4>3. Cardinality(Senders) <= Cardinality(DOMAIN data)
        BY <4>2, FS_Subset
      <4>4. Cardinality(DOMAIN data) < Len(Neighbors)
        BY <2>4 DEF WaitInv, ServesUntilAll
      <4>5. Cardinality(DOMAIN data) \in Nat
        BY <4>2, FS_CardinalityType
      <4>6. Cardinality(Senders) = Len(Neighbors) /\ Len(Neighbors) \in Nat
        BY SendersFinite, NeighborsAssumption
      <4> QED
        BY <4>3, <4>4, <4>5, <4>6
    <3> QED
      BY <3>1, <3>2
  <2>5. CASE server = "collected"
    BY <2>5, CollectedGoes
  <2> QED
    BY <2>1, <2>2, <2>3, <2>4, <2>5
<1> QED
  BY <1>1, <1>2, WaitInit, InductiveInvariant, PTL DEF Spec
-----------------------------------------------------------------------------
(* That the waiting ends: nothing is done twice and every step does        *)
(* something, so the set of what is still to be done shrinks.              *)

\* The things that can be left to be done are finitely many.
LEMMA FinitelyManyThings == IsFiniteSet(ToDo)
<1>1. IsFiniteSet({"role0", "listen", "serve", "launch", "solve", "connect", "exit", "accept",
                   "number", "store", "send", "read"})
  <2> DEFINE a1 == {"role0"}
             a2 == a1 \cup {"listen"}
             a3 == a2 \cup {"serve"}
             a4 == a3 \cup {"launch"}
             a5 == a4 \cup {"solve"}
             a6 == a5 \cup {"connect"}
             a7 == a6 \cup {"exit"}
             a8 == a7 \cup {"accept"}
             a9 == a8 \cup {"number"}
             a10 == a9 \cup {"store"}
             a11 == a10 \cup {"send"}
             a12 == a11 \cup {"read"}
  <2>1. IsFiniteSet(a1) BY FS_Singleton
  <2>2. IsFiniteSet(a2) BY <2>1, FS_AddElement
  <2>3. IsFiniteSet(a3) BY <2>2, FS_AddElement
  <2>4. IsFiniteSet(a4) BY <2>3, FS_AddElement
  <2>5. IsFiniteSet(a5) BY <2>4, FS_AddElement
  <2>6. IsFiniteSet(a6) BY <2>5, FS_AddElement
  <2>7. IsFiniteSet(a7) BY <2>6, FS_AddElement
  <2>8. IsFiniteSet(a8) BY <2>7, FS_AddElement
  <2>9. IsFiniteSet(a9) BY <2>8, FS_AddElement
  <2>10. IsFiniteSet(a10) BY <2>9, FS_AddElement
  <2>11. IsFiniteSet(a11) BY <2>10, FS_AddElement
  <2>12. IsFiniteSet(a12) BY <2>11, FS_AddElement
  <2> QED
    BY <2>12
<1>2. IsFiniteSet((Senders \cup {X}) \X (0 .. Size))
  <2>1. IsFiniteSet(Senders \cup {X})
    BY SendersFinite, FS_AddElement
  <2>2. IsFiniteSet(0 .. Size)
    BY FS_Interval, BoundsAssumption
  <2> QED
    BY <2>1, <2>2, FS_Product
<1>3. IsFiniteSet(Things)
  BY <1>1, <1>2, FS_Product DEF Things
<1> QED
  BY <1>3, FS_Subset DEF ToDo

\* One thing less and none more is a smaller set.
LEMMA OneThingLess ==
    ASSUME NEW what, NEW n \in Senders \cup {X}, NEW i \in 0 .. Size,
           <<what, <<n, i>>>> \in Things, Pending(what, n, i), ~Pending(what, n, i)',
           \A w, p : \A j \in 0 .. Size : Pending(w, p, j)' => Pending(w, p, j)
    PROVE  ToDo' \subseteq ToDo /\ ToDo' # ToDo
<1>1. ToDo' = {t \in Things : Pending(t[1], t[2][1], t[2][2])'}
  BY DEF ToDo
<1>2. ToDo' \subseteq ToDo
  BY <1>1 DEF ToDo, Things
<1>3. <<what, <<n, i>>>> \in ToDo /\ <<what, <<n, i>>>> \notin ToDo'
  BY <1>1 DEF ToDo
<1> QED
  BY <1>2, <1>3

\* A kind of thing that concerns test.py or the server, or one that concerns a neighbor.
LEMMA KindsOfThings ==
    ASSUME NEW what \in {"role0", "listen", "serve", "launch", "solve", "connect", "exit",
                         "accept", "number", "store", "send", "read"},
           NEW n \in Senders \cup {X}, NEW i \in 0 .. Size
    PROVE  <<what, <<n, i>>>> \in Things
BY DEF Things

\* A step of a neighbor process does one thing of it.
LEMMA LessByProcess ==
    ASSUME IInv, NEW n \in Senders, Client(n) \/ Die(n)
    PROVE  ToDo' \subseteq ToDo /\ ToDo' # ToDo
<1> USE DEF testVars, clientVars, serverVars
<1>1. 0 \in 0 .. Size /\ n # X
  BY BoundsAssumption, NeighborsAssumption
<1>2. CASE Solve(n)
  <2>1. /\ proc[n] = "solving" /\ proc' = [proc EXCEPT ![n] = "connecting"]
        /\ UNCHANGED <<role0, sent, server, queue, conn, clientId, received>>
    BY <1>2 DEF Solve
  <2>2. proc'[n] = "connecting" /\ \A p \in Senders \ {n} : proc'[p] = proc[p]
    BY <2>1 DEF IInv, TypeOK
  <2>3. \A w, p : \A j \in 0 .. Size : Pending(w, p, j)' => Pending(w, p, j)
    BY <2>1, <2>2 DEF Pending, Waiting, Unconnected, InQueue
  <2>4. Pending("solve", n, 0) /\ ~Pending("solve", n, 0)'
    BY <1>1, <2>1, <2>2 DEF Pending
  <2> QED
    BY <1>1, <2>3, <2>4, OneThingLess, KindsOfThings
<1>3. CASE Connect(n)
  <2>1. /\ proc[n] = "connecting" /\ proc' = [proc EXCEPT ![n] = "sending"]
        /\ queue' = Append(queue, n)
        /\ UNCHANGED <<role0, sent, server, conn, clientId, received>>
    BY <1>3 DEF Connect
  <2>2. proc'[n] = "sending" /\ \A p \in Senders \ {n} : proc'[p] = proc[p]
    BY <2>1 DEF IInv, TypeOK
  <2>3. \A p \in Senders : InQueue(p)' => InQueue(p) \/ p = n
    BY <2>1 DEF InQueue, IInv, TypeOK
  <2>4. \A p \in Senders : Waiting(p)' => Waiting(p)
    BY <2>1, <2>2, <2>3 DEF Waiting, Unconnected
  <2>5. \A w, p : \A j \in 0 .. Size : Pending(w, p, j)' => Pending(w, p, j)
    BY <2>1, <2>2, <2>4 DEF Pending, Unconnected
  <2>6. Pending("connect", n, 0) /\ ~Pending("connect", n, 0)'
    BY <1>1, <2>1, <2>2 DEF Pending, Unconnected
  <2> QED
    BY <1>1, <2>5, <2>6, OneThingLess, KindsOfThings
<1>4. CASE Send(n)
  <2>1. /\ proc[n] = "sending" /\ sent[n] \in 0 .. Size
        /\ sent' = [sent EXCEPT ![n] = @ + 1]
        /\ UNCHANGED <<role0, proc, server, queue, conn, clientId, received>>
    BY <1>4, BoundsAssumption DEF Send, IInv, TypeOK
  <2>2. sent'[n] = sent[n] + 1 /\ \A p \in Senders \ {n} : sent'[p] = sent[p]
    BY <2>1 DEF IInv, TypeOK
  <2>3. \A w, p : \A j \in 0 .. Size : Pending(w, p, j)' => Pending(w, p, j)
    BY <2>1, <2>2 DEF Pending, Waiting, Unconnected, InQueue
  <2>4. PICK i \in 0 .. Size : i = sent[n]
    BY <2>1
  <2>5. Pending("send", n, i) /\ ~Pending("send", n, i)'
    BY <1>1, <2>1, <2>2, <2>4 DEF Pending
  <2> QED
    BY <1>1, <2>3, <2>5, OneThingLess, KindsOfThings
<1>5. CASE Exit(n) \/ Refused(n) \/ Die(n)
  <2>1. /\ proc[n] \notin {"unborn", "exited"} /\ proc' = [proc EXCEPT ![n] = "exited"]
        /\ UNCHANGED <<role0, sent, server, queue, conn, clientId, received>>
    BY <1>5 DEF Exit, Refused, Die, Running
  <2>2. proc'[n] = "exited" /\ \A p \in Senders \ {n} : proc'[p] = proc[p]
    BY <2>1 DEF IInv, TypeOK
  <2>3. \A w, p : \A j \in 0 .. Size : Pending(w, p, j)' => Pending(w, p, j)
    BY <2>1, <2>2 DEF Pending, Waiting, Unconnected, InQueue
  <2>4. Pending("exit", n, 0) /\ ~Pending("exit", n, 0)'
    BY <1>1, <2>1, <2>2 DEF Pending
  <2> QED
    BY <1>1, <2>3, <2>4, OneThingLess, KindsOfThings
<1> QED
  BY <1>2, <1>3, <1>4, <1>5 DEF Client

\* A step of the role 1 process does one thing of the connection, or ends its service.
LEMMA LessByServer ==
    ASSUME IInv, IInv', Server \/ Fail
    PROVE  ToDo' \subseteq ToDo /\ ToDo' # ToDo
<1> USE DEF testVars, clientVars, serverVars
<1>1. 0 \in 0 .. Size /\ X \notin Senders /\ None \notin Senders \cup {X}
  BY BoundsAssumption, NeighborsAssumption
<1>2. CASE Listen
  <2>1. /\ server = "starting" /\ server' = "listening"
        /\ UNCHANGED <<role0, proc, sent, queue, conn, clientId, received>>
    BY <1>2 DEF Listen
  <2>2. \A w, p : \A j \in 0 .. Size : Pending(w, p, j)' => Pending(w, p, j)
    BY <2>1 DEF Pending, Waiting, Unconnected, InQueue
  <2>3. Pending("listen", X, 0) /\ ~Pending("listen", X, 0)'
    BY <1>1, <2>1 DEF Pending
  <2> QED
    BY <1>1, <2>2, <2>3, OneThingLess, KindsOfThings
<1>3. CASE Fail
  <2>1. /\ server \in {"starting", "listening"} /\ server' = "failed"
        /\ queue' = <<>> /\ conn' = None
        /\ UNCHANGED <<role0, proc, sent>>
    BY <1>3 DEF Fail
  <2>2. \A p : ~InQueue(p)'
    BY <2>1 DEF InQueue
  <2>3. \A w, p : \A j \in 0 .. Size : Pending(w, p, j)' => Pending(w, p, j)
    BY <1>1, <2>1, <2>2 DEF Pending, Waiting, Unconnected
  <2>4. Pending("serve", X, 0) /\ ~Pending("serve", X, 0)'
    BY <1>1, <2>1 DEF Pending
  <2> QED
    BY <1>1, <2>3, <2>4, OneThingLess, KindsOfThings
<1>4. CASE Accept
  <2>1. /\ conn = None /\ queue # <<>> /\ conn' = Head(queue) /\ queue' = Tail(queue)
        /\ UNCHANGED <<role0, proc, sent, server, clientId, received>>
    BY <1>4 DEF Accept
  <2>2. /\ Len(queue) \in Nat \ {0} /\ conn' = queue[1] /\ conn' \in Senders
        /\ Len(queue') = Len(queue) - 1
        /\ \A i \in 1 .. Len(queue) - 1 : queue'[i] = queue[i + 1] /\ i + 1 \in 2 .. Len(queue)
    BY <2>1 DEF IInv, TypeOK
  <2>3. \A p : InQueue(p)' => InQueue(p)
    BY <2>2 DEF InQueue
  <2>4. InQueue(conn')
    BY <2>2 DEF InQueue
  <2>5. PICK n \in Senders : n = conn'
    BY <2>2
  <2>6. ~InQueue(n)' /\ proc[n] \in Connected
    BY <2>1, <2>2, <2>5 DEF IInv, ConnectsOnce, InQueue
  <2>7. \A w, p : \A j \in 0 .. Size : Pending(w, p, j)' => Pending(w, p, j)
    BY <2>1, <2>3, <2>4 DEF Pending, Waiting, Unconnected
  <2>8. Pending("accept", n, 0) /\ ~Pending("accept", n, 0)'
    BY <1>1, <2>1, <2>4, <2>5, <2>6 DEF Pending, Waiting, Unconnected, Connected
  <2> QED
    BY <1>1, <2>7, <2>8, OneThingLess, KindsOfThings
<1>5. CASE ReadId \/ ReadMore \/ Store
  <2>1. conn # None /\ conn \in Senders /\ UNCHANGED <<role0, proc, sent>>
    BY <1>5 DEF ReadId, ReadMore, Store, StoreAndLeaveAt, StoreWhatCame, IInv, TypeOK
  <2>2. PICK n \in Senders : n = conn
    BY <2>1
  <2>3. ~InQueue(n) /\ proc[n] \in Connected
    BY <2>1, <2>2 DEF IInv, ConnectsOnce, InQueue
  <2>4. CASE ReadId
    <3>1. /\ clientId = None /\ clientId' # None
          /\ UNCHANGED <<server, queue, conn, received>>
      BY <1>1, <2>4 DEF ReadId, IInv, TypeOK
    <3>2. \A w, p : \A j \in 0 .. Size : Pending(w, p, j)' => Pending(w, p, j)
      BY <2>1, <3>1 DEF Pending, Waiting, Unconnected, InQueue
    <3>3. ~InQueue(n)'
      BY <2>3, <3>1 DEF InQueue
    <3>4. Pending("number", n, 0) /\ ~Pending("number", n, 0)'
      BY <1>1, <2>1, <2>2, <2>3, <3>1, <3>3 DEF Pending, Waiting, Unconnected, Connected
    <3> QED
      BY <1>1, <3>2, <3>4, OneThingLess, KindsOfThings
  <2>5. CASE ReadMore
    <3>1. UNCHANGED <<server, queue, conn, clientId>>
      BY <2>5 DEF ReadMore
    <3>2. sent[conn] \in 0 .. 1 + Size /\ received \in 0 .. Size
      BY <2>1 DEF IInv, TypeOK
    <3>3. PICK k \in 1 .. Available : received' = received + k
      BY <2>5 DEF ReadMore
    <3>4. received < received' /\ received < Size
      BY <3>2, <3>3, BoundsAssumption DEF Available
    <3>5. PICK i \in 0 .. Size : i = received
      BY <3>2
    <3>6. \A w, p : \A j \in 0 .. Size : Pending(w, p, j)' => Pending(w, p, j)
      BY <2>1, <3>1, <3>2, <3>3, <3>4 DEF Pending, Waiting, Unconnected, InQueue
    <3>7. ~InQueue(n)'
      BY <2>3, <3>1 DEF InQueue
    <3>8. i + 1 \in 0 .. Size
      BY <3>2, <3>4, <3>5, BoundsAssumption
    <3>9. Pending("read", n, i + 1) /\ ~Pending("read", n, i + 1)'
      BY <1>1, <2>1, <2>2, <2>3, <3>1, <3>2, <3>3, <3>5, <3>7
      DEF Pending, Waiting, Unconnected, Connected
    <3> QED
      BY <1>1, <3>6, <3>8, <3>9, OneThingLess, KindsOfThings
  <2>6. CASE Store
    <3>1. /\ conn' = None /\ server' \in {server, "collected"}
          /\ queue' \in {queue, <<>>}
      BY <2>6 DEF Store, StoreAndLeaveAt
    <3>2. \A p : InQueue(p)' => InQueue(p)
      BY <3>1 DEF InQueue
    <3>3. \A w, p : \A j \in 0 .. Size : Pending(w, p, j)' => Pending(w, p, j)
      BY <1>1, <2>1, <3>1, <3>2 DEF Pending, Waiting, Unconnected
    <3>4. Pending("store", n, 0) /\ ~Pending("store", n, 0)'
      BY <1>1, <2>1, <2>2, <2>3, <3>1, <3>2 DEF Pending, Waiting, Unconnected, Connected
    <3> QED
      BY <1>1, <3>3, <3>4, OneThingLess, KindsOfThings
  <2> QED
    BY <1>5, <2>4, <2>5, <2>6
<1> QED
  BY <1>2, <1>3, <1>4, <1>5 DEF Server

\* A step of test.py starts processes not started before.
LEMMA LessByTestPy ==
    ASSUME IInv, TestPy
    PROVE  ToDo' \subseteq ToDo /\ ToDo' # ToDo
<1> USE DEF clientVars, serverVars
<1>1. 0 \in 0 .. Size /\ X \notin Senders
  BY BoundsAssumption, NeighborsAssumption
<1>2. CASE LaunchBatch
  <2>1. UNCHANGED <<role0, sent, server, queue, conn, clientId, received>>
    BY <1>2 DEF LaunchBatch
  <2>2. /\ \E i \in 1 .. Len(remaining) : remaining[i] \in ToSet(FirstBatch)
        /\ \A n \in ToSet(FirstBatch) : \E i \in 1 .. Len(remaining) : remaining[i] = n
        /\ ToSet(FirstBatch) \subseteq Senders
    BY <1>2, BatchIsCut DEF IInv
  <2>3. \A n \in ToSet(FirstBatch) : proc[n] = "unborn" /\ proc'[n] = "solving"
    BY <1>2, <2>2 DEF IInv, ConnectsOnce, LaunchBatch
  <2>4. \A n \in Senders \ ToSet(FirstBatch) : proc'[n] = proc[n]
    BY <1>2 DEF LaunchBatch
  <2>5. \A n \in Senders : proc'[n] = proc[n] \/ (proc[n] = "unborn" /\ proc'[n] = "solving")
    BY <2>3, <2>4
  <2>6. \A w, p : \A j \in 0 .. Size : Pending(w, p, j)' => Pending(w, p, j)
    BY <2>1, <2>5 DEF Pending, Waiting, Unconnected, InQueue
  <2>7. PICK n \in Senders : n \in ToSet(FirstBatch)
    BY <2>2
  <2>8. Pending("launch", n, 0) /\ ~Pending("launch", n, 0)'
    BY <1>1, <2>3, <2>7 DEF Pending
  <2> QED
    BY <1>1, <2>6, <2>8, OneThingLess, KindsOfThings
<1>3. CASE LaunchRole0
  <2>1. /\ ~role0 /\ role0'
        /\ UNCHANGED <<proc, sent, server, queue, conn, clientId, received>>
    BY <1>3 DEF LaunchRole0
  <2>2. \A w, p : \A j \in 0 .. Size : Pending(w, p, j)' => Pending(w, p, j)
    BY <2>1 DEF Pending, Waiting, Unconnected, InQueue
  <2>3. Pending("role0", X, 0) /\ ~Pending("role0", X, 0)'
    BY <1>1, <2>1 DEF Pending
  <2> QED
    BY <1>1, <2>2, <2>3, OneThingLess, KindsOfThings
<1> QED
  BY <1>2, <1>3 DEF TestPy

\* What is left to be done is finite and shrinks with every step of test.py, a neighbor
\* process or the role 1 process, deaths included: no process is started, connected, read
\* or stored twice, and every run of the collection comes to an end.
THEOREM LessAndLessToDo ==
    Spec => []IsFiniteSet(ToDo) /\ [][ToDo' \subseteq ToDo /\ ToDo' # ToDo]_vars
<1>1. IInv /\ IInv' /\ [Next]_vars
        => [ToDo' \subseteq ToDo /\ ToDo' # ToDo]_vars
  BY LessByTestPy, LessByProcess, LessByServer DEF Next
<1>2. IInv => IsFiniteSet(ToDo)
  BY FinitelyManyThings
<1> QED
  BY <1>1, <1>2, InductiveInvariant, PTL DEF Spec
=============================================================================
