---------------------------- MODULE Streams_proofs ----------------------------
(***************************************************************************)
(* Proofs about the streams, for every value of the constants.             *)
(*                                                                         *)
(* ConnectionSetup: each step of a role is at a known place of its script, *)
(* so a connection is over the port of its name; and where the two roles   *)
(* are determines what they have exchanged of their sums.  The scripts are *)
(* mirror images, so that of the two the one that is behind can go on, or  *)
(* both to the same place.                                                 *)
(*                                                                         *)
(* NetIO: a place on a stream is the number of the writer's bytes up to    *)
(* there.  Between the place of the reader and that of the writer are, in  *)
(* order, exactly the bytes between the two places, so that a reader finds *)
(* the bytes of the message it is to receive.  That no end has read ahead  *)
(* when it begins to write follows from the places of both: the other end  *)
(* sends no more before it has had what is about to be written.            *)
(***************************************************************************)
EXTENDS ConnectionSetup, NetIO, FiniteSetTheorems, SequenceTheorems, TLAPS

\* The port of each connection, in both scripts.
PortOf == [sock |-> 7777, io |-> 8080, io2 |-> 8081, test |-> 8085,
           arr0 |-> 7778, arr1 |-> 7779, arr2 |-> 7780]

\* Where in the scripts is what.
LEMMA ScriptSteps ==
    ASSUME NEW r \in Roles, NEW i \in 1 .. 17
    PROVE  LET s == Script(r)[i] IN
           /\ Len(Script(r)) = 17 /\ DOMAIN Script(r) = 1 .. 17
           /\ s.do = "key" => i \in {1, 12}
           /\ s.do \in {"listen", "dial"} =>
                /\ i \in {2, 3, 4, 5, 7, 8, 9} /\ s.name \in Names
                /\ s.port = PortOf[s.name]
                /\ s.do = "dial" /\ s.name = "sock" => r = 1 /\ i = 2
           /\ s.do = "send" =>
                /\ s.name \in Names
                /\ (s.name = "sock" <=> i = 15 + r)
                /\ i # 15 + r => i < 13
           /\ s.do = "receive" =>
                /\ s.name \in Names
                /\ (s.name = "sock" <=> i = 16 - r)
                /\ i # 16 - r => i < 13
           /\ s.do = "reset" => i = 10
           /\ s.do = "psi" => i = 13
           /\ s.do = "accumulate" => i = 14
           /\ s.do = "print" => i = 17
<1> USE DEF Listen, Dial, Key, Reset, Send, Receive,
            Psi, Accumulate, PrintTotals, Port, Names, PortOf
<1>1. CASE r = 0
  BY <1>1 DEF Script, ServerScript, SERVER
<1>2. CASE r = 1
  BY <1>2 DEF Script, ClientScript, SERVER
<1> QED
  BY <1>1, <1>2 DEF Roles, SERVER, CLIENT

\* Bytes by role and stream.
Counts == [Roles -> [Counted -> Int]]

\* Where the roles are, and over which ports they are connected.
Places ==
    /\ pc \in [Roles -> 0 .. 18] /\ pc[0] # 0
    /\ link \in [Roles -> [Names -> {None} \cup 7777 .. 8085]]
    /\ \A r \in Roles, n \in Names : link[r][n] \in {None, PortOf[n]}

\* The sums, and what they are made of.
SumTypes ==
    /\ counter \in Counts /\ start \in Counts
    /\ sentSCI \in [Roles -> Int] /\ recvSCI \in [Roles -> Int]
    /\ messages \in [Names -> [Roles -> Seq(Int)]]

\* The two sums change hands: each is read as what it was sent for.
SumFlow ==
    /\ (pc[0] > 13) <=> (pc[1] > 13)
    /\ pc[0] > 14 => sentSCI[0] = SciBytes(0)
    /\ pc[1] > 14 => sentSCI[1] = SciBytes(1)
    /\ messages["sock"][1] = IF pc[0] > 15 /\ pc[1] <= 15 THEN <<sentSCI[0]>> ELSE <<>>
    /\ messages["sock"][0] = IF pc[1] > 16 /\ pc[0] <= 16 THEN <<sentSCI[1]>> ELSE <<>>
    /\ pc[1] > 15 => pc[0] > 15 /\ recvSCI[1] = sentSCI[0]
    /\ pc[0] > 16 => pc[1] > 16 /\ recvSCI[0] = sentSCI[1]

Sums == SumTypes /\ SumFlow

SetupInv == Places /\ Sums

\* At the start nothing is connected, sent or summed.
LEMMA SetupInvInit == SetupInit => SetupInv
<1> SUFFICES ASSUME SetupInit PROVE SetupInv
  OBVIOUS
<1> USE DEF Roles, SERVER, CLIENT
<1>1. Places
  BY DEF SetupInit, Places
<1>2. Sums
  BY DEF SetupInit, Sums, SumTypes, SumFlow, Counts, Names
<1> QED
  BY <1>1, <1>2 DEF SetupInv

\* A step of role r to the next place of its script.
LEMMA OneAdvances ==
    ASSUME Places, NEW r \in Roles, pc[r] \in 1 .. 17, Advance(r)
    PROVE  /\ pc' \in [Roles -> 0 .. 18] /\ pc'[0] # 0
           /\ pc'[r] = pc[r] + 1 /\ pc'[1 - r] = pc[1 - r] /\ 1 - r \in Roles
  BY DEF Places, Advance, Roles, SERVER, CLIENT

\* A step that connects nothing.
LEMMA PlacesKept ==
    ASSUME SetupInv, link' = link, pc' \in [Roles -> 0 .. 18], pc'[0] # 0
    PROVE  Places'
  BY DEF SetupInv, Places

\* The bytes of the circuit are a number, and depend on the counters alone.
LEMMA SciBytesKept ==
    ASSUME counter \in Counts, start \in Counts
    PROVE  \A q \in Roles :
             /\ SciBytes(q) \in Int
             /\ counter' = counter /\ start' = start => SciBytes(q)' = SciBytes(q)
<1> TAKE q \in Roles
<1>1. /\ counter[q]["arr0"] \in Int /\ counter[q]["arr1"] \in Int
      /\ start[q]["arr0"] \in Int /\ start[q]["arr1"] \in Int
  BY DEF Counts, Counted
<1> QED
  BY <1>1 DEF SciBytes

\* A step at which nothing is done to the sums.
LEMMA SumsKept ==
    ASSUME Sums, Places, Places', UNCHANGED <<counter, start, sentSCI, recvSCI>>,
           messages' \in [Names -> [Roles -> Seq(Int)]],
           messages'["sock"][0] = messages["sock"][0],
           messages'["sock"][1] = messages["sock"][1],
           \A q \in Roles, k \in 13 .. 16 : (pc'[q] > k) <=> (pc[q] > k)
    PROVE  Sums'
<1> USE DEF Roles, SERVER, CLIENT
<1>1. \A q \in Roles : SciBytes(q)' = SciBytes(q)
  BY SciBytesKept DEF Sums, SumTypes
<1>2. \A q \in Roles :
        /\ pc'[q] \in Int /\ pc[q] \in Int
        /\ (pc'[q] > 13) <=> (pc[q] > 13)
        /\ (pc'[q] > 14) <=> (pc[q] > 14)
        /\ (pc'[q] > 15) <=> (pc[q] > 15)
        /\ (pc'[q] > 16) <=> (pc[q] > 16)
  <2> TAKE q \in Roles
  <2>1. \A k \in 13 .. 16 : (pc'[q] > k) <=> (pc[q] > k)
    OBVIOUS
  <2>2. pc'[q] \in Int /\ pc[q] \in Int
    BY DEF Places
  <2> QED
    BY <2>1, <2>2
<1>3. SumTypes'
  BY DEF Sums, SumTypes
<1>4. SumFlow'
  BY <1>1, <1>2 DEF Sums, SumFlow
<1> QED
  BY <1>3, <1>4 DEF Sums

\* Every step of the roles keeps the invariant.
LEMMA SetupInvStep == SetupInv /\ [SetupNext]_setupVars => SetupInv'
<1> SUFFICES ASSUME SetupInv, [SetupNext]_setupVars PROVE SetupInv'
  OBVIOUS
<1> USE DEF Roles, SERVER, CLIENT, network, keys, totals
<1>1. ASSUME UNCHANGED <<pc, link, messages, counter, start, sentSCI, recvSCI>> PROVE SetupInv'
  <2>1. Places'
    BY <1>1 DEF SetupInv, Places
  <2>2. messages' \in [Names -> [Roles -> Seq(Int)]]
    BY <1>1 DEF SetupInv, Sums, SumTypes
  <2>3. Sums'
    BY <1>1, <2>1, <2>2, SumsKept DEF SetupInv
  <2> QED
    BY <2>1, <2>3 DEF SetupInv
<1>2. ASSUME NEW r \in Roles, NEW do, At(r, do)
      PROVE  pc[r] \in 1 .. 17 /\ Step(r) = Script(r)[pc[r]]
             /\ Script(r)[pc[r]].do = do
  <2>1. DOMAIN Script(r) = 1 .. 17
    BY ScriptSteps
  <2> QED
    BY <1>2, <2>1 DEF At, Step
\* A connection, or a key: a role goes on in a part of the script that has no sums.
<1>3. ASSUME NEW r \in Roles, pc[r] \in 1 .. 12, Advance(r),
             \A q \in Roles, n \in Names : link'[q][n] \in {None, PortOf[n]},
             link' \in [Roles -> [Names -> {None} \cup 7777 .. 8085]],
             UNCHANGED <<messages, counter, start, sentSCI, recvSCI>>
      PROVE  SetupInv'
  <2>1. /\ pc' \in [Roles -> 0 .. 18] /\ pc'[0] # 0
        /\ pc'[r] = pc[r] + 1 /\ pc'[1 - r] = pc[1 - r]
    BY <1>3, OneAdvances DEF SetupInv
  <2>2. Places'
    BY <1>3, <2>1, SMTT(30) DEF SetupInv, Places
  <2>3. \A q \in Roles, k \in 13 .. 16 : (pc'[q] > k) <=> (pc[q] > k)
    BY <1>3, <2>1 DEF SetupInv, Places
  <2>4. messages' \in [Names -> [Roles -> Seq(Int)]]
    BY <1>3 DEF SetupInv, Sums, SumTypes
  <2>5. Sums'
    BY <1>3, <2>2, <2>3, <2>4, SumsKept DEF SetupInv
  <2> QED
    BY <2>2, <2>5 DEF SetupInv
<1>4. CASE TypeLine
  BY <1>1, <1>4 DEF TypeLine
<1>5. CASE RunPsi
  <2>1. pc[0] = 13 /\ pc[1] = 13
    BY <1>2, <1>5, ScriptSteps DEF RunPsi
  <2>2. /\ pc' = [r \in Roles |-> pc[r] + 1]
        /\ UNCHANGED <<link, messages, start, sentSCI, recvSCI>>
    BY <1>5 DEF RunPsi
  <2>3. counter' \in Counts
    <3>1. PICK sent \in [Roles -> [Counted -> 0 .. MaxBytes]] :
             counter' = [r \in Roles |-> [n \in Counted |-> counter[r][n] + sent[r][n]]]
      BY <1>5 DEF RunPsi
    <3>2. \A r \in Roles, n \in Counted : counter[r][n] \in Int /\ sent[r][n] \in Int
      BY DEF SetupInv, Sums, SumTypes, Counts
    <3>3. \A r \in Roles, n \in Counted : counter[r][n] + sent[r][n] \in Int
      BY <3>2
    <3>4. \A r \in Roles : [n \in Counted |-> counter[r][n] + sent[r][n]]
                                  \in [Counted -> Int]
      BY <3>3
    <3> QED
      BY <3>1, <3>4 DEF SetupInv, Sums, SumTypes, Counts
  <2>4. Places'
    BY <2>1, <2>2, PlacesKept
  <2>5. Sums'
    <3>1. pc'[0] = 14 /\ pc'[1] = 14
      BY <2>1, <2>2
    <3>2. SumTypes'
      BY <2>2, <2>3 DEF SetupInv, Sums, SumTypes
    <3>3. SumFlow'
      BY <2>1, <2>2, <3>1 DEF SetupInv, Sums, SumFlow
    <3> QED
      BY <3>2, <3>3 DEF Sums
  <2> QED
    BY <2>4, <2>5 DEF SetupInv
<1>6. ASSUME NEW r \in Roles, ReadLine(r) \/ Bind(r) PROVE SetupInv'
  BY <1>1, <1>6 DEF ReadLine, Bind
<1>7. ASSUME NEW r \in Roles, GetChar(r) PROVE SetupInv'
  <2>1. At(r, "key") /\ Advance(r)
        /\ UNCHANGED <<link, messages, counter, start, sentSCI, recvSCI>>
    BY <1>7 DEF GetChar
  <2>2. pc[r] \in 1 .. 12
    BY <1>2, <2>1, ScriptSteps
  <2> QED
    BY <1>3, <2>1, <2>2 DEF SetupInv, Places
<1>8. ASSUME NEW r \in Roles, Accept(r) \/ Connect(r) PROVE SetupInv'
  <2>1. /\ Advance(r)
        /\ link' = [link EXCEPT ![r][Step(r).name] = Step(r).port]
        /\ UNCHANGED <<messages, counter, start, sentSCI, recvSCI>>
        /\ \E do \in {"listen", "dial"} : At(r, do)
    BY <1>8 DEF Accept, Connect
  <2>2. pc[r] \in 1 .. 12 /\ Step(r).name \in Names
        /\ Step(r).port = PortOf[Step(r).name]
    BY <1>2, <2>1, ScriptSteps
  <2>3. \A n \in Names : PortOf[n] \in 7777 .. 8085
    BY DEF PortOf, Names
  <2>4. /\ \A q \in Roles, n \in Names : link'[q][n] \in {None, PortOf[n]}
        /\ link' \in [Roles -> [Names -> {None} \cup 7777 .. 8085]]
    BY <2>1, <2>2, <2>3 DEF SetupInv, Places
  <2> QED
    BY <1>3, <2>1, <2>2, <2>4, SMTT(30)
<1>9. ASSUME NEW r \in Roles, ConnectFails(r) PROVE SetupInv'
  <2>1. /\ At(r, "dial") /\ Step(r).name = "sock"
        /\ UNCHANGED <<link, messages, counter, start, sentSCI, recvSCI>>
        /\ pc' = pc \/ pc' = [pc EXCEPT ![r] = 0]
    BY <1>9 DEF ConnectFails
  <2>2. r = 1 /\ pc[r] = 2
    BY <1>2, <2>1, ScriptSteps
  <2>3. CASE pc' = [pc EXCEPT ![r] = 0]
    <3>1. pc' \in [Roles -> 0 .. 18] /\ pc'[0] = pc[0] /\ pc'[1] = 0
      BY <2>2, <2>3 DEF SetupInv, Places
    <3>2. Places'
      BY <2>1, <3>1, SMTT(30) DEF SetupInv, Places
    <3>3. \A q \in Roles, k \in 13 .. 16 : (pc'[q] > k) <=> (pc[q] > k)
      BY <2>2, <3>1 DEF SetupInv, Places
    <3>4. messages' \in [Names -> [Roles -> Seq(Int)]]
      BY <2>1 DEF SetupInv, Sums, SumTypes
    <3>5. Sums'
      BY <2>1, <3>2, <3>3, <3>4, SumsKept DEF SetupInv
    <3> QED
      BY <3>2, <3>5 DEF SetupInv
  <2> QED
    BY <1>1, <2>1, <2>3
<1>10. ASSUME NEW r \in Roles, SendNext(r) PROVE SetupInv'
  <2>1. /\ At(r, "send") /\ Advance(r)
        /\ messages' = [messages EXCEPT ![Step(r).name][Peer(r)] =
                          Append(@, sentSCI[r])]
        /\ UNCHANGED <<link, counter, start, sentSCI, recvSCI>>
    BY <1>10 DEF SendNext
  <2> DEFINE n == Step(r).name
  <2>2. /\ pc[r] \in 1 .. 17 /\ n \in Names /\ (n = "sock" <=> pc[r] = 15 + r)
        /\ pc[r] # 15 + r => pc[r] < 13
    <3>1. pc[r] \in 1 .. 17 /\ Step(r) = Script(r)[pc[r]]
          /\ Script(r)[pc[r]].do = "send"
      BY <1>2, <2>1
    <3>2. LET s == Script(r)[pc[r]] IN
          s.do = "send" => /\ s.name \in Names /\ (s.name = "sock" <=> pc[r] = 15 + r)
                           /\ pc[r] # 15 + r => pc[r] < 13
      BY <3>1, ScriptSteps
    <3> QED
      BY <3>1, <3>2
  <2>3. /\ pc' \in [Roles -> 0 .. 18] /\ pc'[0] # 0
        /\ pc'[r] = pc[r] + 1 /\ pc'[1 - r] = pc[1 - r]
    BY <2>1, <2>2, OneAdvances DEF SetupInv
  <2> HIDE DEF n
  <2>4. /\ messages' \in [Names -> [Roles -> Seq(Int)]]
        /\ messages'["sock"][r] = messages["sock"][r]
        /\ messages'["sock"][1 - r] = IF n = "sock" THEN Append(messages["sock"][1 - r], sentSCI[r])
                                      ELSE messages["sock"][1 - r]
    <3>1. messages' = [messages EXCEPT ![n][1 - r] = Append(messages[n][1 - r], sentSCI[r])]
      BY <2>1 DEF n, Peer
    <3>2. "sock" \in Names
      BY DEF Names
    <3>3. messages \in [Names -> [Roles -> Seq(Int)]] /\ sentSCI[r] \in Int
      BY DEF SetupInv, Sums, SumTypes
    <3>4. r \in Roles /\ 1 - r \in Roles /\ 1 - r # r /\ n \in Names
      BY <2>2 DEF Roles, SERVER, CLIENT
    <3> DEFINE q == 1 - r
               m == Append(messages[n][q], sentSCI[r])
               M == [messages[n] EXCEPT ![q] = m]
    <3>5. m \in Seq(Int)
      BY <3>3, <3>4
    <3>6. q \in Roles /\ q # r /\ messages' = [messages EXCEPT ![n] = M]
      BY <3>1, <3>4
    <3> HIDE DEF m, q
    <3>7. M \in [Roles -> Seq(Int)] /\ M[q] = m /\ M[r] = messages[n][r]
      BY <3>3, <3>4, <3>5, <3>6
    <3>8. messages'["sock"] = IF n = "sock" THEN M ELSE messages["sock"]
      <4> HIDE DEF M
      <4> QED
        BY <3>2, <3>3, <3>6
    <3>9. messages' \in [Names -> [Roles -> Seq(Int)]]
      <4> HIDE DEF M
      <4> QED
        BY <3>3, <3>4, <3>6, <3>7
    <3>10. CASE n = "sock"
      <4> HIDE DEF M
      <4>1. messages'["sock"][r] = messages["sock"][r] /\ messages'["sock"][q] = m
        BY <3>7, <3>8, <3>10
      <4> QED
        BY <3>9, <3>10, <4>1 DEF m, q
    <3>11. CASE n # "sock"
      BY <3>8, <3>9, <3>11
    <3> QED
      BY <3>10, <3>11
  <2>5. Places'
    BY <2>1, <2>3, PlacesKept
  <2>6. CASE n # "sock"
    <3>1. \A q \in Roles, k \in 13 .. 16 : (pc'[q] > k) <=> (pc[q] > k)
      BY <2>2, <2>3, <2>6 DEF SetupInv, Places
    <3>2. /\ messages'["sock"][0] = messages["sock"][0]
          /\ messages'["sock"][1] = messages["sock"][1]
      BY <2>4, <2>6
    <3>3. Sums'
      BY <2>1, <2>4, <2>5, <3>1, <3>2, SumsKept DEF SetupInv
    <3> QED
      BY <2>5, <3>3 DEF SetupInv
  <2>7. CASE n = "sock"
    <3>1. \A q \in Roles : SciBytes(q)' = SciBytes(q)
      BY <2>1, SciBytesKept DEF SetupInv, Sums, SumTypes
    <3>2. messages["sock"][1 - r] = <<>>
      BY <2>2, <2>7 DEF SetupInv, Sums, SumFlow
    <3>3. messages'["sock"][1 - r] = <<sentSCI[r]>>
      BY <2>4, <2>7, <3>2
    <3>4. CASE r = 0
      <4>1. pc[0] = 15 /\ pc'[0] = 16 /\ pc'[1] = pc[1] /\ pc[1] \in 0 .. 18
        BY <2>2, <2>3, <2>7, <3>4 DEF SetupInv, Places
      <4>2. /\ messages'["sock"][0] = messages["sock"][0]
            /\ messages'["sock"][1] = <<sentSCI[0]>>
        BY <2>4, <3>3, <3>4
      <4>3. pc[1] <= 15
        BY <4>1 DEF SetupInv, Sums, SumFlow
      <4>4. Sums'
        <5>1. SumTypes'
          BY <2>1, <2>4, <3>1, <4>1, <4>2, <4>3 DEF SetupInv, Sums, SumTypes
        <5>2. SumFlow'
          <6>1. SumFlow /\ sentSCI' = sentSCI /\ recvSCI' = recvSCI
            BY <2>1 DEF SetupInv, Sums
          <6> QED
            BY <3>1, <4>1, <4>2, <4>3, <6>1 DEF SumFlow
        <5> QED
          BY <5>1, <5>2 DEF Sums
      <4> QED
        BY <2>5, <4>4 DEF SetupInv
    <3>5. CASE r = 1
      <4>1. pc[1] = 16 /\ pc'[1] = 17 /\ pc'[0] = pc[0] /\ pc[0] \in 0 .. 18
        BY <2>2, <2>3, <2>7, <3>5 DEF SetupInv, Places
      <4>2. /\ messages'["sock"][1] = messages["sock"][1]
            /\ messages'["sock"][0] = <<sentSCI[1]>>
        BY <2>4, <3>3, <3>5
      <4>3. pc[0] <= 16
        BY <4>1 DEF SetupInv, Sums, SumFlow
      <4>4. Sums'
        <5>1. SumTypes'
          BY <2>1, <2>4, <3>1, <4>1, <4>2, <4>3 DEF SetupInv, Sums, SumTypes
        <5>2. SumFlow'
          <6>1. SumFlow /\ sentSCI' = sentSCI /\ recvSCI' = recvSCI
            BY <2>1 DEF SetupInv, Sums
          <6> QED
            BY <3>1, <4>1, <4>2, <4>3, <6>1 DEF SumFlow
        <5> QED
          BY <5>1, <5>2 DEF Sums
      <4> QED
        BY <2>5, <4>4 DEF SetupInv
    <3> QED
      BY <3>4, <3>5
  <2> QED
    BY <2>6, <2>7
<1>11. ASSUME NEW r \in Roles, ReceiveNext(r) PROVE SetupInv'
  <2>1. /\ At(r, "receive") /\ Advance(r)
        /\ messages[Step(r).name][r] # <<>>
        /\ messages' = [messages EXCEPT ![Step(r).name][r] = Tail(@)]
        /\ recvSCI' = IF Step(r).name = "sock"
                      THEN [recvSCI EXCEPT ![r] = Head(messages["sock"][r])] ELSE recvSCI
        /\ UNCHANGED <<link, counter, start, sentSCI>>
    BY <1>11 DEF ReceiveNext
  <2> DEFINE n == Step(r).name
  <2>2. /\ pc[r] \in 1 .. 17 /\ n \in Names /\ (n = "sock" <=> pc[r] = 16 - r)
        /\ pc[r] # 16 - r => pc[r] < 13
    <3>1. pc[r] \in 1 .. 17 /\ Step(r) = Script(r)[pc[r]]
          /\ Script(r)[pc[r]].do = "receive"
      BY <1>2, <2>1
    <3>2. LET s == Script(r)[pc[r]] IN
          s.do = "receive" => /\ s.name \in Names /\ (s.name = "sock" <=> pc[r] = 16 - r)
                              /\ pc[r] # 16 - r => pc[r] < 13
      BY <3>1, ScriptSteps
    <3> QED
      BY <3>1, <3>2
  <2>3. /\ pc' \in [Roles -> 0 .. 18] /\ pc'[0] # 0
        /\ pc'[r] = pc[r] + 1 /\ pc'[1 - r] = pc[1 - r]
    BY <2>1, <2>2, OneAdvances DEF SetupInv
  <2> HIDE DEF n
  <2>4. /\ messages' \in [Names -> [Roles -> Seq(Int)]]
        /\ messages'["sock"][1 - r] = messages["sock"][1 - r]
        /\ messages'["sock"][r] = IF n = "sock" THEN Tail(messages["sock"][r])
                                  ELSE messages["sock"][r]
    <3>1. /\ messages' = [messages EXCEPT ![n][r] = Tail(messages[n][r])]
          /\ messages[n][r] # <<>> /\ messages[n][r] \in Seq(Int)
      BY <2>1, <2>2 DEF n, SetupInv, Sums, SumTypes
    <3>2. Tail(messages[n][r]) \in Seq(Int)
      BY <3>1
    <3>3. "sock" \in Names
      BY DEF Names
    <3>4. messages' \in [Names -> [Roles -> Seq(Int)]]
      BY <2>2, <3>1, <3>2 DEF SetupInv, Sums, SumTypes
    <3>5. messages'["sock"][1 - r] = messages["sock"][1 - r]
      BY <2>2, <3>1, <3>3 DEF SetupInv, Sums, SumTypes
    <3>6. messages'["sock"][r] = IF n = "sock" THEN Tail(messages["sock"][r])
                                 ELSE messages["sock"][r]
      BY <2>2, <3>1, <3>3 DEF SetupInv, Sums, SumTypes
    <3> QED
      BY <3>4, <3>5, <3>6
  <2>5. Places'
    <3>1. UNCHANGED link
      BY <2>1
    <3> QED
      BY <2>3, <3>1, PlacesKept
  <2>6. CASE n = "sock"
    <3>1. recvSCI' = [recvSCI EXCEPT ![r] = Head(messages["sock"][r])]
      BY <2>1, <2>6 DEF n
    <3>2. messages["sock"][r] # <<>>
      BY <2>1, <2>6 DEF n
    <3>3. pc[1 - r] > 15 + (1 - r) /\ messages["sock"][r] = <<sentSCI[1 - r]>>
      <4>1. r = 0 => pc[1] > 16 /\ messages["sock"][0] = <<sentSCI[1]>>
        BY <3>2 DEF SetupInv, Sums, SumFlow
      <4>2. r = 1 => pc[0] > 15 /\ messages["sock"][1] = <<sentSCI[0]>>
        BY <3>2 DEF SetupInv, Sums, SumFlow
      <4> QED
        BY <4>1, <4>2
    <3>4. Head(messages["sock"][r]) = sentSCI[1 - r] /\ Tail(messages["sock"][r]) = <<>>
      BY <3>3
    <3>5. /\ recvSCI' \in [Roles -> Int]
          /\ recvSCI'[r] = sentSCI[1 - r] /\ recvSCI'[1 - r] = recvSCI[1 - r]
      BY <3>1, <3>4 DEF SetupInv, Sums, SumTypes
    <3>6. \A q \in Roles : SciBytes(q)' = SciBytes(q)
      BY <2>1, SciBytesKept DEF SetupInv, Sums, SumTypes
    <3>7. CASE r = 0
      <4>1. pc[0] = 16 /\ pc'[0] = 17 /\ pc'[1] = pc[1] /\ pc[1] \in 17 .. 18
        BY <2>2, <2>3, <2>6, <3>3, <3>7 DEF SetupInv, Places
      <4>2. /\ messages'["sock"][0] = <<>> /\ recvSCI'[0] = sentSCI[1]
            /\ messages'["sock"][1] = messages["sock"][1] /\ recvSCI'[1] = recvSCI[1]
        <5>1. messages'["sock"][r] = <<>>
          BY <2>4, <2>6, <3>4
        <5>2. messages'["sock"][1 - r] = messages["sock"][1 - r]
          BY <2>4
        <5>3. 1 - r = 1
          BY <3>7
        <5> QED
          BY <3>5, <3>7, <5>1, <5>2, <5>3
      <4>3. Sums'
        <5>1. SumTypes'
          BY <2>1, <2>4, <3>5, <3>6, <4>1, <4>2 DEF SetupInv, Sums, SumTypes
        <5>2. SumFlow'
          <6>1. SumFlow /\ sentSCI' = sentSCI
            BY <2>1 DEF SetupInv, Sums
          <6> QED
            BY <3>6, <4>1, <4>2, <6>1 DEF SumFlow
        <5> QED
          BY <5>1, <5>2 DEF Sums
      <4> QED
        BY <2>5, <4>3 DEF SetupInv
    <3>8. CASE r = 1
      <4>1. pc[1] = 15 /\ pc'[1] = 16 /\ pc'[0] = pc[0] /\ pc[0] \in 16 .. 18
        BY <2>2, <2>3, <2>6, <3>3, <3>8 DEF SetupInv, Places
      <4>2. /\ messages'["sock"][1] = <<>> /\ recvSCI'[1] = sentSCI[0]
            /\ messages'["sock"][0] = messages["sock"][0] /\ recvSCI'[0] = recvSCI[0]
        <5>1. messages'["sock"][r] = <<>>
          BY <2>4, <2>6, <3>4
        <5>2. messages'["sock"][1 - r] = messages["sock"][1 - r]
          BY <2>4
        <5>3. 1 - r = 0
          BY <3>8
        <5> QED
          BY <3>5, <3>8, <5>1, <5>2, <5>3
      <4>3. Sums'
        <5>1. SumTypes'
          BY <2>1, <2>4, <3>5, <3>6, <4>1, <4>2 DEF SetupInv, Sums, SumTypes
        <5>2. SumFlow'
          <6>1. SumFlow /\ sentSCI' = sentSCI
            BY <2>1 DEF SetupInv, Sums
          <6> QED
            BY <3>6, <4>1, <4>2, <6>1 DEF SumFlow
        <5> QED
          BY <5>1, <5>2 DEF Sums
      <4> QED
        BY <2>5, <4>3 DEF SetupInv
    <3> QED
      BY <3>7, <3>8
  <2>7. CASE n # "sock"
    <3>1. recvSCI' = recvSCI
      BY <2>1, <2>7 DEF n
    <3>2. \A q \in Roles, k \in 13 .. 16 : (pc'[q] > k) <=> (pc[q] > k)
      BY <2>2, <2>3, <2>7 DEF SetupInv, Places
    <3>3. /\ messages'["sock"][0] = messages["sock"][0]
          /\ messages'["sock"][1] = messages["sock"][1]
      BY <2>4, <2>7
    <3>4. Sums'
      BY <2>1, <2>4, <2>5, <3>1, <3>2, <3>3, SumsKept DEF SetupInv
    <3> QED
      BY <2>5, <3>4 DEF SetupInv
  <2> QED
    BY <2>6, <2>7
<1>12. ASSUME NEW r \in Roles, ResetCommunication(r) PROVE SetupInv'
  <2>1. /\ At(r, "reset") /\ Advance(r)
        /\ start' = [start EXCEPT ![r] = counter[r]]
        /\ UNCHANGED <<link, messages, counter, sentSCI, recvSCI>>
    BY <1>12 DEF ResetCommunication
  <2>2. pc[r] = 10
    BY <1>2, <2>1, ScriptSteps
  <2>3. /\ pc' \in [Roles -> 0 .. 18] /\ pc'[0] # 0
        /\ pc'[r] = pc[r] + 1 /\ pc'[1 - r] = pc[1 - r]
    BY <2>1, <2>2, OneAdvances DEF SetupInv
  <2>4. start' \in Counts
    BY <2>1 DEF SetupInv, Sums, SumTypes, Counts
  <2>5. Places'
    BY <2>1, <2>3, PlacesKept
  <2>6. Sums'
    <3>1. ~(pc[0] > 13) /\ ~(pc[1] > 13) /\ pc[0] \in Int /\ pc[1] \in Int
      BY <2>2 DEF SetupInv, Places, Sums, SumFlow
    <3>2. ~(pc'[0] > 13) /\ ~(pc'[1] > 13) /\ pc'[0] \in Int /\ pc'[1] \in Int
      BY <2>2, <2>3, <3>1
    <3>3. SumTypes'
      BY <2>1, <2>4 DEF SetupInv, Sums, SumTypes
    <3>4. SumFlow'
      BY <2>1, <3>1, <3>2 DEF SetupInv, Sums, SumFlow
    <3> QED
      BY <3>3, <3>4 DEF Sums
  <2> QED
    BY <2>5, <2>6 DEF SetupInv
<1>13. ASSUME NEW r \in Roles, AccumulateCommunication(r) PROVE SetupInv'
  <2>1. /\ At(r, "accumulate") /\ Advance(r)
        /\ sentSCI' = [sentSCI EXCEPT ![r] = SciBytes(r)]
        /\ UNCHANGED <<link, messages, counter, start, recvSCI>>
    BY <1>13 DEF AccumulateCommunication
  <2>2. pc[r] = 14
    BY <1>2, <2>1, ScriptSteps
  <2>3. /\ pc' \in [Roles -> 0 .. 18] /\ pc'[0] # 0
        /\ pc'[r] = pc[r] + 1 /\ pc'[1 - r] = pc[1 - r]
    BY <2>1, <2>2, OneAdvances DEF SetupInv
  <2>4. \A q \in Roles : SciBytes(q) \in Int /\ SciBytes(q)' = SciBytes(q)
    BY <2>1, SciBytesKept DEF SetupInv, Sums, SumTypes
  <2>5. /\ sentSCI' \in [Roles -> Int] /\ sentSCI'[r] = SciBytes(r)
        /\ sentSCI'[1 - r] = sentSCI[1 - r]
    BY <2>1, <2>4 DEF SetupInv, Sums, SumTypes
  <2>6. Places'
    BY <2>1, <2>3, PlacesKept
  <2>7. SumTypes'
    BY <2>1, <2>5 DEF SetupInv, Sums, SumTypes
  <2>8. SumFlow'
    <3>1. CASE r = 0
      <4>1. pc[0] = 14 /\ pc'[0] = 15 /\ pc'[1] = pc[1] /\ pc[1] \in 0 .. 18
        BY <2>2, <2>3, <3>1 DEF SetupInv, Places
      <4> QED
        BY <2>1, <2>4, <2>5, <3>1, <4>1 DEF SetupInv, Sums, SumFlow
    <3>2. CASE r = 1
      <4>1. pc[1] = 14 /\ pc'[1] = 15 /\ pc'[0] = pc[0] /\ pc[0] \in 0 .. 18
        BY <2>2, <2>3, <3>2 DEF SetupInv, Places
      <4> QED
        BY <2>1, <2>4, <2>5, <3>2, <4>1 DEF SetupInv, Sums, SumFlow
    <3> QED
      BY <3>1, <3>2
  <2> QED
    BY <2>6, <2>7, <2>8 DEF SetupInv, Sums
<1>14. ASSUME NEW r \in Roles, PrintCommunication(r) PROVE SetupInv'
  <2>1. /\ At(r, "print") /\ Advance(r)
        /\ UNCHANGED <<link, messages, counter, start, sentSCI, recvSCI>>
    BY <1>14 DEF PrintCommunication
  <2>2. pc[r] = 17
    BY <1>2, <2>1, ScriptSteps
  <2>3. /\ pc' \in [Roles -> 0 .. 18] /\ pc'[0] # 0
        /\ pc'[r] = pc[r] + 1 /\ pc'[1 - r] = pc[1 - r]
    BY <2>1, <2>2, OneAdvances DEF SetupInv
  <2>4. Places'
    BY <2>1, <2>3, PlacesKept
  <2>5. \A q \in Roles, k \in 13 .. 16 : (pc'[q] > k) <=> (pc[q] > k)
    BY <2>2, <2>3 DEF SetupInv, Places
  <2>6. messages' \in [Names -> [Roles -> Seq(Int)]]
    BY <2>1 DEF SetupInv, Sums, SumTypes
  <2>7. Sums'
    BY <2>1, <2>4, <2>5, <2>6, SumsKept DEF SetupInv
  <2> QED
    BY <2>4, <2>7 DEF SetupInv
<1>15. CASE UNCHANGED setupVars
  BY <1>1, <1>15 DEF setupVars
<1> QED
  BY <1>4, <1>5, <1>6, <1>7, <1>8, <1>9, <1>10, <1>11, <1>12, <1>13, <1>14, <1>15
    DEF SetupNext

\* Where the roles are determines what they have exchanged of their sums, and a connection
\* is over the port that the scripts give it.
THEOREM SetupInvariant == SetupSpec => []SetupInv
  BY SetupInvInit, SetupInvStep, PTL DEF SetupSpec

\* Whatever the order in which the roles come to their steps, the two objects of one name
\* are the ends of one connection.
THEOREM EndsMatchInvariant == SetupSpec => []EndsMatch
<1>1. SetupInv => EndsMatch
  BY DEF SetupInv, Places, EndsMatch, Roles, SERVER, CLIENT
<1> QED
  BY <1>1, SetupInvariant, PTL

\* Each role ends with the sum of the other, over two streams and from the other's reset
\* on, however many bytes the roles sent.
THEOREM SciTotalsAgreeInvariant == SetupSpec => []SciTotalsAgree
<1>1. SetupInv => SciTotalsAgree
  <2> SUFFICES ASSUME SetupInv, \A r \in Roles : Done(r), NEW r \in Roles
               PROVE  recvSCI[r] = (counter[Peer(r)]["arr0"] + counter[Peer(r)]["arr1"])
                                     - (start[Peer(r)]["arr0"] + start[Peer(r)]["arr1"])
    BY DEF SciTotalsAgree
  <2>1. pc[0] > 17 /\ pc[1] > 17 /\ r \in {0, 1} /\ Peer(r) = 1 - r
    <3>1. 1 \in 1 .. 17 /\ \A q \in Roles : Done(q)
      OBVIOUS
    <3>2. \A q \in Roles : Len(Script(q)) = 17
      BY <3>1, ScriptSteps
    <3> QED
      BY <3>1, <3>2 DEF Done, Roles, SERVER, CLIENT, Peer
  <2>2. recvSCI[r] = sentSCI[1 - r] /\ sentSCI[1 - r] = SciBytes(1 - r)
    <3>1. pc[0] \in 0 .. 18 /\ pc[1] \in 0 .. 18
      BY DEF SetupInv, Places, Roles, SERVER, CLIENT
    <3>2. pc[0] > 16 /\ pc[1] > 15 /\ pc[0] > 14 /\ pc[1] > 14
      BY <2>1, <3>1
    <3>3. /\ recvSCI[0] = sentSCI[1] /\ sentSCI[1] = SciBytes(1)
          /\ recvSCI[1] = sentSCI[0] /\ sentSCI[0] = SciBytes(0)
      BY <3>2 DEF SetupInv, Sums, SumFlow
    <3>4. CASE r = 0
      BY <3>3, <3>4
    <3>5. CASE r = 1
      BY <3>3, <3>5
    <3> QED
      BY <2>1, <3>4, <3>5
  <2>3. \A q \in {0, 1} : /\ counter[q]["arr0"] \in Int /\ counter[q]["arr1"] \in Int
                          /\ start[q]["arr0"] \in Int /\ start[q]["arr1"] \in Int
    BY DEF SetupInv, Sums, SumTypes, Counts, Counted, Roles, SERVER, CLIENT
  <2> QED
    BY <2>1, <2>2, <2>3 DEF SciBytes
<1> QED
  BY <1>1, SetupInvariant, PTL

-----------------------------------------------------------------------------
(* ConnectionSetup: neither role waits for ever                            *)

\* The places of both scripts at which a connection is opened, and of it: who listens, and
\* the port.
OpenPlaces  == {2, 3, 4, 5, 7, 8, 9}
ListenerAt(k) == IF k \in {4, 5} THEN CLIENT ELSE SERVER
PortAt(k)     == Script(SERVER)[k].port

\* A connection: the dialer gets past it only when the port is listened on, and the listener
\* only after the dialer; in between the dialer is in the backlog.
Opening(k) ==
    LET l == pc[ListenerAt(k)]
        d == pc[Peer(ListenerAt(k))]
        p == PortAt(k)
    IN  /\ p \in listening => l >= k
        /\ d > k => p \in listening
        /\ l > k => d > k
        /\ p \in backlog <=> d > k /\ l = k

\* A message waits for the role that has not come to its place.
MessageWaits(n, r, k) == pc[Peer(r)] > k /\ pc[r] <= k => messages[n][r] # <<>>

PromptTypes == terminal \in Nat /\ chars \in [Roles -> Nat] /\ tries \in 0 .. SockTries

OpenInv ==
    /\ SetupInv /\ PromptTypes
    /\ \A k \in OpenPlaces : Opening(k)
    /\ MessageWaits("test", CLIENT, 6) /\ MessageWaits("io", SERVER, 11)

\* The guards of the steps of a role: at a key somebody types, the role reads the line, or
\* takes a character of it.
RoleGoes(r) ==
    \/ /\ At(r, "key")
       /\ \/ chars[r] = 0 /\ terminal = 0
          \/ chars[r] = 0 /\ terminal > 0
          \/ chars[r] > 0
    \/ At(r, "listen") /\ (Step(r).port \notin listening \/ Step(r).port \in backlog)
    \/ At(r, "dial") /\ Step(r).port \in listening \ backlog
    \/ At(r, "receive") /\ messages[Step(r).name][r] # <<>>
    \/ \A q \in Roles : At(q, "psi")
    \/ \E do \in {"send", "reset", "accumulate", "print"} : At(r, do)

\* Until both roles are done, or the client has given up, one of them can go on, and by more
\* than a failed attempt to connect.
SomeRoleGoes ==
    (\A r \in Roles : Done(r)) \/ pc[CLIENT] = 0 \/ \E r \in Roles : RoleGoes(r)

\* What is left to be done: of a role, its steps, to read a line and to bind the port it is
\* to accept from; the attempts at sock; a line to be typed.
Waits(r) == At(r, "listen") /\ Step(r).port \in listening
RoleWork(r) ==
    4 * (IF pc[r] = 0 THEN 0 ELSE 18 - pc[r])
      + (IF chars[r] > 0 THEN 0 ELSE 2) + (IF Waits(r) THEN 0 ELSE 1)
SetupWork == RoleWork(SERVER) + RoleWork(CLIENT)
               + (SockTries - tries) + (IF terminal > 0 THEN 0 ELSE 1)

\* The scripts are mirror images: where one role listens the other dials the same port, and
\* where one receives the other sends.
LEMMA Mirror ==
    ASSUME NEW r \in Roles, NEW i \in 1 .. 17
    PROVE  LET s == Script(r)[i]
               t == Script(1 - r)[i]
           IN
           /\ s.do \in {"key", "listen", "dial", "send", "receive", "reset",
                        "psi", "accumulate", "print"}
           /\ i \in OpenPlaces =>
                /\ s.port = PortAt(i)
                /\ s.do = IF r = ListenerAt(i) THEN "listen" ELSE "dial"
           /\ s.do \in {"listen", "dial"} => i \in OpenPlaces
           /\ s.do = "receive" =>
                /\ t.do = "send" /\ s.name = t.name
                /\ \/ s.name = "test" /\ r = 1 /\ i = 6
                   \/ s.name = "io" /\ r = 0 /\ i = 11
                   \/ s.name = "sock" /\ i = 16 - r
           /\ i = 6  => s = IF r = 0 THEN Send("test") ELSE Receive("test")
           /\ i = 11 => s = IF r = 0 THEN Receive("io") ELSE Send("io")
           /\ s.do = "psi" => t.do = "psi"
<1> USE DEF Listen, Dial, Key, Reset, Send, Receive, Psi, Accumulate, PrintTotals, Port,
            OpenPlaces, ListenerAt, PortAt, SERVER, CLIENT
<1>1. CASE r = 0
  BY <1>1 DEF Script, ServerScript, ClientScript
<1>2. CASE r = 1
  BY <1>2 DEF Script, ServerScript, ClientScript
<1> QED
  BY <1>1, <1>2 DEF Roles

\* No two connections are over one port.
LEMMA PortsDiffer ==
    /\ \A i, j \in OpenPlaces : PortAt(i) = PortAt(j) => i = j
    /\ OpenPlaces \subseteq 2 .. 9
    /\ \A i \in OpenPlaces : ListenerAt(i) \in Roles /\ Peer(ListenerAt(i)) \in Roles
                               /\ Peer(ListenerAt(i)) # ListenerAt(i)
<1> USE DEF OpenPlaces, SERVER, CLIENT
<1>1. \A i \in OpenPlaces :
        PortAt(i) = IF i = 2 THEN 7777 ELSE IF i = 3 THEN 8080 ELSE IF i = 4 THEN 8081
                    ELSE IF i = 5 THEN 8085 ELSE IF i = 7 THEN 7778 ELSE IF i = 8 THEN 7779
                    ELSE 7780
  BY DEF PortAt, Script, ServerScript, Listen, Dial, Port
<1>2. \A i, j \in OpenPlaces : PortAt(i) = PortAt(j) => i = j
  <2> HIDE DEF OpenPlaces
  <2> SUFFICES ASSUME NEW i \in OpenPlaces, NEW j \in OpenPlaces, PortAt(i) = PortAt(j)
               PROVE  i = j
    OBVIOUS
  <2> DEFINE a == PortAt(i)
             b == PortAt(j)
  <2>1. /\ a = IF i = 2 THEN 7777 ELSE IF i = 3 THEN 8080 ELSE IF i = 4 THEN 8081
                    ELSE IF i = 5 THEN 8085 ELSE IF i = 7 THEN 7778 ELSE IF i = 8 THEN 7779
                    ELSE 7780
        /\ b = IF j = 2 THEN 7777 ELSE IF j = 3 THEN 8080 ELSE IF j = 4 THEN 8081
                    ELSE IF j = 5 THEN 8085 ELSE IF j = 7 THEN 7778 ELSE IF j = 8 THEN 7779
                    ELSE 7780
    BY <1>1
  <2>2. a = b /\ i \in OpenPlaces /\ j \in OpenPlaces
    OBVIOUS
  <2> HIDE DEF a, b
  <2> QED
    BY <2>1, <2>2 DEF OpenPlaces
<1>3. \A i \in OpenPlaces : ListenerAt(i) \in Roles /\ Peer(ListenerAt(i)) \in Roles
                              /\ Peer(ListenerAt(i)) # ListenerAt(i)
  BY DEF ListenerAt, Peer, Roles
<1> QED
  BY <1>2, <1>3

\* What a step of a role at a kind of place is.
LEMMA StepIs ==
    ASSUME NEW r \in Roles, NEW do, At(r, do)
    PROVE  pc[r] \in 1 .. 17 /\ Step(r) = Script(r)[pc[r]] /\ Step(r).do = do
<1>1. DOMAIN Script(r) = 1 .. 17
  BY ScriptSteps
<1> QED
  BY <1>1 DEF At, Step

\* A role passes one place at a time.
LEMMA OnePlace ==
    ASSUME Places, NEW r \in Roles, pc[r] \in 1 .. 17, Advance(r)
    PROVE  /\ pc'[r] = pc[r] + 1 /\ pc'[Peer(r)] = pc[Peer(r)]
           /\ \A q \in Roles : /\ pc'[q] \in Nat /\ pc[q] \in Nat /\ pc'[q] >= pc[q]
                               /\ \A k \in 1 .. 17 :
                                    q # r \/ k # pc[r] => ((pc'[q] > k) <=> (pc[q] > k))
  BY DEF Places, Advance, Roles, SERVER, CLIENT, Peer

\* A step at which no role comes past place k, or back from it.
NoPass(k) ==
    \A q \in Roles : /\ pc[q] \in Nat /\ pc'[q] \in Nat
                     /\ (pc'[q] > k) <=> (pc[q] > k)
                     /\ pc[q] >= k => pc'[q] >= k

\* A connection that a step does not touch.
LEMMA OpeningKept ==
    ASSUME NEW k \in OpenPlaces, Opening(k), NoPass(k),
           (PortAt(k) \in listening') <=> (PortAt(k) \in listening),
           (PortAt(k) \in backlog') <=> (PortAt(k) \in backlog)
    PROVE  Opening(k)'
<1> DEFINE q == ListenerAt(k)
           e == Peer(q)
           p == PortAt(k)
<1>1. q \in Roles /\ e \in Roles /\ k \in Nat
  BY PortsDiffer
<1>2. /\ p \in listening => pc[q] >= k
      /\ pc[e] > k => p \in listening
      /\ pc[q] > k => pc[e] > k
      /\ p \in backlog <=> pc[e] > k /\ pc[q] = k
  BY DEF Opening
<1>3. /\ (p \in listening') <=> (p \in listening)
      /\ (p \in backlog') <=> (p \in backlog)
  OBVIOUS
<1>4. Opening(k)' <=> /\ p \in listening' => pc'[q] >= k
                      /\ pc'[e] > k => p \in listening'
                      /\ pc'[q] > k => pc'[e] > k
                      /\ p \in backlog' <=> pc'[e] > k /\ pc'[q] = k
  BY DEF Opening, PortAt, ListenerAt, Peer, Script
<1> HIDE DEF q, e, p
<1>5. /\ pc[q] \in Nat /\ pc'[q] \in Nat /\ pc[e] \in Nat /\ pc'[e] \in Nat
      /\ (pc'[q] > k) <=> (pc[q] > k)
      /\ (pc'[e] > k) <=> (pc[e] > k)
      /\ pc[q] >= k => pc'[q] >= k
  BY <1>1 DEF NoPass
<1> QED
  BY <1>1, <1>2, <1>3, <1>4, <1>5

\* Every step of the roles keeps what the openings are.
LEMMA OpeningsStep ==
    ASSUME SetupInv, \A k \in OpenPlaces : Opening(k), [SetupNext]_setupVars
    PROVE  \A k \in OpenPlaces : Opening(k)'
<1> SUFFICES ASSUME NEW k \in OpenPlaces PROVE Opening(k)'
  OBVIOUS
<1> USE DEF network, keys, totals
<1>1. /\ Opening(k) /\ k \in 2 .. 9 /\ Places
      /\ \A q \in Roles : pc[q] \in 0 .. 18
  BY PortsDiffer DEF SetupInv, Places
<1>2. ASSUME UNCHANGED <<pc, listening, backlog>> PROVE Opening(k)'
  <2>1. NoPass(k)
    BY <1>1, <1>2 DEF NoPass
  <2> QED
    BY <1>1, <1>2, <2>1, OpeningKept
<1>3. ASSUME NEW r \in Roles, pc[r] \in 1 .. 17, pc[r] # k, Advance(r),
             (PortAt(k) \in listening') <=> (PortAt(k) \in listening),
             (PortAt(k) \in backlog') <=> (PortAt(k) \in backlog)
      PROVE  Opening(k)'
  <2>1. NoPass(k)
    <3> SUFFICES ASSUME NEW q \in Roles
                 PROVE  /\ pc[q] \in Nat /\ pc'[q] \in Nat
                        /\ (pc'[q] > k) <=> (pc[q] > k)
                        /\ pc[q] >= k => pc'[q] >= k
      BY DEF NoPass
    <3>1. k \in 1 .. 17 /\ (q # r \/ k # pc[r])
      BY <1>1, <1>3
    <3>2. /\ pc'[q] \in Nat /\ pc[q] \in Nat /\ pc'[q] >= pc[q]
          /\ (pc'[q] > k) <=> (pc[q] > k)
      BY <1>1, <1>3, <3>1, OnePlace
    <3> QED
      BY <3>1, <3>2
  <2> QED
    BY <1>1, <1>3, <2>1, OpeningKept
\* At other places nothing is opened.
<1>4. ASSUME NEW r \in Roles, NEW do, At(r, do), do \notin {"listen", "dial"}, Advance(r),
             UNCHANGED <<listening, backlog>>
      PROVE  Opening(k)'
  <2>1. pc[r] \in 1 .. 17 /\ Script(r)[pc[r]].do = do
    BY <1>4, StepIs
  <2>2. pc[r] \notin OpenPlaces
    BY <1>4, <2>1, Mirror
  <2> QED
    BY <1>3, <1>4, <2>1, <2>2
<1>5. ASSUME NEW r \in Roles, NEW do \in {"listen", "dial"}, At(r, do)
      PROVE  /\ pc[r] \in OpenPlaces /\ pc[r] \in 1 .. 17
             /\ Step(r).port = PortAt(pc[r]) /\ (r = ListenerAt(pc[r]) <=> do = "listen")
  <2>1. pc[r] \in 1 .. 17 /\ Step(r) = Script(r)[pc[r]] /\ Script(r)[pc[r]].do = do
    BY <1>5, StepIs
  <2> QED
    BY <2>1, Mirror
<1>6. CASE TypeLine
  BY <1>2, <1>6 DEF TypeLine
<1>7. CASE RunPsi
  <2>1. \A q \in Roles : pc[q] = 13
    <3> SUFFICES ASSUME NEW q \in Roles PROVE pc[q] = 13
      OBVIOUS
    <3>1. pc[q] \in 1 .. 17 /\ Script(q)[pc[q]].do = "psi"
      BY <1>7, StepIs DEF RunPsi
    <3> QED
      BY <3>1, ScriptSteps
  <2>2. /\ pc' = [r \in Roles |-> pc[r] + 1] /\ UNCHANGED <<listening, backlog>>
    BY <1>7 DEF RunPsi
  <2>3. \A q \in Roles : pc'[q] = 14
    BY <2>1, <2>2
  <2>4. NoPass(k)
    BY <1>1, <2>1, <2>3 DEF NoPass
  <2> QED
    BY <1>1, <2>2, <2>4, OpeningKept
<1>8. ASSUME NEW r \in Roles, ReadLine(r) PROVE Opening(k)'
  BY <1>2, <1>8 DEF ReadLine
<1>9. ASSUME NEW r \in Roles, GetChar(r) PROVE Opening(k)'
  BY <1>4, <1>9 DEF GetChar
<1>10. ASSUME NEW r \in Roles, Bind(r) PROVE Opening(k)'
  <2> DEFINE i == pc[r]
  <2>1. /\ i \in OpenPlaces /\ r = ListenerAt(i)
        /\ listening' = listening \cup {PortAt(i)} /\ UNCHANGED <<pc, backlog>>
    BY <1>5, <1>10 DEF Bind
  <2>2. CASE i # k
    <3>1. PortAt(k) # PortAt(i)
      BY <2>1, <2>2, PortsDiffer
    <3>2. NoPass(k)
      BY <1>1, <2>1 DEF NoPass
    <3> QED
      BY <1>1, <2>1, <3>1, <3>2, OpeningKept
  <2>3. CASE i = k
    <3>1. /\ pc'[ListenerAt(k)] = k /\ PortAt(k) \in listening'
          /\ pc[ListenerAt(k)] = k
      BY <2>1, <2>3
    <3> QED
      BY <1>1, <2>1, <3>1 DEF Opening, PortAt, ListenerAt, Peer, Script
  <2> QED
    BY <2>2, <2>3
<1>11. ASSUME NEW r \in Roles, Accept(r) PROVE Opening(k)'
  <2> DEFINE i == pc[r]
  <2>1. /\ i \in OpenPlaces /\ r = ListenerAt(i) /\ i \in 1 .. 17
        /\ PortAt(i) \in backlog /\ backlog' = backlog \ {PortAt(i)}
        /\ Advance(r) /\ UNCHANGED listening
    BY <1>5, <1>11 DEF Accept
  <2>2. CASE i # k
    <3>1. PortAt(k) # PortAt(i)
      BY <2>1, <2>2, PortsDiffer
    <3> QED
      BY <1>3, <2>1, <2>2, <3>1
  <2>3. CASE i = k
    <3>1. r = ListenerAt(k) /\ Peer(r) \in Roles
      BY <2>1, <2>3, PortsDiffer
    <3>2. /\ pc[r] = k /\ pc'[r] = k + 1 /\ pc'[Peer(r)] = pc[Peer(r)]
      BY <1>1, <2>1, <2>3, OnePlace
    <3>3. pc[Peer(r)] > k /\ PortAt(k) \in listening
      BY <1>1, <2>1, <2>3, <3>1 DEF Opening
    <3>4. PortAt(k) \in listening' /\ PortAt(k) \notin backlog'
      BY <2>1, <2>3, <3>3
    <3> QED
      BY <1>1, <3>1, <3>2, <3>3, <3>4 DEF Opening, PortAt, ListenerAt, Peer, Script
  <2> QED
    BY <2>2, <2>3
<1>12. ASSUME NEW r \in Roles, Connect(r) PROVE Opening(k)'
  <2> DEFINE i == pc[r]
  <2>1. /\ i \in OpenPlaces /\ r # ListenerAt(i) /\ i \in 1 .. 17
        /\ PortAt(i) \in listening \ backlog /\ backlog' = backlog \cup {PortAt(i)}
        /\ Advance(r) /\ UNCHANGED listening
    BY <1>5, <1>12 DEF Connect
  <2>2. CASE i # k
    <3>1. PortAt(k) # PortAt(i)
      BY <2>1, <2>2, PortsDiffer
    <3> QED
      BY <1>3, <2>1, <2>2, <3>1
  <2>3. CASE i = k
    <3>1. r = Peer(ListenerAt(k)) /\ Peer(r) = ListenerAt(k) /\ Peer(r) \in Roles
      BY <2>1, <2>3, PortsDiffer DEF Peer, Roles, SERVER, CLIENT
    <3>2. /\ pc[r] = k /\ pc'[r] = k + 1 /\ pc'[Peer(r)] = pc[Peer(r)]
          /\ pc[Peer(r)] \in Nat
      BY <1>1, <2>1, <2>3, <3>1, OnePlace
    <3>3. PortAt(k) \in listening /\ ~(pc[Peer(r)] > k) /\ pc[Peer(r)] >= k
      BY <1>1, <2>1, <2>3, <3>1, <3>2 DEF Opening
    <3>4. PortAt(k) \in listening' /\ PortAt(k) \in backlog'
      BY <2>1, <2>3
    <3>5. pc'[Peer(r)] = k
      BY <1>1, <3>2, <3>3
    <3> QED
      BY <1>1, <3>1, <3>2, <3>4, <3>5 DEF Opening, PortAt, ListenerAt, Peer, Script
  <2> QED
    BY <2>2, <2>3
\* The client gives up before it has opened anything.
<1>13. ASSUME NEW r \in Roles, ConnectFails(r) PROVE Opening(k)'
  <2>1. /\ At(r, "dial") /\ Step(r).name = "sock"
        /\ UNCHANGED <<listening, backlog>>
        /\ pc' = pc \/ pc' = [pc EXCEPT ![r] = 0]
    BY <1>13 DEF ConnectFails
  <2>2. r = 1 /\ pc[r] = 2
    BY <2>1, StepIs, ScriptSteps
  <2>3. CASE pc' = [pc EXCEPT ![r] = 0]
    <3>1. pc'[0] = pc[0] /\ pc'[1] = 0 /\ pc[1] = 2
      BY <1>1, <2>2, <2>3 DEF Places, Roles, SERVER, CLIENT
    <3>2. \A q \in Roles : /\ pc[q] \in Nat /\ pc'[q] \in Nat
                           /\ (pc'[q] > k) <=> (pc[q] > k)
      BY <1>1, <3>1 DEF Roles, SERVER, CLIENT
    <3>3. CASE k = 2
      <4>1. ListenerAt(k) = 0 /\ Peer(ListenerAt(k)) = 1
        BY <3>3 DEF ListenerAt, Peer, SERVER, CLIENT
      <4> QED
        BY <1>1, <2>1, <3>1, <3>3, <4>1 DEF Opening, PortAt, ListenerAt, Peer, Script
    <3>4. CASE k # 2
      <4>1. k \in Nat /\ ~(2 >= k)
        BY <1>1, <3>4
      <4>2. \A q \in Roles : q = 0 \/ q = 1
        BY DEF Roles, SERVER, CLIENT
      <4>3. NoPass(k)
        <5> SUFFICES ASSUME NEW q \in Roles
                     PROVE  /\ pc[q] \in Nat /\ pc'[q] \in Nat
                            /\ (pc'[q] > k) <=> (pc[q] > k)
                            /\ pc[q] >= k => pc'[q] >= k
          BY DEF NoPass
        <5>1. /\ pc[q] \in Nat /\ pc'[q] \in Nat
              /\ (pc'[q] > k) <=> (pc[q] > k)
          BY <3>2, <4>1
        <5>2. CASE q = 0
          BY <3>1, <4>1, <5>1, <5>2
        <5>3. CASE q = 1
          BY <3>1, <4>1, <5>1, <5>3
        <5> QED
          BY <4>2, <5>2, <5>3
      <4> QED
        BY <1>1, <2>1, <4>3, OpeningKept
    <3> QED
      BY <3>3, <3>4
  <2> QED
    BY <1>2, <2>1, <2>3
<1>14. ASSUME NEW r \in Roles,
              SendNext(r) \/ ReceiveNext(r) \/ ResetCommunication(r)
                \/ AccumulateCommunication(r) \/ PrintCommunication(r)
       PROVE  Opening(k)'
  <2>1. /\ \E do \in {"send", "receive", "reset", "accumulate", "print"} : At(r, do)
        /\ Advance(r) /\ UNCHANGED <<listening, backlog>>
    BY <1>14 DEF SendNext, ReceiveNext, ResetCommunication, AccumulateCommunication,
                 PrintCommunication
  <2> QED
    BY <1>4, <2>1
<1>15. CASE UNCHANGED setupVars
  BY <1>2, <1>15 DEF setupVars
<1> QED
  BY <1>6, <1>7, <1>8, <1>9, <1>10, <1>11, <1>12, <1>13, <1>14, <1>15 DEF SetupNext

\* A message that is neither read nor waited for at this step.
LEMMA WaitsKept ==
    ASSUME NEW n \in Names, NEW r \in Roles, NEW k \in 1 .. 17, MessageWaits(n, r, k),
           \A q \in Roles : (pc'[q] > k <=> pc[q] > k) /\ pc[q] \in Nat /\ pc'[q] \in Nat,
           messages[n][r] # <<>> => messages'[n][r] # <<>>
    PROVE  MessageWaits(n, r, k)'
<1>1. Peer(r) \in Roles
  BY DEF Peer, Roles, SERVER, CLIENT
<1>2. /\ pc'[Peer(r)] > k <=> pc[Peer(r)] > k
      /\ pc'[r] <= k <=> pc[r] <= k
  <2>1. pc'[Peer(r)] > k <=> pc[Peer(r)] > k
    BY <1>1
  <2>2. (pc'[r] > k <=> pc[r] > k) /\ pc[r] \in Nat /\ pc'[r] \in Nat
    OBVIOUS
  <2>3. pc'[r] <= k <=> pc[r] <= k
    BY <2>2
  <2> QED
    BY <2>1, <2>3
<1> QED
  BY <1>2 DEF MessageWaits, Peer

\* A step of a role at another place, or of the reader or the sender at this one.
LEMMA WaitsStep ==
    ASSUME SetupInv, NEW n \in Names, NEW r \in Roles, NEW k \in 1 .. 17,
           MessageWaits(n, r, k), NEW s \in Roles, pc[s] \in 1 .. 17, Advance(s),
           pc[s] = k /\ s = Peer(r) => messages'[n][r] # <<>>,
           ~(pc[s] = k /\ s = r) /\ messages[n][r] # <<>> => messages'[n][r] # <<>>
    PROVE  MessageWaits(n, r, k)'
<1>1. Places
  BY DEF SetupInv
<1>2. /\ pc'[s] = pc[s] + 1 /\ pc'[Peer(s)] = pc[Peer(s)]
      /\ \A q \in Roles : /\ pc'[q] \in Nat /\ pc[q] \in Nat
                          /\ q # s \/ k # pc[s] => (pc'[q] > k <=> pc[q] > k)
  BY <1>1, OnePlace
<1>3. CASE pc[s] # k
  <2>1. \A q \in Roles : (pc'[q] > k <=> pc[q] > k) /\ pc[q] \in Nat /\ pc'[q] \in Nat
    BY <1>2, <1>3
  <2>2. messages[n][r] # <<>> => messages'[n][r] # <<>>
    BY <1>3
  <2> QED
    BY <2>1, <2>2, WaitsKept
<1>4. CASE pc[s] = k /\ s = Peer(r)
  BY <1>4 DEF MessageWaits
<1>5. CASE pc[s] = k /\ s = r
  <2>1. ~(pc'[r] <= k)
    BY <1>2, <1>5
  <2> QED
    BY <2>1 DEF MessageWaits
<1>6. s = r \/ s = Peer(r)
  BY DEF Peer, Roles, SERVER, CLIENT
<1> QED
  BY <1>3, <1>4, <1>5, <1>6

\* Every step keeps that the word of send_test waits for the client, and nbins for the
\* server.
LEMMA MessagesStep ==
    ASSUME SetupInv, [SetupNext]_setupVars,
           NEW n, NEW r, NEW k, <<n, r, k>> \in {<<"test", 1, 6>>, <<"io", 0, 11>>},
           MessageWaits(n, r, k)
    PROVE  MessageWaits(n, r, k)'
<1> USE DEF network, keys, totals
<1>1. /\ n \in Names /\ r \in Roles /\ k \in {6, 11} /\ k \in 1 .. 17
      /\ Peer(r) \in Roles /\ Peer(r) # r /\ n # "sock"
  BY DEF Names, Roles, SERVER, CLIENT, Peer
<1>2. Places /\ messages \in [Names -> [Roles -> Seq(Int)]]
      /\ sentSCI \in [Roles -> Int]
      /\ \A q \in Roles : pc[q] \in 0 .. 18
  BY DEF SetupInv, Places, Sums, SumTypes
<1>3. ASSUME UNCHANGED <<pc, messages>> PROVE MessageWaits(n, r, k)'
  BY <1>3 DEF MessageWaits, Peer
\* What is at the place of the message.
<1>4. ASSUME NEW s \in Roles, NEW do, At(s, do)
      PROVE  /\ pc[s] \in 1 .. 17 /\ Step(s).do = do /\ Step(s) = Script(s)[pc[s]]
             /\ pc[s] = k => Step(s).name = n /\ do = IF s = r THEN "receive" ELSE "send"
             /\ do = "receive" /\ s = r /\ Step(s).name = n => pc[s] = k
  <2>1. pc[s] \in 1 .. 17 /\ Step(s).do = do /\ Step(s) = Script(s)[pc[s]]
    BY <1>4, StepIs
  <2>2. pc[s] = k => Step(s).name = n /\ do = IF s = r THEN "receive" ELSE "send"
    BY <1>1, <2>1, Mirror DEF Send, Receive, Roles, SERVER, CLIENT
  <2>3. do = "receive" /\ s = r /\ Step(s).name = n => pc[s] = k
    BY <1>1, <2>1, Mirror
  <2> QED
    BY <2>1, <2>2, <2>3
<1>5. ASSUME NEW s \in Roles, NEW do, At(s, do), do \notin {"send", "receive"},
             Advance(s), UNCHANGED messages
      PROVE  MessageWaits(n, r, k)'
  <2>1. pc[s] \in 1 .. 17 /\ pc[s] # k
    BY <1>4, <1>5
  <2> QED
    BY <1>1, <1>5, <2>1, WaitsStep
<1>6. CASE TypeLine
  BY <1>3, <1>6 DEF TypeLine
<1>7. CASE RunPsi
  <2>1. \A q \in Roles : pc[q] = 13
    <3> SUFFICES ASSUME NEW q \in Roles PROVE pc[q] = 13
      OBVIOUS
    <3>1. pc[q] \in 1 .. 17 /\ Script(q)[pc[q]].do = "psi"
      BY <1>7, StepIs DEF RunPsi
    <3> QED
      BY <3>1, ScriptSteps
  <2>2. pc' = [q \in Roles |-> pc[q] + 1] /\ UNCHANGED messages
    BY <1>7 DEF RunPsi
  <2>3. \A q \in Roles : (pc'[q] > k <=> pc[q] > k) /\ pc[q] \in Nat /\ pc'[q] \in Nat
    BY <1>1, <2>1, <2>2
  <2> QED
    BY <1>1, <2>2, <2>3, WaitsKept
<1>8. ASSUME NEW s \in Roles, ReadLine(s) \/ Bind(s) PROVE MessageWaits(n, r, k)'
  BY <1>3, <1>8 DEF ReadLine, Bind
<1>9. ASSUME NEW s \in Roles,
             GetChar(s) \/ Accept(s) \/ Connect(s) \/ ResetCommunication(s)
               \/ AccumulateCommunication(s) \/ PrintCommunication(s)
      PROVE  MessageWaits(n, r, k)'
  <2>1. /\ \E do \in {"key", "listen", "dial", "reset", "accumulate", "print"} : At(s, do)
        /\ Advance(s) /\ UNCHANGED messages
    BY <1>9 DEF GetChar, Accept, Connect, ResetCommunication, AccumulateCommunication,
                PrintCommunication
  <2> QED
    BY <1>5, <2>1
<1>10. ASSUME NEW s \in Roles, ConnectFails(s) PROVE MessageWaits(n, r, k)'
  <2>1. /\ At(s, "dial") /\ Step(s).name = "sock" /\ UNCHANGED messages
        /\ pc' = pc \/ pc' = [pc EXCEPT ![s] = 0]
    BY <1>10 DEF ConnectFails
  <2>2. s = 1 /\ pc[s] = 2
    BY <2>1, StepIs, ScriptSteps
  <2>3. CASE pc' = [pc EXCEPT ![s] = 0]
    <3>1. pc'[0] = pc[0] /\ pc'[1] = 0 /\ pc[1] = 2
      BY <1>2, <2>2, <2>3 DEF Places, Roles, SERVER, CLIENT
    <3>2. pc[0] \in Nat /\ ~(2 > k) /\ ~(0 > k) /\ k \in Nat
      <4>1. 0 \in Roles
        BY DEF Roles, SERVER, CLIENT
      <4>2. pc[0] \in 0 .. 18
        BY <1>2, <4>1
      <4>3. k \in 6 .. 11
        BY <1>1
      <4> QED
        BY <4>2, <4>3
    <3>3. \A q \in Roles : (pc'[q] > k <=> pc[q] > k) /\ pc[q] \in Nat /\ pc'[q] \in Nat
      <4> SUFFICES ASSUME NEW q \in Roles
                   PROVE  (pc'[q] > k <=> pc[q] > k) /\ pc[q] \in Nat /\ pc'[q] \in Nat
        OBVIOUS
      <4>1. CASE q = 0
        BY <3>1, <3>2, <4>1
      <4>2. CASE q = 1
        BY <3>1, <3>2, <4>2
      <4> QED
        BY <4>1, <4>2 DEF Roles, SERVER, CLIENT
    <3> QED
      BY <1>1, <2>1, <3>3, WaitsKept
  <2> QED
    BY <1>3, <2>1, <2>3
<1>11. ASSUME NEW s \in Roles, SendNext(s) PROVE MessageWaits(n, r, k)'
  <2> DEFINE m == Step(s).name
             q == Peer(s)
             e == Append(messages[m][q], sentSCI[s])
  <2>1. /\ At(s, "send") /\ Advance(s)
        /\ messages' = [messages EXCEPT ![m][q] = e]
    BY <1>11 DEF SendNext
  <2>2. /\ pc[s] \in 1 .. 17 /\ Step(s) = Script(s)[pc[s]] /\ m \in Names
        /\ pc[s] = k => m = n /\ s # r
    <3>1. /\ pc[s] \in 1 .. 17 /\ Step(s) = Script(s)[pc[s]] /\ Step(s).do = "send"
          /\ pc[s] = k => m = n /\ s # r
      BY <1>4, <2>1
    <3>2. LET t == Script(s)[pc[s]] IN t.do = "send" => t.name \in Names
      BY <3>1, ScriptSteps
    <3> QED
      BY <3>1, <3>2
  <2>3. e # <<>> /\ q \in Roles /\ (s # r => q = r)
    <3>1. q \in Roles /\ (s # r => q = r)
      BY DEF Peer, Roles, SERVER, CLIENT
    <3> DEFINE x == messages[m][q]
               v == sentSCI[s]
    <3>2. x \in Seq(Int) /\ v \in Int
      BY <1>2, <2>2, <3>1
    <3> HIDE DEF x, v
    <3>3. Append(x, v) # <<>>
      BY <3>2
    <3> QED
      BY <3>1, <3>3 DEF x, v
  <2> HIDE DEF m, q, e
  <2>4. messages'[n][r] = IF n = m /\ r = q THEN e ELSE messages[n][r]
    BY <1>1, <1>2, <2>1, <2>2, <2>3
  <2>5. /\ pc[s] = k /\ s = Peer(r) => messages'[n][r] # <<>>
        /\ messages[n][r] # <<>> => messages'[n][r] # <<>>
    BY <1>1, <2>2, <2>3, <2>4
  <2> QED
    BY <1>1, <2>1, <2>2, <2>5, WaitsStep
<1>12. ASSUME NEW s \in Roles, ReceiveNext(s) PROVE MessageWaits(n, r, k)'
  <2> DEFINE m == Step(s).name
             e == Tail(messages[m][s])
  <2>1. /\ At(s, "receive") /\ Advance(s)
        /\ messages' = [messages EXCEPT ![m][s] = e]
    BY <1>12 DEF ReceiveNext
  <2>2. /\ pc[s] \in 1 .. 17 /\ m \in Names
        /\ pc[s] = k => s = r
        /\ s = r /\ m = n => pc[s] = k
    <3>1. /\ pc[s] \in 1 .. 17 /\ Step(s) = Script(s)[pc[s]] /\ Step(s).do = "receive"
          /\ pc[s] = k => s = r
          /\ s = r /\ m = n => pc[s] = k
      BY <1>4, <2>1
    <3> QED
      BY <3>1, ScriptSteps
  <2> HIDE DEF m, e
  <2>3. messages'[n][r] = IF n = m /\ r = s THEN e ELSE messages[n][r]
    BY <1>1, <1>2, <2>1, <2>2
  <2>4. /\ ~(pc[s] = k /\ s = Peer(r))
        /\ ~(pc[s] = k /\ s = r) => messages'[n][r] = messages[n][r]
    BY <1>1, <2>2, <2>3
  <2> QED
    BY <1>1, <2>1, <2>2, <2>4, WaitsStep
<1>13. CASE UNCHANGED setupVars
  BY <1>3, <1>13 DEF setupVars
<1> QED
  BY <1>6, <1>7, <1>8, <1>9, <1>10, <1>11, <1>12, <1>13 DEF SetupNext

LEMMA PromptStep ==
    ASSUME SetupInv, PromptTypes, [SetupNext]_setupVars
    PROVE  PromptTypes'
<1> USE BoundsAssumption DEF network, keys, totals, PromptTypes
<1>1. CASE TypeLine
  BY <1>1 DEF TypeLine
<1>2. CASE RunPsi
  BY <1>2 DEF RunPsi
<1>3. ASSUME NEW r \in Roles, ReadLine(r) PROVE PromptTypes'
  BY <1>3 DEF ReadLine
<1>4. ASSUME NEW r \in Roles, GetChar(r) PROVE PromptTypes'
  <2>1. chars[r] - 1 \in Nat
    BY <1>4 DEF GetChar
  <2> QED
    BY <1>4, <2>1 DEF GetChar
<1>5. ASSUME NEW r \in Roles, ConnectFails(r) PROVE PromptTypes'
  BY <1>5 DEF ConnectFails
<1>6. ASSUME NEW r \in Roles,
             Bind(r) \/ Accept(r) \/ Connect(r) \/ SendNext(r) \/ ReceiveNext(r)
               \/ ResetCommunication(r) \/ AccumulateCommunication(r) \/ PrintCommunication(r)
      PROVE  PromptTypes'
  <2>1. UNCHANGED <<terminal, chars, tries>>
    BY <1>6 DEF Bind, Accept, Connect, SendNext, ReceiveNext, ResetCommunication,
                AccumulateCommunication, PrintCommunication
  <2> QED
    BY <2>1
<1>7. CASE UNCHANGED setupVars
  BY <1>7 DEF setupVars
<1> QED
  BY <1>1, <1>2, <1>3, <1>4, <1>5, <1>6, <1>7 DEF SetupNext

LEMMA OpenInvInit == SetupInit => OpenInv
<1> SUFFICES ASSUME SetupInit PROVE OpenInv
  OBVIOUS
<1>1. SetupInv
  BY SetupInvInit
<1>2. PromptTypes
  BY BoundsAssumption DEF SetupInit, PromptTypes
<1>3. ASSUME NEW k \in OpenPlaces PROVE Opening(k)
  <2>1. k > 1 /\ ListenerAt(k) \in Roles /\ Peer(ListenerAt(k)) \in Roles
    BY PortsDiffer
  <2>2. pc[ListenerAt(k)] = 1 /\ pc[Peer(ListenerAt(k))] = 1 /\ listening = {} /\ backlog = {}
    BY <2>1 DEF SetupInit
  <2>3. k \in Nat
    BY PortsDiffer
  <2> QED
    BY <2>1, <2>2, <2>3 DEF Opening
<1>4. MessageWaits("test", CLIENT, 6) /\ MessageWaits("io", SERVER, 11)
  BY DEF SetupInit, MessageWaits, Peer, Roles, SERVER, CLIENT
<1> QED
  BY <1>1, <1>2, <1>3, <1>4 DEF OpenInv

LEMMA OpenInvStep == OpenInv /\ [SetupNext]_setupVars => OpenInv'
<1> SUFFICES ASSUME OpenInv, [SetupNext]_setupVars PROVE OpenInv'
  OBVIOUS
<1>1. SetupInv'
  BY SetupInvStep DEF OpenInv
<1>2. PromptTypes'
  BY PromptStep DEF OpenInv
<1>3. \A k \in OpenPlaces : Opening(k)'
  BY OpeningsStep DEF OpenInv
<1>4. MessageWaits("test", CLIENT, 6)'
  BY MessagesStep DEF OpenInv, CLIENT
<1>5. MessageWaits("io", SERVER, 11)'
  BY MessagesStep DEF OpenInv, SERVER
<1> QED
  BY <1>1, <1>2, <1>3, <1>4, <1>5 DEF OpenInv, OpenPlaces

\* The role that is behind can go on, or the other one is at the same place and can.
LEMMA BehindGoes ==
    ASSUME OpenInv, NEW r \in Roles, pc[r] \in 1 .. 17, pc[r] <= pc[Peer(r)]
    PROVE  RoleGoes(r) \/ RoleGoes(Peer(r))
<1> DEFINE i == pc[r]
           q == Peer(r)
           s == Script(r)[i]
           t == Script(q)[i]
<1>1. /\ i \in 1 .. 17 /\ q \in Roles /\ q = 1 - r /\ Peer(q) = r /\ pc[q] \in 0 .. 18
      /\ i <= pc[q]
  BY DEF Peer, Roles, SERVER, CLIENT, OpenInv, SetupInv, Places
<1>2. \A d : s.do = d => At(r, d) /\ Step(r) = s
  BY ScriptSteps DEF At, Step
<1>3. \A d : t.do = d /\ pc[q] = i => At(q, d) /\ Step(q) = t
  BY <1>1, ScriptSteps DEF At, Step
<1>4. CASE s.do = "key"
  <2>1. At(r, "key")
    BY <1>2, <1>4
  <2>2. terminal \in Nat /\ chars[r] \in Nat
    BY DEF OpenInv, PromptTypes
  <2>3. (chars[r] = 0 /\ terminal = 0) \/ (chars[r] = 0 /\ terminal > 0) \/ chars[r] > 0
    BY <2>2
  <2> QED
    BY <2>1, <2>3 DEF RoleGoes
<1>5. CASE s.do \in {"send", "reset", "accumulate", "print"}
  BY <1>2, <1>5 DEF RoleGoes
\* Neither has passed the connection, or one of them waits for the other at it.
<1>6. ASSUME i \in OpenPlaces PROVE RoleGoes(r) \/ RoleGoes(q)
  <2> DEFINE p == PortAt(i)
             l == ListenerAt(i)
             e == Peer(l)
  <2>1. /\ Script(l)[i].port = p /\ Script(l)[i].do = "listen"
        /\ Script(e)[i].port = p /\ Script(e)[i].do = "dial"
        /\ l \in Roles /\ e \in Roles
    BY <1>1, <1>6, Mirror, PortsDiffer
  <2>2. /\ p \in listening => pc[l] >= i
        /\ pc[e] > i => p \in listening
        /\ pc[l] > i => pc[e] > i
        /\ p \in backlog <=> pc[e] > i /\ pc[l] = i
    BY <1>6 DEF OpenInv, Opening
  <2>3. (r = l /\ q = e) \/ (r = e /\ q = l)
    BY <1>1, <2>1 DEF Peer, Roles, SERVER, CLIENT
  <2>4. /\ pc[l] = i => At(l, "listen") /\ Step(l).port = p
        /\ pc[e] = i => At(e, "dial") /\ Step(e).port = p
    BY <1>1, <2>1, ScriptSteps DEF At, Step
  <2> HIDE DEF p, l, e, i, q
  <2>5. pc[r] = i
    BY DEF i
  <2>6. CASE r = l /\ q = e
    <3>1. CASE p \notin listening \/ p \in backlog
      BY <2>4, <2>5, <2>6, <3>1 DEF RoleGoes
    <3>2. CASE p \in listening /\ p \notin backlog
      <4>1. pc[e] = i
        BY <1>1, <2>2, <2>5, <2>6, <3>2
      <4> QED
        BY <2>4, <2>6, <3>2, <4>1 DEF RoleGoes
    <3> QED
      BY <3>1, <3>2
  <2>7. CASE r = e /\ q = l
    <3>1. pc[l] = i /\ p \notin backlog
      BY <1>1, <2>2, <2>5, <2>7
    <3>2. CASE p \notin listening
      BY <2>4, <2>7, <3>1, <3>2 DEF RoleGoes
    <3>3. CASE p \in listening
      BY <2>4, <2>5, <2>7, <3>1, <3>3 DEF RoleGoes
    <3> QED
      BY <3>2, <3>3
  <2> QED
    BY <2>3, <2>6, <2>7
\* What is to be received is there, or is just to be sent.
<1>7. CASE s.do = "receive"
  <2>1. t.do = "send"
    BY <1>1, <1>7, Mirror
  <2>2. CASE pc[q] = i
    BY <1>3, <2>1, <2>2 DEF RoleGoes
  <2>3. CASE pc[q] > i
    <3>1. messages[s.name][r] # <<>>
      <4>1. /\ MessageWaits("test", 1, 6) /\ MessageWaits("io", 0, 11)
            /\ SumFlow /\ r \in {0, 1}
        BY DEF OpenInv, SetupInv, Sums, Roles, SERVER, CLIENT
      <4>2. CASE s.name = "test" /\ r = 1 /\ i = 6
        BY <1>1, <2>3, <4>1, <4>2 DEF MessageWaits
      <4>3. CASE s.name = "io" /\ r = 0 /\ i = 11
        BY <1>1, <2>3, <4>1, <4>3 DEF MessageWaits
      <4>4. CASE s.name = "sock" /\ i = 16 - r
        <5>1. CASE r = 0
          <6>1. pc[0] = 16 /\ pc[1] > 16
            BY <1>1, <2>3, <4>4, <5>1
          <6>2. messages["sock"][0] = <<sentSCI[1]>>
            BY <4>1, <6>1 DEF SumFlow
          <6> QED
            BY <4>4, <5>1, <6>2
        <5>2. CASE r = 1
          <6>1. pc[1] = 15 /\ pc[0] > 15
            BY <1>1, <2>3, <4>4, <5>2
          <6>2. messages["sock"][1] = <<sentSCI[0]>>
            BY <4>1, <6>1 DEF SumFlow
          <6> QED
            BY <4>4, <5>2, <6>2
        <5> QED
          BY <4>1, <5>1, <5>2
      <4> QED
        BY <1>7, <4>2, <4>3, <4>4, Mirror
    <3> QED
      BY <1>2, <1>7, <3>1 DEF RoleGoes
  <2> QED
    BY <1>1, <2>2, <2>3
\* Both come to the protocol before either leaves it.
<1>8. CASE s.do = "psi"
  <2>1. i = 13 /\ t.do = "psi"
    BY <1>1, <1>8, Mirror, ScriptSteps
  <2>2. pc[q] = 13
    <3>1. (pc[0] > 13) <=> (pc[1] > 13)
      BY DEF OpenInv, SetupInv, Sums, SumFlow
    <3>2. (r = 0 /\ q = 1) \/ (r = 1 /\ q = 0)
      BY <1>1 DEF Roles, SERVER, CLIENT
    <3> QED
      BY <1>1, <2>1, <3>1, <3>2
  <2>3. At(r, "psi") /\ At(q, "psi")
    BY <1>2, <1>3, <1>8, <2>1, <2>2
  <2>4. \A w \in Roles : w = r \/ w = q
    BY <1>1 DEF Roles, SERVER, CLIENT
  <2> QED
    BY <2>3, <2>4 DEF RoleGoes
<1> QED
  BY <1>4, <1>5, <1>6, <1>7, <1>8, Mirror

\* Neither role waits for the other to listen, to dial or to send while that one waits for
\* it, whatever the order of their steps and whoever gets the lines.
THEOREM SomeRoleGoesInvariant == SetupSpec => []SomeRoleGoes
<1>1. OpenInv => SomeRoleGoes
  <2> SUFFICES ASSUME OpenInv, pc[1] # 0, ~(\A r \in Roles : Done(r))
               PROVE  \E r \in Roles : RoleGoes(r)
    BY DEF SomeRoleGoes, CLIENT
  <2>1. pc[0] \in 1 .. 18 /\ pc[1] \in 1 .. 18
    BY DEF OpenInv, SetupInv, Places, Roles, SERVER, CLIENT
  <2>2. ~(pc[0] = 18 /\ pc[1] = 18)
    <3>1. \A r \in Roles : Len(Script(r)) = 17
      <4>1. 1 \in 1 .. 17
        OBVIOUS
      <4> QED
        BY <4>1, ScriptSteps
    <3>2. pc[0] = 18 /\ pc[1] = 18 => \A r \in Roles : Done(r)
      <4> SUFFICES ASSUME pc[0] = 18, pc[1] = 18, NEW r \in Roles PROVE pc[r] > 17
        BY <3>1 DEF Done
      <4> QED
        BY DEF Roles, SERVER, CLIENT
    <3> QED
      BY <3>2
  <2>3. /\ 0 \in Roles /\ 1 \in Roles /\ Peer(0) = 1 /\ Peer(1) = 0
    BY DEF Roles, SERVER, CLIENT, Peer
  <2>4. CASE pc[0] <= pc[1]
    <3>1. pc[0] \in 1 .. 17
      BY <2>1, <2>2, <2>4
    <3> QED
      BY <2>3, <2>4, <3>1, BehindGoes
  <2>5. CASE pc[1] <= pc[0]
    <3>1. pc[1] \in 1 .. 17
      BY <2>1, <2>2, <2>5
    <3> QED
      BY <2>3, <2>5, <3>1, BehindGoes
  <2> QED
    BY <2>1, <2>4, <2>5
<1> QED
  BY <1>1, OpenInvInit, OpenInvStep, PTL DEF SetupSpec

\* The work of a role is a number, before and after a step.
LEMMA RoleWorkIs ==
    ASSUME NEW r \in Roles
    PROVE  /\ pc[r] \in 0 .. 18 => RoleWork(r) \in Nat
           /\ pc'[r] \in 0 .. 18 => RoleWork(r)' \in Nat
  BY DEF RoleWork

\* A role that goes on has at least one place less, and at most a line and a port more.
LEMMA PlaceIsWork ==
    ASSUME Places, Places', NEW r \in Roles, pc[r] \in 1 .. 17, pc'[r] = pc[r] + 1
    PROVE  RoleWork(r)' < RoleWork(r)
<1> DEFINE b == IF chars[r] > 0 THEN 0 ELSE 2
           c == IF Waits(r) THEN 0 ELSE 1
           d == IF chars'[r] > 0 THEN 0 ELSE 2
           e == IF Waits(r)' THEN 0 ELSE 1
<1>1. b \in 0 .. 2 /\ c \in 0 .. 1 /\ d \in 0 .. 2 /\ e \in 0 .. 1
  OBVIOUS
<1>2. RoleWork(r) = 4 * (18 - pc[r]) + b + c
  BY DEF RoleWork
<1>3. RoleWork(r)' = 4 * (18 - (pc[r] + 1)) + d + e
  <2>1. pc'[r] # 0 /\ pc'[r] = pc[r] + 1
    OBVIOUS
  <2> HIDE DEF b, c
  <2> QED
    BY <2>1 DEF RoleWork
<1> HIDE DEF b, c, d, e
<1> QED
  BY <1>1, <1>2, <1>3

\* A role that stands still has no more to do.
LEMMA StillIsNoWork ==
    ASSUME Places, Places', NEW r \in Roles, pc'[r] = pc[r],
           chars'[r] = chars[r], listening \subseteq listening'
    PROVE  RoleWork(r)' <= RoleWork(r)
<1> DEFINE a == 4 * (IF pc[r] = 0 THEN 0 ELSE 18 - pc[r]) + (IF chars[r] > 0 THEN 0 ELSE 2)
           c == IF Waits(r) THEN 0 ELSE 1
           e == IF Waits(r)' THEN 0 ELSE 1
<1>1. Waits(r) => Waits(r)'
  BY DEF Waits, At, Step
<1>2. c \in 0 .. 1 /\ e \in 0 .. 1 /\ e <= c
  BY <1>1
<1>3. a \in Int
  <2>1. pc[r] \in 0 .. 18
    BY DEF Places
  <2> QED
    BY <2>1
<1>4. RoleWork(r) = a + c /\ RoleWork(r)' = a + e
  BY DEF RoleWork
<1> HIDE DEF a, c, e
<1> QED
  BY <1>2, <1>3, <1>4

\* What is left is a number, and is less when one role has less to do and the other no more.
LEMMA SetupWorkIs ==
    ASSUME Places, PromptTypes
    PROVE  SetupWork \in Nat
<1> DEFINE a == RoleWork(0)
           b == RoleWork(1)
           c == SockTries - tries
           d == IF terminal > 0 THEN 0 ELSE 1
<1>1. a \in Nat /\ b \in Nat
  BY RoleWorkIs DEF Places, Roles, SERVER, CLIENT
<1>2. c \in Nat /\ d \in Nat
  BY BoundsAssumption DEF PromptTypes
<1>3. SetupWork = a + b + c + d
  BY DEF SetupWork, SERVER, CLIENT
<1> HIDE DEF a, b, c, d
<1> QED
  BY <1>1, <1>2, <1>3

LEMMA LessSetupWork ==
    ASSUME Places, Places', PromptTypes, PromptTypes', NEW r \in Roles,
           NEW k \in Int, NEW m \in Int, NEW j \in Int, k > m + j,
           RoleWork(r)' <= RoleWork(r) - k, RoleWork(Peer(r))' <= RoleWork(Peer(r)),
           tries' = tries - m,
           (IF terminal' > 0 THEN 0 ELSE 1) = (IF terminal > 0 THEN 0 ELSE 1) + j
    PROVE  SetupWork' < SetupWork
<1> DEFINE a == RoleWork(0)
           b == RoleWork(1)
           c == SockTries - tries
           d == IF terminal > 0 THEN 0 ELSE 1
           aa == RoleWork(0)'
           bb == RoleWork(1)'
           cc == SockTries - tries'
           dd == IF terminal' > 0 THEN 0 ELSE 1
<1>1. a \in Nat /\ b \in Nat /\ aa \in Nat /\ bb \in Nat
  BY RoleWorkIs DEF Places, Roles, SERVER, CLIENT
<1>2. /\ c \in Int /\ cc = c + m
      /\ d \in Int /\ dd = d + j
  <2>1. tries \in Int /\ SockTries \in Int /\ tries' = tries - m
    BY BoundsAssumption DEF PromptTypes
  <2>2. c \in Int /\ cc = c + m
    BY <2>1
  <2>3. d \in Int /\ dd = d + j
    OBVIOUS
  <2> QED
    BY <2>2, <2>3
<1>3. SetupWork = a + b + c + d /\ SetupWork' = aa + bb + cc + dd
  BY DEF SetupWork, SERVER, CLIENT
<1>4. (aa <= a - k /\ bb <= b) \/ (bb <= b - k /\ aa <= a)
  <2>1. (r = 0 /\ Peer(r) = 1) \/ (r = 1 /\ Peer(r) = 0)
    BY DEF Peer, Roles, SERVER, CLIENT
  <2> QED
    BY <2>1
<1> HIDE DEF a, b, c, d, aa, bb, cc, dd
<1> QED
  BY <1>1, <1>2, <1>3, <1>4

\* Every step of a role, and every line typed, leaves less to do.
LEMMA EverySetupStepIsWork == OpenInv /\ [SetupNext]_setupVars => [SetupWork' < SetupWork]_setupVars
<1> SUFFICES ASSUME OpenInv, SetupNext PROVE SetupWork' < SetupWork
  OBVIOUS
<1> USE DEF network, keys, totals
<1>1. /\ Places /\ Places' /\ PromptTypes /\ PromptTypes' /\ SetupInv
      /\ \A r \in Roles : Peer(r) \in Roles /\ pc[r] \in 0 .. 18 /\ pc'[r] \in 0 .. 18
  <2>1. OpenInv'
    BY OpenInvStep
  <2> QED
    BY <2>1 DEF OpenInv, SetupInv, Places, Peer, Roles, SERVER, CLIENT
<1>2. \A r \in Roles : RoleWork(r) \in Nat /\ RoleWork(r)' \in Nat
  BY <1>1, RoleWorkIs
\* A role goes on to its next place.
<1>3. ASSUME NEW r \in Roles, NEW do, At(r, do), Advance(r),
             UNCHANGED <<tries, terminal>>, chars'[Peer(r)] = chars[Peer(r)],
             UNCHANGED listening
      PROVE  SetupWork' < SetupWork
  <2>1. pc[r] \in 1 .. 17 /\ pc'[r] = pc[r] + 1 /\ pc'[Peer(r)] = pc[Peer(r)]
    BY <1>1, <1>3, StepIs, OnePlace
  <2>2. RoleWork(r)' < RoleWork(r)
    BY <1>1, <2>1, PlaceIsWork
  <2>3. RoleWork(Peer(r))' <= RoleWork(Peer(r))
    BY <1>1, <1>3, <2>1, StillIsNoWork
  <2>4. RoleWork(r)' <= RoleWork(r) - 1
    BY <1>2, <2>2
  <2>5. /\ tries' = tries - 0
        /\ (IF terminal' > 0 THEN 0 ELSE 1) = (IF terminal > 0 THEN 0 ELSE 1) + 0
    BY <1>1, <1>3 DEF PromptTypes
  <2> QED
    BY <1>1, <2>3, <2>4, <2>5, LessSetupWork
<1>4. ASSUME NEW r \in Roles,
             GetChar(r) \/ Accept(r) \/ Connect(r) \/ SendNext(r) \/ ReceiveNext(r)
               \/ ResetCommunication(r) \/ AccumulateCommunication(r) \/ PrintCommunication(r)
      PROVE  SetupWork' < SetupWork
  <2>1. /\ \E do : At(r, do)
        /\ Advance(r) /\ UNCHANGED <<tries, terminal, listening>>
    BY <1>4 DEF GetChar, Accept, Connect, SendNext, ReceiveNext, ResetCommunication,
                AccumulateCommunication, PrintCommunication
  <2>2. chars'[Peer(r)] = chars[Peer(r)]
    <3>1. CASE GetChar(r)
      <4>1. Peer(r) # r /\ Peer(r) \in Roles
        BY DEF Peer, Roles, SERVER, CLIENT
      <4> QED
        BY <1>1, <3>1, <4>1 DEF GetChar, PromptTypes
    <3>2. CASE ~GetChar(r)
      BY <1>4, <3>2 DEF Accept, Connect, SendNext, ReceiveNext, ResetCommunication,
                        AccumulateCommunication, PrintCommunication
    <3> QED
      BY <3>1, <3>2
  <2> QED
    BY <1>3, <2>1, <2>2
<1>5. CASE RunPsi
  <2>1. \A r \in Roles : pc[r] \in 1 .. 17 /\ pc'[r] = pc[r] + 1
    <3> SUFFICES ASSUME NEW r \in Roles PROVE pc[r] \in 1 .. 17 /\ pc'[r] = pc[r] + 1
      OBVIOUS
    <3>1. pc[r] \in 1 .. 17
      BY <1>5, StepIs DEF RunPsi
    <3> QED
      BY <1>5, <3>1 DEF RunPsi
  <2>2. \A r \in Roles : RoleWork(r)' < RoleWork(r)
    BY <1>1, <2>1, PlaceIsWork
  <2>3. 0 \in Roles /\ Peer(0) \in Roles
    BY DEF Peer, Roles, SERVER, CLIENT
  <2>4. RoleWork(0)' <= RoleWork(0) - 1 /\ RoleWork(Peer(0))' <= RoleWork(Peer(0))
    BY <1>2, <2>2, <2>3
  <2>5. /\ tries' = tries - 0
        /\ (IF terminal' > 0 THEN 0 ELSE 1) = (IF terminal > 0 THEN 0 ELSE 1) + 0
    BY <1>1, <1>5 DEF RunPsi, PromptTypes
  <2> QED
    BY <1>1, <2>3, <2>4, <2>5, LessSetupWork
\* A role that stays where it is reads a line or binds a port, or a line is typed.
<1>6. ASSUME NEW r \in Roles, UNCHANGED pc, NEW q \in Roles, chars'[q] = chars[q],
             listening \subseteq listening'
      PROVE  RoleWork(q)' <= RoleWork(q)
  BY <1>1, <1>6, StillIsNoWork
<1>7. CASE TypeLine
  <2>1. /\ 0 \in Roles /\ Peer(0) \in Roles /\ terminal = 0 /\ terminal' \in 1 .. MaxLine
        /\ UNCHANGED <<pc, chars, listening, tries>>
    BY <1>7 DEF TypeLine, Peer, Roles, SERVER, CLIENT
  <2>2. RoleWork(0)' <= RoleWork(0) /\ RoleWork(Peer(0))' <= RoleWork(Peer(0))
    BY <1>6, <2>1
  <2>3. RoleWork(0)' <= RoleWork(0) - 0
    BY <1>2, <2>1, <2>2
  <2>4. /\ tries' = tries - 0
        /\ (IF terminal' > 0 THEN 0 ELSE 1) = (IF terminal > 0 THEN 0 ELSE 1) + (-1)
    BY <1>1, <2>1, BoundsAssumption DEF PromptTypes
  <2> QED
    BY <1>1, <2>1, <2>2, <2>3, <2>4, LessSetupWork
<1>8. ASSUME NEW r \in Roles, ReadLine(r) PROVE SetupWork' < SetupWork
  <2>1. /\ chars' = [chars EXCEPT ![r] = terminal] /\ chars[r] = 0 /\ terminal > 0
        /\ terminal' = 0 /\ UNCHANGED <<pc, listening, tries>>
    BY <1>8 DEF ReadLine
  <2>2. Peer(r) # r /\ Peer(r) \in Roles
    BY DEF Peer, Roles, SERVER, CLIENT
  <2>3. chars'[r] > 0 /\ chars'[Peer(r)] = chars[Peer(r)]
    BY <1>1, <2>1, <2>2 DEF PromptTypes
  <2>4. RoleWork(Peer(r))' <= RoleWork(Peer(r))
    BY <1>6, <2>1, <2>2, <2>3
  <2>5. RoleWork(r)' <= RoleWork(r) - 2
    <3> DEFINE a == 4 * (IF pc[r] = 0 THEN 0 ELSE 18 - pc[r])
               c == IF Waits(r) THEN 0 ELSE 1
    <3>1. a \in Int /\ c \in Int
      BY <1>1
    <3>2. RoleWork(r) = a + 2 + c
      BY <2>1 DEF RoleWork
    <3>3. RoleWork(r)' = a + 0 + c
      BY <2>1, <2>3 DEF RoleWork, Waits, At, Step
    <3> HIDE DEF a, c
    <3> QED
      BY <3>1, <3>2, <3>3
  <2>6. /\ tries' = tries - 0
        /\ (IF terminal' > 0 THEN 0 ELSE 1) = (IF terminal > 0 THEN 0 ELSE 1) + 1
    BY <1>1, <2>1 DEF PromptTypes
  <2> QED
    BY <1>1, <2>4, <2>5, <2>6, LessSetupWork
<1>9. ASSUME NEW r \in Roles, Bind(r) PROVE SetupWork' < SetupWork
  <2>1. /\ At(r, "listen") /\ Step(r).port \notin listening
        /\ listening' = listening \cup {Step(r).port}
        /\ UNCHANGED <<pc, tries, terminal, chars>> /\ Peer(r) \in Roles
    BY <1>1, <1>9 DEF Bind
  <2>2. RoleWork(Peer(r))' <= RoleWork(Peer(r))
    BY <1>6, <2>1
  <2>3. RoleWork(r)' <= RoleWork(r) - 1
    <3> DEFINE a == 4 * (IF pc[r] = 0 THEN 0 ELSE 18 - pc[r])
                      + (IF chars[r] > 0 THEN 0 ELSE 2)
    <3>1. a \in Int
      BY <1>1
    <3>2. ~Waits(r) /\ Waits(r)'
      BY <2>1 DEF Waits, At, Step
    <3>3. RoleWork(r) = a + 1
      BY <3>2 DEF RoleWork
    <3>4. RoleWork(r)' = a + 0
      BY <2>1, <3>2 DEF RoleWork
    <3> HIDE DEF a
    <3> QED
      BY <3>1, <3>3, <3>4
  <2>4. /\ tries' = tries - 0
        /\ (IF terminal' > 0 THEN 0 ELSE 1) = (IF terminal > 0 THEN 0 ELSE 1) + 0
    BY <1>1, <2>1 DEF PromptTypes
  <2> QED
    BY <1>1, <2>2, <2>3, <2>4, LessSetupWork
<1>10. ASSUME NEW r \in Roles, ConnectFails(r) PROVE SetupWork' < SetupWork
  <2>1. /\ At(r, "dial") /\ Step(r).name = "sock" /\ Peer(r) \in Roles
        /\ UNCHANGED <<terminal, chars, listening>>
        /\ \/ tries' = tries + 1 /\ UNCHANGED pc
           \/ pc' = [pc EXCEPT ![r] = 0] /\ UNCHANGED tries
    BY <1>1, <1>10 DEF ConnectFails
  <2>2. (IF terminal' > 0 THEN 0 ELSE 1) = (IF terminal > 0 THEN 0 ELSE 1) + 0
    BY <1>1, <2>1 DEF PromptTypes
  <2>3. CASE tries' = tries + 1 /\ UNCHANGED pc
    <3>1. RoleWork(r)' <= RoleWork(r) /\ RoleWork(Peer(r))' <= RoleWork(Peer(r))
      BY <1>6, <2>1, <2>3
    <3>2. RoleWork(r)' <= RoleWork(r) - 0 /\ tries' = tries - (-1)
      BY <1>1, <1>2, <2>3, <3>1 DEF PromptTypes
    <3> QED
      BY <1>1, <2>2, <3>1, <3>2, LessSetupWork
  <2>4. CASE pc' = [pc EXCEPT ![r] = 0] /\ UNCHANGED tries
    <3>1. r = 1 /\ pc[r] = 2
      BY <2>1, StepIs, ScriptSteps
    <3>2. pc'[r] = 0 /\ pc'[Peer(r)] = pc[Peer(r)]
      BY <1>1, <2>1, <2>4, <3>1 DEF Places, Peer, Roles, SERVER, CLIENT
    <3>3. RoleWork(Peer(r))' <= RoleWork(Peer(r))
      BY <1>1, <2>1, <3>2, StillIsNoWork
    <3>4. RoleWork(r)' <= RoleWork(r) - 1
      <4>1. RoleWork(r) >= 64
        BY <3>1 DEF RoleWork
      <4>2. RoleWork(r)' <= 3
        BY <3>2 DEF RoleWork
      <4> QED
        BY <1>2, <4>1, <4>2
    <3>5. tries' = tries - 0
      BY <1>1, <2>4 DEF PromptTypes
    <3> QED
      BY <1>1, <2>2, <3>3, <3>4, <3>5, LessSetupWork
  <2> QED
    BY <2>1, <2>3, <2>4
<1> QED
  BY <1>4, <1>5, <1>7, <1>8, <1>9, <1>10 DEF SetupNext

\* No start goes on for ever: there is never less than nothing to do, and every step of the
\* roles and of the user leaves less.  With SomeRoleGoes: the roles come to their end, or the
\* client gives up, if running processes run and somebody types.
THEOREM SetupWorkRunsOut ==
    SetupSpec => [](SetupWork \in Nat) /\ [][SetupWork' < SetupWork]_setupVars
<1>1. SetupSpec => []OpenInv
  BY OpenInvInit, OpenInvStep, PTL DEF SetupSpec
<1>2. OpenInv => SetupWork \in Nat
  BY SetupWorkIs DEF OpenInv, SetupInv
<1> QED
  BY <1>1, <1>2, EverySetupStepIsWork, PTL DEF SetupSpec

-----------------------------------------------------------------------------
(* The bytes of a sender, in their order                                   *)

\* What conversations are made of, and bytes.
Messages == [from : Ends, length : Nat \ {0}]
Bytes    == Nat \X Nat

\* The bytes that s sends in conversation c, those up to byte k of message i, and how many
\* these are: where the sender or the reader of the stream is when it is there.
BytesOf(c, s) == UNION {{i} \X (1 .. c[i].length) : i \in {j \in DOMAIN c : c[j].from = s}}
UpTo(c, s, i, k) == {b \in BytesOf(c, s) : b[1] < i \/ (b[1] = i /\ b[2] <= k)}
Rank(c, s, i, k) == Cardinality(UpTo(c, s, i, k))

\* A message has a length and a sender.
LEMMA ElementOfMessages ==
    ASSUME NEW c \in Seq(Messages), NEW i \in 1 .. Len(c)
    PROVE  c[i].length \in Nat \ {0} /\ c[i].from \in Ends
<1>1. c[i] \in Messages
  BY ElementOfSeq
<1> QED
  BY <1>1 DEF Messages

\* The messages of a sender are finitely many, and each is finite.
LEMMA BytesOfFinite ==
    ASSUME NEW c \in Seq(Messages), NEW s
    PROVE  IsFiniteSet(BytesOf(c, s))
<1> DEFINE I == {j \in DOMAIN c : c[j].from = s}
           P(i) == {i} \X (1 .. c[i].length)
           T == {P(i) : i \in I}
           f == [i \in I |-> P(i)]
<1>1. DOMAIN c = 1 .. Len(c) /\ Len(c) \in Nat
  OBVIOUS
<1>2. IsFiniteSet(I)
  <2>1. IsFiniteSet(1 .. Len(c))
    BY <1>1, FS_Interval
  <2>2. I \in SUBSET (1 .. Len(c))
    BY <1>1
  <2> HIDE DEF I
  <2> QED
    BY <2>1, <2>2, FS_Subset
<1>3. f \in Surjection(I, T)
  <2> HIDE DEF P, I
  <2> QED
    BY DEF Surjection
<1>4. IsFiniteSet(T)
  <2> HIDE DEF T, I, f
  <2> QED
    BY <1>2, <1>3, FS_Surjection
<1>5. \A i \in I : IsFiniteSet(P(i))
  <2> SUFFICES ASSUME NEW i \in DOMAIN c PROVE IsFiniteSet({i} \X (1 .. c[i].length))
    OBVIOUS
  <2>1. c[i].length \in Nat
    BY <1>1, ElementOfMessages
  <2>2. IsFiniteSet(1 .. c[i].length)
    <3> DEFINE z == c[i].length
    <3>1. z \in Int /\ 1 \in Int
      BY <2>1
    <3> HIDE DEF z
    <3>2. IsFiniteSet(1 .. z)
      BY <3>1, FS_Interval
    <3> QED
      BY <3>2 DEF z
  <2>3. IsFiniteSet({i})
    BY FS_Singleton
  <2> QED
    BY <2>2, <2>3, FS_Product
<1>6. \A t \in T : IsFiniteSet(t)
  <2> HIDE DEF P, I
  <2> QED
    BY <1>5
<1>7. IsFiniteSet(UNION T)
  <2> HIDE DEF T
  <2> QED
    BY <1>4, <1>6, FS_UNION
<1> QED
  BY <1>7 DEF BytesOf

\* What is a byte of s.
LEMMA BytesOfAre ==
    ASSUME NEW c \in Seq(Messages), NEW s
    PROVE  /\ \A i, k : <<i, k>> \in BytesOf(c, s) <=>
                          /\ i \in 1 .. Len(c) /\ c[i].from = s
                          /\ k \in 1 .. c[i].length
           /\ \A b \in BytesOf(c, s) : /\ b = <<b[1], b[2]>> /\ b \in Bytes
                                       /\ b[1] \in 1 .. Len(c) /\ c[b[1]].from = s
                                       /\ b[2] \in 1 .. c[b[1]].length
           /\ \A i \in 1 .. Len(c) : c[i].length \in Nat \ {0} /\ c[i].from \in Ends
<1>1. DOMAIN c = 1 .. Len(c) /\ Len(c) \in Nat
  OBVIOUS
<1>2. \A i \in 1 .. Len(c) : c[i].length \in Nat \ {0} /\ c[i].from \in Ends
  BY ElementOfMessages
<1>3. \A i, k : <<i, k>> \in BytesOf(c, s) <=>
                  i \in 1 .. Len(c) /\ c[i].from = s /\ k \in 1 .. c[i].length
  BY <1>1 DEF BytesOf
<1>4. ASSUME NEW b \in BytesOf(c, s) PROVE b = <<b[1], b[2]>>
  BY DEF BytesOf
<1>5. ASSUME NEW b \in BytesOf(c, s)
      PROVE  /\ b \in Bytes /\ b[1] \in 1 .. Len(c) /\ c[b[1]].from = s
             /\ b[2] \in 1 .. c[b[1]].length
  <2>1. b[1] \in 1 .. Len(c) /\ c[b[1]].from = s /\ b[2] \in 1 .. c[b[1]].length
    BY <1>3, <1>4
  <2>2. b[1] \in Nat /\ b[2] \in Nat
    BY <1>2, <2>1
  <2> QED
    BY <1>4, <2>1, <2>2 DEF Bytes
<1> QED
  BY <1>2, <1>3, <1>4, <1>5

\* So a place on a stream is a number.
LEMMA UpToFinite ==
    ASSUME NEW c \in Seq(Messages), NEW s, NEW i, NEW k
    PROVE  IsFiniteSet(UpTo(c, s, i, k)) /\ Rank(c, s, i, k) \in Nat
<1>1. UpTo(c, s, i, k) \in SUBSET BytesOf(c, s)
  BY DEF UpTo
<1>2. IsFiniteSet(UpTo(c, s, i, k))
  BY <1>1, BytesOfFinite, FS_Subset
<1> QED
  BY <1>2, FS_CardinalityType DEF Rank

\* Before the first message there is nothing.
LEMMA RankStart ==
    ASSUME NEW c \in Seq(Messages), NEW s
    PROVE  Rank(c, s, 1, 0) = 0
<1>1. UpTo(c, s, 1, 0) = {}
  BY BytesOfAre DEF UpTo
<1> QED
  BY <1>1, FS_EmptySet DEF Rank

\* The bytes of one message are counted one by one.
LEMMA RankMore ==
    ASSUME NEW c \in Seq(Messages), NEW s, NEW i \in 1 .. Len(c), c[i].from = s,
           NEW k \in Nat, NEW n \in Nat, k + n <= c[i].length
    PROVE  Rank(c, s, i, k + n) = Rank(c, s, i, k) + n
<1> DEFINE A == UpTo(c, s, i, k)
           B == {i} \X (k + 1 .. k + n)
<1>1. UpTo(c, s, i, k + n) = A \cup B
  <2>1. ASSUME NEW b \in UpTo(c, s, i, k + n) PROVE b \in A \cup B
    <3>1. /\ b \in BytesOf(c, s) /\ b = <<b[1], b[2]>> /\ b[1] \in Nat /\ b[2] \in Nat
          /\ b[1] < i \/ (b[1] = i /\ b[2] <= k + n)
      BY BytesOfAre DEF UpTo, Bytes
    <3>2. CASE b[1] < i \/ (b[1] = i /\ b[2] <= k)
      BY <3>1, <3>2 DEF UpTo
    <3>3. CASE ~(b[1] < i \/ (b[1] = i /\ b[2] <= k))
      <4>1. b[1] = i /\ b[2] \in k + 1 .. k + n
        BY <3>1, <3>3
      <4> QED
        BY <3>1, <4>1
    <3> QED
      BY <3>2, <3>3
  <2>2. ASSUME NEW b \in A PROVE b \in UpTo(c, s, i, k + n)
    <3>1. b[1] \in Nat /\ b[2] \in Nat
      BY BytesOfAre DEF UpTo, Bytes
    <3> QED
      BY <3>1 DEF UpTo
  <2>3. ASSUME NEW m \in k + 1 .. k + n PROVE <<i, m>> \in UpTo(c, s, i, k + n)
    <3>1. c[i].length \in Nat
      BY BytesOfAre
    <3>2. m \in 1 .. c[i].length
      BY <3>1
    <3>3. <<i, m>> \in BytesOf(c, s)
      BY <3>2, BytesOfAre
    <3> QED
      BY <3>3 DEF UpTo
  <2> QED
    BY <2>1, <2>2, <2>3
<1>2. A \cap B = {}
  BY DEF UpTo
<1>3. IsFiniteSet(A) /\ Cardinality(A) = Rank(c, s, i, k) /\ Rank(c, s, i, k) \in Nat
  <2>1. IsFiniteSet(UpTo(c, s, i, k)) /\ Rank(c, s, i, k) \in Nat
    BY UpToFinite
  <2> QED
    BY <2>1 DEF Rank
<1>4. IsFiniteSet(B) /\ Cardinality(B) = n
  <2>1. IsFiniteSet(k + 1 .. k + n) /\ Cardinality(k + 1 .. k + n) = n
    <3> DEFINE a == k + 1
               z == k + n
    <3>1. a \in Int /\ z \in Int /\ (IF a > z THEN 0 ELSE z - a + 1) = n
      OBVIOUS
    <3> HIDE DEF a, z
    <3>2. IsFiniteSet(a .. z) /\ Cardinality(a .. z) = n
      BY <3>1, FS_Interval
    <3> QED
      BY <3>2 DEF a, z
  <2>2. IsFiniteSet({i}) /\ Cardinality({i}) = 1
    BY FS_Singleton
  <2>3. IsFiniteSet(B) /\ Cardinality(B) = 1 * n
    BY <2>1, <2>2, FS_Product, ZenonT(40)
  <2> QED
    BY <2>3
<1> HIDE DEF A, B
<1>5. Cardinality(A \cup B) = Cardinality(A) + Cardinality(B) - Cardinality({})
  BY <1>2, <1>3, <1>4, FS_Union
<1>6. Cardinality({}) = 0
  BY FS_EmptySet
<1>7. Rank(c, s, i, k + n) = Cardinality(A \cup B)
  BY <1>1 DEF Rank
<1> QED
  BY <1>3, <1>4, <1>5, <1>6, <1>7

\* The byte k + m of a message is m bytes behind byte k.
LEMMA RankBehind ==
    ASSUME NEW c \in Seq(Messages), NEW s, NEW i \in 1 .. Len(c), c[i].from = s,
           NEW k \in Nat, NEW m \in Nat \ {0}, k + m <= c[i].length
    PROVE  <<i, k + m>> \in BytesOf(c, s) /\ Rank(c, s, i, k + m) = Rank(c, s, i, k) + m
<1>1. c[i].length \in Nat
  BY ElementOfMessages
<1>2. k + m \in 1 .. c[i].length
  BY <1>1
<1> QED
  BY <1>2, BytesOfAre, RankMore

\* A message that is whole, or not of s, is as far as the start of the next.
LEMMA RankNext ==
    ASSUME NEW c \in Seq(Messages), NEW s, NEW i \in 1 .. Len(c), NEW k,
           c[i].from = s => k = c[i].length
    PROVE  Rank(c, s, i, k) = Rank(c, s, i + 1, 0)
<1>1. UpTo(c, s, i, k) = UpTo(c, s, i + 1, 0)
  <2> SUFFICES ASSUME NEW b \in BytesOf(c, s)
               PROVE  (b[1] < i \/ (b[1] = i /\ b[2] <= k)) <=>
                      (b[1] < i + 1 \/ (b[1] = i + 1 /\ b[2] <= 0))
    BY DEF UpTo
  <2>1. b[1] \in Nat /\ c[b[1]].from = s /\ b[2] \in 1 .. c[b[1]].length
        /\ b[1] \in 1 .. Len(c)
    BY BytesOfAre DEF Bytes
  <2>2. c[b[1]].length \in Nat
    BY <2>1, BytesOfAre
  <2> QED
    BY <2>1, <2>2
<1> QED
  BY <1>1 DEF Rank

\* Who is further has at least as many.
LEMMA RankOrdered ==
    ASSUME NEW c \in Seq(Messages), NEW s, NEW i \in Nat, NEW k \in Nat,
           NEW j \in Nat, NEW l \in Nat, i < j \/ (i = j /\ k <= l)
    PROVE  Rank(c, s, i, k) <= Rank(c, s, j, l)
<1>1. ASSUME NEW b \in UpTo(c, s, i, k) PROVE b \in UpTo(c, s, j, l)
  <2>1. b \in BytesOf(c, s) /\ b[1] \in Nat /\ b[2] \in Nat
    BY BytesOfAre DEF UpTo, Bytes
  <2> QED
    BY <2>1 DEF UpTo
<1>2. UpTo(c, s, i, k) \in SUBSET UpTo(c, s, j, l)
  BY <1>1
<1> QED
  BY <1>2, UpToFinite, FS_Subset DEF Rank

\* Two bytes of one rank are one byte.
LEMMA RankOne ==
    ASSUME NEW c \in Seq(Messages), NEW s, NEW b \in BytesOf(c, s), NEW d \in BytesOf(c, s),
           Rank(c, s, b[1], b[2]) = Rank(c, s, d[1], d[2])
    PROVE  b = d
<1>1. /\ b = <<b[1], b[2]>> /\ b[1] \in Nat /\ b[2] \in Nat
      /\ d = <<d[1], d[2]>> /\ d[1] \in Nat /\ d[2] \in Nat
  BY BytesOfAre DEF Bytes
<1>2. ASSUME NEW x \in BytesOf(c, s), NEW y \in BytesOf(c, s),
             x[1] < y[1] \/ (x[1] = y[1] /\ x[2] < y[2])
      PROVE  Rank(c, s, x[1], x[2]) # Rank(c, s, y[1], y[2])
  <2>1. x[1] \in Nat /\ x[2] \in Nat /\ y[1] \in Nat /\ y[2] \in Nat
    BY BytesOfAre DEF Bytes
  <2>2. y \in UpTo(c, s, y[1], y[2]) /\ y \notin UpTo(c, s, x[1], x[2])
    BY <1>2, <2>1 DEF UpTo
  <2>3. ASSUME NEW z \in UpTo(c, s, x[1], x[2]) PROVE z \in UpTo(c, s, y[1], y[2])
    <3>1. z \in BytesOf(c, s) /\ z[1] \in Nat /\ z[2] \in Nat
      BY BytesOfAre DEF UpTo, Bytes
    <3> QED
      BY <1>2, <2>1, <3>1 DEF UpTo
  <2>4. UpTo(c, s, x[1], x[2]) \in SUBSET UpTo(c, s, y[1], y[2])
    BY <2>3
  <2>5. IsFiniteSet(UpTo(c, s, y[1], y[2]))
    BY UpToFinite
  <2> QED
    BY <2>2, <2>4, <2>5, FS_Subset DEF Rank
<1>3. b[1] = d[1] /\ b[2] = d[2]
  BY <1>1, <1>2
<1> QED
  BY <1>1, <1>3

-----------------------------------------------------------------------------
(* What is on a stream                                                     *)

\* The bytes of s from place p on.
Queue(c, s, p, q) ==
    \A m \in 1 .. Len(q) : q[m] \in BytesOf(c, s) /\ Rank(c, s, q[m][1], q[m][2]) = p + m

\* What FirstBytes and Without are, and that they make up the whole.
LEMMA Pieces ==
    ASSUME NEW q \in Seq(Bytes), NEW n \in 0 .. Len(q)
    PROVE  /\ FirstBytes(q, n) \in Seq(Bytes) /\ Len(FirstBytes(q, n)) = n
           /\ Without(q, n) \in Seq(Bytes) /\ Len(Without(q, n)) = Len(q) - n
           /\ \A m \in 1 .. n : FirstBytes(q, n)[m] = q[m]
           /\ \A m \in 1 .. Len(q) - n : Without(q, n)[m] = q[n + m]
           /\ FirstBytes(q, n) \o Without(q, n) = q
<1>1. Len(q) \in Nat /\ \A m \in 1 .. Len(q) : q[m] \in Bytes
  BY ElementOfSeq
<1>2. /\ FirstBytes(q, n) \in Seq(Bytes) /\ Len(FirstBytes(q, n)) = n
      /\ \A m \in 1 .. n : FirstBytes(q, n)[m] = q[m]
  <2>1. \A m \in 1 .. n : q[m] \in Bytes
    BY <1>1
  <2>2. /\ SubSeq(q, 1, n) \in Seq(Bytes)
        /\ Len(SubSeq(q, 1, n)) = IF 1 <= n THEN n - 1 + 1 ELSE 0
        /\ \A m \in 1 .. n - 1 + 1 : SubSeq(q, 1, n)[m] = q[1 + m - 1]
    BY <2>1, SubSeqProperties
  <2> QED
    BY <2>2 DEF FirstBytes
<1>3. /\ Without(q, n) \in Seq(Bytes) /\ Len(Without(q, n)) = Len(q) - n
      /\ \A m \in 1 .. Len(q) - n : Without(q, n)[m] = q[n + m]
  <2>1. \A m \in n + 1 .. Len(q) : q[m] \in Bytes
    BY <1>1
  <2> DEFINE a == n + 1
             z == Len(q)
  <2>2. a \in Int /\ z \in Int /\ \A m \in a .. z : q[m] \in Bytes
    BY <1>1, <2>1
  <2> HIDE DEF a, z
  <2>3. /\ SubSeq(q, a, z) \in Seq(Bytes)
        /\ Len(SubSeq(q, a, z)) = IF a <= z THEN z - a + 1 ELSE 0
        /\ \A m \in 1 .. z - a + 1 : SubSeq(q, a, z)[m] = q[a + m - 1]
    BY <2>2, SubSeqProperties
  <2>4. Without(q, n) = SubSeq(q, a, z) /\ a = n + 1 /\ z = Len(q)
    BY DEF Without, a, z
  <2> QED
    BY <1>1, <2>3, <2>4
<1>4. FirstBytes(q, n) \o Without(q, n) = q
  <2>1. SubSeq(q, 1, n) \o SubSeq(q, n + 1, Len(q)) = SubSeq(q, 1, Len(q))
    <3>1. 1 \in 1 .. Len(q) + 1 /\ n \in 1 - 1 .. Len(q) /\ Len(q) \in n .. Len(q)
      BY <1>1
    <3> QED
      BY <3>1, ConcatAdjacentSubSeq
  <2>2. SubSeq(q, 1, Len(q)) = q
    BY SubSeqFull
  <2> QED
    BY <2>1, <2>2 DEF FirstBytes, Without
<1> QED
  BY <1>2, <1>3, <1>4

\* The front of a queue, and what is behind it.
LEMMA QueueFront ==
    ASSUME NEW c, NEW s, NEW p \in Nat, NEW q \in Seq(Bytes), NEW t \in Seq(Bytes),
           Queue(c, s, p, q \o t)
    PROVE  Queue(c, s, p, q)
<1>1. Len(q \o t) = Len(q) + Len(t) /\ Len(q) \in Nat /\ Len(t) \in Nat
      /\ \A m \in 1 .. Len(q) : (q \o t)[m] = q[m]
  BY ConcatProperties
<1> QED
  BY <1>1 DEF Queue

\* What is behind the front of a queue.
LEMMA QueueBehind ==
    ASSUME NEW c, NEW s, NEW p \in Nat, NEW q \in Seq(Bytes), NEW t \in Seq(Bytes),
           Queue(c, s, p, q \o t)
    PROVE  Queue(c, s, p + Len(q), t)
<1>1. /\ Len(q \o t) = Len(q) + Len(t) /\ Len(q) \in Nat /\ Len(t) \in Nat
      /\ \A m \in 1 .. Len(q) + Len(t) :
           (q \o t)[m] = IF m <= Len(q) THEN q[m] ELSE t[m - Len(q)]
  BY ConcatProperties
<1> SUFFICES ASSUME NEW m \in 1 .. Len(t)
             PROVE  /\ t[m] \in BytesOf(c, s)
                    /\ Rank(c, s, t[m][1], t[m][2]) = p + Len(q) + m
  BY DEF Queue
<1>2. Len(q) + m \in 1 .. Len(q) + Len(t) /\ p + (Len(q) + m) = p + Len(q) + m
  BY <1>1
<1>3. (q \o t)[Len(q) + m] = t[m]
  <2>1. ~(Len(q) + m <= Len(q)) /\ Len(q) + m - Len(q) = m
    BY <1>1
  <2> QED
    BY <1>1, <1>2, <2>1
<1> QED
  BY <1>1, <1>2, <1>3 DEF Queue

\* The sender adds bytes that follow.
LEMMA QueueAppend ==
    ASSUME NEW c, NEW s, NEW p \in Nat, NEW q \in Seq(Bytes), NEW t \in Seq(Bytes),
           Queue(c, s, p, q), Queue(c, s, p + Len(q), t)
    PROVE  Queue(c, s, p, q \o t) /\ Len(q \o t) = Len(q) + Len(t)
<1>1. /\ Len(q \o t) = Len(q) + Len(t) /\ Len(q) \in Nat /\ Len(t) \in Nat
      /\ \A m \in 1 .. Len(q) + Len(t) :
           (q \o t)[m] = IF m <= Len(q) THEN q[m] ELSE t[m - Len(q)]
  BY ConcatProperties
<1>2. ASSUME NEW m \in 1 .. Len(q) + Len(t)
      PROVE  /\ (q \o t)[m] \in BytesOf(c, s)
             /\ Rank(c, s, (q \o t)[m][1], (q \o t)[m][2]) = p + m
  <2>1. CASE m <= Len(q)
    <3>1. (q \o t)[m] = q[m] /\ m \in 1 .. Len(q)
      BY <1>1, <2>1
    <3> QED
      BY <3>1 DEF Queue
  <2>2. CASE m > Len(q)
    <3>1. /\ (q \o t)[m] = t[m - Len(q)] /\ m - Len(q) \in 1 .. Len(t)
          /\ p + Len(q) + (m - Len(q)) = p + m
      BY <1>1, <2>2
    <3> QED
      BY <3>1 DEF Queue
  <2> QED
    BY <1>1, <2>1, <2>2
<1> QED
  BY <1>1, <1>2 DEF Queue

\* The bytes of message i behind byte k.
PartOf(i, k, t) == \A m \in 1 .. Len(t) : t[m] = Byte(i, k + m)

\* The next bytes of a message follow those that have been written.
LEMMA QueueOfMessage ==
    ASSUME NEW c \in Seq(Messages), NEW s, NEW i \in 1 .. Len(c), c[i].from = s,
           NEW k \in Nat, NEW t \in Seq(Bytes), k + Len(t) <= c[i].length,
           PartOf(i, k, t)
    PROVE  Queue(c, s, Rank(c, s, i, k), t)
<1> SUFFICES ASSUME NEW m \in 1 .. Len(t)
             PROVE  /\ t[m] \in BytesOf(c, s)
                    /\ Rank(c, s, t[m][1], t[m][2]) = Rank(c, s, i, k) + m
  BY DEF Queue
<1>1. t[m] = <<i, k + m>> /\ t[m][1] = i /\ t[m][2] = k + m
  BY DEF Byte, PartOf
<1>2. m \in Nat \ {0} /\ k + m <= c[i].length
  <2>1. c[i].length \in Nat /\ Len(t) \in Nat
    BY ElementOfMessages
  <2> QED
    BY <2>1
<1>3. <<i, k + m>> \in BytesOf(c, s) /\ Rank(c, s, i, k + m) = Rank(c, s, i, k) + m
  BY <1>2, RankBehind
<1> QED
  BY <1>1, <1>3

\* What a call of fwrite takes is the next part of its message.
LEMMA BytesFrom ==
    ASSUME NEW i \in Nat, NEW k \in Nat, NEW n \in Nat, NEW t,
           t = [j \in 1 .. n |-> Byte(i, k + j)]
    PROVE  t \in Seq(Bytes) /\ Len(t) = n /\ PartOf(i, k, t)
<1>1. \A j \in 1 .. n : Byte(i, k + j) \in Bytes
  BY DEF Byte, Bytes
<1> QED
  BY <1>1 DEF PartOf

\* A reader at byte k of message i finds the bytes behind it first.
LEMMA QueueFirst ==
    ASSUME NEW c \in Seq(Messages), NEW s, NEW q \in Seq(Bytes),
           NEW i \in 1 .. Len(c), c[i].from = s, NEW k \in Nat,
           Queue(c, s, Rank(c, s, i, k), q),
           NEW n \in 0 .. Len(q), k + n <= c[i].length, NEW m \in 1 .. n
    PROVE  q[m] = Byte(i, k + m)
<1>1. q[m] \in BytesOf(c, s) /\ Rank(c, s, q[m][1], q[m][2]) = Rank(c, s, i, k) + m
  BY DEF Queue
<1>2. c[i].length \in Nat
  BY ElementOfMessages
<1>3. m \in Nat \ {0} /\ k + m <= c[i].length
  BY <1>2
<1>4. <<i, k + m>> \in BytesOf(c, s) /\ Rank(c, s, i, k + m) = Rank(c, s, i, k) + m
  BY <1>3, RankBehind
<1>6. <<i, k + m>>[1] = i /\ <<i, k + m>>[2] = k + m
  OBVIOUS
<1> QED
  BY <1>1, <1>4, <1>6, RankOne DEF Byte

-----------------------------------------------------------------------------
(* The invariant of the streams                                            *)

\* What e has had of the other's bytes, and what e has written of its own.
Arrived(e) == Rank(conversation, Other(e), call[e], have[e])
Sent(e)    == Rank(conversation, e, call[e], have[e])

\* The bytes between the writer and the reader e.
Flow(e) == ahead[e] \o (wire[e] \o out[Other(e)])

\* The bytes that e has of message i.
Got(e, i) ==
    IF i < call[e] THEN conversation[i].length ELSE IF i = call[e] THEN have[e] ELSE 0

\* The types of the streams.
Shapes ==
    /\ conversation \in Seq(Messages)
    /\ call \in [Ends -> Nat \ {0}] /\ have \in [Ends -> Nat]
    /\ out \in [Ends -> Seq(Bytes)] /\ wire \in [Ends -> Seq(Bytes)]
    /\ ahead \in [Ends -> Seq(Bytes)]
    /\ data \in [Ends -> [DOMAIN conversation -> Seq(Bytes)]]
    /\ total \in [Ends -> [sent : Nat, received : Nat]]
    /\ alive \subseteq Ends

\* No call goes beyond its message, and no end beyond the conversation.
Within ==
    \A e \in Ends : call[e] <= Len(conversation) + 1 /\ (~Finished(e) => have[e] <= LEN(e))

\* Between two living ends is all that one has written and the other has not had, and
\* nothing else; of a writer that has died a part at the end is lost.
Channel(e) ==
    /\ Arrived(e) <= Sent(Other(e))
    /\ e \in alive =>
         /\ Queue(conversation, Other(e), Arrived(e), Flow(e))
         /\ Arrived(e) + Len(Flow(e)) <= Sent(Other(e))
         /\ Other(e) \in alive => Arrived(e) + Len(Flow(e)) = Sent(Other(e))

\* An unbuffered stream holds nothing, and a writer has read nothing ahead.
Held(e) ==
    /\ buffering = "unbuffered" => out[e] = <<>>
    /\ Sending(e) => ahead[e] = <<>>

\* What e has received, and what it has counted.
Results(e) ==
    /\ \A i \in DOMAIN conversation :
         conversation[i].from # e => data[e][i] = [k \in 1 .. Got(e, i) |-> Byte(i, k)]
    /\ total[e].received = Rank(conversation, Other(e), call[e], 0)

NetInv ==
    /\ Shapes /\ Within
    /\ \A e \in Ends : Channel(e) /\ Held(e) /\ Results(e)

\* There are two ends.
LEMMA TheOther ==
    ASSUME NEW e \in Ends
    PROVE  /\ Other(e) \in Ends /\ Other(e) # e /\ Other(Other(e)) = e
           /\ Ends = {e, Other(e)}
  BY DEF Ends, Other

\* At the start the streams are empty.
LEMMA NetInit == Init => NetInv
<1> SUFFICES ASSUME Init PROVE NetInv
  OBVIOUS
<1>1. conversation \in Seq(Messages)
  BY ConversationsAssumption DEF Init, Messages
<1>2. DOMAIN conversation = 1 .. Len(conversation) /\ Len(conversation) \in Nat
  BY <1>1
<1>3. Shapes
  <2>1. <<>> \in Seq(Bytes)
    OBVIOUS
  <2>2. /\ call \in [Ends -> Nat \ {0}] /\ have \in [Ends -> Nat]
        /\ alive \subseteq Ends
    <3>1. call = [e \in Ends |-> 1] /\ have = [e \in Ends |-> 0] /\ alive = Ends
      BY DEF Init
    <3> QED
      BY <3>1
  <2>5. total \in [Ends -> [sent : Nat, received : Nat]]
    <3>1. [sent |-> 0, received |-> 0] \in [sent : Nat, received : Nat]
      OBVIOUS
    <3> QED
      BY <3>1 DEF Init
  <2>3. /\ out \in [Ends -> Seq(Bytes)] /\ wire \in [Ends -> Seq(Bytes)]
        /\ ahead \in [Ends -> Seq(Bytes)]
    BY <2>1 DEF Init
  <2>4. data \in [Ends -> [DOMAIN conversation -> Seq(Bytes)]]
    <3>1. [i \in DOMAIN conversation |-> <<>>] \in [DOMAIN conversation -> Seq(Bytes)]
      BY <2>1
    <3>2. data = [e \in Ends |-> [i \in DOMAIN conversation |-> <<>>]]
      BY DEF Init
    <3> QED
      BY <3>1, <3>2
  <2> QED
    BY <1>1, <2>2, <2>3, <2>4, <2>5 DEF Shapes
<1>4. Within
  <2> SUFFICES ASSUME NEW e \in Ends
               PROVE  call[e] <= Len(conversation) + 1 /\ (~Finished(e) => have[e] <= LEN(e))
    BY DEF Within
  <2>1. call[e] = 1 /\ have[e] = 0
    BY DEF Init
  <2>2. ~Finished(e) => 1 \in 1 .. Len(conversation)
    BY <1>2, <2>1 DEF Finished
  <2>3. 1 \in 1 .. Len(conversation) => conversation[1].length \in Nat
    BY <1>1, ElementOfMessages
  <2> QED
    BY <1>2, <2>1, <2>2, <2>3 DEF LEN
<1>5. ASSUME NEW e \in Ends PROVE Channel(e) /\ Held(e) /\ Results(e)
  <2>1. /\ call[e] = 1 /\ have[e] = 0 /\ call[Other(e)] = 1 /\ have[Other(e)] = 0
        /\ out[e] = <<>> /\ out[Other(e)] = <<>> /\ wire[e] = <<>> /\ ahead[e] = <<>>
        /\ total[e].received = 0 /\ \A i \in DOMAIN conversation : data[e][i] = <<>>
    BY TheOther DEF Init
  <2>2. Arrived(e) = 0 /\ Sent(Other(e)) = 0
    BY <1>1, <2>1, RankStart DEF Arrived, Sent
  <2>3. Flow(e) = <<>>
    <3>1. <<>> \o (<<>> \o <<>>) = <<>>
      OBVIOUS
    <3> QED
      BY <2>1, <3>1 DEF Flow
  <2>4. Channel(e)
    <3>1. Len(<<>>) = 0
      OBVIOUS
    <3> QED
      BY <2>2, <2>3, <3>1 DEF Channel, Queue
  <2>5. \A i \in DOMAIN conversation : Got(e, i) = 0
    BY <1>2, <2>1 DEF Got
  <2>6. \A i : [k \in 1 .. 0 |-> Byte(i, k)] = <<>>
    OBVIOUS
  <2>7. Results(e)
    BY <1>1, <2>1, <2>5, <2>6, RankStart DEF Results
  <2> QED
    BY <2>1, <2>4, <2>7 DEF Held
<1> QED
  BY <1>3, <1>4, <1>5 DEF NetInv

\* Sequences of bytes, joined.
LEMMA Joins ==
    ASSUME NEW a \in Seq(Bytes), NEW b \in Seq(Bytes), NEW d \in Seq(Bytes)
    PROVE  /\ (a \o b) \o d = a \o (b \o d)
           /\ <<>> \o a = a /\ a \o <<>> = a
           /\ a \o b \in Seq(Bytes) /\ Len(a \o b) = Len(a) + Len(b)
<1>1. (a \o b) \o d = a \o (b \o d)
  BY ConcatAssociative
<1>2. <<>> \o a = a /\ a \o <<>> = a
  BY ConcatEmptySeq
<1>3. a \o b \in Seq(Bytes) /\ Len(a \o b) = Len(a) + Len(b)
  BY ConcatProperties
<1> QED
  BY <1>1, <1>2, <1>3

\* The lesser of two numbers.
LEMMA MinOfTwo ==
    ASSUME NEW a \in Int, NEW b \in Int
    PROVE  Min({a, b}) = IF a <= b THEN a ELSE b
<1>1. \E x \in {a, b} : \A y \in {a, b} : x <= y
  <2>1. CASE a <= b
    BY <2>1
  <2>2. CASE b <= a
    BY <2>2
  <2> QED
    BY <2>1, <2>2
<1>2. Min({a, b}) \in {a, b} /\ \A y \in {a, b} : Min({a, b}) <= y
  BY <1>1 DEF Min
<1> QED
  BY <1>2

\* Where an end is depends on its own call alone.
LEMMA PlaceKept ==
    ASSUME NEW f \in Ends, conversation' = conversation, call'[f] = call[f],
           have'[f] = have[f]
    PROVE  /\ Sent(f)' = Sent(f) /\ Arrived(f)' = Arrived(f)
           /\ \A i : Got(f, i)' = Got(f, i)
  BY DEF Sent, Arrived, Got

\* Places are numbers, and the flow is a sequence of bytes.
LEMMA PlacesAre ==
    ASSUME Shapes, NEW f \in Ends
    PROVE  Sent(f) \in Nat /\ Arrived(f) \in Nat /\ Flow(f) \in Seq(Bytes)
<1>1. Sent(f) \in Nat /\ Arrived(f) \in Nat
  BY UpToFinite DEF Shapes, Sent, Arrived
<1>2. /\ ahead[f] \in Seq(Bytes) /\ wire[f] \in Seq(Bytes)
      /\ out[Other(f)] \in Seq(Bytes)
  BY TheOther DEF Shapes
<1>3. wire[f] \o out[Other(f)] \in Seq(Bytes)
  BY <1>2, Joins
<1> QED
  BY <1>1, <1>2, <1>3, Joins DEF Flow

\* A channel whose ends are where they were, and whose bytes are as they were.
LEMMA ChannelKept ==
    ASSUME NEW f \in Ends, Channel(f), conversation' = conversation, alive' \subseteq alive,
           Arrived(f)' = Arrived(f), Sent(Other(f))' = Sent(Other(f)),
           f \in alive' => Flow(f)' = Flow(f)
    PROVE  Channel(f)'
  BY DEF Channel

\* What an end has received, when it has received nothing more.
LEMMA ResultsKept ==
    ASSUME NEW f \in Ends, Results(f), conversation' = conversation,
           \A i \in DOMAIN conversation : conversation[i].from # f => data'[f][i] = data[f][i],
           total'[f].received = total[f].received,
           \A i \in DOMAIN conversation : conversation[i].from # f => Got(f, i)' = Got(f, i),
           Rank(conversation, Other(f), call'[f], 0) = Rank(conversation, Other(f), call[f], 0)
    PROVE  Results(f)'
  BY DEF Results

\* A step that moves bytes on, or ends a process, but is no progress of a call.
LEMMA Idle ==
    ASSUME NetInv, UNCHANGED <<conversation, buffering, call, have, data, total>>,
           alive' \subseteq alive,
           out' \in [Ends -> Seq(Bytes)], wire' \in [Ends -> Seq(Bytes)],
           ahead' \in [Ends -> Seq(Bytes)],
           \A f \in Ends : Channel(f)' /\ (buffering = "unbuffered" => out'[f] = <<>>),
           \A f \in Ends : Sending(f) => ahead'[f] = <<>>
    PROVE  NetInv'
<1>1. Shapes'
  BY DEF NetInv, Shapes
<1>2. Within'
  BY DEF NetInv, Within, Finished, LEN
<1>3. ASSUME NEW f \in Ends PROVE Results(f)' /\ Held(f)'
  <2>1. Results(f) /\ Held(f)
    BY DEF NetInv
  <2>2. Results(f)'
    <3>1. \A i : Got(f, i)' = Got(f, i)
      BY PlaceKept
    <3> QED
      BY <2>1, <3>1, ResultsKept
  <2>3. Held(f)'
    BY DEF Held, Sending, Finished
  <2> QED
    BY <2>2, <2>3
<1> QED
  BY <1>1, <1>2, <1>3 DEF NetInv

\* A channel whose bytes have only been moved on by an idle step.
LEMMA IdleChannel ==
    ASSUME NetInv, UNCHANGED <<conversation, call, have>>, alive' \subseteq alive,
           NEW f \in Ends, f \in alive' => Flow(f)' = Flow(f)
    PROVE  Channel(f)'
<1>1. Arrived(f)' = Arrived(f) /\ Sent(Other(f))' = Sent(Other(f))
  BY PlaceKept, TheOther
<1> QED
  BY <1>1, ChannelKept DEF NetInv

\* Reading ahead leaves the bytes in their order.
LEMMA FillStep ==
    ASSUME NetInv, NEW e \in Ends, Fill(e)
    PROVE  NetInv'
<1> DEFINE most == IF buffering = "unbuffered" THEN LEN(e) - have[e] ELSE BufferSize
<1>1. /\ Receiving(e) /\ ahead[e] = <<>>
      /\ UNCHANGED <<conversation, buffering, call, have, begun, out, data, total, alive>>
  BY DEF Fill, progress
<1>2. PICK n \in 1 .. Min({Len(wire[e]), most}) :
         /\ ahead' = [ahead EXCEPT ![e] = FirstBytes(wire[e], n)]
         /\ wire'  = [wire EXCEPT ![e] = Without(@, n)]
  BY DEF Fill
<1>3. n \in 0 .. Len(wire[e]) /\ wire[e] \in Seq(Bytes)
  <2>1. most \in Int
    <3>1. call[e] \in 1 .. Len(conversation)
      BY <1>1, SMTT(30) DEF NetInv, Shapes, Within, Receiving, Finished
    <3>2. LEN(e) \in Nat
      BY <3>1, ElementOfMessages DEF NetInv, Shapes, LEN
    <3> QED
      BY <3>2, SizesAssumption DEF NetInv, Shapes
  <2>2. wire[e] \in Seq(Bytes) /\ Len(wire[e]) \in Int
    BY DEF NetInv, Shapes
  <2> HIDE DEF most
  <2>3. Min({Len(wire[e]), most}) \in Int /\ Min({Len(wire[e]), most}) <= Len(wire[e])
    BY <2>1, <2>2, MinOfTwo
  <2> QED
    BY <2>2, <2>3
<1> HIDE DEF most
<1>4. /\ FirstBytes(wire[e], n) \in Seq(Bytes) /\ Without(wire[e], n) \in Seq(Bytes)
      /\ FirstBytes(wire[e], n) \o Without(wire[e], n) = wire[e]
  BY <1>3, Pieces
<1>5. /\ ahead' \in [Ends -> Seq(Bytes)] /\ wire' \in [Ends -> Seq(Bytes)]
      /\ out' \in [Ends -> Seq(Bytes)]
      /\ ahead'[e] = FirstBytes(wire[e], n) /\ wire'[e] = Without(wire[e], n)
      /\ ahead'[Other(e)] = ahead[Other(e)] /\ wire'[Other(e)] = wire[Other(e)]
  BY <1>1, <1>2, <1>4, TheOther DEF NetInv, Shapes
<1>6. Flow(e)' = Flow(e)
  <2> DEFINE a == FirstBytes(wire[e], n)
             b == Without(wire[e], n)
             d == out[Other(e)]
  <2>1. d \in Seq(Bytes) /\ b \o d \in Seq(Bytes)
    <3>1. d \in Seq(Bytes)
      BY TheOther DEF NetInv, Shapes
    <3> QED
      BY <1>4, <3>1, Joins
  <2>2. Flow(e)' = a \o (b \o d)
    BY <1>1, <1>5, TheOther DEF Flow
  <2>3. Flow(e) = <<>> \o ((a \o b) \o d)
    BY <1>1, <1>4 DEF Flow
  <2>5. a \in Seq(Bytes) /\ b \in Seq(Bytes)
    BY <1>4
  <2> HIDE DEF a, b, d
  <2>4. (a \o b) \o d = a \o (b \o d) /\ a \o (b \o d) \in Seq(Bytes)
    BY <2>1, <2>5, Joins, SMTT(30)
  <2> QED
    BY <2>2, <2>3, <2>4, Joins
<1>7. Flow(Other(e))' = Flow(Other(e))
  BY <1>1, <1>5, TheOther DEF Flow
<1>8. \A f \in Ends : Channel(f)'
  BY <1>1, <1>6, <1>7, IdleChannel, TheOther
<1>9. \A f \in Ends : Sending(f) => ahead'[f] = <<>>
  BY <1>1, <1>5, TheOther DEF NetInv, Held, Sending, Receiving
<1>10. \A f \in Ends : buffering = "unbuffered" => out'[f] = <<>>
  BY <1>1 DEF NetInv, Held
<1> QED
  BY <1>1, <1>5, <1>8, <1>9, <1>10, Idle

\* So does writing some of what is held,
LEMMA WriteOutStep ==
    ASSUME NetInv, NEW e \in Ends, WriteOut(e)
    PROVE  NetInv'
<1> DEFINE o == Other(e)
<1>1. /\ UNCHANGED <<conversation, buffering, call, have, begun, ahead, data, total, alive>>
      /\ out[e] # <<>>
  BY DEF WriteOut, progress
<1>2. PICK n \in 1 .. Len(out[e]) :
         /\ out'  = [out EXCEPT ![e] = Without(@, n)]
         /\ wire' = IF o \in alive
                    THEN [wire EXCEPT ![o] = @ \o FirstBytes(out[e], n)] ELSE wire
  BY DEF WriteOut
<1>3. out[e] \in Seq(Bytes) /\ n \in 0 .. Len(out[e])
      /\ wire[o] \in Seq(Bytes) /\ ahead[o] \in Seq(Bytes) /\ o \in Ends /\ o # e
  BY TheOther DEF NetInv, Shapes
<1>4. /\ FirstBytes(out[e], n) \in Seq(Bytes) /\ Without(out[e], n) \in Seq(Bytes)
      /\ FirstBytes(out[e], n) \o Without(out[e], n) = out[e]
  BY <1>3, Pieces
<1> HIDE DEF o
<1>5. /\ out' \in [Ends -> Seq(Bytes)] /\ wire' \in [Ends -> Seq(Bytes)]
      /\ out'[e] = Without(out[e], n) /\ out'[o] = out[o] /\ wire'[e] = wire[e]
      /\ o \in alive => wire'[o] = wire[o] \o FirstBytes(out[e], n)
  <2>1. wire[o] \o FirstBytes(out[e], n) \in Seq(Bytes)
    BY <1>3, <1>4, Joins
  <2> QED
    BY <1>2, <1>3, <1>4, <2>1 DEF NetInv, Shapes
<1>6. ASSUME o \in alive PROVE Flow(o)' = Flow(o)
  <2> DEFINE x == ahead[o]
             w == wire[o]
             a == FirstBytes(out[e], n)
             b == Without(out[e], n)
  <2>1. x \in Seq(Bytes) /\ w \in Seq(Bytes) /\ a \in Seq(Bytes) /\ b \in Seq(Bytes)
    BY <1>3, <1>4
  <2>2. Flow(o)' = x \o ((w \o a) \o b)
    BY <1>1, <1>5, <1>6, TheOther DEF Flow, o
  <2>3. Flow(o) = x \o (w \o (a \o b))
    BY <1>4, TheOther DEF Flow, o
  <2> HIDE DEF x, w, a, b
  <2>4. (w \o a) \o b = w \o (a \o b)
    BY <2>1, ConcatAssociative, SMTT(30)
  <2> QED
    BY <2>2, <2>3, <2>4
<1>7. Flow(e)' = Flow(e)
  BY <1>1, <1>5 DEF Flow, o
<1>8. \A f \in Ends : Channel(f)'
  BY <1>1, <1>6, <1>7, IdleChannel, TheOther DEF o
<1>9. \A f \in Ends : Sending(f) => ahead'[f] = <<>>
  BY <1>1 DEF NetInv, Held
<1>10. \A f \in Ends : buffering = "unbuffered" => out'[f] = <<>>
  BY <1>1, <1>5, TheOther DEF NetInv, Held, o
<1> QED
  BY <1>1, <1>5, <1>8, <1>9, <1>10, Idle DEF NetInv, Shapes

\* A flush moves the bytes of e on, or loses those for an end that has died.
LEMMA Flushed ==
    ASSUME NetInv, NEW e \in Ends, Flush(e), ahead' = ahead
    PROVE  /\ out' \in [Ends -> Seq(Bytes)] /\ wire' \in [Ends -> Seq(Bytes)]
           /\ ahead' \in [Ends -> Seq(Bytes)]
           /\ \A f \in Ends : f \in alive => Flow(f)' = Flow(f)
           /\ \A f \in Ends : out[f] = <<>> => out'[f] = <<>>
<1> DEFINE o == Other(e)
<1>1. /\ out' = [out EXCEPT ![e] = <<>>]
      /\ wire' = IF o \in alive THEN [wire EXCEPT ![o] = @ \o out[e]] ELSE wire
  BY DEF Flush
<1>2. out[e] \in Seq(Bytes) /\ <<>> \in Seq(Bytes)
      /\ wire[o] \in Seq(Bytes) /\ ahead[o] \in Seq(Bytes) /\ o \in Ends /\ o # e
  BY TheOther DEF NetInv, Shapes
<1> HIDE DEF o
<1>3. /\ out' \in [Ends -> Seq(Bytes)] /\ wire' \in [Ends -> Seq(Bytes)]
      /\ out'[e] = <<>> /\ out'[o] = out[o] /\ wire'[e] = wire[e]
      /\ o \in alive => wire'[o] = wire[o] \o out[e]
  <2>1. wire[o] \o out[e] \in Seq(Bytes)
    BY <1>2, Joins
  <2> QED
    BY <1>1, <1>2, <2>1 DEF NetInv, Shapes
<1>4. ASSUME o \in alive PROVE Flow(o)' = Flow(o)
  <2> DEFINE x == ahead[o]
             w == wire[o] \o out[e]
  <2>1. w \in Seq(Bytes)
    BY <1>2, Joins
  <2>2. Flow(o)' = x \o (w \o <<>>)
    BY <1>3, <1>4, TheOther DEF Flow, o
  <2>3. Flow(o) = x \o w
    BY TheOther DEF Flow, o
  <2> HIDE DEF x, w
  <2>4. w \o <<>> = w
    BY <2>1, Joins
  <2> QED
    BY <2>2, <2>3, <2>4
<1>5. Flow(e)' = Flow(e)
  BY <1>3 DEF Flow, o
<1>6. \A f \in Ends : f \in alive => Flow(f)' = Flow(f)
  BY <1>4, <1>5, TheOther DEF o
<1>7. \A f \in Ends : out[f] = <<>> => out'[f] = <<>>
  BY <1>3, TheOther DEF o
<1> QED
  BY <1>3, <1>6, <1>7 DEF NetInv, Shapes

\* and the flush before a receive.
LEMMA BeginReceiveStep ==
    ASSUME NetInv, NEW e \in Ends, BeginReceive(e)
    PROVE  NetInv'
<1>1. /\ Flush(e) /\ UNCHANGED <<conversation, buffering, call, have, ahead, data, total, alive>>
  BY DEF BeginReceive
<1>2. /\ out' \in [Ends -> Seq(Bytes)] /\ wire' \in [Ends -> Seq(Bytes)]
      /\ ahead' \in [Ends -> Seq(Bytes)]
      /\ \A f \in Ends : f \in alive => Flow(f)' = Flow(f)
      /\ \A f \in Ends : out[f] = <<>> => out'[f] = <<>>
  BY <1>1, Flushed
<1>3. \A f \in Ends : Channel(f)'
  BY <1>1, <1>2, IdleChannel
<1>4. \A f \in Ends : (Sending(f) => ahead'[f] = <<>>)
                      /\ (buffering = "unbuffered" => out'[f] = <<>>)
  BY <1>1, <1>2 DEF NetInv, Held
<1> QED
  BY <1>1, <1>2, <1>3, <1>4, Idle

\* A writer that gives up changes nothing on the streams.
LEMMA BrokenPipeStep ==
    ASSUME NetInv, NEW e \in Ends, BrokenPipe(e)
    PROVE  NetInv'
<1>1. /\ UNCHANGED <<conversation, buffering, call, have, out, wire, ahead, data, total>>
      /\ alive' \subseteq alive
  BY DEF BrokenPipe, progress
<1>2. \A f \in Ends : Flow(f)' = Flow(f)
  BY <1>1 DEF Flow
<1>3. \A f \in Ends : Channel(f)'
  BY <1>1, <1>2, IdleChannel
<1>4. \A f \in Ends : (Sending(f) => ahead'[f] = <<>>)
                      /\ (buffering = "unbuffered" => out'[f] = <<>>)
  BY <1>1 DEF NetInv, Held
<1> QED
  BY <1>1, <1>3, <1>4, Idle DEF NetInv, Shapes

\* An end that dies loses what is held for it, which is the end of what it wrote.
LEMMA DieStep ==
    ASSUME NetInv, NEW e \in Ends, Die(e)
    PROVE  NetInv'
<1> DEFINE o == Other(e)
<1>1. /\ UNCHANGED <<conversation, buffering, call, have, ahead, data, total>>
      /\ alive' = alive \ {e}
  BY DEF Die, progress
<1>2. CASE Flush(e)
  <2>1. /\ out' \in [Ends -> Seq(Bytes)] /\ wire' \in [Ends -> Seq(Bytes)]
        /\ ahead' \in [Ends -> Seq(Bytes)]
        /\ \A f \in Ends : f \in alive => Flow(f)' = Flow(f)
        /\ \A f \in Ends : out[f] = <<>> => out'[f] = <<>>
    BY <1>1, <1>2, Flushed
  <2>2. \A f \in Ends : Channel(f)'
    BY <1>1, <2>1, IdleChannel
  <2>3. \A f \in Ends : (Sending(f) => ahead'[f] = <<>>)
                        /\ (buffering = "unbuffered" => out'[f] = <<>>)
    BY <1>1, <2>1 DEF NetInv, Held
  <2> QED
    BY <1>1, <2>1, <2>2, <2>3, Idle
<1>3. CASE out' = [out EXCEPT ![e] = <<>>] /\ wire' = wire
  <2>1. /\ out[e] \in Seq(Bytes) /\ wire[o] \in Seq(Bytes) /\ ahead[o] \in Seq(Bytes)
        /\ o \in Ends /\ o # e
    BY TheOther DEF NetInv, Shapes
  <2>2. /\ out' \in [Ends -> Seq(Bytes)] /\ out'[e] = <<>> /\ out'[o] = out[o]
    BY <1>3, <2>1 DEF NetInv, Shapes
  <2> HIDE DEF o
  <2>3. Channel(e)'
    <3>1. e \notin alive'
      BY <1>1
    <3> QED
      BY <1>1, <3>1, IdleChannel
  <2>4. Channel(o)'
    <3>1. Channel(o)
      BY <2>1 DEF NetInv
    <3>2. Arrived(o)' = Arrived(o) /\ Sent(Other(o))' = Sent(Other(o))
          /\ Arrived(o) \in Nat /\ Sent(Other(o)) \in Nat
      BY <1>1, <2>1, PlaceKept, PlacesAre, TheOther DEF NetInv
    <3>3. Other(o) = e /\ e \notin alive'
      BY <1>1, TheOther DEF o
    <3>4. CASE o \in alive
      <4> DEFINE q == ahead[o] \o wire[o]
      <4>1. q \in Seq(Bytes)
        BY <2>1, Joins
      <4>2. Flow(o)' = q
        <5>1. Flow(o)' = ahead[o] \o (wire[o] \o <<>>)
          BY <1>1, <1>3, <2>2, <3>3 DEF Flow
        <5> QED
          BY <2>1, <5>1, Joins
      <4>3. Flow(o) = q \o out[e]
        <5>1. Flow(o) = ahead[o] \o (wire[o] \o out[e])
          BY <3>3 DEF Flow
        <5> DEFINE x == ahead[o]
                   w == wire[o]
                   u == out[e]
        <5>2. x \in Seq(Bytes) /\ w \in Seq(Bytes) /\ u \in Seq(Bytes)
          BY <2>1
        <5>3. Flow(o) = x \o (w \o u) /\ q = x \o w
          BY <5>1
        <5> HIDE DEF x, w, u, q
        <5>4. (x \o w) \o u = x \o (w \o u)
          BY <5>2, ConcatAssociative
        <5> QED
          BY <5>3, <5>4 DEF u
      <4> HIDE DEF q
      <4>4. Queue(conversation, e, Arrived(o), q)
        <5>1. Queue(conversation, e, Arrived(o), Flow(o))
          BY <3>1, <3>3, <3>4 DEF Channel
        <5> QED
          BY <2>1, <3>2, <4>1, <4>3, <5>1, QueueFront
      <4>5. Arrived(o) + Len(q) <= Sent(e)
        <5>1. Arrived(o) + Len(Flow(o)) <= Sent(e)
          BY <3>1, <3>3, <3>4 DEF Channel
        <5>2. Len(Flow(o)) = Len(q) + Len(out[e]) /\ Len(q) \in Nat /\ Len(out[e]) \in Nat
          BY <2>1, <4>1, <4>3, Joins
        <5> QED
          BY <3>2, <3>3, <5>1, <5>2
      <4>6. Arrived(o) <= Sent(e)
        BY <3>1, <3>3 DEF Channel
      <4> QED
        BY <1>1, <3>2, <3>3, <4>2, <4>4, <4>5, <4>6 DEF Channel
    <3>5. CASE o \notin alive
      BY <1>1, <2>1, <3>5, IdleChannel
    <3> QED
      BY <3>4, <3>5
  <2>5. \A f \in Ends : Channel(f)'
    BY <2>3, <2>4, TheOther DEF o
  <2>6. \A f \in Ends : (Sending(f) => ahead'[f] = <<>>)
                        /\ (buffering = "unbuffered" => out'[f] = <<>>)
    BY <1>1, <2>2, TheOther DEF NetInv, Held, o
  <2> QED
    BY <1>1, <1>3, <2>2, <2>5, <2>6, Idle DEF NetInv, Shapes
<1> QED
  BY <1>2, <1>3 DEF Die

\* A call that returns with its whole message leaves its end where it is on both streams.
LEMMA Moves ==
    ASSUME NetInv, NEW e \in Ends, ~Finished(e), have[e] = LEN(e), Returned(e),
           conversation' = conversation
    PROVE  /\ call' \in [Ends -> Nat \ {0}] /\ have' \in [Ends -> Nat] /\ Within'
           /\ call'[e] = call[e] + 1 /\ have'[e] = 0
           /\ call'[Other(e)] = call[Other(e)] /\ have'[Other(e)] = have[Other(e)]
           /\ \A f \in Ends : Sent(f)' = Sent(f) /\ Arrived(f)' = Arrived(f)
           /\ \A f \in Ends : \A i \in DOMAIN conversation : Got(f, i)' = Got(f, i)
<1> DEFINE o == Other(e)
           c == conversation
           j == call[e]
<1>1. /\ o \in Ends /\ o # e /\ Other(o) = e /\ Ends = {e, o}
  BY TheOther
<1>2. /\ c \in Seq(Messages) /\ Len(c) \in Nat /\ DOMAIN c = 1 .. Len(c)
      /\ call \in [Ends -> Nat \ {0}] /\ have \in [Ends -> Nat]
  BY DEF NetInv, Shapes
<1>3. j \in 1 .. Len(c) /\ have[e] = c[j].length
  BY <1>2 DEF NetInv, Within, Finished, LEN
<1> HIDE DEF o
<1>4. /\ call' \in [Ends -> Nat \ {0}] /\ have' \in [Ends -> Nat]
      /\ call'[e] = j + 1 /\ have'[e] = 0 /\ call'[o] = call[o] /\ have'[o] = have[o]
  BY <1>1, <1>2 DEF Returned
<1> HIDE DEF j
<1>5. Within'
  <2>1. /\ call'[e] <= Len(c) + 1
        /\ ~(call'[e] > Len(c)) => have'[e] <= c[call'[e]].length
    <3>1. ~(j + 1 > Len(c)) => j + 1 \in 1 .. Len(c)
      BY <1>2, <1>3
    <3>2. j + 1 \in 1 .. Len(c) => c[j + 1].length \in Nat
      BY <1>2, ElementOfMessages
    <3> QED
      BY <1>2, <1>3, <1>4, <3>1, <3>2
  <2>2. /\ call'[o] <= Len(c) + 1
        /\ ~(call'[o] > Len(c)) => have'[o] <= c[call'[o]].length
    BY <1>1, <1>4 DEF NetInv, Within, Finished, LEN
  <2> QED
    BY <1>1, <2>1, <2>2 DEF Within, Finished, LEN
<1>6. \A s : Rank(c, s, j, have[e]) = Rank(c, s, j + 1, 0)
  BY <1>2, <1>3, RankNext
<1>7. Sent(e)' = Sent(e) /\ Arrived(e)' = Arrived(e)
  BY <1>4, <1>6 DEF Sent, Arrived, j
<1>8. Sent(o)' = Sent(o) /\ Arrived(o)' = Arrived(o) /\ \A i : Got(o, i)' = Got(o, i)
  BY <1>1, <1>4, PlaceKept
<1>9. \A i \in DOMAIN c : Got(e, i)' = Got(e, i)
  <2> SUFFICES ASSUME NEW i \in 1 .. Len(c) PROVE Got(e, i)' = Got(e, i)
    BY <1>2
  <2>1. Got(e, i) = IF i < j THEN c[i].length ELSE IF i = j THEN have[e] ELSE 0
    BY DEF Got, j
  <2>2. Got(e, i)' = IF i < j + 1 THEN c[i].length ELSE IF i = j + 1 THEN 0 ELSE 0
    BY <1>4 DEF Got
  <2>3. CASE i < j
    BY <1>3, <2>1, <2>2, <2>3
  <2>4. CASE i = j
    BY <1>3, <2>1, <2>2, <2>4
  <2>5. CASE i > j
    BY <1>3, <2>1, <2>2, <2>5
  <2> QED
    BY <1>3, <2>3, <2>4, <2>5
<1> QED
  BY <1>1, <1>4, <1>5, <1>7, <1>8, <1>9 DEF o, j

\* A call that sends returns when all its bytes are written, held or not.
LEMMA FinishSendStep ==
    ASSUME NetInv, NEW e \in Ends, FinishSend(e)
    PROVE  NetInv'
<1> DEFINE o == Other(e)
           c == conversation
<1>1. /\ UNCHANGED <<conversation, buffering, ahead, data, alive>>
      /\ AfterLoop(e) /\ Returned(e) /\ Sending(e) /\ ~Finished(e)
      /\ have[e] = LEN(e) /\ c[call[e]].from = e /\ ahead[e] = <<>>
      /\ total' = [total EXCEPT ![e].sent = @ + LEN(e)]
  BY DEF FinishSend, Sending, NetInv, Held
<1>2. /\ call' \in [Ends -> Nat \ {0}] /\ have' \in [Ends -> Nat] /\ Within'
      /\ call'[e] = call[e] + 1 /\ have'[e] = 0
      /\ call'[o] = call[o] /\ have'[o] = have[o]
      /\ \A f \in Ends : Sent(f)' = Sent(f) /\ Arrived(f)' = Arrived(f)
      /\ \A f \in Ends : \A i \in DOMAIN c : Got(f, i)' = Got(f, i)
  BY <1>1, Moves
<1>3. /\ out' \in [Ends -> Seq(Bytes)] /\ wire' \in [Ends -> Seq(Bytes)]
      /\ ahead' \in [Ends -> Seq(Bytes)]
      /\ \A f \in Ends : f \in alive => Flow(f)' = Flow(f)
      /\ \A f \in Ends : out[f] = <<>> => out'[f] = <<>>
  <2>1. CASE Flush(e)
    BY <1>1, <2>1, Flushed
  <2>2. CASE UNCHANGED <<out, wire>>
    BY <1>1, <2>2 DEF NetInv, Shapes, Flow
  <2> QED
    BY <1>1, <2>1, <2>2 DEF AfterLoop
<1>4. /\ o \in Ends /\ o # e /\ Other(o) = e /\ Ends = {e, o}
  BY TheOther
<1>5. /\ c \in Seq(Messages) /\ call[e] \in 1 .. Len(c) /\ LEN(e) \in Nat
  <2>2. c \in Seq(Messages) /\ Len(c) \in Nat /\ call[e] \in Nat \ {0}
    BY DEF NetInv, Shapes
  <2>1. call[e] \in 1 .. Len(c)
    BY <1>1, <2>2 DEF Finished
  <2> QED
    BY <2>1, <2>2, ElementOfMessages DEF LEN
<1>6. total' \in [Ends -> [sent : Nat, received : Nat]]
      /\ \A f \in Ends : total'[f].received = total[f].received
  <2>1. total \in [Ends -> [sent : Nat, received : Nat]]
    BY DEF NetInv, Shapes
  <2> DEFINE t == [total[e] EXCEPT !.sent = @ + LEN(e)]
  <2>2. t \in [sent : Nat, received : Nat] /\ t.received = total[e].received
    BY <1>5, <2>1
  <2>3. total' = [total EXCEPT ![e] = t]
    BY <1>1
  <2> HIDE DEF t
  <2> QED
    BY <2>1, <2>2, <2>3
<1>7. Shapes'
  BY <1>1, <1>2, <1>3, <1>6 DEF NetInv, Shapes
<1>8. \A f \in Ends : Channel(f)'
  BY <1>1, <1>2, <1>3, ChannelKept, TheOther DEF NetInv
<1>9. \A f \in Ends : Held(f)'
  <2>1. Held(e)'
    BY <1>1, <1>3 DEF NetInv, Held
  <2>2. Held(o)'
    BY <1>1, <1>2, <1>3, <1>4 DEF NetInv, Held, Sending, Finished
  <2> QED
    BY <1>4, <2>1, <2>2
<1> HIDE DEF o
<1>10. Rank(c, o, call'[e], 0) = Rank(c, o, call[e], 0)
  BY <1>1, <1>2, <1>4, <1>5, RankNext
<1>11. Results(e)'
  BY <1>1, <1>2, <1>6, <1>10, ResultsKept DEF NetInv, o
<1>12. Results(o)'
  BY <1>1, <1>2, <1>4, <1>6, ResultsKept DEF NetInv
<1> QED
  BY <1>2, <1>4, <1>7, <1>8, <1>9, <1>11, <1>12 DEF NetInv

\* When the next message is its own, a reader has read nothing beyond what it was to
\* receive: the other end sends no more before it has had that message.
LEMMA NothingAhead ==
    ASSUME NetInv, NEW e \in Ends, Receiving(e), have[e] = LEN(e),
           call[e] + 1 <= Len(conversation), conversation[call[e] + 1].from = e
    PROVE  ahead[e] = <<>>
<1> DEFINE o == Other(e)
           c == conversation
           j == call[e] + 1
<1>1. /\ o \in Ends /\ o # e /\ Other(o) = e /\ Ends = {e, o}
  BY TheOther
<1>2. /\ c \in Seq(Messages) /\ Len(c) \in Nat /\ ahead[e] \in Seq(Bytes)
      /\ call[e] \in Nat \ {0} /\ call[o] \in Nat /\ have[o] \in Nat
      /\ wire[e] \o out[o] \in Seq(Bytes)
  <2>1. wire[e] \in Seq(Bytes) /\ out[o] \in Seq(Bytes)
    BY <1>1 DEF NetInv, Shapes
  <2>2. wire[e] \o out[o] \in Seq(Bytes)
    BY <2>1, Joins
  <2> QED
    BY <1>1, <2>2 DEF NetInv, Shapes
<1>3. call[e] \in 1 .. Len(c) /\ j \in 1 .. Len(c) /\ c[j].from = e
  BY <1>2 DEF Receiving, Finished
<1>4. c[j].length \in Nat \ {0} /\ have[e] = c[call[e]].length
  BY <1>2, <1>3, ElementOfMessages DEF LEN
<1> SUFFICES ASSUME ahead[e] # <<>> PROVE FALSE
  OBVIOUS
<1>5. Len(Flow(e)) >= 1
  <2> DEFINE x == ahead[e]
             w == wire[e] \o out[o]
  <2>1. x \in Seq(Bytes) /\ w \in Seq(Bytes) /\ x # <<>> /\ Flow(e) = x \o w
    BY <1>2 DEF Flow
  <2> HIDE DEF x, w
  <2>2. Len(Flow(e)) = Len(x) + Len(w) /\ Len(x) \in Nat /\ Len(w) \in Nat /\ Len(x) # 0
    BY <2>1, Joins
  <2> QED
    BY <2>2
<1>6. /\ Arrived(e) + Len(Flow(e)) <= Sent(o) /\ Arrived(o) <= Sent(e)
      /\ Arrived(e) \in Nat /\ Sent(o) \in Nat /\ Arrived(o) \in Nat /\ Sent(e) \in Nat
      /\ Len(Flow(e)) \in Nat
  <2>1. Channel(e) /\ Channel(o) /\ e \in alive /\ Shapes
    BY <1>1 DEF NetInv, Receiving
  <2>2. Flow(e) \in Seq(Bytes)
    BY <2>1, PlacesAre
  <2> QED
    BY <1>1, <2>1, <2>2, PlacesAre DEF Channel
<1> HIDE DEF o
<1>7. Arrived(e) = Rank(c, o, j + 1, 0)
  <2>1. Arrived(e) = Rank(c, o, j, 0)
    BY <1>2, <1>3, <1>4, RankNext DEF Arrived, o
  <2>2. Rank(c, o, j, 0) = Rank(c, o, j + 1, 0)
    BY <1>1, <1>2, <1>3, RankNext
  <2> QED
    BY <2>1, <2>2
<1>8. Sent(e) = Rank(c, e, j, 0)
  BY <1>2, <1>3, <1>4, RankNext DEF Sent
<1> HIDE DEF j
<1>9. call[o] >= j + 1
  <2>1. CASE call[o] < j + 1
    <3>1. Sent(o) <= Rank(c, o, j + 1, 0)
      <4>1. j + 1 \in Nat /\ 0 \in Nat
        BY <1>3
      <4>2. Rank(c, o, call[o], have[o]) <= Rank(c, o, j + 1, 0)
        BY <1>2, <2>1, <4>1, RankOrdered
      <4> QED
        BY <4>2 DEF Sent
    <3> QED
      BY <1>5, <1>6, <1>7, <3>1
  <2> QED
    BY <1>2, <1>3, <2>1
<1>10. Arrived(o) >= Rank(c, e, j + 1, 0)
  <2>1. j + 1 \in Nat /\ 0 \in Nat /\ (j + 1 < call[o] \/ (j + 1 = call[o] /\ 0 <= have[o]))
    BY <1>2, <1>3, <1>9
  <2>2. Rank(c, e, j + 1, 0) <= Rank(c, e, call[o], have[o])
    BY <1>2, <2>1, RankOrdered
  <2>3. Arrived(o) = Rank(c, e, call[o], have[o])
    BY <1>1 DEF Arrived
  <2>4. Rank(c, e, j + 1, 0) \in Nat
    BY <1>2, UpToFinite
  <2> QED
    BY <1>6, <2>2, <2>3, <2>4
<1>11. Rank(c, e, j + 1, 0) = Rank(c, e, j, 0) + c[j].length
  <2> DEFINE z == c[j].length
  <2>1. Rank(c, e, j, z) = Rank(c, e, j + 1, 0)
    BY <1>2, <1>3, RankNext
  <2>2. z \in Nat /\ 0 \in Nat /\ 0 + z <= c[j].length /\ 0 + z = z
    BY <1>4
  <2> HIDE DEF z
  <2>3. Rank(c, e, j, 0 + z) = Rank(c, e, j, 0) + z
    BY <1>2, <1>3, <2>2, RankMore, SMTT(30)
  <2>4. Rank(c, e, j, z) = Rank(c, e, j, 0) + z
    BY <2>2, <2>3
  <2> QED
    BY <2>1, <2>4 DEF z
<1> QED
  BY <1>4, <1>6, <1>8, <1>10, <1>11

\* A call that receives returns when it has its bytes.
LEMMA FinishReceiveStep ==
    ASSUME NetInv, NEW e \in Ends, FinishReceive(e)
    PROVE  NetInv'
<1> DEFINE o == Other(e)
           c == conversation
<1>1. /\ UNCHANGED <<conversation, buffering, out, wire, ahead, data, alive>>
      /\ Returned(e) /\ Receiving(e) /\ ~Finished(e)
      /\ have[e] = LEN(e) /\ c[call[e]].from # e
      /\ total' = [total EXCEPT ![e].received = @ + LEN(e)]
  BY DEF FinishReceive, Receiving, Whole
<1>2. /\ call' \in [Ends -> Nat \ {0}] /\ have' \in [Ends -> Nat] /\ Within'
      /\ call'[e] = call[e] + 1 /\ have'[e] = 0
      /\ call'[o] = call[o] /\ have'[o] = have[o]
      /\ \A f \in Ends : Sent(f)' = Sent(f) /\ Arrived(f)' = Arrived(f)
      /\ \A f \in Ends : \A i \in DOMAIN c : Got(f, i)' = Got(f, i)
  BY <1>1, Moves
<1>3. \A f \in Ends : Flow(f)' = Flow(f)
  BY <1>1 DEF Flow
<1>4. /\ o \in Ends /\ o # e /\ Other(o) = e /\ Ends = {e, o}
  BY TheOther
<1>5. /\ c \in Seq(Messages) /\ call[e] \in 1 .. Len(c) /\ LEN(e) \in Nat
      /\ Len(c) \in Nat /\ c[call[e]].from = o /\ LEN(e) = c[call[e]].length
  <2>1. c \in Seq(Messages) /\ Len(c) \in Nat /\ call[e] \in Nat \ {0}
    BY DEF NetInv, Shapes
  <2>2. call[e] \in 1 .. Len(c)
    BY <1>1, <2>1 DEF Finished
  <2>3. LEN(e) \in Nat /\ c[call[e]].from \in Ends
    BY <2>1, <2>2, ElementOfMessages DEF LEN
  <2> QED
    BY <1>1, <1>4, <2>1, <2>2, <2>3 DEF LEN
<1>6. /\ total' \in [Ends -> [sent : Nat, received : Nat]]
      /\ total'[e].received = total[e].received + LEN(e)
      /\ total'[o].received = total[o].received
  <2>1. total \in [Ends -> [sent : Nat, received : Nat]]
    BY DEF NetInv, Shapes
  <2> DEFINE t == [total[e] EXCEPT !.received = @ + LEN(e)]
  <2>2. t \in [sent : Nat, received : Nat] /\ t.received = total[e].received + LEN(e)
    <3> DEFINE r == total[e]
               z == LEN(e)
    <3>1. r \in [sent : Nat, received : Nat] /\ z \in Nat
          /\ t = [r EXCEPT !.received = @ + z]
      BY <1>5, <2>1
    <3> HIDE DEF r, z, t
    <3>2. r.received + z \in Nat
      BY <3>1
    <3>3. t \in [sent : Nat, received : Nat] /\ t.received = r.received + z
      BY <3>1, <3>2
    <3> QED
      BY <3>3 DEF r, z
  <2>3. total' = [total EXCEPT ![e] = t]
    BY <1>1
  <2> HIDE DEF t
  <2> QED
    BY <1>4, <2>1, <2>2, <2>3
<1>7. Shapes'
  BY <1>1, <1>2, <1>6 DEF NetInv, Shapes
<1>8. \A f \in Ends : Channel(f)'
  BY <1>1, <1>2, <1>3, ChannelKept, TheOther DEF NetInv
<1>9. \A f \in Ends : Held(f)'
  <2>1. Held(e)'
    <3>1. ASSUME Sending(e)' PROVE ahead[e] = <<>>
      <4>1. call[e] + 1 <= Len(c) /\ c[call[e] + 1].from = e
        BY <1>1, <1>2, <1>5, <3>1 DEF Sending, Finished
      <4> QED
        BY <1>1, <4>1, NothingAhead
    <3> QED
      BY <1>1, <3>1 DEF NetInv, Held
  <2>2. Held(o)'
    BY <1>1, <1>2, <1>4 DEF NetInv, Held, Sending, Finished
  <2> QED
    BY <1>4, <2>1, <2>2
<1>10. Results(e)'
  <2>1. total'[e].received = Rank(c, o, call'[e], 0)
    <3> DEFINE i == call[e]
               z == LEN(e)
    <3>1. total[e].received = Rank(c, o, i, 0)
      BY DEF NetInv, Results
    <3>2. i \in 1 .. Len(c) /\ c[i].from = o /\ z \in Nat /\ z = c[i].length
          /\ 0 \in Nat /\ 0 + z <= c[i].length /\ 0 + z = z
      BY <1>5
    <3> HIDE DEF o, i, z
    <3>3. Rank(c, o, i, 0 + z) = Rank(c, o, i, 0) + z
      BY <1>5, <3>2, RankMore
    <3>4. Rank(c, o, i, z) = Rank(c, o, i + 1, 0)
      BY <1>5, <3>2, RankNext
    <3>5. total'[e].received = total[e].received + z /\ call'[e] = i + 1
      BY <1>2, <1>6 DEF i, z
    <3> QED
      BY <3>1, <3>2, <3>3, <3>4, <3>5
  <2>2. \A i \in DOMAIN c : Got(e, i)' = Got(e, i)
    BY <1>2
  <2> QED
    BY <1>1, <2>1, <2>2 DEF NetInv, Results
<1>11. Results(o)'
  BY <1>1, <1>2, <1>4, <1>6, ResultsKept DEF NetInv
<1> QED
  BY <1>2, <1>4, <1>7, <1>8, <1>9, <1>10, <1>11 DEF NetInv

\* fwrite puts the next bytes behind what is there.
LEMMA WriteStep ==
    ASSUME NetInv, NEW e \in Ends, Write(e)
    PROVE  NetInv'
<1> DEFINE o == Other(e)
           c == conversation
           i == call[e]
<1>1. /\ UNCHANGED <<conversation, buffering, call, begun, data, total, alive>>
      /\ Sending(e) /\ ~Finished(e) /\ have[e] < LEN(e) /\ c[call[e]].from = e
      /\ ahead' = [ahead EXCEPT ![e] = <<>>] /\ ahead[e] = <<>> /\ e \in alive
  BY DEF Write, Sending, NetInv, Held
<1> DEFINE Put(n) == IF buffering = "unbuffered"
            THEN /\ wire' = IF o \in alive
                            THEN [wire EXCEPT ![o] = @ \o NextBytes(e, n)]
                            ELSE wire
                 /\ UNCHANGED out
            ELSE /\ out' = [out EXCEPT ![e] = @ \o NextBytes(e, n)]
                 /\ UNCHANGED wire
<1>2. PICK n \in 1 .. LEN(e) - have[e] : have' = [have EXCEPT ![e] = @ + n] /\ Put(n)
  BY DEF Write
<1>3. /\ o \in Ends /\ o # e /\ Other(o) = e /\ Ends = {e, o}
  BY TheOther
<1>4. /\ c \in Seq(Messages) /\ i \in 1 .. Len(c) /\ LEN(e) \in Nat /\ c[i].from = e
      /\ Len(c) \in Nat /\ LEN(e) = c[i].length /\ have[e] \in Nat /\ DOMAIN c = 1 .. Len(c)
  <2>1. c \in Seq(Messages) /\ Len(c) \in Nat /\ call[e] \in Nat \ {0} /\ have[e] \in Nat
        /\ DOMAIN c = 1 .. Len(c)
    BY DEF NetInv, Shapes
  <2>2. call[e] \in 1 .. Len(c)
    BY <1>1, <2>1 DEF Finished
  <2>3. LEN(e) \in Nat
    BY <2>1, <2>2, ElementOfMessages DEF LEN
  <2> QED
    BY <1>1, <2>1, <2>2, <2>3 DEF LEN
<1>5. n \in Nat \ {0} /\ have[e] + n <= c[i].length /\ i \in Nat
  BY <1>4
<1>6. /\ have' \in [Ends -> Nat] /\ have'[e] = have[e] + n /\ have'[o] = have[o]
  <2>1. have \in [Ends -> Nat] /\ have[e] + n \in Nat
    BY <1>4, <1>5 DEF NetInv, Shapes
  <2> QED
    BY <1>2, <1>3, <2>1
<1> DEFINE t == NextBytes(e, n)
<1>7. t \in Seq(Bytes) /\ Len(t) = n /\ PartOf(i, have[e], t)
  <2>1. t = [k \in 1 .. n |-> Byte(i, have[e] + k)]
    BY DEF NextBytes
  <2> HIDE DEF t
  <2> QED
    BY <1>4, <1>5, <2>1, BytesFrom
<1>8. Queue(c, e, Sent(e), t)
  <2>1. have[e] + Len(t) <= c[i].length
    BY <1>5, <1>7
  <2>2. Queue(c, e, Rank(c, e, i, have[e]), t)
    BY <1>4, <1>7, <2>1, QueueOfMessage
  <2> QED
    BY <2>2 DEF Sent
<1>9. Sent(e)' = Sent(e) + n /\ Arrived(e)' = Arrived(e)
  <2>1. Rank(c, e, i, have[e] + n) = Rank(c, e, i, have[e]) + n
    <3> DEFINE h == have[e]
    <3>1. h \in Nat /\ n \in Nat /\ h + n <= c[i].length
          /\ c \in Seq(Messages) /\ i \in 1 .. Len(c) /\ c[i].from = e
      BY <1>4, <1>5
    <3> HIDE DEF h, c, i
    <3>2. Rank(c, e, i, h + n) = Rank(c, e, i, h) + n
      BY <3>1, RankMore
    <3> QED
      BY <3>2 DEF h
  <2>2. \A k : Rank(c, o, i, k) = Rank(c, o, i + 1, 0)
    BY <1>3, <1>4, RankNext
  <2> QED
    BY <1>1, <1>6, <2>1, <2>2 DEF Sent, Arrived
<1>10. Sent(o)' = Sent(o) /\ Arrived(o)' = Arrived(o) /\ \A m : Got(o, m)' = Got(o, m)
  BY <1>1, <1>3, <1>6, PlaceKept
<1>11. /\ ahead' \in [Ends -> Seq(Bytes)] /\ \A f \in Ends : ahead'[f] = ahead[f]
  BY <1>1, <1>3 DEF NetInv, Shapes
<1> HIDE DEF o
<1>12. /\ out[e] \in Seq(Bytes) /\ wire[o] \in Seq(Bytes) /\ ahead[o] \in Seq(Bytes)
       /\ out \in [Ends -> Seq(Bytes)] /\ wire \in [Ends -> Seq(Bytes)]
  BY <1>3 DEF NetInv, Shapes
<1> HIDE DEF t
<1>13. /\ wire[o] \o t \in Seq(Bytes) /\ out[e] \o t \in Seq(Bytes)
  BY <1>7, <1>12, Joins
<1> DEFINE Added ==
      /\ out' \in [Ends -> Seq(Bytes)] /\ wire' \in [Ends -> Seq(Bytes)]
      /\ wire'[e] = wire[e] /\ out'[o] = out[o]
      /\ buffering = "unbuffered" => out' = out
      /\ o \in alive => Flow(o)' = Flow(o) \o t
<1>14. Added
  <2>1. CASE buffering = "unbuffered"
    <3>1. /\ wire' = IF o \in alive THEN [wire EXCEPT ![o] = @ \o t] ELSE wire
          /\ out' = out /\ out[e] = <<>>
      BY <1>2, <2>1 DEF NetInv, Held, t, o
    <3>2. /\ wire' \in [Ends -> Seq(Bytes)] /\ wire'[e] = wire[e]
          /\ o \in alive => wire'[o] = wire[o] \o t
      BY <1>3, <1>12, <1>13, <3>1
    <3>3. ASSUME o \in alive PROVE Flow(o)' = Flow(o) \o t
      <4> DEFINE x == ahead[o]
                 w == wire[o]
      <4>1. x \in Seq(Bytes) /\ w \in Seq(Bytes)
        BY <1>12
      <4>2. Flow(o)' = x \o ((w \o t) \o <<>>)
        BY <1>3, <1>11, <3>1, <3>2, <3>3 DEF Flow
      <4>3. Flow(o) = x \o (w \o <<>>)
        BY <1>3, <3>1 DEF Flow
      <4> HIDE DEF x, w
      <4>4. (w \o t) \o <<>> = w \o t /\ w \o <<>> = w /\ (x \o w) \o t = x \o (w \o t)
        <5>1. w \o t \in Seq(Bytes)
          BY <1>7, <4>1, Joins
        <5> QED
          BY <1>7, <4>1, <5>1, Joins
      <4> QED
        BY <4>2, <4>3, <4>4
    <3> QED
      BY <1>12, <3>1, <3>2, <3>3
  <2>2. CASE buffering # "unbuffered"
    <3>1. out' = [out EXCEPT ![e] = @ \o t] /\ wire' = wire
      BY <1>2, <2>2 DEF t, o
    <3>2. /\ out' \in [Ends -> Seq(Bytes)] /\ out'[o] = out[o] /\ out'[e] = out[e] \o t
      BY <1>3, <1>12, <1>13, <3>1
    <3>3. Flow(o)' = Flow(o) \o t
      <4> DEFINE x == ahead[o]
                 w == wire[o]
                 u == out[e]
      <4>1. x \in Seq(Bytes) /\ w \in Seq(Bytes) /\ u \in Seq(Bytes)
        BY <1>12
      <4>2. Flow(o)' = x \o (w \o (u \o t))
        BY <1>3, <1>11, <3>1, <3>2 DEF Flow
      <4>3. Flow(o) = x \o (w \o u)
        BY <1>3 DEF Flow
      <4> HIDE DEF x, w, u
      <4>4. (x \o (w \o u)) \o t = x \o (w \o (u \o t))
        <5>1. w \o u \in Seq(Bytes)
          BY <4>1, Joins
        <5>2. (x \o (w \o u)) \o t = x \o ((w \o u) \o t)
          BY <1>7, <4>1, <5>1, Joins
        <5>3. (w \o u) \o t = w \o (u \o t)
          BY <1>7, <4>1, Joins
        <5> QED
          BY <5>2, <5>3
      <4> QED
        BY <4>2, <4>3, <4>4
    <3> QED
      BY <1>12, <2>2, <3>1, <3>2, <3>3
  <2> QED
    BY <2>1, <2>2
<1>15. Shapes'
  BY <1>1, <1>6, <1>11, <1>14 DEF NetInv, Shapes
<1>16. Within'
  <2>1. ~Finished(e)' => have'[e] <= LEN(e)'
    BY <1>1, <1>5, <1>6 DEF LEN
  <2>2. /\ \A f \in Ends : call'[f] <= Len(c)' + 1
        /\ ~Finished(o)' => have'[o] <= LEN(o)'
    BY <1>1, <1>3, <1>6 DEF NetInv, Within, Finished, LEN
  <2> QED
    BY <1>3, <2>1, <2>2 DEF Within
<1>17. Channel(e)'
  <2>1. Flow(e)' = Flow(e)
    BY <1>11, <1>14 DEF Flow, o
  <2> QED
    BY <1>1, <1>9, <1>10, <2>1, ChannelKept DEF NetInv, o
<1>18. Channel(o)'
  <2>1. Channel(o) /\ Shapes
    BY <1>3 DEF NetInv
  <2>2. Arrived(o) \in Nat /\ Sent(e) \in Nat /\ Flow(o) \in Seq(Bytes)
        /\ Len(Flow(o)) \in Nat
    BY <1>3, <2>1, PlacesAre
  <2>3. Arrived(o)' <= Sent(e)'
    <3>1. Arrived(o) <= Sent(e)
      BY <1>3, <2>1 DEF Channel
    <3> QED
      BY <1>5, <1>9, <1>10, <2>2, <3>1
  <2>4. ASSUME o \in alive
        PROVE  /\ Queue(c, e, Arrived(o)', Flow(o)')
               /\ Arrived(o)' + Len(Flow(o)') = Sent(e)'
    <3> DEFINE q == Flow(o)
               p == Arrived(o)
    <3>1. Queue(c, e, p, q) /\ p + Len(q) = Sent(e)
      BY <1>1, <1>3, <2>1, <2>4 DEF Channel
    <3>2. Flow(o)' = q \o t
      BY <1>14, <2>4
    <3>3. p \in Nat /\ q \in Seq(Bytes) /\ Len(q) \in Nat
      BY <2>2
    <3> HIDE DEF q, p
    <3>4. Queue(c, e, p + Len(q), t)
      BY <1>8, <3>1
    <3>5. Queue(c, e, p, q \o t) /\ Len(q \o t) = Len(q) + Len(t)
      BY <1>7, <3>1, <3>3, <3>4, QueueAppend
    <3>6. Arrived(o)' = p
      BY <1>10 DEF p
    <3>7. p + (Len(q) + n) = Sent(e) + n
      BY <1>5, <3>1, <3>3
    <3> QED
      BY <1>7, <1>9, <3>2, <3>5, <3>6, <3>7
  <2>5. o \in alive' => /\ Queue(c', e, Arrived(o)', Flow(o)')
                        /\ Arrived(o)' + Len(Flow(o)') <= Sent(e)'
                        /\ e \in alive' => Arrived(o)' + Len(Flow(o)') = Sent(e)'
    <3>1. Sent(e)' \in Int
      BY <1>5, <1>9, <2>2
    <3> QED
      BY <1>1, <2>4, <3>1
  <2> QED
    BY <1>3, <2>3, <2>5 DEF Channel
<1>19. \A f \in Ends : Held(f)'
  <2> SUFFICES ASSUME NEW f \in Ends PROVE Held(f)'
    OBVIOUS
  <2>1. Held(f)
    BY DEF NetInv
  <2> QED
    BY <1>1, <1>11, <1>14, <2>1 DEF Held, Sending, Finished
<1>20. Results(e)'
  <2>1. \A m \in DOMAIN c : c[m].from # e => Got(e, m)' = Got(e, m)
    <3>1. \A m \in DOMAIN c : c[m].from # e => m # i
      BY <1>4
    <3> HIDE DEF i
    <3> QED
      BY <1>1, <3>1 DEF Got, i
  <2> QED
    BY <1>1, <2>1, ResultsKept DEF NetInv
<1>21. Results(o)'
  BY <1>1, <1>3, <1>10, ResultsKept DEF NetInv
<1> QED
  BY <1>3, <1>15, <1>16, <1>17, <1>18, <1>19, <1>20, <1>21 DEF NetInv

\* fread takes the next bytes of the message that is to be received, and no others.
LEMMA ReadStep ==
    ASSUME NetInv, NEW e \in Ends, Read(e)
    PROVE  NetInv'
<1> DEFINE o == Other(e)
           c == conversation
           i == call[e]
           n == Min({Len(ahead[e]), LEN(e) - have[e]})
           a == FirstBytes(ahead[e], n)
           b == Without(ahead[e], n)
<1>1. /\ UNCHANGED <<conversation, buffering, call, begun, out, wire, total, alive>>
      /\ Receiving(e) /\ ~Finished(e) /\ have[e] < LEN(e) /\ c[i].from # e
      /\ e \in alive
  BY DEF Read, Receiving
<1>2. /\ data' = [data EXCEPT ![e][i] = data[e][i] \o a]
      /\ have' = [have EXCEPT ![e] = @ + n] /\ ahead' = [ahead EXCEPT ![e] = b]
  BY DEF Read, ReadBehind
<1>3. /\ o \in Ends /\ o # e /\ Other(o) = e /\ Ends = {e, o}
  BY TheOther
<1>4. /\ c \in Seq(Messages) /\ i \in 1 .. Len(c) /\ LEN(e) \in Nat /\ c[i].from = o
      /\ Len(c) \in Nat /\ LEN(e) = c[i].length /\ have[e] \in Nat /\ DOMAIN c = 1 .. Len(c)
      /\ ahead[e] \in Seq(Bytes) /\ Len(ahead[e]) \in Nat
  <2>1. c \in Seq(Messages) /\ Len(c) \in Nat /\ call[e] \in Nat \ {0} /\ have[e] \in Nat
        /\ DOMAIN c = 1 .. Len(c) /\ ahead[e] \in Seq(Bytes) /\ Len(ahead[e]) \in Nat
    BY DEF NetInv, Shapes
  <2>2. call[e] \in 1 .. Len(c)
    BY <1>1, <2>1 DEF Finished
  <2>3. LEN(e) \in Nat /\ c[i].from \in Ends
    BY <2>1, <2>2, ElementOfMessages DEF LEN
  <2> QED
    BY <1>1, <1>3, <2>1, <2>2, <2>3 DEF LEN
<1>5. n \in 0 .. Len(ahead[e]) /\ have[e] + n <= c[i].length /\ i \in Nat
  <2> DEFINE x == Len(ahead[e])
             y == LEN(e) - have[e]
  <2>1. x \in Nat /\ y \in Nat
    BY <1>1, <1>4
  <2> HIDE DEF x, y
  <2>2. n = IF x <= y THEN x ELSE y
    BY <2>1, MinOfTwo DEF x, y
  <2>3. n \in 0 .. x /\ n <= y
    BY <2>1, <2>2
  <2> HIDE DEF n
  <2> QED
    BY <1>4, <2>3 DEF x, y
<1> HIDE DEF n
<1>6. /\ a \in Seq(Bytes) /\ Len(a) = n /\ b \in Seq(Bytes) /\ a \o b = ahead[e]
      /\ \A m \in 1 .. n : a[m] = ahead[e][m]
  BY <1>4, <1>5, Pieces
<1> HIDE DEF a, b
<1>7. /\ have' \in [Ends -> Nat] /\ have'[e] = have[e] + n /\ have'[o] = have[o]
      /\ ahead' \in [Ends -> Seq(Bytes)] /\ ahead'[e] = b /\ ahead'[o] = ahead[o]
  <2>1. have \in [Ends -> Nat] /\ have[e] + n \in Nat /\ ahead \in [Ends -> Seq(Bytes)]
    BY <1>4, <1>5 DEF NetInv, Shapes
  <2> QED
    BY <1>2, <1>3, <1>6, <2>1
<1>8. Arrived(e)' = Arrived(e) + n /\ Sent(e)' = Sent(e)
  <2> DEFINE h == have[e]
  <2>1. Rank(c, o, i, h + n) = Rank(c, o, i, h) + n
    <3>1. /\ c \in Seq(Messages) /\ i \in 1 .. Len(c) /\ c[i].from = o
          /\ h \in Nat /\ n \in Nat /\ h + n <= c[i].length
      BY <1>4, <1>5
    <3> HIDE DEF c, o, i, h
    <3> QED
      BY <3>1, RankMore, Zenon
  <2>2. \A k : Rank(c, e, i, k) = Rank(c, e, i + 1, 0)
    BY <1>1, <1>4, RankNext
  <2> QED
    BY <1>1, <1>7, <2>1, <2>2 DEF Sent, Arrived
<1> HIDE DEF o
<1>9. Sent(o)' = Sent(o) /\ Arrived(o)' = Arrived(o) /\ \A m : Got(o, m)' = Got(o, m)
  BY <1>1, <1>3, <1>7, PlaceKept
<1>10. /\ Queue(c, o, Arrived(e), Flow(e)) /\ Flow(e) = a \o Flow(e)'
       /\ Flow(e) \in Seq(Bytes) /\ Flow(e)' \in Seq(Bytes)
       /\ Len(Flow(e)) = n + Len(Flow(e)')
  <2> DEFINE w == wire[e] \o out[o]
  <2>1. w \in Seq(Bytes)
    <3>1. wire[e] \in Seq(Bytes) /\ out[o] \in Seq(Bytes)
      BY <1>3 DEF NetInv, Shapes
    <3> QED
      BY <3>1, Joins
  <2>2. Flow(e) = (a \o b) \o w /\ Flow(e)' = b \o w
    <3>1. Flow(e) = ahead[e] \o w /\ ahead[e] = a \o b
      BY <1>6 DEF Flow, o
    <3>2. Flow(e)' = ahead'[e] \o w /\ ahead'[e] = b
      BY <1>1, <1>7 DEF Flow, o
    <3> QED
      BY <3>1, <3>2
  <2> HIDE DEF w
  <2>6. a \in Seq(Bytes) /\ b \in Seq(Bytes)
    BY <1>6
  <2>3. (a \o b) \o w = a \o (b \o w) /\ b \o w \in Seq(Bytes)
    BY <2>1, <2>6, Joins
  <2>4. a \o (b \o w) \in Seq(Bytes) /\ Len(a \o (b \o w)) = Len(a) + Len(b \o w)
    BY <2>3, <2>6, Joins
  <2>5. Queue(c, o, Arrived(e), Flow(e))
    BY <1>1 DEF NetInv, Channel, o
  <2> QED
    BY <1>6, <2>2, <2>3, <2>4, <2>5
<1>11. Channel(e)'
  <2> DEFINE q == Flow(e)'
             p == Arrived(e)
  <2>1. p \in Nat /\ Sent(o) \in Nat /\ q \in Seq(Bytes) /\ Len(q) \in Nat
    BY <1>3, <1>10, PlacesAre DEF NetInv
  <2>2. Queue(c, o, p, a \o q)
    BY <1>10
  <2>3. /\ p + Len(Flow(e)) <= Sent(o)
        /\ o \in alive => p + Len(Flow(e)) = Sent(o)
    BY <1>1 DEF NetInv, Channel, o
  <2> HIDE DEF q, p
  <2>4. Queue(c, o, p + n, q)
    BY <1>6, <2>1, <2>2, QueueBehind
  <2>5. p + Len(Flow(e)) = (p + n) + Len(q) /\ n \in Nat
    BY <1>4, <1>5, <1>10, <2>1 DEF q
  <2>6. Arrived(e)' = p + n /\ Sent(o)' = Sent(o) /\ Flow(e)' = q
    BY <1>8, <1>9 DEF p, q
  <2>7. p + n <= Sent(o)
    BY <2>1, <2>3, <2>5
  <2>8. /\ (p + n) + Len(q) <= Sent(o)
        /\ o \in alive => (p + n) + Len(q) = Sent(o)
    BY <2>3, <2>5
  <2> QED
    BY <1>1, <2>4, <2>6, <2>7, <2>8 DEF Channel, o
<1>12. Channel(o)'
  <2>1. Flow(o)' = Flow(o)
    BY <1>1, <1>3, <1>7 DEF Flow
  <2> QED
    BY <1>1, <1>3, <1>8, <1>9, <2>1, ChannelKept DEF NetInv
<1>13. \A f \in Ends : Held(f)'
  <2>1. Held(e)'
    BY <1>1 DEF NetInv, Held, Sending, Finished
  <2>2. Held(o)'
    BY <1>1, <1>3, <1>7 DEF NetInv, Held, Sending, Finished
  <2> QED
    BY <1>3, <2>1, <2>2
<1>14. Within'
  <2>1. ~Finished(e)' => have'[e] <= LEN(e)'
    BY <1>1, <1>4, <1>5, <1>7 DEF LEN
  <2>2. /\ \A f \in Ends : call'[f] <= Len(c)' + 1
        /\ ~Finished(o)' => have'[o] <= LEN(o)'
    BY <1>1, <1>3, <1>7 DEF NetInv, Within, Finished, LEN
  <2> QED
    BY <1>3, <2>1, <2>2 DEF Within
<1>15. data[e][i] = [k \in 1 .. have[e] |-> Byte(i, k)]
  <2>1. Got(e, i) = have[e]
    BY <1>4 DEF Got
  <2>2. Results(e)
    BY DEF NetInv
  <2> QED
    BY <1>1, <1>4, <2>1, <2>2 DEF Results
<1>16. data[e][i] \o a = [k \in 1 .. have[e] + n |-> Byte(i, k)]
  <2> DEFINE h == have[e]
             d == data[e][i]
  <2>1. \A m \in 1 .. n : a[m] = Byte(i, h + m)
    <3> DEFINE q == Flow(e)
    <3>1. Queue(c, o, Rank(c, o, i, h), q) /\ q \in Seq(Bytes)
      BY <1>10 DEF Arrived, o
    <3>2. n \in 0 .. Len(q) /\ \A m \in 1 .. n : a[m] = q[m]
      <4> DEFINE r == Flow(e)'
      <4>1. q = a \o r /\ a \in Seq(Bytes) /\ r \in Seq(Bytes) /\ Len(a) = n /\ n \in Nat
        BY <1>4, <1>5, <1>6, <1>10
      <4> HIDE DEF q, r
      <4>2. /\ Len(q) = Len(a) + Len(r) /\ Len(r) \in Nat
            /\ \A m \in 1 .. Len(a) + Len(r) :
                 q[m] = IF m <= Len(a) THEN a[m] ELSE r[m - Len(a)]
        BY <4>1, ConcatProperties
      <4> QED
        BY <4>1, <4>2
    <3> HIDE DEF q
    <3>3. \A m \in 1 .. n : q[m] = Byte(i, h + m)
      BY <1>4, <1>5, <3>1, <3>2, QueueFirst
    <3> QED
      BY <3>2, <3>3
  <2>2. d = [k \in 1 .. h |-> Byte(i, k)] /\ h \in Nat /\ n \in Nat /\ i \in Nat
    BY <1>4, <1>5, <1>15
  <2> HIDE DEF h, d
  <2> DEFINE g == [k \in 1 .. h + n |-> Byte(i, k)]
  <2>3. d \in Seq(Bytes) /\ Len(d) = h /\ \A k \in 1 .. h : d[k] = Byte(i, k)
    <3>1. \A k \in 1 .. h : Byte(i, k) \in Bytes
      BY <2>2 DEF Byte, Bytes
    <3> QED
      BY <2>2, <3>1
  <2>4. g \in Seq(Bytes) /\ Len(g) = h + n
    <3>1. \A k \in 1 .. h + n : Byte(i, k) \in Bytes
      BY <2>2 DEF Byte, Bytes
    <3>2. h + n \in Nat
      BY <2>2
    <3> QED
      BY <3>1, <3>2
  <2>5. /\ d \o a \in Seq(Bytes) /\ Len(d \o a) = h + n
        /\ \A m \in 1 .. h + n : (d \o a)[m] = IF m <= h THEN d[m] ELSE a[m - h]
    BY <1>6, <2>3, ConcatProperties
  <2>6. ASSUME NEW m \in 1 .. h + n PROVE (d \o a)[m] = g[m]
    <3>1. CASE m <= h
      BY <2>2, <2>3, <2>5, <3>1
    <3>2. CASE m > h
      <4> DEFINE z == m - h
      <4>1. z \in 1 .. n /\ h + z = m
        BY <2>2, <3>2
      <4> HIDE DEF z
      <4>2. a[z] = Byte(i, m)
        BY <2>1, <4>1
      <4>3. (d \o a)[m] = a[z]
        BY <2>2, <2>5, <3>2 DEF z
      <4> QED
        BY <4>2, <4>3
    <3>3. m <= h \/ m > h
      BY <2>2
    <3> QED
      BY <3>1, <3>2, <3>3
  <2>7. d \o a = g
    <3> HIDE DEF g
    <3> QED
      BY <2>4, <2>5, <2>6, SeqEqual
  <2> QED
    BY <2>7 DEF d, h
<1>17. /\ data' \in [Ends -> [DOMAIN c -> Seq(Bytes)]]
       /\ data'[e][i] = data[e][i] \o a /\ data'[o] = data[o]
       /\ \A m \in DOMAIN c : m # i => data'[e][m] = data[e][m]
  <2>1. data \in [Ends -> [DOMAIN c -> Seq(Bytes)]]
    BY DEF NetInv, Shapes
  <2>2. data[e][i] \o a \in Seq(Bytes)
    <3>1. data[e][i] \in Seq(Bytes)
      BY <1>4, <2>1
    <3> QED
      BY <1>6, <3>1, Joins
  <2> DEFINE D == [data[e] EXCEPT ![i] = data[e][i] \o a]
  <2>3. /\ D \in [DOMAIN c -> Seq(Bytes)] /\ D[i] = data[e][i] \o a
        /\ \A m \in DOMAIN c : m # i => D[m] = data[e][m]
    BY <1>4, <2>1, <2>2
  <2>4. data' = [data EXCEPT ![e] = D]
    BY <1>2
  <2> HIDE DEF D
  <2> QED
    BY <1>3, <2>1, <2>3, <2>4
<1>18. Shapes'
  BY <1>1, <1>7, <1>17 DEF NetInv, Shapes
<1>19. Results(e)'
  <2>1. ASSUME NEW m \in DOMAIN c, c[m].from # e
        PROVE  data'[e][m] = [k \in 1 .. Got(e, m)' |-> Byte(m, k)]
    <3>1. CASE m = i
      <4>1. Got(e, m)' = have[e] + n
        BY <1>1, <1>4, <1>7, <3>1 DEF Got
      <4> QED
        BY <1>16, <1>17, <3>1, <4>1
    <3>2. CASE m # i
      <4>1. Got(e, m)' = Got(e, m)
        BY <1>1, <3>2 DEF Got
      <4>2. data[e][m] = [k \in 1 .. Got(e, m) |-> Byte(m, k)]
        BY <2>1 DEF NetInv, Results
      <4> QED
        BY <1>17, <3>2, <4>1, <4>2
    <3> QED
      BY <3>1, <3>2
  <2>2. total'[e].received = Rank(c', o, call'[e], 0)
    BY <1>1 DEF NetInv, Results, o
  <2> QED
    BY <1>1, <2>1, <2>2 DEF Results, o
<1>20. Results(o)'
  BY <1>1, <1>3, <1>9, <1>17, ResultsKept DEF NetInv
<1> QED
  BY <1>3, <1>11, <1>12, <1>13, <1>14, <1>18, <1>19, <1>20 DEF NetInv

\* Every step keeps the invariant.
LEMMA NetInvStep == NetInv /\ [Next]_vars => NetInv'
<1> SUFFICES ASSUME NetInv, [Next]_vars PROVE NetInv'
  OBVIOUS
<1>1. CASE UNCHANGED vars
  <2>1. /\ UNCHANGED <<conversation, buffering, call, have, data, total>>
        /\ UNCHANGED <<out, wire, ahead, alive>>
    BY <1>1 DEF vars, progress
  <2>2. \A f \in Ends : Flow(f)' = Flow(f)
    BY <2>1 DEF Flow
  <2>3. \A f \in Ends : Channel(f)'
    BY <2>1, <2>2, IdleChannel
  <2>4. \A f \in Ends : (Sending(f) => ahead'[f] = <<>>)
                        /\ (buffering = "unbuffered" => out'[f] = <<>>)
    BY <2>1 DEF NetInv, Held
  <2> QED
    BY <2>1, <2>3, <2>4, Idle DEF NetInv, Shapes
<1>2. ASSUME NEW e \in Ends, Go(e) \/ WriteOut(e) \/ Die(e) \/ BrokenPipe(e)
      PROVE  NetInv'
  <2>1. CASE Fill(e)
    BY <2>1, FillStep
  <2>2. CASE WriteOut(e)
    BY <2>2, WriteOutStep
  <2>3. CASE Write(e)
    BY <2>3, WriteStep
  <2>4. CASE FinishSend(e)
    BY <2>4, FinishSendStep
  <2>5. CASE BeginReceive(e)
    BY <2>5, BeginReceiveStep
  <2>6. CASE Read(e)
    BY <2>6, ReadStep
  <2>7. CASE FinishReceive(e)
    BY <2>7, FinishReceiveStep
  <2>8. CASE Die(e)
    BY <2>8, DieStep
  <2>9. CASE BrokenPipe(e)
    BY <2>9, BrokenPipeStep
  <2> QED
    BY <1>2, <2>1, <2>2, <2>3, <2>4, <2>5, <2>6, <2>7, <2>8, <2>9 DEF Go
<1> QED
  BY <1>1, <1>2 DEF Next

\* What is between a writer and a reader is what was written and not had yet, in order.
THEOREM NetInvariant == Spec => []NetInv
  BY NetInit, NetInvStep, PTL DEF Spec

\* No end has read ahead when it begins to write, so fwrite throws nothing away.
THEOREM NoneThrownAwayInvariant == Spec => []NoneThrownAway
<1>1. NetInv => NoneThrownAway
  BY DEF NetInv, Held, NoneThrownAway
<1> QED
  BY <1>1, NetInvariant, PTL

\* The messages received are the bytes of the other end up to the call.
LEMMA ReceivedAre == NetInv => ReturnsWhole
<1> SUFFICES ASSUME NetInv, NEW e \in Ends
             PROVE  LET mine == {i \in DOMAIN conversation :
                                   conversation[i].from # e /\ i < call[e]} IN
                    /\ \A i \in mine :
                         data[e][i] = [k \in 1 .. conversation[i].length |-> Byte(i, k)]
                    /\ total[e].received =
                         Cardinality(UNION {{i} \X DOMAIN data[e][i] : i \in mine})
  BY DEF ReturnsWhole
<1> DEFINE o == Other(e)
           c == conversation
           mine == {i \in DOMAIN c : c[i].from # e /\ i < call[e]}
<1>1. /\ c \in Seq(Messages) /\ DOMAIN c = 1 .. Len(c) /\ Len(c) \in Nat
      /\ call[e] \in Nat /\ Results(e)
  BY DEF NetInv, Shapes
<1>2. ASSUME NEW i \in mine PROVE data[e][i] = [k \in 1 .. c[i].length |-> Byte(i, k)]
  <2>1. i \in DOMAIN c /\ c[i].from # e /\ Got(e, i) = c[i].length
    BY DEF Got
  <2> QED
    BY <1>1, <2>1 DEF Results
<1>3. \A i \in DOMAIN c : c[i].from # e <=> c[i].from = o
  <2>1. \A i \in DOMAIN c : c[i].from \in Ends
    BY <1>1, ElementOfMessages
  <2> QED
    BY <2>1, TheOther
<1>4. UNION {{i} \X DOMAIN data[e][i] : i \in mine} = UpTo(c, o, call[e], 0)
  <2>1. \A i \in mine : DOMAIN data[e][i] = 1 .. c[i].length
    <3> HIDE DEF mine
    <3> QED
      BY <1>2
  <2>2. UNION {{i} \X DOMAIN data[e][i] : i \in mine}
          = UNION {{i} \X (1 .. c[i].length) : i \in mine}
    <3> HIDE DEF mine
    <3> QED
      BY <2>1
  <2> DEFINE A == UNION {{i} \X (1 .. c[i].length) : i \in mine}
  <2>3. ASSUME NEW b \in A PROVE b \in UpTo(c, o, call[e], 0)
    <3>1. PICK i \in mine : b \in {i} \X (1 .. c[i].length)
      <4> HIDE DEF mine
      <4> QED
        OBVIOUS
    <3>2. b = <<i, b[2]>> /\ b[2] \in 1 .. c[i].length /\ b[1] = i
      BY <3>1
    <3>3. i \in 1 .. Len(c) /\ c[i].from = o /\ i < call[e]
      BY <1>1, <1>3
    <3>4. <<i, b[2]>> \in BytesOf(c, o)
      BY <1>1, <3>2, <3>3, BytesOfAre
    <3> QED
      BY <3>2, <3>3, <3>4 DEF UpTo
  <2>4. ASSUME NEW b \in UpTo(c, o, call[e], 0) PROVE b \in A
    <3>1. /\ b \in BytesOf(c, o) /\ (b[1] < call[e] \/ (b[1] = call[e] /\ b[2] <= 0))
      BY DEF UpTo
    <3>2. /\ b = <<b[1], b[2]>> /\ b[1] \in 1 .. Len(c) /\ c[b[1]].from = o
          /\ b[2] \in 1 .. c[b[1]].length
      BY <1>1, <3>1, BytesOfAre
    <3>3. b[1] \in mine
      BY <1>1, <1>3, <3>1, <3>2
    <3> HIDE DEF mine
    <3> QED
      BY <3>2, <3>3
  <2> HIDE DEF A
  <2>5. A = UpTo(c, o, call[e], 0)
    BY <2>3, <2>4
  <2> QED
    BY <2>2, <2>5 DEF A
<1>5. total[e].received = Cardinality(UNION {{i} \X DOMAIN data[e][i] : i \in mine})
  BY <1>1, <1>4 DEF Results, Rank
<1> QED
  BY <1>2, <1>5

\* A call that receives returns the message it was meant for, whatever pieces the stream was
\* cut into and whoever died, and totalBytesReceived is the length of all of these.
THEOREM ReturnsWholeInvariant == Spec => []ReturnsWhole
  BY ReceivedAre, NetInvariant, PTL

-----------------------------------------------------------------------------
(* Neither end waits for ever                                              *)

\* Some call of e can go on: what the guards in Go(e) come to.
CanGo(e) ==
    \/ Sending(e) /\ (have[e] = LEN(e) \/ buffering = "unbuffered" \/ Len(out[e]) < BufferSize)
    \/ e \in alive /\ Len(out[e]) = BufferSize
    \/ Receiving(e) /\ (~begun[e] \/ have[e] = LEN(e) \/ ahead[e] # <<>> \/ wire[e] # <<>>)

\* While nobody died and somebody is not finished, a call of one of the ends can go on.
SomeCallGoesOn ==
    alive = Ends /\ (\E e \in Ends : ~Finished(e)) => \E e \in Ends : CanGo(e)

\* The library holds bytes to be written only for a call that sends them, and no more than
\* its buffer takes.
Unwritten(e) ==
    /\ out[e] # <<>> => e \notin alive \/ Sending(e)
    /\ Len(out[e]) <= BufferSize

\* The invariant with what it takes that neither end waits for ever.
LiveInv ==
    /\ NetInv /\ \A e \in Ends : Unwritten(e)
    /\ buffering \in {"fully buffered", "unbuffered"} /\ begun \in [Ends -> BOOLEAN]

\* At the start nothing is held.
LEMMA LiveInvInit == Init => LiveInv
<1> SUFFICES ASSUME Init, NEW e \in Ends PROVE Unwritten(e)
  BY NetInit DEF LiveInv, Init
<1>1. out[e] = <<>> /\ Len(<<>>) = 0
  BY DEF Init
<1> QED
  BY <1>1, SizesAssumption DEF Unwritten

\* Nothing is held for an end that is about to do something else.
LEMMA NothingHeld ==
    ASSUME NEW e \in Ends, out'[e] = <<>>
    PROVE  Unwritten(e)'
<1>1. Len(<<>>) = 0
  OBVIOUS
<1> QED
  BY <1>1, SizesAssumption DEF Unwritten

\* What is held for an end is as it was.
LEMMA UnwrittenKept ==
    ASSUME NEW f \in Ends, Unwritten(f), conversation' = conversation, call'[f] = call[f],
           out'[f] = out[f], f \in alive' => f \in alive, f \in alive => f \in alive'
    PROVE  Unwritten(f)'
  BY DEF Unwritten, Sending, Finished

\* The next bytes of a message are bytes.
LEMMA NextBytesAre ==
    ASSUME Shapes, NEW e \in Ends, NEW n \in Nat
    PROVE  NextBytes(e, n) \in Seq(Bytes) /\ Len(NextBytes(e, n)) = n
<1> DEFINE t == NextBytes(e, n)
           i == call[e]
           h == have[e]
<1>1. t = [k \in 1 .. n |-> Byte(i, h + k)] /\ i \in Nat /\ h \in Nat
  BY DEF NextBytes, Shapes
<1> HIDE DEF t, i, h
<1>2. \A k \in 1 .. n : Byte(i, h + k) \in Bytes
  BY <1>1 DEF Byte, Bytes
<1>3. t \in Seq(Bytes) /\ Len(t) = n
  BY <1>1, <1>2
<1> QED
  BY <1>3 DEF t

\* A call that sends flushes before it returns, or holds nothing, and never holds more than
\* the buffer takes.
LEMMA UnwrittenStep ==
    ASSUME LiveInv, NEW e \in Ends, Go(e) \/ WriteOut(e) \/ Die(e) \/ BrokenPipe(e)
    PROVE  \A f \in Ends : Unwritten(f)'
<1> DEFINE o == Other(e)
<1>1. /\ o \in Ends /\ o # e /\ Ends = {e, o} /\ Unwritten(e) /\ Unwritten(o)
      /\ out[e] \in Seq(Bytes) /\ out \in [Ends -> Seq(Bytes)] /\ call \in [Ends -> Nat \ {0}]
  BY TheOther DEF LiveInv, NetInv, Shapes
<1> HIDE DEF o
<1>2. Unwritten(o)'
  <2>1. conversation' = conversation
    BY DEF Go, Fill, Write, FinishSend, BeginReceive, Read, FinishReceive, WriteOut, Die,
           BrokenPipe
  <2>2. call'[o] = call[o]
    BY <1>1 DEF Go, Fill, Write, FinishSend, BeginReceive, Read, FinishReceive, WriteOut, Die,
           BrokenPipe, progress, Returned
  <2>3. out'[o] = out[o]
    BY <1>1 DEF Go, Fill, Write, FinishSend, BeginReceive, Read, FinishReceive, WriteOut, Die,
           BrokenPipe, Flush, AfterLoop
  <2>4. alive' = alive \/ alive' = alive \ {e}
    BY DEF Go, Fill, Write, FinishSend, BeginReceive, Read, FinishReceive, WriteOut, Die,
           BrokenPipe
  <2>5. o \in alive' <=> o \in alive
    BY <1>1, <2>4
  <2> QED
    BY <1>1, <2>1, <2>2, <2>3, <2>5, UnwrittenKept
<1>3. Unwritten(e)'
  <2>1. CASE Fill(e) \/ Read(e)
    BY <1>1, <2>1, UnwrittenKept DEF Fill, Read, progress
  <2>2. CASE WriteOut(e)
    <3>1. PICK n \in 1 .. Len(out[e]) : out' = [out EXCEPT ![e] = Without(@, n)]
      BY <2>2 DEF WriteOut
    <3>2. out'[e] = Without(out[e], n) /\ Len(Without(out[e], n)) = Len(out[e]) - n
      <4>1. n \in 0 .. Len(out[e])
        OBVIOUS
      <4> QED
        BY <1>1, <3>1, <4>1, Pieces
    <3>3. Len(out[e]) <= BufferSize /\ Len(out[e]) \in Nat /\ BufferSize \in Nat
      BY <1>1, SizesAssumption DEF Unwritten
    <3>4. Len(out'[e]) <= BufferSize
      BY <3>2, <3>3
    <3>5. Sending(e)'
      BY <1>1, <2>2 DEF WriteOut, Unwritten, Sending, Finished, progress
    <3> QED
      BY <3>4, <3>5 DEF Unwritten
  <2>3. CASE Write(e)
    <3>1. Sending(e)'
      BY <2>3 DEF Write, Sending, Finished
    <3>2. CASE buffering = "unbuffered"
      <4>1. out' = out
        BY <2>3, <3>2 DEF Write
      <4> QED
        BY <1>1, <3>1, <4>1 DEF Unwritten
    <3>3. CASE buffering # "unbuffered"
      <4>1. PICK n \in 1 .. LEN(e) - have[e] :
                   /\ Len(out[e]) + n <= BufferSize
                   /\ out' = [out EXCEPT ![e] = @ \o NextBytes(e, n)]
        BY <2>3, <3>3 DEF Write
      <4> DEFINE t == NextBytes(e, n)
      <4>2. t \in Seq(Bytes) /\ Len(t) = n
        <5>1. n \in Nat
          OBVIOUS
        <5>2. Shapes
          BY DEF LiveInv, NetInv
        <5> QED
          BY <5>1, <5>2, NextBytesAre
      <4> HIDE DEF t
      <4>3. out'[e] = out[e] \o t
        BY <1>1, <4>1 DEF t
      <4>4. Len(out[e] \o t) = Len(out[e]) + n
        BY <1>1, <4>2, Joins
      <4> QED
        BY <3>1, <4>1, <4>3, <4>4 DEF Unwritten
    <3> QED
      BY <3>2, <3>3
  <2>4. CASE FinishSend(e)
    <3>1. out'[e] = <<>>
      <4>1. CASE buffering = "fully buffered"
        BY <1>1, <2>4, <4>1 DEF FinishSend, AfterLoop, Flush
      <4>2. CASE buffering # "fully buffered"
        <5>1. out' = out /\ Held(e)
          BY <2>4, <4>2 DEF FinishSend, AfterLoop, LiveInv, NetInv
        <5>2. buffering = "unbuffered"
          BY <4>2 DEF LiveInv
        <5> QED
          BY <5>1, <5>2 DEF Held
      <4> QED
        BY <4>1, <4>2
    <3> QED
      BY <3>1, NothingHeld
  <2>5. CASE BeginReceive(e)
    <3>1. out'[e] = <<>>
      BY <1>1, <2>5 DEF BeginReceive, Flush
    <3> QED
      BY <3>1, NothingHeld
  <2>6. CASE FinishReceive(e)
    <3>1. out'[e] = <<>>
      BY <1>1, <2>6 DEF FinishReceive, Receiving, Sending, Unwritten
    <3> QED
      BY <3>1, NothingHeld
  <2>7. CASE Die(e)
    <3>1. out'[e] = <<>>
      BY <1>1, <2>7 DEF Die, Flush
    <3> QED
      BY <3>1, NothingHeld
  <2>8. CASE BrokenPipe(e)
    BY <1>1, <2>8 DEF BrokenPipe, Unwritten
  <2> QED
    BY <2>1, <2>2, <2>3, <2>4, <2>5, <2>6, <2>7, <2>8 DEF Go
<1> QED
  BY <1>1, <1>2, <1>3

\* Every step keeps this invariant, too.
LEMMA LiveInvStep == LiveInv /\ [Next]_vars => LiveInv'
<1> SUFFICES ASSUME LiveInv, [Next]_vars PROVE LiveInv'
  OBVIOUS
<1>1. NetInv'
  BY NetInvStep DEF LiveInv
<1>2. buffering' = buffering
  BY DEF Next, Go, Fill, Write, FinishSend, BeginReceive, Read, FinishReceive, WriteOut, Die,
         BrokenPipe, vars
<1>4. begun' \in [Ends -> BOOLEAN]
  <2>1. begun \in [Ends -> BOOLEAN]
    BY DEF LiveInv
  <2>2. \/ begun' = begun
        \/ \E e \in Ends : \E b \in BOOLEAN : begun' = [begun EXCEPT ![e] = b]
    BY DEF Next, Go, Fill, Write, FinishSend, BeginReceive, Read, FinishReceive, WriteOut, Die,
           BrokenPipe, vars, progress, Returned
  <2> QED
    BY <2>1, <2>2
<1>3. \A f \in Ends : Unwritten(f)'
  <2>1. CASE UNCHANGED vars
    BY <2>1, UnwrittenKept DEF LiveInv, vars, progress
  <2>2. CASE Next
    BY <2>2, UnwrittenStep DEF Next
  <2> QED
    BY <2>1, <2>2
<1> QED
  BY <1>1, <1>2, <1>3, <1>4 DEF LiveInv

\* An end that cannot go on is finished, or it receives and nothing is there for it.
LEMMA CannotGoOn ==
    ASSUME LiveInv, NEW e \in Ends, e \in alive, ~CanGo(e)
    PROVE  /\ out[e] = <<>> /\ ~Sending(e)
           /\ ~Finished(e) => /\ Receiving(e) /\ ahead[e] = <<>> /\ wire[e] = <<>>
                              /\ have[e] # LEN(e)
<1>1. ~Sending(e)
  <2>1. Len(out[e]) <= BufferSize /\ Len(out[e]) \in Nat /\ BufferSize \in Nat
    <3>1. out[e] \in Seq(Bytes)
      BY DEF LiveInv, NetInv, Shapes
    <3>2. Unwritten(e)
      BY DEF LiveInv
    <3> QED
      BY <3>1, <3>2, SizesAssumption DEF Unwritten
  <2>2. ~(Len(out[e]) = BufferSize)
    BY DEF CanGo
  <2>3. Len(out[e]) < BufferSize
    BY <2>1, <2>2
  <2> QED
    BY <2>3 DEF CanGo
<1>2. out[e] = <<>>
  BY <1>1 DEF LiveInv, Unwritten
<1>3. ~Finished(e) => Receiving(e)
  BY <1>1 DEF Sending, Receiving
<1> QED
  BY <1>1, <1>2, <1>3 DEF CanGo

\* Of two ends that wait the one that is further behind has been sent what it waits for.
LEMMA SomebodyGoesOn == LiveInv => SomeCallGoesOn
<1> SUFFICES ASSUME LiveInv, alive = Ends, NEW x \in Ends, ~Finished(x),
                    \A e \in Ends : ~CanGo(e)
             PROVE  FALSE
  BY DEF SomeCallGoesOn
<1> DEFINE c == conversation
<1>1. /\ c \in Seq(Messages) /\ Len(c) \in Nat
      /\ call \in [Ends -> Nat \ {0}] /\ have \in [Ends -> Nat] /\ NetInv
  <2>1. NetInv /\ Shapes
    BY DEF LiveInv, NetInv
  <2> QED
    BY <2>1 DEF Shapes
<1>2. PICK e \in Ends : ~Finished(e) /\ call[e] <= call[Other(e)]
  <2>1. Other(x) \in Ends /\ Other(Other(x)) = x /\ call[x] \in Nat /\ call[Other(x)] \in Nat
    BY <1>1, TheOther
  <2>2. CASE call[x] <= call[Other(x)]
    BY <2>2
  <2>3. CASE call[Other(x)] <= call[x]
    <3>1. ~Finished(Other(x))
      BY <1>1, <2>1, <2>3 DEF Finished
    <3> QED
      BY <2>1, <2>3, <3>1
  <2> QED
    BY <2>1, <2>2, <2>3
<1> DEFINE o == Other(e)
           i == call[e]
<1>3. o \in Ends /\ o # e /\ Other(o) = e
  BY TheOther
<1>4. /\ Receiving(e) /\ ahead[e] = <<>> /\ wire[e] = <<>> /\ have[e] # LEN(e)
      /\ out[o] = <<>> /\ ~Sending(o)
  BY <1>2, <1>3, CannotGoOn
<1>5. /\ i \in 1 .. Len(c) /\ c[i].from = o /\ c[i].length \in Nat
      /\ have[e] \in Nat /\ have[e] < c[i].length
  <2>1. i \in 1 .. Len(c)
    BY <1>1, <1>2 DEF Finished
  <2>2. c[i].length \in Nat /\ c[i].from \in Ends /\ have[e] \in Nat
    BY <1>1, <2>1, ElementOfMessages
  <2>3. c[i].from = o
    BY <1>3, <1>4, <2>2, TheOther DEF Receiving
  <2>4. have[e] <= c[i].length /\ have[e] # c[i].length
    BY <1>1, <1>2, <1>4 DEF NetInv, Within, LEN
  <2> QED
    BY <2>1, <2>2, <2>3, <2>4
<1>6. Arrived(e) = Sent(o)
  <2>1. Flow(e) = <<>> /\ Len(<<>>) = 0
    <3>1. <<>> \o (<<>> \o <<>>) = <<>>
      OBVIOUS
    <3> QED
      BY <1>4, <3>1 DEF Flow
  <2>2. Arrived(e) + Len(Flow(e)) = Sent(o) /\ Arrived(e) \in Nat
    BY <1>1, <1>3, PlacesAre DEF NetInv, Channel
  <2> QED
    BY <2>1, <2>2
<1> HIDE DEF o
<1>7. call[o] \in Nat /\ have[o] \in Nat /\ i + 1 <= call[o]
  <2>1. call[o] # i
    <3> SUFFICES ASSUME call[o] = i PROVE FALSE
      OBVIOUS
    <3> QED
      BY <1>1, <1>3, <1>4, <1>5 DEF Sending, Finished
  <2>2. call[o] \in Nat /\ have[o] \in Nat /\ i <= call[o]
    BY <1>1, <1>2, <1>3 DEF o
  <2> QED
    BY <1>5, <2>1, <2>2
<1>8. Sent(o) = Rank(c, o, call[o], have[o]) /\ Arrived(e) = Rank(c, o, i, have[e])
  BY DEF Sent, Arrived, o
<1> DEFINE h == have[e]
           z == c[i].length
<1>9. /\ h \in Nat /\ z - h \in Nat /\ z - h # 0 /\ h + (z - h) = z
  BY <1>5
<1>10. Rank(c, o, i, z) = Rank(c, o, i, h) + (z - h)
  <2> DEFINE n == z - h
  <2>1. n \in Nat /\ h \in Nat /\ h + n = z /\ h + n <= c[i].length
        /\ c \in Seq(Messages) /\ i \in 1 .. Len(c) /\ c[i].from = o
    BY <1>1, <1>5, <1>9
  <2> HIDE DEF n, h, z, i, c
  <2>2. Rank(c, o, i, h + n) = Rank(c, o, i, h) + n
    BY <2>1, RankMore
  <2> QED
    BY <2>1, <2>2 DEF n
<1>11. Rank(c, o, i, z) = Rank(c, o, i + 1, 0)
  BY <1>1, <1>5, RankNext
<1> HIDE DEF h, z
<1>12. Rank(c, o, i + 1, 0) <= Rank(c, o, call[o], have[o])
  <2>1. /\ i + 1 \in Nat /\ 0 \in Nat
        /\ i + 1 < call[o] \/ (i + 1 = call[o] /\ 0 <= have[o])
    BY <1>5, <1>7
  <2> HIDE DEF i
  <2> QED
    BY <1>1, <1>7, <2>1, RankOrdered
<1>13. /\ Rank(c, o, i, h) \in Nat /\ Rank(c, o, call[o], have[o]) \in Nat
       /\ Rank(c, o, i + 1, 0) \in Nat
  BY <1>1, UpToFinite
<1>14. Rank(c, o, i, h) = Rank(c, o, call[o], have[o])
  BY <1>6, <1>8 DEF h
<1> QED
  BY <1>9, <1>10, <1>11, <1>12, <1>13, <1>14

\* The streams never come to a stop: while nobody died and the conversation goes on, a call
\* of one of the ends, or the library for it, has something to do.
THEOREM SomeCallGoesOnInvariant == Spec => []SomeCallGoesOn
<1>1. Spec => []LiveInv
  BY LiveInvInit, LiveInvStep, PTL DEF Spec
<1> QED
  BY <1>1, SomebodyGoesOn, PTL

-----------------------------------------------------------------------------
(* No conversation goes on for ever                                        *)

\* What is left to do: bytes of e to be written, passed on and read, calls of e to be begun
\* and to return.
Unsent(e)   == Cardinality(BytesOf(conversation, e)) - Sent(e)
ByteWork(e) ==
    4 * Unsent(e) + 3 * Len(out[e]) + 2 * Len(wire[Other(e)]) + Len(ahead[Other(e)])
CallWork(e) == 2 * (Len(conversation) + 1 - call[e]) + (IF begun[e] THEN 0 ELSE 1)
Work == ByteWork(0) + ByteWork(1) + CallWork(0) + CallWork(1) + Cardinality(alive)

\* The numbers that the work is the sum of.
LEMMA Numbers ==
    ASSUME NetInv, NEW f \in Ends
    PROVE  /\ Len(out[f]) \in Nat /\ Len(wire[f]) \in Nat /\ Len(ahead[f]) \in Nat
           /\ Sent(f) \in Nat /\ Unsent(f) \in Nat
           /\ Cardinality(BytesOf(conversation, f)) \in Nat
           /\ call[f] \in Nat /\ Len(conversation) \in Nat
           /\ call[f] <= Len(conversation) + 1
<1> DEFINE c == conversation
<1>1. /\ c \in Seq(Messages) /\ Len(c) \in Nat /\ call[f] \in Nat
      /\ out[f] \in Seq(Bytes) /\ wire[f] \in Seq(Bytes) /\ ahead[f] \in Seq(Bytes)
  BY DEF NetInv, Shapes
<1>2. Sent(f) \in Nat
  BY PlacesAre DEF NetInv
<1>3. IsFiniteSet(BytesOf(c, f)) /\ Cardinality(BytesOf(c, f)) \in Nat
  BY <1>1, BytesOfFinite, FS_CardinalityType
<1>4. Sent(f) <= Cardinality(BytesOf(c, f))
  <2>1. UpTo(c, f, call[f], have[f]) \in SUBSET BytesOf(c, f)
    BY DEF UpTo
  <2> QED
    BY <1>3, <2>1, FS_Subset DEF Sent, Rank
<1>5. Unsent(f) \in Nat
  BY <1>2, <1>3, <1>4 DEF Unsent
<1>6. Len(out[f]) \in Nat /\ Len(wire[f]) \in Nat /\ Len(ahead[f]) \in Nat
  BY <1>1
<1>7. call[f] <= Len(c) + 1
  BY DEF NetInv, Within
<1> QED
  BY <1>1, <1>2, <1>3, <1>5, <1>6, <1>7

\* Each of the parts is a number.
LEMMA WorkParts ==
    ASSUME NetInv
    PROVE  /\ \A f \in Ends : ByteWork(f) \in Nat /\ CallWork(f) \in Nat
           /\ Cardinality(alive) \in Nat /\ IsFiniteSet(alive)
<1>1. ASSUME NEW f \in Ends PROVE ByteWork(f) \in Nat /\ CallWork(f) \in Nat
  <2>1. Other(f) \in Ends
    BY TheOther
  <2> DEFINE x == Len(out[f])
             y == Len(wire[Other(f)])
             z == Len(ahead[Other(f)])
             u == Unsent(f)
             i == call[f]
             l == Len(conversation)
  <2>2. /\ x \in Nat /\ y \in Nat /\ z \in Nat /\ u \in Nat /\ i \in Nat /\ l \in Nat
        /\ i <= l + 1
    BY <2>1, Numbers
  <2>3. ByteWork(f) = 4 * u + 3 * x + 2 * y + z
    BY DEF ByteWork
  <2>4. CallWork(f) = 2 * (l + 1 - i) + (IF begun[f] THEN 0 ELSE 1)
    BY DEF CallWork
  <2> HIDE DEF x, y, z, u, i, l
  <2> QED
    BY <2>2, <2>3, <2>4
<1>2. IsFiniteSet(alive)
  <2>1. IsFiniteSet(Ends)
    <3>1. Ends = {0} \cup {1}
      BY DEF Ends
    <3>2. IsFiniteSet({0})
      BY FS_Singleton
    <3>3. IsFiniteSet({0} \cup {1})
      BY <3>2, FS_AddElement
    <3> QED
      BY <3>1, <3>3
  <2> QED
    BY <2>1, FS_Subset DEF NetInv, Shapes
<1> QED
  BY <1>1, <1>2, FS_CardinalityType

\* And so is their sum.
LEMMA WorkIsNat == NetInv => Work \in Nat
<1> SUFFICES ASSUME NetInv PROVE Work \in Nat
  OBVIOUS
<1>1. 0 \in Ends /\ 1 \in Ends
  BY DEF Ends
<1>2. /\ ByteWork(0) \in Nat /\ ByteWork(1) \in Nat /\ CallWork(0) \in Nat
      /\ CallWork(1) \in Nat /\ Cardinality(alive) \in Nat
  BY <1>1, WorkParts
<1> QED
  BY <1>2 DEF Work

\* A step of e that takes something from one of the parts and adds to none.
LEMMA LessWork ==
    ASSUME NetInv, NEW e \in Ends, NEW a \in Nat, NEW b \in Nat, NEW d \in Nat, NEW k \in Nat,
           a + b + d + k > 0,
           ByteWork(e)' = ByteWork(e) - a, ByteWork(Other(e))' = ByteWork(Other(e)) - b,
           CallWork(e)' = CallWork(e) - d, CallWork(Other(e))' = CallWork(Other(e)),
           Cardinality(alive)' = Cardinality(alive) - k
    PROVE  Work' < Work
<1>1. /\ 0 \in Ends /\ 1 \in Ends /\ (e = 0 \/ e = 1) /\ Other(0) = 1 /\ Other(1) = 0
  BY DEF Ends, Other
<1>2. /\ ByteWork(0) \in Nat /\ ByteWork(1) \in Nat /\ CallWork(0) \in Nat
      /\ CallWork(1) \in Nat /\ Cardinality(alive) \in Nat
  BY <1>1, WorkParts
<1>3. CASE e = 0
  <2>1. /\ ByteWork(0)' = ByteWork(0) - a /\ ByteWork(1)' = ByteWork(1) - b
        /\ CallWork(0)' = CallWork(0) - d /\ CallWork(1)' = CallWork(1)
        /\ Cardinality(alive)' = Cardinality(alive) - k
    BY <1>1, <1>3
  <2> QED
    BY <1>2, <2>1 DEF Work
<1>4. CASE e = 1
  <2>1. /\ ByteWork(1)' = ByteWork(1) - a /\ ByteWork(0)' = ByteWork(0) - b
        /\ CallWork(1)' = CallWork(1) - d /\ CallWork(0)' = CallWork(0)
        /\ Cardinality(alive)' = Cardinality(alive) - k
    BY <1>1, <1>4
  <2> QED
    BY <1>2, <2>1 DEF Work
<1> QED
  BY <1>1, <1>3, <1>4

\* The calls and bytes of an end whose call is where it was.
LEMMA WorkKept ==
    ASSUME NEW f \in Ends, conversation' = conversation, call'[f] = call[f]
    PROVE  /\ begun'[f] = begun[f] => CallWork(f)' = CallWork(f)
           /\ have'[f] = have[f] => Unsent(f)' = Unsent(f)
<1>1. begun'[f] = begun[f] => CallWork(f)' = CallWork(f)
  BY DEF CallWork
<1>2. have'[f] = have[f] => Unsent(f)' = Unsent(f)
  BY DEF Unsent, Sent
<1> QED
  BY <1>1, <1>2

\* The bytes of a writer that nobody moved.
LEMMA BytesKept ==
    ASSUME NEW f \in Ends, Unsent(f)' = Unsent(f), out'[f] = out[f],
           wire'[Other(f)] = wire[Other(f)], ahead'[Other(f)] = ahead[Other(f)]
    PROVE  ByteWork(f)' = ByteWork(f)
  BY DEF ByteWork

\* Reading ahead is work done.
LEMMA FillIsWork ==
    ASSUME LiveInv, NEW e \in Ends, Fill(e)
    PROVE  Work' < Work
<1> DEFINE o == Other(e)
           most == IF buffering = "unbuffered" THEN LEN(e) - have[e] ELSE BufferSize
<1>1. /\ UNCHANGED <<conversation, buffering, call, have, begun, out, data, total, alive>>
      /\ ahead[e] = <<>>
  BY DEF Fill, progress
<1>2. PICK n \in 1 .. Min({Len(wire[e]), most}) :
         /\ ahead' = [ahead EXCEPT ![e] = FirstBytes(wire[e], n)]
         /\ wire'  = [wire EXCEPT ![e] = Without(@, n)]
  BY DEF Fill
<1>3. /\ o \in Ends /\ o # e /\ Other(o) = e /\ NetInv
      /\ wire[e] \in Seq(Bytes) /\ wire \in [Ends -> Seq(Bytes)]
      /\ ahead \in [Ends -> Seq(Bytes)]
  BY TheOther DEF LiveInv, NetInv, Shapes
<1>4. n \in 0 .. Len(wire[e]) /\ n \in Nat \ {0}
  <2>1. most \in Int
    <3>1. /\ Receiving(e) /\ conversation \in Seq(Messages) /\ Len(conversation) \in Nat
          /\ call[e] \in Nat \ {0} /\ have[e] \in Nat
      <4>1. Shapes
        BY <1>3 DEF NetInv
      <4> QED
        BY <4>1 DEF Fill, Shapes
    <3>2. call[e] \in 1 .. Len(conversation)
      BY <3>1 DEF Receiving, Finished
    <3>3. LEN(e) \in Nat
      BY <3>1, <3>2, ElementOfMessages DEF LEN
    <3> QED
      BY <3>1, <3>3, SizesAssumption
  <2>2. Len(wire[e]) \in Int
    BY <1>3
  <2> HIDE DEF most
  <2>3. Min({Len(wire[e]), most}) \in Int /\ Min({Len(wire[e]), most}) <= Len(wire[e])
    BY <2>1, <2>2, MinOfTwo
  <2> QED
    BY <2>2, <2>3
<1> HIDE DEF most, o
<1>5. /\ Len(ahead'[e]) = n /\ Len(wire'[e]) = Len(wire[e]) - n
      /\ wire'[o] = wire[o] /\ ahead'[o] = ahead[o] /\ Len(ahead[e]) = 0
  <2>1. ahead'[e] = FirstBytes(wire[e], n) /\ wire'[e] = Without(wire[e], n)
        /\ wire'[o] = wire[o] /\ ahead'[o] = ahead[o]
    BY <1>2, <1>3
  <2>2. Len(FirstBytes(wire[e], n)) = n /\ Len(Without(wire[e], n)) = Len(wire[e]) - n
    BY <1>3, <1>4, Pieces
  <2>3. Len(<<>>) = 0
    OBVIOUS
  <2> QED
    BY <1>1, <2>1, <2>2, <2>3
<1>6. \A f \in Ends : CallWork(f)' = CallWork(f) /\ Unsent(f)' = Unsent(f)
  BY <1>1, WorkKept
<1>7. ByteWork(e)' = ByteWork(e) - 0
  <2>1. ByteWork(e)' = ByteWork(e)
    BY <1>1, <1>3, <1>5, <1>6, BytesKept DEF o
  <2> QED
    BY <1>3, <2>1, WorkParts
<1>8. ByteWork(o)' = ByteWork(o) - n
  <2> DEFINE x == Len(out[o])
             y == Len(wire[e])
             u == Unsent(o)
  <2>1. x \in Nat /\ y \in Nat /\ u \in Nat /\ n \in Nat
    BY <1>3, <1>4, Numbers
  <2>2. ByteWork(o) = 4 * u + 3 * x + 2 * y + 0
    BY <1>3, <1>5 DEF ByteWork
  <2>3. ByteWork(o)' = 4 * u + 3 * x + 2 * (y - n) + n
    BY <1>1, <1>3, <1>5, <1>6 DEF ByteWork
  <2> HIDE DEF x, y, u
  <2> QED
    BY <2>1, <2>2, <2>3
<1>9. CallWork(e)' = CallWork(e) - 0 /\ CallWork(o)' = CallWork(o)
      /\ Cardinality(alive)' = Cardinality(alive) - 0
  BY <1>1, <1>3, <1>6, WorkParts
<1> QED
  BY <1>3, <1>4, <1>7, <1>8, <1>9, LessWork DEF o

\* So is taking what was read ahead.
LEMMA ReadIsWork ==
    ASSUME LiveInv, NEW e \in Ends, Read(e)
    PROVE  Work' < Work
<1> DEFINE o == Other(e)
           n == Min({Len(ahead[e]), LEN(e) - have[e]})
<1>1. /\ UNCHANGED <<conversation, buffering, call, begun, out, wire, total, alive>>
      /\ have' = [have EXCEPT ![e] = @ + n] /\ ahead' = [ahead EXCEPT ![e] = Without(@, n)]
      /\ Receiving(e) /\ have[e] < LEN(e) /\ ahead[e] # <<>>
  BY DEF Read
<1>2. /\ o \in Ends /\ o # e /\ Other(o) = e /\ NetInv /\ Shapes
      /\ ahead[e] \in Seq(Bytes) /\ ahead \in [Ends -> Seq(Bytes)] /\ have \in [Ends -> Nat]
  BY TheOther DEF LiveInv, NetInv, Shapes
<1>3. /\ conversation \in Seq(Messages) /\ call[e] \in 1 .. Len(conversation)
      /\ conversation[call[e]].from = o /\ LEN(e) \in Nat
  <2>1. /\ conversation \in Seq(Messages) /\ Len(conversation) \in Nat
        /\ call[e] \in Nat \ {0}
    BY <1>2 DEF Shapes
  <2>2. call[e] \in 1 .. Len(conversation)
    BY <1>1, <2>1 DEF Receiving, Finished
  <2>3. LEN(e) \in Nat /\ conversation[call[e]].from \in Ends
    BY <2>1, <2>2, ElementOfMessages DEF LEN
  <2> QED
    BY <1>1, <2>1, <2>2, <2>3, TheOther DEF Receiving
<1>4. n \in 0 .. Len(ahead[e]) /\ n \in Nat \ {0}
  <2> DEFINE x == Len(ahead[e])
             y == LEN(e) - have[e]
  <2>1. x \in Nat \ {0} /\ y \in Nat \ {0}
    <3>1. Len(ahead[e]) \in Nat /\ Len(ahead[e]) # 0
      BY <1>1, <1>2
    <3> QED
      BY <1>1, <1>2, <1>3, <3>1
  <2> HIDE DEF x, y
  <2>2. n = IF x <= y THEN x ELSE y
    BY <2>1, MinOfTwo DEF x, y
  <2> HIDE DEF n
  <2> QED
    BY <2>1, <2>2 DEF x
<1> HIDE DEF n, o
<1>5. /\ Len(ahead'[e]) = Len(ahead[e]) - n /\ ahead'[o] = ahead[o] /\ have'[o] = have[o]
  <2>1. ahead'[e] = Without(ahead[e], n) /\ ahead'[o] = ahead[o] /\ have'[o] = have[o]
    BY <1>1, <1>2
  <2> QED
    BY <1>2, <1>4, <2>1, Pieces
<1>6. \A f \in Ends : CallWork(f)' = CallWork(f)
  BY <1>1, WorkKept
<1>7. Unsent(o)' = Unsent(o) /\ Unsent(e)' = Unsent(e)
  <2>1. Unsent(o)' = Unsent(o)
    BY <1>1, <1>2, <1>5, WorkKept
  <2>2. \A k : Rank(conversation, e, call[e], k) = Rank(conversation, e, call[e] + 1, 0)
    BY <1>2, <1>3, RankNext
  <2>3. Unsent(e)' = Unsent(e)
    BY <1>1, <2>2 DEF Unsent, Sent
  <2> QED
    BY <2>1, <2>3
<1>8. ByteWork(e)' = ByteWork(e) - 0
  <2>1. ByteWork(e)' = ByteWork(e)
    BY <1>1, <1>2, <1>5, <1>7, BytesKept DEF o
  <2> QED
    BY <1>2, <2>1, WorkParts
<1>9. ByteWork(o)' = ByteWork(o) - n
  <2> DEFINE x == Len(out[o])
             y == Len(wire[e])
             z == Len(ahead[e])
             u == Unsent(o)
  <2>1. x \in Nat /\ y \in Nat /\ z \in Nat /\ u \in Nat /\ n \in Nat
    BY <1>2, <1>4, Numbers
  <2>2. ByteWork(o) = 4 * u + 3 * x + 2 * y + z
    BY <1>2 DEF ByteWork
  <2>3. ByteWork(o)' = 4 * u + 3 * x + 2 * y + (z - n)
    BY <1>1, <1>2, <1>5, <1>7 DEF ByteWork
  <2> HIDE DEF x, y, z, u
  <2> QED
    BY <2>1, <2>2, <2>3
<1>10. CallWork(e)' = CallWork(e) - 0 /\ CallWork(o)' = CallWork(o)
       /\ Cardinality(alive)' = Cardinality(alive) - 0
  BY <1>1, <1>2, <1>6, WorkParts
<1> QED
  BY <1>2, <1>4, <1>8, <1>9, <1>10, LessWork DEF o

\* What the library passes on, or what is lost with it, is less work by as much at least.
LEMMA PassedOn ==
    ASSUME NetInv, NEW e \in Ends, NEW n \in 0 .. Len(out[e]),
           Unsent(e)' = Unsent(e), Unsent(Other(e))' = Unsent(Other(e)), ahead' = ahead,
           Len(out'[e]) = Len(out[e]) - n, out'[Other(e)] = out[Other(e)],
           wire'[e] = wire[e],
           wire' = wire \/ Len(wire'[Other(e)]) = Len(wire[Other(e)]) + n
    PROVE  /\ \E a \in Nat : a >= n /\ ByteWork(e)' = ByteWork(e) - a
           /\ ByteWork(Other(e))' = ByteWork(Other(e)) - 0
<1> DEFINE o == Other(e)
<1>1. o \in Ends /\ o # e /\ Other(o) = e
  BY TheOther
<1>2. ByteWork(o)' = ByteWork(o) - 0
  <2>1. ByteWork(o)' = ByteWork(o)
    BY <1>1, BytesKept
  <2> QED
    BY <1>1, <2>1, WorkParts
<1> DEFINE x == Len(out[e])
           y == Len(wire[o])
           z == Len(ahead[o])
           u == Unsent(e)
<1>3. x \in Nat /\ y \in Nat /\ z \in Nat /\ u \in Nat /\ n \in Nat
  <2>1. n \in Nat
    OBVIOUS
  <2> QED
    BY <1>1, <2>1, Numbers
<1>4. ByteWork(e) = 4 * u + 3 * x + 2 * y + z
  BY DEF ByteWork
<1>5. ByteWork(e)' = 4 * u + 3 * (x - n) + 2 * Len(wire'[o]) + z
  BY DEF ByteWork
<1>6. CASE Len(wire'[o]) = y + n
  <2> HIDE DEF x, y, z, u
  <2>1. ByteWork(e)' = ByteWork(e) - n
    BY <1>3, <1>4, <1>5, <1>6
  <2> QED
    BY <1>2, <1>3, <2>1 DEF o
<1>7. CASE Len(wire'[o]) = y
  <2> HIDE DEF x, y, z, u
  <2>1. ByteWork(e)' = ByteWork(e) - 3 * n /\ 3 * n \in Nat /\ 3 * n >= n
    BY <1>3, <1>4, <1>5, <1>7
  <2> QED
    BY <1>2, <2>1 DEF o
<1> QED
  BY <1>6, <1>7

\* A flush adds no work.
LEMMA FlushIsWork ==
    ASSUME NetInv, NEW e \in Ends, Flush(e), ahead' = ahead,
           Unsent(e)' = Unsent(e), Unsent(Other(e))' = Unsent(Other(e))
    PROVE  /\ \E a \in Nat : ByteWork(e)' = ByteWork(e) - a
           /\ ByteWork(Other(e))' = ByteWork(Other(e)) - 0
<1> DEFINE o == Other(e)
           n == Len(out[e])
<1>1. /\ o \in Ends /\ o # e /\ out \in [Ends -> Seq(Bytes)] /\ wire \in [Ends -> Seq(Bytes)]
      /\ out[e] \in Seq(Bytes) /\ wire[o] \in Seq(Bytes)
  BY TheOther DEF NetInv, Shapes
<1> HIDE DEF o
<1>2. n \in Nat /\ n \in 0 .. Len(out[e]) /\ Len(<<>>) = 0
  BY <1>1
<1>3. /\ out'[e] = <<>> /\ out'[o] = out[o] /\ wire'[e] = wire[e]
      /\ wire' = wire \/ wire'[o] = wire[o] \o out[e]
  BY <1>1 DEF Flush, o
<1>4. Len(wire[o] \o out[e]) = Len(wire[o]) + n
  BY <1>1, Joins
<1>5. Len(out'[e]) = Len(out[e]) - n
  BY <1>2, <1>3
<1>6. wire' = wire \/ Len(wire'[o]) = Len(wire[o]) + n
  BY <1>3, <1>4
<1> HIDE DEF n
<1> QED
  BY <1>2, <1>3, <1>5, <1>6, PassedOn DEF o

\* To write some of what is held is work done.
LEMMA WriteOutIsWork ==
    ASSUME LiveInv, NEW e \in Ends, WriteOut(e)
    PROVE  Work' < Work
<1> DEFINE o == Other(e)
<1>1. /\ UNCHANGED <<conversation, buffering, call, have, begun, ahead, data, total, alive>>
      /\ NetInv
  BY DEF WriteOut, progress, LiveInv
<1>2. PICK n \in 1 .. Len(out[e]) :
         /\ out'  = [out EXCEPT ![e] = Without(@, n)]
         /\ wire' = IF o \in alive
                    THEN [wire EXCEPT ![o] = @ \o FirstBytes(out[e], n)] ELSE wire
  BY DEF WriteOut
<1>3. /\ o \in Ends /\ o # e /\ out \in [Ends -> Seq(Bytes)] /\ wire \in [Ends -> Seq(Bytes)]
      /\ out[e] \in Seq(Bytes) /\ wire[o] \in Seq(Bytes)
  BY <1>1, TheOther DEF NetInv, Shapes
<1> HIDE DEF o
<1>4. n \in 0 .. Len(out[e]) /\ n \in Nat \ {0}
  BY <1>3
<1>5. /\ FirstBytes(out[e], n) \in Seq(Bytes) /\ Len(FirstBytes(out[e], n)) = n
      /\ Len(Without(out[e], n)) = Len(out[e]) - n
  BY <1>3, <1>4, Pieces
<1>6. /\ Len(out'[e]) = Len(out[e]) - n /\ out'[o] = out[o] /\ wire'[e] = wire[e]
      /\ wire' = wire \/ wire'[o] = wire[o] \o FirstBytes(out[e], n)
  BY <1>2, <1>3, <1>5
<1>7. wire' = wire \/ Len(wire'[o]) = Len(wire[o]) + n
  <2>1. Len(wire[o] \o FirstBytes(out[e], n)) = Len(wire[o]) + n
    BY <1>3, <1>5, Joins
  <2> QED
    BY <1>6, <2>1
<1>8. \A f \in Ends : CallWork(f)' = CallWork(f) /\ Unsent(f)' = Unsent(f)
  BY <1>1, WorkKept
<1>9. PICK a \in Nat : /\ a >= n /\ ByteWork(e)' = ByteWork(e) - a
                       /\ ByteWork(o)' = ByteWork(o) - 0
  BY <1>1, <1>3, <1>4, <1>6, <1>7, <1>8, PassedOn DEF o
<1>10. CallWork(e)' = CallWork(e) - 0 /\ CallWork(o)' = CallWork(o)
       /\ Cardinality(alive)' = Cardinality(alive) - 0
  BY <1>1, <1>3, <1>8, WorkParts
<1>11. a + 0 + 0 + 0 > 0
  BY <1>4, <1>9
<1> QED
  BY <1>1, <1>9, <1>10, <1>11, LessWork DEF o

\* So is to begin a call.
LEMMA BeginReceiveIsWork ==
    ASSUME LiveInv, NEW e \in Ends, BeginReceive(e)
    PROVE  Work' < Work
<1> DEFINE o == Other(e)
<1>1. /\ Flush(e) /\ UNCHANGED <<conversation, buffering, call, have, ahead, data, total, alive>>
      /\ begun' = [begun EXCEPT ![e] = TRUE] /\ ~begun[e] /\ NetInv
      /\ begun \in [Ends -> BOOLEAN] /\ o \in Ends /\ o # e
  BY TheOther DEF BeginReceive, LiveInv
<1>2. \A f \in Ends : Unsent(f)' = Unsent(f)
  BY <1>1, WorkKept
<1>3. PICK a \in Nat : ByteWork(e)' = ByteWork(e) - a /\ ByteWork(o)' = ByteWork(o) - 0
  BY <1>1, <1>2, FlushIsWork
<1>4. begun'[e] = TRUE /\ begun'[o] = begun[o]
  BY <1>1
<1>5. CallWork(o)' = CallWork(o)
  BY <1>1, <1>4, WorkKept
<1>6. CallWork(e)' = CallWork(e) - 1
  <2> DEFINE i == call[e]
             l == Len(conversation)
  <2>1. i \in Nat /\ l \in Nat
    BY <1>1, Numbers
  <2>2. CallWork(e) = 2 * (l + 1 - i) + 1 /\ CallWork(e)' = 2 * (l + 1 - i) + 0
    BY <1>1, <1>4 DEF CallWork
  <2> HIDE DEF i, l
  <2> QED
    BY <2>1, <2>2
<1>7. Cardinality(alive)' = Cardinality(alive) - 0
  BY <1>1, WorkParts
<1>8. a + 0 + 1 + 0 > 0
  OBVIOUS
<1> HIDE DEF o
<1> QED
  BY <1>1, <1>3, <1>5, <1>6, <1>7, <1>8, LessWork DEF o

\* A call that returns is less work.
LEMMA ReturnIsWork ==
    ASSUME LiveInv, NEW e \in Ends, Returned(e), conversation' = conversation,
           ~Finished(e), have[e] = LEN(e)
    PROVE  /\ \E d \in Nat : d > 0 /\ CallWork(e)' = CallWork(e) - d
           /\ CallWork(Other(e))' = CallWork(Other(e))
           /\ \A f \in Ends : Unsent(f)' = Unsent(f)
<1> DEFINE o == Other(e)
<1>1. /\ NetInv /\ o \in Ends /\ o # e /\ begun \in [Ends -> BOOLEAN]
      /\ begun' = [begun EXCEPT ![e] = FALSE]
  BY TheOther DEF LiveInv, Returned
<1>2. /\ call'[e] = call[e] + 1 /\ call'[o] = call[o]
      /\ \A f \in Ends : Sent(f)' = Sent(f)
  BY <1>1, Moves
<1>3. begun'[e] = FALSE /\ begun'[o] = begun[o]
  BY <1>1
<1>4. CallWork(o)' = CallWork(o)
  BY <1>1, <1>2, <1>3, WorkKept
<1>5. \A f \in Ends : Unsent(f)' = Unsent(f)
  BY <1>2 DEF Unsent
<1>6. \E d \in Nat : d > 0 /\ CallWork(e)' = CallWork(e) - d
  <2> DEFINE i == call[e]
             l == Len(conversation)
             b == IF begun[e] THEN 0 ELSE 1
  <2>1. i \in Nat /\ l \in Nat /\ b \in {0, 1}
    BY <1>1, Numbers
  <2>2. CallWork(e) = 2 * (l + 1 - i) + b /\ CallWork(e)' = 2 * (l + 1 - (i + 1)) + 1
    BY <1>2, <1>3 DEF CallWork
  <2> HIDE DEF i, l, b
  <2>3. CallWork(e)' = CallWork(e) - (1 + b) /\ 1 + b \in Nat /\ 1 + b > 0
    BY <2>1, <2>2
  <2> QED
    BY <2>3
<1> QED
  BY <1>4, <1>5, <1>6

\* A call that sends returns once.
LEMMA FinishSendIsWork ==
    ASSUME LiveInv, NEW e \in Ends, FinishSend(e)
    PROVE  Work' < Work
<1> DEFINE o == Other(e)
<1>1. /\ UNCHANGED <<conversation, ahead, alive>>
      /\ AfterLoop(e) /\ Returned(e) /\ ~Finished(e) /\ have[e] = LEN(e) /\ NetInv
      /\ o \in Ends
  BY TheOther DEF FinishSend, Sending, LiveInv
<1>2. PICK d \in Nat : /\ d > 0 /\ CallWork(e)' = CallWork(e) - d
                       /\ CallWork(o)' = CallWork(o)
                       /\ \A f \in Ends : Unsent(f)' = Unsent(f)
  BY <1>1, ReturnIsWork
<1>3. PICK a \in Nat : ByteWork(e)' = ByteWork(e) - a /\ ByteWork(o)' = ByteWork(o) - 0
  <2>1. CASE Flush(e)
    BY <1>1, <1>2, <2>1, FlushIsWork
  <2>2. CASE UNCHANGED <<out, wire>>
    <3>1. \A f \in Ends : ByteWork(f)' = ByteWork(f)
      BY <1>1, <1>2, <2>2, BytesKept
    <3>2. ByteWork(e)' = ByteWork(e) - 0 /\ ByteWork(o)' = ByteWork(o) - 0
      BY <1>1, <3>1, WorkParts
    <3> QED
      BY <3>2
  <2> QED
    BY <1>1, <2>1, <2>2 DEF AfterLoop
<1>4. Cardinality(alive)' = Cardinality(alive) - 0
  BY <1>1, WorkParts
<1>5. a + 0 + d + 0 > 0
  BY <1>2
<1> HIDE DEF o
<1> QED
  BY <1>1, <1>2, <1>3, <1>4, <1>5, LessWork DEF o

\* So does a call that receives.
LEMMA FinishReceiveIsWork ==
    ASSUME LiveInv, NEW e \in Ends, FinishReceive(e)
    PROVE  Work' < Work
<1> DEFINE o == Other(e)
<1>1. /\ UNCHANGED <<conversation, out, wire, ahead, alive>>
      /\ Returned(e) /\ ~Finished(e) /\ have[e] = LEN(e) /\ NetInv /\ o \in Ends
  BY TheOther DEF FinishReceive, Receiving, Whole, LiveInv
<1>2. PICK d \in Nat : /\ d > 0 /\ CallWork(e)' = CallWork(e) - d
                       /\ CallWork(o)' = CallWork(o)
                       /\ \A f \in Ends : Unsent(f)' = Unsent(f)
  BY <1>1, ReturnIsWork
<1>3. \A f \in Ends : ByteWork(f)' = ByteWork(f)
  BY <1>1, <1>2, BytesKept
<1>4. /\ ByteWork(e)' = ByteWork(e) - 0 /\ ByteWork(o)' = ByteWork(o) - 0
      /\ Cardinality(alive)' = Cardinality(alive) - 0
  BY <1>1, <1>3, WorkParts
<1>5. 0 + 0 + d + 0 > 0
  BY <1>2
<1> HIDE DEF o
<1> QED
  BY <1>1, <1>2, <1>4, <1>5, LessWork DEF o

\* One end is less when one dies.
LEMMA OneLess ==
    ASSUME NetInv, NEW e \in alive, alive' = alive \ {e}
    PROVE  Cardinality(alive)' = Cardinality(alive) - 1
<1>1. IsFiniteSet(alive)
  BY WorkParts
<1> QED
  BY <1>1, FS_RemoveElement

\* What died does not die again.
LEMMA DeathIsWork ==
    ASSUME LiveInv, NEW e \in Ends, Die(e) \/ BrokenPipe(e)
    PROVE  Work' < Work
<1> DEFINE o == Other(e)
<1>1. /\ UNCHANGED <<conversation, call, begun, have, ahead>>
      /\ alive' = alive \ {e} /\ e \in alive /\ NetInv /\ o \in Ends /\ o # e
  BY TheOther DEF Die, BrokenPipe, Sending, LiveInv, progress
<1>2. \A f \in Ends : CallWork(f)' = CallWork(f) /\ Unsent(f)' = Unsent(f)
  BY <1>1, WorkKept
<1>3. PICK a \in Nat : ByteWork(e)' = ByteWork(e) - a /\ ByteWork(o)' = ByteWork(o) - 0
  <2>1. CASE Flush(e)
    BY <1>1, <1>2, <2>1, FlushIsWork
  <2>2. CASE out' = [out EXCEPT ![e] = <<>>] /\ wire' = wire
    <3> DEFINE n == Len(out[e])
    <3>1. out \in [Ends -> Seq(Bytes)] /\ out[e] \in Seq(Bytes)
      BY <1>1 DEF NetInv, Shapes
    <3>2. n \in 0 .. Len(out[e]) /\ Len(<<>>) = 0 /\ n \in Nat
      BY <3>1
    <3>3. out'[e] = <<>> /\ out'[o] = out[o]
      BY <1>1, <2>2, <3>1
    <3>4. Len(out'[e]) = Len(out[e]) - n
      BY <3>2, <3>3
    <3> HIDE DEF n
    <3> QED
      BY <1>1, <1>2, <2>2, <3>2, <3>3, <3>4, PassedOn
  <2>3. CASE BrokenPipe(e)
    <3>1. \A f \in Ends : ByteWork(f)' = ByteWork(f)
      BY <1>1, <1>2, <2>3, BytesKept DEF BrokenPipe
    <3>2. ByteWork(e)' = ByteWork(e) - 0 /\ ByteWork(o)' = ByteWork(o) - 0
      BY <1>1, <3>1, WorkParts
    <3> QED
      BY <3>2
  <2> QED
    BY <2>1, <2>2, <2>3 DEF Die
<1>4. CallWork(e)' = CallWork(e) - 0 /\ CallWork(o)' = CallWork(o)
  BY <1>1, <1>2, WorkParts
<1>5. Cardinality(alive)' = Cardinality(alive) - 1
  BY <1>1, OneLess
<1>6. a + 0 + 0 + 1 > 0
  OBVIOUS
<1> HIDE DEF o
<1> QED
  BY <1>1, <1>3, <1>4, <1>5, <1>6, LessWork DEF o

\* What is written is not written again.
LEMMA WriteIsWork ==
    ASSUME LiveInv, NEW e \in Ends, Write(e)
    PROVE  Work' < Work
<1> DEFINE o == Other(e)
           c == conversation
           i == call[e]
<1>1. /\ UNCHANGED <<conversation, buffering, call, begun, alive>> /\ NetInv
      /\ ~Finished(e) /\ c[i].from = e
      /\ ahead' = [ahead EXCEPT ![e] = <<>>] /\ ahead[e] = <<>>
  BY DEF Write, Sending, LiveInv, NetInv, Held
<1>2. PICK n \in 1 .. LEN(e) - have[e] :
         /\ have' = [have EXCEPT ![e] = @ + n]
         /\ \/ /\ wire' = [wire EXCEPT ![o] = @ \o NextBytes(e, n)] \/ wire' = wire
               /\ out' = out
            \/ /\ out' = [out EXCEPT ![e] = @ \o NextBytes(e, n)]
               /\ wire' = wire
  BY DEF Write
<1>3. /\ o \in Ends /\ o # e /\ Other(o) = e /\ Shapes
      /\ out \in [Ends -> Seq(Bytes)] /\ wire \in [Ends -> Seq(Bytes)]
      /\ out[e] \in Seq(Bytes) /\ wire[o] \in Seq(Bytes)
      /\ ahead \in [Ends -> Seq(Bytes)] /\ have \in [Ends -> Nat]
  BY <1>1, TheOther DEF NetInv, Shapes
<1>4. /\ c \in Seq(Messages) /\ i \in 1 .. Len(c) /\ LEN(e) \in Nat /\ c[i].from = e
      /\ LEN(e) = c[i].length /\ have[e] \in Nat
  <2>1. c \in Seq(Messages) /\ Len(c) \in Nat /\ i \in Nat \ {0} /\ have[e] \in Nat
    BY <1>3 DEF Shapes
  <2>2. i \in 1 .. Len(c)
    BY <1>1, <2>1 DEF Finished
  <2>3. LEN(e) \in Nat
    BY <2>1, <2>2, ElementOfMessages DEF LEN
  <2> QED
    BY <1>1, <2>1, <2>2, <2>3 DEF LEN
<1>5. n \in Nat \ {0} /\ n \in Nat /\ have[e] + n <= c[i].length
  BY <1>4
<1> DEFINE t == NextBytes(e, n)
<1>6. t \in Seq(Bytes) /\ Len(t) = n
  BY <1>3, <1>5, NextBytesAre
<1> HIDE DEF t, o
<1>7. /\ have'[e] = have[e] + n /\ have'[o] = have[o]
      /\ ahead'[e] = ahead[e] /\ ahead'[o] = ahead[o]
  BY <1>1, <1>2, <1>3
<1>8. Unsent(o)' = Unsent(o) /\ Unsent(e)' = Unsent(e) - n
  <2>1. Unsent(o)' = Unsent(o)
    BY <1>1, <1>3, <1>7, WorkKept
  <2> DEFINE h == have[e]
  <2>2. h \in Nat /\ n \in Nat /\ h + n <= c[i].length
        /\ c \in Seq(Messages) /\ i \in 1 .. Len(c) /\ c[i].from = e
    BY <1>4, <1>5
  <2>3. Sent(e) = Rank(c, e, i, h) /\ Sent(e)' = Rank(c, e, i, h + n)
    BY <1>1, <1>7 DEF Sent
  <2>4. Rank(c, e, i, h + n) = Rank(c, e, i, h) + n
    <3> HIDE DEF h, c, i
    <3> QED
      BY <2>2, RankMore
  <2>5. Sent(e)' = Sent(e) + n
    BY <2>3, <2>4
  <2>6. Unsent(e)' = Unsent(e) - n
    <3> DEFINE w == Cardinality(BytesOf(c, e))
    <3>1. Unsent(e) = w - Sent(e) /\ Unsent(e)' = w - Sent(e)'
      BY <1>1 DEF Unsent
    <3>2. w \in Nat /\ Sent(e) \in Nat
      BY <1>1, Numbers
    <3> HIDE DEF w
    <3> QED
      BY <1>5, <2>5, <3>1, <3>2
  <2> QED
    BY <2>1, <2>6
<1>9. ByteWork(o)' = ByteWork(o) - 0
  <2>1. out'[o] = out[o] /\ wire'[e] = wire[e]
    BY <1>2, <1>3
  <2>2. ByteWork(o)' = ByteWork(o)
    BY <1>3, <1>7, <1>8, <2>1, BytesKept
  <2> QED
    BY <1>1, <1>3, <2>2, WorkParts
<1>10. \/ Len(out'[e]) = Len(out[e]) /\ Len(wire'[o]) = Len(wire[o])
       \/ Len(out'[e]) = Len(out[e]) /\ Len(wire'[o]) = Len(wire[o]) + n
       \/ Len(out'[e]) = Len(out[e]) + n /\ Len(wire'[o]) = Len(wire[o])
  <2>1. Len(wire[o] \o t) = Len(wire[o]) + n /\ Len(out[e] \o t) = Len(out[e]) + n
    BY <1>3, <1>6, Joins
  <2>2. \/ wire' = [wire EXCEPT ![o] = @ \o t] /\ out' = out
        \/ wire' = wire /\ out' = out
        \/ wire' = wire /\ out' = [out EXCEPT ![e] = @ \o t]
    BY <1>2 DEF t, o
  <2>3. \/ wire'[o] = wire[o] \o t /\ out'[e] = out[e]
        \/ wire'[o] = wire[o] /\ out'[e] = out[e]
        \/ wire'[o] = wire[o] /\ out'[e] = out[e] \o t
    BY <1>3, <2>2
  <2> QED
    BY <2>1, <2>3
<1>11. \E a \in Nat : a > 0 /\ ByteWork(e)' = ByteWork(e) - a
  <2> DEFINE x == Len(out[e])
             y == Len(wire[o])
             z == Len(ahead[o])
             u == Unsent(e)
  <2>1. x \in Nat /\ y \in Nat /\ z \in Nat /\ u \in Nat
    BY <1>1, <1>3, Numbers
  <2>2. ByteWork(e) = 4 * u + 3 * x + 2 * y + z
    BY DEF ByteWork, o
  <2>3. ByteWork(e)' = 4 * (u - n) + 3 * Len(out'[e]) + 2 * Len(wire'[o]) + z
    BY <1>7, <1>8 DEF ByteWork, o
  <2>4. \/ ByteWork(e)' = 4 * (u - n) + 3 * x + 2 * y + z
        \/ ByteWork(e)' = 4 * (u - n) + 3 * x + 2 * (y + n) + z
        \/ ByteWork(e)' = 4 * (u - n) + 3 * (x + n) + 2 * y + z
    BY <1>10, <2>3
  <2> HIDE DEF x, y, z, u
  <2>5. \/ ByteWork(e)' = ByteWork(e) - 4 * n
        \/ ByteWork(e)' = ByteWork(e) - 2 * n
        \/ ByteWork(e)' = ByteWork(e) - n
    BY <1>5, <2>1, <2>2, <2>4
  <2>6. /\ n \in Nat /\ n > 0 /\ 2 * n \in Nat /\ 2 * n > 0
        /\ 4 * n \in Nat /\ 4 * n > 0
    BY <1>5
  <2> QED
    BY <2>5, <2>6
<1>12. PICK a \in Nat : a > 0 /\ ByteWork(e)' = ByteWork(e) - a
  BY <1>11
<1>13. CallWork(e)' = CallWork(e) - 0 /\ CallWork(o)' = CallWork(o)
       /\ Cardinality(alive)' = Cardinality(alive) - 0
  <2>1. \A f \in Ends : CallWork(f)' = CallWork(f)
    BY <1>1, WorkKept
  <2> QED
    BY <1>1, <1>3, <2>1, WorkParts
<1>14. a + 0 + 0 + 0 > 0
  BY <1>12
<1> QED
  BY <1>1, <1>9, <1>12, <1>13, <1>14, LessWork DEF o

\* Whatever happens on the streams leaves less to do.
LEMMA EveryStepIsWork == LiveInv /\ [Next]_vars => [Work' < Work]_vars
<1> SUFFICES ASSUME LiveInv, NEW e \in Ends,
                    Go(e) \/ WriteOut(e) \/ Die(e) \/ BrokenPipe(e)
             PROVE  Work' < Work
  BY DEF Next
<1>1. CASE Go(e)
  BY <1>1, FillIsWork, WriteOutIsWork, WriteIsWork, FinishSendIsWork, BeginReceiveIsWork,
     ReadIsWork, FinishReceiveIsWork DEF Go
<1> QED
  BY <1>1, WriteOutIsWork, DeathIsWork

\* No conversation goes on for ever: there is never less than nothing to do, and every step
\* of the ends, the library or the kernel, deaths too, leaves less.  With SomeCallGoesOn: as
\* long as nobody dies both ends come to their end if running processes run.
THEOREM WorkRunsOut == Spec => [](Work \in Nat) /\ [][Work' < Work]_vars
<1>1. Spec => []LiveInv
  BY LiveInvInit, LiveInvStep, PTL DEF Spec
<1>2. LiveInv => Work \in Nat
  BY WorkIsNat DEF LiveInv
<1> QED
  BY <1>1, <1>2, EveryStepIsWork, PTL DEF Spec
=============================================================================
