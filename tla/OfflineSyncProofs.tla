--------------------------- MODULE OfflineSyncProofs ---------------------------
(***************************************************************************)
(* Theorems about OfflineSync, for every number of synchronisation runs,   *)
(* every set of operations and every bound.                                *)
(***************************************************************************)
EXTENDS OfflineSync, QueueLemmas

-----------------------------------------------------------------------------
(* The operators of the model.                                             *)

\* The number of the step that follows.
LEMMA AfterType ==
    ASSUME NEW i \in Nat
    PROVE  /\ After(i) \in 0 .. Len(SyncSteps)
           /\ After(i) # 0 => After(i) > i
  <1> DEFINE later == {j \in DOMAIN SyncSteps \ Passed : j > i}
  <1>1. DOMAIN SyncSteps = 1 .. 11 /\ Len(SyncSteps) = 11
    BY DEF SyncSteps
  <1>2. CASE later = {}
    BY <1>1, <1>2 DEF After
  <1>3. CASE later # {}
    <2>1. later \subseteq 1 .. 11 /\ \A j \in later : j > i
      BY <1>1
    <2> HIDE DEF later
    <2> DEFINE Least == \E j \in later : \A k \in later : j =< k
    <2>2. ASSUME NEW n \in 1 .. 4, n \in later PROVE Least
      BY <2>1, <2>2
    <2>3. ASSUME NEW n \in 5 .. 8, n \in later PROVE Least
      BY <2>1, <2>2, <2>3
    <2>4. ASSUME NEW n \in 9 .. 11, n \in later PROVE Least
      BY <2>1, <2>2, <2>3, <2>4
    <2>5. Least
      <3>1. PICK n \in later : n \in 1 .. 11
        BY <1>3, <2>1
      <3>2. n \in 1 .. 4 \/ n \in 5 .. 8 \/ n \in 9 .. 11
        BY <3>1
      <3> HIDE DEF Least
      <3> QED
        BY <2>2, <2>3, <2>4, <3>2
    <2>6. Min(later) \in later
      BY <2>5 DEF Min
    <2>7. After(i) = Min(later)
      BY <1>3 DEF After, later
    <2>8. Min(later) \in 1 .. 11 /\ Min(later) > i
      BY <2>1, <2>6
    <2> HIDE DEF later
    <2> QED
      BY <1>1, <2>7, <2>8
  <1> QED
    BY <1>2, <1>3

\* Where a run goes on.
LEMMA ForwardType ==
    ASSUME run \in [Runs -> 0 .. Len(SyncSteps)], NEW r \in Runs, run[r] # 0,
           NEW n \in {1, 2}, Forward(r, n)
    PROVE  /\ run' \in [Runs -> 0 .. Len(SyncSteps)]
           /\ \A s \in Runs : s # r => run'[s] = run[s]
           /\ run'[r] = 2 => run[r] = 1 /\ n = 1
  <1>1. Len(SyncSteps) = 11
    BY DEF SyncSteps
  <1>2. run[r] \in 1 .. 11
    BY <1>1
  <1>3. run[r] + n - 1 \in Nat
    BY <1>2
  <1> DEFINE a == After(run[r] + n - 1)
  <1>4. a \in 0 .. 11 /\ (a # 0 => a > run[r] + n - 1)
    BY <1>1, <1>3, AfterType
  <1>5. run' = [run EXCEPT ![r] = a]
    BY DEF Forward
  <1> HIDE DEF a
  <1>6. run'[r] = a
    BY <1>5
  <1>7. a = 2 => run[r] = 1 /\ n = 1
    BY <1>2, <1>4
  <1> QED
    BY <1>1, <1>4, <1>5, <1>6, <1>7

\* The queue of an operation.
LEMMA QueueOfType ==
    ASSUME NEW op \in Ops
    PROVE  /\ QueueOf(op) \in Queues /\ EventOf(op) \in Queues
           /\ op # "archive" => QueueOf(op) # "archives"
  BY OpsAssumption DEF QueueOf, EventOf, Queues, AllOps

\* The entries of a queue.
LEMMA EntriesType ==
    ASSUME TypeOK, NEW k \in Queues
    PROVE  Entries(k) \subseteq Numbers /\ queue[k] \in Seq(Numbers)
  BY RangeIsIn DEF TypeOK, Entries

\* A packet is a record of its parts.
LEMMA PacketType ==
    ASSUME NEW k \in Queues, NEW ns \in SUBSET Numbers, NEW a \in BOOLEAN,
           a => k \in PerElement \cup Batched
    PROVE  /\ Packet(k, ns, a) \in Packets
           /\ Packet(k, ns, a).kind = k /\ Packet(k, ns, a).ns = ns
           /\ Packet(k, ns, a).ack = a
  BY DEF Packet, Packets

\* What is sent of an operation at once asks for no Ack.
LEMMA OperatePacket ==
    ASSUME NEW op \in Ops, NEW n \in Numbers
    PROVE  /\ Packet(EventOf(op), {n}, FALSE) \in Packets
           /\ Packet(EventOf(op), {n}, FALSE).ack = FALSE
  <1>1. PICK ns \in SUBSET Numbers : ns = {n}
    OBVIOUS
  <1>2. EventOf(op) \in Queues
    BY QueueOfType
  <1> QED
    BY <1>1, <1>2, PacketType

\* One packet for each entry.
LEMMA EachOfType ==
    ASSUME TypeOK, NEW k \in Queues, NEW a \in BOOLEAN,
           a => k \in PerElement \cup Batched
    PROVE  /\ EachOf(k, a) \in Seq(Packets)
           /\ \A p \in Range(EachOf(k, a)) : p.kind = k /\ p.ack = a
           /\ \A n \in Entries(k) : \E p \in Range(EachOf(k, a)) : n \in p.ns
           /\ EachOf(k, a) = <<>> <=> queue[k] = <<>>
  <1>1. queue[k] \in Seq(Numbers)
    BY EntriesType
  <1> DEFINE q == queue[k]
             s == EachOf(k, a)
  <1>2. /\ Len(q) \in Nat /\ DOMAIN q = 1 .. Len(q)
        /\ \A i \in DOMAIN q : q[i] \in Numbers
        /\ q = <<>> <=> DOMAIN q = {}
    BY <1>1, QueueEntries
  <1>3. DOMAIN s = 1 .. Len(q) /\ \A i \in 1 .. Len(q) : s[i] = Packet(k, {q[i]}, a)
    BY DEF EachOf
  <1>4. s = [i \in 1 .. Len(q) |-> s[i]]
    BY DEF EachOf
  <1> HIDE DEF q, s
  <1>5. \A i \in 1 .. Len(q) : {q[i]} \in SUBSET Numbers
    BY <1>2
  <1>6. \A i \in 1 .. Len(q) : /\ s[i] \in Packets /\ s[i].kind = k
                               /\ s[i].ns = {q[i]} /\ s[i].ack = a
    <2> TAKE i \in 1 .. Len(q)
    <2> DEFINE ns == {q[i]}
    <2>1. ns \in SUBSET Numbers /\ s[i] = Packet(k, ns, a)
      BY <1>3, <1>5
    <2> HIDE DEF ns
    <2>2. s[i] \in Packets /\ s[i].kind = k /\ s[i].ns = ns /\ s[i].ack = a
      BY <2>1, PacketType
    <2> QED
      BY <2>2 DEF ns
  <1>7. s \in [1 .. Len(q) -> Packets]
    BY <1>3, <1>4, <1>6
  <1>8. s \in Seq(Packets)
    BY <1>2, <1>7, IsASeq
  <1>9. s = <<>> <=> q = <<>>
    BY <1>2, <1>3, <1>8, QueueEntries
  <1>10. \A p \in Range(s) : p.kind = k /\ p.ack = a
    BY <1>3, <1>6 DEF Range
  <1>11. \A n \in Range(q) : \E p \in Range(s) : n \in p.ns
    BY <1>2, <1>3, <1>6 DEF Range
  <1> QED
    BY <1>8, <1>9, <1>10, <1>11 DEF q, s, Entries

-----------------------------------------------------------------------------
(* Types.                                                                  *)

\* What the process holds in memory, and what outlasts it.
MemoryTyped ==
    /\ isRegisterIsInProcessing \in BOOLEAN /\ callRegistering \in BOOLEAN
    /\ fetching \in BOOLEAN /\ socket \in BOOLEAN
    /\ registering \in {"no", "register", "contacts"}
    /\ link \in {"down", "open", "ready"}
    /\ run \in [Runs -> 0 .. Len(SyncSteps)]
    /\ out \in Seq(Packets) /\ acks \in Seq(PerElement \cup Batched)
    /\ orphans \subseteq Queues
    /\ losses \in [disconnects : 0 .. MaxDisconnects, restarts : 0 .. MaxRestarts,
                   logouts : 0 .. MaxLogins]
LastingTyped ==
    /\ loggedIn \in BOOLEAN /\ callRegistered \in BOOLEAN
    /\ queue \in [Queues -> Seq(Numbers)]
    /\ told \subseteq Queues \X Numbers /\ put \subseteq Queues \X Numbers
    /\ asked \in Seq(Ops)
    /\ outlived \in BOOLEAN /\ early \in BOOLEAN /\ held \in BOOLEAN

LEMMA TypeParts ==
    /\ TypeOK <=> MemoryTyped /\ LastingTyped
    /\ TypeOK' <=> MemoryTyped' /\ LastingTyped'
  <1>1. TypeOK <=> MemoryTyped /\ LastingTyped
    BY DEF TypeOK, MemoryTyped, LastingTyped
  <1>2. TypeOK' <=> MemoryTyped' /\ LastingTyped'
    BY DEF TypeOK, MemoryTyped, LastingTyped
  <1> QED
    BY <1>1, <1>2

\* A count of losses goes up by one, below its bound.
LEMMA LossType ==
    ASSUME TypeOK
    PROVE  /\ losses.disconnects < MaxDisconnects =>
                 /\ [losses EXCEPT !.disconnects = @ + 1] \in
                       [disconnects : 0 .. MaxDisconnects, restarts : 0 .. MaxRestarts,
                        logouts : 0 .. MaxLogins]
                 /\ [losses EXCEPT !.disconnects = @ + 1].disconnects # 0
           /\ losses.restarts < MaxRestarts =>
                 /\ [losses EXCEPT !.restarts = @ + 1] \in
                       [disconnects : 0 .. MaxDisconnects, restarts : 0 .. MaxRestarts,
                        logouts : 0 .. MaxLogins]
                 /\ [losses EXCEPT !.restarts = @ + 1].restarts # 0
           /\ losses.logouts < MaxLogins =>
                 [losses EXCEPT !.logouts = @ + 1] \in
                       [disconnects : 0 .. MaxDisconnects, restarts : 0 .. MaxRestarts,
                        logouts : 0 .. MaxLogins]
  <1>1. /\ losses \in [disconnects : 0 .. MaxDisconnects, restarts : 0 .. MaxRestarts,
                        logouts : 0 .. MaxLogins]
        /\ losses.disconnects \in 0 .. MaxDisconnects
        /\ losses.restarts \in 0 .. MaxRestarts
        /\ losses.logouts \in 0 .. MaxLogins
    BY DEF TypeOK
  <1>2. losses.disconnects < MaxDisconnects =>
           losses.disconnects + 1 \in 0 .. MaxDisconnects /\ losses.disconnects + 1 # 0
    BY <1>1, SyncBoundsAssumption
  <1>3. losses.restarts < MaxRestarts =>
           losses.restarts + 1 \in 0 .. MaxRestarts /\ losses.restarts + 1 # 0
    BY <1>1, SyncBoundsAssumption
  <1>4. losses.logouts < MaxLogins => losses.logouts + 1 \in 0 .. MaxLogins
    BY <1>1, SyncBoundsAssumption
  <1> QED
    BY <1>1, <1>2, <1>3, <1>4

\* Nothing is left in memory at the end of the process.
LEMMA KilledType ==
    ASSUME TypeOK, losses.restarts < MaxRestarts, Killed
    PROVE  MemoryTyped'
  <1>1. Idle \in [Runs -> 0 .. Len(SyncSteps)]
    BY DEF Idle, SyncSteps
  <1>2. <<>> \in Seq(Packets) /\ <<>> \in Seq(PerElement \cup Batched)
    BY EmptySeq
  <1> QED
    BY <1>1, <1>2, LossType DEF Killed, MemoryTyped

\* What a run emits is put behind what is under way.
LEMMA EmitAllType ==
    ASSUME TypeOK, NEW r \in Runs, run[r] # 0, NEW ps \in Seq(Packets),
           NEW n \in {1, 2}, EmitAll(r, ps, n)
    PROVE  MemoryTyped'
  <1>1. MemoryTyped /\ run \in [Runs -> 0 .. Len(SyncSteps)] /\ out \in Seq(Packets)
    BY TypeParts DEF MemoryTyped
  <1>2. CASE socket \/ ps = <<>>
    <2>1. out \o ps \in Seq(Packets)
      BY <1>1, JoinedQueue
    <2>2. Forward(r, n)
      BY <1>2 DEF EmitAll
    <2>3. run' \in [Runs -> 0 .. Len(SyncSteps)]
      BY <1>1, <2>2, ForwardType
    <2> QED
      BY <1>1, <1>2, <2>1, <2>3 DEF EmitAll, MemoryTyped
  <1>3. CASE ~(socket \/ ps = <<>>)
    BY <1>3, KilledType DEF EmitAll
  <1> QED
    BY <1>2, <1>3

\* A queue is emptied.
LEMMA EmptiedType ==
    ASSUME TypeOK, NEW k \in Queues, Emptied(k)
    PROVE  /\ queue' \in [Queues -> Seq(Numbers)]
           /\ queue'[k] = <<>>
           /\ \A q \in Queues : q # k => queue'[q] = queue[q]
  BY EmptySeq DEF TypeOK, Emptied

\* What an operation that is queued leaves in its queue.
LEMMA QueuedType ==
    ASSUME TypeOK, NEW op \in Ops, NEW n \in Numbers
    PROVE  /\ Queued(op, n) \in [Queues -> Seq(Numbers)]
           /\ \A k \in Queues \ {"archives"} :
                 Range(queue[k]) \subseteq Range(Queued(op, n)[k])
  <1>1. queue \in [Queues -> Seq(Numbers)]
    BY DEF TypeOK
  <1>2. CASE op = "archive"
    <2>1. <<n>> \in Seq(Numbers) /\ "archives" \in Queues
      BY DEF Queues
    <2>2. Queued(op, n) = [queue EXCEPT !["archives"] = <<n>>]
      BY <1>2 DEF Queued
    <2> QED
      BY <1>1, <2>1, <2>2
  <1>3. CASE op = "unarchive"
    BY <1>1, <1>3 DEF Queued
  <1>4. CASE op # "archive" /\ op # "unarchive"
    <2> DEFINE k == QueueOf(op)
               q == Append(queue[k], n)
    <2>1. k \in Queues
      BY QueueOfType
    <2>2. q \in Seq(Numbers) /\ Range(q) = Range(queue[k]) \cup {n}
      BY <1>1, <2>1, GrownQueue, GrownRange
    <2>3. Queued(op, n) = [queue EXCEPT ![k] = q]
      BY <1>1, <1>4, <2>1 DEF Queued
    <2> HIDE DEF k, q
    <2> QED
      BY <1>1, <2>1, <2>2, <2>3
  <1> QED
    BY <1>2, <1>3, <1>4

-----------------------------------------------------------------------------
(* Type correctness.                                                       *)

LEMMA TypeInit == Init => TypeOK
  <1> SUFFICES ASSUME Init PROVE TypeOK
    OBVIOUS
  <1>1. /\ Idle \in [Runs -> 0 .. Len(SyncSteps)]
        /\ EmptyQueues \in [Queues -> Seq(Numbers)]
        /\ <<>> \in Seq(Packets) /\ <<>> \in Seq(PerElement \cup Batched) /\ <<>> \in Seq(Ops)
    BY EmptySeq DEF Idle, EmptyQueues, SyncSteps
  <1>2. losses \in [disconnects : 0 .. MaxDisconnects, restarts : 0 .. MaxRestarts,
                    logouts : 0 .. MaxLogins]
    BY SyncBoundsAssumption DEF Init
  <1>3. MemoryTyped /\ LastingTyped
    BY <1>1, <1>2 DEF Init, MemoryTyped, LastingTyped
  <1> QED
    BY <1>3, TypeParts

LEMMA TypeNext == TypeOK /\ [Next]_vars => TypeOK'
  <1> SUFFICES ASSUME TypeOK, [Next]_vars PROVE MemoryTyped' /\ LastingTyped'
    BY TypeParts
  <1> USE DEF account, transport, history
  <1>1. MemoryTyped /\ LastingTyped
    BY TypeParts
  <1>2. ASSUME AppStarts PROVE MemoryTyped' /\ LastingTyped'
    BY <1>1, <1>2 DEF AppStarts, RunTheClientSdk, InitializeSocket, MemoryTyped, LastingTyped
  <1>3. ASSUME Logout PROVE MemoryTyped' /\ LastingTyped'
    <2>1. CASE callRegistered
      <3>1. EmptyQueues \in [Queues -> Seq(Numbers)] /\ <<>> \in Seq(Packets)
            /\ <<>> \in Seq(PerElement \cup Batched)
        BY EmptySeq DEF EmptyQueues
      <3>2. losses' \in [disconnects : 0 .. MaxDisconnects, restarts : 0 .. MaxRestarts,
                         logouts : 0 .. MaxLogins]
        BY <1>3, <2>1, LossType DEF Logout
      <3>3. Range(acks) \subseteq Queues
        BY <1>1, RangeIsIn DEF MemoryTyped, PerElement, Batched, Queues
      <3>4. \A p \in Range(out) : p.kind \in Queues
        BY <1>1, RangeIsIn DEF MemoryTyped, Packets
      <3>5. orphans' \subseteq Queues
        BY <1>1, <1>3, <2>1, <3>3, <3>4 DEF Logout, MemoryTyped
      <3>6. MemoryTyped'
        BY <1>1, <1>3, <2>1, <3>1, <3>2, <3>5 DEF Logout, MemoryTyped
      <3>7. LastingTyped'
        BY <1>1, <1>3, <2>1, <3>1 DEF Logout, LastingTyped
      <3> QED
        BY <3>6, <3>7
    <2>2. CASE ~callRegistered
      BY <1>1, <1>3, <2>2, KilledType DEF Logout, LastingTyped
    <2> QED
      BY <2>1, <2>2
  <1>4. ASSUME Restart PROVE MemoryTyped' /\ LastingTyped'
    BY <1>1, <1>4, KilledType DEF Restart, LastingTyped
  <1>5. ASSUME Answers PROVE MemoryTyped' /\ LastingTyped'
    <2>1. ASSUME NEW ok \in BOOLEAN, RegisterAnswer(ok)
          PROVE  MemoryTyped' /\ LastingTyped'
      BY <1>1, <2>1, ZenonT(60) DEF RegisterAnswer, MemoryTyped, LastingTyped
    <2>2. ASSUME NEW ok \in BOOLEAN, CallRegisterAnswer(ok)
          PROVE  MemoryTyped' /\ LastingTyped'
      BY <1>1, <2>2, ZenonT(60) DEF CallRegisterAnswer, MemoryTyped, LastingTyped
    <2>3. ASSUME NEW how \in {"ok", "refused", "throws"}, ContactsAnswer(how)
          PROVE  MemoryTyped' /\ LastingTyped'
      BY <1>1, <2>3, ZenonT(60) DEF ContactsAnswer, InitializeSocket, MemoryTyped, LastingTyped
    <2>4. ASSUME NEW how \in {"messages", "none", "refused"}, FetchAnswer(how)
          PROVE  MemoryTyped' /\ LastingTyped'
      BY <1>1, <2>4, ZenonT(60) DEF FetchAnswer, MemoryTyped, LastingTyped
    <2> QED
      BY <1>5, <2>1, <2>2, <2>3, <2>4 DEF Answers
  <1>6. ASSUME MessageStored PROVE MemoryTyped' /\ LastingTyped'
    BY <1>1, <1>6 DEF MessageStored, MemoryTyped, LastingTyped
  <1>7. ASSUME Connect PROVE MemoryTyped' /\ LastingTyped'
    BY <1>1, <1>7 DEF Connect, MemoryTyped, LastingTyped
  <1>8. ASSUME AccessToken PROVE MemoryTyped' /\ LastingTyped'
    <2>1. Len(SyncSteps) = 11
      BY DEF SyncSteps
    <2>2. run' \in [Runs -> 0 .. Len(SyncSteps)] /\ held' \in BOOLEAN
      <3>1. CASE loggedIn
        <4>1. PICK r \in Runs : SyncData(r)
          BY <1>8, <3>1 DEF AccessToken
        <4> QED
          BY <1>1, <2>1, <4>1 DEF SyncData, MemoryTyped
      <3>2. CASE ~loggedIn
        BY <1>1, <1>8, <3>2 DEF AccessToken, MemoryTyped, LastingTyped
      <3> QED
        BY <3>1, <3>2
    <2> QED
      BY <1>1, <1>8, <2>2 DEF AccessToken, MemoryTyped, LastingTyped
  <1>9. ASSUME Disconnect PROVE MemoryTyped' /\ LastingTyped'
    <2>1. <<>> \in Seq(Packets) /\ <<>> \in Seq(PerElement \cup Batched)
      BY EmptySeq
    <2>2. losses' \in [disconnects : 0 .. MaxDisconnects, restarts : 0 .. MaxRestarts,
                       logouts : 0 .. MaxLogins]
      BY <1>9, LossType DEF Disconnect
    <2> QED
      BY <1>1, <1>9, <2>1, <2>2 DEF Disconnect, MemoryTyped, LastingTyped
  <1>10. ASSUME ServerTakes PROVE MemoryTyped' /\ LastingTyped'
    <2>1. Head(out) \in Packets /\ Tail(out) \in Seq(Packets)
      BY <1>1, <1>10, TakenQueue DEF ServerTakes, MemoryTyped
    <2>2. PICK p \in Packets : p = Head(out)
      BY <2>1
    <2>3. /\ p.kind \in Queues /\ p.ns \subseteq Numbers /\ p.ack \in BOOLEAN
          /\ p.ack => p.kind \in PerElement \cup Batched
      BY <2>2 DEF Packets
    <2>4. told' \subseteq Queues \X Numbers
      BY <1>1, <1>10, <2>2, <2>3 DEF ServerTakes, LastingTyped
    <2>5. acks' \in Seq(PerElement \cup Batched)
      <3>1. CASE p.ack
        <4>1. acks' = Append(acks, p.kind)
          BY <1>10, <2>2, <3>1 DEF ServerTakes
        <4> QED
          BY <1>1, <2>3, <3>1, <4>1, GrownQueue DEF MemoryTyped
      <3>2. CASE ~p.ack
        BY <1>1, <1>10, <2>2, <3>2 DEF ServerTakes, MemoryTyped
      <3> QED
        BY <3>1, <3>2
    <2> QED
      BY <1>1, <1>10, <2>1, <2>4, <2>5 DEF ServerTakes, MemoryTyped, LastingTyped
  <1>11. ASSUME Ack PROVE MemoryTyped' /\ LastingTyped'
    <2>1. Head(acks) \in Queues /\ Tail(acks) \in Seq(PerElement \cup Batched)
      BY <1>1, <1>11, TakenQueue DEF Ack, MemoryTyped, PerElement, Batched, Queues
    <2>2. queue' \in [Queues -> Seq(Numbers)]
      BY <1>11, <2>1, EmptiedType DEF Ack
    <2> QED
      BY <1>1, <1>11, <2>1, <2>2 DEF Ack, MemoryTyped, LastingTyped
  <1>12. ASSUME NEW k \in Queues, OrphanAck(k) PROVE MemoryTyped' /\ LastingTyped'
    <2>1. queue' \in [Queues -> Seq(Numbers)]
      BY <1>12, EmptiedType DEF OrphanAck
    <2> QED
      BY <1>1, <1>12, <2>1 DEF OrphanAck, MemoryTyped, LastingTyped
  <1>13. ASSUME NEW op \in Ops, Operate(op) PROVE MemoryTyped' /\ LastingTyped'
    <2> DEFINE n == Len(asked) + 1
    <2>1. n \in Numbers
      BY <1>1, <1>13, SyncBoundsAssumption, LenProperties DEF Operate, Numbers, LastingTyped
    <2>2. /\ asked' = Append(asked, op)
          /\ IF Online(op)
               THEN /\ out' = Append(out, Packet(EventOf(op), {n}, FALSE))
                    /\ UNCHANGED <<queue, put>>
               ELSE /\ queue' = Queued(op, n)
                    /\ put' = put \cup {e \in Queues \X {n} : n \in Range(queue'[e[1]])}
                    /\ UNCHANGED out
          /\ UNCHANGED <<isRegisterIsInProcessing, account, socket, link, run, acks, orphans,
                         told, outlived, early, held, losses>>
      BY <1>13 DEF Operate
    <2> HIDE DEF n
    <2>3. asked' \in Seq(Ops)
      BY <1>1, <2>2, GrownQueue DEF LastingTyped
    <2>4. CASE Online(op)
      <3>1. PICK p \in Packets : p = Packet(EventOf(op), {n}, FALSE)
        BY <2>1, QueueOfType, PacketType
      <3>2. out' \in Seq(Packets)
        <4>1. out' = Append(out, p) /\ out \in Seq(Packets)
          BY <1>1, <2>2, <2>4, <3>1 DEF MemoryTyped
        <4> QED
          BY <4>1, GrownQueue
      <3> QED
        BY <1>1, <2>2, <2>3, <2>4, <3>2 DEF MemoryTyped, LastingTyped
    <2>5. CASE ~Online(op)
      <3>1. queue' \in [Queues -> Seq(Numbers)]
        BY <2>1, <2>2, <2>5, QueuedType
      <3>2. put' \subseteq Queues \X Numbers
        BY <1>1, <2>1, <2>2, <2>5 DEF LastingTyped
      <3> QED
        BY <1>1, <2>2, <2>3, <2>5, <3>1, <3>2 DEF MemoryTyped, LastingTyped
    <2> QED
      BY <2>4, <2>5
  <1>14. ASSUME NEW r \in Runs, RunStep(r) PROVE MemoryTyped' /\ LastingTyped'
    <2>1. ASSUME SyncReads(r) PROVE MemoryTyped' /\ LastingTyped'
      <3>1. EachOf("reads", FALSE) \in Seq(Packets)
        BY EachOfType DEF Queues
      <3>2. PICK n \in {1, 2} : EmitAll(r, EachOf("reads", FALSE), n)
        BY <2>1 DEF SyncReads
      <3>3. MemoryTyped'
        BY <2>1, <3>1, <3>2, EmitAllType DEF SyncReads, At
      <3> QED
        BY <1>1, <2>1, <3>3 DEF SyncReads, LastingTyped
    <2>2. ASSUME ClearReads(r) PROVE MemoryTyped' /\ LastingTyped'
      <3>1. queue' \in [Queues -> Seq(Numbers)]
        BY <2>2, EmptiedType DEF ClearReads, Queues
      <3>2. run' \in [Runs -> 0 .. Len(SyncSteps)]
        BY <1>1, <2>2, ForwardType DEF ClearReads, At, MemoryTyped
      <3> QED
        BY <1>1, <2>2, <3>1, <3>2 DEF ClearReads, MemoryTyped, LastingTyped
    <2>3. ASSUME SyncLocal(r) PROVE MemoryTyped' /\ LastingTyped'
      <3>1. CASE socket
        <4>1. run' \in [Runs -> 0 .. Len(SyncSteps)]
          BY <1>1, <2>3, <3>1, ForwardType DEF SyncLocal, At, MemoryTyped
        <4> QED
          BY <1>1, <2>3, <3>1, <4>1 DEF SyncLocal, MemoryTyped, LastingTyped
      <3>2. CASE ~socket
        BY <1>1, <2>3, <3>2, KilledType DEF SyncLocal, LastingTyped
      <3> QED
        BY <3>1, <3>2
    <2>4. ASSUME SyncStories(r) PROVE MemoryTyped' /\ LastingTyped'
      <3>1. run' \in [Runs -> 0 .. Len(SyncSteps)]
        BY <1>1, <2>4, ForwardType DEF SyncStories, At, MemoryTyped
      <3> QED
        BY <1>1, <2>4, <3>1 DEF SyncStories, MemoryTyped, LastingTyped
    <2>5. ASSUME NEW k \in PerElement, SyncEach(r, k) PROVE MemoryTyped' /\ LastingTyped'
      <3>1. EachOf(k, TRUE) \in Seq(Packets)
        BY EachOfType DEF PerElement, Queues
      <3>2. MemoryTyped'
        BY <2>5, <3>1, EmitAllType DEF SyncEach, At
      <3> QED
        BY <1>1, <2>5, <3>2 DEF SyncEach, LastingTyped
    <2>6. ASSUME NEW k \in Batched, SyncBatch(r, k) PROVE MemoryTyped' /\ LastingTyped'
      <3> DEFINE ps == IF queue[k] = <<>> THEN <<>> ELSE <<Packet(k, Entries(k), TRUE)>>
      <3>1. k \in Queues
        BY DEF Batched, Queues
      <3>2. Packet(k, Entries(k), TRUE) \in Packets
        BY <3>1, EntriesType, PacketType
      <3>3. ps \in Seq(Packets)
        <4>1. PICK p \in Packets : p = Packet(k, Entries(k), TRUE)
          BY <3>2
        <4>2. <<p>> \in Seq(Packets) /\ <<>> \in Seq(Packets)
          BY EmptySeq
        <4> QED
          BY <4>1, <4>2
      <3>4. EmitAll(r, ps, 1)
        BY <2>6 DEF SyncBatch
      <3> HIDE DEF ps
      <3>5. MemoryTyped'
        BY <2>6, <3>3, <3>4, EmitAllType DEF SyncBatch, At
      <3> QED
        BY <1>1, <2>6, <3>5 DEF SyncBatch, LastingTyped
    <2> QED
      BY <1>14, <2>1, <2>2, <2>3, <2>4, <2>5, <2>6 DEF RunStep
  <1>15. CASE UNCHANGED vars
    BY <1>1, <1>15 DEF vars, MemoryTyped, LastingTyped
  <1> QED
    BY <1>2, <1>3, <1>4, <1>5, <1>6, <1>7, <1>8, <1>9, <1>10, <1>11, <1>12, <1>13,
       <1>14, <1>15 DEF Next

\* Type correctness: numbers stay within their bounds, packets and Acks name
\* queues that exist, and an Ack is never asked for a read receipt.
THEOREM TypeCorrect == Spec => []TypeOK
  BY TypeInit, TypeNext, PTL DEF Spec

-----------------------------------------------------------------------------
(* What a step of a run does.                                              *)

\* The step a run is at.
LEMMA AtStep ==
    ASSUME TypeOK, NEW r \in Runs
    PROVE  /\ At(r, "clearReads") <=> run[r] = 2
           /\ run[r] = 1 => /\ ~At(r, "local") /\ ~At(r, "stories")
                            /\ \A k \in PerElement \cup Batched : ~At(r, k)
  <1>1. run[r] \in 0 .. 11
    BY DEF TypeOK, SyncSteps
  <1>2. run[r] = 1 => SyncSteps[run[r]] = "reads"
    BY DEF SyncSteps
  <1>3. run[r] # 0 => (SyncSteps[run[r]] = "clearReads" <=> run[r] = 2)
    BY <1>1 DEF SyncSteps
  <1> QED
    BY <1>2, <1>3 DEF At, PerElement, Batched

\* A run that goes on leaves the connection and the account as they are.
Steady == UNCHANGED <<isRegisterIsInProcessing, registering, callRegistering, fetching,
                      socket, link, acks, orphans, losses>>

\* What is put on its way: packets of queue k, with all its entries.
Emitted(k) ==
    /\ Range(out) \subseteq Range(out')
    /\ \A p \in Range(out') \ Range(out) :
          p.kind = k /\ (k \in Batched => p.ns = Entries(k))
    /\ \A n \in Entries(k) : \E p \in Range(out') : p.kind = k /\ n \in p.ns

LEMMA EmitEffect ==
    ASSUME TypeOK, NEW r \in Runs, run[r] # 0, NEW n \in {1, 2},
           NEW ps \in Seq(Packets), EmitAll(r, ps, n), NEW k,
           \A p \in Range(ps) : p.kind = k /\ (k \in Batched => p.ns = Entries(k)),
           \A i \in Entries(k) : \E p \in Range(ps) : i \in p.ns
    PROVE  \/ Killed /\ losses.restarts < MaxRestarts
           \/ /\ Steady /\ Forward(r, n) /\ Emitted(k)
              /\ Range(out') = Range(out) \cup Range(ps)
  <1>1. CASE socket \/ ps = <<>>
    <2>1. out' = out \o ps /\ Forward(r, n) /\ Steady
      BY <1>1 DEF EmitAll, Steady
    <2>2. Range(out') = Range(out) \cup Range(ps)
      BY <2>1, JoinedRange DEF TypeOK
    <2> QED
      BY <2>1, <2>2 DEF Emitted
  <1>2. CASE ~(socket \/ ps = <<>>)
    BY <1>2 DEF EmitAll
  <1> QED
    BY <1>1, <1>2

\* The steps of a run.
RunEffect(r) ==
    \/ Killed /\ losses.restarts < MaxRestarts /\ queue' = queue
    \/ /\ Steady /\ queue' = queue
       /\ \E n \in {1, 2} : Forward(r, n)
       /\ run'[r] # 2 /\ (Range(out') = Range(out) \/ \E k \in PerElement \cup Batched : Emitted(k))
    \/ /\ Steady /\ queue' = queue
       /\ \E n \in {1, 2} : Forward(r, n)
       /\ Emitted("reads") /\ \A p \in Range(out') \ Range(out) : ~p.ack
    \/ /\ Steady /\ Emptied("reads") /\ run[r] = 2 /\ run'[r] # 2
       /\ Forward(r, 1) /\ out' = out

LEMMA RunEffects ==
    ASSUME TypeOK, NEW r \in Runs, RunStep(r)
    PROVE  /\ UNCHANGED <<loggedIn, callRegistered, told, asked, put, outlived, early, held>>
           /\ run[r] # 0
           /\ RunEffect(r)
  <1> USE DEF account, transport, history
  <1>1. /\ run[r] \in 0 .. 11 /\ run \in [Runs -> 0 .. Len(SyncSteps)]
        /\ \A n \in {1, 2} : Forward(r, n) /\ run[r] # 0 => (run'[r] = 2 => run[r] = 1 /\ n = 1)
    BY ForwardType DEF TypeOK, SyncSteps
  <1>2. CASE SyncReads(r)
    <2>1. EachOf("reads", FALSE) \in Seq(Packets)
          /\ (\A p \in Range(EachOf("reads", FALSE)) : p.kind = "reads" /\ p.ack = FALSE)
          /\ \A i \in Entries("reads") : \E p \in Range(EachOf("reads", FALSE)) : i \in p.ns
      BY EachOfType DEF Queues
    <2>2. run[r] # 0 /\ UNCHANGED <<loggedIn, callRegistered, queue, told, asked, put,
                                    outlived, early, held>>
      BY <1>2 DEF SyncReads, At
    <2>3. PICK n \in {1, 2} : EmitAll(r, EachOf("reads", FALSE), n)
      BY <1>2 DEF SyncReads
    <2>4. \/ Killed /\ losses.restarts < MaxRestarts
          \/ /\ Steady /\ Forward(r, n) /\ Emitted("reads")
             /\ Range(out') = Range(out) \cup Range(EachOf("reads", FALSE))
      BY <2>1, <2>2, <2>3, EmitEffect DEF Batched
    <2>5. CASE Killed /\ losses.restarts < MaxRestarts
      BY <2>2, <2>5 DEF RunEffect
    <2>6. CASE /\ Steady /\ Forward(r, n) /\ Emitted("reads")
               /\ Range(out') = Range(out) \cup Range(EachOf("reads", FALSE))
      <3>1. \A p \in Range(out') \ Range(out) : ~p.ack
        BY <2>1, <2>6
      <3> QED
        BY <2>2, <2>6, <3>1 DEF RunEffect
    <2> QED
      BY <2>4, <2>5, <2>6
  <1>3. CASE ClearReads(r)
    <2>1. run[r] = 2 /\ Forward(r, 1) /\ run'[r] # 2
      BY <1>1, <1>3, AtStep DEF ClearReads
    <2> QED
      BY <1>3, <2>1 DEF ClearReads, RunEffect, Steady
  <1>4. CASE SyncLocal(r)
    <2>1. run[r] # 0 /\ run[r] # 1
      BY <1>4, AtStep DEF SyncLocal, At
    <2>2. CASE socket
      <3>1. Forward(r, 1) /\ run'[r] # 2
        BY <1>1, <1>4, <2>1, <2>2 DEF SyncLocal
      <3> QED
        BY <1>4, <2>1, <2>2, <3>1 DEF SyncLocal, RunEffect, Steady
    <2>3. CASE ~socket
      BY <1>4, <2>1, <2>3 DEF SyncLocal, RunEffect
    <2> QED
      BY <2>2, <2>3
  <1>5. CASE SyncStories(r)
    <2>1. run[r] # 0 /\ run[r] # 1 /\ Forward(r, 1)
      BY <1>5, AtStep DEF SyncStories, At
    <2>2. run'[r] # 2
      BY <1>1, <2>1
    <2> QED
      BY <1>5, <2>1, <2>2 DEF SyncStories, RunEffect, Steady
  <1>6. ASSUME NEW k \in PerElement, SyncEach(r, k)
        PROVE  /\ UNCHANGED <<loggedIn, callRegistered, told, asked, put, outlived, early, held>>
               /\ run[r] # 0 /\ RunEffect(r)
    <2>1. k \in Queues /\ k \notin Batched
      BY DEF PerElement, Batched, Queues
    <2>2. /\ EachOf(k, TRUE) \in Seq(Packets)
          /\ \A p \in Range(EachOf(k, TRUE)) : p.kind = k
          /\ \A i \in Entries(k) : \E p \in Range(EachOf(k, TRUE)) : i \in p.ns
      BY <2>1, EachOfType
    <2>3. run[r] # 0 /\ run[r] # 1
      BY <1>6, AtStep DEF SyncEach, At
    <2>4. \/ Killed /\ losses.restarts < MaxRestarts
          \/ Steady /\ Forward(r, 1) /\ Emitted(k)
      BY <1>6, <2>1, <2>2, <2>3, EmitEffect DEF SyncEach
    <2>5. Forward(r, 1) => run'[r] # 2
      BY <1>1, <2>3
    <2> QED
      BY <1>6, <2>3, <2>4, <2>5 DEF SyncEach, RunEffect
  <1>7. ASSUME NEW k \in Batched, SyncBatch(r, k)
        PROVE  /\ UNCHANGED <<loggedIn, callRegistered, told, asked, put, outlived, early, held>>
               /\ run[r] # 0 /\ RunEffect(r)
    <2> DEFINE ps == IF queue[k] = <<>> THEN <<>> ELSE <<Packet(k, Entries(k), TRUE)>>
    <2>1. k \in Queues
      BY DEF Batched, Queues
    <2>2. PICK p \in Packets : /\ p = Packet(k, Entries(k), TRUE)
                               /\ p.kind = k /\ p.ns = Entries(k)
      <3>1. PICK ns \in SUBSET Numbers : ns = Entries(k)
        BY <2>1, EntriesType
      <3> QED
        BY <2>1, <3>1, PacketType
    <2>3. /\ ps \in Seq(Packets)
          /\ \A q \in Range(ps) : q.kind = k /\ q.ns = Entries(k)
          /\ \A i \in Entries(k) : \E q \in Range(ps) : i \in q.ns
      <3>1. CASE queue[k] = <<>>
        <4>1. ps = <<>> /\ Entries(k) = {}
          BY <3>1, NothingInRange DEF Entries
        <4> HIDE DEF ps
        <4> QED
          BY <4>1, EmptySeq, NothingInRange
      <3>2. CASE queue[k] # <<>>
        <4>1. ps = <<p>>
          BY <2>2, <3>2
        <4>2. <<p>> \in Seq(Packets) /\ DOMAIN <<p>> = {1} /\ <<p>>[1] = p
          OBVIOUS
        <4>3. Range(<<p>>) = {p}
          BY <4>2 DEF Range
        <4> HIDE DEF ps
        <4> QED
          BY <2>2, <4>1, <4>2, <4>3
      <3> QED
        BY <3>1, <3>2
    <2>4. EmitAll(r, ps, 1)
      BY <1>7 DEF SyncBatch
    <2> HIDE DEF ps
    <2>5. run[r] # 0 /\ run[r] # 1
      BY <1>7, AtStep DEF SyncBatch, At
    <2>6. \/ Killed /\ losses.restarts < MaxRestarts
          \/ Steady /\ Forward(r, 1) /\ Emitted(k)
      BY <2>3, <2>4, <2>5, EmitEffect
    <2>7. Forward(r, 1) => run'[r] # 2
      BY <1>1, <2>5
    <2> QED
      BY <1>7, <2>5, <2>6, <2>7 DEF SyncBatch, RunEffect
  <1> QED
    BY <1>2, <1>3, <1>4, <1>5, <1>6, <1>7 DEF RunStep

-----------------------------------------------------------------------------
(* The inductive invariants.                                               *)

\* The account behind a socket: a registration under way has no socket yet, and
\* the calls are registered once, on the socket.
AccountInv ==
    /\ registering # "no" => ~socket
    /\ registering = "register" => ~loggedIn
    /\ registering = "contacts" => loggedIn
    /\ registering # "no" => ~callRegistered
    /\ callRegistered => loggedIn
    /\ callRegistering => socket /\ loggedIn /\ ~callRegistered

\* An Ack for all entries of queue k is expected.
AckExpected(k) ==
    \/ k \in Range(acks)
    \/ \E p \in Range(out) : p.kind = k /\ p.ack

\* Where nothing outlived its connection, whoever empties a queue works on a
\* connection that is ready, on which no operation is queued.
ConnectionInv ==
    /\ link # "down" => socket
    /\ ~outlived => /\ orphans = {}
                    /\ run # Idle => link = "ready"
                    /\ \A k \in Queues : AckExpected(k) => link = "ready"

\* The flag is up during the first fetch, unless a message took it down.
FetchInv == fetching => isRegisterIsInProcessing \/ early

\* An Ack that is expected covers all that its queue holds.
CoveredInv ==
    ~outlived => \A e \in put :
        /\ e[1] \in Reliable /\ e[1] \in Range(acks) => e \in told
        /\ e[1] \in Reliable => \A p \in Range(out) :
              p.kind = e[1] /\ p.ack => e[2] \in p.ns \/ e \in told

\* The server knows an entry, or a packet with it is on its way.
Underway(e) == e \in told \/ \E p \in Range(out) : p.kind = e[1] /\ e[2] \in p.ns

\* The queues that are sent entry by entry, where no connection is lost: an
\* entry has left its queue only on its way to the server, and where the queue
\* is about to be emptied all its entries are.
Undisturbed == losses.disconnects = 0 /\ losses.restarts = 0 /\ ~outlived
CutsInv ==
    Undisturbed => \A e \in put :
        /\ e[1] \in {"reads", "deletions", "views"}
              => e[2] \in Entries(e[1]) \/ Underway(e)
        /\ e[1] \in PerElement /\ AckExpected(e[1]) => Underway(e)
        /\ e[1] = "reads" /\ (\E r \in Runs : At(r, "clearReads")) => Underway(e)

-----------------------------------------------------------------------------
(* The account, the connection and the first fetch.                        *)

FetchesInv == AccountInv /\ ConnectionInv /\ FetchInv /\ FirstFetchAlone

\* A run that is somewhere is not idle.
LEMMA NotIdle ==
    ASSUME NEW r \in Runs, run[r] # 0
    PROVE  run # Idle
  BY DEF Idle

\* The end of the process clears all that is in memory.
LEMMA KilledFetches ==
    ASSUME TypeOK, FetchesInv, Killed, UNCHANGED <<loggedIn, callRegistered, outlived, early>>
    PROVE  FetchesInv'
  <1>1. \A k \in Queues : ~AckExpected(k)'
    BY NothingInRange DEF AckExpected, Killed
  <1>2. AccountInv'
    BY DEF AccountInv, FetchesInv, Killed
  <1>3. ConnectionInv'
    BY <1>1 DEF ConnectionInv, Killed
  <1>4. FetchInv' /\ FirstFetchAlone'
    BY DEF FetchInv, FirstFetchAlone, Killed
  <1> QED
    BY <1>2, <1>3, <1>4 DEF FetchesInv

LEMMA FetchesNext == TypeOK /\ FetchesInv /\ [Next]_vars => FetchesInv'
  <1> SUFFICES ASSUME TypeOK, FetchesInv, [Next]_vars PROVE FetchesInv'
    OBVIOUS
  <1> USE DEF account, transport, history
  <1>0. /\ isRegisterIsInProcessing \in BOOLEAN /\ fetching \in BOOLEAN
        /\ registering \in {"no", "register", "contacts"} /\ loggedIn \in BOOLEAN
        /\ out \in Seq(Packets) /\ acks \in Seq(PerElement \cup Batched)
        /\ AccountInv /\ ConnectionInv /\ FetchInv /\ FirstFetchAlone
    BY TypeParts DEF MemoryTyped, LastingTyped, FetchesInv
  \* Where the queues of the connection do not change, neither do expected Acks.
  <1>1. UNCHANGED <<out, acks>> => \A k \in Queues : AckExpected(k)' <=> AckExpected(k)
    BY DEF AckExpected
  <1>2. UNCHANGED <<link, run, out, acks, orphans, outlived>> /\ (socket => socket')
           => ConnectionInv'
    BY <1>0, <1>1 DEF ConnectionInv
  <1>3. ASSUME AppStarts PROVE FetchesInv'
    <2>1. AccountInv'
      BY <1>0, <1>3 DEF AppStarts, RunTheClientSdk, InitializeSocket, AccountInv
    <2>2. FetchInv' /\ FirstFetchAlone'
      BY <1>0, <1>3 DEF AppStarts, RunTheClientSdk, InitializeSocket, FetchInv, FirstFetchAlone
    <2>3. ConnectionInv'
      BY <1>2, <1>3 DEF AppStarts, RunTheClientSdk, InitializeSocket
    <2> QED
      BY <2>1, <2>2, <2>3 DEF FetchesInv
  <1>4. ASSUME Logout PROVE FetchesInv'
    <2>1. CASE callRegistered
      <3>1. AccountInv'
        BY <1>0, <1>4, <2>1 DEF Logout, AccountInv
      <3>2. \A k \in Queues : ~AckExpected(k)'
        BY <1>4, <2>1, NothingInRange DEF Logout, AckExpected
      <3>3. ConnectionInv'
        BY <1>0, <1>4, <2>1, <3>2 DEF Logout, ConnectionInv
      <3>4. FetchInv' /\ FirstFetchAlone'
        BY <1>0, <1>4, <2>1 DEF Logout, FetchInv, FirstFetchAlone
      <3> QED
        BY <3>1, <3>3, <3>4 DEF FetchesInv
    <2>2. CASE ~callRegistered
      BY <1>4, <2>2, KilledFetches DEF Logout
    <2> QED
      BY <2>1, <2>2
  <1>5. ASSUME Restart PROVE FetchesInv'
    BY <1>5, KilledFetches DEF Restart
  <1>6. ASSUME Answers PROVE FetchesInv'
    <2>1. ASSUME NEW ok \in BOOLEAN, RegisterAnswer(ok) PROVE FetchesInv'
      BY <1>0, <1>2, <2>1
         DEF RegisterAnswer, FetchesInv, AccountInv, FetchInv, FirstFetchAlone
    <2>2. ASSUME NEW ok \in BOOLEAN, CallRegisterAnswer(ok) PROVE FetchesInv'
      BY <1>0, <1>2, <2>2
         DEF CallRegisterAnswer, FetchesInv, AccountInv, FetchInv, FirstFetchAlone
    <2>3. ASSUME NEW how \in {"ok", "refused", "throws"}, ContactsAnswer(how)
          PROVE  FetchesInv'
      \* There is no socket yet: the flag goes up, and no run has a connection.
      <3>1. ~socket /\ ~callRegistered /\ link = "down"
        BY <1>0, <2>3 DEF ContactsAnswer, AccountInv, ConnectionInv, TypeOK
      <3>2. run # Idle => outlived
        BY <1>0, <3>1 DEF ConnectionInv
      <3>3. AccountInv'
        BY <1>0, <2>3, <3>1 DEF ContactsAnswer, InitializeSocket, AccountInv
      <3>4. ConnectionInv'
        BY <1>2, <2>3, <3>1 DEF ContactsAnswer
      <3>5. FetchInv' /\ FirstFetchAlone'
        BY <1>0, <2>3, <3>1, <3>2
           DEF ContactsAnswer, InitializeSocket, FetchInv, FirstFetchAlone
      <3> QED
        BY <3>3, <3>4, <3>5 DEF FetchesInv
    <2>4. ASSUME NEW how \in {"messages", "none", "refused"}, FetchAnswer(how)
          PROVE  FetchesInv'
      BY <1>0, <1>2, <2>4
         DEF FetchAnswer, FetchesInv, AccountInv, FetchInv, FirstFetchAlone
    <2> QED
      BY <1>6, <2>1, <2>2, <2>3, <2>4 DEF Answers
  <1>7. ASSUME MessageStored PROVE FetchesInv'
    BY <1>0, <1>2, <1>7 DEF MessageStored, FetchesInv, AccountInv, FetchInv, FirstFetchAlone
  <1>8. ASSUME Connect PROVE FetchesInv'
    <2>1. ConnectionInv'
      BY <1>0, <1>1, <1>8 DEF Connect, ConnectionInv
    <2> QED
      BY <1>0, <1>8, <2>1 DEF Connect, FetchesInv, AccountInv, FetchInv, FirstFetchAlone
  <1>9. ASSUME AccessToken PROVE FetchesInv'
    <2>1. ConnectionInv'
      BY <1>0, <1>1, <1>9 DEF AccessToken, ConnectionInv
    <2>2. AccountInv' /\ FetchInv'
      BY <1>0, <1>9 DEF AccessToken, AccountInv, FetchInv
    <2>3. isRegisterIsInProcessing => run' = run
      BY <1>9 DEF AccessToken, SyncData
    <2>4. FirstFetchAlone'
      BY <1>0, <1>9, <2>3 DEF AccessToken, FetchInv, FirstFetchAlone
    <2> QED
      BY <2>1, <2>2, <2>4 DEF FetchesInv
  <1>10. ASSUME Disconnect PROVE FetchesInv'
    <2>1. \A k \in Queues : ~AckExpected(k)'
      BY <1>10, NothingInRange DEF Disconnect, AckExpected
    <2>2. ConnectionInv'
      BY <1>0, <1>10, <2>1 DEF Disconnect, ConnectionInv
    <2> QED
      BY <1>0, <1>10, <2>2 DEF Disconnect, FetchesInv, AccountInv, FetchInv, FirstFetchAlone
  <1>11. ASSUME ServerTakes PROVE FetchesInv'
    <2> DEFINE p == Head(out)
    <2>1. /\ p \in Packets /\ Range(out) = {p} \cup Range(out')
          /\ Range(acks') \subseteq Range(acks) \cup {p.kind}
          /\ Range(acks') # Range(acks) => p.ack
      <3>1. p \in Packets /\ Range(out) = {p} \cup Range(out')
        BY <1>0, <1>11, TakenQueue, TakenRange DEF ServerTakes
      <3>2. CASE p.ack
        <4>1. p.kind \in PerElement \cup Batched
          BY <3>1, <3>2 DEF Packets
        <4>2. acks' = Append(acks, p.kind)
          BY <1>11, <3>2 DEF ServerTakes
        <4>3. Range(acks') = Range(acks) \cup {p.kind}
          BY <1>0, <4>1, <4>2, GrownRange
        <4> QED
          BY <3>1, <3>2, <4>3
      <3>3. CASE ~p.ack
        <4>1. acks' = acks
          BY <1>11, <3>3 DEF ServerTakes
        <4> QED
          BY <3>1, <4>1
      <3> QED
        BY <3>2, <3>3
    <2> HIDE DEF p
    <2>2. \A k \in Queues : AckExpected(k)' => AckExpected(k)
      BY <2>1 DEF AckExpected
    <2>3. ConnectionInv'
      BY <1>0, <1>11, <2>2 DEF ServerTakes, ConnectionInv
    <2> QED
      BY <1>0, <1>11, <2>3 DEF ServerTakes, FetchesInv, AccountInv, FetchInv, FirstFetchAlone
  <1>12. ASSUME Ack PROVE FetchesInv'
    <2>1. Range(acks') \subseteq Range(acks)
      BY <1>0, <1>12, TakenRange DEF Ack
    <2>2. \A k \in Queues : AckExpected(k)' => AckExpected(k)
      BY <1>12, <2>1 DEF Ack, AckExpected
    <2>3. ConnectionInv'
      BY <1>0, <1>12, <2>2 DEF Ack, ConnectionInv
    <2> QED
      BY <1>0, <1>12, <2>3 DEF Ack, FetchesInv, AccountInv, FetchInv, FirstFetchAlone
  <1>13. ASSUME NEW k \in Queues, OrphanAck(k) PROVE FetchesInv'
    <2>1. ConnectionInv'
      BY <1>0, <1>1, <1>13 DEF OrphanAck, ConnectionInv
    <2> QED
      BY <1>0, <1>13, <2>1 DEF OrphanAck, FetchesInv, AccountInv, FetchInv, FirstFetchAlone
  <1>14. ASSUME NEW op \in Ops, Operate(op) PROVE FetchesInv'
    <2>1. \A k \in Queues : AckExpected(k)' => AckExpected(k)
      <3>1. CASE Online(op)
        <4> DEFINE n == Len(asked) + 1
        <4>1. n \in Numbers
          BY <1>14, SyncBoundsAssumption, LenProperties DEF Operate, Numbers, TypeOK
        <4>2. PICK p \in Packets : p = Packet(EventOf(op), {n}, FALSE) /\ p.ack = FALSE
          BY <4>1, OperatePacket
        <4>3. out' = Append(out, p) /\ acks' = acks
          BY <1>14, <3>1, <4>2 DEF Operate
        <4>4. Range(out') = Range(out) \cup {p}
          BY <1>0, <4>3, GrownRange
        <4> QED
          BY <4>2, <4>3, <4>4 DEF AckExpected
      <3>2. CASE ~Online(op)
        BY <1>14, <3>2 DEF Operate, AckExpected
      <3> QED
        BY <3>1, <3>2
    <2>2. ConnectionInv'
      BY <1>0, <1>14, <2>1 DEF Operate, ConnectionInv
    <2> QED
      BY <1>0, <1>14, <2>2 DEF Operate, FetchesInv, AccountInv, FetchInv, FirstFetchAlone
  <1>15. ASSUME NEW r \in Runs, RunStep(r) PROVE FetchesInv'
    <2>1. /\ UNCHANGED <<loggedIn, callRegistered, outlived, early>>
          /\ run # Idle /\ RunEffect(r)
      BY <1>15, RunEffects, NotIdle
    <2>2. CASE Killed
      BY <2>1, <2>2, KilledFetches
    <2>3. CASE Steady
      \* The run itself shows that the connection is ready.
      <3>1. ConnectionInv'
        BY <1>0, <2>1, <2>3 DEF Steady, ConnectionInv
      <3> QED
        BY <1>0, <2>1, <2>3, <3>1 DEF Steady, FetchesInv, AccountInv, FetchInv, FirstFetchAlone
    <2> QED
      BY <2>1, <2>2, <2>3 DEF RunEffect
  <1>16. CASE UNCHANGED vars
    BY <1>0, <1>2, <1>16 DEF vars, FetchesInv, AccountInv, FetchInv, FirstFetchAlone
  <1> QED
    BY <1>3, <1>4, <1>5, <1>6, <1>7, <1>8, <1>9, <1>10, <1>11, <1>12, <1>13, <1>14,
       <1>15, <1>16 DEF Next

LEMMA FetchesInit == Init => FetchesInv
  <1> SUFFICES ASSUME Init PROVE FetchesInv
    OBVIOUS
  <1>1. \A k \in Queues : ~AckExpected(k)
    BY NothingInRange DEF Init, AckExpected
  <1>2. ConnectionInv
    BY <1>1 DEF Init, ConnectionInv
  <1> QED
    BY <1>2 DEF Init, FetchesInv, AccountInv, FetchInv, FirstFetchAlone

LEMMA FetchesInvariant == Spec => []FetchesInv
  <1>1. TypeOK /\ FetchesInv /\ [Next]_vars => FetchesInv'
    BY FetchesNext
  <1> QED
    BY <1>1, FetchesInit, TypeCorrect, PTL DEF Spec

\* The flag isRegisterIsInProcessing does what it is for (TroopClient.syncData):
\* no synchronisation run is under way during the first fetch of all messages,
\* unless a message opened the gate or a run is left from before.
THEOREM FirstFetchIsAlone == Spec => []FirstFetchAlone
  <1>1. FetchesInv => FirstFetchAlone
    BY DEF FetchesInv
  <1> QED
    BY <1>1, FetchesInvariant, PTL

-----------------------------------------------------------------------------
(* What the other steps do to packets, Acks and queues.                    *)

\* A packet reaches the server.
LEMMA TakesEffect ==
    ASSUME TypeOK, ServerTakes
    PROVE  \E p \in Packets :
              /\ Range(out) = {p} \cup Range(out')
              /\ told' = told \cup ({p.kind} \X p.ns)
              /\ Range(acks') = IF p.ack THEN Range(acks) \cup {p.kind} ELSE Range(acks)
  <1>1. out \in Seq(Packets) /\ acks \in Seq(PerElement \cup Batched) /\ out # <<>>
    BY DEF TypeOK, ServerTakes
  <1>2. PICK p \in Packets : p = Head(out) /\ Range(out) = {p} \cup Range(out')
    BY <1>1, TakenQueue, TakenRange DEF ServerTakes
  <1>3. told' = told \cup ({p.kind} \X p.ns)
    BY <1>2 DEF ServerTakes
  <1>4. CASE p.ack
    <2>1. p.kind \in PerElement \cup Batched
      BY <1>4 DEF Packets
    <2>2. acks' = Append(acks, p.kind)
      BY <1>2, <1>4 DEF ServerTakes
    <2>3. Range(acks') = Range(acks) \cup {p.kind}
      BY <1>1, <2>1, <2>2, GrownRange
    <2> QED
      BY <1>2, <1>3, <1>4, <2>3
  <1>5. CASE ~p.ack
    <2>1. acks' = acks
      BY <1>2, <1>5 DEF ServerTakes
    <2> QED
      BY <1>2, <1>3, <1>5, <2>1
  <1> QED
    BY <1>4, <1>5

\* An Ack comes.
LEMMA AckEffect ==
    ASSUME TypeOK, Ack
    PROVE  \E k \in Queues :
              /\ k # "reads" /\ Range(acks) = {k} \cup Range(acks')
              /\ \A q \in Queues : q # k => queue'[q] = queue[q]
  <1>1. acks \in Seq(PerElement \cup Batched) /\ acks # <<>>
    BY DEF TypeOK, Ack
  <1>2. PICK k \in PerElement \cup Batched :
            k = Head(acks) /\ Range(acks) = {k} \cup Range(acks')
    BY <1>1, TakenQueue, TakenRange DEF Ack
  <1>3. k \in Queues /\ k # "reads"
    BY DEF PerElement, Batched, Queues
  <1>4. Emptied(k)
    BY <1>2 DEF Ack
  <1> QED
    BY <1>2, <1>3, <1>4, EmptiedType

\* The user does something: it is sent, or put in a queue.
LEMMA OperateEffect ==
    ASSUME TypeOK, NEW op \in Ops, Operate(op)
    PROVE  \/ /\ UNCHANGED <<queue, put>>
              /\ \E p \in Packets : p.ack = FALSE /\ Range(out') = Range(out) \cup {p}
           \/ /\ link # "ready" /\ UNCHANGED out /\ put \subseteq put'
              /\ put' \subseteq Queues \X Numbers
              /\ \A e \in put' \ put : e[2] \in Entries(e[1])'
              /\ \A k \in Queues : k # "archives" => Entries(k) \subseteq Entries(k)'
  <1> DEFINE n == Len(asked) + 1
  <1>1. n \in Numbers
    BY SyncBoundsAssumption, LenProperties DEF Operate, Numbers, TypeOK
  <1>2. IF Online(op)
          THEN /\ out' = Append(out, Packet(EventOf(op), {n}, FALSE))
               /\ UNCHANGED <<queue, put>>
          ELSE /\ queue' = Queued(op, n)
               /\ put' = put \cup {e \in Queues \X {n} : n \in Range(queue'[e[1]])}
               /\ UNCHANGED out
    BY DEF Operate
  <1> HIDE DEF n
  <1>3. CASE Online(op)
    <2>1. PICK p \in Packets : p = Packet(EventOf(op), {n}, FALSE) /\ p.ack = FALSE
      BY <1>1, OperatePacket
    <2>2. out' = Append(out, p) /\ out \in Seq(Packets)
      BY <1>2, <1>3, <2>1 DEF TypeOK
    <2>3. Range(out') = Range(out) \cup {p}
      BY <2>2, GrownRange
    <2> QED
      BY <1>2, <1>3, <2>1, <2>3
  <1>4. CASE ~Online(op)
    <2>1. link # "ready"
      BY <1>4 DEF Online
    <2>2. \A k \in Queues : k # "archives" => Entries(k) \subseteq Entries(k)'
      BY <1>1, <1>2, <1>4, QueuedType DEF Entries
    <2>3. \A e \in put' \ put : e \in Queues \X {n} /\ n \in Range(queue'[e[1]])
      BY <1>2, <1>4
    <2>4. \A e \in put' \ put : e[2] \in Entries(e[1])'
      BY <2>3 DEF Entries
    <2>5. put \subseteq put' /\ put' \subseteq Queues \X Numbers
      BY <1>1, <1>2, <1>4 DEF TypeOK
    <2> QED
      BY <1>2, <1>4, <2>1, <2>2, <2>4, <2>5
  <1> QED
    BY <1>3, <1>4

-----------------------------------------------------------------------------
(* What is put in a queue that one Ack empties.                            *)

KeptInv == CoveredInv /\ NothingLost

\* Steps that empty no queue, send nothing and put nothing.
LEMMA KeptQuietly ==
    ASSUME KeptInv, UNCHANGED <<queue, put, told>>, outlived => outlived',
           \/ UNCHANGED <<out, acks>>
           \/ out' = <<>> /\ acks' = <<>>
    PROVE  KeptInv'
  <1>1. Range(out') \subseteq Range(out) /\ Range(acks') \subseteq Range(acks)
    BY NothingInRange
  <1>2. CoveredInv'
    BY <1>1 DEF KeptInv, CoveredInv
  <1>3. NothingLost'
    BY DEF KeptInv, NothingLost, Entries
  <1> QED
    BY <1>2, <1>3 DEF KeptInv

LEMMA KeptNext == TypeOK /\ FetchesInv /\ KeptInv /\ [Next]_vars => KeptInv'
  <1> SUFFICES ASSUME TypeOK, FetchesInv, KeptInv, [Next]_vars PROVE KeptInv'
    OBVIOUS
  <1> USE DEF account, transport, history
  <1>0. /\ put \subseteq Queues \X Numbers /\ told \subseteq Queues \X Numbers
        /\ ConnectionInv /\ CoveredInv /\ NothingLost
    BY TypeParts DEF LastingTyped, FetchesInv, KeptInv
  <1>1. ASSUME AppStarts PROVE KeptInv'
    BY <1>1, KeptQuietly DEF AppStarts
  <1>2. ASSUME Logout PROVE KeptInv'
    <2>1. CASE callRegistered
      BY <1>2, <2>1 DEF Logout, KeptInv, CoveredInv, NothingLost
    <2>2. CASE ~callRegistered
      BY <1>2, <2>2, KeptQuietly DEF Logout, Killed
    <2> QED
      BY <2>1, <2>2
  <1>3. ASSUME Restart PROVE KeptInv'
    BY <1>3, KeptQuietly DEF Restart, Killed
  <1>4. ASSUME Answers PROVE KeptInv'
    <2>1. UNCHANGED <<queue, put, told, outlived, out, acks>>
      BY <1>4 DEF Answers, RegisterAnswer, CallRegisterAnswer, ContactsAnswer, FetchAnswer
    <2> QED
      BY <2>1, KeptQuietly
  <1>5. ASSUME MessageStored PROVE KeptInv'
    BY <1>5, KeptQuietly DEF MessageStored
  <1>6. ASSUME Connect PROVE KeptInv'
    BY <1>6, KeptQuietly DEF Connect
  <1>7. ASSUME AccessToken PROVE KeptInv'
    BY <1>7, KeptQuietly DEF AccessToken
  <1>8. ASSUME Disconnect PROVE KeptInv'
    BY <1>8, KeptQuietly DEF Disconnect
  <1>9. ASSUME ServerTakes PROVE KeptInv'
    <2>1. PICK p \in Packets :
              /\ Range(out) = {p} \cup Range(out')
              /\ told' = told \cup ({p.kind} \X p.ns)
              /\ Range(acks') = IF p.ack THEN Range(acks) \cup {p.kind} ELSE Range(acks)
      BY <1>9, TakesEffect
    <2>2. UNCHANGED <<queue, put, outlived>>
      BY <1>9 DEF ServerTakes
    <2>3. NothingLost'
      BY <1>0, <2>1, <2>2 DEF NothingLost, Entries
    <2>4. SUFFICES ASSUME ~outlived, NEW e \in put, e[1] \in Reliable
                   PROVE  /\ e[1] \in Range(acks') => e \in told'
                          /\ \A q \in Range(out') : q.kind = e[1] /\ q.ack
                                => e[2] \in q.ns \/ e \in told'
      BY <2>2, <2>3 DEF KeptInv, CoveredInv
    <2>5. e = <<e[1], e[2]>>
      BY <1>0
    <2>6. ASSUME e[1] \in Range(acks') PROVE e \in told'
      <3>1. CASE e[1] \in Range(acks)
        BY <1>0, <2>1, <2>4, <3>1 DEF CoveredInv
      <3>2. CASE p.ack /\ e[1] = p.kind
        <4>1. e[2] \in p.ns \/ e \in told
          BY <1>0, <2>1, <2>4, <3>2 DEF CoveredInv
        <4> QED
          BY <2>1, <2>5, <3>2, <4>1
      <3> QED
        BY <2>1, <2>6, <3>1, <3>2
    <2>7. \A q \in Range(out') : q.kind = e[1] /\ q.ack => e[2] \in q.ns \/ e \in told'
      BY <1>0, <2>1, <2>4 DEF CoveredInv
    <2> QED
      BY <2>6, <2>7
  <1>10. ASSUME Ack PROVE KeptInv'
    <2>1. PICK k \in Queues : /\ k # "reads" /\ Range(acks) = {k} \cup Range(acks')
                              /\ \A q \in Queues : q # k => queue'[q] = queue[q]
      BY <1>10, AckEffect
    <2>2. UNCHANGED <<put, told, out, outlived>>
      BY <1>10 DEF Ack
    <2>3. CoveredInv'
      BY <1>0, <2>1, <2>2 DEF CoveredInv
    \* All that the queue holds has been told.
    <2>4. NothingLost'
      BY <1>0, <2>1, <2>2 DEF CoveredInv, NothingLost, Entries
    <2> QED
      BY <2>3, <2>4 DEF KeptInv
  <1>11. ASSUME NEW k \in Queues, OrphanAck(k) PROVE KeptInv'
    <2>1. outlived'
      BY <1>0, <1>11 DEF OrphanAck, ConnectionInv
    <2> QED
      BY <2>1 DEF KeptInv, CoveredInv, NothingLost
  <1>12. ASSUME NEW op \in Ops, Operate(op) PROVE KeptInv'
    <2>1. UNCHANGED <<acks, told, outlived>>
      BY <1>12 DEF Operate
    <2>2. CASE /\ UNCHANGED <<queue, put>>
               /\ \E p \in Packets : p.ack = FALSE /\ Range(out') = Range(out) \cup {p}
      <3>1. PICK p \in Packets : p.ack = FALSE /\ Range(out') = Range(out) \cup {p}
        BY <2>2
      <3>2. CoveredInv'
        BY <1>0, <2>1, <2>2, <3>1 DEF CoveredInv
      <3>3. NothingLost'
        BY <1>0, <2>1, <2>2 DEF NothingLost, Entries
      <3> QED
        BY <3>2, <3>3 DEF KeptInv
    <2>3. CASE /\ link # "ready" /\ UNCHANGED out /\ put \subseteq put'
               /\ put' \subseteq Queues \X Numbers
               /\ \A e \in put' \ put : e[2] \in Entries(e[1])'
               /\ \A k \in Queues : k # "archives" => Entries(k) \subseteq Entries(k)'
      \* The connection is not ready: no Ack is expected.
      <3>1. ~outlived => \A k \in Queues : ~AckExpected(k)'
        BY <1>0, <2>1, <2>3 DEF ConnectionInv, AckExpected
      <3>2. CoveredInv'
        <4>1. SUFFICES ASSUME ~outlived, NEW e \in put'
                       PROVE  e[1] \notin Range(acks')
                              /\ \A p \in Range(out') : ~(p.kind = e[1] /\ p.ack)
          BY <2>1 DEF CoveredInv
        <4>2. e[1] \in Queues
          BY <2>3
        <4> QED
          BY <3>1, <4>1, <4>2 DEF AckExpected
      <3>3. NothingLost'
        <4>1. SUFFICES ASSUME ~outlived, NEW e \in put', e[1] \in Reliable
                       PROVE  e[2] \in Entries(e[1])' \/ e \in told
          BY <2>1 DEF NothingLost
        <4>2. e[1] \in Queues /\ e[1] # "archives"
          BY <4>1 DEF Reliable, Queues
        <4> QED
          BY <1>0, <2>3, <4>1, <4>2 DEF NothingLost
      <3> QED
        BY <3>2, <3>3 DEF KeptInv
    <2> QED
      BY <1>12, <2>2, <2>3, OperateEffect
  <1>13. ASSUME NEW r \in Runs, RunStep(r) PROVE KeptInv'
    <2>1. UNCHANGED <<told, put, outlived>> /\ RunEffect(r)
      BY <1>13, RunEffects
    <2>2. CASE Killed /\ queue' = queue
      BY <2>1, <2>2, KeptQuietly DEF Killed
    <2>3. ASSUME NEW k, Emitted(k), Steady, queue' = queue,
                 k \in PerElement \cup Batched \/ \A p \in Range(out') \ Range(out) : ~p.ack
          PROVE  KeptInv'
      <3>1. NothingLost'
        BY <1>0, <2>1, <2>3 DEF NothingLost, Entries
      <3>2. CoveredInv'
        <4>1. SUFFICES ASSUME ~outlived, NEW e \in put, e[1] \in Reliable,
                              NEW p \in Range(out'), p.kind = e[1], p.ack
                       PROVE  e[2] \in p.ns \/ e \in told
          BY <1>0, <2>1, <2>3 DEF CoveredInv, Steady
        <4>2. CASE p \in Range(out)
          BY <1>0, <4>1, <4>2 DEF CoveredInv
        <4>3. CASE p \notin Range(out)
          <5>1. k = e[1] /\ k \in Batched /\ p.ns = Entries(k)
            BY <2>3, <4>1, <4>3 DEF Emitted, Reliable, PerElement, Batched
          <5> QED
            BY <1>0, <4>1, <5>1 DEF NothingLost
        <4> QED
          BY <4>2, <4>3
      <3> QED
        BY <3>1, <3>2 DEF KeptInv
    <2>4. CASE Steady /\ queue' = queue /\ Range(out') = Range(out)
      BY <1>0, <2>1, <2>4 DEF KeptInv, CoveredInv, NothingLost, Entries, Steady
    <2>5. CASE Steady /\ Emptied("reads") /\ out' = out
      <3>1. \A q \in Queues : q # "reads" => queue'[q] = queue[q]
        BY <2>5, EmptiedType DEF Queues
      <3>2. \A q \in Reliable : Entries(q)' = Entries(q)
        BY <3>1 DEF Reliable, Queues, Entries
      <3> QED
        BY <1>0, <2>1, <2>5, <3>2 DEF KeptInv, CoveredInv, NothingLost, Steady
    <2> QED
      BY <2>1, <2>2, <2>3, <2>4, <2>5 DEF RunEffect
  <1>14. CASE UNCHANGED vars
    BY <1>14, KeptQuietly DEF vars
  <1> QED
    BY <1>1, <1>2, <1>3, <1>4, <1>5, <1>6, <1>7, <1>8, <1>9, <1>10, <1>11, <1>12,
       <1>13, <1>14 DEF Next

\* What the user did offline reaches the server (syncLocallyDeletedStories,
\* syncLocallyMarkedUnArchives, syncLocallyUnBlockedUser): an entry of a queue
\* that one Ack empties stays in it until the server was told, through every
\* disconnection and restart, unless a run or an Ack outlived its connection.
THEOREM NoEntryLost == Spec => []NothingLost
  <1>1. Init => KeptInv
    BY DEF Init, KeptInv, CoveredInv, NothingLost
  <1>2. TypeOK /\ FetchesInv /\ KeptInv /\ [Next]_vars => KeptInv'
    BY KeptNext
  <1>3. KeptInv => NothingLost
    BY DEF KeptInv
  <1> QED
    BY <1>1, <1>2, <1>3, TypeCorrect, FetchesInvariant, PTL DEF Spec

-----------------------------------------------------------------------------
(* What is put in a queue that is emptied too early.                       *)

\* Steps that empty no queue and put nothing, and on which nothing under way is
\* lost and no Ack is newly expected.
LEMMA CutsQuietly ==
    ASSUME TypeOK, TypeOK', CutsInv, UNCHANGED <<queue, put>>, Undisturbed' => Undisturbed,
           \A e \in put : Underway(e) => Underway(e)',
           \A k \in Queues : AckExpected(k)' => AckExpected(k),
           \A r \in Runs : run'[r] = 2 => run[r] = 2
    PROVE  CutsInv'
  <1>1. \A e \in put : e[1] \in Queues
    BY TypeParts DEF LastingTyped
  <1>2. \A r \in Runs : At(r, "clearReads")' => At(r, "clearReads")
    <2> TAKE r \in Runs
    <2>1. At(r, "clearReads") <=> run[r] = 2
      BY AtStep
    <2>2. At(r, "clearReads")' <=> run'[r] = 2
      <3>1. run'[r] \in 0 .. 11
        BY DEF TypeOK, SyncSteps
      <3> QED
        BY <3>1 DEF At, SyncSteps
    <2> QED
      BY <2>1, <2>2
  <1>3. SUFFICES ASSUME Undisturbed, NEW e \in put
                 PROVE  /\ e[1] \in {"reads", "deletions", "views"}
                              => e[2] \in Entries(e[1]) \/ Underway(e)'
                        /\ e[1] \in PerElement /\ AckExpected(e[1])' => Underway(e)'
                        /\ e[1] = "reads" /\ (\E r \in Runs : At(r, "clearReads")')
                              => Underway(e)'
    BY DEF CutsInv, Entries
  <1> QED
    BY <1>1, <1>2, <1>3 DEF CutsInv

LEMMA CutsNext == TypeOK /\ FetchesInv /\ CutsInv /\ [Next]_vars => CutsInv'
  <1> SUFFICES ASSUME TypeOK, FetchesInv, CutsInv, [Next]_vars PROVE CutsInv'
    OBVIOUS
  <1> USE DEF account, transport, history
  <1>0. /\ put \subseteq Queues \X Numbers /\ ConnectionInv /\ TypeOK'
        /\ acks \in Seq(PerElement \cup Batched) /\ out \in Seq(Packets)
        /\ run \in [Runs -> 0 .. Len(SyncSteps)] /\ Len(SyncSteps) = 11
    BY TypeParts, TypeNext DEF MemoryTyped, LastingTyped, FetchesInv, SyncSteps
  \* Steps that leave the queues of the connection alone.
  <1>1. UNCHANGED <<queue, put, told, out, acks, run, losses>> /\ (outlived => outlived')
           => CutsInv'
    <2> SUFFICES ASSUME UNCHANGED <<queue, put, told, out, acks, run, losses>>,
                        outlived => outlived'
                 PROVE  CutsInv'
      OBVIOUS
    <2>1. /\ Undisturbed' => Undisturbed
          /\ \A e \in put : Underway(e) => Underway(e)'
          /\ \A k \in Queues : AckExpected(k)' => AckExpected(k)
      BY DEF Undisturbed, Underway, AckExpected
    <2> QED
      BY <1>0, <2>1, CutsQuietly
  <1>2. ASSUME losses' = [losses EXCEPT !.restarts = @ + 1], losses.restarts < MaxRestarts
        PROVE  CutsInv'
    BY <1>2, LossType DEF CutsInv, Undisturbed
  <1>3. ASSUME AppStarts PROVE CutsInv'
    BY <1>1, <1>3 DEF AppStarts
  <1>4. ASSUME Logout PROVE CutsInv'
    <2>1. CASE callRegistered
      BY <1>4, <2>1 DEF Logout, CutsInv
    <2>2. CASE ~callRegistered
      BY <1>2, <1>4, <2>2 DEF Logout, Killed
    <2> QED
      BY <2>1, <2>2
  <1>5. ASSUME Restart PROVE CutsInv'
    BY <1>2, <1>5 DEF Restart, Killed
  <1>6. ASSUME Answers PROVE CutsInv'
    <2>1. UNCHANGED <<queue, put, told, out, acks, run, losses, outlived>>
      BY <1>6 DEF Answers, RegisterAnswer, CallRegisterAnswer, ContactsAnswer, FetchAnswer
    <2> QED
      BY <1>1, <2>1
  <1>7. ASSUME MessageStored PROVE CutsInv'
    BY <1>1, <1>7 DEF MessageStored
  <1>8. ASSUME Connect PROVE CutsInv'
    BY <1>1, <1>8 DEF Connect
  <1>9. ASSUME AccessToken PROVE CutsInv'
    <2>1. UNCHANGED <<queue, put, told, out, acks, outlived, losses>>
      BY <1>9 DEF AccessToken
    <2>2. \A r \in Runs : run'[r] = 2 => run[r] = 2
      <3>1. CASE loggedIn
        <4>1. PICK s \in Runs : SyncData(s)
          BY <1>9, <3>1 DEF AccessToken
        <4> QED
          BY <1>0, <4>1 DEF SyncData
      <3>2. CASE ~loggedIn
        BY <1>9, <3>2 DEF AccessToken
      <3> QED
        BY <3>1, <3>2
    <2>3. /\ Undisturbed' => Undisturbed
          /\ \A e \in put : Underway(e) => Underway(e)'
          /\ \A k \in Queues : AckExpected(k)' => AckExpected(k)
      BY <2>1 DEF Undisturbed, Underway, AckExpected
    <2> QED
      BY <1>0, <2>1, <2>2, <2>3, CutsQuietly
  <1>10. ASSUME Disconnect PROVE CutsInv'
    BY <1>10, LossType DEF Disconnect, CutsInv, Undisturbed
  <1>11. ASSUME ServerTakes PROVE CutsInv'
    <2>1. PICK p \in Packets :
              /\ Range(out) = {p} \cup Range(out')
              /\ told' = told \cup ({p.kind} \X p.ns)
              /\ Range(acks') = IF p.ack THEN Range(acks) \cup {p.kind} ELSE Range(acks)
      BY <1>11, TakesEffect
    <2>2. UNCHANGED <<queue, put, run, outlived, losses>>
      BY <1>11 DEF ServerTakes
    <2>3. \A e \in put : Underway(e) => Underway(e)'
      <3> TAKE e \in put
      <3>1. e = <<e[1], e[2]>>
        BY <1>0
      <3> QED
        BY <2>1, <3>1 DEF Underway
    <2>4. \A k \in Queues : AckExpected(k)' => AckExpected(k)
      BY <2>1 DEF AckExpected
    <2>5. Undisturbed' => Undisturbed
      BY <2>2 DEF Undisturbed
    <2> QED
      BY <1>0, <2>2, <2>3, <2>4, <2>5, CutsQuietly
  <1>12. ASSUME Ack PROVE CutsInv'
    <2>1. PICK k \in Queues : /\ k # "reads" /\ Range(acks) = {k} \cup Range(acks')
                              /\ \A q \in Queues : q # k => queue'[q] = queue[q]
      BY <1>12, AckEffect
    <2>2. UNCHANGED <<put, told, out, run, outlived, losses>>
      BY <1>12 DEF Ack
    <2>3. /\ AckExpected(k)
          /\ \A q \in Queues : AckExpected(q)' => AckExpected(q)
      BY <2>1, <2>2 DEF AckExpected
    <2>4. \A e \in put : Underway(e)' <=> Underway(e)
      BY <2>2 DEF Underway
    <2>5. \A r \in Runs : At(r, "clearReads")' <=> At(r, "clearReads")
      BY <2>2 DEF At
    <2>6. SUFFICES ASSUME Undisturbed, NEW e \in put
                   PROVE  /\ e[1] \in {"reads", "deletions", "views"}
                                => e[2] \in Entries(e[1])' \/ Underway(e)'
                          /\ e[1] \in PerElement /\ AckExpected(e[1])' => Underway(e)'
                          /\ e[1] = "reads" /\ (\E r \in Runs : At(r, "clearReads")')
                                => Underway(e)'
      BY <2>2 DEF CutsInv, Undisturbed
    <2>7. e[1] \in Queues
      BY <1>0
    <2>8. CASE e[1] = k
      \* The queue that is emptied: all its entries are on their way.
      <3>1. e[1] \in {"deletions", "views"} => Underway(e)
        BY <2>3, <2>6, <2>8 DEF CutsInv, PerElement
      <3> QED
        BY <2>1, <2>3, <2>4, <2>5, <2>6, <2>7, <2>8, <3>1 DEF CutsInv
    <2>9. CASE e[1] # k
      <3>1. Entries(e[1])' = Entries(e[1])
        BY <2>1, <2>7, <2>9 DEF Entries
      <3> QED
        BY <2>3, <2>4, <2>5, <2>6, <2>7, <3>1 DEF CutsInv
    <2> QED
      BY <2>8, <2>9
  <1>13. ASSUME NEW k \in Queues, OrphanAck(k) PROVE CutsInv'
    <2>1. outlived'
      BY <1>0, <1>13 DEF OrphanAck, ConnectionInv
    <2> QED
      BY <2>1 DEF CutsInv, Undisturbed
  <1>14. ASSUME NEW op \in Ops, Operate(op) PROVE CutsInv'
    <2>1. UNCHANGED <<acks, told, run, outlived, losses, orphans>>
      BY <1>14 DEF Operate
    <2>2. CASE /\ UNCHANGED <<queue, put>>
               /\ \E p \in Packets : p.ack = FALSE /\ Range(out') = Range(out) \cup {p}
      <3>1. /\ Undisturbed' => Undisturbed
            /\ \A e \in put : Underway(e) => Underway(e)'
            /\ \A k \in Queues : AckExpected(k)' => AckExpected(k)
        BY <2>1, <2>2 DEF Undisturbed, Underway, AckExpected
      <3> QED
        BY <1>0, <2>1, <2>2, <3>1, CutsQuietly
    <2>3. CASE /\ link # "ready" /\ UNCHANGED out /\ put \subseteq put'
               /\ put' \subseteq Queues \X Numbers
               /\ \A e \in put' \ put : e[2] \in Entries(e[1])'
               /\ \A k \in Queues : k # "archives" => Entries(k) \subseteq Entries(k)'
      \* The connection is not ready: no Ack is expected and no run is under way.
      <3>1. Undisturbed => /\ \A k \in Queues : ~AckExpected(k)'
                           /\ \A r \in Runs : ~At(r, "clearReads")'
        BY <1>0, <2>1, <2>3, NotIdle DEF ConnectionInv, AckExpected, Undisturbed, At
      <3>2. SUFFICES ASSUME Undisturbed, NEW e \in put'
                     PROVE  /\ e[1] \in {"reads", "deletions", "views"}
                                  => e[2] \in Entries(e[1])' \/ Underway(e)'
                            /\ e[1] \in PerElement => ~AckExpected(e[1])'
                            /\ ~(\E r \in Runs : At(r, "clearReads")')
        BY <2>1 DEF CutsInv, Undisturbed
      <3>3. e[1] \in Queues
        BY <2>3
      <3>4. Underway(e) => Underway(e)'
        BY <2>1, <2>3 DEF Underway
      <3>5. e[1] \in {"reads", "deletions", "views"} => e[2] \in Entries(e[1])' \/ Underway(e)'
        BY <2>3, <3>2, <3>3, <3>4 DEF CutsInv
      <3> QED
        BY <3>1, <3>2, <3>3, <3>5
    <2> QED
      BY <1>14, <2>2, <2>3, OperateEffect
  <1>15. ASSUME NEW r \in Runs, RunStep(r) PROVE CutsInv'
    <2>1. UNCHANGED <<told, put, outlived>> /\ RunEffect(r)
      BY <1>15, RunEffects
    <2>2. CASE Killed /\ losses.restarts < MaxRestarts
      BY <1>2, <2>2 DEF Killed
    <2>3. ASSUME Steady, NEW n \in {1, 2}, Forward(r, n)
          PROVE  /\ Undisturbed' <=> Undisturbed
                 /\ \A s \in Runs : s # r => run'[s] = run[s]
      BY <1>0, <1>15, <2>1, <2>3, RunEffects, ForwardType DEF Steady, Undisturbed
    <2>4. CASE /\ Steady /\ queue' = queue
               /\ \E n \in {1, 2} : Forward(r, n)
               /\ run'[r] # 2 /\ Range(out') = Range(out)
      <3>1. /\ \A e \in put : Underway(e) => Underway(e)'
            /\ \A k \in Queues : AckExpected(k)' => AckExpected(k)
        BY <2>1, <2>4 DEF Underway, AckExpected, Steady
      <3> QED
        BY <1>0, <2>1, <2>3, <2>4, <3>1, CutsQuietly
    <2>5. ASSUME Steady, queue' = queue, \E n \in {1, 2} : Forward(r, n),
                 NEW k, Emitted(k),
                 \/ k = "reads" /\ \A p \in Range(out') \ Range(out) : ~p.ack
                 \/ k \in PerElement \cup Batched /\ run'[r] # 2
          PROVE  CutsInv'
      <3>1. \A e \in put : /\ Underway(e) => Underway(e)'
                           /\ e[1] = k /\ e[2] \in Entries(k) => Underway(e)'
        BY <2>1, <2>5 DEF Underway, Emitted
      <3>2. \A q \in Queues : AckExpected(q)' => AckExpected(q) \/ (q = k /\ k # "reads")
        BY <2>5 DEF Emitted, AckExpected, Steady, PerElement, Batched
      <3>3. \A s \in Runs : At(s, "clearReads")' => At(s, "clearReads") \/ k = "reads"
        <4> TAKE s \in Runs
        <4>1. s # r => (At(s, "clearReads")' <=> At(s, "clearReads"))
          BY <2>3, <2>5 DEF At
        <4>2. At(r, "clearReads")' => run'[r] = 2
          <5>1. run'[r] \in 0 .. 11
            BY <1>0 DEF TypeOK, SyncSteps
          <5> QED
            BY <5>1 DEF At, SyncSteps
        <4> QED
          BY <2>5, <4>1, <4>2
      <3>4. SUFFICES ASSUME Undisturbed, NEW e \in put
                     PROVE  /\ e[1] \in {"reads", "deletions", "views"}
                                  => e[2] \in Entries(e[1])' \/ Underway(e)'
                            /\ e[1] \in PerElement /\ AckExpected(e[1])' => Underway(e)'
                            /\ e[1] = "reads" /\ (\E s \in Runs : At(s, "clearReads")')
                                  => Underway(e)'
        BY <2>1, <2>3, <2>5 DEF CutsInv
      <3>5. e[1] \in Queues /\ Entries(e[1])' = Entries(e[1])
        BY <1>0, <2>5 DEF Entries
      <3>6. e[1] \in {"reads", "deletions", "views"} => e[2] \in Entries(e[1]) \/ Underway(e)
        BY <3>4 DEF CutsInv
      <3>7. e[1] \in PerElement /\ AckExpected(e[1])' => Underway(e)'
        <4>1. CASE e[1] = k
          BY <3>1, <3>6, <4>1 DEF PerElement
        <4>2. CASE e[1] # k
          BY <3>1, <3>2, <3>4, <3>5, <4>2 DEF CutsInv
        <4> QED
          BY <4>1, <4>2
      <3>8. e[1] = "reads" /\ (\E s \in Runs : At(s, "clearReads")') => Underway(e)'
        <4>1. CASE k = "reads"
          BY <3>1, <3>6, <4>1
        <4>2. CASE k # "reads"
          BY <3>1, <3>3, <3>4, <4>2 DEF CutsInv
        <4> QED
          BY <4>1, <4>2
      <3> QED
        BY <3>1, <3>5, <3>6, <3>7, <3>8
    <2>6. CASE /\ Steady /\ Emptied("reads") /\ run[r] = 2 /\ run'[r] # 2
               /\ Forward(r, 1) /\ out' = out
      <3>1. \A q \in Queues : q # "reads" => Entries(q)' = Entries(q)
        BY <2>6, EmptiedType DEF Queues, Entries
      <3>2. \A e \in put : Underway(e)' <=> Underway(e)
        BY <2>1, <2>6 DEF Underway
      <3>3. \A q \in Queues : AckExpected(q)' <=> AckExpected(q)
        BY <2>6 DEF AckExpected, Steady
      <3>4. At(r, "clearReads")
        BY <2>6, AtStep
      <3>5. SUFFICES ASSUME Undisturbed, NEW e \in put
                     PROVE  /\ e[1] \in {"reads", "deletions", "views"}
                                  => e[2] \in Entries(e[1])' \/ Underway(e)'
                            /\ e[1] \in PerElement /\ AckExpected(e[1])' => Underway(e)'
                            /\ e[1] = "reads" => Underway(e)'
        BY <2>1, <2>3, <2>6 DEF CutsInv
      <3>6. e[1] \in Queues
        BY <1>0
      \* All that the queue of read receipts held was sent before.
      <3>7. e[1] = "reads" => Underway(e)
        BY <3>4, <3>5 DEF CutsInv
      <3> QED
        BY <3>1, <3>2, <3>3, <3>5, <3>6, <3>7 DEF CutsInv
    <2> QED
      BY <2>1, <2>2, <2>4, <2>5, <2>6 DEF RunEffect
  <1>16. CASE UNCHANGED vars
    BY <1>1, <1>16 DEF vars
  <1> QED
    BY <1>3, <1>4, <1>5, <1>6, <1>7, <1>8, <1>9, <1>10, <1>11, <1>12, <1>13, <1>14,
       <1>15, <1>16 DEF Next

\* Read receipts, deletions and views are taken from their queues before the
\* server has them (syncOfflineReadMessages, syncLocallyDeletedMessages,
\* syncLocallyViewedStories): even so, each is in its queue, on its way or told
\* as long as no connection is lost.
THEOREM OnlyCutsLose == Spec => []LostOnlyByCuts
  <1>1. Init => CutsInv
    BY DEF Init, CutsInv
  <1>2. TypeOK /\ FetchesInv /\ CutsInv /\ [Next]_vars => CutsInv'
    BY CutsNext
  <1>3. CutsInv => LostOnlyByCuts
    BY DEF CutsInv, LostOnlyByCuts, Undisturbed, Underway
  <1> QED
    BY <1>1, <1>2, <1>3, TypeCorrect, FetchesInvariant, PTL DEF Spec

=============================================================================
