----------------------------- MODULE CallRoomProofs -----------------------------
(***************************************************************************)
(* Theorems about CallRoom, for every set of calls, whatever the others    *)
(* produce and every bound.                                                *)
(***************************************************************************)
EXTENDS CallRoom, QueueLemmas

-----------------------------------------------------------------------------
(* The inductive invariants.                                               *)

\* What is on its way, in either direction.
Flying == Range(toServer) \cup Range(toClient)

\* The microphone is allowed only in an open room, or until what release
\* posted has run; a disposed device has none.
MicInv ==
    /\ mic => addAudio
    /\ addAudio /\ ~isAlreadyStarted => DisposalPending
    /\ device = "none" => ~addAudio

\* The transport that was answered last is the open room's, as are the others.
TransportsInv ==
    /\ Without({"late"}) /\ createWebRtcTransport # NoCall
          => isAlreadyStarted /\ createWebRtcTransport = CALL_ID
    /\ TransportsServeTheOpenRoom

\* The device of an open room is loaded, or the answer that loads it will come.
Loading == \E m \in Flying : m.op \in {"JOIN", "CAPS"}
DeviceInv ==
    Without({"swept"}) /\ isAlreadyStarted =>
        \/ device \in {"loaded", "crashed"}
        \/ device = "new" /\ Loading

\* A microphone that is on in an open room is produced there, or will be when
\* the room's restart is answered, or goes off with a disposal.
Restarting == \E m \in Flying : m.op \in {"JOIN", "CAPS", "SEND"} /\ m.nc
AudioInv ==
    Without({"late"}) /\ isAlreadyStarted /\ mic /\ Alive =>
        sending = CALL_ID \/ DisposalPending \/ Restarting

\* A room that is open, or about to be opened again.
Open == isAlreadyStarted \/ RestartPosted

StartsOf(c) == {m \in Messages : m.op \in {"START", "STARTED"} /\ m.call = c}
Starts == {m \in Messages : m.op \in {"START", "STARTED"}}
EndOf(c) == {m \in Messages : m.op = "END" /\ m.call = c}

\* After place i of the queue q to the client no call starts before call c ends;
\* and c ends, unless it is the call l that is on.
EndsAfter(q, l, i, c) ==
    \/ l = c /\ \A j \in DOMAIN q : j > i => q[j] \notin Starts
    \/ \E j \in DOMAIN q :
          /\ j > i /\ q[j] \in EndOf(c)
          /\ \A k \in DOMAIN q : i < k /\ k < j => q[k] \notin Starts

\* Each call of u that starts in q does so once, and ends before the next starts.
StartsInOrder(q, l, u) ==
    \A i \in DOMAIN q : q[i] \in Starts =>
        /\ q[i].call \in u
        /\ EndsAfter(q, l, i, q[i].call)
        /\ \A j \in DOMAIN q : q[j] \in StartsOf(q[i].call) => i = j

\* Something is posted once at most.
OnceAtMost(q, d) == \A i, j \in DOMAIN q : q[i] = d /\ q[j] = d => i = j

\* The room that is open is the active call's, its end is announced before the
\* next call, and it is opened again once at most.
Excused == {"crossed", "overtaken"}
RoomInv ==
    Without(Excused) =>
        /\ isAlreadyStarted => ~RestartPosted
        /\ OnceAtMost(posted, "restart")
        /\ Open => /\ CALL_ID = active /\ active # NoCall
                   /\ EndsAfter(toClient, live, 0, active)

\* What is announced, hung up and active: each call starts once, and a room that
\* is open has not been hung up.
HungUp(c) == \E m \in Flying : m.op = "HANG_UP" /\ m.call = c
CallsInv ==
    /\ active # NoCall => active \in used /\ Absent(toClient, StartsOf(active))
    /\ live # NoCall => live \in used
    /\ StartsInOrder(toClient, live, used)
    /\ \A c \in Rooms : HungUp(c) =>
          /\ c \in used /\ Absent(toClient, StartsOf(c))
          /\ Without(Excused) => ~(Open /\ c = CALL_ID)

-----------------------------------------------------------------------------
(* Messages and queues.                                                    *)

\* A message is a record of its parts.
LEMMA MsgType ==
    ASSUME NEW op \in Ops, NEW c \in Rooms, NEW nc \in BOOLEAN, NEW peer \in BOOLEAN,
           NEW P \in SUBSET Producers
    PROVE  /\ Msg(op, c, nc, peer, P) \in Messages
           /\ Msg(op, c, nc, peer, P).op = op /\ Msg(op, c, nc, peer, P).call = c
           /\ Msg(op, c, nc, peer, P).nc = nc /\ Msg(op, c, nc, peer, P).peer = peer
  BY DEF Msg, Messages

LEMMA PlainType ==
    ASSUME NEW op \in Ops, NEW c \in Rooms
    PROVE  /\ Plain(op, c) \in Messages
           /\ Plain(op, c).op = op /\ Plain(op, c).call = c /\ Plain(op, c).nc = FALSE
           /\ Plain(op, c).prods = {}
  BY MsgType DEF Plain, Msg

\* The parts of a message.
LEMMA MessageParts ==
    ASSUME NEW m \in Messages
    PROVE  /\ m.op \in Ops /\ m.call \in Rooms /\ m.nc \in BOOLEAN /\ m.peer \in BOOLEAN
           /\ m.prods \in SUBSET Producers
           /\ \A c \in Rooms : /\ [m EXCEPT !.call = c] \in Messages
                               /\ [m EXCEPT !.call = c].op = m.op
                               /\ [m EXCEPT !.call = c].nc = m.nc
  BY DEF Messages

\* A request is sent.
LEMMA EmitEffect ==
    ASSUME toServer \in Seq(Messages), NEW m \in Messages, Emit(m)
    PROVE  toServer' \in Seq(Messages) /\ Range(toServer') = Range(toServer) \cup {m}
  <1>1. toServer' = Append(toServer, m)
    BY DEF Emit
  <1> QED
    BY <1>1, GrownQueue, GrownRange

\* Nothing is sent that asks for a send transport.
Sends == {m \in Messages : m.op = "SEND"}
SentQuietly ==
    \/ toServer' = toServer
    \/ \E m \in Messages : m \notin Sends /\ toServer' = Append(toServer, m)
    \/ \E r \in Seq(Messages) : Absent(r, Sends) /\ toServer' = toServer \o r

\* Another request is sent.
LEMMA EmitQuietly ==
    ASSUME NEW m \in Messages, m.op # "SEND", Emit(m)
    PROVE  SentQuietly
  BY DEF Emit, SentQuietly, Sends

\* The requests for the receive transports.
LEMMA ReceiverRequestsType ==
    /\ ReceiverRequests \in Seq(Messages) /\ Tail(ReceiverRequests) \in Seq(Messages)
    /\ \A m \in Range(ReceiverRequests) \cup Range(Tail(ReceiverRequests)) :
          m.op \in {"RECV", "RECV_VIDEO"}
  <1>0. "RECV" \in Ops /\ "RECV_VIDEO" \in Ops /\ NoCall \in Rooms
    BY DEF Ops, Rooms
  <1>1. PICK a \in Messages : a = Plain("RECV", NoCall) /\ a.op = "RECV"
    <2>1. Plain("RECV", NoCall) \in Messages /\ Plain("RECV", NoCall).op = "RECV"
      BY <1>0, PlainType
    <2> QED
      BY <2>1
  <1>2. PICK b \in Messages : b = Plain("RECV_VIDEO", NoCall) /\ b.op = "RECV_VIDEO"
    <2>1. Plain("RECV_VIDEO", NoCall) \in Messages /\ Plain("RECV_VIDEO", NoCall).op = "RECV_VIDEO"
      BY <1>0, PlainType
    <2> QED
      BY <2>1
  <1>3. ReceiverRequests = <<a, b>>
    BY <1>1, <1>2 DEF ReceiverRequests
  <1>4. <<a, b>> \in Seq(Messages) /\ <<a, b>> # <<>> /\ Len(<<a, b>>) = 2
        /\ DOMAIN <<a, b>> = {1, 2} /\ <<a, b>>[1] = a /\ <<a, b>>[2] = b
    OBVIOUS
  <1> HIDE DEF ReceiverRequests
  <1>5. Range(ReceiverRequests) = {a, b}
    BY <1>3, <1>4 DEF Range
  <1>6. Tail(ReceiverRequests) \in Seq(Messages)
        /\ Range(Tail(ReceiverRequests)) \subseteq Range(ReceiverRequests)
    BY <1>3, <1>4, TakenQueue, TakenRange
  <1> QED
    BY <1>1, <1>2, <1>3, <1>4, <1>5, <1>6

\* All transports are asked for, of an open room.
LEMMA AskEffect ==
    ASSUME toServer \in Seq(Messages), NEW nc \in BOOLEAN, NEW peer \in BOOLEAN,
           AskTransports(nc, peer)
    PROVE  /\ toServer' \in Seq(Messages)
           /\ Range(toServer) \subseteq Range(toServer')
           /\ \A m \in Range(toServer') \ Range(toServer) :
                 m.op \in {"SEND", "RECV", "RECV_VIDEO"}
           /\ isAlreadyStarted => \E m \in Range(toServer') : m.op = "SEND" /\ m.nc = nc
  <1>1. CASE ~isAlreadyStarted
    BY <1>1 DEF AskTransports
  <1>2. CASE isAlreadyStarted
    <2>1. PICK a \in Messages : /\ a = Msg("SEND", NoCall, nc, peer, {})
                                /\ a.op = "SEND" /\ a.nc = nc
      BY MsgType DEF Ops, Rooms
    <2>2. PICK q \in Seq(Messages) : q = <<a>> /\ Range(q) = {a}
      <3>1. <<a>> \in Seq(Messages) /\ DOMAIN <<a>> = {1} /\ <<a>>[1] = a
        OBVIOUS
      <3>2. Range(<<a>>) = {a}
        BY <3>1 DEF Range
      <3> QED
        BY <3>1, <3>2
    <2>3. PICK r \in Seq(Messages) : r = ReceiverRequests
      BY ReceiverRequestsType
    <2>4. PICK s \in Seq(Messages) : s = toServer \o q /\ Range(s) = Range(toServer) \cup Range(q)
      BY JoinedQueue, JoinedRange, ZenonT(60)
    <2>5. toServer' = s \o r
      BY <1>2, <2>1, <2>2, <2>3, <2>4 DEF AskTransports
    <2>6. toServer' \in Seq(Messages)
          /\ Range(toServer') = Range(toServer) \cup {a} \cup Range(ReceiverRequests)
      <3>1. s \o r \in Seq(Messages) /\ Range(s \o r) = Range(s) \cup Range(r)
        BY JoinedQueue, JoinedRange
      <3> QED
        BY <2>2, <2>3, <2>4, <2>5, <3>1
    <2> QED
      BY <2>1, <2>6, ReceiverRequestsType
  <1> QED
    BY <1>1, <1>2

\* Something is posted to the main thread.
LEMMA PostEffect ==
    ASSUME posted \in Seq({"dispose", "restart", "timer"}),
           NEW d \in {"dispose", "restart", "timer"}, posted' = Append(posted, d)
    PROVE  /\ posted' \in Seq({"dispose", "restart", "timer"})
           /\ DisposalPending' <=> DisposalPending \/ d # "timer"
           /\ RestartPosted' <=> RestartPosted \/ d = "restart"
  <1>1. /\ posted' \in Seq({"dispose", "restart", "timer"})
        /\ Range(posted') = Range(posted) \cup {d}
    BY GrownQueue, GrownRange
  <1>2. /\ DisposalPending <=> \E p \in Range(posted) : p \in {"dispose", "restart"}
        /\ DisposalPending' <=> \E p \in Range(posted') : p \in {"dispose", "restart"}
        /\ RestartPosted <=> "restart" \in Range(posted)
        /\ RestartPosted' <=> "restart" \in Range(posted')
    BY DEF Range, DisposalPending, RestartPosted
  <1> QED
    BY <1>1, <1>2

\* The main thread takes what was posted first.
LEMMA RunPostedEffect ==
    ASSUME posted \in Seq({"dispose", "restart", "timer"}), posted # <<>>,
           posted' = Tail(posted)
    PROVE  /\ posted' \in Seq({"dispose", "restart", "timer"})
           /\ Head(posted) \in {"dispose", "restart", "timer"}
           /\ DisposalPending <=> DisposalPending' \/ Head(posted) # "timer"
           /\ RestartPosted <=> RestartPosted' \/ Head(posted) = "restart"
  <1>1. /\ posted' \in Seq({"dispose", "restart", "timer"})
        /\ Head(posted) \in {"dispose", "restart", "timer"}
        /\ Range(posted) = {Head(posted)} \cup Range(posted')
    BY TakenQueue, TakenRange
  <1>2. /\ DisposalPending <=> \E p \in Range(posted) : p \in {"dispose", "restart"}
        /\ DisposalPending' <=> \E p \in Range(posted') : p \in {"dispose", "restart"}
        /\ RestartPosted <=> "restart" \in Range(posted)
        /\ RestartPosted' <=> "restart" \in Range(posted')
    BY DEF Range, DisposalPending, RestartPosted
  <1> QED
    BY <1>1, <1>2


\* A room is opened: its join is sent.
LEMMA InitializeEffect ==
    ASSUME toServer \in Seq(Messages), NEW c \in Rooms, NEW nc \in BOOLEAN, Initialize(c, nc)
    PROVE  /\ toServer' \in Seq(Messages) /\ SentQuietly
           /\ \E j \in Messages : /\ j.op = "JOIN" /\ j.nc = nc /\ j.call = c
                                  /\ Range(toServer') = Range(toServer) \cup {j}
  <1>0. "JOIN" \in Ops
    BY DEF Ops
  <1>1. PICK j \in Messages : /\ j = Msg("JOIN", c, nc, FALSE, {})
                              /\ j.op = "JOIN" /\ j.nc = nc /\ j.call = c
    <2>1. FALSE \in BOOLEAN /\ {} \in SUBSET Producers
      OBVIOUS
    <2>2. PICK P \in SUBSET Producers, peer \in BOOLEAN : P = {} /\ peer = FALSE
      BY <2>1
    <2>3. /\ Msg("JOIN", c, nc, peer, P) \in Messages
          /\ Msg("JOIN", c, nc, peer, P).op = "JOIN" /\ Msg("JOIN", c, nc, peer, P).nc = nc
          /\ Msg("JOIN", c, nc, peer, P).call = c
      BY <1>0, MsgType
    <2> QED
      BY <2>2, <2>3
  <1>2. Emit(j)
    BY <1>1 DEF Initialize
  <1> QED
    BY <1>1, <1>2, EmitEffect, EmitQuietly

\* Streams are added: the producers of the others are asked for, now or later.
LEMMA AskForProducers ==
    ASSUME toServer \in Seq(Messages),
           \/ Emit(Plain("GET_PRODUCERS", NoCall))
           \/ toServer' = toServer
    PROVE  /\ toServer' \in Seq(Messages) /\ SentQuietly
           /\ Range(toServer) \subseteq Range(toServer')
           /\ \A m \in Range(toServer') \ Range(toServer) : m.op = "GET_PRODUCERS"
  <1>0. "GET_PRODUCERS" \in Ops /\ NoCall \in Rooms
    BY DEF Ops, Rooms
  <1>1. /\ Plain("GET_PRODUCERS", NoCall) \in Messages
        /\ Plain("GET_PRODUCERS", NoCall).op = "GET_PRODUCERS"
    BY <1>0, PlainType
  <1>2. CASE Emit(Plain("GET_PRODUCERS", NoCall))
    <2>1. PICK m \in Messages : m = Plain("GET_PRODUCERS", NoCall) /\ m.op = "GET_PRODUCERS"
      BY <1>1
    <2>2. Emit(m)
      BY <1>2, <2>1
    <2> QED
      BY <2>1, <2>2, EmitEffect, EmitQuietly
  <1> QED
    BY <1>2 DEF SentQuietly

LEMMA ProduceEffect ==
    ASSUME toServer \in Seq(Messages), NEW t, ProduceOn(t)
    PROVE  /\ toServer' \in Seq(Messages) /\ SentQuietly
           /\ Range(toServer) \subseteq Range(toServer')
           /\ \A m \in Range(toServer') \ Range(toServer) : m.op = "GET_PRODUCERS"
  <1>1. Emit(Plain("GET_PRODUCERS", NoCall)) \/ toServer' = toServer
    BY DEF ProduceOn
  <1> QED
    BY <1>1, AskForProducers

\* A task asks for its consumer, or finds no room to receive in.
LEMMA RunTaskEffect ==
    ASSUME toServer \in Seq(Messages), NEW p \in Producers, RunTask(p)
    PROVE  /\ toServer' \in Seq(Messages) /\ SentQuietly
           /\ Range(toServer) \subseteq Range(toServer')
           /\ \A m \in Range(toServer') \ Range(toServer) : m.op = "CONSUME"
  <1>0. "CONSUME" \in Ops /\ NoCall \in Rooms
    BY DEF Ops, Rooms
  <1>1. PICK m \in Messages : m = Msg("CONSUME", NoCall, FALSE, FALSE, {p}) /\ m.op = "CONSUME"
    <2>1. FALSE \in BOOLEAN /\ {p} \in SUBSET Producers
      OBVIOUS
    <2>2. PICK P \in SUBSET Producers, f \in BOOLEAN : P = {p} /\ f = FALSE
      BY <2>1
    <2>3. Msg("CONSUME", NoCall, f, f, P) \in Messages /\ Msg("CONSUME", NoCall, f, f, P).op = "CONSUME"
      BY <1>0, MsgType
    <2> QED
      BY <2>2, <2>3
  <1>2. Emit(m) \/ toServer' = toServer
    BY <1>1 DEF RunTask
  <1>3. CASE Emit(m)
    BY <1>1, <1>3, EmitEffect, EmitQuietly
  <1> QED
    BY <1>2, <1>3 DEF SentQuietly

\* What the event thread does with the message it takes.
Handled(m) ==
    \/ OnStart(m) \/ InitiateAck(m) \/ OnEnd(m) \/ HangUpAck(m) \/ JoinAck(m)
    \/ CapsAck(m) \/ SendAck(m) \/ RecvAck(m) \/ RecvVideoAck(m)
    \/ OnProducers(m) \/ ConsumeAck(m)

\* The event thread takes the message that arrived first.
LEMMA ReceiveEffect ==
    ASSUME toClient \in Seq(Messages), Receive
    PROVE  /\ toClient # <<>> /\ toClient' = Tail(toClient) /\ toClient' \in Seq(Messages)
           /\ Head(toClient) \in Messages /\ Handled(Head(toClient))
           /\ Range(toClient) = {Head(toClient)} \cup Range(toClient')
           /\ UNCHANGED server
  <1>1. toClient # <<>> /\ toClient' = Tail(toClient) /\ Handled(Head(toClient)) /\ UNCHANGED server
    BY DEF Receive, Handled
  <1> QED
    BY <1>1, TakenQueue, TakenRange

\* The Ack of a join asks for the capabilities.
LEMMA JoinAckEffect ==
    ASSUME toServer \in Seq(Messages), NEW m \in Messages, JoinAck(m)
    PROVE  /\ toServer' \in Seq(Messages) /\ SentQuietly
           /\ \E c \in Messages : /\ c.op = "CAPS" /\ c.nc = m.nc
                                  /\ Range(toServer') = Range(toServer) \cup {c}
  <1>0. "CAPS" \in Ops /\ NoCall \in Rooms /\ m.nc \in BOOLEAN
    BY MessageParts DEF Ops, Rooms
  <1>1. PICK c \in Messages : c = Msg("CAPS", NoCall, m.nc, FALSE, {}) /\ c.op = "CAPS" /\ c.nc = m.nc
    <2>1. FALSE \in BOOLEAN /\ {} \in SUBSET Producers
      OBVIOUS
    <2>2. PICK P \in SUBSET Producers, f \in BOOLEAN, nc \in BOOLEAN : P = {} /\ f = FALSE /\ nc = m.nc
      BY <1>0, <2>1
    <2>3. /\ Msg("CAPS", NoCall, nc, f, P) \in Messages /\ Msg("CAPS", NoCall, nc, f, P).op = "CAPS"
          /\ Msg("CAPS", NoCall, nc, f, P).nc = nc
      BY <1>0, MsgType
    <2> QED
      BY <2>2, <2>3
  <1>2. Emit(c)
    BY <1>1 DEF JoinAck
  <1> QED
    BY <1>1, <1>2, EmitEffect, EmitQuietly

\* A consumer without a transport asks for the transports again.
LEMMA ConsumeAckEffect ==
    ASSUME toServer \in Seq(Messages), NEW m \in Messages, ConsumeAck(m)
    PROVE  /\ toServer' \in Seq(Messages) /\ SentQuietly
           /\ Range(toServer) \subseteq Range(toServer')
           /\ \A n \in Range(toServer') \ Range(toServer) : n.op \in {"RECV", "RECV_VIDEO"}
  <1>1. \/ toServer' = toServer
        \/ \E r \in {ReceiverRequests, Tail(ReceiverRequests)} : toServer' = toServer \o r
    BY DEF ConsumeAck
  <1>2. ASSUME NEW r \in {ReceiverRequests, Tail(ReceiverRequests)}, toServer' = toServer \o r
        PROVE  /\ toServer' \in Seq(Messages) /\ SentQuietly
               /\ Range(toServer) \subseteq Range(toServer')
               /\ \A n \in Range(toServer') \ Range(toServer) : n.op \in {"RECV", "RECV_VIDEO"}
    <2>1. r \in Seq(Messages) /\ \A n \in Range(r) : n.op \in {"RECV", "RECV_VIDEO"}
      BY ReceiverRequestsType
    <2>2. toServer \o r \in Seq(Messages) /\ Range(toServer \o r) = Range(toServer) \cup Range(r)
      BY <2>1, JoinedQueue, JoinedRange
    <2>3. Absent(r, Sends)
      <3>1. \A i \in DOMAIN r : r[i] \in Range(r)
        BY <2>1 DEF Range
      <3> QED
        BY <2>1, <3>1 DEF Absent, Sends
    <2> QED
      BY <1>2, <2>1, <2>2, <2>3 DEF SentQuietly
  <1> QED
    BY <1>1, <1>2 DEF SentQuietly

\* What the handlers send: nothing is taken back, no hang-up is sent, and only
\* the room that is open is joined.
LEMMA HandlerSends ==
    ASSUME toServer \in Seq(Messages), NEW m \in Messages, Handled(m)
    PROVE  /\ toServer' \in Seq(Messages)
           /\ Range(toServer) \subseteq Range(toServer')
           /\ ~CapsAck(m) => SentQuietly
           /\ \A n \in Range(toServer') \ Range(toServer) :
                 n.op # "HANG_UP" /\ (n.op = "JOIN" => n.call = CALL_ID')
  <1>0. m.call \in Rooms /\ m.nc \in BOOLEAN /\ FALSE \in BOOLEAN
    BY MessageParts
  <1>1. CASE OnStart(m) \/ InitiateAck(m)
    <2>1. PICK nc \in BOOLEAN : nc = FALSE
      OBVIOUS
    <2>2. toServer' = toServer \/ Initialize(m.call, nc)
      BY <1>1, <2>1 DEF OnStart, InitiateAck
    <2>3. Initialize(m.call, nc) => CALL_ID' = m.call
      BY DEF Initialize
    <2> QED
      BY <1>0, <2>2, <2>3, InitializeEffect DEF SentQuietly
  <1>2. CASE OnEnd(m) \/ HangUpAck(m) \/ RecvAck(m) \/ RecvVideoAck(m)
    BY <1>2 DEF OnEnd, HangUpAck, RecvAck, RecvVideoAck, SentQuietly
  <1>3. CASE JoinAck(m)
    BY <1>3, JoinAckEffect
  <1>4. CASE CapsAck(m)
    <2>1. PICK peer \in BOOLEAN : peer = FALSE
      OBVIOUS
    <2>2. AskTransports(m.nc, peer)
      BY <1>4, <2>1 DEF CapsAck
    <2> QED
      BY <1>0, <1>4, <2>2, AskEffect
  <1>5. CASE SendAck(m)
    <2>1. toServer' = toServer \/ \E t \in {m.call, sendT} : ProduceOn(t)
      BY <1>5 DEF SendAck, Overflow
    <2> QED
      BY <2>1, ProduceEffect DEF SentQuietly
  <1>6. CASE OnProducers(m)
    <2>1. Emit(Plain("GET_PRODUCERS", NoCall)) \/ toServer' = toServer
      BY <1>6 DEF OnProducers
    <2> QED
      BY <2>1, AskForProducers
  <1>7. CASE ConsumeAck(m)
    BY <1>7, ConsumeAckEffect
  <1> QED
    BY <1>1, <1>2, <1>3, <1>4, <1>5, <1>6, <1>7 DEF Handled

\* The server's answer to a request: at most one message, never the begin or the
\* end of a call; an answered request keeps its operation.
LEMMA ServeEffect ==
    ASSUME toClient \in Seq(Messages), joined \in Rooms, srvProducers \subseteq Producers,
           NEW m \in Messages, Serve(m)
    PROVE  /\ toClient' \in Seq(Messages)
           /\ \/ toClient' = toClient
              \/ \E a \in Messages :
                    /\ toClient' = Append(toClient, a)
                    /\ a.op = m.op \/ a.op = "PRODUCERS"
                    /\ a.op \in {"JOIN", "CONSUME", "HANG_UP"} => a = m
                    /\ a.op = m.op => a.nc = m.nc
           /\ m.op \in {"JOIN", "CAPS", "SEND", "HANG_UP"} =>
                 \E a \in Messages : /\ toClient' = Append(toClient, a)
                                     /\ a.op = m.op /\ a.nc = m.nc
                                     /\ m.op \in {"JOIN", "HANG_UP"} => a = m
  <1>1. ASSUME NEW a \in Messages, Push(a) PROVE toClient' \in Seq(Messages)
    BY <1>1, GrownQueue DEF Push
  <1>2. CASE m.op \in {"JOIN", "HANG_UP"}
    <2>1. Push(m)
      BY <1>2 DEF Serve
    <2> QED
      BY <1>1, <1>2, <2>1 DEF Push
  <1>3. CASE m.op \in {"CAPS", "SEND", "RECV", "RECV_VIDEO"}
    <2>1. PICK a \in Messages : a = [m EXCEPT !.call = joined] /\ a.op = m.op /\ a.nc = m.nc
      BY MessageParts
    <2>2. Push(a)
      BY <1>3, <2>1 DEF Serve
    <2> QED
      BY <1>1, <1>3, <2>1, <2>2 DEF Push
  <1>4. CASE m.op = "GET_PRODUCERS"
    <2>1. PICK P \in SUBSET Producers : P = {p \in srvProducers : p[1] = joined}
      OBVIOUS
    <2>2. PICK a \in Messages : a = Msg("PRODUCERS", joined, FALSE, FALSE, P) /\ a.op = "PRODUCERS"
      <3>1. "PRODUCERS" \in Ops /\ FALSE \in BOOLEAN
        BY DEF Ops
      <3>2. PICK f \in BOOLEAN : f = FALSE
        OBVIOUS
      <3>3. Msg("PRODUCERS", joined, f, f, P) \in Messages /\ Msg("PRODUCERS", joined, f, f, P).op = "PRODUCERS"
        BY <3>1, MsgType
      <3> QED
        BY <3>2, <3>3
    <2>3. toClient' = toClient \/ Push(a)
      BY <1>4, <2>1, <2>2 DEF Serve
    <2> QED
      BY <1>1, <1>4, <2>2, <2>3 DEF Push
  <1>5. CASE m.op = "CONSUME"
    <2>1. toClient' = toClient \/ Push(m)
      BY <1>5 DEF Serve
    <2> QED
      BY <1>1, <1>5, <2>1 DEF Push
  <1> QED
    BY <1>2, <1>3, <1>4, <1>5 DEF Serve

\* Only a request for a send transport is answered with one.
LEMMA ServeOps ==
    ASSUME toClient \in Seq(Messages), joined \in Rooms, srvProducers \subseteq Producers,
           NEW m \in Messages, Serve(m),
           NEW a \in Messages, toClient' = Append(toClient, a), a.op # "PRODUCERS"
    PROVE  a.op = m.op
  <1>1. \A b \in Messages : Append(toClient, b) # toClient
    <2>1. \A b \in Messages : Len(Append(toClient, b)) = Len(toClient) + 1 /\ Len(toClient) \in Nat
      OBVIOUS
    <2> QED
      BY <2>1
  <1>2. PICK b \in Messages : toClient' = Append(toClient, b) /\ (b.op = m.op \/ b.op = "PRODUCERS")
    BY <1>1, ServeEffect
  <1>3. a = b
    BY <1>2, LastEntry
  <1> QED
    BY <1>2, <1>3

\* That is the transport of the room the device has joined.
LEMMA ServeSends ==
    ASSUME toClient \in Seq(Messages), joined \in Rooms, srvProducers \subseteq Producers,
           NEW m \in Messages, Serve(m)
    PROVE  \A a \in Range(toClient') \ Range(toClient) :
              a.op = "SEND" => a.call = joined /\ m.op = "SEND"
  <1>1. ASSUME NEW a \in Messages, toClient' = Append(toClient, a), a.op = "SEND"
        PROVE  a.call = joined /\ m.op = "SEND"
    <2>1. m.op = "SEND"
      BY <1>1, ServeOps
    <2>2. toClient' = Append(toClient, [m EXCEPT !.call = joined])
      BY <2>1 DEF Serve, Push
    <2>3. [m EXCEPT !.call = joined].call = joined /\ [m EXCEPT !.call = joined] \in Messages
      BY DEF Messages
    <2>4. a = [m EXCEPT !.call = joined]
      BY <1>1, <2>2, <2>3, LastEntry
    <2> QED
      BY <2>1, <2>3, <2>4
  <1>2. ASSUME NEW a \in Messages, toClient' = Append(toClient, a)
        PROVE  Range(toClient') = Range(toClient) \cup {a}
    BY <1>2, GrownRange
  <1> QED
    BY <1>1, <1>2, ServeEffect

\* A call begins: its start is announced.
LEMMA CallBeginsEffect ==
    ASSUME toClient \in Seq(Messages), NEW c \in Calls, CallBegins(c)
    PROVE  /\ toClient' \in Seq(Messages)
           /\ \E a \in Messages : a \in StartsOf(c) /\ toClient' = Append(toClient, a)
  <1>1. "START" \in Ops /\ "STARTED" \in Ops /\ c \in Rooms
    BY DEF Ops, Rooms
  <1>2. PICK how \in {"START", "STARTED"} : Push(Plain(how, c))
    BY DEF CallBegins
  <1>3. PICK a \in Messages : a = Plain(how, c) /\ a.op = how /\ a.call = c
    <2>0. how \in Ops
      BY <1>1
    <2>1. Plain(how, c) \in Messages /\ Plain(how, c).op = how /\ Plain(how, c).call = c
      BY <1>1, <2>0, PlainType
    <2> QED
      BY <2>1
  <1>4. toClient' = Append(toClient, a)
    BY <1>2, <1>3 DEF Push
  <1> QED
    BY <1>3, <1>4, GrownQueue DEF StartsOf

\* The call that is on ends: that is announced.
LEMMA CallEndsEffect ==
    ASSUME toClient \in Seq(Messages), live \in Rooms, CallEnds
    PROVE  /\ toClient' \in Seq(Messages)
           /\ \E a \in Messages : a \in EndOf(live) /\ toClient' = Append(toClient, a)
           /\ live' = NoCall /\ srvProducers' = {} /\ NoCall \in Rooms
  <1>1. "END" \in Ops /\ NoCall \in Rooms
    BY DEF Ops, Rooms
  <1>2. PICK a \in Messages : a = Plain("END", live) /\ a.op = "END" /\ a.call = live
    <2>1. Plain("END", live) \in Messages /\ Plain("END", live).op = "END" /\ Plain("END", live).call = live
      BY <1>1, PlainType
    <2> QED
      BY <2>1
  <1>3. toClient' = Append(toClient, a)
    BY <1>2 DEF CallEnds, Push
  <1> QED
    BY <1>1, <1>2, <1>3, GrownQueue DEF EndOf, CallEnds

\* Somebody produces: the room is told, if the device has joined it.
LEMMA OtherProducesEffect ==
    ASSUME toClient \in Seq(Messages), live \in Rooms, NEW k \in Kinds, OtherProduces(k)
    PROVE  /\ toClient' \in Seq(Messages)
           /\ \/ toClient' = toClient
              \/ \E a \in Messages : a.op = "PRODUCERS" /\ toClient' = Append(toClient, a)
  <1>1. "PRODUCERS" \in Ops /\ FALSE \in BOOLEAN
    BY DEF Ops
  <1>2. PICK P \in SUBSET Producers, f \in BOOLEAN : P = {<<live, k>>} /\ f = FALSE
    <2>1. {<<live, k>>} \in SUBSET Producers
      BY DEF OtherProduces, Rooms, Producers
    <2> QED
      BY <1>1, <2>1
  <1>3. PICK a \in Messages : a = Msg("PRODUCERS", live, FALSE, FALSE, {<<live, k>>}) /\ a.op = "PRODUCERS"
    <2>1. Msg("PRODUCERS", live, f, f, P) \in Messages /\ Msg("PRODUCERS", live, f, f, P).op = "PRODUCERS"
      BY <1>1, MsgType
    <2> QED
      BY <1>2, <2>1
  <1>4. toClient' = toClient \/ toClient' = Append(toClient, a)
    BY <1>3 DEF OtherProduces, Push
  <1>5. Append(toClient, a) \in Seq(Messages)
    BY GrownQueue
  <1> QED
    BY <1>3, <1>4, <1>5

-----------------------------------------------------------------------------
(* Type correctness.                                                       *)

QueuesTyped ==
    /\ posted \in Seq({"dispose", "restart", "timer"})
    /\ toServer \in Seq(Messages) /\ toClient \in Seq(Messages)

ServerTyped ==
    /\ joined \in Rooms /\ live \in Rooms
    /\ used \subseteq Calls /\ srvProducers \subseteq Producers

RoomsTyped ==
    /\ active \in Rooms /\ CALL_ID \in Rooms /\ sendT \in Rooms /\ recvT \in Rooms
    /\ recvVideoT \in Rooms /\ createWebRtcTransport \in Rooms /\ sending \in Rooms

FlagsTyped ==
    /\ isAlreadyStarted \in BOOLEAN /\ factory \in BOOLEAN /\ rootEgl \in BOOLEAN
    /\ recAdded \in BOOLEAN /\ recVideoAdded \in BOOLEAN /\ streamsAdded \in BOOLEAN
    /\ addAudio \in BOOLEAN /\ mic \in BOOLEAN /\ timer \in BOOLEAN
    /\ device \in {"none", "new", "loaded", "crashed"}

ConsumersTyped ==
    /\ mConsumers = <<>> \/ \E S \in SUBSET Producers : mConsumers = <<S>>
    /\ tasks \subseteq Producers

CountsTyped == sleepers \in Nat /\ failures \in Nat /\ mishaps \subseteq Mishaps

ClientTyped == RoomsTyped /\ FlagsTyped /\ ConsumersTyped /\ CountsTyped

LEMMA TypeParts ==
    /\ TypeOK <=> QueuesTyped /\ ServerTyped /\ ClientTyped
    /\ TypeOK' <=> QueuesTyped' /\ ServerTyped' /\ ClientTyped'
  <1>1. TypeOK <=> QueuesTyped /\ ServerTyped /\ ClientTyped
    BY DEF TypeOK, QueuesTyped, ServerTyped, ClientTyped, RoomsTyped, FlagsTyped,
           ConsumersTyped, CountsTyped
  <1>2. TypeOK' <=> QueuesTyped' /\ ServerTyped' /\ ClientTyped'
    BY DEF TypeOK, QueuesTyped, ServerTyped, ClientTyped, RoomsTyped, FlagsTyped,
           ConsumersTyped, CountsTyped
  <1> QED
    BY <1>1, <1>2

LEMMA TypeInit == Init => TypeOK
  <1> SUFFICES ASSUME Init PROVE QueuesTyped /\ ServerTyped /\ ClientTyped
    BY TypeParts
  <1>1. QueuesTyped
    BY EmptySeq DEF Init, QueuesTyped
  <1>2. ServerTyped
    BY DEF Init, ServerTyped, Rooms
  <1>3. RoomsTyped /\ FlagsTyped /\ CountsTyped
    BY DEF Init, RoomsTyped, FlagsTyped, CountsTyped, Rooms
  <1>4. ConsumersTyped
    <2>1. mConsumers = <<{}>> /\ {} \in SUBSET Producers /\ tasks = {}
      BY DEF Init
    <2> QED
      BY <2>1 DEF ConsumersTyped
  <1> QED
    BY <1>1, <1>2, <1>3, <1>4 DEF ClientTyped

\* A new room has no consumers.
LEMMA NoConsumers ==
    ASSUME ConsumersTyped, mConsumers' \in {mConsumers, <<{}>>, <<>>}, tasks' = tasks
    PROVE  ConsumersTyped'
  <1>1. {} \in SUBSET Producers
    OBVIOUS
  <1> QED
    BY <1>1 DEF ConsumersTyped

\* What the main thread does.
LEMMA MainType ==
    ASSUME TypeOK, MainThread
    PROVE  QueuesTyped' /\ ServerTyped' /\ ClientTyped'
  <1> USE DEF room, streams, receivers, server, history
  <1>0. /\ QueuesTyped /\ ServerTyped /\ RoomsTyped /\ FlagsTyped /\ ConsumersTyped
        /\ CountsTyped /\ NoCall \in Rooms
    BY TypeParts DEF ClientTyped, Rooms
  <1>1. CASE AddCallStreams
    <2>1. QueuesTyped'
      <3>1. CASE \E t \in Rooms : ProduceOn(t)
        BY <1>0, <1>1, <3>1, ProduceEffect DEF AddCallStreams, QueuesTyped
      <3>2. CASE AskTransports(FALSE, TRUE)
        BY <1>0, <1>1, <3>2, AskEffect DEF AddCallStreams, QueuesTyped
      <3> QED
        BY <1>0, <1>1, <3>1, <3>2 DEF AddCallStreams, RoomsTyped
    <2>2. RoomsTyped'
      BY <1>0, <1>1 DEF AddCallStreams, ProduceOn, RoomsTyped
    <2>3. FlagsTyped'
      BY <1>0, <1>1 DEF AddCallStreams, ProduceOn, FlagsTyped
    <2>4. CountsTyped'
      <3>1. sleepers' = sleepers \/ sleepers' = sleepers + 1
        BY <1>1 DEF AddCallStreams, ProduceOn
      <3>2. failures' = failures /\ mishaps' = mishaps
        BY <1>1 DEF AddCallStreams
      <3> QED
        BY <1>0, <3>1, <3>2 DEF CountsTyped
    <2> QED
      BY <1>0, <1>1, <2>1, <2>2, <2>3, <2>4
         DEF AddCallStreams, ServerTyped, ConsumersTyped, ClientTyped
  <1>2. CASE HangUp
    <2>1. toServer' \in Seq(Messages)
      <3>1. CASE active # NoCall
        <4>1. "HANG_UP" \in Ops
          BY DEF Ops
        <4>2. Plain("HANG_UP", active) \in Messages
          BY <1>0, <4>1, PlainType DEF RoomsTyped
        <4>3. PICK m \in Messages : m = Plain("HANG_UP", active)
          BY <4>2
        <4>4. Emit(m)
          BY <1>2, <3>1, <4>3 DEF HangUp
        <4> QED
          BY <1>0, <4>4, EmitEffect DEF QueuesTyped
      <3>2. CASE active = NoCall
        BY <1>0, <1>2, <3>2 DEF HangUp, QueuesTyped
      <3> QED
        BY <3>1, <3>2
    <2>2. posted' \in Seq({"dispose", "restart", "timer"})
      BY <1>0, <1>2, PostEffect DEF HangUp, ReleaseIfStarted, Release, QueuesTyped
    <2>3. QueuesTyped'
      BY <1>0, <1>2, <2>1, <2>2 DEF HangUp, QueuesTyped
    <2>4. RoomsTyped'
      BY <1>0, <1>2 DEF HangUp, ReleaseIfStarted, Release, RoomsTyped
    <2>5. FlagsTyped'
      BY <1>0, <1>2 DEF HangUp, ReleaseIfStarted, Release, FlagsTyped
    <2>6. CountsTyped'
      BY <1>0, <1>2 DEF HangUp, ReleaseIfStarted, Note, CountsTyped, Mishaps
    <2> QED
      BY <1>0, <1>2, <2>3, <2>4, <2>5, <2>6 DEF HangUp, ServerTyped, ConsumersTyped, ClientTyped
  <1>3. CASE TimerFires
    <2>1. posted' \in Seq({"dispose", "restart", "timer"})
      BY <1>0, <1>3, PostEffect DEF TimerFires, Release, QueuesTyped
    <2>2. RoomsTyped' /\ FlagsTyped'
      BY <1>0, <1>3 DEF TimerFires, Release, RoomsTyped, FlagsTyped
    <2> QED
      BY <1>0, <1>3, <2>1, <2>2
         DEF TimerFires, QueuesTyped, ServerTyped, ConsumersTyped, CountsTyped, ClientTyped
  <1>4. CASE RunPosted
    <2>1. posted' \in Seq({"dispose", "restart", "timer"})
      BY <1>0, <1>4, RunPostedEffect DEF RunPosted, QueuesTyped
    <2>2. ASSUME toServer' \in Seq(Messages), RoomsTyped', FlagsTyped',
                 mConsumers' \in {mConsumers, <<{}>>, <<>>}, mishaps' \subseteq Mishaps
          PROVE  QueuesTyped' /\ ServerTyped' /\ ClientTyped'
      BY <1>0, <1>4, <2>1, <2>2, NoConsumers
         DEF RunPosted, QueuesTyped, ServerTyped, CountsTyped, ClientTyped
    <2>3. CASE Dispose
      <3>1. mConsumers' \in {mConsumers, <<{}>>, <<>>} /\ mishaps' \subseteq Mishaps
        BY <1>0, <2>3 DEF Dispose, DropConsumers, Note, CountsTyped, Mishaps
      <3>2. RoomsTyped'
        BY <1>0, <1>4, <2>3 DEF RunPosted, Dispose, DropTransports, RoomsTyped
      <3>3. FlagsTyped'
        BY <1>0, <1>4, <2>3 DEF RunPosted, Dispose, FlagsTyped
      <3> QED
        BY <1>0, <2>2, <2>3, <3>1, <3>2, <3>3 DEF Dispose, QueuesTyped
    <2>4. CASE Restart
      <3>1. Initialize(CALL_ID, TRUE)
        BY <2>4 DEF Restart
      <3>2. toServer' \in Seq(Messages)
        BY <1>0, <3>1, InitializeEffect DEF QueuesTyped, RoomsTyped
      <3>3. RoomsTyped'
        BY <1>0, <1>4, <2>4, <3>1 DEF RunPosted, Restart, DropTransports, Initialize, RoomsTyped
      <3>4. FlagsTyped'
        BY <1>0, <1>4, <2>4, <3>1 DEF RunPosted, Restart, Initialize, FlagsTyped
      <3>5. mConsumers' \in {mConsumers, <<{}>>, <<>>} /\ mishaps' \subseteq Mishaps
        BY <1>0, <2>4, <3>1 DEF Restart, Initialize, CountsTyped
      <3> QED
        BY <2>2, <3>2, <3>3, <3>4, <3>5
    <2>5. CASE SetTheTimer
      <3>1. RoomsTyped' /\ FlagsTyped'
        BY <1>0, <1>4, <2>5 DEF RunPosted, SetTheTimer, RoomsTyped, FlagsTyped
      <3> QED
        BY <1>0, <2>2, <2>5, <3>1 DEF SetTheTimer, QueuesTyped, CountsTyped
    <2> QED
      BY <1>4, <2>3, <2>4, <2>5 DEF RunPosted
  <1> QED
    BY <1>1, <1>2, <1>3, <1>4 DEF MainThread

\* What the background threads do.
LEMMA BackgroundType ==
    ASSUME TypeOK, Background
    PROVE  QueuesTyped' /\ ServerTyped' /\ ClientTyped'
  <1> USE DEF room, streams, receivers, server, history
  <1>0. /\ QueuesTyped /\ ServerTyped /\ RoomsTyped /\ FlagsTyped /\ ConsumersTyped
        /\ CountsTyped /\ NoCall \in Rooms
    BY TypeParts DEF ClientTyped, Rooms
  <1>1. CASE TransportFails
    <2>1. posted' \in Seq({"dispose", "restart", "timer"})
      BY <1>0, <1>1, PostEffect DEF TransportFails, QueuesTyped
    <2> QED
      BY <1>0, <1>1, <2>1 DEF TransportFails, QueuesTyped, ServerTyped, RoomsTyped,
         FlagsTyped, ConsumersTyped, CountsTyped, ClientTyped
  <1>2. CASE TransportRecovers
    BY <1>0, <1>2, ZenonT(60) DEF TransportRecovers, QueuesTyped, ServerTyped, RoomsTyped,
       FlagsTyped, ConsumersTyped, CountsTyped, ClientTyped
  <1>3. CASE WakeUp
    <2>1. Emit(Plain("GET_PRODUCERS", NoCall))
      BY <1>3 DEF WakeUp
    <2>2. toServer' \in Seq(Messages)
      BY <1>0, <2>1, AskForProducers DEF QueuesTyped
    <2> QED
      BY <1>0, <1>3, <2>2 DEF WakeUp, QueuesTyped, ServerTyped, RoomsTyped,
         FlagsTyped, ConsumersTyped, CountsTyped, ClientTyped
  <1>4. ASSUME NEW p \in Producers, RunTask(p)
        PROVE  QueuesTyped' /\ ServerTyped' /\ ClientTyped'
    <2>1. toServer' \in Seq(Messages)
      BY <1>0, <1>4, RunTaskEffect DEF QueuesTyped
    <2>2. ConsumersTyped'
      BY <1>0, <1>4 DEF RunTask, ConsumersTyped
    <2> QED
      BY <1>0, <1>4, <2>1, <2>2 DEF RunTask, QueuesTyped, ServerTyped, RoomsTyped,
         FlagsTyped, CountsTyped, ClientTyped
  <1> QED
    BY <1>1, <1>2, <1>3, <1>4 DEF Background

\* What the event thread does with a message.
LEMMA ReceiveType ==
    ASSUME TypeOK, Receive
    PROVE  QueuesTyped' /\ ServerTyped' /\ ClientTyped'
  <1> USE DEF room, streams, receivers, server, history
  <1>0. /\ QueuesTyped /\ ServerTyped /\ RoomsTyped /\ FlagsTyped /\ ConsumersTyped
        /\ CountsTyped /\ NoCall \in Rooms
    BY TypeParts DEF ClientTyped, Rooms
  <1>1. PICK m \in Messages : m = Head(toClient) /\ Handled(m)
    BY <1>0, ReceiveEffect DEF QueuesTyped
  <1>2. toClient' \in Seq(Messages)
    BY <1>0, ReceiveEffect DEF QueuesTyped
  <1>3. toServer' \in Seq(Messages)
    BY <1>0, <1>1, HandlerSends DEF QueuesTyped
  <1>4. m.call \in Rooms /\ m.prods \in SUBSET Producers
    BY MessageParts
  <1>5. posted' \in Seq({"dispose", "restart", "timer"})
    BY <1>0, <1>1, PostEffect DEF QueuesTyped, Handled, OnStart, InitiateAck, OnEnd, HangUpAck,
       JoinAck, CapsAck, SendAck, RecvAck, RecvVideoAck, OnProducers, ConsumeAck,
       ReleaseIfStarted, Release
  <1>6. QueuesTyped' /\ ServerTyped'
    BY <1>0, <1>2, <1>3, <1>5 DEF Receive, QueuesTyped, ServerTyped
  <1>7. mishaps' \subseteq Mishaps /\ failures' = failures
        /\ (sleepers' = sleepers \/ sleepers' = sleepers + 1)
    BY <1>0, <1>1 DEF CountsTyped, Mishaps, Note, Handled, OnStart, InitiateAck, OnEnd, HangUpAck,
       JoinAck, CapsAck, SendAck, ProduceOn, Overflow, RecvAck, RecvVideoAck, OnProducers,
       ConsumeAck, ReleaseIfStarted, Release
  <1>8. CountsTyped'
    BY <1>0, <1>7 DEF CountsTyped
  <1>9. ConsumersTyped'
    <2>1. CASE OnProducers(m)
      BY <1>0, <1>4, <2>1 DEF OnProducers, ConsumersTyped
    <2>2. CASE ConsumeAck(m)
      <3>1. tasks' = tasks
        BY <2>2 DEF ConsumeAck
      <3>2. \/ mConsumers' = mConsumers
            \/ \E p \in m.prods : mConsumers' = IF mConsumers = <<>> THEN <<>>
                                                ELSE <<mConsumers[1] \cup {p}>>
        BY <2>2 DEF ConsumeAck
      <3>3. ASSUME NEW p \in m.prods, mConsumers # <<>>,
                   mConsumers' = <<mConsumers[1] \cup {p}>>
            PROVE  \E S \in SUBSET Producers : mConsumers' = <<S>>
        <4>1. PICK S \in SUBSET Producers : mConsumers = <<S>>
          BY <1>0, <3>3 DEF ConsumersTyped
        <4>2. mConsumers[1] = S
          BY <4>1
        <4>3. S \cup {p} \in SUBSET Producers
          BY <1>4
        <4> QED
          BY <3>3, <4>2, <4>3
      <3> QED
        BY <1>0, <3>1, <3>2, <3>3 DEF ConsumersTyped
    <2>3. CASE ~OnProducers(m) /\ ~ConsumeAck(m)
      <3>1. mConsumers' \in {mConsumers, <<{}>>, <<>>} /\ tasks' = tasks
        BY <1>1, <2>3 DEF Handled, OnStart, InitiateAck, OnEnd, HangUpAck, JoinAck, CapsAck, SendAck,
           RecvAck, RecvVideoAck, Initialize
      <3> QED
        BY <1>0, <3>1, NoConsumers
    <2> QED
      BY <2>1, <2>2, <2>3
  <1>10. RoomsTyped'
    <2>1. CASE OnStart(m) \/ InitiateAck(m) \/ OnEnd(m) \/ HangUpAck(m)
      BY <1>0, <1>4, <2>1 DEF OnStart, InitiateAck, OnEnd, HangUpAck, Initialize,
         ReleaseIfStarted, Release, RoomsTyped
    <2>2. CASE SendAck(m) \/ RecvAck(m) \/ RecvVideoAck(m)
      BY <1>0, <1>4, <2>2 DEF SendAck, RecvAck, RecvVideoAck, ProduceOn, Overflow, RoomsTyped
    <2>3. CASE JoinAck(m) \/ CapsAck(m) \/ OnProducers(m) \/ ConsumeAck(m)
      BY <1>0, <2>3 DEF JoinAck, CapsAck, OnProducers, ConsumeAck, RoomsTyped
    <2> QED
      BY <1>1, <2>1, <2>2, <2>3 DEF Handled
  <1>11. FlagsTyped'
    <2>1. CASE OnStart(m)
      BY <1>0, <2>1 DEF OnStart, Initialize, FlagsTyped
    <2>2. CASE InitiateAck(m)
      BY <1>0, <2>2 DEF InitiateAck, Initialize, FlagsTyped
    <2>3. CASE OnEnd(m)
      BY <1>0, <2>3 DEF OnEnd, ReleaseIfStarted, Release, FlagsTyped
    <2>4. CASE SendAck(m)
      BY <1>0, <2>4 DEF SendAck, ProduceOn, Overflow, FlagsTyped
    <2>5. CASE RecvAck(m)
      BY <1>0, <2>5 DEF RecvAck, FlagsTyped
    <2>6. CASE RecvVideoAck(m)
      BY <1>0, <2>6 DEF RecvVideoAck, FlagsTyped
    <2>7. CASE HangUpAck(m)
      BY <1>0, <2>7 DEF HangUpAck, FlagsTyped
    <2>8. CASE JoinAck(m)
      BY <1>0, <2>8 DEF JoinAck, FlagsTyped
    <2>9. CASE CapsAck(m)
      BY <1>0, <2>9 DEF CapsAck, FlagsTyped
    <2>10. CASE OnProducers(m)
      BY <1>0, <2>10 DEF OnProducers, FlagsTyped
    <2>11. CASE ConsumeAck(m)
      BY <1>0, <2>11 DEF ConsumeAck, FlagsTyped
    <2> QED
      BY <1>1, <2>1, <2>2, <2>3, <2>4, <2>5, <2>6, <2>7, <2>8, <2>9, <2>10, <2>11 DEF Handled
  <1> QED
    BY <1>6, <1>8, <1>9, <1>10, <1>11 DEF ClientTyped

\* What the server and the others do.
LEMMA ServerType ==
    ASSUME TypeOK, ServerStep \/ Others
    PROVE  QueuesTyped' /\ ServerTyped' /\ ClientTyped'
  <1>0. /\ QueuesTyped /\ ServerTyped /\ RoomsTyped /\ FlagsTyped /\ ConsumersTyped
        /\ CountsTyped /\ NoCall \in Rooms
    BY TypeParts DEF ClientTyped, Rooms
  <1>1. UNCHANGED client
    BY DEF ServerStep, Others
  <1>2. ClientTyped' /\ posted' = posted
    BY <1>0, <1>1 DEF client, room, streams, receivers, history, RoomsTyped, FlagsTyped,
       ConsumersTyped, CountsTyped, ClientTyped
  <1>3. CASE ServerStep
    <2>1. PICK m \in Messages : m = Head(toServer) /\ Serve(m)
      BY <1>0, <1>3, TakenQueue DEF ServerStep, QueuesTyped
    <2>2. toServer' \in Seq(Messages)
      BY <1>0, <1>3, TakenQueue DEF ServerStep, QueuesTyped
    <2>3. toClient' \in Seq(Messages)
      BY <1>0, <2>1, ServeEffect DEF QueuesTyped, ServerTyped
    <2>4. ServerTyped'
      <3>1. m.call \in Rooms
        BY MessageParts
      <3> QED
        BY <1>0, <2>1, <3>1 DEF Serve, server, ServerTyped
    <2> QED
      BY <1>0, <1>2, <2>2, <2>3, <2>4 DEF QueuesTyped
  <1>4. CASE Others
    <2>1. toServer' = toServer
      BY <1>4 DEF Others
    <2>2. ASSUME CallEnds PROVE toClient' \in Seq(Messages) /\ ServerTyped'
      BY <1>0, <2>2, CallEndsEffect DEF QueuesTyped, ServerTyped, CallEnds
    <2>3. ASSUME NEW c \in Calls, CallBegins(c)
          PROVE  toClient' \in Seq(Messages) /\ ServerTyped'
      BY <1>0, <2>3, CallBeginsEffect DEF QueuesTyped, ServerTyped, CallBegins, Rooms
    <2>4. ASSUME NEW k \in Kinds, OtherProduces(k)
          PROVE  toClient' \in Seq(Messages) /\ ServerTyped'
      <3>1. toClient' \in Seq(Messages)
        BY <1>0, <2>4, OtherProducesEffect DEF QueuesTyped, ServerTyped
      <3>2. <<live, k>> \in Producers
        BY <1>0, <2>4 DEF OtherProduces, ServerTyped, Rooms, Producers
      <3> QED
        BY <1>0, <2>4, <3>1, <3>2 DEF OtherProduces, ServerTyped
    <2> QED
      BY <1>0, <1>2, <1>4, <2>1, <2>2, <2>3, <2>4 DEF Others, QueuesTyped
  <1> QED
    BY <1>3, <1>4

\* Every step keeps the types.
LEMMA TypeNext == TypeOK /\ [Next]_vars => TypeOK'
  <1> SUFFICES ASSUME TypeOK, [Next]_vars PROVE TypeOK'
    OBVIOUS
  <1>1. CASE Next
    BY <1>1, TypeParts, MainType, BackgroundType, ReceiveType, ServerType DEF Next
  <1>2. CASE UNCHANGED vars
    <2>1. /\ QueuesTyped /\ ServerTyped /\ RoomsTyped /\ FlagsTyped /\ ConsumersTyped
          /\ CountsTyped
      BY TypeParts DEF ClientTyped
    <2>2. QueuesTyped' /\ ServerTyped' /\ RoomsTyped' /\ FlagsTyped' /\ ConsumersTyped'
          /\ CountsTyped'
      BY <1>2, <2>1 DEF vars, room, streams, receivers, server, history, QueuesTyped,
         ServerTyped, RoomsTyped, FlagsTyped, ConsumersTyped, CountsTyped
    <2> QED
      BY <2>2, TypeParts DEF ClientTyped
  <1> QED
    BY <1>1, <1>2

\* All variables of the room client stay in their types (CallRoom.TypeOK).
THEOREM TypeCorrect == Spec => []TypeOK
  BY TypeInit, TypeNext, PTL DEF Spec

-----------------------------------------------------------------------------
(* What is posted and what is on its way, step by step.                    *)

\* Nothing is posted, something is, or the main thread runs what was.
LEMMA PostedSteps ==
    ASSUME TypeOK, Next
    PROVE  \/ posted' = posted
           \/ \E d \in {"dispose", "restart", "timer"} : posted' = Append(posted, d)
           \/ RunPosted
  <1>1. CASE MainThread
    BY <1>1 DEF MainThread, AddCallStreams, HangUp, ReleaseIfStarted, TimerFires, Release
  <1>2. CASE Background
    BY <1>2 DEF Background, TransportFails, TransportRecovers, WakeUp, RunTask
  <1>3. CASE Receive
    <2>1. PICK m \in Messages : Handled(m)
      BY <1>3, TypeParts, ReceiveEffect DEF QueuesTyped
    <2> QED
      BY <2>1 DEF Handled, OnStart, InitiateAck, OnEnd, HangUpAck, JoinAck, CapsAck, SendAck,
         RecvAck, RecvVideoAck, OnProducers, ConsumeAck, ReleaseIfStarted, Release
  <1>4. CASE ServerStep \/ Others
    BY <1>4 DEF ServerStep, Others, client
  <1> QED
    BY <1>1, <1>2, <1>3, <1>4 DEF Next

\* What is posted stays so until the main thread runs it.
LEMMA PendingKept ==
    ASSUME TypeOK, Next, ~RunPosted
    PROVE  /\ DisposalPending => DisposalPending'
           /\ posted' = posted => (DisposalPending' <=> DisposalPending)
                                  /\ (RestartPosted' <=> RestartPosted)
  <1>1. posted' = posted => /\ DisposalPending' <=> DisposalPending
                            /\ RestartPosted' <=> RestartPosted
    BY DEF DisposalPending, RestartPosted
  <1>2. ASSUME NEW d \in {"dispose", "restart", "timer"}, posted' = Append(posted, d)
        PROVE  DisposalPending => DisposalPending'
    BY <1>2, PostEffect, TypeParts DEF QueuesTyped
  <1> QED
    BY <1>1, <1>2, PostedSteps

\* The main thread and the background take nothing back.
LEMMA MainFlies ==
    ASSUME TypeOK, MainThread \/ Background
    PROVE  Flying \subseteq Flying' /\ toClient' = toClient
  <1>0. /\ toServer \in Seq(Messages) /\ NoCall \in Rooms /\ active \in Rooms /\ CALL_ID \in Rooms
        /\ TRUE \in BOOLEAN /\ FALSE \in BOOLEAN
    BY TypeParts DEF QueuesTyped, ClientTyped, RoomsTyped, Rooms
  <1>1. toClient' = toClient
    BY DEF MainThread, AddCallStreams, HangUp, TimerFires, RunPosted, Background,
       TransportFails, TransportRecovers, WakeUp, RunTask
  <1>2. Range(toServer) \subseteq Range(toServer')
    <2>1. CASE AddCallStreams
      BY <1>0, <2>1, ProduceEffect, AskEffect DEF AddCallStreams
    <2>2. CASE HangUp
      <3>1. CASE toServer' = toServer
        BY <3>1
      <3>2. CASE Emit(Plain("HANG_UP", active))
        <4>1. "HANG_UP" \in Ops
          BY DEF Ops
        <4>2. Plain("HANG_UP", active) \in Messages
          BY <1>0, <4>1, PlainType
        <4>3. PICK m \in Messages : m = Plain("HANG_UP", active)
          BY <4>2
        <4>4. Emit(m)
          BY <3>2, <4>3
        <4> QED
          BY <1>0, <4>4, EmitEffect
      <3> QED
        BY <2>2, <3>1, <3>2 DEF HangUp
    <2>3. CASE RunPosted
      <3>1. PICK nc \in BOOLEAN : nc = TRUE
        OBVIOUS
      <3>2. toServer' = toServer \/ Initialize(CALL_ID, nc)
        BY <2>3, <3>1 DEF RunPosted, Dispose, Restart, SetTheTimer
      <3> QED
        BY <1>0, <3>2, InitializeEffect
    <2>4. CASE WakeUp
      BY <1>0, <2>4, AskForProducers DEF WakeUp
    <2>5. ASSUME NEW p \in Producers, RunTask(p) PROVE Range(toServer) \subseteq Range(toServer')
      BY <1>0, <2>5, RunTaskEffect
    <2>6. CASE TimerFires \/ TransportFails \/ TransportRecovers
      BY <2>6 DEF TimerFires, TransportFails, TransportRecovers
    <2> QED
      BY <2>1, <2>2, <2>3, <2>4, <2>5, <2>6 DEF MainThread, Background
  <1> QED
    BY <1>1, <1>2 DEF Flying

\* The event thread takes one message and takes nothing else back.
LEMMA ReceiveFlies ==
    ASSUME TypeOK, Receive
    PROVE  /\ Head(toClient) \in Messages /\ Handled(Head(toClient))
           /\ Flying \subseteq Flying' \cup {Head(toClient)}
  <1>1. toServer \in Seq(Messages) /\ toClient \in Seq(Messages)
    BY TypeParts DEF QueuesTyped
  <1>2. PICK m \in Messages : m = Head(toClient) /\ Handled(m)
                              /\ Range(toClient) = {m} \cup Range(toClient')
    BY <1>1, ReceiveEffect
  <1>3. Range(toServer) \subseteq Range(toServer')
    BY <1>1, <1>2, HandlerSends
  <1> QED
    BY <1>2, <1>3 DEF Flying

\* The server answers, and what it has not answered stays on its way: the
\* requests that open a room and those that open it again.
LEMMA ServerFlies ==
    ASSUME TypeOK, ServerStep \/ Others
    PROVE  (Loading => Loading') /\ (Restarting => Restarting')
  <1>0. /\ toServer \in Seq(Messages) /\ toClient \in Seq(Messages)
        /\ joined \in Rooms /\ live \in Rooms /\ srvProducers \subseteq Producers
    BY TypeParts DEF QueuesTyped, ServerTyped
  <1>1. CASE ServerStep
    <2>1. PICK m \in Messages : /\ m = Head(toServer) /\ Serve(m)
                                /\ Range(toServer) = {m} \cup Range(toServer')
      BY <1>0, <1>1, TakenQueue, TakenRange DEF ServerStep
    <2>2. Range(toClient) \subseteq Range(toClient')
      <3>1. ASSUME NEW a \in Messages, toClient' = Append(toClient, a)
            PROVE  Range(toClient) \subseteq Range(toClient')
        BY <1>0, <3>1, GrownRange
      <3> QED
        BY <1>0, <2>1, <3>1, ServeEffect
    <2>3. m.op \in {"JOIN", "CAPS", "SEND"} =>
             \E a \in Range(toClient') : a.op = m.op /\ a.nc = m.nc
      <3>1. SUFFICES ASSUME m.op \in {"JOIN", "CAPS", "SEND"}
                     PROVE  \E a \in Range(toClient') : a.op = m.op /\ a.nc = m.nc
        OBVIOUS
      <3>2. PICK a \in Messages : toClient' = Append(toClient, a) /\ a.op = m.op /\ a.nc = m.nc
        BY <1>0, <2>1, <3>1, ServeEffect
      <3> QED
        BY <1>0, <3>2, GrownRange
    <2> QED
      BY <2>1, <2>2, <2>3 DEF Flying, Loading, Restarting
  <1>2. CASE Others
    <2>1. toServer' = toServer
      BY <1>2 DEF Others
    <2>2. toClient' = toClient \/ \E a \in Messages : toClient' = Append(toClient, a)
      BY <1>0, <1>2, CallEndsEffect, CallBeginsEffect, OtherProducesEffect DEF Others
    <2>3. Range(toClient) \subseteq Range(toClient')
      <3>1. ASSUME NEW a \in Messages, toClient' = Append(toClient, a)
            PROVE  Range(toClient) \subseteq Range(toClient')
        BY <1>0, <3>1, GrownRange
      <3> QED
        BY <2>2, <3>1
    <2> QED
      BY <2>1, <2>3 DEF Flying, Loading, Restarting
  <1> QED
    BY <1>1, <1>2

-----------------------------------------------------------------------------
(* The microphone.                                                         *)

\* Producing on a transport turns the microphone on if that is allowed.
LEMMA ProduceParts ==
    ASSUME NEW t, ProduceOn(t)
    PROVE  /\ mic' => mic \/ addAudio
           /\ sendT' = t
           /\ addAudio => sending' = t
           /\ ~addAudio => sending' = sending
  <1>1. mic' = (mic \/ addAudio)
    BY DEF ProduceOn
  <1>2. mic' => mic \/ addAudio
    BY <1>1
  <1> QED
    BY <1>2 DEF ProduceOn

\* The Ack of the send transport produces, fails for ever, or only makes it.
LEMMA SendAckParts ==
    ASSUME NEW m \in Messages, SendAck(m)
    PROVE  LET t == IF device = "loaded" THEN m.call ELSE sendT IN
           /\ \/ ProduceOn(t) /\ t # NoCall /\ device' = device
              \/ device' = "crashed" /\ UNCHANGED <<mic, sending, sendT>>
              \/ /\ m.nc => device = "none"
                 /\ sendT' = t /\ UNCHANGED <<device, mic, sending>>
           /\ m.op = "SEND" /\ createWebRtcTransport' = m.call
           /\ mishaps' = IF Late(m) THEN mishaps \cup {"late"} ELSE mishaps
           /\ UNCHANGED <<isAlreadyStarted, CALL_ID, addAudio, recvT, recvVideoT, posted, timer>>
  BY DEF SendAck, Overflow, streams, room, receivers, Note

\* A step that leaves the track, the device and the room alone.
LEMMA MicQuietly ==
    ASSUME MicInv, UNCHANGED <<mic, addAudio, isAlreadyStarted, device>>,
           DisposalPending => DisposalPending'
    PROVE  MicInv'
  BY DEF MicInv

\* What the main thread does to the microphone.
LEMMA MicMain ==
    ASSUME TypeOK, MicInv, MainThread
    PROVE  MicInv'
  <1> USE DEF room, streams, receivers, server, history
  <1>0. FlagsTyped /\ posted \in Seq({"dispose", "restart", "timer"})
    BY TypeParts DEF ClientTyped, QueuesTyped
  <1>1. CASE AddCallStreams
    <2>1. DisposalPending' <=> DisposalPending
      BY <1>1 DEF AddCallStreams, DisposalPending
    <2>2. UNCHANGED <<addAudio, isAlreadyStarted, device>> /\ (mic' => mic \/ addAudio)
      <3>1. UNCHANGED <<addAudio, isAlreadyStarted, device>>
            /\ (mic' = mic \/ \E t \in {sendT, createWebRtcTransport} : ProduceOn(t))
        BY <1>1 DEF AddCallStreams
      <3> QED
        BY <3>1, ProduceParts
    <2> QED
      BY <2>1, <2>2 DEF MicInv
  <1>2. CASE HangUp
    <2>1. CASE isAlreadyStarted
      <3>1. posted' = Append(posted, "dispose")
        BY <1>2, <2>1 DEF HangUp, ReleaseIfStarted, Release
      <3>2. DisposalPending'
        BY <1>0, <3>1, PostEffect
      <3> QED
        BY <1>2, <2>1, <3>2 DEF HangUp, ReleaseIfStarted, Release, MicInv
    <2>2. CASE ~isAlreadyStarted
      <3>1. UNCHANGED <<posted, mic, addAudio, isAlreadyStarted, device>>
        BY <1>2, <2>2 DEF HangUp, ReleaseIfStarted
      <3>2. DisposalPending' <=> DisposalPending
        BY <3>1 DEF DisposalPending
      <3> QED
        BY <3>1, <3>2, MicQuietly
    <2> QED
      BY <2>1, <2>2
  <1>3. CASE TimerFires
    <2>1. CASE isAlreadyStarted
      <3>1. posted' = Append(posted, "restart")
        BY <1>3, <2>1 DEF TimerFires, Release
      <3>2. DisposalPending'
        BY <1>0, <3>1, PostEffect
      <3> QED
        BY <1>3, <2>1, <3>2 DEF TimerFires, Release, MicInv
    <2>2. CASE ~isAlreadyStarted
      <3>1. UNCHANGED <<posted, mic, addAudio, isAlreadyStarted, device>>
        BY <1>3, <2>2 DEF TimerFires
      <3>2. DisposalPending' <=> DisposalPending
        BY <3>1 DEF DisposalPending
      <3> QED
        BY <3>1, <3>2, MicQuietly
    <2> QED
      BY <2>1, <2>2
  <1>4. CASE RunPosted
    <2>1. CASE Dispose
      BY <2>1 DEF Dispose, MicInv
    <2>2. CASE Restart
      BY <1>0, <2>2 DEF Restart, Initialize, MicInv, FlagsTyped
    <2>3. CASE SetTheTimer
      <3>1. DisposalPending' <=> DisposalPending
        BY <1>0, <1>4, <2>3, RunPostedEffect DEF RunPosted, SetTheTimer
      <3> QED
        BY <2>3, <3>1, MicQuietly DEF SetTheTimer
    <2> QED
      BY <1>4, <2>1, <2>2, <2>3 DEF RunPosted
  <1> QED
    BY <1>1, <1>2, <1>3, <1>4 DEF MainThread

\* What the event thread does to the microphone.
LEMMA MicReceive ==
    ASSUME TypeOK, MicInv, Receive, DisposalPending => DisposalPending'
    PROVE  MicInv'
  <1> USE DEF room, streams, receivers, server, history
  <1>0. FlagsTyped /\ posted \in Seq({"dispose", "restart", "timer"})
    BY TypeParts DEF ClientTyped, QueuesTyped
  <1>1. PICK m \in Messages : m = Head(toClient) /\ Handled(m)
    BY ReceiveFlies
  <1>2. CASE OnStart(m)
    BY <1>0, <1>2 DEF OnStart, Initialize, MicInv, FlagsTyped
  <1>3. CASE InitiateAck(m)
    BY <1>0, <1>3 DEF InitiateAck, Initialize, MicInv, FlagsTyped
  <1>4. CASE OnEnd(m)
    <2>1. CASE m.call = active /\ isAlreadyStarted
      <3>1. posted' = Append(posted, "dispose")
        BY <1>4, <2>1 DEF OnEnd, ReleaseIfStarted, Release
      <3>2. DisposalPending'
        BY <1>0, <3>1, PostEffect
      <3> QED
        BY <1>4, <2>1, <3>2 DEF OnEnd, ReleaseIfStarted, Release, MicInv
    <2>2. CASE ~(m.call = active /\ isAlreadyStarted)
      BY <1>4, <2>2, MicQuietly DEF OnEnd, ReleaseIfStarted
    <2> QED
      BY <2>1, <2>2
  <1>5. CASE CapsAck(m)
    BY <1>0, <1>5 DEF CapsAck, MicInv, FlagsTyped
  <1>6. CASE SendAck(m)
    <2>1. UNCHANGED <<addAudio, isAlreadyStarted>> /\ (mic' => mic \/ addAudio)
          /\ (device' = device \/ device' = "crashed")
      BY <1>6, SendAckParts, ProduceParts
    <2> QED
      BY <2>1 DEF MicInv
  <1>7. CASE HangUpAck(m) \/ JoinAck(m) \/ RecvAck(m) \/ RecvVideoAck(m) \/ OnProducers(m)
             \/ ConsumeAck(m)
    <2>1. UNCHANGED <<mic, addAudio, isAlreadyStarted, device>>
      BY <1>7 DEF HangUpAck, JoinAck, RecvAck, RecvVideoAck, OnProducers, ConsumeAck
    <2> QED
      BY <2>1, MicQuietly
  <1> QED
    BY <1>1, <1>2, <1>3, <1>4, <1>5, <1>6, <1>7 DEF Handled

\* The background, the server and the others leave the microphone alone.
LEMMA MicNext == TypeOK /\ MicInv /\ [Next]_vars => MicInv'
  <1> SUFFICES ASSUME TypeOK, MicInv, [Next]_vars PROVE MicInv'
    OBVIOUS
  <1>1. CASE UNCHANGED vars
    BY <1>1 DEF vars, room, streams, MicInv, DisposalPending
  <1>2. CASE Next /\ ~MainThread
    <2>1. DisposalPending => DisposalPending'
      BY <1>2, PendingKept DEF MainThread
    <2>2. CASE Receive
      BY <2>1, <2>2, MicReceive
    <2>3. CASE Background \/ ServerStep \/ Others
      <3>1. UNCHANGED <<mic, addAudio, isAlreadyStarted, device>>
        BY <2>3 DEF Background, TransportFails, TransportRecovers, WakeUp, RunTask, ServerStep,
           Others, client, room, streams
      <3> QED
        BY <2>1, <3>1, MicQuietly
    <2> QED
      BY <1>2, <2>2, <2>3 DEF Next
  <1> QED
    BY <1>1, <1>2, MicMain DEF Next

LEMMA MicInit == Init => MicInv
  BY DEF Init, MicInv

\* The microphone is never left on outside a room: what release posted will
\* take it away (CallRoom.NoOrphanMicrophone).
THEOREM MicrophoneGoesOff == Spec => []NoOrphanMicrophone
  <1>1. MicInv => NoOrphanMicrophone
    BY DEF MicInv, NoOrphanMicrophone
  <1> QED
    BY <1>1, TypeInit, TypeNext, MicInit, MicNext, PTL DEF Spec

-----------------------------------------------------------------------------
(* The transports.                                                         *)

\* A note excuses nothing that it does not name.
LEMMA NoteEffect ==
    ASSUME NEW what, NEW cond, NEW M, Note(what, cond), Without(M)'
    PROVE  Without(M) /\ (what \in M => ~cond)
  BY DEF Note, Without

\* What went past what is never forgotten.
LEMMA MishapsGrow ==
    ASSUME TypeOK, [Next]_vars
    PROVE  mishaps \subseteq mishaps'
  <1> USE DEF history
  <1>1. CASE MainThread
    BY <1>1 DEF MainThread, AddCallStreams, HangUp, ReleaseIfStarted, TimerFires, RunPosted,
       Dispose, Restart, SetTheTimer, Note
  <1>2. CASE Background
    BY <1>2 DEF Background, TransportFails, TransportRecovers, WakeUp, RunTask
  <1>3. CASE Receive
    <2>1. PICK m \in Messages : Handled(m)
      BY <1>3, ReceiveFlies
    <2> QED
      BY <2>1 DEF Handled, OnStart, InitiateAck, OnEnd, HangUpAck, JoinAck, CapsAck, SendAck,
         RecvAck, RecvVideoAck, OnProducers, ConsumeAck, ReleaseIfStarted, Note
  <1>4. CASE ServerStep \/ Others
    BY <1>4 DEF ServerStep, Others, client
  <1>5. CASE UNCHANGED vars
    BY <1>5 DEF vars
  <1> QED
    BY <1>1, <1>2, <1>3, <1>4, <1>5 DEF Next

\* The last answer and the transports belong to the open room.
Answered == createWebRtcTransport = NoCall
            \/ (isAlreadyStarted /\ createWebRtcTransport = CALL_ID)
ServesRoom(t) == t = NoCall \/ DisposalPending \/ (isAlreadyStarted /\ t = CALL_ID)
ServeRoom == ServesRoom(sendT) /\ ServesRoom(recvT) /\ ServesRoom(recvVideoT)

\* The invariant of the transports, in parts.
LEMMA TransportsParts ==
    /\ TransportsInv <=> (Without({"late"}) => Answered /\ ServeRoom)
    /\ TransportsInv' <=> (Without({"late"})' => Answered' /\ ServeRoom')
  BY DEF TransportsInv, TransportsServeTheOpenRoom, Answered, ServeRoom, ServesRoom

\* A step that leaves the transports and the room alone.
LEMMA TransportsQuietly ==
    ASSUME TransportsInv, mishaps \subseteq mishaps', DisposalPending => DisposalPending',
           UNCHANGED <<sendT, recvT, recvVideoT, createWebRtcTransport, isAlreadyStarted, CALL_ID>>
    PROVE  TransportsInv'
  <1>1. Without({"late"})' => Without({"late"})
    BY DEF Without
  <1> QED
    BY <1>1, TransportsParts DEF Answered, ServeRoom, ServesRoom

\* A room that is released forgets the answer, and its disposal is posted.
LEMMA TransportsReleased ==
    ASSUME createWebRtcTransport' = NoCall, DisposalPending'
    PROVE  TransportsInv'
  BY TransportsParts DEF Answered, ServeRoom, ServesRoom

\* What the main thread does to the transports.
LEMMA TransportsMain ==
    ASSUME TypeOK, TransportsInv, MainThread, mishaps \subseteq mishaps'
    PROVE  TransportsInv'
  <1> USE DEF room, streams, receivers, server, history
  <1>0. posted \in Seq({"dispose", "restart", "timer"})
    BY TypeParts DEF QueuesTyped
  <1>00. Without({"late"})' => Without({"late"})
    BY DEF Without
  <1>1. CASE AddCallStreams
    <2>1. DisposalPending' <=> DisposalPending
      BY <1>1 DEF AddCallStreams, DisposalPending
    <2>2. sendT' \in {sendT, createWebRtcTransport}
          /\ UNCHANGED <<recvT, recvVideoT, createWebRtcTransport, isAlreadyStarted, CALL_ID>>
      BY <1>1, ProduceParts DEF AddCallStreams
    <2> QED
      BY <1>00, <2>1, <2>2, TransportsParts DEF Answered, ServeRoom, ServesRoom
  <1>2. CASE HangUp
    <2>1. CASE isAlreadyStarted
      <3>1. posted' = Append(posted, "dispose") /\ createWebRtcTransport' = NoCall
        BY <1>2, <2>1 DEF HangUp, ReleaseIfStarted, Release
      <3> QED
        BY <1>0, <3>1, PostEffect, TransportsReleased
    <2>2. CASE ~isAlreadyStarted
      <3>1. UNCHANGED <<posted, sendT, recvT, recvVideoT, createWebRtcTransport,
                        isAlreadyStarted, CALL_ID>>
        BY <1>2, <2>2 DEF HangUp, ReleaseIfStarted
      <3>2. DisposalPending' <=> DisposalPending
        BY <3>1 DEF DisposalPending
      <3> QED
        BY <3>1, <3>2, TransportsQuietly
    <2> QED
      BY <2>1, <2>2
  <1>3. CASE TimerFires
    <2>1. CASE isAlreadyStarted
      <3>1. posted' = Append(posted, "restart") /\ createWebRtcTransport' = NoCall
        BY <1>3, <2>1 DEF TimerFires, Release
      <3> QED
        BY <1>0, <3>1, PostEffect, TransportsReleased
    <2>2. CASE ~isAlreadyStarted
      <3>1. UNCHANGED <<posted, sendT, recvT, recvVideoT, createWebRtcTransport,
                        isAlreadyStarted, CALL_ID>>
        BY <1>3, <2>2 DEF TimerFires
      <3>2. DisposalPending' <=> DisposalPending
        BY <3>1 DEF DisposalPending
      <3> QED
        BY <3>1, <3>2, TransportsQuietly
    <2> QED
      BY <2>1, <2>2
  <1>4. CASE RunPosted
    <2>0. createWebRtcTransport' = createWebRtcTransport
      BY <1>4 DEF RunPosted
    <2>1. CASE Dispose \/ Restart
      <3>1. /\ sendT' = NoCall /\ recvT' = NoCall /\ recvVideoT' = NoCall
            /\ CALL_ID' = CALL_ID /\ (isAlreadyStarted => isAlreadyStarted')
        <4>1. CASE Dispose
          BY <4>1 DEF Dispose, DropTransports
        <4>2. CASE Restart
          BY <4>2 DEF Restart, Initialize, DropTransports
        <4> QED
          BY <2>1, <4>1, <4>2
      <3> QED
        BY <1>00, <2>0, <3>1, TransportsParts DEF Answered, ServeRoom, ServesRoom
    <2>2. CASE SetTheTimer
      <3>1. DisposalPending' <=> DisposalPending
        BY <1>0, <1>4, <2>2, RunPostedEffect DEF RunPosted, SetTheTimer
      <3> QED
        BY <2>0, <2>2, <3>1, TransportsQuietly DEF SetTheTimer
    <2> QED
      BY <1>4, <2>1, <2>2 DEF RunPosted
  <1> QED
    BY <1>1, <1>2, <1>3, <1>4 DEF MainThread

\* What the event thread does to the transports.
LEMMA TransportsReceive ==
    ASSUME TypeOK, TransportsInv, Receive, mishaps \subseteq mishaps',
           DisposalPending => DisposalPending'
    PROVE  TransportsInv'
  <1> USE DEF room, streams, receivers, server, history
  <1>0. posted \in Seq({"dispose", "restart", "timer"})
    BY TypeParts DEF QueuesTyped
  <1>00. Without({"late"})' => Without({"late"})
    BY DEF Without
  <1>1. PICK m \in Messages : m = Head(toClient) /\ Handled(m)
    BY ReceiveFlies
  <1>2. ASSUME UNCHANGED <<sendT, recvT, recvVideoT, createWebRtcTransport>>, ~isAlreadyStarted
        PROVE  TransportsInv'
    BY <1>00, <1>2, TransportsParts DEF Answered, ServeRoom, ServesRoom
  <1>3. CASE OnStart(m)
    <2>1. CASE isAlreadyStarted
      BY <1>3, <2>1, TransportsQuietly DEF OnStart
    <2>2. CASE ~isAlreadyStarted
      BY <1>2, <1>3, <2>2 DEF OnStart
    <2> QED
      BY <2>1, <2>2
  <1>4. CASE InitiateAck(m)
    <2>1. CASE isAlreadyStarted
      BY <1>0, <1>4, <2>1, PostEffect, TransportsReleased DEF InitiateAck
    <2>2. CASE ~isAlreadyStarted
      BY <1>2, <1>4, <2>2 DEF InitiateAck
    <2> QED
      BY <2>1, <2>2
  <1>5. CASE OnEnd(m)
    <2>1. CASE m.call = active /\ isAlreadyStarted
      <3>1. posted' = Append(posted, "dispose") /\ createWebRtcTransport' = NoCall
        BY <1>5, <2>1 DEF OnEnd, ReleaseIfStarted, Release
      <3> QED
        BY <1>0, <3>1, PostEffect, TransportsReleased
    <2>2. CASE ~(m.call = active /\ isAlreadyStarted)
      BY <1>5, <2>2, TransportsQuietly DEF OnEnd, ReleaseIfStarted
    <2> QED
      BY <2>1, <2>2
  <1>6. CASE SendAck(m) \/ RecvAck(m) \/ RecvVideoAck(m)
    <2>1. /\ Without({"late"})' => isAlreadyStarted /\ m.call = CALL_ID
          /\ sendT' \in {sendT, m.call} /\ recvT' \in {recvT, m.call}
          /\ recvVideoT' \in {recvVideoT, m.call}
          /\ createWebRtcTransport' \in {createWebRtcTransport, m.call}
          /\ UNCHANGED <<isAlreadyStarted, CALL_ID>>
      <3>1. CASE SendAck(m)
        <4>1. sendT' \in {sendT, m.call}
          BY <3>1, SendAckParts, ProduceParts
        <4> QED
          BY <3>1, <4>1, SendAckParts DEF Late, Without
      <3>2. CASE RecvAck(m) \/ RecvVideoAck(m)
        <4>1. Note("late", Late(m))
          BY <3>2 DEF RecvAck, RecvVideoAck
        <4> QED
          BY <3>2, <4>1, NoteEffect DEF RecvAck, RecvVideoAck, Late
      <3> QED
        BY <1>6, <3>1, <3>2
    <2> QED
      BY <1>00, <2>1, TransportsParts DEF Answered, ServeRoom, ServesRoom
  <1>7. CASE HangUpAck(m) \/ JoinAck(m) \/ CapsAck(m) \/ OnProducers(m) \/ ConsumeAck(m)
    BY <1>7, TransportsQuietly DEF HangUpAck, JoinAck, CapsAck, OnProducers, ConsumeAck
  <1> QED
    BY <1>1, <1>3, <1>4, <1>5, <1>6, <1>7 DEF Handled

\* The background, the server and the others leave the transports alone.
LEMMA TransportsNext == TypeOK /\ TransportsInv /\ [Next]_vars => TransportsInv'
  <1> SUFFICES ASSUME TypeOK, TransportsInv, [Next]_vars PROVE TransportsInv'
    OBVIOUS
  <1>0. mishaps \subseteq mishaps'
    BY MishapsGrow
  <1>1. CASE UNCHANGED vars
    <2>1. UNCHANGED <<sendT, recvT, recvVideoT, createWebRtcTransport, isAlreadyStarted, CALL_ID, posted>>
      BY <1>1 DEF vars, room, streams, receivers
    <2>2. DisposalPending' <=> DisposalPending
      BY <2>1 DEF DisposalPending
    <2> QED
      BY <1>0, <2>1, <2>2, TransportsQuietly
  <1>2. CASE Next /\ ~MainThread
    <2>1. DisposalPending => DisposalPending'
      BY <1>2, PendingKept DEF MainThread
    <2>2. CASE Receive
      BY <1>0, <2>1, <2>2, TransportsReceive
    <2>3. CASE Background \/ ServerStep \/ Others
      <3>1. UNCHANGED <<sendT, recvT, recvVideoT, createWebRtcTransport, isAlreadyStarted, CALL_ID>>
        BY <2>3 DEF Background, TransportFails, TransportRecovers, WakeUp, RunTask, ServerStep,
           Others, client, room, streams, receivers
      <3> QED
        BY <1>0, <2>1, <3>1, TransportsQuietly
    <2> QED
      BY <1>2, <2>2, <2>3 DEF Next
  <1> QED
    BY <1>0, <1>1, <1>2, TransportsMain DEF Next

LEMMA TransportsInit == Init => TransportsInv
  BY TransportsParts DEF Init, Answered, ServeRoom, ServesRoom

\* With answers in time, a transport is the open room's or about to go
\* (CallRoom.TransportsServeTheOpenRoom).
THEOREM NoStaleTransport == Spec => []TransportsServeTheOpenRoom
  <1>1. TransportsInv => TransportsServeTheOpenRoom
    BY DEF TransportsInv
  <1> QED
    BY <1>1, TypeInit, TypeNext, TransportsInit, TransportsNext, PTL DEF Spec

-----------------------------------------------------------------------------
(* The device.                                                             *)

\* Opening a room makes the device new, and asks for what will load it.
LEMMA DeviceOpened ==
    ASSUME TypeOK, NEW c \in Rooms, NEW nc \in BOOLEAN, Initialize(c, nc)
    PROVE  DeviceInv'
  <1>1. PICK j \in Messages : j.op = "JOIN" /\ Range(toServer') = Range(toServer) \cup {j}
    BY TypeParts, InitializeEffect DEF QueuesTyped
  <1>2. Loading'
    BY <1>1 DEF Loading, Flying
  <1>3. device' \in {"new", "loaded", "crashed"}
    BY TypeParts DEF Initialize, ClientTyped, FlagsTyped
  <1> QED
    BY <1>2, <1>3 DEF DeviceInv

\* A step that leaves the device and the room alone.
LEMMA DeviceQuietly ==
    ASSUME DeviceInv, mishaps \subseteq mishaps', Loading => Loading',
           isAlreadyStarted' => isAlreadyStarted, device' = device
    PROVE  DeviceInv'
  BY DEF DeviceInv, Without

\* What a step does to the device of an open room.
LEMMA DeviceNext == TypeOK /\ DeviceInv /\ [Next]_vars => DeviceInv'
  <1> SUFFICES ASSUME TypeOK, DeviceInv, [Next]_vars PROVE DeviceInv'
    OBVIOUS
  <1> USE DEF room, streams, receivers, server, history
  <1>0. /\ mishaps \subseteq mishaps' /\ CALL_ID \in Rooms
        /\ \A b \in {TRUE, FALSE} : b \in BOOLEAN
    BY MishapsGrow, TypeParts DEF ClientTyped, RoomsTyped
  <1>1. CASE UNCHANGED vars
    BY <1>0, <1>1, DeviceQuietly DEF vars, Loading, Flying
  <1>2. CASE MainThread \/ Background
    <2>1. Loading => Loading'
      BY <1>2, MainFlies DEF Loading
    <2>2. CASE RunPosted /\ Dispose
      <3>1. Note("swept", isAlreadyStarted \/ RestartPosted) /\ isAlreadyStarted' = isAlreadyStarted
        BY <2>2 DEF Dispose
      <3>2. Without({"swept"})' => ~isAlreadyStarted'
        BY <3>1, NoteEffect
      <3> QED
        BY <3>2 DEF DeviceInv
    <2>3. CASE RunPosted /\ Restart
      <3>1. PICK nc \in BOOLEAN : nc = TRUE
        BY <1>0
      <3>2. Initialize(CALL_ID, nc)
        BY <2>3, <3>1 DEF Restart
      <3> QED
        BY <1>0, <3>2, DeviceOpened
    <2>4. CASE ~(RunPosted /\ (Dispose \/ Restart))
      <3>1. device' = device
            /\ (isAlreadyStarted' = isAlreadyStarted \/ isAlreadyStarted' = FALSE)
        BY <1>2, <2>4 DEF MainThread, AddCallStreams, HangUp, ReleaseIfStarted, Release, TimerFires,
           RunPosted, SetTheTimer, Background, TransportFails, TransportRecovers, WakeUp, RunTask
      <3>2. isAlreadyStarted' => isAlreadyStarted
        BY <3>1
      <3> QED
        BY <1>0, <2>1, <3>1, <3>2, DeviceQuietly
    <2> QED
      BY <2>2, <2>3, <2>4
  <1>3. CASE Receive
    <2>1. PICK m \in Messages : m = Head(toClient) /\ Handled(m) /\ Flying \subseteq Flying' \cup {m}
      BY <1>3, ReceiveFlies
    <2>2. m.op \notin {"JOIN", "CAPS"} => (Loading => Loading')
      BY <2>1 DEF Loading
    <2>3. CASE OnStart(m) \/ InitiateAck(m)
      <3>1. PICK nc \in BOOLEAN : nc = FALSE
        BY <1>0
      <3>2. CASE Initialize(m.call, nc)
        BY <3>2, DeviceOpened, MessageParts
      <3>3. CASE OnStart(m) /\ isAlreadyStarted
        BY <1>0, <2>2, <3>3, DeviceQuietly DEF OnStart
      <3> QED
        BY <2>3, <3>1, <3>2, <3>3 DEF OnStart, InitiateAck
    <2>4. CASE JoinAck(m)
      <3>1. PICK c \in Messages : c.op = "CAPS" /\ Range(toServer') = Range(toServer) \cup {c}
        BY <2>4, JoinAckEffect, TypeParts DEF QueuesTyped
      <3>2. Loading'
        BY <3>1 DEF Loading, Flying
      <3> QED
        BY <1>0, <2>4, <3>2, DeviceQuietly DEF JoinAck
    <2>5. CASE CapsAck(m)
      BY <1>0, <2>5 DEF CapsAck, DeviceInv, Without
    <2>6. CASE SendAck(m)
      <3>1. device' \in {device, "crashed"} /\ isAlreadyStarted' = isAlreadyStarted /\ m.op = "SEND"
        BY <2>6, SendAckParts
      <3> QED
        BY <1>0, <2>2, <3>1, DeviceQuietly DEF DeviceInv
    <2>7. CASE OnEnd(m) \/ HangUpAck(m) \/ RecvAck(m) \/ RecvVideoAck(m) \/ OnProducers(m)
               \/ ConsumeAck(m)
      <3>1. device' = device
            /\ (isAlreadyStarted' = isAlreadyStarted \/ isAlreadyStarted' = FALSE)
        BY <2>7 DEF OnEnd, ReleaseIfStarted, Release, HangUpAck, RecvAck, RecvVideoAck,
           OnProducers, ConsumeAck
      <3>2. isAlreadyStarted' => isAlreadyStarted
        BY <3>1
      <3>3. m.op \notin {"JOIN", "CAPS"}
        BY <2>7 DEF OnEnd, HangUpAck, RecvAck, RecvVideoAck, OnProducers, ConsumeAck
      <3> QED
        BY <1>0, <2>2, <3>1, <3>2, <3>3, DeviceQuietly
    <2> QED
      BY <2>1, <2>3, <2>4, <2>5, <2>6, <2>7 DEF Handled
  <1>4. CASE ServerStep \/ Others
    <2>1. device' = device /\ isAlreadyStarted' = isAlreadyStarted
      BY <1>4 DEF ServerStep, Others, client
    <2> QED
      BY <1>0, <1>4, <2>1, ServerFlies, DeviceQuietly
  <1> QED
    BY <1>1, <1>2, <1>3, <1>4 DEF Next

LEMMA DeviceInit == Init => DeviceInv
  BY DEF Init, DeviceInv

\* Nothing is on its way once all is quiet.
LEMMA NothingFlies ==
    ASSUME Settled
    PROVE  Flying = {} /\ ~DisposalPending /\ Alive
  <1>1. toServer = <<>> /\ toClient = <<>> /\ posted = <<>> /\ Alive
    BY DEF Settled
  <1>2. Range(<<>>) = {}
    BY NothingInRange
  <1> QED
    BY <1>1, <1>2 DEF Flying, DisposalPending

\* Unless a disposal ran after it was opened, an open room ends up with a loaded
\* device (CallRoom.OpenRoomHasItsDevice).
THEOREM DeviceGetsLoaded == Spec => []OpenRoomHasItsDevice
  <1>1. DeviceInv => OpenRoomHasItsDevice
    BY NothingFlies DEF DeviceInv, OpenRoomHasItsDevice, Loading, Alive
  <1> QED
    BY <1>1, TypeInit, TypeNext, DeviceInit, DeviceNext, PTL DEF Spec

-----------------------------------------------------------------------------
(* One's own audio.                                                        *)

\* A step that leaves the microphone where it is produced.
LEMMA AudioQuietly ==
    ASSUME AudioInv, mishaps \subseteq mishaps', DisposalPending => DisposalPending',
           Restarting => Restarting', isAlreadyStarted' => isAlreadyStarted, mic' => mic,
           Alive' => Alive, sending' = sending, CALL_ID' = CALL_ID
    PROVE  AudioInv'
  BY DEF AudioInv, Without

\* What the main thread and the background do to one's own audio.
LEMMA AudioMain ==
    ASSUME TypeOK, MicInv, TransportsInv, AudioInv, MainThread \/ Background,
           mishaps \subseteq mishaps'
    PROVE  AudioInv'
  <1> USE DEF room, streams, receivers, server, history
  <1>0. /\ toServer \in Seq(Messages) /\ posted \in Seq({"dispose", "restart", "timer"})
        /\ CALL_ID \in Rooms
        /\ \A b \in {TRUE, FALSE} : b \in BOOLEAN
    BY TypeParts DEF QueuesTyped, ClientTyped, RoomsTyped
  <1>00. Without({"late"})' => Without({"late"})
    BY DEF Without
  <1>000. Restarting => Restarting'
    BY MainFlies DEF Restarting
  <1>1. CASE AddCallStreams
    <2>1. DisposalPending' <=> DisposalPending
      BY <1>1 DEF AddCallStreams, DisposalPending
    <2>2. ~mic /\ UNCHANGED <<isAlreadyStarted, CALL_ID, addAudio>>
      BY <1>1 DEF AddCallStreams
    <2>3. CASE mic' = mic
      BY <2>2, <2>3 DEF AudioInv
    <2>4. ASSUME NEW t \in {sendT, createWebRtcTransport}, t # NoCall, ProduceOn(t)
          PROVE  AudioInv'
      <3>1. mic' => sending' = t
        BY <2>2, <2>4, ProduceParts
      <3>2. Without({"late"}) => DisposalPending \/ t = CALL_ID
        BY <2>4, TransportsParts DEF Answered, ServeRoom, ServesRoom
      <3> QED
        BY <1>00, <2>1, <2>2, <3>1, <3>2 DEF AudioInv
    <2> QED
      BY <1>1, <2>3, <2>4 DEF AddCallStreams
  <1>2. CASE HangUp \/ TimerFires
    <2>1. ~isAlreadyStarted'
      BY <1>2 DEF HangUp, ReleaseIfStarted, TimerFires, Release
    <2> QED
      BY <2>1 DEF AudioInv
  <1>3. CASE RunPosted
    <2>1. CASE Dispose
      BY <2>1 DEF Dispose, AudioInv
    <2>2. CASE Restart
      <3>1. PICK nc \in BOOLEAN : nc = TRUE
        BY <1>0
      <3>2. Initialize(CALL_ID, nc)
        BY <2>2, <3>1 DEF Restart
      <3>3. PICK j \in Messages : j.op = "JOIN" /\ j.nc = nc /\ Range(toServer') = Range(toServer) \cup {j}
        BY <1>0, <3>2, InitializeEffect
      <3>4. Restarting'
        BY <3>1, <3>3 DEF Restarting, Flying
      <3> QED
        BY <3>4 DEF AudioInv
    <2>3. CASE SetTheTimer
      <3>1. DisposalPending' <=> DisposalPending
        BY <1>0, <1>3, <2>3, RunPostedEffect DEF RunPosted, SetTheTimer
      <3>2. UNCHANGED <<isAlreadyStarted, mic, device, sending, CALL_ID>>
        BY <2>3 DEF SetTheTimer
      <3> QED
        BY <1>000, <3>1, <3>2, AudioQuietly DEF Alive
    <2> QED
      BY <1>3, <2>1, <2>2, <2>3 DEF RunPosted
  <1>4. CASE Background
    <2>1. UNCHANGED <<isAlreadyStarted, mic, device, sending, CALL_ID>>
      BY <1>4 DEF Background, TransportFails, TransportRecovers, WakeUp, RunTask
    <2>2. posted' = posted \/ posted' = Append(posted, "timer")
      BY <1>4 DEF Background, TransportFails, TransportRecovers, WakeUp, RunTask
    <2>3. DisposalPending => DisposalPending'
      <3>1. CASE posted' = posted
        BY <3>1 DEF DisposalPending
      <3>2. CASE posted' = Append(posted, "timer")
        BY <1>0, <3>2, PostEffect
      <3> QED
        BY <2>2, <3>1, <3>2
    <2> QED
      BY <1>000, <2>1, <2>3, AudioQuietly DEF Alive
  <1> QED
    BY <1>1, <1>2, <1>3, <1>4 DEF MainThread

\* What the event thread does to one's own audio.
LEMMA AudioReceive ==
    ASSUME TypeOK, MicInv, TransportsInv, AudioInv, Receive,
           mishaps \subseteq mishaps', DisposalPending => DisposalPending'
    PROVE  AudioInv'
  <1> USE DEF room, streams, receivers, server, history
  <1>0. toServer \in Seq(Messages) /\ posted \in Seq({"dispose", "restart", "timer"})
    BY TypeParts DEF QueuesTyped
  <1>00. (Without({"late"})' => Without({"late"})) /\ Alive
    BY DEF Without, Receive
  <1>1. PICK m \in Messages : m = Head(toClient) /\ Handled(m) /\ Flying \subseteq Flying' \cup {m}
    BY ReceiveFlies
  <1>2. m.op \notin {"JOIN", "CAPS", "SEND"} \/ ~m.nc => (Restarting => Restarting')
    BY <1>1 DEF Restarting
  <1>3. CASE OnStart(m) \/ InitiateAck(m)
    <2>1. CASE ~isAlreadyStarted
      <3>1. mic' = mic
        BY <1>3 DEF OnStart, InitiateAck
      <3>2. mic => DisposalPending
        BY <2>1 DEF MicInv
      <3> QED
        BY <3>1, <3>2 DEF AudioInv
    <2>2. CASE OnStart(m) /\ isAlreadyStarted
      <3>1. UNCHANGED <<isAlreadyStarted, mic, device, sending, CALL_ID>> /\ m.op = "START"
        BY <2>2 DEF OnStart
      <3> QED
        BY <1>2, <3>1, AudioQuietly DEF Alive
    <2>3. CASE InitiateAck(m) /\ isAlreadyStarted
      <3>1. posted' = Append(posted, "dispose")
        BY <2>3 DEF InitiateAck
      <3>2. DisposalPending'
        BY <1>0, <3>1, PostEffect
      <3> QED
        BY <3>2 DEF AudioInv
    <2> QED
      BY <1>3, <2>1, <2>2, <2>3
  <1>4. CASE JoinAck(m)
    <2>1. PICK c \in Messages : c.op = "CAPS" /\ c.nc = m.nc /\ Range(toServer') = Range(toServer) \cup {c}
      BY <1>0, <1>4, JoinAckEffect
    <2>2. Restarting => Restarting'
      BY <1>2, <2>1 DEF Restarting, Flying
    <2>3. UNCHANGED <<isAlreadyStarted, mic, device, sending, CALL_ID>>
      BY <1>4 DEF JoinAck
    <2> QED
      BY <2>2, <2>3, AudioQuietly DEF Alive
  <1>5. CASE CapsAck(m)
    <2>1. UNCHANGED <<isAlreadyStarted, mic, sending, CALL_ID>>
      BY <1>5 DEF CapsAck
    <2>2. CASE isAlreadyStarted
      <3>1. PICK nc \in BOOLEAN, peer \in BOOLEAN : nc = m.nc /\ peer = FALSE
        BY MessageParts
      <3>2. AskTransports(nc, peer)
        BY <1>5, <3>1 DEF CapsAck
      <3>3. \E a \in Range(toServer') : a.op = "SEND" /\ a.nc = nc
        BY <1>0, <2>2, <3>2, AskEffect
      <3>4. Restarting => Restarting'
        BY <1>2, <3>1, <3>3 DEF Restarting, Flying
      <3> QED
        BY <1>00, <2>1, <3>4, AudioQuietly
    <2>3. CASE ~isAlreadyStarted
      BY <2>1, <2>3 DEF AudioInv
    <2> QED
      BY <2>2, <2>3
  <1>6. CASE SendAck(m)
    <2>0. PICK t : t = IF device = "loaded" THEN m.call ELSE sendT
      OBVIOUS
    <2>1. /\ \/ ProduceOn(t) /\ t # NoCall /\ device' = device
             \/ device' = "crashed" /\ UNCHANGED <<mic, sending, sendT>>
             \/ (m.nc => device = "none") /\ UNCHANGED <<device, mic, sending>>
          /\ mishaps' = IF Late(m) THEN mishaps \cup {"late"} ELSE mishaps
          /\ UNCHANGED <<isAlreadyStarted, CALL_ID, addAudio, posted>>
      BY <1>6, <2>0, SendAckParts
    <2>2. Without({"late"})' => m.call = CALL_ID
      BY <2>1 DEF Late, Without
    <2>3. CASE ProduceOn(t) /\ t # NoCall
      <3>1. mic' => sending' = t
        BY <2>3, ProduceParts DEF MicInv
      <3>2. Without({"late"})' => DisposalPending \/ t = CALL_ID
        BY <1>00, <2>0, <2>2, <2>3, TransportsParts DEF ServeRoom, ServesRoom
      <3> QED
        BY <2>1, <3>1, <3>2 DEF AudioInv
    <2>4. CASE device' = "crashed"
      BY <2>4 DEF AudioInv, Alive
    <2>5. CASE (m.nc => device = "none") /\ UNCHANGED <<device, mic, sending>>
      <3>1. CASE m.nc
        BY <2>5, <3>1 DEF AudioInv, MicInv
      <3>2. CASE ~m.nc
        BY <1>2, <2>1, <2>5, <3>2, AudioQuietly DEF Alive
      <3> QED
        BY <3>1, <3>2
    <2> QED
      BY <2>1, <2>3, <2>4, <2>5
  <1>7. CASE OnEnd(m)
    <2>1. UNCHANGED <<mic, device, sending, CALL_ID>>
          /\ (isAlreadyStarted' = isAlreadyStarted \/ isAlreadyStarted' = FALSE) /\ m.op = "END"
      BY <1>7 DEF OnEnd, ReleaseIfStarted, Release
    <2>2. isAlreadyStarted' => isAlreadyStarted
      BY <2>1
    <2> QED
      BY <1>2, <2>1, <2>2, AudioQuietly DEF Alive
  <1>8. CASE HangUpAck(m) \/ RecvAck(m) \/ RecvVideoAck(m) \/ OnProducers(m) \/ ConsumeAck(m)
    <2>1. UNCHANGED <<isAlreadyStarted, mic, device, sending, CALL_ID>>
      BY <1>8 DEF HangUpAck, RecvAck, RecvVideoAck, OnProducers, ConsumeAck
    <2>2. m.op \notin {"JOIN", "CAPS", "SEND"}
      BY <1>8 DEF HangUpAck, RecvAck, RecvVideoAck, OnProducers, ConsumeAck
    <2> QED
      BY <1>2, <2>1, <2>2, AudioQuietly DEF Alive
  <1> QED
    BY <1>1, <1>3, <1>4, <1>5, <1>6, <1>7, <1>8 DEF Handled

LEMMA AudioNext == TypeOK /\ MicInv /\ TransportsInv /\ AudioInv /\ [Next]_vars => AudioInv'
  <1> SUFFICES ASSUME TypeOK, MicInv, TransportsInv, AudioInv, [Next]_vars PROVE AudioInv'
    OBVIOUS
  <1>0. mishaps \subseteq mishaps'
    BY MishapsGrow
  <1>1. CASE UNCHANGED vars
    <2>1. UNCHANGED <<isAlreadyStarted, mic, device, sending, CALL_ID, posted, toServer, toClient>>
      BY <1>1 DEF vars, room, streams
    <2> QED
      BY <1>0, <2>1, AudioQuietly DEF Alive, DisposalPending, Restarting, Flying
  <1>2. CASE MainThread \/ Background
    BY <1>0, <1>2, AudioMain
  <1>3. CASE (Receive \/ ServerStep \/ Others) /\ ~MainThread
    <2>1. DisposalPending => DisposalPending'
      BY <1>3, PendingKept DEF Next, MainThread
    <2>2. CASE Receive
      BY <1>0, <2>1, <2>2, AudioReceive
    <2>3. CASE ServerStep \/ Others
      <3>1. UNCHANGED <<isAlreadyStarted, mic, device, sending, CALL_ID>>
        BY <2>3 DEF ServerStep, Others, client, room, streams
      <3> QED
        BY <1>0, <2>1, <2>3, <3>1, ServerFlies, AudioQuietly DEF Alive
    <2> QED
      BY <1>3, <2>2, <2>3
  <1> QED
    BY <1>1, <1>2, <1>3 DEF Next

LEMMA AudioInit == Init => AudioInv
  BY DEF Init, AudioInv

\* With answers in time, a microphone that is on ends up produced in the open
\* room, also after a restart of the room (CallRoom.OwnAudioIsSent).
THEOREM OwnAudioArrives == Spec => []OwnAudioIsSent
  <1>1. AudioInv => OwnAudioIsSent
    BY NothingFlies DEF AudioInv, OwnAudioIsSent, Restarting
  <1> QED
    BY <1>1, TypeInit, TypeNext, MicInit, MicNext, TransportsInit, TransportsNext,
       AudioInit, AudioNext, PTL DEF Spec

-----------------------------------------------------------------------------
(* The order in which calls begin and end, as the client hears of it.      *)

\* A message is announced: call c still ends before the next one starts.
LEMMA EndsGrown ==
    ASSUME NEW q \in Seq(Messages), NEW m \in Messages, NEW l, NEW l2, NEW c,
           NEW i \in Nat, i <= Len(q), EndsAfter(q, l, i, c),
           l = c => (m \notin Starts /\ l2 = c) \/ m \in EndOf(c)
    PROVE  EndsAfter(Append(q, m), l2, i, c)
  <1> DEFINE r == Append(q, m)
             n == Len(q) + 1
  <1>1. /\ n \in DOMAIN r /\ r[n] = m /\ n \in Nat /\ n > i
        /\ \A j \in DOMAIN q : j \in DOMAIN r /\ r[j] = q[j] /\ n > j /\ j \in Nat
        /\ \A j \in DOMAIN r : (j \in DOMAIN q /\ r[j] = q[j]) \/ (j = n /\ r[j] = m)
    BY GrownQueue, QueueEntries
  <1> HIDE DEF r, n
  <1>2. CASE l = c /\ \A j \in DOMAIN q : j > i => q[j] \notin Starts
    <2>1. CASE m \in EndOf(c)
      <3>1. \A k \in DOMAIN r : i < k /\ k < n => r[k] \notin Starts
        BY <1>1, <1>2
      <3>2. EndsAfter(r, l2, i, c)
        BY <1>1, <2>1, <3>1 DEF EndsAfter
      <3> QED
        BY <3>2 DEF r
    <2>2. CASE m \notin Starts /\ l2 = c
      <3>1. \A j \in DOMAIN r : j > i => r[j] \notin Starts
        BY <1>1, <1>2, <2>2
      <3>2. EndsAfter(r, l2, i, c)
        BY <2>2, <3>1 DEF EndsAfter
      <3> QED
        BY <3>2 DEF r
    <2> QED
      BY <1>2, <2>1, <2>2
  <1>3. ASSUME NEW j \in DOMAIN q, j > i, q[j] \in EndOf(c),
               \A k \in DOMAIN q : i < k /\ k < j => q[k] \notin Starts
        PROVE  EndsAfter(Append(q, m), l2, i, c)
    <2>1. j \in DOMAIN r /\ r[j] \in EndOf(c)
      BY <1>1, <1>3
    <2>2. ASSUME NEW k \in DOMAIN r, i < k, k < j PROVE r[k] \notin Starts
      <3>1. k # n
        BY <1>1, <2>2
      <3> QED
        BY <1>1, <1>3, <2>2, <3>1
    <2>3. EndsAfter(r, l2, i, c)
      BY <1>3, <2>1, <2>2 DEF EndsAfter
    <2> QED
      BY <2>3 DEF r
  <1> QED
    BY <1>2, <1>3 DEF EndsAfter

\* A message is taken: the places move up by one.
LEMMA EndsTaken ==
    ASSUME NEW q \in Seq(Messages), q # <<>>, NEW l, NEW c
    PROVE  /\ EndsAfter(q, l, 0, c) =>
                /\ Head(q) \notin Starts
                /\ Head(q) \notin EndOf(c) => EndsAfter(Tail(q), l, 0, c)
           /\ \A i \in Nat : EndsAfter(q, l, i + 1, c) => EndsAfter(Tail(q), l, i, c)
  <1> DEFINE r == Tail(q)
  <1>1. /\ 1 \in DOMAIN q /\ q[1] = Head(q)
        /\ \A i \in DOMAIN q : i \in Nat
        /\ \A i \in DOMAIN r : i + 1 \in DOMAIN q /\ i \in Nat /\ i > 0 /\ r[i] = q[i + 1]
        /\ \A i \in DOMAIN q : i = 1 \/ (i - 1 \in DOMAIN r /\ r[i - 1] = q[i] /\ i - 1 \in Nat)
    BY TakenQueue, QueueEntries
  <1> HIDE DEF r
  <1>2. EndOf(c) \cap Starts = {}
    BY DEF EndOf, Starts
  <1>3. ASSUME NEW i \in Nat, NEW h \in {i, i + 1}, EndsAfter(q, l, h, c),
               h = i => i = 0 /\ Head(q) \notin EndOf(c)
        PROVE  EndsAfter(r, l, i, c)
    <2>1. CASE l = c /\ \A j \in DOMAIN q : j > h => q[j] \notin Starts
      <3>1. ASSUME NEW j \in DOMAIN r, j > i PROVE r[j] \notin Starts
        BY <1>1, <1>3, <2>1, <3>1
      <3> QED
        BY <2>1, <3>1 DEF EndsAfter
    <2>2. ASSUME NEW j \in DOMAIN q, j > h, q[j] \in EndOf(c),
                 \A k \in DOMAIN q : h < k /\ k < j => q[k] \notin Starts
          PROVE  EndsAfter(r, l, i, c)
      <3>1. j # 1
        BY <1>1, <1>3, <2>2
      <3>2. j - 1 \in DOMAIN r /\ r[j - 1] \in EndOf(c) /\ j - 1 > i
        <4>1. j - 1 \in DOMAIN r /\ r[j - 1] = q[j] /\ j \in Nat
          BY <1>1, <3>1
        <4>2. CASE h = i
          <5>1. i = 0
            BY <1>3, <4>2
          <5> QED
            BY <2>2, <3>1, <4>1, <4>2, <5>1
        <4>3. CASE h = i + 1
          BY <2>2, <4>1, <4>3
        <4> QED
          BY <4>2, <4>3
      <3>3. ASSUME NEW k \in DOMAIN r, i < k, k < j - 1 PROVE r[k] \notin Starts
        BY <1>1, <1>3, <2>2, <3>3
      <3> QED
        BY <3>2, <3>3 DEF EndsAfter
    <2> QED
      BY <1>3, <2>1, <2>2 DEF EndsAfter
  <1>4. ASSUME EndsAfter(q, l, 0, c) PROVE Head(q) \notin Starts
    <2>1. CASE \A j \in DOMAIN q : j > 0 => q[j] \notin Starts
      BY <1>1, <2>1
    <2>2. ASSUME NEW j \in DOMAIN q, j > 0, q[j] \in EndOf(c),
                 \A k \in DOMAIN q : 0 < k /\ k < j => q[k] \notin Starts
          PROVE  Head(q) \notin Starts
      BY <1>1, <1>2, <2>2
    <2> QED
      BY <1>4, <2>1, <2>2 DEF EndsAfter
  <1> QED
    BY <1>3, <1>4 DEF r

\* A message is announced: calls still start once, each after the one before.
LEMMA StartsGrown ==
    ASSUME NEW q \in Seq(Messages), NEW m \in Messages, NEW l, NEW l2, NEW u, NEW u2,
           StartsInOrder(q, l, u), u \subseteq u2,
           m \in Starts => m.call \in u2 \ u /\ l2 = m.call,
           ~Absent(q, StartsOf(l)) => (m \notin Starts /\ l2 = l) \/ m \in EndOf(l)
    PROVE  StartsInOrder(Append(q, m), l2, u2)
  <1> DEFINE r == Append(q, m)
             n == Len(q) + 1
  <1>1. /\ n \in DOMAIN r /\ r[n] = m /\ n \in Nat
        /\ \A j \in DOMAIN q : /\ j \in DOMAIN r /\ r[j] = q[j] /\ j \in Nat /\ j <= Len(q)
                               /\ j # n /\ q[j] \in Messages
        /\ \A j \in DOMAIN r : (j \in DOMAIN q /\ r[j] = q[j]) \/ (j = n /\ r[j] = m)
        /\ \A j \in DOMAIN r : j <= n
    BY GrownQueue, QueueEntries
  <1> HIDE DEF r, n
  <1>2. \A e \in Messages : e \in StartsOf(e.call) <=> e \in Starts
    BY DEF StartsOf, Starts
  <1>20. \A c : \A e \in StartsOf(c) : e \in Starts /\ e.call = c
    BY DEF StartsOf, Starts
  <1>3. ASSUME NEW i \in DOMAIN q, q[i] \in Starts
        PROVE  /\ q[i].call \in u2 /\ EndsAfter(r, l2, i, q[i].call)
               /\ \A j \in DOMAIN r : r[j] \in StartsOf(q[i].call) => i = j
    <2>1. /\ q[i].call \in u /\ EndsAfter(q, l, i, q[i].call)
          /\ \A j \in DOMAIN q : q[j] \in StartsOf(q[i].call) => i = j
      BY <1>3 DEF StartsInOrder
    <2>2. l = q[i].call => (m \notin Starts /\ l2 = q[i].call) \/ m \in EndOf(q[i].call)
      BY <1>1, <1>2, <1>3 DEF Absent
    <2>3. EndsAfter(r, l2, i, q[i].call)
      <3>1. i \in Nat /\ i <= Len(q)
        BY <1>1
      <3>2. PICK c : c = q[i].call
        OBVIOUS
      <3>3. EndsAfter(Append(q, m), l2, i, c)
        BY <2>1, <2>2, <3>1, <3>2, EndsGrown
      <3> QED
        BY <3>2, <3>3 DEF r
    <2>4. m \notin StartsOf(q[i].call)
      BY <1>20, <2>1
    <2> QED
      BY <1>1, <2>1, <2>3, <2>4
  <1>4. ASSUME m \in Starts
        PROVE  /\ m.call \in u2 /\ EndsAfter(r, l2, n, m.call)
               /\ \A j \in DOMAIN r : r[j] \in StartsOf(m.call) => n = j
    <2>1. EndsAfter(r, l2, n, m.call)
      BY <1>1, <1>4 DEF EndsAfter
    <2>2. ASSUME NEW j \in DOMAIN q PROVE q[j] \notin StartsOf(m.call)
      BY <1>4, <1>20, <2>2 DEF StartsInOrder
    <2> QED
      BY <1>1, <1>4, <2>1, <2>2
  <1>5. StartsInOrder(r, l2, u2)
    BY <1>1, <1>3, <1>4 DEF StartsInOrder
  <1> QED
    BY <1>5 DEF r

\* A message is taken: if it starts a call, that call ends before the next starts.
LEMMA StartsTaken ==
    ASSUME NEW q \in Seq(Messages), q # <<>>, NEW l, NEW u, StartsInOrder(q, l, u)
    PROVE  /\ StartsInOrder(Tail(q), l, u)
           /\ Head(q) \in Starts => /\ Head(q).call \in u
                                    /\ EndsAfter(Tail(q), l, 0, Head(q).call)
                                    /\ Absent(Tail(q), StartsOf(Head(q).call))
  <1> DEFINE r == Tail(q)
  <1>1. /\ 1 \in DOMAIN q /\ q[1] = Head(q)
        /\ \A i \in DOMAIN q : i \in Nat
        /\ \A i \in DOMAIN r : i + 1 \in DOMAIN q /\ i \in Nat /\ i > 0 /\ r[i] = q[i + 1]
    BY TakenQueue, QueueEntries
  <1>2. \A c : \A i \in Nat : EndsAfter(q, l, i + 1, c) => EndsAfter(r, l, i, c)
    BY EndsTaken
  <1> HIDE DEF r
  <1>3. ASSUME NEW i \in DOMAIN r, r[i] \in Starts
        PROVE  /\ r[i].call \in u /\ EndsAfter(r, l, i, r[i].call)
               /\ \A j \in DOMAIN r : r[j] \in StartsOf(r[i].call) => i = j
    <2>1. i + 1 \in DOMAIN q /\ r[i] = q[i + 1] /\ i \in Nat
      BY <1>1
    <2>2. /\ q[i + 1].call \in u /\ EndsAfter(q, l, i + 1, q[i + 1].call)
          /\ \A j \in DOMAIN q : q[j] \in StartsOf(q[i + 1].call) => i + 1 = j
      BY <1>3, <2>1 DEF StartsInOrder
    <2>3. ASSUME NEW j \in DOMAIN r, r[j] \in StartsOf(r[i].call) PROVE i = j
      <3>1. j + 1 \in DOMAIN q /\ r[j] = q[j + 1] /\ j \in Nat
        BY <1>1
      <3>2. i + 1 = j + 1
        BY <2>1, <2>2, <2>3, <3>1
      <3> QED
        BY <2>1, <3>1, <3>2
    <2> QED
      BY <1>2, <2>1, <2>2, <2>3
  <1>4. ASSUME Head(q) \in Starts
        PROVE  /\ Head(q).call \in u /\ EndsAfter(r, l, 0, Head(q).call)
               /\ Absent(r, StartsOf(Head(q).call))
    <2>1. /\ Head(q).call \in u /\ EndsAfter(q, l, 1, Head(q).call)
          /\ \A j \in DOMAIN q : q[j] \in StartsOf(Head(q).call) => 1 = j
      BY <1>1, <1>4 DEF StartsInOrder
    <2>2. EndsAfter(q, l, 0 + 1, Head(q).call)
      BY <2>1
    <2>3. ASSUME NEW j \in DOMAIN r PROVE r[j] \notin StartsOf(Head(q).call)
      <3>1. j + 1 \in DOMAIN q /\ r[j] = q[j + 1] /\ j \in Nat /\ j > 0
        BY <1>1
      <3> QED
        BY <2>1, <3>1
    <2> QED
      BY <1>2, <2>1, <2>2, <2>3 DEF Absent
  <1>5. StartsInOrder(r, l, u)
    BY <1>3 DEF StartsInOrder
  <1> QED
    BY <1>4, <1>5 DEF r

\* What is posted once is posted once, and is gone when it has run.
LEMMA PostedOnce ==
    ASSUME posted \in Seq({"dispose", "restart", "timer"})
    PROVE  /\ \A d \in {"dispose", "restart", "timer"} :
                 posted' = Append(posted, d) /\ OnceAtMost(posted, "restart")
                 /\ (d = "restart" => ~RestartPosted) => OnceAtMost(posted, "restart")'
           /\ posted # <<>> /\ posted' = Tail(posted) /\ OnceAtMost(posted, "restart") =>
                 /\ OnceAtMost(posted, "restart")'
                 /\ Head(posted) = "restart" => ~RestartPosted'
  <1>1. ASSUME NEW d \in {"dispose", "restart", "timer"}, posted' = Append(posted, d),
               OnceAtMost(posted, "restart"), d = "restart" => ~RestartPosted
        PROVE  OnceAtMost(posted, "restart")'
    <2>1. \A i \in DOMAIN posted' : \/ i \in DOMAIN posted /\ posted'[i] = posted[i]
                                    \/ i = Len(posted) + 1 /\ posted'[i] = d
      BY <1>1, GrownQueue
    <2>2. d = "restart" => \A i \in DOMAIN posted : posted[i] # "restart"
      BY <1>1 DEF RestartPosted
    <2> QED
      BY <1>1, <2>1, <2>2 DEF OnceAtMost
  <1>2. ASSUME posted # <<>>, posted' = Tail(posted), OnceAtMost(posted, "restart")
        PROVE  /\ OnceAtMost(posted, "restart")'
               /\ Head(posted) = "restart" => ~RestartPosted'
    <2>1. /\ 1 \in DOMAIN posted /\ posted[1] = Head(posted)
          /\ \A i \in DOMAIN posted' : /\ i + 1 \in DOMAIN posted /\ i \in Nat /\ i > 0
                                       /\ posted'[i] = posted[i + 1]
      BY <1>2, TakenQueue
    <2>2. ASSUME NEW i \in DOMAIN posted', NEW j \in DOMAIN posted',
                 posted'[i] = "restart", posted'[j] = "restart"
          PROVE  i = j
      <3>1. i + 1 = j + 1
        BY <1>2, <2>1, <2>2 DEF OnceAtMost
      <3> QED
        BY <2>1, <3>1
    <2>3. ASSUME Head(posted) = "restart", NEW i \in DOMAIN posted', posted'[i] = "restart"
          PROVE  FALSE
      <3>1. i + 1 = 1
        BY <1>2, <2>1, <2>3 DEF OnceAtMost
      <3> QED
        BY <2>1, <3>1
    <2> QED
      BY <2>2, <2>3 DEF OnceAtMost, RestartPosted
  <1> QED
    BY <1>1, <1>2

-----------------------------------------------------------------------------
(* The room and its call.                                                  *)

\* Who was hung up, when nobody else is.
LEMMA HungUpKept ==
    ASSUME \A m \in Flying' : m \in Flying \/ m.op # "HANG_UP"
    PROVE  \A c \in Rooms : HungUp(c)' => HungUp(c)
  BY DEF HungUp

\* A step that leaves the room, its call and what is announced alone.
LEMMA RoomQuietly ==
    ASSUME RoomInv, CallsInv, mishaps \subseteq mishaps',
           UNCHANGED <<isAlreadyStarted, CALL_ID, active, live, used, toClient>>,
           RestartPosted' <=> RestartPosted,
           OnceAtMost(posted, "restart") => OnceAtMost(posted, "restart")',
           \A c \in Rooms : HungUp(c)' => HungUp(c)
    PROVE  RoomInv' /\ CallsInv'
  <1>1. Without(Excused)' => Without(Excused)
    BY DEF Without, Excused
  <1>2. Open' <=> Open
    BY DEF Open
  <1>3. RoomInv'
    BY <1>1, <1>2 DEF RoomInv
  <1> QED
    BY <1>1, <1>2, <1>3 DEF CallsInv

\* A room that is released is not open, nor about to be.
LEMMA ReleasedIsClosed ==
    ASSUME TypeOK, RoomInv, ReleaseIfStarted
    PROVE  /\ CALL_ID' = CALL_ID
           /\ Without(Excused)' => Without(Excused) /\ ~Open' /\ OnceAtMost(posted, "restart")'
  <1> USE DEF room
  <1>0. posted \in Seq({"dispose", "restart", "timer"})
    BY TypeParts DEF QueuesTyped
  <1>1. CALL_ID' = CALL_ID
    BY DEF ReleaseIfStarted, Release
  <1>2. CASE isAlreadyStarted
    <2>1. ~isAlreadyStarted' /\ posted' = Append(posted, "dispose") /\ mishaps' = mishaps
      BY <1>2 DEF ReleaseIfStarted, Release
    <2>2. Without(Excused)' => Without(Excused)
      BY <2>1 DEF Without
    <2>3. (RestartPosted' <=> RestartPosted)
          /\ (OnceAtMost(posted, "restart") => OnceAtMost(posted, "restart")')
      BY <1>0, <2>1, PostEffect, PostedOnce
    <2> QED
      BY <1>1, <1>2, <2>1, <2>2, <2>3 DEF RoomInv, Open
  <1>3. CASE ~isAlreadyStarted
    <2>1. /\ isAlreadyStarted' = isAlreadyStarted /\ posted' = posted
          /\ Note("overtaken", RestartPosted)
      BY <1>3 DEF ReleaseIfStarted
    <2>2. Without(Excused)' => Without(Excused) /\ ~RestartPosted
      BY <2>1, NoteEffect DEF Excused, RestartPosted
    <2> QED
      BY <1>1, <1>3, <2>1, <2>2 DEF RoomInv, Open, RestartPosted
  <1> QED
    BY <1>2, <1>3

\* The server or the others announce something: what begins is new, and what is
\* over has been announced, or was hung up here.
LEMMA RoomAnnounced ==
    ASSUME TypeOK, RoomInv, CallsInv, mishaps' = mishaps,
           UNCHANGED <<isAlreadyStarted, CALL_ID, active, posted>>,
           NEW m \in Messages, toClient' = Append(toClient, m),
           used \subseteq used', live' # NoCall => live' \in used',
           m \in Starts => live = NoCall /\ m.call \in used' \ used /\ live' = m.call,
           live # NoCall => \/ m \notin Starts /\ live' = live
                            \/ m \in EndOf(live)
                            \/ m \notin Starts /\ HungUp(live),
           \A c \in Rooms : HungUp(c)' => HungUp(c)
    PROVE  RoomInv' /\ CallsInv'
  <1>0. toClient \in Seq(Messages) /\ used \subseteq Calls /\ active \in Rooms /\ live \in Rooms
    BY TypeParts DEF QueuesTyped, ServerTyped, ClientTyped, RoomsTyped
  <1>1. (Without(Excused)' <=> Without(Excused)) /\ (Open' <=> Open)
        /\ (RestartPosted' <=> RestartPosted)
        /\ (OnceAtMost(posted, "restart")' <=> OnceAtMost(posted, "restart"))
    BY DEF Without, Open, RestartPosted
  <1>2. ASSUME Without(Excused), Open
        PROVE  EndsAfter(toClient, live, 0, active)'
    <2>1. CALL_ID = active /\ active # NoCall /\ EndsAfter(toClient, live, 0, active)
      BY <1>2 DEF RoomInv
    <2>2. ~HungUp(active)
      BY <1>0, <1>2, <2>1 DEF CallsInv
    <2>3. live = active => (m \notin Starts /\ live' = active) \/ m \in EndOf(active)
      BY <2>1, <2>2
    <2>4. 0 <= Len(toClient) /\ 0 \in Nat
      BY <1>0, QueueEntries
    <2>5. EndsAfter(Append(toClient, m), live', 0, active)
      BY <1>0, <2>1, <2>3, <2>4, EndsGrown
    <2> QED
      BY <2>5
  <1>3. RoomInv'
    BY <1>1, <1>2 DEF RoomInv
  <1>4. \A c \in used : Absent(toClient, StartsOf(c)) => Absent(toClient', StartsOf(c))
    <2>1. \A c \in used : m \notin StartsOf(c)
      BY DEF Starts, StartsOf
    <2> QED
      BY <1>0, <2>1, GrownLatest
  <1>5. StartsInOrder(toClient, live, used)'
    <2>1. StartsInOrder(toClient, live, used)
      BY DEF CallsInv
    <2>2. ~Absent(toClient, StartsOf(live)) => (m \notin Starts /\ live' = live) \/ m \in EndOf(live)
      <3>1. SUFFICES ASSUME ~Absent(toClient, StartsOf(live))
                     PROVE  (m \notin Starts /\ live' = live) \/ m \in EndOf(live)
        OBVIOUS
      <3>2. PICK i \in DOMAIN toClient : toClient[i] \in StartsOf(live)
        BY <3>1 DEF Absent
      <3>3. toClient[i] \in Starts /\ toClient[i].call = live
        BY <3>2 DEF Starts, StartsOf
      <3>4. live \in used /\ live # NoCall
        BY <1>0, <2>1, <3>3, NoCallAssumption DEF StartsInOrder
      <3>5. ~HungUp(live)
        BY <1>0, <3>1 DEF CallsInv
      <3> QED
        BY <3>4, <3>5
    <2>3. m \in Starts => m.call \in used' \ used /\ live' = m.call
      OBVIOUS
    <2>4. StartsInOrder(Append(toClient, m), live', used')
      BY <1>0, <2>1, <2>2, <2>3, StartsGrown
    <2> QED
      BY <2>4
  <1>6. CallsInv'
    BY <1>0, <1>1, <1>4, <1>5 DEF CallsInv
  <1> QED
    BY <1>3, <1>6

\* What the server and the others do.
LEMMA RoomServer ==
    ASSUME TypeOK, RoomInv, CallsInv, ServerStep \/ Others
    PROVE  RoomInv' /\ CallsInv'
  <1> USE DEF server
  <1>0. /\ toServer \in Seq(Messages) /\ toClient \in Seq(Messages)
        /\ joined \in Rooms /\ live \in Rooms /\ srvProducers \subseteq Producers
        /\ used \subseteq Calls
    BY TypeParts DEF QueuesTyped, ServerTyped
  <1>1. UNCHANGED <<isAlreadyStarted, CALL_ID, active, posted, mishaps>>
    BY DEF ServerStep, Others, client, room, history
  <1>2. RestartPosted' <=> RestartPosted
    BY <1>1 DEF RestartPosted
  <1>3. CASE ServerStep
    <2>1. PICK m \in Messages : /\ m = Head(toServer) /\ Serve(m)
                                /\ Range(toServer) = {m} \cup Range(toServer')
      BY <1>0, <1>3, TakenQueue, TakenRange DEF ServerStep
    <2>2. used' = used /\ live' = IF m.op = "HANG_UP" /\ live = m.call THEN NoCall ELSE live
      BY <2>1 DEF Serve
    <2>3. CASE toClient' = toClient
      <3>1. m.op # "HANG_UP"
        <4>1. ASSUME m.op = "HANG_UP" PROVE FALSE
          <5>1. PICK a \in Messages : toClient' = Append(toClient, a)
            BY <1>0, <2>1, <4>1, ServeEffect
          <5>2. Len(Append(toClient, a)) = Len(toClient) + 1 /\ Len(toClient) \in Nat
            BY <1>0
          <5> QED
            BY <2>3, <5>1, <5>2
        <4> QED
          BY <4>1
      <3>2. \A c \in Rooms : HungUp(c)' => HungUp(c)
        BY <2>1, <2>3, HungUpKept DEF Flying
      <3> QED
        BY <1>1, <1>2, <2>2, <2>3, <3>1, <3>2, RoomQuietly
    <2>4. ASSUME NEW a \in Messages, toClient' = Append(toClient, a), a.op = m.op \/ a.op = "PRODUCERS",
                 a.op \in {"JOIN", "CONSUME", "HANG_UP"} => a = m
          PROVE  RoomInv' /\ CallsInv'
      <3>1. a \notin Starts
        BY <2>1, <2>4 DEF Starts, Serve
      <3>2. Range(toClient') = Range(toClient) \cup {a}
        BY <1>0, <2>4, GrownRange
      <3>3. \A c \in Rooms : HungUp(c)' => HungUp(c)
        BY <2>1, <2>4, <3>2, HungUpKept DEF Flying
      <3>4. live' = live \/ (HungUp(live) /\ live' = NoCall)
        BY <2>1, <2>2 DEF HungUp, Flying
      <3>5. live' # NoCall => live' \in used'
        BY <2>2, <3>4 DEF CallsInv
      <3> QED
        BY <1>1, <2>2, <2>4, <3>1, <3>3, <3>4, <3>5, RoomAnnounced
    <2> QED
      BY <1>0, <2>1, <2>3, <2>4, ServeEffect
  <1>4. CASE Others
    <2>1. toServer' = toServer
      BY <1>4 DEF Others
    <2>2. ASSUME NEW a \in Messages, toClient' = Append(toClient, a), a.op # "HANG_UP"
          PROVE  \A c \in Rooms : HungUp(c)' => HungUp(c)
      <3>1. Range(toClient') = Range(toClient) \cup {a}
        BY <1>0, <2>2, GrownRange
      <3> QED
        BY <2>1, <2>2, <3>1, HungUpKept DEF Flying
    <2>3. CASE CallEnds
      <3>1. PICK a \in Messages : a \in EndOf(live) /\ toClient' = Append(toClient, a)
        BY <1>0, <2>3, CallEndsEffect
      <3>2. a \notin Starts /\ a.op # "HANG_UP"
        BY <3>1 DEF EndOf, Starts
      <3>3. used' = used /\ live' = NoCall
        BY <2>3 DEF CallEnds
      <3>4. \A c \in Rooms : HungUp(c)' => HungUp(c)
        BY <2>2, <3>1, <3>2
      <3> QED
        BY <1>1, <3>1, <3>2, <3>3, <3>4, RoomAnnounced
    <2>4. ASSUME NEW c \in Calls, CallBegins(c) PROVE RoomInv' /\ CallsInv'
      <3>1. PICK a \in Messages : a \in StartsOf(c) /\ toClient' = Append(toClient, a)
        BY <1>0, <2>4, CallBeginsEffect
      <3>2. a.op # "HANG_UP" /\ a.call = c
        BY <3>1 DEF StartsOf
      <3>3. live = NoCall /\ live' = c /\ c \in used' \ used /\ used \subseteq used'
        BY <2>4 DEF CallBegins
      <3>4. \A d \in Rooms : HungUp(d)' => HungUp(d)
        BY <2>2, <3>1, <3>2
      <3> QED
        BY <1>1, <3>1, <3>2, <3>3, <3>4, RoomAnnounced
    <2>5. ASSUME NEW k \in Kinds, OtherProduces(k) PROVE RoomInv' /\ CallsInv'
      <3>1. UNCHANGED <<live, used>>
        BY <2>5 DEF OtherProduces
      <3>2. CASE toClient' = toClient
        <4>1. \A c \in Rooms : HungUp(c)' => HungUp(c)
          BY <2>1, <3>2, HungUpKept DEF Flying
        <4> QED
          BY <1>1, <1>2, <3>1, <3>2, <4>1, RoomQuietly
      <3>3. ASSUME NEW a \in Messages, a.op = "PRODUCERS", toClient' = Append(toClient, a)
            PROVE  RoomInv' /\ CallsInv'
        <4>1. a \notin Starts /\ \A c \in Rooms : HungUp(c)' => HungUp(c)
          BY <2>2, <3>3 DEF Starts
        <4>2. live' # NoCall => live' \in used'
          BY <3>1 DEF CallsInv
        <4> QED
          BY <1>1, <3>1, <3>3, <4>1, <4>2, RoomAnnounced
      <3> QED
        BY <1>0, <2>5, <3>2, <3>3, OtherProducesEffect
    <2> QED
      BY <1>4, <2>3, <2>4, <2>5 DEF Others
  <1> QED
    BY <1>3, <1>4

\* What the main thread and the background send is no hang-up, but for HangUp.
LEMMA MainSends ==
    ASSUME TypeOK, MainThread \/ Background, ~HangUp
    PROVE  \A c \in Rooms : HungUp(c)' => HungUp(c)
  <1>0. toServer \in Seq(Messages) /\ CALL_ID \in Rooms /\ \A b \in {TRUE, FALSE} : b \in BOOLEAN
    BY TypeParts DEF QueuesTyped, ClientTyped, RoomsTyped
  <1>1. \A m \in Range(toServer') : m \in Range(toServer) \/ m.op # "HANG_UP"
    <2>1. CASE AddCallStreams
      <3>1. PICK nc \in BOOLEAN, peer \in BOOLEAN : nc = FALSE /\ peer = TRUE
        BY <1>0
      <3>2. AskTransports(nc, peer) \/ ProduceOn(sendT) \/ ProduceOn(createWebRtcTransport)
        BY <2>1, <3>1 DEF AddCallStreams
      <3> QED
        BY <1>0, <3>2, AskEffect, ProduceEffect
    <2>2. CASE RunPosted
      <3>1. PICK nc \in BOOLEAN : nc = TRUE
        BY <1>0
      <3>2. toServer' = toServer \/ Initialize(CALL_ID, nc)
        BY <2>2, <3>1 DEF RunPosted, Dispose, Restart, SetTheTimer
      <3> QED
        BY <1>0, <3>2, InitializeEffect
    <2>3. CASE WakeUp
      BY <1>0, <2>3, AskForProducers DEF WakeUp
    <2>4. ASSUME NEW p \in Producers, RunTask(p)
          PROVE  \A m \in Range(toServer') : m \in Range(toServer) \/ m.op # "HANG_UP"
      BY <1>0, <2>4, RunTaskEffect
    <2>5. CASE TimerFires \/ TransportFails \/ TransportRecovers
      BY <2>5 DEF TimerFires, TransportFails, TransportRecovers
    <2> QED
      BY <2>1, <2>2, <2>3, <2>4, <2>5 DEF MainThread, Background
  <1> QED
    BY <1>1, MainFlies, HungUpKept DEF Flying

\* What the main thread and the background do to the room.
LEMMA RoomMain ==
    ASSUME TypeOK, RoomInv, CallsInv, MainThread \/ Background, mishaps \subseteq mishaps'
    PROVE  RoomInv' /\ CallsInv'
  <1> USE DEF room, streams, receivers, server, history
  <1>0. /\ toServer \in Seq(Messages) /\ posted \in Seq({"dispose", "restart", "timer"})
        /\ active \in Rooms /\ CALL_ID \in Rooms
    BY TypeParts DEF QueuesTyped, ClientTyped, RoomsTyped
  <1>1. toClient' = toClient /\ live' = live /\ used' = used /\ active' = active
    BY DEF MainThread, AddCallStreams, HangUp, TimerFires, RunPosted, Background,
       TransportFails, TransportRecovers, WakeUp, RunTask
  <1>2. Without(Excused)' => Without(Excused)
    BY DEF Without
  <1>3. CASE HangUp
    <2>1. ReleaseIfStarted
      BY <1>3 DEF HangUp
    <2>2. Without(Excused)' => ~Open' /\ OnceAtMost(posted, "restart")'
      BY <2>1, ReleasedIsClosed
    <2>3. RoomInv'
      BY <2>2 DEF RoomInv, Open
    <2>4. \A c \in Rooms : HungUp(c)' => HungUp(c) \/ (c = active /\ active # NoCall)
      <3>1. CASE active = NoCall
        <4>1. toServer' = toServer
          BY <1>3, <3>1 DEF HangUp
        <4> QED
          BY <1>1, <4>1 DEF HungUp, Flying
      <3>2. CASE active # NoCall
        <4>1. "HANG_UP" \in Ops
          BY DEF Ops
        <4>2. PICK m \in Messages : m = Plain("HANG_UP", active) /\ m.call = active
          <5>1. Plain("HANG_UP", active) \in Messages /\ Plain("HANG_UP", active).call = active
            BY <1>0, <4>1, PlainType
          <5> QED
            BY <5>1
        <4>3. Emit(m)
          BY <1>3, <3>2, <4>2 DEF HangUp
        <4>4. Range(toServer') = Range(toServer) \cup {m}
          BY <1>0, <4>3, EmitEffect
        <4> QED
          BY <1>1, <3>2, <4>2, <4>4 DEF HungUp, Flying
      <3> QED
        BY <3>1, <3>2
    <2> QED
      BY <1>1, <2>2, <2>3, <2>4 DEF CallsInv
  <1>4. CASE ~HangUp
    <2>0. \A c \in Rooms : HungUp(c)' => HungUp(c)
      BY <1>4, MainSends
    <2>1. CASE TimerFires /\ isAlreadyStarted
      <3>1. /\ ~isAlreadyStarted' /\ CALL_ID' = CALL_ID /\ posted' = Append(posted, "restart")
        BY <2>1 DEF TimerFires, Release
      <3>2. OnceAtMost(posted, "restart") /\ ~RestartPosted => OnceAtMost(posted, "restart")'
        BY <1>0, <3>1, PostedOnce
      <3>3. RoomInv'
        BY <1>1, <1>2, <2>1, <3>1, <3>2 DEF RoomInv, Open
      <3>4. Open
        BY <2>1 DEF Open
      <3> QED
        BY <1>1, <1>2, <2>0, <3>1, <3>3, <3>4 DEF CallsInv
    <2>2. CASE TimerFires /\ ~isAlreadyStarted
      <3>1. UNCHANGED <<isAlreadyStarted, CALL_ID, posted>>
        BY <2>2 DEF TimerFires
      <3>2. (RestartPosted' <=> RestartPosted)
            /\ (OnceAtMost(posted, "restart") => OnceAtMost(posted, "restart")')
        BY <3>1 DEF RestartPosted
      <3> QED
        BY <1>1, <2>0, <3>1, <3>2, RoomQuietly
    <2>3. CASE RunPosted /\ Restart
      <3>1. /\ isAlreadyStarted' = TRUE /\ CALL_ID' = CALL_ID /\ posted # <<>>
            /\ posted' = Tail(posted) /\ Head(posted) = "restart"
        BY <2>3 DEF RunPosted, Restart, Initialize
      <3>2. RestartPosted
        BY <1>0, <3>1, RunPostedEffect
      <3>3. OnceAtMost(posted, "restart") => OnceAtMost(posted, "restart")' /\ ~RestartPosted'
        BY <1>0, <3>1, PostedOnce
      <3>4. RoomInv'
        BY <1>1, <1>2, <3>1, <3>2, <3>3 DEF RoomInv, Open
      <3>5. Open
        BY <3>2 DEF Open
      <3> QED
        BY <1>1, <1>2, <2>0, <3>1, <3>4, <3>5 DEF CallsInv
    <2>4. CASE RunPosted /\ (Dispose \/ SetTheTimer)
      <3>1. /\ UNCHANGED <<isAlreadyStarted, CALL_ID>> /\ posted # <<>>
            /\ posted' = Tail(posted) /\ Head(posted) # "restart"
        <4>1. CASE Dispose
          BY <2>4, <4>1 DEF RunPosted, Dispose
        <4>2. CASE SetTheTimer
          BY <2>4, <4>2 DEF RunPosted, SetTheTimer
        <4> QED
          BY <2>4, <4>1, <4>2
      <3>2. (RestartPosted' <=> RestartPosted)
            /\ (OnceAtMost(posted, "restart") => OnceAtMost(posted, "restart")')
        BY <1>0, <3>1, RunPostedEffect, PostedOnce
      <3> QED
        BY <1>1, <2>0, <3>1, <3>2, RoomQuietly
    <2>5. CASE AddCallStreams \/ Background
      <3>1. UNCHANGED <<isAlreadyStarted, CALL_ID>>
            /\ (posted' = posted \/ posted' = Append(posted, "timer"))
        BY <2>5 DEF AddCallStreams, Background, TransportFails, TransportRecovers, WakeUp, RunTask
      <3>2. (RestartPosted' <=> RestartPosted)
            /\ (OnceAtMost(posted, "restart") => OnceAtMost(posted, "restart")')
        <4>1. CASE posted' = posted
          BY <4>1 DEF RestartPosted
        <4>2. CASE posted' = Append(posted, "timer")
          BY <1>0, <4>2, PostEffect, PostedOnce
        <4> QED
          BY <3>1, <4>1, <4>2
      <3> QED
        BY <1>1, <2>0, <3>1, <3>2, RoomQuietly
    <2> QED
      BY <1>4, <2>1, <2>2, <2>3, <2>4, <2>5 DEF MainThread, RunPosted
  <1> QED
    BY <1>3, <1>4

\* What the event thread does to the room.
LEMMA RoomReceive ==
    ASSUME TypeOK, RoomInv, CallsInv, Receive, mishaps \subseteq mishaps'
    PROVE  RoomInv' /\ CallsInv'
  <1> USE DEF room, streams, receivers, server, history
  <1>0. /\ toServer \in Seq(Messages) /\ toClient \in Seq(Messages)
        /\ posted \in Seq({"dispose", "restart", "timer"})
        /\ active \in Rooms /\ CALL_ID \in Rooms /\ used \subseteq Calls
    BY TypeParts DEF QueuesTyped, ServerTyped, ClientTyped, RoomsTyped
  <1>1. PICK m \in Messages : /\ toClient # <<>> /\ toClient' = Tail(toClient) /\ m = Head(toClient)
                              /\ Handled(m) /\ Range(toClient) = {m} \cup Range(toClient')
                              /\ live' = live /\ used' = used
    BY <1>0, ReceiveEffect
  <1>2. Without(Excused)' => Without(Excused)
    BY DEF Without
  <1>3. \A c \in Rooms : HungUp(c)' => HungUp(c)
    BY <1>0, <1>1, HandlerSends, HungUpKept DEF Flying
  <1>4. /\ StartsInOrder(toClient, live, used)'
        /\ m \in Starts => /\ m.call \in used /\ EndsAfter(toClient', live', 0, m.call)
                           /\ Absent(toClient', StartsOf(m.call))
    <2>1. StartsInOrder(toClient, live, used)
      BY DEF CallsInv
    <2>2. /\ StartsInOrder(Tail(toClient), live, used)
          /\ m \in Starts => /\ m.call \in used /\ EndsAfter(Tail(toClient), live, 0, m.call)
                             /\ Absent(Tail(toClient), StartsOf(m.call))
      BY <1>0, <1>1, <2>1, StartsTaken
    <2> QED
      BY <1>1, <2>2
  <1>5. \A T : Absent(toClient, T) => Absent(toClient', T) /\ m \notin T
    BY <1>0, <1>1, TakenLatest
  <1>6. Without(Excused) /\ Open =>
           /\ m \notin Starts
           /\ m \notin EndOf(active) => EndsAfter(toClient', live', 0, active)
    BY <1>0, <1>1, EndsTaken DEF RoomInv
  <1>7. live' # NoCall => live' \in used'
    BY <1>1 DEF CallsInv
  <1>8. m.call \in Rooms
    BY MessageParts
  <1>9. CASE OnStart(m) \/ InitiateAck(m)
    <2>1. m \in Starts /\ active' = m.call
      BY <1>9 DEF OnStart, InitiateAck, Starts
    <2>2. Without(Excused) => ~isAlreadyStarted /\ ~RestartPosted
      BY <1>6, <2>1 DEF Open
    <2>3. ~HungUp(m.call)
      <3>1. m \in StartsOf(m.call)
        BY <2>1 DEF Starts, StartsOf
      <3> QED
        BY <1>5, <1>8, <3>1 DEF CallsInv
    <2>4. Without(Excused) => CALL_ID' = m.call /\ posted' = posted
      BY <1>9, <2>2 DEF OnStart, InitiateAck, Initialize
    <2>5. m.call \in used /\ m.call # NoCall
      BY <1>0, <1>4, <2>1, NoCallAssumption
    <2>6. Without(Excused) => ~RestartPosted' /\ (OnceAtMost(posted, "restart") => OnceAtMost(posted, "restart")')
      BY <2>2, <2>4 DEF RestartPosted
    <2>7. RoomInv'
      BY <1>2, <1>4, <2>1, <2>4, <2>5, <2>6 DEF RoomInv
    <2>8. \A c \in Rooms : HungUp(c)' =>
             /\ c \in used' /\ Absent(toClient', StartsOf(c))
             /\ Without(Excused)' => ~(Open' /\ c = CALL_ID')
      BY <1>1, <1>2, <1>3, <1>5, <2>3, <2>4 DEF CallsInv
    <2> QED
      BY <1>1, <1>4, <1>7, <2>1, <2>5, <2>7, <2>8 DEF CallsInv
  <1>10. ASSUME active' \in {active, NoCall}, CALL_ID' = CALL_ID, RoomInv',
                Without(Excused)' => (Open' => Open)
         PROVE  RoomInv' /\ CallsInv'
    BY <1>1, <1>2, <1>3, <1>4, <1>5, <1>7, <1>10 DEF CallsInv
  <1>11. CASE OnEnd(m) /\ m.call = active
    <2>1. ReleaseIfStarted /\ active' = NoCall
      BY <1>11 DEF OnEnd
    <2>2. CALL_ID' = CALL_ID /\ (Without(Excused)' => ~Open' /\ OnceAtMost(posted, "restart")')
      BY <2>1, ReleasedIsClosed
    <2>3. RoomInv'
      BY <2>2 DEF RoomInv, Open
    <2> QED
      BY <1>10, <2>1, <2>2, <2>3
  <1>12. CASE HangUpAck(m)
    <2>1. /\ UNCHANGED <<isAlreadyStarted, CALL_ID, posted>> /\ active' = NoCall
          /\ Note("crossed", active \notin {m.call, NoCall}) /\ m.op = "HANG_UP"
      BY <1>12 DEF HangUpAck
    <2>2. Without(Excused)' => active \in {m.call, NoCall}
      BY <2>1, NoteEffect DEF Excused
    <2>3. HungUp(m.call)
      BY <1>1, <2>1 DEF HungUp, Flying
    <2>4. Without(Excused)' => ~Open
      BY <1>2, <1>8, <2>2, <2>3 DEF RoomInv, CallsInv
    <2>5. (Open' <=> Open) /\ (OnceAtMost(posted, "restart") => OnceAtMost(posted, "restart")')
      BY <2>1 DEF Open, RestartPosted
    <2>6. RoomInv'
      BY <1>2, <2>4, <2>5 DEF RoomInv, Open
    <2> QED
      BY <1>10, <2>1, <2>5, <2>6
  <1>13. CASE \/ OnEnd(m) /\ m.call # active
              \/ JoinAck(m) \/ CapsAck(m) \/ SendAck(m) \/ RecvAck(m) \/ RecvVideoAck(m)
              \/ OnProducers(m) \/ ConsumeAck(m)
    <2>1. UNCHANGED <<isAlreadyStarted, CALL_ID, posted, active>> /\ m \notin EndOf(active)
      BY <1>13 DEF OnEnd, JoinAck, CapsAck, SendAck, RecvAck, RecvVideoAck, OnProducers,
         ConsumeAck, EndOf
    <2>2. (Open' <=> Open) /\ (RestartPosted' <=> RestartPosted)
          /\ (OnceAtMost(posted, "restart") => OnceAtMost(posted, "restart")')
      BY <2>1 DEF Open, RestartPosted
    <2>3. RoomInv'
      BY <1>2, <1>6, <2>1, <2>2 DEF RoomInv
    <2> QED
      BY <1>10, <2>1, <2>2, <2>3
  <1> QED
    BY <1>1, <1>9, <1>11, <1>12, <1>13 DEF Handled

LEMMA RoomNext == TypeOK /\ RoomInv /\ CallsInv /\ [Next]_vars => RoomInv' /\ CallsInv'
  <1> SUFFICES ASSUME TypeOK, RoomInv, CallsInv, [Next]_vars PROVE RoomInv' /\ CallsInv'
    OBVIOUS
  <1>0. mishaps \subseteq mishaps'
    BY MishapsGrow
  <1>1. CASE UNCHANGED vars
    <2>1. UNCHANGED <<isAlreadyStarted, CALL_ID, active, live, used, toClient, toServer, posted>>
      BY <1>1 DEF vars, room, server
    <2>2. /\ RestartPosted' <=> RestartPosted
          /\ OnceAtMost(posted, "restart") => OnceAtMost(posted, "restart")'
          /\ \A c \in Rooms : HungUp(c)' => HungUp(c)
      BY <2>1 DEF RestartPosted, HungUp, Flying
    <2> QED
      BY <1>0, <2>1, <2>2, RoomQuietly
  <1> QED
    BY <1>0, <1>1, RoomMain, RoomReceive, RoomServer DEF Next

LEMMA RoomInit == Init => RoomInv /\ CallsInv
  <1> SUFFICES ASSUME Init PROVE RoomInv /\ CallsInv
    OBVIOUS
  <1>1. /\ posted = <<>> /\ toClient = <<>> /\ toServer = <<>> /\ active = NoCall /\ live = NoCall
        /\ ~isAlreadyStarted
    BY DEF Init
  <1>2. DOMAIN posted = {} /\ DOMAIN toClient = {}
    BY <1>1, EmptySeq
  <1>3. Flying = {}
    BY <1>1, NothingInRange DEF Flying
  <1>4. ~Open /\ OnceAtMost(posted, "restart")
    BY <1>1, <1>2 DEF Open, RestartPosted, OnceAtMost
  <1> QED
    BY <1>1, <1>2, <1>3, <1>4 DEF RoomInv, CallsInv, StartsInOrder, HungUp, Open

\* Unless the Ack of a hang-up cleared a later call or a restart was overtaken,
\* a room closes with its call (CallRoom.RoomClosesWithItsCall).
THEOREM RoomFollowsItsCall == Spec => []RoomClosesWithItsCall
  <1>1. ASSUME RoomInv PROVE RoomClosesWithItsCall
    <2>1. SUFFICES ASSUME Settled, isAlreadyStarted, Without(Excused)
                   PROVE  CALL_ID = live
      BY DEF RoomClosesWithItsCall, Excused
    <2>2. CALL_ID = active /\ EndsAfter(toClient, live, 0, active)
      BY <1>1, <2>1 DEF RoomInv, Open
    <2>3. DOMAIN toClient = {}
      BY <2>1, EmptySeq DEF Settled
    <2> QED
      BY <2>2, <2>3 DEF EndsAfter
  <1> QED
    BY <1>1, TypeInit, TypeNext, RoomInit, RoomNext, PTL DEF Spec

-----------------------------------------------------------------------------
(* The crash: a send transport is answered while the device is new.        *)

\* A room that nobody has ever opened here, on either side.
JoinsOf(c) == {m \in Messages : m.op = "JOIN" /\ m.call = c}
SendsOf(c) == {m \in Messages : m.op = "SEND" /\ m.call = c}
Untouched(c) ==
    /\ CALL_ID # c /\ joined # c
    /\ Absent(toServer, JoinsOf(c)) /\ Absent(toClient, SendsOf(c))

\* A call that has not begun, or whose begin is still on its way, is untouched.
Ahead(c) == c \notin used \/ ~Absent(toClient, StartsOf(c))
FreshInv == \A c \in Calls : Ahead(c) => Untouched(c)

\* No send transport will be answered for room c before it is asked for anew.
Unanswered(c) ==
    /\ Absent(toClient, SendsOf(c))
    /\ NoneAfter(toServer, JoinsOf(c), Sends)
    /\ joined = c => Absent(toServer, Sends)

\* With answers in time and no disposal that swept the room, the device of an
\* open room is never disposed of, and while it is new no answer can crash it.
InTime == Without({"late", "swept"})
CrashInv ==
    InTime => /\ Alive
              /\ Open => device # "none"
              /\ Open /\ device = "new" => Unanswered(CALL_ID)

\* What the main thread and the background send: only the room that is open is
\* joined, and only AddCallStreams asks for a send transport.
LEMMA MainJoins ==
    ASSUME TypeOK, MainThread \/ Background
    PROVE  /\ CALL_ID' = CALL_ID /\ joined' = joined /\ toClient' = toClient /\ used' = used
           /\ ~AddCallStreams => SentQuietly
           /\ \A n \in Range(toServer') \ Range(toServer) : n.op = "JOIN" => n.call = CALL_ID
  <1> USE DEF room, streams, receivers, server, history
  <1>0. /\ toServer \in Seq(Messages) /\ CALL_ID \in Rooms /\ active \in Rooms
        /\ \A b \in {TRUE, FALSE} : b \in BOOLEAN
    BY TypeParts DEF QueuesTyped, ClientTyped, RoomsTyped
  <1>1. CALL_ID' = CALL_ID /\ joined' = joined /\ toClient' = toClient /\ used' = used
    BY DEF MainThread, AddCallStreams, HangUp, ReleaseIfStarted, Release, TimerFires, RunPosted,
       Dispose, Restart, Initialize, SetTheTimer, Background, TransportFails, TransportRecovers,
       WakeUp, RunTask
  <1>2. CASE AddCallStreams
    <2>1. PICK nc \in BOOLEAN, peer \in BOOLEAN : nc = FALSE /\ peer = TRUE
      BY <1>0
    <2>2. AskTransports(nc, peer) \/ ProduceOn(sendT) \/ ProduceOn(createWebRtcTransport)
      BY <1>2, <2>1 DEF AddCallStreams
    <2> QED
      BY <1>0, <1>1, <1>2, <2>2, AskEffect, ProduceEffect
  <1>3. CASE HangUp
    <2>1. CASE toServer' = toServer
      BY <1>1, <2>1 DEF SentQuietly
    <2>2. CASE Emit(Plain("HANG_UP", active))
      <3>1. "HANG_UP" \in Ops
        BY DEF Ops
      <3>2. PICK m \in Messages : m = Plain("HANG_UP", active) /\ m.op = "HANG_UP"
        <4>1. Plain("HANG_UP", active) \in Messages /\ Plain("HANG_UP", active).op = "HANG_UP"
          BY <1>0, <3>1, PlainType
        <4> QED
          BY <4>1
      <3>3. Emit(m)
        BY <2>2, <3>2
      <3> QED
        BY <1>0, <1>1, <3>2, <3>3, EmitEffect, EmitQuietly
    <2> QED
      BY <1>3, <2>1, <2>2 DEF HangUp
  <1>4. CASE RunPosted
    <2>1. PICK nc \in BOOLEAN : nc = TRUE
      BY <1>0
    <2>2. toServer' = toServer \/ Initialize(CALL_ID, nc)
      BY <1>4, <2>1 DEF RunPosted, Dispose, Restart, SetTheTimer
    <2>3. Initialize(CALL_ID, nc) =>
             SentQuietly /\ \A n \in Range(toServer') \ Range(toServer) : n.op = "JOIN" => n.call = CALL_ID
      BY <1>0, InitializeEffect
    <2>4. toServer' = toServer => SentQuietly
      BY DEF SentQuietly
    <2> QED
      BY <1>1, <2>2, <2>3, <2>4
  <1>5. CASE WakeUp
    BY <1>0, <1>1, <1>5, AskForProducers DEF WakeUp
  <1>6. ASSUME NEW p \in Producers, RunTask(p)
        PROVE  SentQuietly /\ \A n \in Range(toServer') \ Range(toServer) : n.op # "JOIN"
    BY <1>0, <1>6, RunTaskEffect
  <1>7. CASE TimerFires \/ TransportFails \/ TransportRecovers
    BY <1>1, <1>7 DEF TimerFires, TransportFails, TransportRecovers, SentQuietly
  <1> QED
    BY <1>1, <1>2, <1>3, <1>4, <1>5, <1>6, <1>7 DEF MainThread, Background

\* A queue has no entry of a kind if none of its values is of it.
LEMMA AbsentRange ==
    ASSUME NEW q, NEW T
    PROVE  Absent(q, T) <=> \A m \in Range(q) : m \notin T
  BY DEF Absent, Range

\* A step of the client leaves calls ahead untouched, unless it opens their room.
LEMMA FreshClient ==
    ASSUME TypeOK, CallsInv, FreshInv, MainThread \/ Background \/ Receive
    PROVE  FreshInv'
  <1>0. toServer \in Seq(Messages) /\ toClient \in Seq(Messages)
    BY TypeParts DEF QueuesTyped
  <1>1. /\ joined' = joined /\ used' = used /\ Range(toClient') \subseteq Range(toClient)
        /\ \A n \in Range(toServer') \ Range(toServer) : n.op = "JOIN" => n.call = CALL_ID'
    <2>1. CASE MainThread \/ Background
      BY <2>1, MainJoins
    <2>2. CASE Receive
      BY <1>0, <2>2, ReceiveEffect, HandlerSends DEF server
    <2> QED
      BY <2>1, <2>2
  <1>2. ASSUME NEW c \in Calls, Ahead(c)' PROVE Ahead(c) /\ CALL_ID' # c
    <2>1. Ahead(c)
      BY <1>1, <1>2, AbsentRange DEF Ahead
    <2>2. CALL_ID # c
      BY <2>1 DEF FreshInv, Untouched
    <2>3. CASE CALL_ID' = CALL_ID
      BY <2>1, <2>2, <2>3
    <2>4. ASSUME NEW m \in Messages, Receive, m = Head(toClient), OnStart(m) \/ InitiateAck(m),
                 CALL_ID' = m.call
          PROVE  CALL_ID' # c
      <3>1. m \in Starts /\ toClient # <<>> /\ toClient' = Tail(toClient)
        BY <1>0, <2>4, ReceiveEffect DEF OnStart, InitiateAck, Starts
      <3>2. m.call \in used /\ Absent(toClient', StartsOf(m.call))
        BY <1>0, <2>4, <3>1, StartsTaken DEF CallsInv
      <3> QED
        BY <1>1, <1>2, <2>4, <3>2 DEF Ahead
    <2>5. CASE Receive
      <3>1. PICK m \in Messages : m = Head(toClient) /\ Handled(m)
        BY <2>5, ReceiveFlies
      <3>2. CALL_ID' = CALL_ID \/ ((OnStart(m) \/ InitiateAck(m)) /\ CALL_ID' = m.call)
        BY <3>1 DEF Handled, OnStart, InitiateAck, Initialize, OnEnd, ReleaseIfStarted, Release,
           HangUpAck, JoinAck, CapsAck, SendAck, RecvAck, RecvVideoAck, OnProducers, ConsumeAck, room
      <3> QED
        BY <2>1, <2>3, <2>4, <2>5, <3>1, <3>2
    <2> QED
      BY <2>1, <2>3, <2>5, MainJoins
  <1>3. ASSUME NEW c \in Calls, Ahead(c)' PROVE Untouched(c)'
    <2>1. Untouched(c) /\ CALL_ID' # c
      BY <1>2, <1>3 DEF FreshInv
    <2>2. Absent(toClient', SendsOf(c))
      BY <1>1, <2>1, AbsentRange DEF Untouched
    <2>3. Absent(toServer', JoinsOf(c))
      <3>1. \A m \in Range(toServer') : m \notin JoinsOf(c)
        BY <1>1, <2>1, AbsentRange DEF Untouched, JoinsOf
      <3> QED
        BY <3>1, AbsentRange
    <2> QED
      BY <1>1, <2>1, <2>2, <2>3 DEF Untouched
  <1> QED
    BY <1>3 DEF FreshInv

\* The server and the others leave calls ahead untouched.
LEMMA FreshServer ==
    ASSUME TypeOK, FreshInv, ServerStep \/ Others
    PROVE  FreshInv'
  <1>0. /\ toServer \in Seq(Messages) /\ toClient \in Seq(Messages)
        /\ joined \in Rooms /\ live \in Rooms /\ srvProducers \subseteq Producers
    BY TypeParts DEF QueuesTyped, ServerTyped
  <1>1. CALL_ID' = CALL_ID
    BY DEF ServerStep, Others, client, room
  <1>2. CASE ServerStep
    <2>1. PICK m \in Messages : /\ m = Head(toServer) /\ Serve(m)
                                /\ Range(toServer) = {m} \cup Range(toServer')
      BY <1>0, <1>2, TakenQueue, TakenRange DEF ServerStep
    <2>2. used' = used /\ joined' = IF m.op = "JOIN" THEN m.call ELSE joined
      BY <2>1 DEF Serve, server
    <2>3. \A a \in Range(toClient') \ Range(toClient) : a.op = "SEND" => a.call = joined
      BY <1>0, <2>1, ServeSends
    <2>4. \A a \in Range(toClient') \ Range(toClient) : a.op \notin {"START", "STARTED"}
      <3>1. ASSUME NEW a \in Messages, toClient' = Append(toClient, a), a.op = m.op \/ a.op = "PRODUCERS"
            PROVE  Range(toClient') = Range(toClient) \cup {a} /\ a.op \notin {"START", "STARTED"}
        <4>1. Range(toClient') = Range(toClient) \cup {a}
          BY <1>0, <3>1, GrownRange
        <4>2. m.op \notin {"START", "STARTED"}
          BY <2>1 DEF Serve
        <4> QED
          BY <3>1, <4>1, <4>2
      <3> QED
        BY <1>0, <2>1, <3>1, ServeEffect
    <2>5. ASSUME NEW c \in Calls, Ahead(c)' PROVE Untouched(c)'
      <3>1. Untouched(c)
        <4>1. Ahead(c)
          BY <2>2, <2>4, <2>5, AbsentRange DEF Ahead, StartsOf
        <4> QED
          BY <4>1 DEF FreshInv
      <3>2. joined' # c
        <4>1. m \notin JoinsOf(c)
          BY <2>1, <3>1, AbsentRange DEF Untouched
        <4> QED
          BY <2>2, <3>1, <4>1 DEF Untouched, JoinsOf
      <3>3. Absent(toServer', JoinsOf(c))
        BY <2>1, <3>1, AbsentRange DEF Untouched
      <3>4. Absent(toClient', SendsOf(c))
        <4>1. \A a \in Range(toClient') : a \notin SendsOf(c)
          BY <2>3, <3>1, AbsentRange DEF Untouched, SendsOf
        <4> QED
          BY <4>1, AbsentRange
      <3> QED
        BY <1>1, <3>1, <3>2, <3>3, <3>4 DEF Untouched
    <2> QED
      BY <2>5 DEF FreshInv
  <1>3. CASE Others
    <2>1. toServer' = toServer /\ joined' = joined
      BY <1>3 DEF Others, CallEnds, CallBegins, OtherProduces
    <2>2. \/ toClient' = toClient /\ used' = used
          \/ \E a \in Messages : /\ toClient' = Append(toClient, a) /\ a.op # "SEND"
                                 /\ \/ a \notin Starts /\ used' = used
                                    \/ a \in Starts /\ a.call \notin used /\ used' = used \cup {a.call}
      <3>1. CASE CallEnds
        <4>1. used' = used
          BY <3>1 DEF CallEnds
        <4> QED
          BY <1>0, <3>1, <4>1, CallEndsEffect DEF EndOf, Starts
      <3>2. ASSUME NEW c \in Calls, CallBegins(c)
            PROVE  \E a \in Messages : /\ toClient' = Append(toClient, a) /\ a.op # "SEND"
                                       /\ a \in Starts /\ a.call \notin used /\ used' = used \cup {a.call}
        <4>1. used' = used \cup {c} /\ c \notin used
          BY <3>2 DEF CallBegins
        <4> QED
          BY <1>0, <3>2, <4>1, CallBeginsEffect DEF StartsOf, Starts
      <3>3. ASSUME NEW k \in Kinds, OtherProduces(k)
            PROVE  /\ used' = used
                   /\ \/ toClient' = toClient
                      \/ \E a \in Messages : toClient' = Append(toClient, a) /\ a.op # "SEND" /\ a \notin Starts
        <4>1. used' = used
          BY <3>3 DEF OtherProduces
        <4> QED
          BY <1>0, <3>3, <4>1, OtherProducesEffect DEF Starts
      <3> QED
        BY <1>3, <3>1, <3>2, <3>3 DEF Others
    <2>3. ASSUME NEW c \in Calls, Ahead(c)' PROVE Untouched(c)'
      <3>1. CASE toClient' = toClient /\ used' = used
        BY <1>1, <2>1, <2>3, <3>1 DEF FreshInv, Ahead, Untouched
      <3>2. ASSUME NEW a \in Messages, toClient' = Append(toClient, a), a.op # "SEND",
                   \/ a \notin Starts /\ used' = used
                   \/ a \in Starts /\ a.call \notin used /\ used' = used \cup {a.call}
            PROVE  Untouched(c)'
        <4>1. Range(toClient') = Range(toClient) \cup {a}
          BY <1>0, <3>2, GrownRange
        <4>2. Ahead(c)
          BY <2>3, <3>2, <4>1, AbsentRange DEF Ahead, StartsOf, Starts
        <4>3. Absent(toClient', SendsOf(c))
          <5>1. \A b \in Range(toClient') : b \notin SendsOf(c)
            BY <3>2, <4>1, <4>2, AbsentRange DEF FreshInv, Untouched, SendsOf
          <5> QED
            BY <5>1, AbsentRange
        <4> QED
          BY <1>1, <2>1, <4>2, <4>3 DEF FreshInv, Untouched
      <3> QED
        BY <2>2, <3>1, <3>2
    <2> QED
      BY <2>3 DEF FreshInv
  <1> QED
    BY <1>2, <1>3

\* A step that asks for no send transport leaves the rooms without answers so.
LEMMA UnansweredQuietly ==
    ASSUME TypeOK, NEW c, Unanswered(c), SentQuietly, joined' = joined,
           Range(toClient') \subseteq Range(toClient)
    PROVE  Unanswered(c)'
  <1>0. toServer \in Seq(Messages)
    BY TypeParts DEF QueuesTyped
  <1>1. Absent(toClient', SendsOf(c))
    BY AbsentRange DEF Unanswered
  <1>2. /\ NoneAfter(toServer, JoinsOf(c), Sends) => NoneAfter(toServer', JoinsOf(c), Sends)
        /\ Absent(toServer, Sends) => Absent(toServer', Sends)
    <2>1. CASE toServer' = toServer
      BY <2>1
    <2>2. ASSUME NEW m \in Messages, m \notin Sends, toServer' = Append(toServer, m)
          PROVE  /\ NoneAfter(toServer, JoinsOf(c), Sends) => NoneAfter(toServer', JoinsOf(c), Sends)
                 /\ Absent(toServer, Sends) => Absent(toServer', Sends)
      BY <1>0, <2>2, GrownOrder, GrownLatest
    <2>3. ASSUME NEW r \in Seq(Messages), Absent(r, Sends), toServer' = toServer \o r
          PROVE  /\ NoneAfter(toServer, JoinsOf(c), Sends) => NoneAfter(toServer', JoinsOf(c), Sends)
                 /\ Absent(toServer, Sends) => Absent(toServer', Sends)
      BY <1>0, <2>3, JoinedOrder
    <2> QED
      BY <2>1, <2>2, <2>3 DEF SentQuietly
  <1> QED
    BY <1>1, <1>2 DEF Unanswered

\* Nothing will answer an untouched room.
LEMMA UntouchedUnanswered ==
    ASSUME NEW c, Untouched(c)
    PROVE  Unanswered(c)
  BY DEF Untouched, Unanswered, NoneAfter, Absent

\* The server answers with the transport of the room it knows: not of room c
\* before it has taken the join of c, and nothing asked for after that.
LEMMA UnansweredServer ==
    ASSUME TypeOK, NEW c, Unanswered(c), ServerStep \/ Others
    PROVE  Unanswered(c)'
  <1>0. /\ toServer \in Seq(Messages) /\ toClient \in Seq(Messages)
        /\ joined \in Rooms /\ live \in Rooms /\ srvProducers \subseteq Producers
    BY TypeParts DEF QueuesTyped, ServerTyped
  <1>1. CASE ServerStep
    <2>1. PICK m \in Messages : /\ m = Head(toServer) /\ Serve(m) /\ toServer # <<>>
                                /\ toServer' = Tail(toServer) /\ m \in Range(toServer)
      BY <1>0, <1>1, TakenQueue, TakenRange DEF ServerStep
    <2>2. joined' = IF m.op = "JOIN" THEN m.call ELSE joined
      BY <2>1 DEF Serve, server
    <2>3. /\ NoneAfter(toServer', JoinsOf(c), Sends)
          /\ m \in JoinsOf(c) => Absent(toServer', Sends)
      BY <1>0, <2>1, TakenOrder DEF Unanswered
    <2>4. Absent(toServer, Sends) => Absent(toServer', Sends)
      BY <1>0, <2>1, TakenLatest
    <2>5. joined' = c => Absent(toServer', Sends)
      BY <2>2, <2>3, <2>4 DEF Unanswered, JoinsOf
    <2>6. ASSUME NEW a \in Range(toClient') PROVE a \notin SendsOf(c)
      <3>1. CASE a \in Range(toClient)
        BY <3>1, AbsentRange DEF Unanswered
      <3>2. CASE a \notin Range(toClient)
        <4>1. a.op = "SEND" => a.call = joined /\ m \in Sends
          BY <1>0, <2>1, <2>6, <3>2, ServeSends DEF Sends
        <4>2. joined = c => m \notin Sends
          BY <2>1, AbsentRange DEF Unanswered
        <4> QED
          BY <4>1, <4>2 DEF SendsOf
      <3> QED
        BY <3>1, <3>2
    <2>7. Absent(toClient', SendsOf(c))
      BY <2>6, AbsentRange
    <2> QED
      BY <2>3, <2>5, <2>7 DEF Unanswered
  <1>2. CASE Others
    <2>1. toServer' = toServer /\ joined' = joined
      BY <1>2 DEF Others, CallEnds, CallBegins, OtherProduces
    <2>2. toClient' = toClient \/ \E a \in Messages : a.op # "SEND" /\ toClient' = Append(toClient, a)
      BY <1>0, <1>2, CallEndsEffect, CallBeginsEffect, OtherProducesEffect DEF Others, EndOf, StartsOf
    <2>3. Absent(toClient', SendsOf(c))
      <3>1. ASSUME NEW a \in Messages, a.op # "SEND", toClient' = Append(toClient, a)
            PROVE  Absent(toClient', SendsOf(c))
        <4>1. a \notin SendsOf(c)
          BY <3>1 DEF SendsOf
        <4> QED
          BY <1>0, <3>1, <4>1, GrownLatest DEF Unanswered
      <3> QED
        BY <2>2, <3>1 DEF Unanswered
    <2> QED
      BY <2>1, <2>3 DEF Unanswered
  <1> QED
    BY <1>1, <1>2

\* A step that leaves the device and the room alone, and asks for no send transport.
LEMMA CrashQuietly ==
    ASSUME TypeOK, CrashInv, mishaps \subseteq mishaps', device' = device, Open' => Open,
           CALL_ID' = CALL_ID, SentQuietly, joined' = joined,
           Range(toClient') \subseteq Range(toClient)
    PROVE  CrashInv'
  <1>1. InTime' => InTime
    BY DEF InTime, Without
  <1>2. PICK c : c = CALL_ID
    OBVIOUS
  <1>3. Unanswered(c) => Unanswered(c)'
    BY UnansweredQuietly
  <1>4. Unanswered(CALL_ID) => Unanswered(CALL_ID)'
    BY <1>2, <1>3 DEF Unanswered
  <1> QED
    BY <1>1, <1>4 DEF CrashInv, Alive

\* What the main thread and the background do to the device.
LEMMA CrashMain ==
    ASSUME TypeOK, CrashInv, MainThread \/ Background, mishaps \subseteq mishaps'
    PROVE  CrashInv'
  <1> USE DEF room, streams, receivers, server, history
  <1>0. posted \in Seq({"dispose", "restart", "timer"})
    BY TypeParts DEF QueuesTyped
  <1>1. /\ CALL_ID' = CALL_ID /\ joined' = joined /\ toClient' = toClient
        /\ ~AddCallStreams => SentQuietly
    BY MainJoins
  <1>2. InTime' => InTime
    BY DEF InTime, Without
  <1>3. CASE AddCallStreams
    <2>1. device = "loaded" /\ device' = device
      BY <1>3 DEF AddCallStreams
    <2> QED
      BY <2>1 DEF CrashInv, Alive
  <1>4. CASE RunPosted /\ Dispose
    <2>1. posted # <<>> /\ posted' = Tail(posted) /\ Head(posted) = "dispose"
      BY <1>4 DEF RunPosted, Dispose
    <2>2. RestartPosted' <=> RestartPosted
      BY <1>0, <2>1, RunPostedEffect
    <2>3. Note("swept", isAlreadyStarted \/ RestartPosted) /\ isAlreadyStarted' = isAlreadyStarted
          /\ device' \in {"none", device}
      BY <1>4 DEF Dispose
    <2>4. InTime' => ~Open'
      <3>1. "swept" \in {"late", "swept"}
        OBVIOUS
      <3>2. Without({"late", "swept"})' => ~(isAlreadyStarted \/ RestartPosted)
        BY <2>3, <3>1, NoteEffect
      <3> QED
        BY <2>2, <2>3, <3>2 DEF InTime, Open
    <2>5. Alive'
      BY <1>4, <2>3 DEF RunPosted, Alive
    <2> QED
      BY <2>4, <2>5 DEF CrashInv
  <1>5. CASE RunPosted /\ Restart
    <2>1. posted # <<>> /\ posted' = Tail(posted) /\ Head(posted) = "restart"
      BY <1>5 DEF RunPosted, Restart
    <2>2. Open
      BY <1>0, <2>1, RunPostedEffect DEF Open
    <2>3. device' = IF device = "none" THEN "new" ELSE device
      BY <1>5 DEF Restart, Initialize
    <2>4. CASE device = "none"
      BY <1>2, <2>2, <2>4 DEF CrashInv
    <2>5. CASE device # "none"
      <3>1. PICK nc \in BOOLEAN : nc = TRUE
        OBVIOUS
      <3>2. Initialize(CALL_ID, nc)
        BY <1>5, <3>1 DEF Restart
      <3>3. toServer \in Seq(Messages) /\ CALL_ID \in Rooms
        BY TypeParts DEF QueuesTyped, ClientTyped, RoomsTyped
      <3>4. PICK c \in Rooms : c = CALL_ID /\ Initialize(c, nc)
        BY <3>2, <3>3
      <3>5. SentQuietly
        BY <3>3, <3>4, InitializeEffect
      <3>6. device' = device /\ (Open' => Open) /\ Range(toClient') \subseteq Range(toClient)
        BY <1>1, <2>2, <2>3, <2>5
      <3> QED
        BY <1>1, <3>5, <3>6, CrashQuietly
    <2> QED
      BY <2>4, <2>5
  <1>6. CASE HangUp \/ TimerFires \/ (RunPosted /\ SetTheTimer) \/ Background
    <2>1. device' = device
      BY <1>6 DEF HangUp, TimerFires, SetTheTimer, Background, TransportFails, TransportRecovers,
         WakeUp, RunTask
    <2>2. Open' => Open
      <3>1. CASE TimerFires /\ isAlreadyStarted
        BY <3>1 DEF Open
      <3>2. CASE TimerFires /\ ~isAlreadyStarted
        BY <3>2 DEF TimerFires, Open, RestartPosted
      <3>3. CASE HangUp
        <4>1. CASE isAlreadyStarted
          BY <4>1 DEF Open
        <4>2. CASE ~isAlreadyStarted
          BY <3>3, <4>2 DEF HangUp, ReleaseIfStarted, Open, RestartPosted
        <4> QED
          BY <4>1, <4>2
      <3>4. CASE RunPosted /\ SetTheTimer
        <4>1. posted # <<>> /\ posted' = Tail(posted) /\ isAlreadyStarted' = isAlreadyStarted
          BY <3>4 DEF RunPosted, SetTheTimer
        <4> QED
          BY <1>0, <4>1, RunPostedEffect DEF Open
      <3>5. CASE Background
        <4>1. isAlreadyStarted' = isAlreadyStarted
              /\ (posted' = posted \/ posted' = Append(posted, "timer"))
          BY <3>5 DEF Background, TransportFails, TransportRecovers, WakeUp, RunTask
        <4>2. CASE posted' = posted
          BY <4>1, <4>2 DEF Open, RestartPosted
        <4>3. CASE posted' = Append(posted, "timer")
          BY <1>0, <4>1, <4>3, PostEffect DEF Open
        <4> QED
          BY <4>1, <4>2, <4>3
      <3> QED
        BY <1>6, <3>1, <3>2, <3>3, <3>4, <3>5
    <2>3. CASE AddCallStreams
      BY <1>3, <2>3
    <2> QED
      BY <1>1, <2>1, <2>2, <2>3, CrashQuietly
  <1> QED
    BY <1>3, <1>4, <1>5, <1>6 DEF MainThread, RunPosted

\* What the event thread does to the device.
LEMMA CrashReceive ==
    ASSUME TypeOK, CallsInv, FreshInv, CrashInv, Receive, mishaps \subseteq mishaps'
    PROVE  CrashInv'
  <1> USE DEF room, streams, receivers, server, history
  <1>0. /\ toServer \in Seq(Messages) /\ toClient \in Seq(Messages) /\ used \subseteq Calls
        /\ device \in {"none", "new", "loaded", "crashed"}
    BY TypeParts DEF QueuesTyped, ServerTyped, ClientTyped, FlagsTyped
  <1>1. PICK m \in Messages : /\ toClient # <<>> /\ toClient' = Tail(toClient) /\ m = Head(toClient)
                              /\ Handled(m) /\ Range(toClient) = {m} \cup Range(toClient')
                              /\ joined' = joined /\ Alive
    BY <1>0, ReceiveEffect DEF Receive
  <1>2. InTime' => InTime
    BY DEF InTime, Without
  <1>3. ~CapsAck(m) => SentQuietly
    BY <1>0, <1>1, HandlerSends
  <1>4. CASE OnStart(m) /\ isAlreadyStarted
    <2>1. device' = device /\ CALL_ID' = CALL_ID /\ (Open' => Open) /\ ~CapsAck(m)
      BY <1>4 DEF OnStart, CapsAck, Open
    <2> QED
      BY <1>1, <1>3, <2>1, CrashQuietly
  <1>5. CASE (OnStart(m) /\ ~isAlreadyStarted) \/ InitiateAck(m)
    <2>1. m \in Starts /\ ~CapsAck(m) /\ CALL_ID' = m.call
          /\ device' = IF device = "none" THEN "new" ELSE device
      BY <1>5 DEF OnStart, InitiateAck, CapsAck, Starts, Initialize
    <2>2. m.call \in Calls /\ Ahead(m.call)
      <3>1. m.call \in used
        BY <1>0, <1>1, <2>1, StartsTaken DEF CallsInv
      <3>2. m \in StartsOf(m.call)
        BY <2>1 DEF Starts, StartsOf
      <3> QED
        BY <1>0, <1>1, <3>1, <3>2, AbsentRange DEF Ahead
    <2>3. PICK c \in Calls : c = m.call /\ Unanswered(c)
      BY <2>2, UntouchedUnanswered DEF FreshInv
    <2>4. Unanswered(c)'
      BY <1>1, <1>3, <2>1, <2>3, UnansweredQuietly
    <2>5. Unanswered(CALL_ID)'
      BY <2>1, <2>3, <2>4 DEF Unanswered
    <2> QED
      BY <1>0, <1>1, <2>1, <2>5 DEF CrashInv, Alive
  <1>6. CASE OnEnd(m)
    <2>1. device' = device /\ CALL_ID' = CALL_ID /\ ~CapsAck(m)
      BY <1>6 DEF OnEnd, ReleaseIfStarted, Release, CapsAck
    <2>2. Open' => Open
      <3>1. CASE isAlreadyStarted
        BY <3>1 DEF Open
      <3>2. CASE ~isAlreadyStarted
        BY <1>6, <3>2 DEF OnEnd, ReleaseIfStarted, Open, RestartPosted
      <3> QED
        BY <3>1, <3>2
    <2> QED
      BY <1>1, <1>3, <2>1, <2>2, CrashQuietly
  <1>7. CASE CapsAck(m)
    <2>1. /\ UNCHANGED <<isAlreadyStarted, posted>>
          /\ device' = IF device = "new" THEN "loaded" ELSE device
      BY <1>7 DEF CapsAck
    <2>2. Open' <=> Open
      BY <2>1 DEF Open, RestartPosted
    <2> QED
      BY <1>1, <1>2, <2>1, <2>2 DEF CrashInv, Alive
  <1>8. CASE SendAck(m)
    <2>1. /\ m.op = "SEND" /\ UNCHANGED <<isAlreadyStarted, CALL_ID, posted>>
          /\ mishaps' = IF Late(m) THEN mishaps \cup {"late"} ELSE mishaps
      BY <1>8, SendAckParts
    <2>2. (Open' <=> Open) /\ ~CapsAck(m)
      BY <2>1 DEF Open, RestartPosted, CapsAck
    <2>3. CASE device' = device
      BY <1>1, <1>3, <2>1, <2>2, <2>3, CrashQuietly
    <2>4. CASE device' # device
      <3>1. device = "new"
        BY <1>8, <2>4 DEF SendAck, Overflow
      <3>2. InTime' => isAlreadyStarted /\ m \in SendsOf(CALL_ID)
        BY <2>1 DEF InTime, Without, Late, SendsOf
      <3>3. InTime' => ~Unanswered(CALL_ID)
        BY <1>1, <3>2, AbsentRange DEF Unanswered
      <3>4. ~InTime'
        BY <1>2, <3>1, <3>2, <3>3 DEF CrashInv, Open
      <3> QED
        BY <3>4 DEF CrashInv
    <2> QED
      BY <2>3, <2>4
  <1>9. CASE HangUpAck(m) \/ JoinAck(m) \/ RecvAck(m) \/ RecvVideoAck(m) \/ OnProducers(m)
             \/ ConsumeAck(m)
    <2>1. UNCHANGED <<device, CALL_ID, isAlreadyStarted, posted>> /\ ~CapsAck(m)
      BY <1>9 DEF HangUpAck, JoinAck, RecvAck, RecvVideoAck, OnProducers, ConsumeAck, CapsAck
    <2>2. Open' <=> Open
      BY <2>1 DEF Open, RestartPosted
    <2> QED
      BY <1>1, <1>3, <2>1, <2>2, CrashQuietly
  <1> QED
    BY <1>1, <1>4, <1>5, <1>6, <1>7, <1>8, <1>9 DEF Handled

LEMMA CrashNext ==
    TypeOK /\ CallsInv /\ FreshInv /\ CrashInv /\ [Next]_vars => FreshInv' /\ CrashInv'
  <1> SUFFICES ASSUME TypeOK, CallsInv, FreshInv, CrashInv, [Next]_vars
               PROVE  FreshInv' /\ CrashInv'
    OBVIOUS
  <1>0. mishaps \subseteq mishaps'
    BY MishapsGrow
  <1>1. CASE UNCHANGED vars
    <2>1. UNCHANGED <<device, CALL_ID, isAlreadyStarted, posted, joined, used, toServer, toClient>>
      BY <1>1 DEF vars, room, server
    <2>2. FreshInv'
      BY <2>1 DEF FreshInv, Ahead, Untouched
    <2>3. (Open' <=> Open) /\ SentQuietly
      BY <2>1 DEF Open, RestartPosted, SentQuietly
    <2> QED
      BY <1>0, <2>1, <2>2, <2>3, CrashQuietly
  <1>2. CASE MainThread \/ Background \/ Receive
    BY <1>0, <1>2, FreshClient, CrashMain, CrashReceive
  <1>3. CASE ServerStep \/ Others
    <2>1. UNCHANGED <<device, CALL_ID, isAlreadyStarted, posted, mishaps>>
      BY <1>3 DEF ServerStep, Others, client, room, history
    <2>2. (Open' <=> Open) /\ (InTime' <=> InTime)
      BY <2>1 DEF Open, RestartPosted, InTime, Without
    <2>3. PICK c : c = CALL_ID
      OBVIOUS
    <2>4. Unanswered(c) => Unanswered(c)'
      BY <1>3, UnansweredServer
    <2>5. Unanswered(CALL_ID) => Unanswered(CALL_ID)'
      BY <2>1, <2>3, <2>4 DEF Unanswered
    <2>6. CrashInv'
      BY <2>1, <2>2, <2>5 DEF CrashInv, Alive
    <2> QED
      BY <1>3, <2>6, FreshServer
  <1> QED
    BY <1>1, <1>2, <1>3 DEF Next

LEMMA CrashInit == Init => FreshInv /\ CrashInv
  <1> SUFFICES ASSUME Init PROVE FreshInv /\ CrashInv
    OBVIOUS
  <1>1. /\ posted = <<>> /\ toClient = <<>> /\ toServer = <<>> /\ CALL_ID = NoCall /\ joined = NoCall
        /\ ~isAlreadyStarted /\ device = "new"
    BY DEF Init
  <1>2. ~Open /\ Alive
    BY <1>1, EmptySeq DEF Open, RestartPosted, Alive
  <1>3. \A c \in Calls : Untouched(c)
    BY <1>1, NothingAbsent, NoCallAssumption DEF Untouched
  <1> QED
    BY <1>2, <1>3 DEF FreshInv, CrashInv

\* With answers in time and no disposal that swept the room, the two functions
\* that call each other until there is a send transport find one
\* (CallRoom.AnswersInTimeNeverCrash).
THEOREM NoEndlessRecursion == Spec => []AnswersInTimeNeverCrash
  <1>1. CrashInv => AnswersInTimeNeverCrash
    BY DEF CrashInv, InTime, AnswersInTimeNeverCrash
  <1> QED
    BY <1>1, TypeInit, TypeNext, RoomInit, RoomNext, CrashInit, CrashNext, PTL DEF Spec

-----------------------------------------------------------------------------
(* What the device asks for, and what it is answered, one by one.          *)

Those(op) == {m \in Messages : m.op = op}
Joins == Those("JOIN")
Recvs == Those("RECV")
Videos == Those("RECV_VIDEO")
Gets == Those("GET_PRODUCERS")

\* A room is opened again, or for a call that begins.
OpensAgain == RunPosted /\ Restart
OpensFor(m) ==
    /\ Receive /\ m = Head(toClient)
    /\ InitiateAck(m) \/ (OnStart(m) /\ ~isAlreadyStarted)

\* Of a request that is not for transports: only the room that is opened is joined,
\* and a consumer is asked for only by a task.
Single(e) ==
    /\ e.op \in {"JOIN", "CAPS", "GET_PRODUCERS", "CONSUME", "HANG_UP"}
    /\ e.op = "JOIN" => /\ e.call = CALL_ID'
                        /\ IF e.nc THEN OpensAgain ELSE OpensFor(Head(toClient))
    /\ e.op # "JOIN" => CALL_ID' = CALL_ID
    /\ e.op = "CONSUME" => e.prods \subseteq tasks

\* What a step of the device sends: nothing, one request, the requests for the
\* receive transports or, for a consumer that has none, the last of these, or those
\* for all transports.
SendsNothing == toServer' = toServer
SendsOne == \E e \in Messages : Single(e) /\ toServer' = Append(toServer, e)
SendsVideo ==
    /\ \E v \in Videos : toServer' = Append(toServer, v)
    /\ Receive /\ ConsumeAck(Head(toClient))
SendsRecvs == \E r \in Recvs, v \in Videos : toServer' = Append(Append(toServer, r), v)
SendsAll(nc) ==
    \E a \in Sends, r \in Recvs, v \in Videos :
        a.nc = nc /\ toServer' = Append(Append(Append(toServer, a), r), v)

\* The requests for the receive transports, in their order.
LEMMA ReceiversAre ==
    ASSUME NEW q \in Seq(Messages)
    PROVE  \E r \in Recvs, v \in Videos : /\ q \o ReceiverRequests = Append(Append(q, r), v)
                                          /\ q \o Tail(ReceiverRequests) = Append(q, v)
  <1>0. "RECV" \in Ops /\ "RECV_VIDEO" \in Ops /\ NoCall \in Rooms
    BY DEF Ops, Rooms
  <1>1. /\ Plain("RECV", NoCall) \in Messages /\ Plain("RECV", NoCall).op = "RECV"
        /\ Plain("RECV_VIDEO", NoCall) \in Messages
        /\ Plain("RECV_VIDEO", NoCall).op = "RECV_VIDEO"
    BY <1>0, PlainType
  <1>2. PICK r \in Recvs : r = Plain("RECV", NoCall)
    BY <1>1 DEF Recvs, Those
  <1>3. PICK v \in Videos : v = Plain("RECV_VIDEO", NoCall)
    BY <1>1 DEF Videos, Those
  <1>4. r \in Messages /\ v \in Messages
    BY DEF Recvs, Videos, Those
  <1>5. ReceiverRequests = <<r, v>>
    BY <1>2, <1>3 DEF ReceiverRequests
  <1> HIDE DEF ReceiverRequests
  <1>6. Tail(<<r, v>>) = <<v>>
    BY <1>4
  <1>7. q \o <<r, v>> = Append(Append(q, r), v) /\ q \o <<v>> = Append(q, v)
    BY <1>4
  <1> QED
    BY <1>5, <1>6, <1>7

\* All transports are asked for, of an open room.
LEMMA AskIs ==
    ASSUME toServer \in Seq(Messages), NEW nc \in BOOLEAN, NEW peer \in BOOLEAN,
           AskTransports(nc, peer)
    PROVE  IF isAlreadyStarted THEN SendsAll(nc) ELSE SendsNothing
  <1>1. CASE ~isAlreadyStarted
    BY <1>1 DEF AskTransports, SendsNothing
  <1>2. CASE isAlreadyStarted
    <2>1. PICK a \in Sends : a = Msg("SEND", NoCall, nc, peer, {}) /\ a.nc = nc /\ a \in Messages
      <3>1. /\ Msg("SEND", NoCall, nc, peer, {}) \in Messages
            /\ Msg("SEND", NoCall, nc, peer, {}).op = "SEND"
            /\ Msg("SEND", NoCall, nc, peer, {}).nc = nc
        <4>1. "SEND" \in Ops /\ NoCall \in Rooms /\ {} \in SUBSET Producers
          BY DEF Ops, Rooms
        <4>2. PICK P \in SUBSET Producers : P = {}
          BY <4>1
        <4>3. /\ Msg("SEND", NoCall, nc, peer, P) \in Messages
              /\ Msg("SEND", NoCall, nc, peer, P).op = "SEND"
              /\ Msg("SEND", NoCall, nc, peer, P).nc = nc
          BY <4>1, MsgType
        <4> QED
          BY <4>2, <4>3
      <3> QED
        BY <3>1 DEF Sends
    <2>2. toServer \o <<a>> = Append(toServer, a)
      BY <2>1
    <2>3. PICK q \in Seq(Messages) : q = Append(toServer, a)
      <3>1. Append(toServer, a) \in Seq(Messages)
        BY <2>1, GrownQueue
      <3> QED
        BY <3>1
    <2>4. toServer' = q \o ReceiverRequests
      BY <1>2, <2>1, <2>2, <2>3 DEF AskTransports
    <2>5. PICK r \in Recvs, v \in Videos : q \o ReceiverRequests = Append(Append(q, r), v)
      BY ReceiversAre
    <2> QED
      BY <1>2, <2>1, <2>3, <2>4, <2>5 DEF SendsAll
  <1> QED
    BY <1>1, <1>2

\* A room is opened: it is joined.
LEMMA InitializeIs ==
    ASSUME NEW c \in Rooms, NEW nc \in BOOLEAN, Initialize(c, nc)
    PROVE  \E j \in Joins : j.call = c /\ j.nc = nc /\ toServer' = Append(toServer, j)
  <1>1. "JOIN" \in Ops /\ FALSE \in BOOLEAN /\ {} \in SUBSET Producers
    BY DEF Ops
  <1>2. PICK f \in BOOLEAN, P \in SUBSET Producers : f = FALSE /\ P = {}
    BY <1>1
  <1>3. /\ Msg("JOIN", c, nc, f, P) \in Messages /\ Msg("JOIN", c, nc, f, P).op = "JOIN"
        /\ Msg("JOIN", c, nc, f, P).call = c /\ Msg("JOIN", c, nc, f, P).nc = nc
    BY <1>1, MsgType
  <1>4. toServer' = Append(toServer, Msg("JOIN", c, nc, f, P))
    BY <1>2 DEF Initialize, Emit
  <1> QED
    BY <1>3, <1>4 DEF Joins, Those

\* The producers are asked for.
LEMMA GetIs ==
    ASSUME Emit(Plain("GET_PRODUCERS", NoCall))
    PROVE  \E g \in Gets : toServer' = Append(toServer, g)
  <1>1. "GET_PRODUCERS" \in Ops /\ NoCall \in Rooms
    BY DEF Ops, Rooms
  <1>2. /\ Plain("GET_PRODUCERS", NoCall) \in Messages
        /\ Plain("GET_PRODUCERS", NoCall).op = "GET_PRODUCERS"
    BY <1>1, PlainType
  <1> QED
    BY <1>2 DEF Gets, Those, Emit

\* The request of a task for its consumer.
Request(p) == Msg("CONSUME", NoCall, FALSE, FALSE, {p})
LEMMA RequestIs ==
    ASSUME NEW p \in Producers
    PROVE  Request(p) \in Messages /\ Request(p).op = "CONSUME" /\ Request(p).prods = {p}
  <1>1. "CONSUME" \in Ops /\ NoCall \in Rooms /\ FALSE \in BOOLEAN /\ {p} \in SUBSET Producers
    BY DEF Ops, Rooms
  <1>2. PICK f \in BOOLEAN, P \in SUBSET Producers : f = FALSE /\ P = {p}
    BY <1>1
  <1>3. Msg("CONSUME", NoCall, f, f, P) \in Messages /\ Msg("CONSUME", NoCall, f, f, P).op = "CONSUME"
    BY <1>1, MsgType
  <1>4. Msg("CONSUME", NoCall, f, f, P).prods = P
    BY DEF Msg
  <1> QED
    BY <1>2, <1>3, <1>4 DEF Request

\* What a step of the device does to the queues.
SendsSome == SendsNothing \/ SendsVideo \/ SendsRecvs \/ \E nc \in BOOLEAN : SendsAll(nc)
DeviceStep ==
    /\ UNCHANGED server
    /\ toClient' = toClient \/ (toClient # <<>> /\ toClient' = Tail(toClient))
    /\ SendsOne \/ (SendsSome /\ CALL_ID' = CALL_ID)

\* Of the main thread and the background.
LEMMA MainStep ==
    ASSUME TypeOK, MainThread \/ Background
    PROVE  DeviceStep /\ toClient' = toClient
  <1> USE DEF room, streams, receivers, server, history
  <1>0. /\ toServer \in Seq(Messages) /\ CALL_ID \in Rooms /\ active \in Rooms
        /\ \A b \in {TRUE, FALSE} : b \in BOOLEAN
    BY TypeParts DEF QueuesTyped, ClientTyped, RoomsTyped
  <1>1. CALL_ID' = CALL_ID /\ UNCHANGED server /\ toClient' = toClient
    BY DEF MainThread, AddCallStreams, HangUp, ReleaseIfStarted, Release, TimerFires, RunPosted,
       Dispose, Restart, Initialize, SetTheTimer, Background, TransportFails, TransportRecovers,
       WakeUp, RunTask
  <1>2. ASSUME Emit(Plain("GET_PRODUCERS", NoCall)) PROVE SendsOne
    <2>1. PICK g \in Gets : toServer' = Append(toServer, g)
      BY <1>2, GetIs
    <2>2. g \in Messages /\ Single(g)
      BY <1>1 DEF Gets, Those, Single
    <2> QED
      BY <2>1, <2>2 DEF SendsOne
  <1>3. CASE AddCallStreams
    <2>1. CASE \E t \in {sendT, createWebRtcTransport} : ProduceOn(t)
      BY <1>1, <1>2, <2>1 DEF ProduceOn, DeviceStep, SendsSome, SendsNothing
    <2>2. CASE AskTransports(FALSE, TRUE)
      <3>1. PICK nc \in BOOLEAN, peer \in BOOLEAN : nc = FALSE /\ peer = TRUE
        BY <1>0
      <3>2. AskTransports(nc, peer)
        BY <2>2, <3>1
      <3> QED
        BY <1>0, <1>1, <3>2, AskIs DEF DeviceStep, SendsSome
    <2> QED
      BY <1>3, <2>1, <2>2 DEF AddCallStreams
  <1>4. CASE HangUp
    <2>1. CASE toServer' = toServer
      BY <1>1, <2>1 DEF DeviceStep, SendsSome, SendsNothing
    <2>2. CASE Emit(Plain("HANG_UP", active))
      <3>1. "HANG_UP" \in Ops
        BY DEF Ops
      <3>2. Plain("HANG_UP", active) \in Messages /\ Plain("HANG_UP", active).op = "HANG_UP"
        BY <1>0, <3>1, PlainType
      <3>3. Single(Plain("HANG_UP", active))
        BY <1>1, <3>2 DEF Single
      <3> QED
        BY <1>1, <2>2, <3>2, <3>3 DEF DeviceStep, SendsOne, Emit
    <2> QED
      BY <1>4, <2>1, <2>2 DEF HangUp
  <1>5. CASE RunPosted
    <2>1. CASE toServer' = toServer
      BY <1>1, <2>1 DEF DeviceStep, SendsSome, SendsNothing
    <2>2. CASE Restart
      <3>1. PICK nc \in BOOLEAN, c \in Rooms : nc = TRUE /\ c = CALL_ID
        BY <1>0
      <3>2. PICK j \in Joins : j.call = c /\ j.nc = nc /\ toServer' = Append(toServer, j)
        BY <2>2, <3>1, InitializeIs DEF Restart
      <3>3. j \in Messages /\ Single(j)
        BY <1>1, <1>5, <2>2, <3>1, <3>2 DEF Joins, Those, Single, OpensAgain
      <3> QED
        BY <1>1, <3>2, <3>3 DEF DeviceStep, SendsOne
    <2> QED
      BY <1>5, <2>1, <2>2 DEF RunPosted, Dispose, SetTheTimer
  <1>6. CASE WakeUp
    BY <1>1, <1>2, <1>6 DEF WakeUp, DeviceStep
  <1>7. ASSUME NEW p \in Producers, RunTask(p) PROVE DeviceStep
    <2>1. CASE toServer' = toServer
      BY <1>1, <2>1 DEF DeviceStep, SendsSome, SendsNothing
    <2>2. CASE Emit(Request(p))
      <3>1. Single(Request(p)) /\ Request(p) \in Messages
        BY <1>1, <1>7, RequestIs DEF Single, RunTask
      <3> QED
        BY <1>1, <2>2, <3>1 DEF DeviceStep, SendsOne, Emit
    <2> QED
      BY <1>7, <2>1, <2>2 DEF RunTask, Request
  <1>8. CASE TimerFires \/ TransportFails \/ TransportRecovers
    BY <1>1, <1>8 DEF TimerFires, TransportFails, TransportRecovers, DeviceStep, SendsSome, SendsNothing
  <1> QED
    BY <1>1, <1>3, <1>4, <1>5, <1>6, <1>7, <1>8 DEF MainThread, Background

\* Of the event thread.
LEMMA EventStep ==
    ASSUME TypeOK, Receive
    PROVE  DeviceStep /\ toClient # <<>> /\ toClient' = Tail(toClient)
  <1> USE DEF room, streams, receivers, server, history
  <1>0. toServer \in Seq(Messages) /\ toClient \in Seq(Messages)
    BY TypeParts DEF QueuesTyped
  <1>1. PICK m \in Messages : m = Head(toClient) /\ Handled(m)
    BY ReceiveFlies
  <1>2. UNCHANGED server /\ toClient # <<>> /\ toClient' = Tail(toClient)
    BY DEF Receive
  <1>3. m.call \in Rooms /\ m.nc \in BOOLEAN /\ FALSE \in BOOLEAN
    BY MessageParts
  <1>4. CASE toServer' = toServer /\ CALL_ID' = CALL_ID
    BY <1>2, <1>4 DEF DeviceStep, SendsSome, SendsNothing
  <1>5. CASE OpensFor(m)
    <2>1. PICK nc \in BOOLEAN : nc = FALSE
      OBVIOUS
    <2>2. Initialize(m.call, FALSE)
      BY <1>5 DEF OpensFor, OnStart, InitiateAck
    <2>3. PICK j \in Joins : j.call = m.call /\ j.nc = nc /\ toServer' = Append(toServer, j)
      BY <1>3, <2>1, <2>2, InitializeIs
    <2>4. CALL_ID' = m.call
      BY <2>2 DEF Initialize
    <2>5. j \in Messages /\ Single(j)
      BY <1>1, <1>5, <2>1, <2>3, <2>4 DEF Joins, Those, Single
    <2> QED
      BY <1>2, <2>3, <2>5 DEF DeviceStep, SendsOne
  <1>6. CASE Emit(Plain("GET_PRODUCERS", NoCall)) /\ CALL_ID' = CALL_ID
    <2>1. PICK g \in Gets : toServer' = Append(toServer, g)
      BY <1>6, GetIs
    <2>2. g \in Messages /\ Single(g)
      BY <1>6 DEF Gets, Those, Single
    <2> QED
      BY <1>2, <2>1, <2>2 DEF DeviceStep, SendsOne
  <1>7. CASE JoinAck(m)
    <2>1. PICK f \in BOOLEAN, P \in SUBSET Producers : f = FALSE /\ P = {}
      <3>1. {} \in SUBSET Producers
        OBVIOUS
      <3> QED
        BY <1>3, <3>1
    <2>2. "CAPS" \in Ops /\ NoCall \in Rooms
      BY DEF Ops, Rooms
    <2>3. PICK c \in Messages : c = Msg("CAPS", NoCall, m.nc, f, P) /\ c.op = "CAPS"
      BY <1>3, <2>2, MsgType
    <2>4. toServer' = Append(toServer, c) /\ CALL_ID' = CALL_ID
      BY <1>7, <2>1, <2>3 DEF JoinAck, Emit
    <2>5. Single(c)
      BY <2>3, <2>4 DEF Single
    <2> QED
      BY <1>2, <2>4, <2>5 DEF DeviceStep, SendsOne
  <1>8. CASE CapsAck(m)
    <2>1. PICK f \in BOOLEAN : f = FALSE
      OBVIOUS
    <2>2. AskTransports(m.nc, f) /\ CALL_ID' = CALL_ID
      BY <1>8, <2>1 DEF CapsAck
    <2> QED
      BY <1>0, <1>2, <1>3, <2>2, AskIs DEF DeviceStep, SendsSome
  <1>9. CASE ConsumeAck(m)
    <2>1. PICK r \in Recvs, v \in Videos :
             /\ toServer \o ReceiverRequests = Append(Append(toServer, r), v)
             /\ toServer \o Tail(ReceiverRequests) = Append(toServer, v)
      BY <1>0, ReceiversAre
    <2>2. CALL_ID' = CALL_ID
      BY <1>9 DEF ConsumeAck
    <2>3. toServer' \in {toServer, toServer \o ReceiverRequests, toServer \o Tail(ReceiverRequests)}
      BY <1>9 DEF ConsumeAck
    <2> QED
      BY <1>1, <1>2, <1>9, <2>1, <2>2, <2>3
         DEF DeviceStep, SendsSome, SendsNothing, SendsRecvs, SendsVideo
  <1>10. CASE SendAck(m)
    <2>1. CALL_ID' = CALL_ID /\ (toServer' = toServer \/ Emit(Plain("GET_PRODUCERS", NoCall)))
      BY <1>10 DEF SendAck, ProduceOn, Overflow
    <2> QED
      BY <1>4, <1>6, <2>1
  <1>11. CASE OnProducers(m)
    BY <1>4, <1>6, <1>11 DEF OnProducers
  <1>12. CASE OnStart(m) \/ InitiateAck(m)
    <2>1. CASE OnStart(m) /\ isAlreadyStarted
      BY <1>4, <2>1 DEF OnStart
    <2>2. CASE ~(OnStart(m) /\ isAlreadyStarted)
      BY <1>1, <1>5, <1>12, <2>2 DEF OpensFor
    <2> QED
      BY <2>1, <2>2
  <1>13. CASE OnEnd(m) \/ HangUpAck(m) \/ RecvAck(m) \/ RecvVideoAck(m)
    BY <1>4, <1>13 DEF OnEnd, ReleaseIfStarted, Release, HangUpAck, RecvAck, RecvVideoAck
  <1> QED
    BY <1>1, <1>2, <1>7, <1>8, <1>9, <1>10, <1>11, <1>12, <1>13 DEF Handled

\* What the server answers, and which requests it leaves unanswered.
ProducersOf(c) == {p \in srvProducers : p[1] = c}
Reply(m, a) ==
    \/ m.op \in {"JOIN", "HANG_UP"} /\ a = m
    \/ m.op \in {"CAPS", "SEND", "RECV", "RECV_VIDEO"} /\ a.op = m.op /\ a.nc = m.nc /\ a.call = joined
    \/ m.op = "GET_PRODUCERS" /\ a.op = "PRODUCERS" /\ a.prods = ProducersOf(joined)
    \/ m.op = "CONSUME" /\ a = m /\ m.prods \subseteq srvProducers
Unheard(m) ==
    \/ m.op = "GET_PRODUCERS" /\ ProducersOf(joined) = {}
    \/ m.op = "CONSUME" /\ ~(m.prods \subseteq srvProducers)

LEMMA ReplyIs ==
    ASSUME TypeOK, ServerStep
    PROVE  /\ UNCHANGED client /\ used' = used
           /\ toServer # <<>> /\ toServer' = Tail(toServer) /\ Head(toServer) \in Messages
           /\ joined' = IF Head(toServer).op = "JOIN" THEN Head(toServer).call ELSE joined
           /\ live' \in {live, NoCall} /\ srvProducers' \subseteq srvProducers
           /\ Head(toServer).op # "HANG_UP" => live' = live /\ srvProducers' = srvProducers
           /\ Head(toServer).op = "HANG_UP" =>
                 /\ live' = IF live = Head(toServer).call THEN NoCall ELSE live
                 /\ srvProducers' = {p \in srvProducers : p[1] # Head(toServer).call}
           /\ \/ toClient' = toClient /\ Unheard(Head(toServer))
              \/ \E a \in Messages : toClient' = Append(toClient, a) /\ Reply(Head(toServer), a)
  <1>0. /\ toServer \in Seq(Messages) /\ joined \in Rooms /\ srvProducers \subseteq Producers
    BY TypeParts DEF QueuesTyped, ServerTyped
  <1>1. PICK m \in Messages : /\ m = Head(toServer) /\ Serve(m) /\ toServer # <<>>
                              /\ toServer' = Tail(toServer) /\ UNCHANGED client
    BY <1>0, TakenQueue DEF ServerStep
  <1>2. /\ used' = used /\ joined' = IF m.op = "JOIN" THEN m.call ELSE joined
        /\ live' \in {live, NoCall} /\ srvProducers' \subseteq srvProducers
        /\ m.op # "HANG_UP" => live' = live /\ srvProducers' = srvProducers
        /\ m.op = "HANG_UP" => /\ live' = IF live = m.call THEN NoCall ELSE live
                               /\ srvProducers' = {p \in srvProducers : p[1] # m.call}
    BY <1>1 DEF Serve, server
  <1>3. \/ toClient' = toClient /\ Unheard(m)
        \/ \E a \in Messages : toClient' = Append(toClient, a) /\ Reply(m, a)
    <2>1. CASE m.op \in {"JOIN", "HANG_UP"}
      BY <1>1, <2>1 DEF Serve, Push, Reply
    <2>2. CASE m.op \in {"CAPS", "SEND", "RECV", "RECV_VIDEO"}
      <3>1. PICK a \in Messages : a = [m EXCEPT !.call = joined] /\ a.op = m.op /\ a.nc = m.nc
                                  /\ a.call = joined
        BY <1>0, MessageParts DEF Messages
      <3>2. toClient' = Append(toClient, a)
        BY <1>1, <2>2, <3>1 DEF Serve, Push
      <3> QED
        BY <2>2, <3>1, <3>2 DEF Reply
    <2>3. CASE m.op = "GET_PRODUCERS"
      <3>1. PICK P \in SUBSET Producers : P = ProducersOf(joined)
        BY <1>0 DEF ProducersOf
      <3>2. PICK f \in BOOLEAN : f = FALSE /\ "PRODUCERS" \in Ops
        BY DEF Ops
      <3>3. PICK a \in Messages : a = Msg("PRODUCERS", joined, f, f, P) /\ a.op = "PRODUCERS"
        BY <1>0, <3>2, MsgType
      <3>4. a.prods = P
        BY <3>3 DEF Msg
      <3>5. (toClient' = toClient /\ P = {}) \/ toClient' = Append(toClient, a)
        BY <1>1, <2>3, <3>1, <3>2, <3>3 DEF Serve, Push, ProducersOf
      <3> QED
        BY <2>3, <3>1, <3>3, <3>4, <3>5 DEF Reply, Unheard
    <2>4. CASE m.op = "CONSUME"
      BY <1>1, <2>4 DEF Serve, Push, Reply, Unheard
    <2> QED
      BY <1>1, <2>1, <2>2, <2>3, <2>4 DEF Serve
  <1> QED
    BY <1>1, <1>2, <1>3

\* What the others do, and what the device is told of it.
Begins(c, a) ==
    /\ live = NoCall /\ c \notin used /\ live' = c /\ used' = used \cup {c}
    /\ srvProducers' = srvProducers /\ a \in StartsOf(c)
Ends(a) ==
    live # NoCall /\ live' = NoCall /\ used' = used /\ srvProducers' = {} /\ a \in EndOf(live)
Produces(k) ==
    /\ live # NoCall /\ UNCHANGED <<live, used>>
    /\ srvProducers' = srvProducers \cup {<<live, k>>}
Tells(k, a) == joined = live /\ a.op = "PRODUCERS" /\ a.prods = {<<live, k>>}

LEMMA OthersAre ==
    ASSUME TypeOK, Others
    PROVE  /\ UNCHANGED client /\ toServer' = toServer /\ joined' = joined
           /\ \/ \E a \in Messages :
                    /\ toClient' = Append(toClient, a)
                    /\ \/ \E c \in Calls : Begins(c, a)
                       \/ Ends(a)
                       \/ \E k \in Kinds : Produces(k) /\ Tells(k, a)
              \/ toClient' = toClient /\ joined # live /\ \E k \in Kinds : Produces(k)
  <1>0. toClient \in Seq(Messages) /\ live \in Rooms
    BY TypeParts DEF QueuesTyped, ServerTyped
  <1>1. UNCHANGED client /\ toServer' = toServer /\ joined' = joined
    BY DEF Others, CallEnds, CallBegins, OtherProduces
  <1>2. CASE CallEnds
    <2>1. PICK a \in Messages : a \in EndOf(live) /\ toClient' = Append(toClient, a)
      BY <1>0, <1>2, CallEndsEffect
    <2> QED
      BY <1>1, <1>2, <2>1 DEF CallEnds, Ends
  <1>3. ASSUME NEW c \in Calls, CallBegins(c)
        PROVE  \E a \in Messages : toClient' = Append(toClient, a) /\ Begins(c, a)
    <2>1. PICK a \in Messages : a \in StartsOf(c) /\ toClient' = Append(toClient, a)
      BY <1>0, <1>3, CallBeginsEffect
    <2> QED
      BY <1>3, <2>1 DEF CallBegins, Begins
  <1>4. ASSUME NEW k \in Kinds, OtherProduces(k)
        PROVE  /\ Produces(k)
               /\ \/ \E a \in Messages : toClient' = Append(toClient, a) /\ Tells(k, a)
                  \/ toClient' = toClient /\ joined # live
    <2>1. PICK P \in SUBSET Producers, f \in BOOLEAN :
             P = {<<live, k>>} /\ f = FALSE /\ "PRODUCERS" \in Ops
      <3>1. {<<live, k>>} \in SUBSET Producers /\ FALSE \in BOOLEAN /\ "PRODUCERS" \in Ops
        BY <1>0, <1>4 DEF OtherProduces, Rooms, Producers, Ops
      <3> QED
        BY <3>1
    <2>2. Msg("PRODUCERS", live, f, f, P) \in Messages /\ Msg("PRODUCERS", live, f, f, P).op = "PRODUCERS"
      BY <1>0, <2>1, MsgType
    <2>3. Msg("PRODUCERS", live, f, f, P).prods = P
      BY DEF Msg
    <2>4. joined = live => toClient' = Append(toClient, Msg("PRODUCERS", live, f, f, P))
      BY <1>4, <2>1 DEF OtherProduces, Push
    <2> QED
      BY <1>4, <2>1, <2>2, <2>3, <2>4 DEF OtherProduces, Produces, Tells
  <1> QED
    BY <1>1, <1>2, <1>3, <1>4 DEF Others

-----------------------------------------------------------------------------
(* Who is asked for what, and in which room: the invariants that            *)
(* EveryoneIsHeard rests on, part one.                                      *)

\* Behind each request for a send transport there is one for each receive
\* transport, or its answer stands behind all answers with a send transport.
Behind(R) ==
    /\ SomeAfter(toServer, Sends, R)
    /\ Absent(toServer, R) => SomeAfter(toClient, Sends, R)
SendInv == Behind(Recvs) /\ Behind(Videos)

\* The room that is open is the one whose join went out last.
JoinInv ==
    /\ Absent(toServer, Joins) => joined = CALL_ID
    /\ \A m \in Messages : Latest(toServer, Joins, m) => m.call = CALL_ID

\* Only the call that is on has producers, and its begin is the last of those on
\* their way, unless it has arrived and none is.
LiveInv ==
    /\ \A p \in srvProducers : p[1] = live
    /\ live # NoCall => SomeAfter(toClient, Starts \ StartsOf(live), StartsOf(live))

\* The kinds of requests exclude each other.
LEMMA KindsApart ==
    /\ \A m \in Sends : m \in Messages /\ m.op = "SEND" /\ m \notin Recvs /\ m \notin Videos
    /\ \A m \in Recvs : m \in Messages /\ m.op = "RECV" /\ m \notin Sends /\ m \notin Videos
    /\ \A m \in Videos : m \in Messages /\ m.op = "RECV_VIDEO" /\ m \notin Sends /\ m \notin Recvs
    /\ \A m \in Joins : m \in Messages /\ m.op = "JOIN"
    /\ \A m \in Gets : m \in Messages /\ m.op = "GET_PRODUCERS"
  BY DEF Sends, Recvs, Videos, Joins, Gets, Those

\* Requests for transports change nothing else.
LEMMA SomeSent ==
    ASSUME toServer \in Seq(Messages), SendsSome, NEW T,
           \A m \in T : m \notin Sends \cup Recvs \cup Videos
    PROVE  /\ toServer' \in Seq(Messages)
           /\ Absent(toServer', T) <=> Absent(toServer, T)
           /\ \A m : Latest(toServer', T, m) => Latest(toServer, T, m)
  <1>1. ASSUME NEW q \in Seq(Messages), NEW e \in Sends \cup Recvs \cup Videos
        PROVE  /\ Append(q, e) \in Seq(Messages)
               /\ Absent(Append(q, e), T) <=> Absent(q, T)
               /\ \A m : Latest(Append(q, e), T, m) => Latest(q, T, m)
    <2>1. e \in Messages /\ e \notin T
      BY KindsApart
    <2> QED
      BY <2>1, GrownLatest, GrownQueue
  <1>2. CASE SendsVideo
    BY <1>1, <1>2 DEF SendsVideo
  <1>3. CASE SendsRecvs
    <2>1. PICK r \in Recvs, v \in Videos : toServer' = Append(Append(toServer, r), v)
      BY <1>3 DEF SendsRecvs
    <2>2. PICK q \in Seq(Messages) : q = Append(toServer, r)
      BY <1>1
    <2> QED
      BY <1>1, <2>1, <2>2
  <1>4. ASSUME NEW nc \in BOOLEAN, SendsAll(nc)
        PROVE  /\ toServer' \in Seq(Messages)
               /\ Absent(toServer', T) <=> Absent(toServer, T)
               /\ \A m : Latest(toServer', T, m) => Latest(toServer, T, m)
    <2>1. PICK a \in Sends, r \in Recvs, v \in Videos :
             toServer' = Append(Append(Append(toServer, a), r), v)
      BY <1>4 DEF SendsAll
    <2>2. PICK q \in Seq(Messages) : q = Append(toServer, a)
      BY <1>1
    <2>3. PICK q2 \in Seq(Messages) : q2 = Append(q, r)
      BY <1>1
    <2> QED
      BY <1>1, <2>1, <2>2, <2>3
  <1> QED
    BY <1>2, <1>3, <1>4 DEF SendsSome, SendsNothing

\* Whatever the device sends, requests for receive transports come last.
LEMMA SendsBehind ==
    ASSUME toServer \in Seq(Messages), SendsOne \/ SendsSome, NEW R, R \in {Recvs, Videos},
           SomeAfter(toServer, Sends, R)
    PROVE  /\ SomeAfter(toServer', Sends, R)
           /\ Absent(toServer', R) => Absent(toServer, R)
  <1>1. ASSUME NEW q \in Seq(Messages), NEW e \in Messages
        PROVE  /\ Append(q, e) \in Seq(Messages)
               /\ e \notin Sends /\ SomeAfter(q, Sends, R) => SomeAfter(Append(q, e), Sends, R)
               /\ e \in R => SomeAfter(Append(q, e), Sends, R)
               /\ Absent(Append(q, e), R) => Absent(q, R)
    <2>1. e \in R => e \notin Sends
      BY KindsApart
    <2> QED
      BY <2>1, GrownOrder, GrownQueue, GrownLatest
  <1>2. CASE SendsOne
    BY <1>1, <1>2 DEF SendsOne, Single, Sends
  <1>3. CASE SendsVideo
    BY <1>1, <1>3, KindsApart DEF SendsVideo
  <1>4. CASE SendsRecvs
    <2>1. PICK r \in Recvs, v \in Videos : toServer' = Append(Append(toServer, r), v)
      BY <1>4 DEF SendsRecvs
    <2>2. r \in Messages /\ v \in Messages /\ r \notin Sends /\ v \notin Sends
      BY KindsApart
    <2>3. PICK q \in Seq(Messages) : q = Append(toServer, r)
      BY <1>1, <2>2
    <2> QED
      BY <1>1, <2>1, <2>2, <2>3
  <1>5. ASSUME NEW nc \in BOOLEAN, SendsAll(nc)
        PROVE  SomeAfter(toServer', Sends, R) /\ (Absent(toServer', R) => Absent(toServer, R))
    <2>1. PICK a \in Sends, r \in Recvs, v \in Videos :
             toServer' = Append(Append(Append(toServer, a), r), v)
      BY <1>5 DEF SendsAll
    <2>2. /\ a \in Messages /\ r \in Messages /\ v \in Messages
          /\ r \notin Sends /\ v \notin Sends
      BY KindsApart
    <2>3. PICK q \in Seq(Messages) : q = Append(toServer, a)
      BY <1>1, <2>2
    <2>4. PICK q2 \in Seq(Messages) : q2 = Append(q, r)
      BY <1>1, <2>2
    <2>5. R = Recvs => SomeAfter(q2, Sends, R)
      BY <1>1, <2>2, <2>4
    <2>6. SomeAfter(Append(q2, v), Sends, R)
      BY <1>1, <2>2, <2>5
    <2>7. Absent(Append(q2, v), R) => Absent(toServer, R)
      BY <1>1, <2>2, <2>3, <2>4
    <2> QED
      BY <2>1, <2>3, <2>4, <2>6, <2>7
  <1> QED
    BY <1>2, <1>3, <1>4, <1>5 DEF SendsSome, SendsNothing

\* The requests for transports, step by step.
LEMMA BehindNext ==
    ASSUME TypeOK, Next, NEW R, R \in {Recvs, Videos}, Behind(R)
    PROVE  Behind(R)'
  <1>0. toServer \in Seq(Messages) /\ toClient \in Seq(Messages)
    BY TypeParts DEF QueuesTyped
  <1>1. CASE MainThread \/ Background \/ Receive
    <2>1. DeviceStep
      BY <1>1, MainStep, EventStep
    <2>2. SomeAfter(toServer', Sends, R) /\ (Absent(toServer', R) => Absent(toServer, R))
      BY <1>0, <2>1, SendsBehind DEF Behind, DeviceStep
    <2>3. SomeAfter(toClient, Sends, R) => SomeAfter(toClient', Sends, R)
      <3>1. CASE toClient # <<>> /\ toClient' = Tail(toClient)
        BY <1>0, <3>1, TakenOrder
      <3> QED
        BY <2>1, <3>1 DEF DeviceStep
    <2> QED
      BY <2>2, <2>3 DEF Behind
  <1>2. CASE ServerStep
    <2>1. PICK m \in Messages : m = Head(toServer) /\ toServer # <<>> /\ toServer' = Tail(toServer)
      BY <1>2, ReplyIs
    <2>2. /\ SomeAfter(toServer', Sends, R)
          /\ m \in Sends => ~Absent(toServer', R)
          /\ m \notin R => (Absent(toServer', R) => Absent(toServer, R))
      BY <1>0, <2>1, TakenOrder, TakenLatest DEF Behind
    <2>3. CASE toClient' = toClient /\ Unheard(m)
      <3>1. m \notin R
        BY <2>3 DEF Unheard, Recvs, Videos, Those
      <3> QED
        BY <2>2, <2>3, <3>1 DEF Behind
    <2>4. ASSUME NEW a \in Messages, toClient' = Append(toClient, a), Reply(m, a)
          PROVE  Behind(R)'
      <3>1. /\ m \in R => a \in R
            /\ m \notin Sends => a \notin Sends
            /\ a \in R => a \notin Sends
        BY <2>4 DEF Reply, Recvs, Videos, Sends, Those
      <3>2. ASSUME Absent(toServer', R)
            PROVE  SomeAfter(toClient', Sends, R)
        BY <1>0, <2>2, <2>4, <3>1, <3>2, GrownOrder DEF Behind
      <3> QED
        BY <2>2, <3>2 DEF Behind
    <2> QED
      BY <1>2, <2>1, <2>3, <2>4, ReplyIs
  <1>3. CASE Others
    <2>1. toServer' = toServer
      BY <1>3, OthersAre
    <2>2. CASE toClient' = toClient
      BY <2>1, <2>2 DEF Behind
    <2>3. ASSUME NEW a \in Messages, toClient' = Append(toClient, a), a \notin Sends
          PROVE  Behind(R)'
      BY <1>0, <2>1, <2>3, GrownOrder DEF Behind
    <2>4. \A a \in Messages : \A k \in Kinds, c \in Calls :
             Begins(c, a) \/ Ends(a) \/ Tells(k, a) => a \notin Sends
      BY DEF Begins, Ends, Tells, StartsOf, EndOf, Sends
    <2>5. \A a \in Messages : Ends(a) => a \notin Sends
      BY DEF Ends, EndOf, Sends
    <2> QED
      BY <1>3, <2>2, <2>3, <2>4, <2>5, OthersAre DEF Begins, StartsOf, Sends, Tells
  <1> QED
    BY <1>1, <1>2, <1>3 DEF Next

LEMMA SendNext == TypeOK /\ SendInv /\ [Next]_vars => SendInv'
  <1>1. CASE UNCHANGED vars
    BY <1>1 DEF vars, SendInv, Behind
  <1>2. ASSUME TypeOK, SendInv, Next PROVE SendInv'
    <2>1. PICK R, V : R = Recvs /\ V = Videos
      OBVIOUS
    <2>2. Behind(R)' /\ Behind(V)'
      BY <1>2, <2>1, BehindNext DEF SendInv
    <2> QED
      BY <2>1, <2>2 DEF SendInv, Behind
  <1> QED
    BY <1>1, <1>2

\* The joins, step by step.
LEMMA JoinNext == TypeOK /\ JoinInv /\ [Next]_vars => JoinInv'
  <1> SUFFICES ASSUME TypeOK, JoinInv, [Next]_vars PROVE JoinInv'
    OBVIOUS
  <1>0. toServer \in Seq(Messages) /\ toClient \in Seq(Messages)
    BY TypeParts DEF QueuesTyped
  <1>1. ASSUME joined' = joined, CALL_ID' = CALL_ID,
               Absent(toServer', Joins) => Absent(toServer, Joins),
               \A m \in Messages : Latest(toServer', Joins, m) => Latest(toServer, Joins, m)
        PROVE  JoinInv'
    BY <1>1 DEF JoinInv
  <1>2. CASE UNCHANGED vars
    BY <1>1, <1>2 DEF vars, room, server
  <1>3. CASE MainThread \/ Background \/ Receive
    <2>1. DeviceStep
      BY <1>3, MainStep, EventStep
    <2>2. CASE SendsSome /\ CALL_ID' = CALL_ID
      <3>1. \A m \in Joins : m \notin Sends \cup Recvs \cup Videos
        BY KindsApart
      <3> QED
        BY <1>0, <1>1, <2>1, <2>2, <3>1, SomeSent DEF DeviceStep, server
    <2>3. CASE SendsOne
      <3>1. PICK e \in Messages : Single(e) /\ toServer' = Append(toServer, e)
        BY <2>3 DEF SendsOne
      <3>2. CASE e \in Joins
        <4>1. e.call = CALL_ID'
          BY <3>1, <3>2, KindsApart DEF Single
        <4>2. ~Absent(toServer', Joins) /\ \A m : Latest(toServer', Joins, m) => m = e
          BY <1>0, <3>1, <3>2, GrownLatest
        <4> QED
          BY <4>1, <4>2 DEF JoinInv
      <3>3. CASE e \notin Joins
        <4>1. CALL_ID' = CALL_ID
          BY <3>1, <3>3 DEF Single, Joins, Those
        <4>2. /\ Absent(toServer', Joins) <=> Absent(toServer, Joins)
              /\ \A m : Latest(toServer', Joins, m) => Latest(toServer, Joins, m)
          BY <1>0, <3>1, <3>3, GrownLatest
        <4> QED
          BY <1>1, <2>1, <4>1, <4>2 DEF DeviceStep, server
      <3> QED
        BY <3>2, <3>3
    <2> QED
      BY <2>1, <2>2, <2>3 DEF DeviceStep
  <1>4. CASE ServerStep
    <2>1. PICK m \in Messages :
             /\ m = Head(toServer) /\ toServer # <<>> /\ toServer' = Tail(toServer)
             /\ joined' = (IF m.op = "JOIN" THEN m.call ELSE joined) /\ UNCHANGED client
      BY <1>4, ReplyIs
    <2>2. /\ \A n : Latest(toServer', Joins, n) => Latest(toServer, Joins, n)
          /\ m \in Joins /\ Absent(toServer', Joins) => Latest(toServer, Joins, m)
          /\ m \notin Joins => (Absent(toServer', Joins) <=> Absent(toServer, Joins))
      BY <1>0, <2>1, TakenLatest
    <2>3. CALL_ID' = CALL_ID /\ (m \in Joins <=> m.op = "JOIN")
      BY <2>1 DEF client, room, Joins, Those
    <2> QED
      BY <2>1, <2>2, <2>3 DEF JoinInv
  <1>5. CASE Others
    <2>1. UNCHANGED client /\ toServer' = toServer /\ joined' = joined
      BY <1>5, OthersAre
    <2> QED
      BY <1>1, <2>1 DEF client, room
  <1> QED
    BY <1>2, <1>3, <1>4, <1>5 DEF Next

\* The call that is on, step by step.
LEMMA LiveNext == TypeOK /\ LiveInv /\ [Next]_vars => LiveInv'
  <1> SUFFICES ASSUME TypeOK, LiveInv, [Next]_vars PROVE LiveInv'
    OBVIOUS
  <1>0. /\ toServer \in Seq(Messages) /\ toClient \in Seq(Messages)
        /\ live \in Rooms /\ srvProducers \subseteq Producers
    BY TypeParts DEF QueuesTyped, ServerTyped
  <1>1. PICK A, B, l : A = Starts \ StartsOf(live) /\ B = StartsOf(live) /\ l = live
    OBVIOUS
  <1>2. CASE UNCHANGED vars
    BY <1>2 DEF vars, server, LiveInv
  <1>3. CASE MainThread \/ Background \/ Receive
    <2>1. DeviceStep
      BY <1>3, MainStep, EventStep
    <2>2. CASE toClient # <<>> /\ toClient' = Tail(toClient)
      <3>1. SomeAfter(toClient, A, B) => SomeAfter(toClient', A, B)
        BY <1>0, <2>2, TakenOrder
      <3> QED
        BY <1>1, <2>1, <3>1 DEF LiveInv, DeviceStep, server
    <2> QED
      BY <2>1, <2>2 DEF DeviceStep, server, LiveInv
  <1>4. ASSUME NEW a \in Messages, toClient' = Append(toClient, a), a \notin A
        PROVE  SomeAfter(toClient, A, B) => SomeAfter(toClient', A, B)
    BY <1>0, <1>4, GrownOrder
  <1>5. CASE ServerStep
    <2>1. PICK m \in Messages :
             /\ m = Head(toServer) /\ live' \in {live, NoCall} /\ srvProducers' \subseteq srvProducers
             /\ m.op # "HANG_UP" => live' = live
             /\ m.op = "HANG_UP" =>
                   /\ live' = IF live = m.call THEN NoCall ELSE live
                   /\ srvProducers' = {p \in srvProducers : p[1] # m.call}
             /\ \/ toClient' = toClient
                \/ \E a \in Messages : toClient' = Append(toClient, a) /\ Reply(m, a)
      BY <1>5, ReplyIs
    <2>2. \A p \in srvProducers' : p[1] = live'
      BY <2>1 DEF LiveInv
    <2>3. SomeAfter(toClient, A, B) => SomeAfter(toClient', A, B)
      <3>1. ASSUME NEW a \in Messages, Reply(m, a) PROVE a \notin A
        BY <1>1, <3>1 DEF Reply, Starts
      <3> QED
        BY <1>4, <2>1, <3>1
    <2> QED
      BY <1>1, <2>1, <2>2, <2>3 DEF LiveInv
  <1>6. CASE Others
    <2>1. ASSUME NEW a \in Messages, toClient' = Append(toClient, a), NEW c \in Calls, Begins(c, a)
          PROVE  LiveInv'
      <3>1. PICK AA, BB : AA = Starts \ StartsOf(c) /\ BB = StartsOf(c)
        OBVIOUS
      <3>2. a \in BB /\ a \notin AA /\ live' = c
        BY <2>1, <3>1 DEF Begins
      <3>3. SomeAfter(toClient', AA, BB)
        BY <1>0, <2>1, <3>2, GrownOrder
      <3>4. \A p \in srvProducers : FALSE
        <4>1. \A p \in srvProducers : p[1] \in Calls
          BY <1>0 DEF Producers
        <4> QED
          BY <2>1, <4>1, NoCallAssumption DEF Begins, LiveInv
      <3> QED
        BY <2>1, <3>1, <3>2, <3>3, <3>4 DEF LiveInv, Begins
    <2>2. ASSUME NEW a \in Messages, Ends(a) PROVE LiveInv'
      BY <2>2 DEF Ends, LiveInv
    <2>3. ASSUME NEW k \in Kinds, Produces(k) PROVE \A p \in srvProducers' : p[1] = live'
      BY <2>3 DEF Produces, LiveInv
    <2>4. ASSUME NEW a \in Messages, toClient' = Append(toClient, a),
                 NEW k \in Kinds, Produces(k), Tells(k, a)
          PROVE  LiveInv'
      <3>1. a \notin A
        BY <1>1, <2>4 DEF Tells, Starts
      <3> QED
        BY <1>1, <1>4, <2>3, <2>4, <3>1 DEF LiveInv, Produces
    <2>5. ASSUME NEW k \in Kinds, Produces(k), toClient' = toClient PROVE LiveInv'
      BY <1>1, <2>3, <2>5 DEF LiveInv, Produces
    <2> QED
      BY <1>6, <2>1, <2>2, <2>4, <2>5, OthersAre
  <1> QED
    BY <1>2, <1>3, <1>5, <1>6 DEF Next

LEMMA OrderInit == Init => SendInv /\ JoinInv /\ LiveInv
  <1> SUFFICES ASSUME Init PROVE SendInv /\ JoinInv /\ LiveInv
    OBVIOUS
  <1>1. /\ toClient = <<>> /\ toServer = <<>> /\ CALL_ID = NoCall /\ joined = NoCall
        /\ live = NoCall /\ srvProducers = {}
    BY DEF Init
  <1>2. \A A, B : SomeAfter(<<>>, A, B)
    BY EmptySeq DEF SomeAfter
  <1> QED
    BY <1>1, <1>2, NothingAbsent DEF SendInv, Behind, JoinInv, LiveInv

-----------------------------------------------------------------------------
(* Rooms that are not open yet.                                             *)

Asks == Sends \cup Recvs \cup Videos
AsksOf(c) == {m \in Asks : m.call = c}
About(c) == {m \in Messages : m.op \in {"PRODUCERS", "CONSUME"} /\ \E p \in m.prods : p[1] = c}

\* Nothing here is about room c: no task, no producer, no consumer, no transport.
Foreign(c) ==
    /\ \A p \in tasks : p[1] # c
    /\ Absent(toServer, About(c)) /\ Absent(toClient, About(c)) /\ Absent(toClient, AsksOf(c))

\* A call whose begin has not arrived, or the call that is on while the device is in
\* another room, is untouched, and nothing is about it.
Unopened(c) == Ahead(c) \/ (live = c /\ CALL_ID # c)
StrangeInv == \A c \in Calls : Unopened(c) => Untouched(c) /\ Foreign(c)

\* The answers about consumers.
Answers == {m \in Messages : m.op = "CONSUME" /\ m.prods # {}}

\* A consumer is answered before the next call begins, so in its own room.
ConsumeInv ==
    /\ NoneAfter(toClient, Starts, Answers)
    /\ \A m \in Range(toClient) : m \in Answers => \A p \in m.prods : p[1] = CALL_ID

\* An open room is the room of a call.
OpenInv == Open => CALL_ID # NoCall

\* The device: the tasks come from the lists it is sent, and the room changes only
\* when a call begins.
LEMMA DeviceTakes ==
    ASSUME TypeOK, MainThread \/ Background \/ Receive
    PROVE  /\ \A p \in tasks' : \/ p \in tasks
                                \/ /\ toClient # <<>> /\ Head(toClient).op = "PRODUCERS"
                                   /\ p \in Head(toClient).prods
           /\ \/ CALL_ID' = CALL_ID
              \/ /\ toClient # <<>> /\ toClient' = Tail(toClient) /\ Head(toClient) \in Starts
                 /\ CALL_ID' = Head(toClient).call
  <1> USE DEF room, streams, receivers, server, history
  <1>1. CASE MainThread \/ Background
    <2>1. CALL_ID' = CALL_ID /\ tasks' \subseteq tasks
      BY <1>1 DEF MainThread, AddCallStreams, HangUp, ReleaseIfStarted, Release, TimerFires,
         RunPosted, Dispose, Restart, Initialize, SetTheTimer, Background, TransportFails,
         TransportRecovers, WakeUp, RunTask
    <2> QED
      BY <2>1
  <1>2. CASE Receive
    <2>1. PICK m \in Messages : m = Head(toClient) /\ Handled(m)
      BY <1>2, ReceiveFlies
    <2>2. toClient # <<>> /\ toClient' = Tail(toClient)
      BY <1>2 DEF Receive
    <2>3. CASE OnStart(m) \/ InitiateAck(m)
      <3>1. m \in Starts
        BY <2>3 DEF OnStart, InitiateAck, Starts
      <3> QED
        BY <2>1, <2>2, <2>3, <3>1 DEF OnStart, InitiateAck, Initialize
    <2>4. CASE OnProducers(m)
      BY <2>1, <2>2, <2>4 DEF OnProducers
    <2>5. CASE ~(OnStart(m) \/ InitiateAck(m) \/ OnProducers(m))
      <3>1. CALL_ID' = CALL_ID /\ tasks' = tasks
        BY <2>1, <2>5 DEF Handled, OnEnd, ReleaseIfStarted, Release, HangUpAck, JoinAck, CapsAck,
           SendAck, RecvAck, RecvVideoAck, ConsumeAck
      <3> QED
        BY <3>1
    <2> QED
      BY <2>3, <2>4, <2>5
  <1> QED
    BY <1>1, <1>2

\* The device makes no room its business that it does not open.
LEMMA ForeignDevice ==
    ASSUME TypeOK, MainThread \/ Background \/ Receive, NEW c, Untouched(c), Foreign(c),
           CALL_ID' # c
    PROVE  Untouched(c)' /\ Foreign(c)'
  <1>0. toServer \in Seq(Messages) /\ toClient \in Seq(Messages)
    BY TypeParts DEF QueuesTyped
  <1>1. DeviceStep
    BY MainStep, EventStep
  <1>2. \A T : Absent(toClient, T) => Absent(toClient', T)
    BY <1>0, <1>1, TakenLatest DEF DeviceStep
  <1>3. \A p \in tasks' : p[1] # c
    <2>1. ASSUME toClient # <<>>, Head(toClient).op = "PRODUCERS", NEW p \in Head(toClient).prods
          PROVE  p[1] # c
      <3>1. Head(toClient) \in Messages /\ Head(toClient) \notin About(c)
        BY <1>0, <2>1, TakenQueue, TakenLatest DEF Foreign
      <3> QED
        BY <2>1, <3>1 DEF About
    <2> QED
      BY <2>1, DeviceTakes DEF Foreign
  <1>4. Absent(toServer', JoinsOf(c)) /\ Absent(toServer', About(c))
    <2>1. CASE SendsOne
      <3>1. PICK e \in Messages : Single(e) /\ toServer' = Append(toServer, e)
        BY <2>1 DEF SendsOne
      <3>2. e \notin JoinsOf(c) /\ e \notin About(c)
        BY <3>1 DEF Single, JoinsOf, About, Foreign
      <3> QED
        BY <1>0, <3>1, <3>2, GrownLatest DEF Untouched, Foreign
    <2>2. CASE SendsSome
      <3>1. PICK J, P : J = JoinsOf(c) /\ P = About(c)
        OBVIOUS
      <3>2. /\ \A m \in J : m \notin Sends \cup Recvs \cup Videos
            /\ \A m \in P : m \notin Sends \cup Recvs \cup Videos
        BY <3>1, KindsApart DEF JoinsOf, About
      <3>3. /\ Absent(toServer, J) => Absent(toServer', J)
            /\ Absent(toServer, P) => Absent(toServer', P)
        BY <1>0, <2>2, <3>2, SomeSent
      <3> QED
        BY <3>1, <3>3 DEF Untouched, Foreign
    <2> QED
      BY <1>1, <2>1, <2>2 DEF DeviceStep
  <1> QED
    BY <1>1, <1>2, <1>3, <1>4 DEF Untouched, Foreign, DeviceStep, server

\* Nor do the server and the others, for a device that is not in that room.
LEMMA ForeignServer ==
    ASSUME TypeOK, LiveInv, ServerStep \/ Others, NEW c \in Calls, Untouched(c), Foreign(c)
    PROVE  Untouched(c)' /\ Foreign(c)'
  <1>0. toServer \in Seq(Messages) /\ toClient \in Seq(Messages)
    BY TypeParts DEF QueuesTyped
  <1>1. ASSUME UNCHANGED client, Absent(toServer', JoinsOf(c)), Absent(toServer', About(c)),
               joined' # c,
               \/ toClient' = toClient
               \/ \E a \in Messages : /\ toClient' = Append(toClient, a)
                                      /\ a \notin AsksOf(c) /\ a \notin About(c)
        PROVE  Untouched(c)' /\ Foreign(c)'
    <2>1. SendsOf(c) \subseteq AsksOf(c)
      BY DEF SendsOf, AsksOf, Asks, Sends
    <2>2. Absent(toClient', AsksOf(c)) /\ Absent(toClient', About(c))
      <3>1. PICK A, B : A = AsksOf(c) /\ B = About(c)
        OBVIOUS
      <3>2. ASSUME NEW a \in Messages, a \notin A, a \notin B, toClient' = Append(toClient, a)
            PROVE  Absent(toClient', A) /\ Absent(toClient', B)
        BY <1>0, <3>1, <3>2, GrownLatest DEF Foreign
      <3> QED
        BY <1>1, <3>1, <3>2 DEF Foreign
    <2>3. Absent(toClient', SendsOf(c))
      BY <2>1, <2>2 DEF Absent
    <2> QED
      BY <1>1, <2>2, <2>3 DEF Untouched, Foreign, client, room
  <1>2. CASE ServerStep
    <2>1. PICK m \in Messages :
             /\ m = Head(toServer) /\ toServer # <<>> /\ toServer' = Tail(toServer)
             /\ joined' = (IF m.op = "JOIN" THEN m.call ELSE joined) /\ UNCHANGED client
             /\ \/ toClient' = toClient
                \/ \E a \in Messages : toClient' = Append(toClient, a) /\ Reply(m, a)
      BY <1>2, ReplyIs
    <2>2. /\ Absent(toServer', JoinsOf(c)) /\ m \notin JoinsOf(c)
          /\ Absent(toServer', About(c)) /\ m \notin About(c)
      BY <1>0, <2>1, TakenLatest DEF Untouched, Foreign
    <2>3. joined' # c
      BY <2>1, <2>2 DEF JoinsOf, Untouched
    <2>4. ASSUME NEW a \in Messages, Reply(m, a)
          PROVE  a \notin AsksOf(c) /\ a \notin About(c)
      <3>1. joined # c
        BY DEF Untouched
      <3>2. a \notin AsksOf(c)
        BY <2>4, <3>1, KindsApart DEF Reply, AsksOf, Asks
      <3>3. a \notin About(c)
        BY <2>2, <2>4, <3>1 DEF Reply, About, ProducersOf
      <3> QED
        BY <3>2, <3>3
    <2> QED
      BY <1>1, <2>1, <2>2, <2>3, <2>4
  <1>3. CASE Others
    <2>1. UNCHANGED client /\ toServer' = toServer /\ joined' = joined
      BY <1>3, OthersAre
    <2>2. ASSUME NEW a \in Messages, \/ \E d \in Calls : Begins(d, a)
                                     \/ Ends(a)
                                     \/ \E k \in Kinds : Tells(k, a)
          PROVE  a \notin AsksOf(c) /\ a \notin About(c)
      <3>1. a.op \in {"START", "STARTED", "END", "PRODUCERS"}
        BY <2>2 DEF Begins, Ends, Tells, StartsOf, EndOf
      <3>2. a.op = "PRODUCERS" => a.prods \subseteq {<<joined, k>> : k \in Kinds}
        BY <2>2 DEF Begins, Ends, Tells, StartsOf, EndOf
      <3>3. a \notin About(c)
        BY <3>1, <3>2 DEF About, Untouched
      <3> QED
        BY <3>1, <3>3, KindsApart DEF AsksOf, Asks
    <2> QED
      BY <1>1, <1>3, <2>1, <2>2, OthersAre DEF Untouched, Foreign
  <1> QED
    BY <1>2, <1>3

\* Whose room is unopened, step by step.
LEMMA UnopenedNext ==
    ASSUME TypeOK, LiveInv, FreshInv', Next, NEW c \in Calls, Unopened(c)'
    PROVE  Unopened(c) /\ CALL_ID' # c
  <1>0. toServer \in Seq(Messages) /\ toClient \in Seq(Messages)
    BY TypeParts DEF QueuesTyped
  <1>1. CALL_ID' # c
    BY DEF Unopened, FreshInv, Untouched
  <1> SUFFICES Unopened(c)
    BY <1>1
  <1>2. PICK T : T = StartsOf(c)
    OBVIOUS
  <1>3. CASE MainThread \/ Background \/ Receive
    <2>1. /\ UNCHANGED server
          /\ toClient' = toClient \/ (toClient # <<>> /\ toClient' = Tail(toClient))
      BY <1>3, MainStep, EventStep DEF DeviceStep
    <2>2. Absent(toClient, T) => Absent(toClient', T)
      BY <1>0, <2>1, TakenLatest
    <2>3. Ahead(c)' => Ahead(c)
      BY <1>2, <2>1, <2>2 DEF Ahead, server
    <2>4. CASE live = c /\ CALL_ID = c
      <3>1. /\ toClient # <<>> /\ toClient' = Tail(toClient) /\ Head(toClient) \in Starts
            /\ CALL_ID' = Head(toClient).call
        BY <1>1, <1>3, <2>4, DeviceTakes
      <3>2. PICK A : A = Starts \ StartsOf(live)
        OBVIOUS
      <3>3. Head(toClient) \in A
        BY <1>1, <2>4, <3>1, <3>2 DEF StartsOf
      <3>4. SomeAfter(toClient, A, T)
        BY <1>2, <2>4, <3>2, NoCallAssumption DEF LiveInv
      <3>5. ~Absent(Tail(toClient), T)
        BY <1>0, <3>1, <3>3, <3>4, TakenOrder
      <3> QED
        BY <1>0, <1>2, <2>2, <3>1, <3>5 DEF Ahead, Unopened
    <2> QED
      BY <2>1, <2>3, <2>4 DEF Unopened, server
  <1>4. CASE ServerStep
    <2>1. PICK m \in Messages :
             /\ live' \in {live, NoCall} /\ used' = used /\ UNCHANGED client
             /\ \/ toClient' = toClient
                \/ \E a \in Messages : toClient' = Append(toClient, a) /\ Reply(m, a)
      BY <1>4, ReplyIs
    <2>2. ASSUME NEW a \in Messages, Reply(m, a) PROVE a \notin T
      BY <1>2, <2>2 DEF Reply, StartsOf
    <2>3. Absent(toClient, T) => Absent(toClient', T)
      <3>1. ASSUME NEW a \in Messages, a \notin T, toClient' = Append(toClient, a)
            PROVE  Absent(toClient, T) => Absent(toClient', T)
        BY <1>0, <3>1, GrownLatest
      <3> QED
        BY <2>1, <2>2, <3>1
    <2> QED
      BY <1>2, <2>1, <2>3, NoCallAssumption DEF Unopened, Ahead, client, room
  <1>5. CASE Others
    <2>1. UNCHANGED client
      BY <1>5, OthersAre
    <2>2. ASSUME NEW a \in Messages, toClient' = Append(toClient, a), a \notin T
          PROVE  Absent(toClient, T) => Absent(toClient', T)
      BY <1>0, <2>2, GrownLatest
    <2>3. ASSUME NEW a \in Messages, toClient' = Append(toClient, a), NEW d \in Calls, Begins(d, a)
          PROVE  Unopened(c)
      <3>1. CASE d = c
        BY <2>3, <3>1 DEF Begins, Unopened, Ahead
      <3>2. CASE d # c
        <4>1. a \notin T
          BY <1>2, <2>3, <3>2 DEF Begins, StartsOf
        <4> QED
          BY <1>2, <2>2, <2>3, <3>2, <4>1 DEF Begins, Unopened, Ahead
      <3> QED
        BY <3>1, <3>2
    <2>4. ASSUME NEW a \in Messages, toClient' = Append(toClient, a),
                 Ends(a) \/ \E k \in Kinds : Produces(k) /\ Tells(k, a)
          PROVE  Unopened(c)
      <3>1. a \notin T
        BY <1>2, <2>4 DEF Ends, EndOf, Tells, StartsOf
      <3>2. used' = used /\ live' \in {live, NoCall}
        BY <2>4 DEF Ends, Produces
      <3> QED
        BY <1>2, <2>1, <2>2, <2>4, <3>1, <3>2, NoCallAssumption DEF Unopened, Ahead, client, room
    <2>5. ASSUME toClient' = toClient, NEW k \in Kinds, Produces(k)
          PROVE  Unopened(c)
      BY <2>1, <2>5 DEF Produces, Unopened, Ahead, client, room
    <2> QED
      BY <1>5, <2>3, <2>4, <2>5, OthersAre
  <1> QED
    BY <1>1, <1>3, <1>4, <1>5 DEF Next

LEMMA StrangeNext == TypeOK /\ LiveInv /\ StrangeInv /\ FreshInv' /\ [Next]_vars => StrangeInv'
  <1> SUFFICES ASSUME TypeOK, LiveInv, StrangeInv, FreshInv', [Next]_vars PROVE StrangeInv'
    OBVIOUS
  <1>1. CASE UNCHANGED vars
    BY <1>1 DEF vars, room, server, StrangeInv, Unopened, Ahead, Untouched, Foreign
  <1>2. ASSUME Next, NEW c \in Calls, Unopened(c)' PROVE Untouched(c)' /\ Foreign(c)'
    <2>1. Unopened(c) /\ CALL_ID' # c
      BY <1>2, UnopenedNext
    <2>2. Untouched(c) /\ Foreign(c)
      BY <2>1 DEF StrangeInv
    <2> QED
      BY <1>2, <2>1, <2>2, ForeignDevice, ForeignServer DEF Next
  <1> QED
    BY <1>1, <1>2 DEF StrangeInv

\* The consumers' answers, step by step.
LEMMA ConsumeNext == TypeOK /\ LiveInv /\ StrangeInv /\ ConsumeInv /\ [Next]_vars => ConsumeInv'
  <1> SUFFICES ASSUME TypeOK, LiveInv, StrangeInv, ConsumeInv, [Next]_vars PROVE ConsumeInv'
    OBVIOUS
  <1>0. /\ toServer \in Seq(Messages) /\ toClient \in Seq(Messages)
        /\ live \in Rooms /\ srvProducers \subseteq Producers
    BY TypeParts DEF QueuesTyped, ServerTyped
  <1>1. CASE UNCHANGED vars
    BY <1>1 DEF vars, room, ConsumeInv
  <1>2. CASE MainThread \/ Background \/ Receive
    <2>1. toClient' = toClient \/ (toClient # <<>> /\ toClient' = Tail(toClient))
      BY <1>2, MainStep, EventStep DEF DeviceStep
    <2>2. CASE CALL_ID' = CALL_ID
      <3>1. CASE toClient' = toClient
        BY <2>2, <3>1 DEF ConsumeInv
      <3>2. CASE toClient # <<>> /\ toClient' = Tail(toClient)
        <4>1. NoneAfter(toClient', Starts, Answers) /\ Range(toClient') \subseteq Range(toClient)
          BY <1>0, <3>2, TakenOrder, TakenRange DEF ConsumeInv
        <4> QED
          BY <2>2, <4>1 DEF ConsumeInv
      <3> QED
        BY <2>1, <3>1, <3>2
    <2>3. CASE toClient # <<>> /\ toClient' = Tail(toClient) /\ Head(toClient) \in Starts
      <3>1. NoneAfter(toClient', Starts, Answers) /\ Absent(toClient', Answers)
        BY <1>0, <2>3, TakenOrder DEF ConsumeInv
      <3> QED
        BY <3>1, AbsentRange DEF ConsumeInv
    <2> QED
      BY <1>2, <2>2, <2>3, DeviceTakes
  <1>3. ASSUME NEW a \in Messages, toClient' = Append(toClient, a), CALL_ID' = CALL_ID,
               a \in Answers => Absent(toClient, Starts) /\ \A p \in a.prods : p[1] = CALL_ID
        PROVE  ConsumeInv'
    <2>1. NoneAfter(toClient', Starts, Answers)
      BY <1>0, <1>3, GrownOrder DEF ConsumeInv
    <2>2. Range(toClient') = Range(toClient) \cup {a}
      BY <1>0, <1>3, GrownRange
    <2> QED
      BY <1>3, <2>1, <2>2 DEF ConsumeInv
  <1>4. CASE ServerStep
    <2>1. PICK m \in Messages :
             /\ m = Head(toServer) /\ toServer # <<>> /\ UNCHANGED client
             /\ \/ toClient' = toClient
                \/ \E a \in Messages : toClient' = Append(toClient, a) /\ Reply(m, a)
      BY <1>4, ReplyIs
    <2>2. ASSUME NEW a \in Messages, Reply(m, a), a \in Answers
          PROVE  Absent(toClient, Starts) /\ \A p \in a.prods : p[1] = CALL_ID
      <3>1. a = m /\ m.op = "CONSUME" /\ m.prods \subseteq srvProducers
        BY <2>2 DEF Reply, Answers
      <3>2. PICK l \in Calls : l = live /\ (\A p \in a.prods : p[1] = l)
        <4>1. PICK p \in a.prods : p \in srvProducers
          BY <2>2, <3>1 DEF Answers
        <4> QED
          BY <1>0, <3>1, <4>1 DEF LiveInv, Producers
      <3>3. m \in About(l)
        BY <2>2, <3>1, <3>2 DEF About, Answers
      <3>4. ~Unopened(l)
        BY <1>0, <2>1, <3>3, TakenLatest DEF StrangeInv, Foreign
      <3>5. Absent(toClient, StartsOf(l)) /\ CALL_ID = l
        BY <3>2, <3>4 DEF Unopened, Ahead
      <3>6. Absent(toClient, Starts)
        <4>1. SomeAfter(toClient, Starts \ StartsOf(l), StartsOf(l))
          BY <3>2, NoCallAssumption DEF LiveInv
        <4> QED
          BY <3>5, <4>1 DEF SomeAfter, Absent
      <3> QED
        BY <3>2, <3>5, <3>6
    <2>3. CALL_ID' = CALL_ID
      BY <2>1 DEF client, room
    <2>4. CASE toClient' = toClient
      BY <2>3, <2>4 DEF ConsumeInv
    <2> QED
      BY <1>3, <2>1, <2>2, <2>3, <2>4
  <1>5. CASE Others
    <2>1. CALL_ID' = CALL_ID
      BY <1>5, OthersAre DEF client, room
    <2>2. ASSUME NEW a \in Messages, \/ \E d \in Calls : Begins(d, a)
                                     \/ Ends(a)
                                     \/ \E k \in Kinds : Tells(k, a)
          PROVE  a \notin Answers
      BY <2>2 DEF Begins, Ends, Tells, StartsOf, EndOf, Answers
    <2>3. CASE toClient' = toClient
      BY <2>1, <2>3 DEF ConsumeInv
    <2> QED
      BY <1>3, <1>5, <2>1, <2>2, <2>3, OthersAre
  <1> QED
    BY <1>1, <1>2, <1>4, <1>5 DEF Next

\* A message that opens no room leaves it as it is, or closes it.
LEMMA NotOpened ==
    ASSUME Receive, NEW m \in Messages, m = Head(toClient), Handled(m), ~OpensFor(m)
    PROVE  /\ CALL_ID' = CALL_ID /\ (isAlreadyStarted' => isAlreadyStarted)
           /\ posted' = posted \/ posted' = Append(posted, "dispose")
  <1> USE DEF room, streams, receivers, server, history
  <1>1. CASE OnStart(m)
    BY <1>1 DEF OpensFor, OnStart
  <1>2. ~InitiateAck(m)
    BY DEF OpensFor
  <1>3. CASE OnEnd(m)
    <2>1. CASE ReleaseIfStarted
      BY <1>3, <2>1 DEF ReleaseIfStarted, Release
    <2> QED
      BY <1>3, <2>1 DEF OnEnd
  <1>4. CASE HangUpAck(m) \/ JoinAck(m) \/ CapsAck(m) \/ RecvAck(m) \/ RecvVideoAck(m)
             \/ OnProducers(m) \/ ConsumeAck(m)
    <2>1. CALL_ID' = CALL_ID /\ isAlreadyStarted' = isAlreadyStarted
      BY <1>4 DEF HangUpAck, JoinAck, CapsAck, RecvAck, RecvVideoAck, OnProducers, ConsumeAck
    <2>2. posted' = posted
      BY <1>4 DEF HangUpAck, JoinAck, CapsAck, RecvAck, RecvVideoAck, OnProducers, ConsumeAck
    <2> QED
      BY <2>1, <2>2
  <1>5. CASE SendAck(m)
    BY <1>5 DEF SendAck
  <1> QED
    BY <1>1, <1>2, <1>3, <1>4, <1>5 DEF Handled

\* The room that is open, step by step.
LEMMA OpenNext == TypeOK /\ CallsInv /\ OpenInv /\ [Next]_vars => OpenInv'
  <1> SUFFICES ASSUME TypeOK, CallsInv, OpenInv, [Next]_vars PROVE OpenInv'
    OBVIOUS
  <1> USE DEF room, streams, receivers, server, history
  <1>0. /\ toClient \in Seq(Messages) /\ used \subseteq Calls
        /\ posted \in Seq({"dispose", "restart", "timer"})
    BY TypeParts DEF QueuesTyped, ServerTyped
  <1>1. CASE UNCHANGED vars
    BY <1>1 DEF vars, OpenInv, Open, RestartPosted
  <1>2. ASSUME Open' => Open, CALL_ID' = CALL_ID PROVE OpenInv'
    BY <1>2 DEF OpenInv
  <1>3. ASSUME NEW d \in {"dispose", "timer"},
               posted' = posted \/ posted' = Append(posted, d)
        PROVE  RestartPosted' => RestartPosted
    <2>1. CASE posted' = posted
      BY <2>1 DEF RestartPosted
    <2>2. CASE posted' = Append(posted, d)
      BY <1>0, <2>2, PostEffect
    <2> QED
      BY <1>3, <2>1, <2>2
  <1>4. CASE MainThread \/ Background
    <2>1. CALL_ID' = CALL_ID
      BY <1>4, MainJoins
    <2>2. CASE TimerFires
      <3>1. CASE isAlreadyStarted
        BY <2>1, <3>1 DEF OpenInv, Open
      <3>2. CASE ~isAlreadyStarted
        BY <1>2, <2>1, <2>2, <3>2 DEF TimerFires, Open, RestartPosted
      <3> QED
        BY <3>1, <3>2
    <2>3. CASE RunPosted
      <3>1. RestartPosted <=> RestartPosted' \/ Head(posted) = "restart"
        BY <1>0, <2>3, RunPostedEffect DEF RunPosted
      <3>2. isAlreadyStarted' => isAlreadyStarted \/ Head(posted) = "restart"
        BY <2>3 DEF RunPosted, Dispose, Restart, SetTheTimer
      <3> QED
        BY <1>2, <2>1, <3>1, <3>2 DEF Open
    <2>4. CASE ~TimerFires /\ ~RunPosted
      <3>1. isAlreadyStarted' => isAlreadyStarted
        BY <1>4, <2>4 DEF MainThread, AddCallStreams, HangUp, ReleaseIfStarted, Release,
           Background, TransportFails, TransportRecovers, WakeUp, RunTask
      <3>2. posted' \in {posted, Append(posted, "dispose"), Append(posted, "timer")}
        BY <1>4, <2>4 DEF MainThread, AddCallStreams, HangUp, ReleaseIfStarted, Release,
           Background, TransportFails, TransportRecovers, WakeUp, RunTask
      <3>3. RestartPosted' => RestartPosted
        BY <1>3, <3>2
      <3> QED
        BY <1>2, <2>1, <3>1, <3>3 DEF Open
    <2> QED
      BY <2>2, <2>3, <2>4
  <1>5. CASE Receive
    <2>1. PICK m \in Messages : m = Head(toClient) /\ toClient # <<>> /\ Handled(m)
      BY <1>5, ReceiveFlies DEF Receive
    <2>2. CASE OpensFor(m)
      <3>1. m \in Starts /\ CALL_ID' = m.call
        BY <2>2 DEF OpensFor, OnStart, InitiateAck, Initialize, Starts
      <3>2. m.call \in used
        BY <1>0, <2>1, <3>1, StartsTaken DEF CallsInv
      <3> QED
        BY <1>0, <3>1, <3>2, NoCallAssumption DEF OpenInv
    <2>3. CASE ~OpensFor(m)
      <3>1. /\ CALL_ID' = CALL_ID /\ (isAlreadyStarted' => isAlreadyStarted)
            /\ posted' = posted \/ posted' = Append(posted, "dispose")
        BY <1>5, <2>1, <2>3, NotOpened
      <3>2. RestartPosted' => RestartPosted
        BY <1>3, <3>1
      <3> QED
        BY <1>2, <3>1, <3>2 DEF Open
    <2> QED
      BY <2>2, <2>3
  <1>6. CASE ServerStep \/ Others
    <2>1. UNCHANGED <<isAlreadyStarted, CALL_ID, posted>>
      BY <1>6 DEF ServerStep, Others, client
    <2> QED
      BY <1>2, <2>1 DEF Open, RestartPosted
  <1> QED
    BY <1>1, <1>4, <1>5, <1>6 DEF Next

LEMMA RoomsInit == Init => StrangeInv /\ ConsumeInv /\ OpenInv
  <1> SUFFICES ASSUME Init PROVE StrangeInv /\ ConsumeInv /\ OpenInv
    OBVIOUS
  <1>1. /\ toClient = <<>> /\ toServer = <<>> /\ CALL_ID = NoCall /\ joined = NoCall
        /\ tasks = {} /\ posted = <<>> /\ ~isAlreadyStarted
    BY DEF Init
  <1>2. \A c \in Calls : Untouched(c) /\ Foreign(c)
    BY <1>1, NothingAbsent, NoCallAssumption DEF Untouched, Foreign
  <1>3. ~Open
    BY <1>1, EmptySeq DEF Open, RestartPosted
  <1>4. ConsumeInv
    BY <1>1, EmptySeq, NothingInRange DEF ConsumeInv, NoneAfter
  <1> QED
    BY <1>2, <1>3, <1>4 DEF StrangeInv, OpenInv

-----------------------------------------------------------------------------
(* The device and the streams of a room whose answers come in time.         *)

\* Streams are there only with a loaded device, and not outside a room.
LoadedInv == InTime /\ streamsAdded => device = "loaded"
ClosedInv == InTime /\ ~isAlreadyStarted /\ ~DisposalPending => ~streamsAdded

\* What was added for a room is there, and its consumers can be kept.
ReadyInv ==
    InTime => /\ recAdded => isAlreadyStarted /\ recvT # NoCall
              /\ recVideoAdded => isAlreadyStarted /\ recvVideoT # NoCall
              /\ isAlreadyStarted => mConsumers # <<>>

\* Steps forget no mishap.
LEMMA InTimeWas ==
    ASSUME TypeOK, [Next]_vars, InTime'
    PROVE  InTime
  BY MishapsGrow DEF InTime, Without

\* An answer that comes in time is used in its own room, by a device that can.
LEMMA AnsweredInTime ==
    ASSUME TypeOK, CrashInv, OpenInv, Next, InTime', toClient # <<>>, NEW m \in Messages,
           m = Head(toClient), SendAck(m) \/ RecvAck(m) \/ RecvVideoAck(m)
    PROVE  /\ isAlreadyStarted /\ m.call = CALL_ID /\ CALL_ID # NoCall
           /\ SendAck(m) => device = "loaded" /\ device' = device
           /\ SendAck(m) => \/ ProduceOn(m.call)
                            \/ /\ ~m.nc
                               /\ UNCHANGED <<streamsAdded, toServer, sleepers>>
  <1>0. toClient \in Seq(Messages) /\ device \in {"none", "new", "loaded", "crashed"}
    BY TypeParts DEF QueuesTyped, ClientTyped, FlagsTyped
  <1>1. InTime
    BY InTimeWas
  <1>2. ~Late(m)
    <2>1. Note("late", Late(m))
      BY DEF SendAck, RecvAck, RecvVideoAck
    <2>2. "late" \in {"late", "swept"}
      OBVIOUS
    <2> QED
      BY <2>1, <2>2, NoteEffect DEF InTime
  <1>3. isAlreadyStarted /\ m.call = CALL_ID /\ CALL_ID # NoCall
    BY <1>2 DEF Late, OpenInv, Open
  <1>4. ASSUME SendAck(m) PROVE device = "loaded"
    <2>1. m \in SendsOf(CALL_ID)
      BY <1>3, <1>4 DEF SendsOf, SendAck
    <2>2. ~Absent(toClient, SendsOf(CALL_ID))
      BY <1>0, <2>1, TakenLatest
    <2> QED
      BY <1>0, <1>1, <1>3, <2>2 DEF CrashInv, Alive, Open, Unanswered
  <1>5. ASSUME SendAck(m)
        PROVE  /\ device' = device
               /\ ProduceOn(m.call) \/ (~m.nc /\ UNCHANGED <<streamsAdded, toServer, sleepers>>)
    <2>1. PICK t : t = m.call /\ t # NoCall
      BY <1>3
    <2> QED
      BY <1>4, <1>5, <2>1 DEF SendAck
  <1> QED
    BY <1>3, <1>4, <1>5

\* A loaded device stays so until it is disposed of.
LEMMA DeviceKept ==
    ASSUME TypeOK, Next, device = "loaded"
    PROVE  device' = "loaded" \/ (RunPosted /\ Dispose)
  <1> USE DEF room, streams, receivers, server, history
  <1>1. CASE MainThread \/ Background
    BY <1>1 DEF MainThread, AddCallStreams, HangUp, TimerFires, RunPosted, Restart, Initialize,
       SetTheTimer, Background, TransportFails, TransportRecovers, WakeUp, RunTask
  <1>2. CASE Receive
    <2>1. PICK m \in Messages : Handled(m)
      BY <1>2, ReceiveFlies
    <2>2. CASE SendAck(m)
      BY <2>2 DEF SendAck
    <2>3. CASE OnStart(m) \/ InitiateAck(m)
      BY <2>3 DEF OnStart, InitiateAck, Initialize
    <2>4. CASE CapsAck(m)
      BY <2>4 DEF CapsAck
    <2>5. CASE OnEnd(m) \/ HangUpAck(m) \/ JoinAck(m) \/ RecvAck(m) \/ RecvVideoAck(m)
               \/ OnProducers(m) \/ ConsumeAck(m)
      <3>1. device' = device
        BY <2>5 DEF OnEnd, HangUpAck, JoinAck, RecvAck, RecvVideoAck, OnProducers, ConsumeAck
      <3> QED
        BY <3>1
    <2> QED
      BY <2>1, <2>2, <2>3, <2>4, <2>5 DEF Handled
  <1>3. CASE ServerStep \/ Others
    BY <1>3 DEF ServerStep, Others, client
  <1> QED
    BY <1>1, <1>2, <1>3 DEF Next

\* Streams are added only by the two that produce, and go only with a disposal.
LEMMA StreamsKept ==
    ASSUME TypeOK, Next
    PROVE  \/ streamsAdded' = streamsAdded
           \/ RunPosted /\ Dispose /\ ~streamsAdded'
           \/ AddCallStreams
           \/ \E m \in Messages : Receive /\ m = Head(toClient) /\ SendAck(m)
  <1> USE DEF room, streams, receivers, server, history
  <1>1. CASE MainThread \/ Background
    BY <1>1 DEF MainThread, HangUp, TimerFires, RunPosted, Dispose, Restart,
       SetTheTimer, Background, TransportFails, TransportRecovers, WakeUp, RunTask
  <1>2. CASE Receive
    <2>1. PICK m \in Messages : m = Head(toClient) /\ Handled(m)
      BY <1>2, ReceiveFlies
    <2>2. CASE ~SendAck(m)
      <3>1. streamsAdded' = streamsAdded
        BY <2>1, <2>2 DEF Handled, OnStart, InitiateAck, OnEnd, HangUpAck, JoinAck, CapsAck, RecvAck,
           RecvVideoAck, OnProducers, ConsumeAck
      <3> QED
        BY <3>1
    <2> QED
      BY <1>2, <2>1, <2>2
  <1>3. CASE ServerStep \/ Others
    BY <1>3 DEF ServerStep, Others, client
  <1> QED
    BY <1>1, <1>2, <1>3 DEF Next

\* A disposal that runs finds no open room, unless it sweeps it.
LEMMA DisposeInTime ==
    ASSUME TypeOK, RunPosted, Dispose, InTime'
    PROVE  ~isAlreadyStarted /\ ~RestartPosted /\ ~isAlreadyStarted'
  <1>1. Note("swept", isAlreadyStarted \/ RestartPosted) /\ isAlreadyStarted' = isAlreadyStarted
    BY DEF Dispose
  <1>2. "swept" \in {"late", "swept"}
    OBVIOUS
  <1> QED
    BY <1>1, <1>2, NoteEffect DEF InTime

LEMMA LoadedNext ==
    ASSUME TypeOK, CrashInv, OpenInv, LoadedInv, Next
    PROVE  LoadedInv'
  <1> SUFFICES ASSUME InTime', streamsAdded' PROVE device' = "loaded"
    BY DEF LoadedInv
  <1>1. InTime
    BY InTimeWas
  <1>2. CASE AddCallStreams
    BY <1>2 DEF AddCallStreams
  <1>3. ASSUME NEW m \in Messages, Receive, m = Head(toClient), SendAck(m)
        PROVE  device' = "loaded"
    BY <1>3, AnsweredInTime DEF Receive
  <1>4. CASE RunPosted /\ Dispose
    BY <1>4 DEF Dispose
  <1>5. CASE streamsAdded' = streamsAdded
    BY <1>1, <1>4, <1>5, DeviceKept DEF LoadedInv
  <1> QED
    BY <1>2, <1>3, <1>4, <1>5, StreamsKept

\* The room is closed only by what posts its disposal.
LEMMA ClosedNext ==
    ASSUME TypeOK, TransportsInv, CrashInv, OpenInv, ClosedInv, Next
    PROVE  ClosedInv'
  <1> SUFFICES ASSUME InTime', ~isAlreadyStarted', ~DisposalPending' PROVE ~streamsAdded'
    BY DEF ClosedInv
  <1> USE DEF room, streams, receivers, server, history
  <1>0. posted \in Seq({"dispose", "restart", "timer"}) /\ toClient \in Seq(Messages)
    BY TypeParts DEF QueuesTyped
  <1>1. InTime
    BY InTimeWas
  <1>2. CASE RunPosted
    <2>1. CASE Dispose
      BY <2>1 DEF Dispose
    <2>2. CASE Restart
      BY <2>2 DEF Restart, Initialize
    <2>3. CASE SetTheTimer
      <3>1. ~DisposalPending
        BY <1>0, <1>2, <2>3, RunPostedEffect DEF RunPosted, SetTheTimer
      <3> QED
        BY <1>1, <2>3, <3>1 DEF SetTheTimer, ClosedInv
    <2> QED
      BY <1>2, <2>1, <2>2, <2>3 DEF RunPosted
  <1>3. ASSUME Release("dispose") \/ Release("restart") PROVE FALSE
    BY <1>0, <1>3, PostEffect DEF Release
  <1>4. ASSUME ~RunPosted PROVE ~isAlreadyStarted /\ ~DisposalPending
    <2>1. ~DisposalPending
      BY <1>4, PendingKept
    <2> SUFFICES ~isAlreadyStarted
      BY <2>1
    <2>2. CASE MainThread \/ Background
      BY <1>3, <1>4, <2>2 DEF MainThread, AddCallStreams, HangUp, ReleaseIfStarted, TimerFires,
         Background, TransportFails, TransportRecovers, WakeUp, RunTask
    <2>3. CASE Receive
      <3>1. PICK m \in Messages : m = Head(toClient) /\ Handled(m)
        BY <2>3, ReceiveFlies
      <3>2. CASE OnEnd(m)
        BY <1>3, <3>2 DEF OnEnd, ReleaseIfStarted
      <3>3. CASE InitiateAck(m)
        BY <3>3 DEF InitiateAck, Initialize
      <3>4. CASE OnStart(m)
        BY <3>4 DEF OnStart, Initialize
      <3>5. CASE HangUpAck(m) \/ JoinAck(m) \/ CapsAck(m) \/ SendAck(m) \/ RecvAck(m)
                 \/ RecvVideoAck(m) \/ OnProducers(m) \/ ConsumeAck(m)
        <4>1. isAlreadyStarted' = isAlreadyStarted
          BY <3>5 DEF HangUpAck, JoinAck, CapsAck, SendAck, RecvAck, RecvVideoAck, OnProducers,
             ConsumeAck
        <4> QED
          BY <4>1
      <3> QED
        BY <2>1, <3>1, <3>2, <3>3, <3>4, <3>5 DEF Handled
    <2>4. CASE ServerStep \/ Others
      BY <2>4 DEF ServerStep, Others, client
    <2> QED
      BY <2>1, <2>2, <2>3, <2>4 DEF Next
  <1>5. CASE ~RunPosted
    <2>1. ~isAlreadyStarted /\ ~DisposalPending
      BY <1>4, <1>5
    <2>2. CASE streamsAdded' = streamsAdded
      BY <1>1, <2>1, <2>2 DEF ClosedInv
    <2>3. CASE AddCallStreams
      <3>1. sendT = NoCall /\ createWebRtcTransport = NoCall
        BY <1>1, <2>1 DEF TransportsInv, TransportsServeTheOpenRoom, InTime, Without
      <3>2. streamsAdded' = streamsAdded
        BY <2>3, <3>1 DEF AddCallStreams
      <3> QED
        BY <2>2, <3>2
    <2>4. ASSUME NEW m \in Messages, Receive, m = Head(toClient), SendAck(m)
          PROVE  FALSE
      BY <2>1, <2>4, AnsweredInTime DEF Receive
    <2> QED
      BY <1>5, <2>2, <2>3, <2>4, StreamsKept
  <1> QED
    BY <1>2, <1>5

LEMMA ReadyNext ==
    ASSUME TypeOK, CrashInv, OpenInv, ReadyInv, Next
    PROVE  ReadyInv'
  <1> SUFFICES ASSUME InTime'
               PROVE  /\ recAdded' => isAlreadyStarted' /\ recvT' # NoCall
                      /\ recVideoAdded' => isAlreadyStarted' /\ recvVideoT' # NoCall
                      /\ isAlreadyStarted' => mConsumers' # <<>>
    BY DEF ReadyInv
  <1> USE DEF room, streams, receivers, server, history
  <1>1. /\ recAdded => isAlreadyStarted /\ recvT # NoCall
        /\ recVideoAdded => isAlreadyStarted /\ recvVideoT # NoCall
        /\ isAlreadyStarted => mConsumers # <<>>
    BY InTimeWas DEF ReadyInv
  <1>2. \A S : <<S>> # <<>>
    OBVIOUS
  <1>3. CASE UNCHANGED <<isAlreadyStarted, recAdded, recVideoAdded, recvT, recvVideoT, mConsumers>>
    BY <1>1, <1>3
  <1>4. CASE ~isAlreadyStarted' /\ ~recAdded' /\ ~recVideoAdded'
    BY <1>4
  <1>5. ASSUME NEW c, NEW nc, Initialize(c, nc)
        PROVE  ~recAdded' /\ ~recVideoAdded' /\ mConsumers' # <<>>
    BY <1>2, <1>5 DEF Initialize
  <1>6. CASE MainThread \/ Background
    <2>1. CASE RunPosted
      <3>1. CASE Dispose
        <4>1. ~isAlreadyStarted /\ ~isAlreadyStarted'
          BY <2>1, <3>1, DisposeInTime
        <4>2. recAdded' = recAdded /\ recVideoAdded' = recVideoAdded
          BY <3>1 DEF Dispose
        <4> QED
          BY <1>1, <1>4, <4>1, <4>2
      <3>2. CASE Restart
        BY <1>5, <3>2 DEF Restart
      <3>3. CASE SetTheTimer
        BY <1>3, <3>3 DEF SetTheTimer
      <3> QED
        BY <2>1, <3>1, <3>2, <3>3 DEF RunPosted
    <2>2. CASE HangUp \/ TimerFires
      <3>1. CASE Release("dispose") \/ Release("restart")
        BY <1>4, <3>1 DEF Release
      <3> QED
        BY <1>3, <2>2, <3>1 DEF HangUp, ReleaseIfStarted, TimerFires
    <2>3. CASE AddCallStreams \/ Background
      BY <1>3, <2>3 DEF AddCallStreams, Background, TransportFails, TransportRecovers, WakeUp, RunTask
    <2> QED
      BY <1>6, <2>1, <2>2, <2>3 DEF MainThread
  <1>7. CASE Receive
    <2>1. PICK m \in Messages : m = Head(toClient) /\ Handled(m) /\ toClient # <<>>
      BY <1>7, ReceiveFlies DEF Receive
    <2>2. CASE OnStart(m) \/ InitiateAck(m)
      <3>1. CASE Initialize(m.call, FALSE)
        BY <1>5, <3>1
      <3> QED
        BY <1>3, <2>2, <3>1 DEF OnStart, InitiateAck
    <2>3. CASE OnEnd(m)
      <3>1. CASE Release("dispose")
        BY <1>4, <3>1 DEF Release
      <3> QED
        BY <1>3, <2>3, <3>1 DEF OnEnd, ReleaseIfStarted
    <2>4. CASE RecvAck(m) \/ RecvVideoAck(m)
      <3>1. isAlreadyStarted /\ m.call = CALL_ID /\ CALL_ID # NoCall
        BY <2>1, <2>4, AnsweredInTime
      <3>2. isAlreadyStarted' = isAlreadyStarted /\ mConsumers' = mConsumers
        BY <2>4 DEF RecvAck, RecvVideoAck
      <3>3. CASE RecvAck(m)
        <4>1. recvT' = m.call \/ UNCHANGED <<recvT, recAdded>>
          BY <3>3 DEF RecvAck
        <4>2. UNCHANGED <<recVideoAdded, recvVideoT>>
          BY <3>3 DEF RecvAck
        <4> QED
          BY <1>1, <3>1, <3>2, <4>1, <4>2
      <3>4. CASE RecvVideoAck(m)
        <4>1. recvVideoT' = m.call \/ UNCHANGED <<recvVideoT, recVideoAdded>>
          BY <3>4 DEF RecvVideoAck
        <4>2. UNCHANGED <<recAdded, recvT>>
          BY <3>4 DEF RecvVideoAck
        <4> QED
          BY <1>1, <3>1, <3>2, <4>1, <4>2
      <3> QED
        BY <2>4, <3>3, <3>4
    <2>5. CASE ConsumeAck(m)
      <3>1. UNCHANGED <<isAlreadyStarted, recAdded, recVideoAdded, recvT, recvVideoT>>
        BY <2>5 DEF ConsumeAck
      <3>2. mConsumers # <<>> => mConsumers' # <<>>
        BY <1>2, <2>5 DEF ConsumeAck
      <3> QED
        BY <1>1, <3>1, <3>2
    <2>6. CASE HangUpAck(m) \/ JoinAck(m) \/ CapsAck(m) \/ SendAck(m) \/ OnProducers(m)
      BY <1>3, <2>6 DEF HangUpAck, JoinAck, CapsAck, SendAck, OnProducers
    <2> QED
      BY <2>1, <2>2, <2>3, <2>4, <2>5, <2>6 DEF Handled
  <1>8. CASE ServerStep \/ Others
    BY <1>3, <1>8 DEF ServerStep, Others, client
  <1> QED
    BY <1>6, <1>7, <1>8 DEF Next

\* All that holds of a room whose answers come in time, step by step.
TimelyInv == OpenInv /\ LoadedInv /\ ClosedInv /\ ReadyInv
LEMMA TimelyNext ==
    TypeOK /\ CallsInv /\ TransportsInv /\ CrashInv /\ TimelyInv /\ [Next]_vars => TimelyInv'
  <1>1. CASE UNCHANGED vars
    BY <1>1 DEF vars, room, streams, receivers, history, TimelyInv, OpenInv, Open, RestartPosted,
       LoadedInv, ClosedInv, ReadyInv, InTime, Without, DisposalPending
  <1>2. CASE Next
    BY <1>2, OpenNext, LoadedNext, ClosedNext, ReadyNext DEF TimelyInv
  <1> QED
    BY <1>1, <1>2

LEMMA TimelyInit == Init => TimelyInv
  <1> SUFFICES ASSUME Init PROVE TimelyInv
    OBVIOUS
  <1>1. ~streamsAdded /\ ~recAdded /\ ~recVideoAdded /\ ~isAlreadyStarted
    BY DEF Init
  <1> QED
    BY <1>1, RoomsInit DEF TimelyInv, LoadedInv, ClosedInv, ReadyInv

-----------------------------------------------------------------------------
(* The way to the producers: the invariants that EveryoneIsHeard rests on,  *)
(* part two.                                                                *)

\* A room whose answers come in time and which no disposal will take away.
Steady == InTime /\ isAlreadyStarted /\ ~DisposalPending
Produced == Steady /\ streamsAdded

\* The receive transports are there or answered; or are asked for at least.
RecvIn == recAdded \/ ~Absent(toClient, Recvs)
VideoIn == recVideoAdded \/ ~Absent(toClient, Videos)
RecvsIn == RecvIn /\ VideoIn
RecvsComing ==
    /\ RecvIn \/ ~Absent(toServer, Recvs)
    /\ VideoIn \/ ~Absent(toServer, Videos)

\* Nobody has asked for transports of room c yet, nor for a consumer in it.
Consumers(c) == {m \in Messages : m.op = "CONSUME" /\ \E p \in m.prods : p[1] = c}
Unasked(c) ==
    /\ createWebRtcTransport = NoCall /\ sendT = NoCall /\ ~recAdded /\ ~recVideoAdded
    /\ \A p \in tasks : p[1] # c
    /\ Absent(toServer, Consumers(c)) /\ Absent(toClient, Consumers(c))
    /\ Absent(toClient, AsksOf(c))
    /\ NoneAfter(toServer, JoinsOf(c), Asks)
    /\ joined = c => Absent(toServer, Asks)
AskInv ==
    Steady /\ device = "loaded" => Restarting \/ RecvsComing \/ Unasked(CALL_ID)

\* The producers are asked for behind the receive transports and the join.
Asking == Prepared(toServer, Gets, Recvs, RecvIn, Videos, VideoIn, Joins)

\* Once the streams are there the producers will be asked for: when the restart of
\* the room is answered, when a thread wakes up, or the request is on its way.
\* Or it was answered, in the room that is open and behind the receive transports.
Route == Restarting \/ (sleepers > 0 /\ RecvsComing) \/ Asking
RouteInv == Produced => Route \/ (RecvsIn /\ Absent(toServer, Joins))

\* Each producer of the room will be asked for, or a list that names it will find
\* the receive transports there, or it is consumed, or will be.
Lists(p) == {m \in Messages : m.op = "PRODUCERS" /\ p \in m.prods}
Told(p) == Prepared(toClient, Lists(p), Recvs, recAdded, Videos, recVideoAdded, {})
Held(p) ==
    /\ recAdded /\ recVideoAdded
    /\ p \in tasks \/ Request(p) \in Flying \/ p \in Consumed
HeardInv == Produced => \A p \in ProducersOf(CALL_ID) : Route \/ Told(p) \/ Held(p)

\* How a room becomes steady: it was, or it is opened, for a call or again.
LEMMA SteadyWas ==
    ASSUME TypeOK, Next, Steady'
    PROVE  /\ InTime
           /\ \/ Steady /\ CALL_ID' = CALL_ID /\ ~(RunPosted /\ Dispose)
              \/ OpensAgain
              \/ /\ ~isAlreadyStarted /\ ~DisposalPending /\ Receive
                 /\ \E m \in Messages : m = Head(toClient) /\ OpensFor(m)
  <1> USE DEF room, streams, receivers, server, history
  <1>0. posted \in Seq({"dispose", "restart", "timer"})
    BY TypeParts DEF QueuesTyped
  <1>1. InTime /\ InTime' /\ isAlreadyStarted' /\ ~DisposalPending'
    BY InTimeWas DEF Steady
  <1>2. CASE RunPosted
    <2>1. CASE Dispose
      BY <1>1, <1>2, <2>1, DisposeInTime
    <2>2. CASE Restart
      BY <1>1, <1>2, <2>2 DEF OpensAgain
    <2>3. CASE SetTheTimer
      <3>1. ~DisposalPending
        BY <1>0, <1>1, <1>2, <2>3, RunPostedEffect DEF RunPosted, SetTheTimer
      <3> QED
        BY <1>1, <2>3, <3>1 DEF SetTheTimer, Steady, Dispose
    <2> QED
      BY <1>2, <2>1, <2>2, <2>3 DEF RunPosted
  <1>3. CASE ~RunPosted
    <2>1. ~DisposalPending
      BY <1>1, <1>3, PendingKept
    <2>2. CASE isAlreadyStarted /\ CALL_ID' = CALL_ID
      BY <1>1, <1>3, <2>1, <2>2 DEF Steady
    <2>3. CASE MainThread \/ Background
      <3>1. CALL_ID' = CALL_ID
        BY <2>3, MainJoins
      <3>2. isAlreadyStarted
        BY <1>1, <1>3, <2>3 DEF MainThread, AddCallStreams, HangUp, ReleaseIfStarted, Release,
           TimerFires, Background, TransportFails, TransportRecovers, WakeUp, RunTask
      <3> QED
        BY <2>2, <3>1, <3>2
    <2>4. CASE Receive
      <3>1. PICK m \in Messages : m = Head(toClient) /\ Handled(m)
        BY <2>4, ReceiveFlies
      <3>2. CASE ~OpensFor(m)
        BY <1>1, <2>2, <2>4, <3>1, <3>2, NotOpened
      <3>3. CASE OpensFor(m)
        <4>1. ~isAlreadyStarted
          <5>1. CASE InitiateAck(m) /\ isAlreadyStarted
            <6>1. posted' = Append(posted, "dispose")
              BY <5>1 DEF InitiateAck
            <6> QED
              BY <1>0, <1>1, <6>1, PostEffect
          <5> QED
            BY <3>3, <5>1 DEF OpensFor
        <4> QED
          BY <1>1, <2>1, <2>4, <3>1, <3>3, <4>1
      <3> QED
        BY <3>2, <3>3
    <2>5. CASE ServerStep \/ Others
      BY <1>1, <2>2, <2>5 DEF ServerStep, Others, client
    <2> QED
      BY <2>3, <2>4, <2>5 DEF Next
  <1> QED
    BY <1>2, <1>3

\* A steady room is not opened.
LEMMA SteadyUnopened ==
    ASSUME TypeOK, Next, Steady, Steady'
    PROVE  ~OpensAgain /\ \A m \in Messages : ~OpensFor(m)
  <1>0. posted \in Seq({"dispose", "restart", "timer"})
    BY TypeParts DEF QueuesTyped
  <1>1. ~OpensAgain
    BY <1>0, RunPostedEffect DEF OpensAgain, RunPosted, Restart, Steady
  <1>2. ASSUME NEW m \in Messages, OpensFor(m) PROVE FALSE
    <2>1. posted' = Append(posted, "dispose")
      BY <1>2 DEF OpensFor, InitiateAck, Steady
    <2> QED
      BY <1>0, <2>1, PostEffect DEF Steady
  <1> QED
    BY <1>1, <1>2

\* A steady room keeps its transports and its consumers.
LEMMA SteadyKeeps ==
    ASSUME TypeOK, OpenInv, Next, Steady, Steady', device = "loaded"
    PROVE  /\ device' = "loaded" /\ CALL_ID' = CALL_ID
           /\ recAdded => recAdded'
           /\ recVideoAdded => recVideoAdded'
           /\ mConsumers # <<>> => Consumed \subseteq Consumed'
  <1> USE DEF room, streams, receivers, server, history
  <1>0. isAlreadyStarted /\ isAlreadyStarted'
    BY DEF Steady
  <1>1. CALL_ID' = CALL_ID /\ ~(RunPosted /\ Dispose) /\ device' = "loaded"
    BY SteadyWas, SteadyUnopened, DeviceKept DEF Steady
  <1>2. CASE UNCHANGED <<recAdded, recVideoAdded, mConsumers>>
    BY <1>1, <1>2 DEF Consumed
  <1>3. CASE MainThread \/ Background
    <2>1. CASE RunPosted
      <3>1. SetTheTimer
        BY <1>1, <2>1, SteadyUnopened DEF RunPosted, OpensAgain
      <3> QED
        BY <1>2, <3>1 DEF SetTheTimer
    <2>2. CASE ~RunPosted
      BY <1>0, <1>2, <1>3, <2>2 DEF MainThread, AddCallStreams, HangUp, ReleaseIfStarted, Release,
         TimerFires, Background, TransportFails, TransportRecovers, WakeUp, RunTask
    <2> QED
      BY <2>1, <2>2
  <1>4. CASE Receive
    <2>1. PICK m \in Messages : m = Head(toClient) /\ Handled(m)
      BY <1>4, ReceiveFlies
    <2>2. ~OpensFor(m)
      BY <1>4, SteadyUnopened
    <2>3. CASE OnStart(m) \/ InitiateAck(m)
      BY <1>2, <1>4, <2>1, <2>2, <2>3 DEF OpensFor, OnStart
    <2>4. CASE OnEnd(m)
      BY <1>0, <1>2, <2>4 DEF OnEnd, ReleaseIfStarted, Release
    <2>5. CASE RecvAck(m) \/ RecvVideoAck(m)
      <3>1. mConsumers' = mConsumers
        BY <2>5 DEF RecvAck, RecvVideoAck
      <3>2. (recAdded => recAdded') /\ (recVideoAdded => recVideoAdded')
        BY <2>5 DEF RecvAck, RecvVideoAck
      <3> QED
        BY <1>1, <3>1, <3>2 DEF Consumed
    <2>6. CASE ConsumeAck(m)
      <3>1. UNCHANGED <<recAdded, recVideoAdded>>
        BY <2>6 DEF ConsumeAck
      <3>2. ASSUME mConsumers # <<>> PROVE Consumed \subseteq Consumed'
        <4>1. \/ mConsumers' = mConsumers
              \/ \E p \in m.prods : mConsumers' = <<mConsumers[1] \cup {p}>>
          BY <2>6, <3>2 DEF ConsumeAck
        <4>2. CASE mConsumers' = mConsumers
          BY <4>2 DEF Consumed
        <4>3. ASSUME NEW p \in m.prods, mConsumers' = <<mConsumers[1] \cup {p}>>
              PROVE  Consumed \subseteq Consumed'
          <5>1. mConsumers' # <<>> /\ mConsumers'[1] = mConsumers[1] \cup {p}
            BY <4>3
          <5> QED
            BY <3>2, <5>1 DEF Consumed
        <4> QED
          BY <4>1, <4>2, <4>3
      <3> QED
        BY <1>1, <3>1, <3>2
    <2>7. CASE HangUpAck(m) \/ JoinAck(m) \/ CapsAck(m) \/ SendAck(m) \/ OnProducers(m)
      BY <1>2, <2>7 DEF HangUpAck, JoinAck, CapsAck, SendAck, OnProducers
    <2> QED
      BY <2>1, <2>3, <2>4, <2>5, <2>6, <2>7 DEF Handled
  <1>5. CASE ServerStep \/ Others
    BY <1>2, <1>5 DEF ServerStep, Others, client
  <1> QED
    BY <1>3, <1>4, <1>5 DEF Next

\* It gets the transports that it is answered.
LEMMA SteadyTakes ==
    ASSUME TypeOK, Receive, device = "loaded"
    PROVE  /\ Head(toClient) \in Recvs => recAdded'
           /\ Head(toClient) \in Videos => recVideoAdded'
  <1>1. PICK m \in Messages : m = Head(toClient) /\ Handled(m)
    BY ReceiveFlies
  <1>2. ASSUME m.op = "RECV" PROVE recAdded'
    <2>1. RecvAck(m)
      BY <1>1, <1>2 DEF Handled, OnStart, InitiateAck, OnEnd, HangUpAck, JoinAck, CapsAck, SendAck,
         RecvVideoAck, OnProducers, ConsumeAck
    <2> QED
      BY <2>1 DEF RecvAck
  <1>3. ASSUME m.op = "RECV_VIDEO" PROVE recVideoAdded'
    <2>1. RecvVideoAck(m)
      BY <1>1, <1>3 DEF Handled, OnStart, InitiateAck, OnEnd, HangUpAck, JoinAck, CapsAck, SendAck,
         RecvAck, OnProducers, ConsumeAck
    <2> QED
      BY <2>1 DEF RecvVideoAck
  <1> QED
    BY <1>1, <1>2, <1>3 DEF Recvs, Videos, Those

\* What was answered, or asked for, comes.
LEMMA SteadyIn ==
    ASSUME TypeOK, OpenInv, Next, Steady, Steady', device = "loaded"
    PROVE  (RecvIn => RecvIn') /\ (VideoIn => VideoIn')
  <1>0. toClient \in Seq(Messages)
    BY TypeParts DEF QueuesTyped
  <1>1. (recAdded => recAdded') /\ (recVideoAdded => recVideoAdded')
    BY SteadyKeeps
  <1>2. CASE Receive
    <2>1. toClient # <<>> /\ toClient' = Tail(toClient)
      BY <1>2, EventStep
    <2>2. \A T : Absent(toClient', T) => Absent(toClient, T) \/ Head(toClient) \in T
      BY <1>0, <2>1, TakenLatest
    <2>3. /\ Head(toClient) \in Recvs => recAdded'
          /\ Head(toClient) \in Videos => recVideoAdded'
      BY <1>2, SteadyTakes
    <2> QED
      BY <1>1, <2>2, <2>3 DEF RecvIn, VideoIn
  <1>3. CASE toClient' = toClient
    BY <1>1, <1>3 DEF RecvIn, VideoIn
  <1>4. ASSUME NEW a \in Messages, toClient' = Append(toClient, a)
        PROVE  (RecvIn => RecvIn') /\ (VideoIn => VideoIn')
    BY <1>0, <1>1, <1>4, GrownLatest DEF RecvIn, VideoIn
  <1> QED
    BY <1>2, <1>3, <1>4, MainStep, ReplyIs, OthersAre DEF Next

LEMMA SteadyComing ==
    ASSUME TypeOK, SendInv, OpenInv, Next, Steady, Steady', device = "loaded", RecvsComing
    PROVE  RecvsComing'
  <1>0. toServer \in Seq(Messages) /\ toClient \in Seq(Messages)
    BY TypeParts DEF QueuesTyped
  <1>1. (RecvIn => RecvIn') /\ (VideoIn => VideoIn')
    BY SteadyIn
  <1>2. ASSUME NEW R, R \in {Recvs, Videos}, ~Absent(toServer, R)
        PROVE  ~Absent(toServer', R) \/ ~Absent(toClient', R)
    <2>1. CASE MainThread \/ Background \/ Receive
      <3>1. SomeAfter(toServer, Sends, R) /\ DeviceStep
        BY <1>2, <2>1, MainStep, EventStep DEF SendInv, Behind
      <3> QED
        BY <1>0, <1>2, <3>1, SendsBehind DEF DeviceStep
    <2>2. CASE ServerStep
      <3>1. PICK m \in Messages :
               /\ m = Head(toServer) /\ toServer # <<>> /\ toServer' = Tail(toServer)
               /\ \/ toClient' = toClient /\ Unheard(m)
                  \/ \E a \in Messages : toClient' = Append(toClient, a) /\ Reply(m, a)
        BY <2>2, ReplyIs
      <3>2. CASE m \notin R
        BY <1>0, <1>2, <3>1, <3>2, TakenLatest
      <3>3. CASE m \in R
        <4>1. PICK a \in Messages : toClient' = Append(toClient, a) /\ Reply(m, a)
          BY <1>2, <3>1, <3>3 DEF Unheard, Recvs, Videos, Those
        <4>2. a \in R
          BY <1>2, <3>3, <4>1 DEF Reply, Recvs, Videos, Those
        <4> QED
          BY <1>0, <4>1, <4>2, GrownLatest
      <3> QED
        BY <3>2, <3>3
    <2>3. CASE Others
      BY <1>2, <2>3, OthersAre
    <2> QED
      BY <2>1, <2>2, <2>3 DEF Next
  <1>3. /\ ~Absent(toServer, Recvs) => ~Absent(toServer', Recvs) \/ ~Absent(toClient', Recvs)
        /\ ~Absent(toServer, Videos) => ~Absent(toServer', Videos) \/ ~Absent(toClient', Videos)
    BY <1>2
  <1> QED
    BY <1>1, <1>3 DEF RecvsComing, RecvIn, VideoIn

\* A restart of the room stays on its way until the transports are answered.
LEMMA RestartingKept ==
    ASSUME TypeOK, Next, isAlreadyStarted, Restarting
    PROVE  \/ Restarting'
           \/ \E m \in Sends : Receive /\ m = Head(toClient) /\ SendAck(m) /\ m.nc
  <1>0. toServer \in Seq(Messages)
    BY TypeParts DEF QueuesTyped
  <1>1. PICK f \in Flying : f.op \in {"JOIN", "CAPS", "SEND"} /\ f.nc
    BY DEF Restarting
  <1>2. CASE f \in Flying'
    BY <1>1, <1>2 DEF Restarting
  <1>3. CASE Receive /\ f \notin Flying'
    <2>1. PICK m \in Messages : m = Head(toClient) /\ m = f /\ Handled(m)
      BY <1>3, ReceiveFlies
    <2>2. CASE m.op = "JOIN"
      <3>1. JoinAck(m)
        BY <2>1, <2>2 DEF Handled, OnStart, InitiateAck, OnEnd, HangUpAck, CapsAck, SendAck, RecvAck,
           RecvVideoAck, OnProducers, ConsumeAck
      <3>2. PICK c \in Range(toServer') : c.op = "CAPS" /\ c.nc = m.nc
        BY <1>0, <3>1, JoinAckEffect
      <3> QED
        BY <1>1, <2>1, <3>2 DEF Restarting, Flying
    <2>3. CASE m.op = "CAPS"
      <3>1. CapsAck(m)
        BY <2>1, <2>3 DEF Handled, OnStart, InitiateAck, OnEnd, HangUpAck, JoinAck, SendAck, RecvAck,
           RecvVideoAck, OnProducers, ConsumeAck
      <3>2. PICK nc \in BOOLEAN, peer \in BOOLEAN :
               nc = m.nc /\ peer = FALSE /\ AskTransports(nc, peer)
        BY <3>1, MessageParts DEF CapsAck
      <3>3. PICK c \in Range(toServer') : c.op = "SEND" /\ c.nc = m.nc
        BY <1>0, <3>2, AskEffect
      <3> QED
        BY <1>1, <2>1, <3>3 DEF Restarting, Flying
    <2>4. CASE m.op = "SEND"
      <3>1. SendAck(m) /\ m \in Sends
        BY <2>1, <2>4 DEF Handled, OnStart, InitiateAck, OnEnd, HangUpAck, JoinAck, CapsAck, RecvAck,
           RecvVideoAck, OnProducers, ConsumeAck, Sends
      <3> QED
        BY <1>1, <1>3, <2>1, <3>1
    <2> QED
      BY <1>1, <2>1, <2>2, <2>3, <2>4
  <1>4. CASE ServerStep \/ Others
    BY <1>4, ServerFlies
  <1>5. CASE MainThread \/ Background
    BY <1>2, <1>5, MainFlies
  <1> QED
    BY <1>2, <1>3, <1>4, <1>5 DEF Next

\* Behind the answer with the send transport come those with the receive transports.
LEMMA SendsTaken ==
    ASSUME TypeOK, SendInv, Receive, Head(toClient) \in Sends
    PROVE  /\ RecvIn' \/ ~Absent(toServer, Recvs)
           /\ VideoIn' \/ ~Absent(toServer, Videos)
  <1>0. toClient \in Seq(Messages)
    BY TypeParts DEF QueuesTyped
  <1>1. toClient # <<>> /\ toClient' = Tail(toClient)
    BY EventStep
  <1>2. ASSUME NEW R, Behind(R), Absent(toServer, R) PROVE ~Absent(toClient', R)
    <2>1. SomeAfter(toClient, Sends, R)
      BY <1>2 DEF Behind
    <2> QED
      BY <1>0, <1>1, <2>1, TakenOrder
  <1> QED
    BY <1>2 DEF SendInv, RecvIn, VideoIn

\* Streams that are added have the producers asked for, now or later.
LEMMA ProduceRoute ==
    ASSUME TypeOK, TypeOK', NEW t, ProduceOn(t),
           RecvIn' \/ ~Absent(toServer, Recvs), VideoIn' \/ ~Absent(toServer, Videos)
    PROVE  Route'
  <1>0. /\ toServer \in Seq(Messages) /\ sleepers \in Nat
        /\ RecvIn' \in BOOLEAN /\ VideoIn' \in BOOLEAN
    BY TypeParts DEF QueuesTyped, ClientTyped, CountsTyped, FlagsTyped, RecvIn, VideoIn
  <1>1. CASE Emit(Plain("GET_PRODUCERS", NoCall))
    <2>1. PICK g \in Gets : toServer' = Append(toServer, g)
      BY <1>1, GetIs
    <2>2. g \in Messages
      BY KindsApart
    <2>3. PICK r \in BOOLEAN, v \in BOOLEAN : r = RecvIn' /\ v = VideoIn'
      BY <1>0
    <2>4. Prepared(toServer', Gets, Recvs, r, Videos, v, Joins)
      BY <1>0, <2>1, <2>2, <2>3, GrownPrepared
    <2> QED
      BY <2>3, <2>4 DEF Route, Asking
  <1>2. CASE sleepers' = sleepers + 1 /\ toServer' = toServer
    BY <1>0, <1>2 DEF Route, RecvsComing
  <1> QED
    BY <1>1, <1>2 DEF ProduceOn

\* A room that is opened for a call has asked for nothing yet.
LEMMA OpenedUnasked ==
    ASSUME TypeOK, CallsInv, TransportsInv, StrangeInv, Receive, InTime,
           ~isAlreadyStarted, ~DisposalPending, NEW m \in Messages, m = Head(toClient), OpensFor(m)
    PROVE  CALL_ID' = m.call /\ Unasked(m.call)'
  <1> USE DEF room, streams, receivers, server, history
  <1>0. toServer \in Seq(Messages) /\ toClient \in Seq(Messages) /\ used \subseteq Calls
    BY TypeParts DEF QueuesTyped, ServerTyped
  <1>1. toClient # <<>> /\ toClient' = Tail(toClient) /\ UNCHANGED server
    BY DEF Receive
  <1>2. PICK c \in Calls : c = m.call /\ m \in StartsOf(c)
    <2>1. m \in Starts
      BY DEF OpensFor, OnStart, InitiateAck, Starts
    <2>2. m.call \in used
      BY <1>0, <1>1, <2>1, StartsTaken DEF CallsInv
    <2> QED
      BY <1>0, <2>1, <2>2 DEF Starts, StartsOf
  <1>3. Untouched(c) /\ Foreign(c)
    <2>1. ~Absent(toClient, StartsOf(c))
      BY <1>0, <1>1, <1>2, TakenLatest
    <2> QED
      BY <2>1 DEF StrangeInv, Unopened, Ahead
  <1>4. Initialize(c, FALSE) /\ UNCHANGED <<sendT, createWebRtcTransport, tasks>>
    BY <1>2 DEF OpensFor, OnStart, InitiateAck
  <1>5. sendT = NoCall /\ createWebRtcTransport = NoCall
    BY DEF TransportsInv, TransportsServeTheOpenRoom, InTime, Without
  <1>6. CALL_ID' = c /\ ~recAdded' /\ ~recVideoAdded'
    BY <1>4 DEF Initialize
  <1>7. PICK j \in Joins : toServer' = Append(toServer, j)
    <2>1. PICK f \in BOOLEAN : f = FALSE
      OBVIOUS
    <2> QED
      BY <1>2, <1>4, <2>1, InitializeIs DEF Rooms
  <1>8. j \in Messages /\ j \notin Asks /\ j.op = "JOIN"
    BY KindsApart DEF Asks
  <1>9. Absent(toServer', Consumers(c)) /\ NoneAfter(toServer', JoinsOf(c), Asks)
    <2>1. Absent(toServer, Consumers(c)) /\ NoneAfter(toServer, JoinsOf(c), Asks)
      BY <1>3 DEF Untouched, Foreign, Absent, About, Consumers, NoneAfter
    <2>2. j \notin Consumers(c)
      BY <1>8 DEF Consumers
    <2>3. PICK T, A : T = Consumers(c) /\ A = JoinsOf(c)
      OBVIOUS
    <2>4. Absent(toServer', T)
      BY <1>0, <1>7, <1>8, <2>1, <2>2, <2>3, GrownLatest
    <2>5. NoneAfter(toServer', A, Asks)
      BY <1>0, <1>7, <1>8, <2>1, <2>3, GrownOrder
    <2> QED
      BY <2>3, <2>4, <2>5
  <1>10. Absent(toClient', Consumers(c)) /\ Absent(toClient', AsksOf(c))
    <2>1. \A T : Absent(toClient, T) => Absent(toClient', T)
      BY <1>0, <1>1, TakenLatest
    <2>2. Absent(toClient, Consumers(c))
      BY <1>3 DEF Foreign, Absent, About, Consumers
    <2> QED
      BY <1>3, <2>1, <2>2 DEF Foreign
  <1>11. (\A p \in tasks' : p[1] # c) /\ joined' # c
    BY <1>1, <1>3, <1>4 DEF Foreign, Untouched
  <1>12. Unasked(c)'
    BY <1>4, <1>5, <1>6, <1>9, <1>10, <1>11 DEF Unasked
  <1> QED
    BY <1>2, <1>6, <1>12 DEF Unasked

\* Until a transport is answered, a room that has asked for nothing has none, and no
\* tasks are added.
Flags == <<createWebRtcTransport, sendT, recAdded, recVideoAdded, tasks>>
NoneYet ==
    /\ createWebRtcTransport' = NoCall /\ sendT' = NoCall /\ ~recAdded' /\ ~recVideoAdded'
    /\ tasks' \subseteq tasks
LEMMA UnaskedFlags ==
    ASSUME TypeOK, MainThread \/ Background \/ Receive, NEW c, Unasked(c),
           Receive => ~(\/ SendAck(Head(toClient)) \/ RecvAck(Head(toClient))
                        \/ RecvVideoAck(Head(toClient)))
    PROVE  NoneYet
  <1> USE DEF room, streams, receivers, server, history
  <1>0. createWebRtcTransport = NoCall /\ sendT = NoCall /\ ~recAdded /\ ~recVideoAdded
    BY DEF Unasked
  <1>1. CASE UNCHANGED Flags
    BY <1>0, <1>1 DEF Flags, NoneYet
  <1>2. ASSUME NEW d, Release(d), sendT' = sendT, tasks' = tasks PROVE NoneYet
    BY <1>0, <1>2 DEF Release, NoneYet
  <1>3. ASSUME NEW d, NEW nc, Initialize(d, nc), sendT' \in {sendT, NoCall}, tasks' = tasks,
               createWebRtcTransport' \in {createWebRtcTransport, NoCall}
        PROVE  NoneYet
    BY <1>0, <1>3 DEF Initialize, NoneYet
  <1>4. CASE AddCallStreams
    BY <1>0, <1>1, <1>4 DEF AddCallStreams, Flags
  <1>5. CASE HangUp \/ TimerFires
    <2>1. sendT' = sendT /\ tasks' = tasks
      BY <1>5 DEF HangUp, TimerFires
    <2>2. CASE Release("dispose") \/ Release("restart")
      BY <1>2, <2>1, <2>2
    <2> QED
      BY <1>1, <1>5, <2>2 DEF HangUp, ReleaseIfStarted, TimerFires, Flags
  <1>6. CASE RunPosted
    <2>1. CASE Dispose
      BY <1>0, <1>6, <2>1 DEF RunPosted, Dispose, DropTransports, NoneYet
    <2>2. CASE Restart
      BY <1>3, <1>6, <2>2 DEF RunPosted, Restart, DropTransports
    <2>3. CASE SetTheTimer
      BY <1>1, <1>6, <2>3 DEF RunPosted, SetTheTimer, Flags
    <2> QED
      BY <1>6, <2>1, <2>2, <2>3 DEF RunPosted
  <1>7. CASE Background
    <2>1. UNCHANGED <<createWebRtcTransport, sendT, recAdded, recVideoAdded>> /\ tasks' \subseteq tasks
      BY <1>7 DEF Background, TransportFails, TransportRecovers, WakeUp, RunTask
    <2> QED
      BY <1>0, <2>1 DEF NoneYet
  <1>8. CASE Receive
    <2>1. PICK m \in Messages : m = Head(toClient) /\ Handled(m)
      BY <1>8, ReceiveFlies
    <2>2. CASE OnStart(m) \/ InitiateAck(m)
      <3>1. CASE Initialize(m.call, FALSE)
        BY <1>3, <2>2, <3>1 DEF OnStart, InitiateAck
      <3> QED
        BY <1>1, <2>2, <3>1 DEF OnStart, InitiateAck, Flags
    <2>3. CASE OnEnd(m)
      <3>1. CASE Release("dispose")
        BY <1>2, <2>3, <3>1 DEF OnEnd
      <3> QED
        BY <1>1, <2>3, <3>1 DEF OnEnd, ReleaseIfStarted, Flags
    <2>4. CASE OnProducers(m)
      BY <1>0, <1>1, <2>4 DEF OnProducers, Flags
    <2>5. CASE HangUpAck(m) \/ JoinAck(m) \/ CapsAck(m) \/ ConsumeAck(m)
      BY <1>1, <2>5 DEF HangUpAck, JoinAck, CapsAck, ConsumeAck, Flags
    <2> QED
      BY <1>8, <2>1, <2>2, <2>3, <2>4, <2>5 DEF Handled
  <1> QED
    BY <1>4, <1>5, <1>6, <1>7, <1>8 DEF MainThread

\* It stays so until the receive transports are asked for.
LEMMA UnaskedDevice ==
    ASSUME TypeOK, CrashInv, OpenInv, ConsumeInv, MainThread \/ Background \/ Receive,
           Steady, Steady', NEW c, c = CALL_ID, Unasked(c)
    PROVE  Unasked(c)' \/ RecvsComing'
  <1>0. /\ toServer \in Seq(Messages) /\ toClient \in Seq(Messages)
        /\ isAlreadyStarted /\ isAlreadyStarted' /\ InTime' /\ Next
    BY TypeParts DEF QueuesTyped, Steady, Next
  <1>1. DeviceStep
    BY MainStep, EventStep
  <1>2. ASSUME Receive
        PROVE  /\ ~(\/ SendAck(Head(toClient)) \/ RecvAck(Head(toClient))
                    \/ RecvVideoAck(Head(toClient)))
               /\ ~ConsumeAck(Head(toClient))
    <2>1. PICK m \in Messages : m = Head(toClient) /\ toClient # <<>>
      BY <1>2, ReceiveFlies DEF Receive
    <2>2. CASE SendAck(m) \/ RecvAck(m) \/ RecvVideoAck(m)
      <3>1. m.call = c
        BY <1>0, <2>1, <2>2, AnsweredInTime
      <3>2. m \in Asks
        BY <2>2 DEF SendAck, RecvAck, RecvVideoAck, Asks, Sends, Recvs, Videos, Those
      <3>3. m \in AsksOf(c)
        BY <3>1, <3>2 DEF AsksOf
      <3> QED
        BY <1>0, <2>1, <3>3, TakenLatest DEF Unasked
    <2>3. CASE ConsumeAck(m)
      <3>1. PICK p \in m.prods : m.op = "CONSUME"
        BY <2>3 DEF ConsumeAck
      <3>2. m \in Range(toClient)
        BY <1>0, <2>1, TakenRange
      <3>3. p[1] = c
        BY <3>1, <3>2 DEF ConsumeInv, Answers
      <3>4. m \in Consumers(c)
        BY <3>1, <3>3 DEF Consumers
      <3> QED
        BY <1>0, <2>1, <3>4, TakenLatest DEF Unasked
    <2> QED
      BY <2>1, <2>2, <2>3
  <1>3. NoneYet
    BY <1>2, UnaskedFlags
  <1>4. \A T : Absent(toClient, T) => Absent(toClient', T)
    BY <1>0, <1>1, TakenLatest DEF DeviceStep
  <1>5. ASSUME Absent(toServer', Consumers(c)), NoneAfter(toServer', JoinsOf(c), Asks),
               joined = c => Absent(toServer', Asks)
        PROVE  Unasked(c)'
    BY <1>1, <1>3, <1>4, <1>5 DEF Unasked, NoneYet, DeviceStep, server
  <1>6. CASE SendsNothing
    BY <1>5, <1>6 DEF SendsNothing, Unasked
  <1>7. CASE SendsOne
    <2>1. PICK e \in Messages : Single(e) /\ toServer' = Append(toServer, e)
      BY <1>7 DEF SendsOne
    <2>2. e \notin Asks /\ e \notin Consumers(c)
      BY <2>1, KindsApart DEF Single, Asks, Consumers, Unasked
    <2>3. PICK T, A : T = Consumers(c) /\ A = JoinsOf(c)
      OBVIOUS
    <2>4. Absent(toServer', T) /\ (Absent(toServer, Asks) => Absent(toServer', Asks))
      BY <1>0, <2>1, <2>2, <2>3, GrownLatest DEF Unasked
    <2>5. NoneAfter(toServer', A, Asks)
      BY <1>0, <2>1, <2>2, <2>3, GrownOrder DEF Unasked
    <2> QED
      BY <1>5, <2>3, <2>4, <2>5 DEF Unasked
  <1>8. CASE SendsVideo
    BY <1>2, <1>8 DEF SendsVideo
  <1>9. ASSUME NEW q \in Seq(Messages), NEW r \in Recvs, NEW v \in Videos,
               toServer' = Append(Append(q, r), v)
        PROVE  RecvsComing'
    <2>1. r \in Messages /\ v \in Messages /\ v \notin Recvs
      BY KindsApart
    <2>2. PICK s \in Seq(Messages) : s = Append(q, r)
      BY <2>1, GrownQueue
    <2>3. ~Absent(s, Recvs)
      BY <2>1, <2>2, GrownLatest
    <2>4. ~Absent(toServer', Recvs) /\ ~Absent(toServer', Videos)
      <3>1. PICK t : t = Append(s, v) /\ toServer' = t
        BY <1>9, <2>2
      <3>2. ~Absent(t, Videos)
        BY <2>1, <3>1, GrownLatest
      <3>3. ~Absent(t, Recvs)
        BY <2>1, <2>3, <3>1, GrownLatest
      <3> QED
        BY <3>1, <3>2, <3>3
    <2> QED
      BY <2>4 DEF RecvsComing
  <1>10. CASE SendsRecvs
    BY <1>0, <1>9, <1>10 DEF SendsRecvs
  <1>11. ASSUME NEW nc \in BOOLEAN, SendsAll(nc) PROVE RecvsComing'
    <2>1. PICK a \in Sends, r \in Recvs, v \in Videos :
             toServer' = Append(Append(Append(toServer, a), r), v)
      BY <1>11 DEF SendsAll
    <2>2. PICK q \in Seq(Messages) : q = Append(toServer, a)
      BY <1>0, KindsApart, GrownQueue
    <2> QED
      BY <1>9, <2>1, <2>2
  <1> QED
    BY <1>1, <1>6, <1>7, <1>8, <1>10, <1>11 DEF DeviceStep, SendsSome

\* The server answers a request of another room, or takes the join of this one.
LEMMA UnaskedServer ==
    ASSUME TypeOK, ServerStep \/ Others, NEW c, Unasked(c)
    PROVE  Unasked(c)'
  <1>0. toServer \in Seq(Messages) /\ toClient \in Seq(Messages)
    BY TypeParts DEF QueuesTyped
  <1>1. ASSUME NEW a \in Messages, toClient' = Append(toClient, a),
               a \notin Consumers(c), a \notin AsksOf(c)
        PROVE  Absent(toClient', Consumers(c)) /\ Absent(toClient', AsksOf(c))
    <2>1. PICK T, A : T = Consumers(c) /\ A = AsksOf(c)
      OBVIOUS
    <2> QED
      BY <1>0, <1>1, <2>1, GrownLatest DEF Unasked
  <1>2. CASE ServerStep
    <2>1. PICK m \in Messages :
             /\ m = Head(toServer) /\ toServer # <<>> /\ toServer' = Tail(toServer)
             /\ joined' = (IF m.op = "JOIN" THEN m.call ELSE joined) /\ UNCHANGED client
             /\ \/ toClient' = toClient
                \/ \E a \in Messages : toClient' = Append(toClient, a) /\ Reply(m, a)
      BY <1>2, ReplyIs
    <2>2. PICK T, A : T = Consumers(c) /\ A = JoinsOf(c)
      OBVIOUS
    <2>3. Absent(toServer', T) /\ m \notin T /\ NoneAfter(toServer', A, Asks)
      BY <1>0, <2>1, <2>2, TakenLatest, TakenOrder DEF Unasked
    <2>4. ASSUME joined' = c PROVE Absent(toServer', Asks)
      <3>1. CASE m \in A
        BY <1>0, <2>1, <2>2, <3>1, TakenOrder DEF Unasked
      <3>2. CASE m \notin A
        <4>1. joined = c
          BY <2>1, <2>2, <2>4, <3>2 DEF JoinsOf
        <4> QED
          BY <1>0, <2>1, <4>1, TakenLatest DEF Unasked
      <3> QED
        BY <3>1, <3>2
    <2>5. ASSUME NEW a \in Messages, Reply(m, a)
          PROVE  a \notin Consumers(c) /\ a \notin AsksOf(c)
      <3>1. joined = c => m \notin Asks
        BY <1>0, <2>1, TakenLatest DEF Unasked
      <3>2. a \in AsksOf(c) => joined = c /\ m \in Asks
        BY <2>5 DEF Reply, AsksOf, Asks, Sends, Recvs, Videos, Those
      <3>3. a \notin Consumers(c)
        BY <2>2, <2>3, <2>5 DEF Reply, Consumers
      <3> QED
        BY <3>1, <3>2, <3>3
    <2>6. Absent(toClient', Consumers(c)) /\ Absent(toClient', AsksOf(c))
      BY <1>1, <2>1, <2>5 DEF Unasked
    <2> QED
      BY <2>1, <2>2, <2>3, <2>4, <2>6 DEF Unasked, client, room, streams
  <1>3. CASE Others
    <2>1. UNCHANGED client /\ toServer' = toServer /\ joined' = joined
      BY <1>3, OthersAre
    <2>2. ASSUME NEW a \in Messages, \/ \E d \in Calls : Begins(d, a)
                                     \/ Ends(a)
                                     \/ \E k \in Kinds : Tells(k, a)
          PROVE  a \notin Consumers(c) /\ a \notin AsksOf(c)
      <3>1. a.op \in {"START", "STARTED", "END", "PRODUCERS"}
        BY <2>2 DEF Begins, Ends, Tells, StartsOf, EndOf
      <3> QED
        BY <3>1, KindsApart DEF Consumers, AsksOf, Asks
    <2>3. Absent(toClient', Consumers(c)) /\ Absent(toClient', AsksOf(c))
      BY <1>1, <1>3, <2>2, OthersAre DEF Unasked
    <2> QED
      BY <2>1, <2>3 DEF Unasked, client, room, streams
  <1> QED
    BY <1>2, <1>3

\* A device is loaded by the answer with the capabilities.
LEMMA CapsLoads ==
    ASSUME TypeOK, Next, device # "loaded", device' = "loaded"
    PROVE  Receive /\ CapsAck(Head(toClient))
  <1> USE DEF room, streams, receivers, server, history
  <1>1. CASE MainThread \/ Background
    BY <1>1 DEF MainThread, AddCallStreams, HangUp, TimerFires, RunPosted, Dispose, Restart,
       Initialize, SetTheTimer, Background, TransportFails, TransportRecovers, WakeUp, RunTask
  <1>2. CASE Receive
    <2>1. PICK m \in Messages : m = Head(toClient) /\ Handled(m)
      BY <1>2, ReceiveFlies
    <2>2. CASE SendAck(m)
      BY <2>2 DEF SendAck, Overflow
    <2>3. CASE OnStart(m) \/ InitiateAck(m)
      BY <2>3 DEF OnStart, InitiateAck, Initialize
    <2>4. CASE OnEnd(m) \/ HangUpAck(m) \/ JoinAck(m) \/ RecvAck(m) \/ RecvVideoAck(m)
               \/ OnProducers(m) \/ ConsumeAck(m)
      <3>1. device' = device
        BY <2>4 DEF OnEnd, HangUpAck, JoinAck, RecvAck, RecvVideoAck, OnProducers, ConsumeAck
      <3> QED
        BY <3>1
    <2> QED
      BY <1>2, <2>1, <2>2, <2>3, <2>4 DEF Handled
  <1>3. CASE ServerStep \/ Others
    BY <1>3 DEF ServerStep, Others, client
  <1> QED
    BY <1>1, <1>2, <1>3 DEF Next

\* All transports are asked for: the receive transports are coming.
LEMMA AskedComing ==
    ASSUME TypeOK, NEW nc \in BOOLEAN, SendsAll(nc)
    PROVE  RecvsComing'
  <1>1. PICK a \in Sends, r \in Recvs, v \in Videos :
           toServer' = Append(Append(Append(toServer, a), r), v)
    BY DEF SendsAll
  <1>2. a \in Messages /\ r \in Messages /\ v \in Messages /\ toServer \in Seq(Messages)
    BY KindsApart, TypeParts DEF QueuesTyped
  <1>3. PICK q \in Seq(Messages) : q = Append(toServer, a)
    BY <1>2, GrownQueue
  <1>4. PICK s \in Seq(Messages) : s = Append(q, r)
    BY <1>2, GrownQueue
  <1>5. PICK t : t = Append(s, v) /\ toServer' = t
    BY <1>1, <1>3, <1>4
  <1>6. ~Absent(s, Recvs)
    BY <1>2, <1>4, GrownLatest
  <1>7. ~Absent(t, Recvs)
    BY <1>2, <1>5, <1>6, GrownLatest
  <1>8. ~Absent(t, Videos)
    BY <1>2, <1>5, GrownLatest
  <1> QED
    BY <1>5, <1>7, <1>8 DEF RecvsComing

\* The room is opened again: its restart is on its way.
LEMMA OpenedAgain ==
    ASSUME TypeOK, OpensAgain
    PROVE  Restarting'
  <1>1. CALL_ID \in Rooms /\ TRUE \in BOOLEAN /\ toServer \in Seq(Messages)
    BY TypeParts DEF QueuesTyped, ClientTyped, RoomsTyped
  <1>2. PICK nc \in BOOLEAN, c \in Rooms : nc = TRUE /\ c = CALL_ID
    BY <1>1
  <1>3. PICK j \in Joins : j.nc = nc /\ toServer' = Append(toServer, j)
    BY <1>2, InitializeIs DEF OpensAgain, Restart
  <1>4. j \in Messages /\ j.op = "JOIN"
    BY KindsApart
  <1>5. j \in Range(toServer')
    BY <1>1, <1>3, <1>4, GrownRange
  <1> QED
    BY <1>2, <1>3, <1>4, <1>5 DEF Restarting, Flying

\* The requests for transports, step by step.
LEMMA AskNext ==
    ASSUME TypeOK, CallsInv, TransportsInv, CrashInv, SendInv, StrangeInv, ConsumeInv, OpenInv,
           AskInv, Next
    PROVE  AskInv'
  <1> SUFFICES ASSUME Steady', device' = "loaded"
               PROVE  Restarting' \/ RecvsComing' \/ Unasked(CALL_ID)'
    BY DEF AskInv
  <1>1. CASE OpensAgain
    BY <1>1, OpenedAgain
  <1>2. ASSUME ~isAlreadyStarted, ~DisposalPending, Receive, InTime,
               NEW m \in Messages, m = Head(toClient), OpensFor(m)
        PROVE  Unasked(CALL_ID)'
    <2>1. CALL_ID' = m.call /\ Unasked(m.call)'
      BY <1>2, OpenedUnasked
    <2> QED
      BY <2>1 DEF Unasked
  <1>3. CASE Steady /\ CALL_ID' = CALL_ID /\ device # "loaded"
    <2>1. PICK m \in Messages : m = Head(toClient) /\ CapsAck(m)
      BY <1>3, CapsLoads, ReceiveFlies
    <2>2. PICK nc \in BOOLEAN, peer \in BOOLEAN : AskTransports(nc, peer)
      BY <2>1, MessageParts DEF CapsAck
    <2>3. SendsAll(nc)
      BY <1>3, <2>2, AskIs, TypeParts DEF QueuesTyped, Steady
    <2> QED
      BY <2>3, AskedComing
  <1>4. CASE Steady /\ CALL_ID' = CALL_ID /\ device = "loaded"
    <2>1. CASE RecvsComing
      BY <1>4, <2>1, SteadyComing
    <2>2. CASE Restarting
      <3>1. CASE Restarting'
        BY <3>1
      <3>2. ASSUME NEW m \in Sends, Receive, m = Head(toClient), SendAck(m)
            PROVE  RecvsComing'
        <4>1. /\ RecvIn' \/ ~Absent(toServer, Recvs)
              /\ VideoIn' \/ ~Absent(toServer, Videos)
          BY <3>2, SendsTaken
        <4>2. \A R \in {Recvs, Videos} : Absent(toServer', R) => Absent(toServer, R)
          <5>1. DeviceStep /\ toServer \in Seq(Messages)
            BY <3>2, EventStep, TypeParts DEF QueuesTyped
          <5>2. ASSUME NEW R, R \in {Recvs, Videos}
                PROVE  Absent(toServer', R) => Absent(toServer, R)
            <6>1. SomeAfter(toServer, Sends, R)
              BY <5>2 DEF SendInv, Behind
            <6> QED
              BY <5>1, <5>2, <6>1, SendsBehind DEF DeviceStep
          <5> QED
            BY <5>2
        <4> QED
          BY <4>1, <4>2 DEF RecvsComing
      <3> QED
        BY <1>4, <2>2, <3>1, <3>2, RestartingKept DEF Steady
    <2>3. CASE Unasked(CALL_ID)
      <3>1. PICK c : c = CALL_ID
        OBVIOUS
      <3>2. Unasked(c)' \/ RecvsComing'
        BY <1>4, <2>3, <3>1, UnaskedDevice, UnaskedServer DEF Next
      <3> QED
        BY <1>4, <3>1, <3>2 DEF Unasked
    <2> QED
      BY <1>4, <2>1, <2>2, <2>3 DEF AskInv
  <1> QED
    BY <1>1, <1>2, <1>3, <1>4, SteadyWas

\* What stands behind the last join still does when no room is joined.
LEMMA PreparedSent ==
    ASSUME toServer \in Seq(Messages),
           SendsSome \/ \E e \in Messages : e \notin Joins /\ toServer' = Append(toServer, e),
           NEW A, NEW R, NEW r \in BOOLEAN, NEW V, NEW v \in BOOLEAN,
           Prepared(toServer, A, R, r, V, v, Joins)
    PROVE  Prepared(toServer', A, R, r, V, v, Joins)
  <1>1. ASSUME NEW q \in Seq(Messages), NEW e \in Messages, e \notin Joins
        PROVE  /\ Append(q, e) \in Seq(Messages)
               /\ Prepared(q, A, R, r, V, v, Joins) =>
                     Prepared(Append(q, e), A, R, r, V, v, Joins)
    <2>1. Append(q, e) \in Seq(Messages)
      BY <1>1, GrownQueue
    <2>2. Prepared(q, A, R, r, V, v, Joins) => Prepared(Append(q, e), A, R, r, V, v, Joins)
      BY <1>1, GrownPrepared
    <2> QED
      BY <2>1, <2>2
  <1>2. \A e \in Sends \cup Recvs \cup Videos : e \in Messages /\ e \notin Joins
    BY KindsApart
  <1>3. CASE SendsVideo
    BY <1>1, <1>2, <1>3 DEF SendsVideo
  <1>4. CASE SendsRecvs
    <2>1. PICK a \in Recvs, b \in Videos : toServer' = Append(Append(toServer, a), b)
      BY <1>4 DEF SendsRecvs
    <2>2. PICK q \in Seq(Messages) : q = Append(toServer, a)
      BY <1>1, <1>2
    <2> QED
      BY <1>1, <1>2, <2>1, <2>2
  <1>5. ASSUME NEW nc \in BOOLEAN, SendsAll(nc)
        PROVE  Prepared(toServer', A, R, r, V, v, Joins)
    <2>1. PICK s \in Sends, a \in Recvs, b \in Videos :
             toServer' = Append(Append(Append(toServer, s), a), b)
      BY <1>5 DEF SendsAll
    <2>2. PICK q \in Seq(Messages) : q = Append(toServer, s)
      BY <1>1, <1>2
    <2>3. PICK q2 \in Seq(Messages) : q2 = Append(q, a)
      BY <1>1, <1>2
    <2> QED
      BY <1>1, <1>2, <2>1, <2>2, <2>3
  <1> QED
    BY <1>1, <1>3, <1>4, <1>5 DEF SendsSome, SendsNothing

\* In a steady room no room is joined.
LEMMA SteadySends ==
    ASSUME TypeOK, Next, MainThread \/ Background \/ Receive, Steady, Steady'
    PROVE  /\ SendsSome \/ \E e \in Messages : e \notin Joins /\ toServer' = Append(toServer, e)
           /\ Absent(toServer, Joins) => Absent(toServer', Joins)
  <1>0. toServer \in Seq(Messages)
    BY TypeParts DEF QueuesTyped
  <1>1. DeviceStep
    BY MainStep, EventStep
  <1>2. CASE SendsOne
    <2>1. PICK e \in Messages : Single(e) /\ toServer' = Append(toServer, e)
      BY <1>2 DEF SendsOne
    <2>2. e \notin Joins
      <3>1. ~OpensFor(Head(toClient))
        <4>1. Receive => Head(toClient) \in Messages
          BY ReceiveFlies
        <4> QED
          BY <4>1, SteadyUnopened DEF OpensFor
      <3> QED
        BY <2>1, <3>1, SteadyUnopened DEF Single, Joins, Those
    <2> QED
      BY <1>0, <2>1, <2>2, GrownLatest
  <1>3. CASE SendsSome
    <2>1. \A m \in Joins : m \notin Sends \cup Recvs \cup Videos
      BY KindsApart
    <2> QED
      BY <1>0, <1>3, <2>1, SomeSent
  <1> QED
    BY <1>1, <1>2, <1>3 DEF DeviceStep

\* The request for the producers is answered, in the room that is open.
GetServed ==
    /\ ServerStep /\ Head(toServer) \in Gets
    /\ RecvsIn /\ Absent(toServer', Joins)

\* The request for the producers stands until then.
LEMMA AskingKept ==
    ASSUME TypeOK, TypeOK', OpenInv, Next, Steady, Steady', device = "loaded", Asking
    PROVE  Asking' \/ GetServed
  <1>0. /\ toServer \in Seq(Messages) /\ toClient \in Seq(Messages)
        /\ RecvIn \in BOOLEAN /\ VideoIn \in BOOLEAN
        /\ RecvIn' \in BOOLEAN /\ VideoIn' \in BOOLEAN
    BY TypeParts DEF QueuesTyped, FlagsTyped, RecvIn, VideoIn
  <1>1. (RecvIn => RecvIn') /\ (VideoIn => VideoIn')
    BY SteadyIn
  <1>2. PICK r \in BOOLEAN, v \in BOOLEAN, rr \in BOOLEAN, vv \in BOOLEAN :
           r = RecvIn /\ v = VideoIn /\ rr = RecvIn' /\ vv = VideoIn'
    BY <1>0
  <1>3. Prepared(toServer, Gets, Recvs, r, Videos, v, Joins)
    BY <1>2 DEF Asking
  <1>4. CASE Prepared(toServer', Gets, Recvs, rr, Videos, vv, Joins)
    BY <1>2, <1>4 DEF Asking
  <1>5. CASE Prepared(toServer', Gets, Recvs, r, Videos, v, Joins)
    <2>1. (r => rr) /\ (v => vv)
      BY <1>1, <1>2
    <2> QED
      BY <1>4, <1>5, <2>1, PreparedStays
  <1>6. CASE MainThread \/ Background \/ Receive
    <2>1. SendsSome \/ \E e \in Messages : e \notin Joins /\ toServer' = Append(toServer, e)
      BY <1>6, SteadySends
    <2> QED
      BY <1>0, <1>3, <1>5, <2>1, PreparedSent
  <1>7. CASE Others
    BY <1>3, <1>5, <1>7, OthersAre
  <1>8. CASE ServerStep
    <2>1. PICK m \in Messages :
             /\ m = Head(toServer) /\ toServer # <<>> /\ toServer' = Tail(toServer)
             /\ \/ toClient' = toClient /\ Unheard(m)
                \/ \E a \in Messages : toClient' = Append(toClient, a) /\ Reply(m, a)
      BY <1>8, ReplyIs
    <2>2. CASE m \in Gets /\ r /\ v /\ Absent(Tail(toServer), Joins)
      BY <1>2, <1>8, <2>1, <2>2 DEF GetServed, RecvsIn
    <2>3. CASE Prepared(Tail(toServer), Gets, Recvs, r \/ m \in Recvs, Videos, v \/ m \in Videos, Joins)
      <3>1. ASSUME NEW R, R \in {Recvs, Videos}, m \in R
            PROVE  ~Absent(toClient', R)
        <4>1. PICK a \in Messages : toClient' = Append(toClient, a) /\ Reply(m, a)
          BY <2>1, <3>1 DEF Unheard, Recvs, Videos, Those
        <4>2. a \in R
          BY <3>1, <4>1 DEF Reply, Recvs, Videos, Those
        <4> QED
          BY <1>0, <4>1, <4>2, GrownLatest
      <3>2. PICK r2 \in BOOLEAN, v2 \in BOOLEAN : r2 = (r \/ m \in Recvs) /\ v2 = (v \/ m \in Videos)
        OBVIOUS
      <3>3. (r2 => rr) /\ (v2 => vv)
        BY <1>1, <1>2, <3>1, <3>2 DEF RecvIn, VideoIn
      <3>4. Prepared(toServer', Gets, Recvs, r2, Videos, v2, Joins)
        BY <2>1, <2>3, <3>2
      <3> QED
        BY <1>4, <3>3, <3>4, PreparedStays
    <2> QED
      BY <1>0, <1>3, <2>1, <2>2, <2>3, TakenPrepared
  <1> QED
    BY <1>6, <1>7, <1>8 DEF Next

\* The threads that wait ask one after the other.
LEMMA SleepersKept ==
    ASSUME TypeOK, Next
    PROVE  WakeUp \/ sleepers' = sleepers \/ sleepers' = sleepers + 1
  <1> USE DEF room, streams, receivers, server, history
  <1>1. CASE MainThread \/ Background
    BY <1>1 DEF MainThread, AddCallStreams, ProduceOn, HangUp, TimerFires, RunPosted,
       Background, TransportFails, TransportRecovers, RunTask
  <1>2. CASE Receive
    <2>1. PICK m \in Messages : Handled(m)
      BY <1>2, ReceiveFlies
    <2>2. CASE SendAck(m)
      BY <2>2 DEF SendAck, ProduceOn, Overflow
    <2>3. CASE ~SendAck(m)
      <3>1. sleepers' = sleepers
        BY <2>1, <2>3 DEF Handled, OnStart, InitiateAck, OnEnd, HangUpAck, JoinAck, CapsAck, RecvAck,
           RecvVideoAck, OnProducers, ConsumeAck
      <3> QED
        BY <3>1
    <2> QED
      BY <2>2, <2>3
  <1>3. CASE ServerStep \/ Others
    BY <1>3 DEF ServerStep, Others, client
  <1> QED
    BY <1>1, <1>2, <1>3 DEF Next

\* The way to the producers stays until they are answered.
LEMMA RouteKept ==
    ASSUME TypeOK, TypeOK', CrashInv, SendInv, OpenInv, Next, Steady, Steady',
           device = "loaded", Route
    PROVE  Route' \/ GetServed
  <1>0. toServer \in Seq(Messages) /\ sleepers \in Nat
    BY TypeParts DEF QueuesTyped, ClientTyped, CountsTyped
  <1>1. CASE Asking
    BY <1>1, AskingKept DEF Route
  <1>2. CASE Restarting
    <2>1. CASE Restarting'
      BY <2>1 DEF Route
    <2>2. ASSUME NEW m \in Sends, Receive, m = Head(toClient), SendAck(m), m.nc PROVE Route'
      <3>1. m \in Messages /\ toClient # <<>> /\ InTime'
        BY <2>2, KindsApart DEF Receive, Steady
      <3>2. ProduceOn(m.call)
        BY <2>2, <3>1, AnsweredInTime
      <3>3. /\ RecvIn' \/ ~Absent(toServer, Recvs)
            /\ VideoIn' \/ ~Absent(toServer, Videos)
        BY <2>2, SendsTaken
      <3> QED
        BY <3>2, <3>3, ProduceRoute
    <2> QED
      BY <1>2, <2>1, <2>2, RestartingKept DEF Steady
  <1>3. CASE sleepers > 0 /\ RecvsComing
    <2>1. RecvsComing' /\ (RecvIn => RecvIn') /\ (VideoIn => VideoIn')
      BY <1>3, SteadyComing, SteadyIn
    <2>2. CASE sleepers' = sleepers \/ sleepers' = sleepers + 1
      BY <1>0, <1>3, <2>1, <2>2 DEF Route
    <2>3. CASE WakeUp
      <3>1. PICK g \in Gets : toServer' = Append(toServer, g)
        BY <2>3, GetIs DEF WakeUp
      <3>2. PICK r \in BOOLEAN, v \in BOOLEAN : r = RecvIn' /\ v = VideoIn'
        <4>1. RecvIn' \in BOOLEAN /\ VideoIn' \in BOOLEAN
          BY TypeParts DEF FlagsTyped, RecvIn, VideoIn
        <4> QED
          BY <4>1
      <3>3. (r \/ ~Absent(toServer, Recvs)) /\ (v \/ ~Absent(toServer, Videos))
        BY <1>3, <2>1, <3>2 DEF RecvsComing
      <3>4. g \in Messages
        BY KindsApart
      <3>5. Prepared(toServer', Gets, Recvs, r, Videos, v, Joins)
        BY <1>0, <3>1, <3>3, <3>4, GrownPrepared
      <3> QED
        BY <3>2, <3>5 DEF Route, Asking
    <2> QED
      BY <2>2, <2>3, SleepersKept
  <1> QED
    BY <1>1, <1>2, <1>3 DEF Route

\* Streams that were there have their way kept, and those that are added get one.
LEMMA RouteStep ==
    ASSUME TypeOK, TypeOK', CrashInv, SendInv, TimelyInv, AskInv, Next, Produced'
    PROVE  \/ Route'
           \/ /\ Produced /\ device = "loaded" /\ CALL_ID' = CALL_ID
              /\ Route => GetServed
  <1> USE DEF room, streams, receivers, server, history
  <1>0. OpenInv /\ LoadedInv /\ ClosedInv /\ Steady' /\ streamsAdded'
    BY DEF TimelyInv, Produced
  <1>1. InTime /\ InTime' /\ isAlreadyStarted'
    BY <1>0, InTimeWas DEF Steady
  <1>2. CASE OpensAgain
    BY <1>2, OpenedAgain DEF Route
  <1>3. CASE Steady /\ CALL_ID' = CALL_ID /\ streamsAdded' = streamsAdded
    <2>1. device = "loaded" /\ Produced
      BY <1>0, <1>1, <1>3 DEF LoadedInv, Produced
    <2> QED
      BY <1>0, <1>3, <2>1, RouteKept
  <1>4. ASSUME Steady, CALL_ID' = CALL_ID, AddCallStreams, streamsAdded' # streamsAdded
        PROVE  Route'
    <2>1. PICK t \in {sendT, createWebRtcTransport} :
             t # NoCall /\ ProduceOn(t) /\ device = "loaded"
      BY <1>4 DEF AddCallStreams
    <2>2. UNCHANGED <<toClient, recAdded, recVideoAdded>>
      BY <1>4 DEF AddCallStreams
    <2>3. CASE Restarting
      BY <1>4, <2>3, MainFlies DEF Restarting, Route, MainThread
    <2>4. CASE RecvsComing
      <3>1. RecvIn' = RecvIn /\ VideoIn' = VideoIn
        BY <2>2 DEF RecvIn, VideoIn
      <3> QED
        BY <2>1, <2>4, <3>1, ProduceRoute DEF RecvsComing
    <2>5. CASE Unasked(CALL_ID)
      BY <2>1, <2>5 DEF Unasked
    <2> QED
      BY <1>4, <2>1, <2>3, <2>4, <2>5 DEF AskInv
  <1>5. ASSUME NEW m \in Messages, Receive, m = Head(toClient), SendAck(m),
               streamsAdded' # streamsAdded
        PROVE  Route'
    <2>1. toClient # <<>> /\ m \in Sends
      BY <1>5 DEF Receive, SendAck, Sends
    <2>2. ProduceOn(m.call)
      BY <1>0, <1>1, <1>5, <2>1, AnsweredInTime
    <2>3. /\ RecvIn' \/ ~Absent(toServer, Recvs)
          /\ VideoIn' \/ ~Absent(toServer, Videos)
      BY <1>5, <2>1, SendsTaken
    <2> QED
      BY <2>2, <2>3, ProduceRoute
  <1>6. ASSUME ~isAlreadyStarted, ~DisposalPending PROVE Route'
    <2>1. ~streamsAdded
      BY <1>0, <1>1, <1>6 DEF ClosedInv
    <2>2. ~AddCallStreams
      BY <1>1, <1>6 DEF AddCallStreams
    <2> QED
      BY <1>0, <1>5, <2>1, <2>2, StreamsKept
  <1> QED
    BY <1>0, <1>2, <1>3, <1>4, <1>5, <1>6, SteadyWas, StreamsKept

\* Once the producers were asked for, and no room is to be joined, it stays so.
LEMMA RouteNext ==
    ASSUME TypeOK, TypeOK', CrashInv, SendInv, TimelyInv, AskInv, RouteInv, Next
    PROVE  RouteInv'
  <1> SUFFICES ASSUME Produced', ~Route' PROVE RecvsIn' /\ Absent(toServer', Joins)
    BY DEF RouteInv
  <1>0. toServer \in Seq(Messages)
    BY TypeParts DEF QueuesTyped
  <1>1. Produced /\ device = "loaded" /\ (Route => GetServed)
    BY RouteStep
  <1>2. OpenInv /\ Steady /\ Steady'
    BY <1>1 DEF TimelyInv, Produced
  <1>3. RecvsIn
    BY <1>1 DEF RouteInv, GetServed
  <1>4. RecvsIn'
    BY <1>1, <1>2, <1>3, SteadyIn DEF RecvsIn
  <1>5. CASE GetServed
    BY <1>4, <1>5 DEF GetServed
  <1>6. CASE Absent(toServer, Joins)
    <2>1. CASE MainThread \/ Background \/ Receive
      BY <1>2, <1>4, <1>6, <2>1, SteadySends
    <2>2. CASE ServerStep
      BY <1>0, <1>4, <1>6, <2>2, TakenLatest DEF ServerStep
    <2>3. CASE Others
      BY <1>4, <1>6, <2>3, OthersAre
    <2> QED
      BY <2>1, <2>2, <2>3 DEF Next
  <1> QED
    BY <1>1, <1>5, <1>6 DEF RouteInv

\* A list is told once the receive transports stand before it or are there.
LEMMA ListTold ==
    ASSUME TypeOK, NEW p, NEW a \in Lists(p), toClient' = Append(toClient, a), RecvsIn,
           UNCHANGED <<recAdded, recVideoAdded>>
    PROVE  Told(p)'
  <1>0. /\ toClient \in Seq(Messages) /\ a \in Messages
        /\ recAdded \in BOOLEAN /\ recVideoAdded \in BOOLEAN
    BY TypeParts DEF QueuesTyped, ClientTyped, FlagsTyped, Lists
  <1>1. PICK r \in BOOLEAN, v \in BOOLEAN : r = recAdded /\ v = recVideoAdded
    BY <1>0
  <1>2. PICK L : L = Lists(p)
    OBVIOUS
  <1>3. Prepared(toClient', L, Recvs, r, Videos, v, {})
    BY <1>0, <1>1, <1>2, GrownPrepared DEF RecvsIn, RecvIn, VideoIn
  <1>4. Lists(p)' = L
    BY <1>2 DEF Lists
  <1> QED
    BY <1>1, <1>3, <1>4 DEF Told

\* The answer names all producers of the room that is open.
LEMMA ServedTold ==
    ASSUME TypeOK, JoinInv, CALL_ID' = CALL_ID, GetServed, NEW p \in ProducersOf(CALL_ID)'
    PROVE  Told(p)'
  <1>0. toServer \in Seq(Messages)
    BY TypeParts DEF QueuesTyped
  <1>1. PICK m \in Messages :
           /\ m = Head(toServer) /\ toServer # <<>> /\ toServer' = Tail(toServer)
           /\ m.op # "HANG_UP" => srvProducers' = srvProducers
           /\ \/ toClient' = toClient /\ Unheard(m)
              \/ \E a \in Messages : toClient' = Append(toClient, a) /\ Reply(m, a)
    BY ReplyIs DEF GetServed
  <1>2. m.op = "GET_PRODUCERS"
    BY <1>1, KindsApart DEF GetServed
  <1>3. m \notin Joins
    BY <1>2, KindsApart
  <1>4. joined = CALL_ID
    BY <1>0, <1>1, <1>3, TakenLatest DEF GetServed, JoinInv
  <1>5. p \in ProducersOf(joined)
    BY <1>1, <1>2, <1>4 DEF ProducersOf
  <1>6. PICK a \in Messages : toClient' = Append(toClient, a) /\ Reply(m, a)
    BY <1>1, <1>2, <1>5 DEF Unheard
  <1>7. a \in Lists(p)
    BY <1>2, <1>5, <1>6 DEF Reply, Lists
  <1>8. UNCHANGED <<recAdded, recVideoAdded>>
    BY DEF GetServed, ServerStep, client, room
  <1> QED
    BY <1>6, <1>7, <1>8, ListTold DEF GetServed

\* A list that is told stays so until it makes the tasks.
LEMMA ToldKept ==
    ASSUME TypeOK, OpenInv, Next, Steady, Steady', streamsAdded, device = "loaded",
           NEW p, Told(p)
    PROVE  Told(p)' \/ Held(p)'
  <1>0. /\ toClient \in Seq(Messages)
        /\ recAdded \in BOOLEAN /\ recVideoAdded \in BOOLEAN
    BY TypeParts DEF QueuesTyped, ClientTyped, FlagsTyped
  <1>1. (recAdded => recAdded') /\ (recVideoAdded => recVideoAdded')
    BY SteadyKeeps
  <1>2. PICK r \in BOOLEAN, v \in BOOLEAN, L \in SUBSET Messages :
           r = recAdded /\ v = recVideoAdded /\ L = Lists(p)
    <2>1. Lists(p) \in SUBSET Messages
      BY DEF Lists
    <2> QED
      BY <1>0, <2>1
  <1>3. Prepared(toClient, L, Recvs, r, Videos, v, {})
    BY <1>2 DEF Told
  <1>4. ASSUME NEW rr \in BOOLEAN, NEW vv \in BOOLEAN, rr => recAdded', vv => recVideoAdded',
               Prepared(toClient', L, Recvs, rr, Videos, vv, {})
        PROVE  Told(p)'
    BY <1>2, <1>4 DEF Told, Lists, Prepared, Preceded
  <1>5. CASE toClient' = toClient
    BY <1>1, <1>2, <1>3, <1>4, <1>5
  <1>6. ASSUME NEW a \in Messages, toClient' = Append(toClient, a)
        PROVE  Told(p)'
    <2>1. Prepared(toClient', L, Recvs, r, Videos, v, {})
      BY <1>0, <1>3, <1>6, GrownPrepared
    <2> QED
      BY <1>1, <1>2, <1>4, <2>1
  <1>7. CASE Receive
    <2>1. PICK m \in Messages : /\ m = Head(toClient) /\ Handled(m)
                                /\ toClient # <<>> /\ toClient' = Tail(toClient)
      BY <1>7, ReceiveFlies, EventStep
    <2>2. CASE Prepared(Tail(toClient), L, Recvs, r \/ m \in Recvs, Videos, v \/ m \in Videos, {})
      <3>1. PICK rr \in BOOLEAN, vv \in BOOLEAN : rr = (r \/ m \in Recvs) /\ vv = (v \/ m \in Videos)
        OBVIOUS
      <3>2. (rr => recAdded') /\ (vv => recVideoAdded')
        BY <1>1, <1>2, <1>7, <2>1, <3>1, SteadyTakes
      <3>3. Prepared(toClient', L, Recvs, rr, Videos, vv, {})
        BY <2>1, <2>2, <3>1
      <3> QED
        BY <1>4, <3>2, <3>3
    <2>3. CASE m \in L /\ r /\ v
      <3>1. m.op = "PRODUCERS" /\ p \in m.prods
        BY <1>2, <2>3 DEF Lists
      <3>2. OnProducers(m)
        BY <2>1, <3>1 DEF Handled, OnStart, InitiateAck, OnEnd, HangUpAck, JoinAck, CapsAck, SendAck,
           RecvAck, RecvVideoAck, ConsumeAck
      <3>3. p \in tasks'
        BY <1>2, <2>3, <3>1, <3>2 DEF OnProducers, Steady
      <3> QED
        BY <1>1, <1>2, <2>3, <3>3 DEF Held
    <2> QED
      BY <1>0, <1>3, <2>1, <2>2, <2>3, TakenPrepared
  <1> QED
    BY <1>5, <1>6, <1>7, MainStep, ReplyIs, OthersAre DEF Next

\* A task waits until it runs.
LEMMA TasksKept ==
    ASSUME TypeOK, Next, NEW p \in tasks
    PROVE  p \in tasks' \/ RunTask(p)
  <1> USE DEF room, streams, receivers, server, history
  <1>1. CASE MainThread \/ Background
    BY <1>1 DEF MainThread, AddCallStreams, HangUp, TimerFires, RunPosted,
       Background, TransportFails, TransportRecovers, WakeUp, RunTask
  <1>2. CASE Receive
    <2>1. PICK m \in Messages : Handled(m)
      BY <1>2, ReceiveFlies
    <2>2. CASE OnProducers(m)
      BY <2>2 DEF OnProducers
    <2>3. CASE ~OnProducers(m)
      <3>1. tasks' = tasks
        BY <2>1, <2>3 DEF Handled, OnStart, InitiateAck, OnEnd, HangUpAck, JoinAck, CapsAck, SendAck,
           RecvAck, RecvVideoAck, ConsumeAck
      <3> QED
        BY <3>1
    <2> QED
      BY <2>2, <2>3
  <1>3. CASE ServerStep \/ Others
    BY <1>3 DEF ServerStep, Others, client
  <1> QED
    BY <1>1, <1>2, <1>3 DEF Next

\* Who is to be consumed is, in the end: the task finds a receive transport, the
\* request a producer, and the answer somewhere to keep the consumer.
LEMMA HeldKept ==
    ASSUME TypeOK, OpenInv, ReadyInv, Next, Steady, Steady', device = "loaded",
           NEW p \in Producers, p \in srvProducers, Held(p)
    PROVE  Held(p)'
  <1>0. toServer \in Seq(Messages) /\ toClient \in Seq(Messages)
    BY TypeParts DEF QueuesTyped
  <1>1. /\ recAdded' /\ recVideoAdded' /\ Consumed \subseteq Consumed'
        /\ recvT # NoCall /\ recvVideoT # NoCall /\ mConsumers # <<>>
    BY SteadyKeeps DEF Held, ReadyInv, Steady
  <1>2. CASE p \in Consumed
    BY <1>1, <1>2 DEF Held
  <1>3. CASE p \in tasks
    <2>1. CASE RunTask(p)
      <3>1. toServer' = Append(toServer, Request(p)) /\ Request(p) \in Messages
        BY <1>1, <2>1, RequestIs DEF RunTask, Emit, Request
      <3>2. PICK e \in Messages : e = Request(p)
        BY <3>1
      <3>3. e \in Range(toServer')
        BY <1>0, <3>1, <3>2, GrownRange
      <3> QED
        BY <1>1, <3>2, <3>3 DEF Held, Flying, Request
    <2> QED
      BY <1>1, <1>3, <2>1, TasksKept DEF Held
  <1>4. CASE Request(p) \in Flying
    <2>0. ASSUME NEW a \in Messages, toClient' = Append(toClient, a)
          PROVE  Range(toClient) \subseteq Range(toClient')
      BY <1>0, <2>0, GrownRange
    <2>1. PICK e \in Messages : e = Request(p) /\ e.op = "CONSUME" /\ e.prods = {p}
      BY RequestIs
    <2>2. CASE e \in Flying'
      <3>1. Request(p)' = e
        BY <2>1 DEF Request
      <3> QED
        BY <1>1, <2>2, <3>1 DEF Held
    <2>3. CASE MainThread \/ Background
      BY <1>4, <2>1, <2>2, <2>3, MainFlies
    <2>4. CASE Receive
      <3>1. PICK m \in Messages : m = Head(toClient) /\ Handled(m) /\ Flying \subseteq Flying' \cup {m}
        BY <2>4, ReceiveFlies
      <3>2. CASE m = e
        <4>1. ConsumeAck(m)
          BY <2>1, <3>1, <3>2 DEF Handled, OnStart, InitiateAck, OnEnd, HangUpAck, JoinAck, CapsAck,
             SendAck, RecvAck, RecvVideoAck, OnProducers
        <4>2. mConsumers' = <<mConsumers[1] \cup {p}>>
          BY <1>1, <2>1, <3>2, <4>1 DEF ConsumeAck
        <4>3. mConsumers' # <<>> /\ mConsumers'[1] = mConsumers[1] \cup {p}
          BY <4>2
        <4> QED
          BY <1>1, <4>3 DEF Held, Consumed
      <3> QED
        BY <1>4, <2>1, <2>2, <3>1, <3>2
    <2>5. CASE ServerStep
      <3>1. PICK m \in Messages :
               /\ m = Head(toServer) /\ toServer # <<>> /\ toServer' = Tail(toServer)
               /\ \/ toClient' = toClient /\ Unheard(m)
                  \/ \E a \in Messages : toClient' = Append(toClient, a) /\ Reply(m, a)
        BY <2>5, ReplyIs
      <3>2. Range(toServer) = {m} \cup Range(toServer')
        BY <1>0, <3>1, TakenRange
      <3>3. Range(toClient) \subseteq Range(toClient')
        BY <2>0, <3>1
      <3>4. CASE m = e
        <4>1. toClient' = Append(toClient, e)
          BY <2>1, <3>1, <3>4 DEF Unheard, Reply
        <4>2. e \in Range(toClient')
          BY <1>0, <4>1, GrownRange
        <4> QED
          BY <2>2, <4>2 DEF Flying
      <3> QED
        BY <1>4, <2>1, <2>2, <3>2, <3>3, <3>4 DEF Flying
    <2>6. CASE Others
      <3>1. toServer' = toServer /\ (toClient' = toClient \/ \E a \in Messages : toClient' = Append(toClient, a))
        BY <2>6, OthersAre
      <3>2. Range(toClient) \subseteq Range(toClient')
        BY <2>0, <3>1
      <3> QED
        BY <1>4, <2>1, <2>2, <3>1, <3>2 DEF Flying
    <2> QED
      BY <2>3, <2>4, <2>5, <2>6 DEF Next
  <1> QED
    BY <1>2, <1>3, <1>4 DEF Held

\* Everyone who produces is on the way to being consumed, step by step.
LEMMA HeardNext ==
    ASSUME TypeOK, TypeOK', CrashInv, SendInv, JoinInv, TimelyInv, AskInv, RouteInv, HeardInv, Next
    PROVE  HeardInv'
  <1> SUFFICES ASSUME Produced', NEW p \in ProducersOf(CALL_ID)', ~Route'
               PROVE  Told(p)' \/ Held(p)'
    BY DEF HeardInv
  <1>0. p \in srvProducers' /\ p[1] = CALL_ID' /\ p \in Producers
    BY TypeParts DEF ServerTyped, ProducersOf
  <1>1. Produced /\ device = "loaded" /\ CALL_ID' = CALL_ID /\ (Route => GetServed)
    BY RouteStep
  <1>2. OpenInv /\ ReadyInv /\ Steady /\ Steady' /\ streamsAdded
    BY <1>1 DEF TimelyInv, Produced
  <1>3. CASE GetServed
    BY <1>1, <1>3, ServedTold
  <1>4. CASE ~Route /\ p \in srvProducers
    <2>1. Told(p) \/ Held(p)
      BY <1>0, <1>1, <1>4 DEF HeardInv, ProducersOf
    <2> QED
      BY <1>0, <1>1, <1>2, <1>4, <2>1, ToldKept, HeldKept
  <1>5. CASE ~Route /\ p \notin srvProducers
    <2>1. RecvsIn /\ joined = CALL_ID
      BY <1>1, <1>5 DEF RouteInv, JoinInv
    <2>2. CASE MainThread \/ Background \/ Receive
      <3>1. srvProducers' = srvProducers
        BY <2>2, MainStep, EventStep DEF DeviceStep, server
      <3> QED
        BY <1>0, <1>5, <3>1
    <2>3. CASE ServerStep
      BY <1>0, <1>5, <2>3, ReplyIs
    <2>4. CASE Others
      <3>1. ASSUME NEW k \in Kinds, Produces(k) PROVE live = CALL_ID /\ p = <<live, k>>
        BY <1>0, <1>1, <1>5, <3>1 DEF Produces
      <3>2. PICK a \in Messages, k \in Kinds : toClient' = Append(toClient, a) /\ Produces(k) /\ Tells(k, a)
        <4>1. ~(\E a \in Messages, c \in Calls : Begins(c, a))
          BY <1>0, <1>5 DEF Begins
        <4>2. ~(\E a \in Messages : Ends(a))
          BY <1>0 DEF Ends
        <4>3. ~(joined # live /\ \E k \in Kinds : Produces(k))
          BY <2>1, <3>1
        <4> QED
          BY <2>4, <4>1, <4>2, <4>3, OthersAre
      <3>3. a \in Lists(p)
        BY <3>1, <3>2 DEF Tells, Lists
      <3>4. UNCHANGED <<recAdded, recVideoAdded>>
        BY <2>4 DEF Others, client, room
      <3> QED
        BY <2>1, <3>2, <3>3, <3>4, ListTold
    <2> QED
      BY <2>2, <2>3, <2>4 DEF Next
  <1> QED
    BY <1>1, <1>3, <1>4, <1>5

\* All of part two.
WayInv == AskInv /\ RouteInv /\ HeardInv
LEMMA WayNext ==
    ASSUME TypeOK, TypeOK', CallsInv, TransportsInv, CrashInv, SendInv, JoinInv, StrangeInv,
           ConsumeInv, TimelyInv, WayInv, [Next]_vars
    PROVE  WayInv'
  <1>1. CASE UNCHANGED vars
    <2>1. /\ Steady' = Steady /\ Produced' = Produced /\ Restarting' = Restarting
          /\ RecvIn' = RecvIn /\ VideoIn' = VideoIn
      BY <1>1 DEF vars, room, streams, history, Steady, Produced, InTime, Without, DisposalPending,
         Restarting, Flying, RecvIn, VideoIn
    <2>2. /\ UNCHANGED <<device, CALL_ID, sleepers, toServer, toClient, tasks, joined, srvProducers,
                         recAdded, recVideoAdded, mConsumers, sendT, createWebRtcTransport>>
      BY <1>1 DEF vars, room, streams, server
    <2>3. /\ RecvsComing' = RecvsComing /\ RecvsIn' = RecvsIn
          /\ Unasked(CALL_ID)' = Unasked(CALL_ID) /\ Asking' = Asking
      BY <2>1, <2>2 DEF RecvsComing, RecvsIn, Unasked, Asking
    <2>4. Route' = Route
      BY <2>1, <2>2, <2>3 DEF Route
    <2>5. AskInv' /\ RouteInv'
      BY <2>1, <2>2, <2>3, <2>4 DEF WayInv, AskInv, RouteInv
    <2>6. ASSUME NEW p PROVE Told(p)' = Told(p) /\ Held(p)' = Held(p)
      BY <2>2 DEF Told, Lists, Held, Request, Flying, Consumed
    <2>7. HeardInv'
      BY <2>1, <2>2, <2>4, <2>6 DEF WayInv, HeardInv, ProducersOf
    <2> QED
      BY <2>5, <2>7 DEF WayInv
  <1>2. CASE Next
    BY <1>2, AskNext, RouteNext, HeardNext DEF WayInv, TimelyInv
  <1> QED
    BY <1>1, <1>2

LEMMA WayInit == Init => WayInv
  BY DEF Init, WayInv, AskInv, RouteInv, HeardInv, Produced, Steady

\* With answers in time and no disposal that swept the room, who produces in the
\* room is consumed once all is quiet, whatever was announced before the
\* transports and the streams were there (CallRoom.EveryoneIsHeard).
THEOREM ProducersAreConsumed == Spec => []EveryoneIsHeard
  <1>1. ASSUME TypeOK, RouteInv, HeardInv PROVE EveryoneIsHeard
    <2> SUFFICES ASSUME Settled, isAlreadyStarted, streamsAdded, InTime,
                        NEW p \in ProducersOf(CALL_ID)
                 PROVE  p \in Consumed
      BY DEF EveryoneIsHeard, InTime, ProducersOf
    <2>1. /\ toServer = <<>> /\ toClient = <<>> /\ tasks = {} /\ sleepers = 0
          /\ Flying = {} /\ ~DisposalPending
      BY NothingFlies DEF Settled
    <2>2. Produced
      BY <2>1 DEF Produced, Steady
    <2>3. \A A, R, r, V, v, J : ~Prepared(<<>>, A, R, r, V, v, J)
      BY EmptySeq DEF Prepared
    <2>4. ~Route
      <3>1. ~Restarting
        BY <2>1 DEF Restarting
      <3>2. ~Asking
        BY <2>1, <2>3 DEF Asking
      <3> QED
        BY <2>1, <3>1, <3>2 DEF Route
    <2>5. ~Told(p)
      BY <2>1, <2>3 DEF Told
    <2> QED
      BY <1>1, <2>1, <2>2, <2>4, <2>5 DEF HeardInv, Held
  <1> DEFINE IInv == /\ TypeOK /\ RoomInv /\ CallsInv /\ TransportsInv /\ FreshInv /\ CrashInv
                     /\ SendInv /\ JoinInv /\ LiveInv /\ StrangeInv /\ ConsumeInv
                     /\ TimelyInv /\ WayInv
  <1>2. Init => IInv
    BY TypeInit, RoomInit, TransportsInit, CrashInit, OrderInit, RoomsInit, TimelyInit, WayInit
  <1>3. IInv /\ [Next]_vars => IInv'
    <2> SUFFICES ASSUME IInv, [Next]_vars PROVE IInv'
      OBVIOUS
    <2>1. TypeOK' /\ RoomInv' /\ CallsInv' /\ TransportsInv' /\ FreshInv' /\ CrashInv'
      BY TypeNext, RoomNext, TransportsNext, CrashNext
    <2>2. SendInv' /\ JoinInv' /\ LiveInv' /\ StrangeInv' /\ ConsumeInv' /\ TimelyInv'
      BY <2>1, SendNext, JoinNext, LiveNext, StrangeNext, ConsumeNext, TimelyNext
    <2>3. WayInv'
      BY <2>1, WayNext
    <2> QED
      BY <2>1, <2>2, <2>3
  <1>4. IInv => EveryoneIsHeard
    BY <1>1 DEF WayInv
  <1> HIDE DEF IInv
  <1> QED
    BY <1>2, <1>3, <1>4, PTL DEF Spec

=============================================================================
