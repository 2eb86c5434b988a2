-------------------------------- MODULE CallRoom --------------------------------
(***************************************************************************)
(* The room client: the mediasoup device, its transports, the microphone   *)
(* and the consumers of one call after another.                            *)
(*                                                                         *)
(* Three threads share it.  The socket's event thread handles Acks and     *)
(* events in order.  The main thread runs what the app asks for and what   *)
(* was posted to it, in order: release posts its disposal.  Consumers are  *)
(* requested from a background task.  An Ack does not know whether the     *)
(* room it was requested for is still the one that is open.                *)
(*                                                                         *)
(* The connection is up: losing it is in CallSession.                      *)
(***************************************************************************)
EXTENDS Naturals, Sequences, FiniteSets

CONSTANTS
    Calls,
    NoCall,
    Kinds,        \* what the others produce: audio, video or both
    EmptyLists,   \* does the server answer when nobody produces?
    MaxRequests,  \* bound on requests in flight when the app acts
    MaxSleepers,  \* bound on the threads that wait to ask for the producers
    MaxFailures   \* bound on failures of the send transport

ASSUME NoCallAssumption == NoCall \notin Calls
ASSUME KindsAssumption == Kinds \subseteq {"audio", "video"}
ASSUME EmptyListsAssumption == EmptyLists \in BOOLEAN
ASSUME RoomBoundsAssumption == MaxRequests \in Nat /\ MaxSleepers \in Nat /\ MaxFailures \in Nat

Rooms == Calls \cup {NoCall}
Producers == Calls \X Kinds

VARIABLES
    active,                    \* ACTIVE_CALL_ID
    isAlreadyStarted, CALL_ID, \* the room that is open
    device,                    \* mMediasoupDevice: "none", "new" or "loaded"
    factory,                   \* peerConnectionFactory and audioSource exist
    rootEgl,                   \* rootEglBase exists
    sendT, recvT, recvVideoT,  \* transports: the room they belong to, or NoCall
    createWebRtcTransport,     \* the last answer: of which room, or NoCall
    recAdded, recVideoAdded, streamsAdded,
    addAudio,                  \* addAudio or addVideo
    mic,                       \* localAudioTrack exists, and is enabled
    sending,                   \* the room of the transport that produces it
    mConsumers,                \* <<S>>, the producers consumed, or <<>>: null
    posted,                    \* main looper: "dispose", "restart", "timer"
    timer,                     \* the ICE timer runs
    sleepers,                  \* threads asleep before getProducers(2)
    tasks,                     \* ConsumerCreate tasks not run yet
    toServer, toClient,
    joined, live, used, srvProducers, \* server
    failures,
    mishaps                    \* history: what went past what, see Mishaps

room == <<isAlreadyStarted, CALL_ID, recAdded, recVideoAdded, addAudio>>
streams == <<factory, rootEgl, sendT, mic, sending, streamsAdded>>
receivers == <<recvT, recvVideoT>>
server == <<joined, live, used, srvProducers>>
history == <<failures, mishaps>>
vars == <<active, room, device, streams, receivers, createWebRtcTransport,
          mConsumers, posted, timer, sleepers, tasks, toServer, toClient,
          server, history>>

\* nc: notCreated, peer: callPeerConnection, kept by the Ack's closure.
Ops == {"JOIN", "CAPS", "SEND", "RECV", "RECV_VIDEO", "GET_PRODUCERS", "CONSUME",
        "HANG_UP", "START", "STARTED", "END", "PRODUCERS"}
Messages == [op : Ops, call : Rooms, nc : BOOLEAN, peer : BOOLEAN,
             prods : SUBSET Producers]
Msg(op, c, nc, peer, P) ==
    [op |-> op, call |-> c, nc |-> nc, peer |-> peer, prods |-> P]
Plain(op, c) == Msg(op, c, FALSE, FALSE, {})

\* "late": an answer for a room that is not the open one was used;
\* "swept": a disposal ran after the next room was opened, which it still is
\* or, by a restart, soon will be again;
\* "overtaken": a call ended while a restart of its room was posted;
\* "crossed": the Ack of a hang-up cleared a later call.
Mishaps == {"late", "swept", "overtaken", "crossed"}

TypeOK ==
    /\ {active, CALL_ID, sendT, recvT, recvVideoT, createWebRtcTransport,
        sending, joined, live} \subseteq Rooms
    /\ {isAlreadyStarted, factory, rootEgl, recAdded, recVideoAdded,
        streamsAdded, addAudio, mic, timer} \subseteq BOOLEAN
    /\ device \in {"none", "new", "loaded", "crashed"}
    /\ mConsumers = <<>> \/ \E S \in SUBSET Producers : mConsumers = <<S>>
    /\ posted \in Seq({"dispose", "restart", "timer"})
    /\ sleepers \in Nat /\ failures \in Nat
    /\ tasks \subseteq Producers
    /\ toServer \in Seq(Messages) /\ toClient \in Seq(Messages)
    /\ used \subseteq Calls /\ srvProducers \subseteq Producers
    /\ mishaps \subseteq Mishaps

Init ==
    /\ active = NoCall
    /\ isAlreadyStarted = FALSE /\ CALL_ID = NoCall
    /\ device = "new" /\ factory = FALSE /\ rootEgl = FALSE
    /\ sendT = NoCall /\ recvT = NoCall /\ recvVideoT = NoCall
    /\ createWebRtcTransport = NoCall
    /\ recAdded = FALSE /\ recVideoAdded = FALSE /\ streamsAdded = FALSE
    /\ addAudio = FALSE /\ mic = FALSE /\ sending = NoCall
    /\ mConsumers = <<{}>>
    /\ posted = <<>> /\ timer = FALSE /\ sleepers = 0 /\ tasks = {}
    /\ toServer = <<>> /\ toClient = <<>>
    /\ joined = NoCall /\ live = NoCall /\ used = {} /\ srvProducers = {}
    /\ failures = 0 /\ mishaps = {}

-----------------------------------------------------------------------------
(* Helpers.                                                                *)

Emit(m) == toServer' = Append(toServer, m)
Alive == device # "crashed"

Note(what, cond) == mishaps' = IF cond THEN mishaps \cup {what} ELSE mishaps

\* createReciverTransport: both receive transports are asked for.
ReceiverRequests == <<Plain("RECV", NoCall), Plain("RECV_VIDEO", NoCall)>>

\* createWebRtcTransPort.
AskTransports(nc, peer) ==
    toServer' =
        IF isAlreadyStarted
          THEN toServer \o <<Msg("SEND", NoCall, nc, peer, {})>> \o ReceiverRequests
          ELSE toServer

\* Mutant of Initialize: every room gets a device of its own.
InitializeNewDevice(c, nc) ==
    /\ CALL_ID' = c /\ isAlreadyStarted' = TRUE
    /\ device' = "new"
    /\ recAdded' = FALSE /\ recVideoAdded' = FALSE
    /\ addAudio' = TRUE
    /\ mConsumers' = <<{}>>
    /\ Emit(Msg("JOIN", c, nc, FALSE, {}))

\* initialize.
Initialize(c, nc) ==
    /\ CALL_ID' = c /\ isAlreadyStarted' = TRUE
    /\ device' = IF device = "none" THEN "new" ELSE device
    /\ recAdded' = FALSE /\ recVideoAdded' = FALSE
    /\ addAudio' = TRUE
    /\ mConsumers' = <<{}>>
    /\ Emit(Msg("JOIN", c, nc, FALSE, {}))

\* release, but for what it posts.
Release(disposal) ==
    /\ isAlreadyStarted' = FALSE
    /\ recAdded' = FALSE /\ recVideoAdded' = FALSE
    /\ createWebRtcTransport' = NoCall
    /\ timer' = FALSE
    /\ posted' = Append(posted, disposal)
    /\ UNCHANGED <<CALL_ID, addAudio>>

RestartPosted == \E i \in DOMAIN posted : posted[i] = "restart"

ReleaseIfStarted ==
    IF isAlreadyStarted THEN Release("dispose") /\ UNCHANGED mishaps
    ELSE /\ Note("overtaken", RestartPosted)
         /\ UNCHANGED <<room, createWebRtcTransport, timer, posted>>

\* Mutant of ProduceOn: nobody waits for the receive transports.
ProduceWithoutWaiting(t) ==
    /\ sendT' = t
    /\ rootEgl' = TRUE /\ factory' = TRUE
    /\ mic' = (mic \/ addAudio)
    /\ sending' = IF addAudio THEN t ELSE sending
    /\ streamsAdded' = TRUE
    /\ IF recvT # NoCall /\ recvVideoT # NoCall
         THEN Emit(Plain("GET_PRODUCERS", NoCall)) ELSE UNCHANGED toServer
    /\ UNCHANGED sleepers

\* peerConnectionAndStream on the send transport of room t: the microphone is
\* enabled and produced, then the producers of the others are asked for.
ProduceOn(t) ==
    /\ sendT' = t
    /\ rootEgl' = TRUE /\ factory' = TRUE
    /\ mic' = (mic \/ addAudio)
    /\ sending' = IF addAudio THEN t ELSE sending
    /\ streamsAdded' = TRUE
    /\ IF recvT # NoCall /\ recvVideoT # NoCall
         THEN Emit(Plain("GET_PRODUCERS", NoCall)) /\ UNCHANGED sleepers
         ELSE sleepers' = sleepers + 1 /\ UNCHANGED toServer

\* createProducerTransport and peerConnectionAndStream call each other for
\* ever: a device that is not loaded gives no send transport.
Overflow ==
    /\ device' = "crashed"
    /\ UNCHANGED <<streams, toServer, sleepers>>

-----------------------------------------------------------------------------
(* The main thread.                                                        *)

\* What the app asks for while the process lives; of each request, and of its
\* answer, MaxRequests are in flight.
InFlight(ops) ==
    LET two == toServer \o toClient IN
    Cardinality({i \in DOMAIN two : two[i].op \in ops /\ (two[i].op = "SEND" => two[i].peer)})

May(ops) == Alive /\ InFlight(ops) < MaxRequests

\* addCallStreams; the app asks for it during a call.
AddCallStreams ==
    /\ May({"GET_PRODUCERS", "PRODUCERS", "SEND"}) /\ sleepers < MaxSleepers
    /\ active # NoCall /\ ~mic /\ device = "loaded"
    /\ \/ sendT # NoCall /\ ProduceOn(sendT)
       \/ /\ sendT = NoCall /\ createWebRtcTransport # NoCall
          /\ ProduceOn(createWebRtcTransport)
       \/ /\ sendT = NoCall /\ createWebRtcTransport = NoCall
          /\ AskTransports(FALSE, TRUE)
          /\ rootEgl' = TRUE
          /\ UNCHANGED <<factory, sendT, mic, sending, streamsAdded, sleepers>>
    /\ UNCHANGED <<active, room, device, receivers, createWebRtcTransport,
                   mConsumers, posted, timer, tasks, toClient, server, history>>

\* endCall, rejectCall.
HangUp ==
    /\ May({"HANG_UP"}) /\ (active # NoCall \/ isAlreadyStarted)
    /\ IF active # NoCall THEN Emit(Plain("HANG_UP", active)) ELSE UNCHANGED toServer
    /\ ReleaseIfStarted
    /\ UNCHANGED <<active, device, streams, receivers, mConsumers, sleepers,
                   tasks, toClient, server, failures>>

\* onFinish of the ICE timer.
TimerFires ==
    /\ Alive /\ timer
    /\ IF isAlreadyStarted THEN Release("restart")
       ELSE timer' = FALSE /\ UNCHANGED <<room, createWebRtcTransport, posted>>
    /\ UNCHANGED <<active, device, streams, receivers, mConsumers, sleepers,
                   tasks, toServer, toClient, server, history>>

\* Mutant of DropTransports: the send transport is kept.
DropReceiversOnly ==
    /\ recvT' = NoCall /\ recvVideoT' = NoCall /\ UNCHANGED sendT

\* What both disposals do: the transports and the consumers go.
DropTransports ==
    /\ sendT' = NoCall /\ recvT' = NoCall /\ recvVideoT' = NoCall

DropConsumers == IF mConsumers \in {<<>>, <<{}>>} THEN mConsumers ELSE <<>>

\* Mutant of Dispose: the audio track is not disposed of.
DisposeKeepsTrack ==
    /\ Head(posted) = "dispose"
    /\ sending' = NoCall /\ streamsAdded' = FALSE /\ addAudio' = FALSE
    /\ DropTransports
    /\ mConsumers' = DropConsumers
    /\ device' = IF rootEgl THEN "none" ELSE device
    /\ factory' = FALSE /\ rootEgl' = FALSE
    /\ Note("swept", isAlreadyStarted \/ RestartPosted)
    /\ UNCHANGED <<mic, isAlreadyStarted, CALL_ID, recAdded, recVideoAdded, timer,
                   toServer>>

\* Posted by release(false).  The device goes only with the root of the
\* surfaces, which the first send transport brings.
Dispose ==
    /\ Head(posted) = "dispose"
    /\ mic' = FALSE /\ sending' = NoCall
    /\ streamsAdded' = FALSE /\ addAudio' = FALSE
    /\ DropTransports
    /\ mConsumers' = DropConsumers
    /\ device' = IF rootEgl THEN "none" ELSE device
    /\ factory' = FALSE /\ rootEgl' = FALSE
    /\ Note("swept", isAlreadyStarted \/ RestartPosted)
    /\ UNCHANGED <<isAlreadyStarted, CALL_ID, recAdded, recVideoAdded, timer, toServer>>

\* Mutant of Restart: the room is opened as if for the first time.
RestartAsNew ==
    /\ Head(posted) = "restart"
    /\ DropTransports
    /\ sending' = NoCall
    /\ Initialize(CALL_ID, FALSE)
    /\ UNCHANGED <<factory, rootEgl, mic, streamsAdded, timer, mishaps>>

\* Posted by release(true): the room is opened again, whichever it is now.
Restart ==
    /\ Head(posted) = "restart"
    /\ DropTransports
    /\ sending' = NoCall
    /\ Initialize(CALL_ID, TRUE)
    /\ UNCHANGED <<factory, rootEgl, mic, streamsAdded, timer, mishaps>>

\* Posted by onConnectionStateChange: setTheTimer.
SetTheTimer ==
    /\ Head(posted) = "timer"
    /\ timer' = TRUE
    /\ UNCHANGED <<room, device, streams, receivers, mConsumers, toServer, mishaps>>

RunPosted ==
    /\ Alive /\ posted # <<>>
    /\ posted' = Tail(posted)
    /\ Dispose \/ Restart \/ SetTheTimer
    /\ UNCHANGED <<active, createWebRtcTransport, sleepers, tasks, toClient,
                   server, failures>>

-----------------------------------------------------------------------------
(* Other threads.                                                          *)

\* onConnectionStateChange of the send transport: "failed", and anything else.
TransportFails ==
    /\ Alive /\ sendT # NoCall /\ failures < MaxFailures
    /\ failures' = failures + 1
    /\ posted' = Append(posted, "timer")
    /\ UNCHANGED <<active, room, device, streams, receivers,
                   createWebRtcTransport, mConsumers, timer, sleepers, tasks,
                   toServer, toClient, server, mishaps>>

TransportRecovers ==
    /\ Alive /\ sendT # NoCall /\ timer
    /\ timer' = FALSE
    /\ UNCHANGED <<active, room, device, streams, receivers,
                   createWebRtcTransport, mConsumers, posted, sleepers, tasks,
                   toServer, toClient, server, history>>

\* Mutant of WakeUp: the thread asks again and again.
WakeUpForEver ==
    /\ Alive
    /\ sleepers' = sleepers - 1
    /\ Emit(Plain("GET_PRODUCERS", NoCall))
    /\ UNCHANGED <<active, room, device, streams, receivers,
                   createWebRtcTransport, mConsumers, posted, timer, tasks,
                   toClient, server, history>>

\* Two seconds after the streams were added.
WakeUp ==
    /\ Alive /\ sleepers > 0
    /\ sleepers' = sleepers - 1
    /\ Emit(Plain("GET_PRODUCERS", NoCall))
    /\ UNCHANGED <<active, room, device, streams, receivers,
                   createWebRtcTransport, mConsumers, posted, timer, tasks,
                   toClient, server, history>>

\* ConsumerCreate.doInBackground.
RunTask(p) ==
    /\ Alive /\ p \in tasks
    /\ tasks' = tasks \ {p}
    /\ IF recvT # NoCall /\ device = "loaded"
         THEN Emit(Msg("CONSUME", NoCall, FALSE, FALSE, {p}))
         ELSE UNCHANGED toServer
    /\ UNCHANGED <<active, room, device, streams, receivers,
                   createWebRtcTransport, mConsumers, posted, timer, sleepers,
                   toClient, server, history>>

-----------------------------------------------------------------------------
(* The event thread: Acks and events.                                      *)

\* callSocketOnCallRequest.
OnStart(m) ==
    /\ m.op = "START"
    /\ active' = m.call
    /\ IF isAlreadyStarted THEN UNCHANGED <<room, device, mConsumers, toServer>>
       ELSE Initialize(m.call, FALSE)
    /\ UNCHANGED <<streams, receivers, createWebRtcTransport, posted, timer,
                   sleepers, tasks, history>>

\* The Ack of initiateCall: an open room is released and opened again.
InitiateAck(m) ==
    /\ m.op = "STARTED"
    /\ active' = m.call
    /\ Initialize(m.call, FALSE)
    /\ IF isAlreadyStarted
         THEN /\ createWebRtcTransport' = NoCall /\ timer' = FALSE
              /\ posted' = Append(posted, "dispose")
         ELSE UNCHANGED <<createWebRtcTransport, timer, posted>>
    /\ UNCHANGED <<streams, receivers, sleepers, tasks, history>>

\* Mutant of OnEnd: the room is left open.
OnEndOnly(m) ==
    /\ m.op = "END"
    /\ active' = IF m.call = active THEN NoCall ELSE active
    /\ UNCHANGED <<room, createWebRtcTransport, timer, posted, device, streams,
                   receivers, mConsumers, sleepers, tasks, toServer, history>>

\* callSocketOnEndCall and the like, for the active call.
OnEnd(m) ==
    /\ m.op = "END"
    /\ IF m.call = active
         THEN active' = NoCall /\ ReleaseIfStarted
         ELSE UNCHANGED <<active, room, createWebRtcTransport, timer, posted, mishaps>>
    /\ UNCHANGED <<device, streams, receivers, mConsumers, sleepers, tasks,
                   toServer, failures>>

HangUpAck(m) ==
    /\ m.op = "HANG_UP"
    /\ active' = NoCall
    /\ Note("crossed", active \notin {m.call, NoCall})
    /\ UNCHANGED <<room, device, streams, receivers, createWebRtcTransport,
                   mConsumers, posted, timer, sleepers, tasks, toServer,
                   failures>>

\* initialize's Ack asks for the capabilities; with them, in
\* getRtpCapability's Ack, the device is loaded.
JoinAck(m) ==
    /\ m.op = "JOIN"
    /\ Emit(Msg("CAPS", NoCall, m.nc, FALSE, {}))
    /\ UNCHANGED <<active, room, device, streams, receivers,
                   createWebRtcTransport, mConsumers, posted, timer, sleepers,
                   tasks, history>>

\* Mutant of CapsAck: only a device that was disposed of is loaded again.
CapsAckNoLoad(m) ==
    /\ m.op = "CAPS"
    /\ device' = IF device = "new" /\ m.nc THEN "loaded" ELSE device
    /\ AskTransports(m.nc, FALSE)
    /\ UNCHANGED <<active, room, streams, receivers, createWebRtcTransport,
                   mConsumers, posted, timer, sleepers, tasks, history>>

CapsAck(m) ==
    /\ m.op = "CAPS"
    /\ device' = IF device = "new" THEN "loaded" ELSE device
    /\ AskTransports(m.nc, FALSE)
    /\ UNCHANGED <<active, room, streams, receivers, createWebRtcTransport,
                   mConsumers, posted, timer, sleepers, tasks, history>>

Late(m) == ~isAlreadyStarted \/ m.call # CALL_ID

\* createWebRtcTransPort's Ack: createProducerTransport, and for a room that
\* was opened again or streams that were asked for, peerConnectionAndStream.
SendAck(m) ==
    /\ m.op = "SEND"
    /\ createWebRtcTransport' = m.call
    /\ LET t == IF device = "loaded" THEN m.call ELSE sendT
           produce == m.nc \/ (m.peer /\ device # "none")
       IN  \/ /\ produce /\ t # NoCall
              /\ ProduceOn(t) /\ UNCHANGED device
           \/ produce /\ t = NoCall /\ device = "new" /\ Overflow
           \/ /\ ~produce \/ (t = NoCall /\ device = "none")
              /\ rootEgl' = TRUE /\ sendT' = t
              /\ UNCHANGED <<device, factory, mic, sending, streamsAdded,
                             toServer, sleepers>>
    /\ Note("late", Late(m))
    /\ UNCHANGED <<active, room, receivers, mConsumers, posted, timer, tasks,
                   failures>>

\* createReciverTransport's Ack, createVideoReciverTransport's Ack.  A device
\* that is not loaded throws.
RecvAck(m) ==
    /\ m.op = "RECV"
    /\ IF device = "loaded" THEN recvT' = m.call /\ recAdded' = TRUE
       ELSE UNCHANGED <<recvT, recAdded>>
    /\ Note("late", Late(m))
    /\ UNCHANGED <<active, isAlreadyStarted, CALL_ID, recVideoAdded, addAudio,
                   device, streams, recvVideoT, createWebRtcTransport,
                   mConsumers, posted, timer, sleepers, tasks, toServer, failures>>

RecvVideoAck(m) ==
    /\ m.op = "RECV_VIDEO"
    /\ createWebRtcTransport' = m.call
    /\ IF device = "loaded" THEN recvVideoT' = m.call /\ recVideoAdded' = TRUE
       ELSE UNCHANGED <<recvVideoT, recVideoAdded>>
    /\ Note("late", Late(m))
    /\ UNCHANGED <<active, isAlreadyStarted, CALL_ID, recAdded, addAudio,
                   device, streams, recvT, mConsumers, posted, timer, sleepers,
                   tasks, toServer, failures>>

\* newProducer: dropped until the transports and the streams are there; an
\* empty list is asked for again.
OnProducers(m) ==
    /\ m.op = "PRODUCERS"
    /\ IF isAlreadyStarted /\ recAdded /\ recVideoAdded /\ streamsAdded
         THEN /\ tasks' = tasks \cup m.prods
              /\ IF m.prods = {} THEN Emit(Plain("GET_PRODUCERS", NoCall))
                 ELSE UNCHANGED toServer
         ELSE UNCHANGED <<tasks, toServer>>
    /\ UNCHANGED <<active, room, device, streams, receivers,
                   createWebRtcTransport, mConsumers, posted, timer, sleepers,
                   history>>

\* createConsumer: audioConsume, videoConsumed.
ConsumeAck(m) ==
    /\ m.op = "CONSUME"
    /\ \E p \in m.prods :
          LET t == IF p[2] = "audio" THEN recvT ELSE recvVideoT
              again == IF p[2] = "audio" THEN ReceiverRequests
                       ELSE Tail(ReceiverRequests)
          IN  IF t = NoCall
                THEN /\ toServer' = IF isAlreadyStarted THEN toServer \o again
                                    ELSE toServer
                     /\ UNCHANGED mConsumers
                ELSE /\ mConsumers' = IF mConsumers = <<>> THEN <<>>
                                      ELSE <<mConsumers[1] \cup {p}>>
                     /\ UNCHANGED toServer
    /\ UNCHANGED <<active, room, device, streams, receivers,
                   createWebRtcTransport, posted, timer, sleepers, tasks, history>>

Receive ==
    /\ Alive /\ toClient # <<>>
    /\ toClient' = Tail(toClient)
    /\ LET m == Head(toClient) IN
         \/ OnStart(m) \/ InitiateAck(m) \/ OnEnd(m) \/ HangUpAck(m) \/ JoinAck(m)
         \/ CapsAck(m) \/ SendAck(m) \/ RecvAck(m) \/ RecvVideoAck(m)
         \/ OnProducers(m) \/ ConsumeAck(m)
    /\ UNCHANGED server

-----------------------------------------------------------------------------
(* The server (external).  It answers in order; transports belong to the   *)
(* room the device has joined.                                             *)

client == <<active, room, device, streams, receivers, createWebRtcTransport,
            mConsumers, posted, timer, sleepers, tasks, history>>
Push(m) == toClient' = Append(toClient, m)

Serve(m) ==
    \/ /\ m.op = "JOIN"
       /\ joined' = m.call
       /\ Push(m)
       /\ UNCHANGED <<live, used, srvProducers>>
    \/ /\ m.op \in {"CAPS", "SEND", "RECV", "RECV_VIDEO"}
       /\ Push([m EXCEPT !.call = joined])
       /\ UNCHANGED server
    \/ /\ m.op = "GET_PRODUCERS"
       /\ LET P == {p \in srvProducers : p[1] = joined} IN
            IF P # {} \/ EmptyLists
              THEN Push(Msg("PRODUCERS", joined, FALSE, FALSE, P))
              ELSE UNCHANGED toClient
       /\ UNCHANGED server
    \/ /\ m.op = "CONSUME"
       /\ IF m.prods \subseteq srvProducers THEN Push(m) ELSE UNCHANGED toClient
       /\ UNCHANGED server
    \/ /\ m.op = "HANG_UP"
       /\ live' = IF live = m.call THEN NoCall ELSE live
       /\ srvProducers' = {p \in srvProducers : p[1] # m.call}
       /\ Push(m)
       /\ UNCHANGED <<joined, used>>

ServerStep ==
    /\ toServer # <<>>
    /\ toServer' = Tail(toServer)
    /\ Serve(Head(toServer))
    /\ UNCHANGED client

CallBegins(c) ==
    /\ live = NoCall /\ c \notin used
    /\ live' = c /\ used' = used \cup {c}
    /\ \E how \in {"START", "STARTED"} : Push(Plain(how, c))
    /\ UNCHANGED <<joined, srvProducers>>

CallEnds ==
    /\ live # NoCall
    /\ live' = NoCall /\ srvProducers' = {}
    /\ Push(Plain("END", live))
    /\ UNCHANGED <<joined, used>>

OtherProduces(k) ==
    /\ live # NoCall /\ <<live, k>> \notin srvProducers
    /\ srvProducers' = srvProducers \cup {<<live, k>>}
    /\ IF joined = live THEN Push(Msg("PRODUCERS", live, FALSE, FALSE, {<<live, k>>}))
       ELSE UNCHANGED toClient
    /\ UNCHANGED <<joined, live, used>>

Others ==
    /\ CallEnds \/ (\E c \in Calls : CallBegins(c)) \/ (\E k \in Kinds : OtherProduces(k))
    /\ UNCHANGED <<client, toServer>>

-----------------------------------------------------------------------------
MainThread ==
    AddCallStreams \/ HangUp \/ TimerFires \/ RunPosted

Background ==
    \/ TransportFails \/ TransportRecovers \/ WakeUp
    \/ \E p \in Producers : RunTask(p)

Next == MainThread \/ Background \/ Receive \/ ServerStep \/ Others

Spec == Init /\ [][Next]_vars

-----------------------------------------------------------------------------
(* Properties.  They say of what went past what when a mishap excuses them: *)
(* what the code does then is in the README.                               *)

\* Everything sent was handled, and everything posted has run.
Settled ==
    /\ Alive /\ toServer = <<>> /\ toClient = <<>> /\ posted = <<>>
    /\ tasks = {} /\ sleepers = 0 /\ ~timer

Without(M) == mishaps \cap M = {}
DisposalPending == \E i \in DOMAIN posted : posted[i] \in {"dispose", "restart"}
Consumed == IF mConsumers = <<>> THEN {} ELSE mConsumers[1]

\* The microphone is never left on outside a room: release and what it posts,
\* against Acks that still produce (SendAck) and the app (addCallStreams).
NoOrphanMicrophone == mic /\ ~isAlreadyStarted => DisposalPending

\* Whoever produces in the room is consumed once all is quiet, though
\* newProducer drops what is announced before the transports and streams are
\* there: the request after the streams were added makes up for it.
EveryoneIsHeard ==
    Settled /\ isAlreadyStarted /\ streamsAdded /\ Without({"late", "swept"})
        => {p \in srvProducers : p[1] = CALL_ID} \subseteq Consumed

\* A microphone that is on is produced on a transport of the open room, also
\* after another call or a restart of the room, which keeps the track only.
OwnAudioIsSent ==
    Settled /\ isAlreadyStarted /\ mic /\ Without({"late"}) => sending = CALL_ID

\* A room stays open only for the call that is on: it closes with its call,
\* whoever ends it, and is the room of the next call only when that begins.
RoomClosesWithItsCall ==
    Settled /\ isAlreadyStarted /\ Without({"crossed", "overtaken"}) => CALL_ID = live

\* What a user of endCall (TroopMessengerClient.kt:1204, "end the current
\* call") takes for granted, restarts of the room included.
EndedCallsStayClosed ==
    Settled /\ isAlreadyStarted /\ Without({"crossed"}) => CALL_ID = live

\* createProducerTransport and peerConnectionAndStream call each other until
\* there is a send transport: with answers in time there is one.
AnswersInTimeNeverCrash == Without({"late", "swept"}) => Alive

\* An open room ends up with a loaded device: the posted disposal of the room
\* before, which takes the device, has run before the new one was opened.
OpenRoomHasItsDevice ==
    Settled /\ isAlreadyStarted /\ Without({"swept"}) => device = "loaded"

\* Transports of an earlier room are never kept: they are the open room's, or
\* a disposal is on its way.
TransportsServeTheOpenRoom ==
    Without({"late"}) =>
        \A t \in {sendT, recvT, recvVideoT} \ {NoCall} :
            DisposalPending \/ (isAlreadyStarted /\ t = CALL_ID)

=============================================================================
