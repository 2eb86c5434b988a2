---------------------------- MODULE CallFlagsProofs ----------------------------
(***************************************************************************)
(* Theorems about the flags of CallMedia: what the app shows of a          *)
(* participant, what the server tells the others, and what the tracks of   *)
(* the device really do.                                                   *)
(***************************************************************************)
EXTENDS CallMediaProofs

-----------------------------------------------------------------------------
(* The flags of a row.                                                     *)

\* Setting a flag changes that flag, in the first row of that user only.
LEMMA SetRowFlags ==
    ASSUME rows \in [People -> Seq(Info)], NEW u \in People,
           NEW f \in Fields, NEW v \in BOOLEAN, NEW p \in People
    PROVE  /\ SetRow(u, f, v)[p] = <<>> <=> rows[p] = <<>>
           /\ rows[p] # <<>> =>
                 \A g \in Fields :
                    SetRow(u, f, v)[p][1][g]
                      = IF p = u /\ g = f THEN v ELSE rows[p][1][g]
  <1>1. CASE p # u
    <2>1. \A q \in People : q # u => SetRow(u, f, v)[q] = rows[q]
      BY DEF SetRow
    <2> QED
      BY <1>1, <2>1
  <1>2. CASE p = u /\ rows[u] = <<>>
    BY <1>2, SetRowType
  <1>3. CASE p = u /\ rows[u] # <<>>
    <2>1. rows[u][1] \in Info
      BY <1>3, FirstRow, FreshType
    <2>2. SetRow(u, f, v)[u] # <<>> /\ SetRow(u, f, v)[u][1] = [rows[u][1] EXCEPT ![f] = v]
      BY <1>3, SetRowType
    <2> QED
      BY <1>3, <2>1, <2>2 DEF Info
  <1> QED
    BY <1>1, <1>2, <1>3

\* The same of what OnVideoStatus writes.
LEMMA VideoRowsFlags ==
    ASSUME rows \in [People -> Seq(Info)], NEW u \in People, rows[u] # <<>>,
           NEW v \in BOOLEAN, NEW p \in People
    PROVE  /\ VideoRows(u, v)[p] = <<>> <=> rows[p] = <<>>
           /\ rows[p] # <<>> =>
                 \A g \in Kinds : IF p = u /\ g = "video"
                                  THEN ~VideoRows(u, v)[p][1][g]
                                  ELSE VideoRows(u, v)[p][1][g] = rows[p][1][g]
  <1>1. CASE p # u
    <2>1. \A q \in People : q # u => VideoRows(u, v)[q] = rows[q]
      BY VideoRowsType
    <2> QED
      BY <1>1, <2>1
  <1>2. CASE p = u
    <2>1. rows[u][1] \in Info
      BY FirstRow, FreshType
    <2>2. /\ VideoRows(u, v)[u] # <<>>
          /\ VideoRows(u, v)[u][1]
               = [rows[u][1] EXCEPT !["active"] = v, !["video"] = FALSE]
      BY VideoRowsType
    <2> QED
      BY <1>2, <2>1, <2>2 DEF Info, Fields, Kinds
  <1> QED
    BY <1>1, <1>2

-----------------------------------------------------------------------------
(* The device that shows itself as muted.                                  *)

\* The events about a user that an event of the device could be taken for.
OthersOps == {"MUTE", "VIDEO_STATUS", "NEW_PARTICIPANT", "LEAVE_CALL", "REMOVE_USER"}
EventsOfOthers ==
    \A i \in DOMAIN toClient :
        toClient[i].op \in OthersOps => toClient[i].user \in Users

\* The own row says muted only while the microphone is off: the device writes
\* both together, and a host's mute that finds no track is noted in skewed.
OwnRowHonest ==
    inCall /\ "audio" \notin skewed /\ rows[Self] # <<>> /\ rows[Self][1]["audio"]
        => mic = "off"

\* What is pushed is an event of somebody else, or about any participant.
LEMMA EventsStep == TypeOK /\ KnownInv /\ EventsOfOthers /\ [Next]_vars => EventsOfOthers'
  <1> SUFFICES ASSUME TypeOK, KnownInv, EventsOfOthers, [Next]_vars
               PROVE  EventsOfOthers'
    OBVIOUS
  <1> USE DEF EventsOfOthers
  <1>1. toClient \in Seq(Received) /\ toServer \in Seq(Messages)
    BY QueueTypes
  <1>2. CASE UNCHANGED toClient
    BY <1>2
  <1>3. CASE toClient # <<>> /\ toClient' = Tail(toClient)
    BY <1>1, <1>3, TakenQueue
  <1>4. ASSUME NEW m \in Received, toClient' = Append(toClient, m),
               m.op \in OthersOps => m.user \in Users
        PROVE  EventsOfOthers'
    <2>1. \A i \in DOMAIN toClient' : \/ i \in DOMAIN toClient /\ toClient'[i] = toClient[i]
                                      \/ toClient'[i] = m
      BY <1>1, <1>4, GrownQueue
    <2> QED
      BY <1>4, <2>1
  <1>5. CASE ServerStep
    <2> DEFINE m == Head(toServer)
    <2>1. toServer # <<>> /\ Serve(m)
      BY <1>5 DEF ServerStep
    <2>2. m \in Messages /\ m \in Received
      BY <1>1, <2>1, TakenQueue DEF Received
    <2> HIDE DEF m
    <2>3. CASE m.op = "HOST_MUTE" /\ Push(m)
      BY <1>4, <2>2, <2>3 DEF Push, OthersOps
    <2>4. CASE Push(Snapshot([u \in members |-> srv[u]]))
      <3> DEFINE r == Snapshot([u \in members |-> srv[u]])
      <3>1. [u \in members |-> srv[u]] \in DataOf
        BY DataIs DEF TypeOK
      <3>2. r \in Received /\ r.op = "DATA" /\ toClient' = Append(toClient, r)
        BY <2>4, <3>1 DEF Snapshot, Received, Push
      <3> HIDE DEF r
      <3> QED
        BY <1>4, <3>2 DEF OthersOps
    <2> QED
      BY <1>2, <2>1, <2>3, <2>4 DEF Serve
  <1>6. CASE Others
    <2>1. PICK m \in Messages : Push(m) /\ Told(m)
      BY <1>6, OthersTell
    <2>2. m \in Received /\ (m.op \in OthersOps => m.user \in Users)
      BY <2>1, SelfAssumption DEF Told, Received, OthersOps, TypeOK, People
    <2> QED
      BY <1>4, <2>1, <2>2 DEF Push
  <1>7. CASE Operation
    BY <1>2, <1>7, OperationKnows
  <1>8. CASE Receive
    BY <1>3, <1>8, ReceiveKnows
  <1>9. CASE UNCHANGED vars
    BY <1>2, <1>9 DEF vars
  <1> QED
    BY <1>5, <1>6, <1>7, <1>8, <1>9 DEF Next

\* The operations write the own row and the microphone together.
LEMMA OwnRowOperation == TypeOK /\ OwnRowHonest /\ Operation => OwnRowHonest'
  <1> SUFFICES ASSUME TypeOK, OwnRowHonest, Operation
               PROVE  OwnRowHonest'
    OBVIOUS
  <1> USE DEF media, tables, May, OwnRowHonest
  <1>1. /\ rows \in [People -> Seq(Info)] /\ Self \in People /\ Users \subseteq People
        /\ {"audio", "video", "active"} \subseteq Fields /\ "audio" # "active"
        /\ mic \in {"none", "on", "off"} /\ Kinds = {"audio", "video"}
    BY DEF TypeOK, People, Fields, Kinds
  <1>2. ASSUME NEW u \in Users, NEW f \in Fields, NEW v \in BOOLEAN
        PROVE  SetRow(u, f, v)[Self] = rows[Self]
    <2>1. \A q \in People : q # u => SetRow(u, f, v)[q] = rows[q]
      BY <1>1 DEF SetRow
    <2> QED
      BY <1>1, <2>1, SelfAssumption
  <1>3. ASSUME NEW f \in Fields, NEW v \in BOOLEAN
        PROVE  /\ SetRow(Self, f, v)[Self] = <<>> <=> rows[Self] = <<>>
               /\ rows[Self] # <<>> => SetRow(Self, f, v)[Self][1]["audio"]
                                         = IF f = "audio" THEN v ELSE rows[Self][1]["audio"]
    BY <1>1, SetRowFlags
  <1>4. CASE AddStreams \/ Dispose \/ AskForData
    BY <1>4 DEF AddStreams, Dispose, AskForData
  <1>5. ASSUME SwitchToVideoCall
        PROVE  OwnRowHonest'
    <2>1. CASE AskForVideo /\ UNCHANGED inCall
      BY <1>1, <1>3, <2>1 DEF AskForVideo
    <2>2. CASE StartVideo /\ UNCHANGED inCall
      BY <2>2 DEF StartVideo
    <2>3. CASE NoDataToSwitch
      BY <2>3 DEF NoDataToSwitch, Crash
    <2> QED
      BY <1>5, <2>1, <2>2, <2>3 DEF SwitchToVideoCall
  <1>6. ASSUME NEW kind \in Kinds, UnMuteMyTrack(kind)
        PROVE  OwnRowHonest'
    <2>1. CASE Unmute(kind)
      <3>1. rows' = SetRow(Self, kind, FALSE) /\ kind \in Fields
        BY <1>1, <2>1 DEF Unmute, SetBoth
      <3> QED
        BY <1>1, <1>3, <2>1, <3>1 DEF Unmute
    <2> QED
      BY <1>6, <2>1 DEF UnMuteMyTrack, Crash
  <1>7. ASSUME NEW kind \in Kinds, MuteMyTrack(kind)
        PROVE  OwnRowHonest'
    <2>1. CASE Mute(kind)
      <3>1. rows' = SetRow(Self, kind, TRUE) /\ kind \in Fields
        BY <1>1, <2>1 DEF Mute, SetBoth
      <3> QED
        BY <1>1, <1>3, <2>1, <3>1 DEF Mute, SetTrack
    <2> QED
      BY <1>5, <1>6, <1>7, <2>1 DEF MuteMyTrack, Crash
  <1>8. ASSUME NEW u \in Users, NEW kind \in Kinds, HostMute(u, kind)
        PROVE  OwnRowHonest'
    <2>1. SetRow(u, kind, TRUE)[Self] = rows[Self]
      BY <1>1, <1>2
    <2>2. rows' = rows \/ rows' = SetRow(u, kind, TRUE)
      BY <1>8 DEF HostMute, SetKnown, SetBoth
    <2> QED
      BY <1>8, <2>1, <2>2 DEF HostMute
  <1>9. ASSUME NEW u \in Users, RemoveUser(u)
        PROVE  OwnRowHonest'
    <2>1. rows'[Self] = rows[Self]
      BY <1>1, <1>9, SelfAssumption DEF RemoveUser, DropRow
    <2> QED
      BY <1>9, <2>1 DEF RemoveUser
  <1> QED
    BY <1>4, <1>5, <1>6, <1>7, <1>8, <1>9 DEF Operation

\* The handlers write the own row for a host's mute, which takes the track too.
LEMMA OwnRowReceive ==
    TypeOK /\ EventsOfOthers /\ OwnRowHonest /\ Receive => OwnRowHonest'
  <1> SUFFICES ASSUME TypeOK, EventsOfOthers, OwnRowHonest, Receive
               PROVE  OwnRowHonest'
    OBVIOUS
  <1> DEFINE m == Head(toClient)
  <1>1. toClient # <<>>
    BY DEF Receive
  <1>2. /\ m.op # "DATA" => /\ m.op \in Ops /\ m.user \in People
                            /\ m.field \in Fields /\ m.val \in BOOLEAN
        /\ m.op \in {"MUTE", "HOST_MUTE"} => m.field \in Kinds
    BY <1>1, HeadType
  <1>3. m.op \in OthersOps => m.user \in Users
    BY <1>1, QueueTypes, TakenQueue DEF EventsOfOthers
  <1> USE DEF media, tables, OwnRowHonest
  <1>4. /\ rows \in [People -> Seq(Info)] /\ Self \in People /\ Users \subseteq People
        /\ {"audio", "video", "active", "left"} \subseteq Fields
        /\ mic \in {"none", "on", "off"} /\ Kinds = {"audio", "video"}
    BY DEF TypeOK, People, Fields, Kinds
  <1>5. ASSUME NEW u \in People, NEW f \in Fields, NEW v \in BOOLEAN,
               u \in Users \/ f # "audio"
        PROVE  /\ SetRow(u, f, v)[Self] = <<>> <=> rows[Self] = <<>>
               /\ rows[Self] # <<>> =>
                     SetRow(u, f, v)[Self][1]["audio"] = rows[Self][1]["audio"]
    BY <1>4, <1>5, SetRowFlags, SelfAssumption
  <1> HIDE DEF m
  <1>10. CASE UNCHANGED <<rows, media, inCall>>
    BY <1>10
  <1>11. CASE OnMuteCall(m)
    BY <1>2, <1>3, <1>5, <1>11, SelfAssumption DEF OnMuteCall, SetBoth, OthersOps
  <1>12. CASE OnHostMute(m)
    <2>1. m.user \in People /\ m.field \in Fields /\ m.field \in Kinds /\ m.val \in BOOLEAN
      BY <1>2, <1>4, <1>12 DEF OnHostMute, Kinds, Fields
    <2>2. CASE rows' = rows
      BY <1>12, <2>2 DEF OnHostMute, SetTrack
    <2>3. CASE rows' = SetRow(m.user, m.field, m.val) /\ (m.user # Self \/ m.field # "audio")
      <3>1. /\ rows'[Self] = <<>> <=> rows[Self] = <<>>
            /\ rows[Self] # <<>> => rows'[Self][1]["audio"] = rows[Self][1]["audio"]
        BY <1>5, <2>1, <2>3 DEF People
      <3>2. mic' = mic /\ ("audio" \in skewed' <=> "audio" \in skewed) /\ inCall' = inCall
        BY <1>12, <2>1, <2>3 DEF OnHostMute, SetTrack, Kinds
      <3> QED
        BY <3>1, <3>2
    <2>4. CASE m.user = Self /\ m.field = "audio"
      BY <1>4, <1>12, <2>2, <2>4 DEF OnHostMute, SetTrack, Track
    <2> QED
      BY <1>12, <2>2, <2>3, <2>4 DEF OnHostMute
  <1>13. CASE OnStreamRequest(m)
    <2>1. m.user \in People
      BY <1>2, <1>13 DEF OnStreamRequest
    <2> QED
      BY <1>4, <1>5, <1>13, <2>1 DEF OnStreamRequest
  <1>14. CASE OnVideoStatus(m)
    <2>1. m.user \in Users /\ m.user \in People /\ m.val \in BOOLEAN
      BY <1>2, <1>3, <1>14 DEF OnVideoStatus, OthersOps
    <2>2. rows' = rows \/ (rows[m.user] # <<>> /\ rows' = VideoRows(m.user, m.val))
      BY <1>14 DEF OnVideoStatus, VideoRows
    <2>3. rows[m.user] # <<>> =>
              \A q \in People : q # m.user => VideoRows(m.user, m.val)[q] = rows[q]
      BY <1>4, <2>1, VideoRowsType
    <2>4. rows'[Self] = rows[Self]
      BY <1>4, <2>1, <2>2, <2>3, SelfAssumption
    <2> QED
      BY <1>14, <2>4 DEF OnVideoStatus
  <1>15. CASE OnStatus(m)
    BY <1>2, <1>4, <1>5, <1>15 DEF OnStatus, SetKnown, SetBoth
  <1>16. CASE OnNewParticipant(m)
    BY <1>3, <1>4, <1>16, SelfAssumption DEF OnNewParticipant, OthersOps
  <1>17. CASE OnEnd(m)
    BY <1>17 DEF OnEnd
  <1>18. CASE OnData(m)
    BY <1>10, <1>18 DEF OnData
  <1>19. CASE OnRemoval(m)
    BY <1>10, <1>19 DEF OnRemoval
  <1> QED
    BY <1>10, <1>11, <1>12, <1>13, <1>14, <1>15, <1>16, <1>17, <1>18, <1>19 DEF Receive, m

\* At first nobody is muted.
LEMMA InitOwnRow == Init => OwnRowHonest /\ EventsOfOthers
  <1> SUFFICES ASSUME Init
               PROVE  OwnRowHonest /\ EventsOfOthers
    OBVIOUS
  <1>1. PICK S \in SUBSET Users, copies \in {1, 2} :
            rows = [u \in People |-> IF u \in S \cup {Self}
                                       THEN [i \in 1 .. copies |-> Fresh] ELSE <<>>]
    BY SMTT(30) DEF Init
  <1>2. ~Fresh["audio"] /\ Self \in People
    BY DEF Fresh, Fields, Kinds, People
  <1>3. rows[Self][1] = Fresh
    BY <1>1, <1>2
  <1>4. DOMAIN toClient = {}
    BY EmptySeq DEF Init
  <1> QED
    BY <1>2, <1>3, <1>4 DEF OwnRowHonest, EventsOfOthers

LEMMA OwnRowInvariant == Spec => [](TypeOK /\ KnownInv /\ EventsOfOthers /\ OwnRowHonest)
  <1>1. TypeOK /\ EventsOfOthers /\ OwnRowHonest /\ KnownInv /\ [Next]_vars => OwnRowHonest'
    <2> SUFFICES ASSUME TypeOK, EventsOfOthers, OwnRowHonest, KnownInv, [Next]_vars
                 PROVE  OwnRowHonest'
      OBVIOUS
    <2>1. UNCHANGED device => OwnRowHonest'
      BY DEF device, media, tables, OwnRowHonest
    <2>2. ServerStep \/ Others => UNCHANGED device
      BY ServerKnows DEF KnownInv
    <2> QED
      BY <2>1, <2>2, OwnRowOperation, OwnRowReceive DEF Next, vars, device
  <1>2. Init => EventsOfOthers /\ OwnRowHonest
    BY InitOwnRow
  <1>3. TypeOK /\ KnownInv /\ EventsOfOthers /\ [Next]_vars => EventsOfOthers'
    BY EventsStep
  <1> QED
    BY <1>1, <1>2, <1>3, KnownInvariant, PTL DEF Spec

\* The device whose row in the app shows it as muted cannot be heard, whatever
\* mutes of hosts cross its own; but see skewed.
THEOREM MutedIsSilent == Spec => []OwnRowTellsTheTruth
  <1>1. OwnRowHonest => OwnRowTellsTheTruth
    BY DEF OwnRowHonest, OwnRowTellsTheTruth, Settled
  <1> QED
    BY <1>1, OwnRowInvariant, PTL

-----------------------------------------------------------------------------
(* The tracks of the device, and what the server is told of them.          *)

\* The messages about a flag of a user, and the value they give it.
SetsOwn(kind) ==
    {m \in Messages : \/ m.op = "MUTE" /\ m.field = kind
                      \/ m.op = "VIDEO_STATUS" /\ kind = "video"}
Announces ==
    {m \in Messages : m.op = "VIDEO_STATUS" \/ (m.op = "STREAM_REQUEST" /\ m.val)}
HostMutesOf(u, kind) ==
    {m \in Messages : m.op = "HOST_MUTE" /\ m.user = u /\ m.field = kind}
Ends == {m \in Messages : m.op = "END_CALL"}
Says(m) == m.op # "VIDEO_STATUS" /\ m.val

\* The server has, or will have once it has taken the requests, the flag of
\* the device's own track down.
Requested(kind) ==
    /\ \A m : Latest(toServer, SetsOwn(kind), m) => ~Says(m)
    /\ Absent(toServer, SetsOwn(kind)) => ~srv[Self][kind]

\* So it is for a track that is on, or could be brought up, until a host's mute
\* arrives.
TrackTold(kind) ==
    /\ kind \notin skewed /\ Track(kind) # "off"
    /\ Absent(toClient, HostMutesOf(Self, kind))
    => Requested(kind)

\* Whoever sends video, or is about to, has said so.
VideoTold ==
    cam # "none" \/ addVideo => srv[Self]["active"] \/ ~Absent(toServer, Announces)

\* The camera is not there before the microphone.
CamNeedsMic == mic = "none" => cam = "none"

InTheCall == inCall /\ crashed = "no" /\ Self \in members
TracksTold ==
    InTheCall => VideoTold /\ CamNeedsMic /\ \A kind \in Kinds : TrackTold(kind)

\* The call goes on at the server, or the device is being told of its end.
EndIsComing == inCall /\ Self \notin members => ~Absent(toClient, Ends)

TracksInv == TracksTold /\ EndIsComing

\* At first no track is there.
LEMMA InitTracks == Init => TracksInv
  <1> SUFFICES ASSUME Init
               PROVE  TracksInv
    OBVIOUS
  <1>1. /\ mic = "none" /\ cam = "none" /\ addVideo = VideoCall
        /\ srv = [u \in People |-> Fresh] /\ Self \in members
        /\ toServer = <<>>
    BY DEF Init
  <1>2. (srv[Self]["active"] <=> VideoCall) /\ \A kind \in Kinds : ~srv[Self][kind]
    <2>1. (Fresh["active"] <=> VideoCall) /\ \A kind \in Kinds : ~Fresh[kind]
      BY DEF Fresh, Fields, Kinds
    <2> QED
      BY <1>1, <2>1 DEF People
  <1>3. \A kind \in Kinds : TrackTold(kind)
    BY <1>1, <1>2, NothingAbsent DEF TrackTold, Requested
  <1> QED
    BY <1>1, <1>2, <1>3 DEF TracksInv, TracksTold, VideoTold, CamNeedsMic, EndIsComing

\* What setting a flag at the server changes.
LEMMA SetSrvFlags ==
    ASSUME srv \in [People -> Info], NEW u \in People, NEW f \in Fields,
           NEW v \in BOOLEAN, SetSrv(u, f, v), NEW p \in People, NEW g \in Fields
    PROVE  srv'[p][g] = IF p = u /\ g = f THEN v ELSE srv[p][g]
  BY DEF SetSrv, Info

LEMMA VideoSrvFlags ==
    ASSUME srv \in [People -> Info], NEW u \in People,
           srv' = [srv EXCEPT ![u]["active"] = TRUE, ![u]["video"] = FALSE],
           NEW p \in People, NEW g \in Fields
    PROVE  srv'[p][g] = IF p = u /\ g = "active" THEN TRUE
                        ELSE IF p = u /\ g = "video" THEN FALSE ELSE srv[p][g]
  BY DEF Info, Fields, Kinds

\* What an operation does to a track, and what it tells the server.
LEMMA OperationTells ==
    ASSUME TypeOK, CamNeedsMic, Operation, inCall, NEW kind \in Kinds
    PROVE  \/ kind \in skewed' \/ Track(kind)' = "off" \/ crashed' # "no"
           \/ \E m \in SetsOwn(kind) : toServer' = Append(toServer, m) /\ ~Says(m)
           \/ /\ kind \notin skewed /\ Track(kind) # "off"
              /\ \/ toServer' = toServer
                 \/ \E m \in Messages \ SetsOwn(kind) : toServer' = Append(toServer, m)
  <1> DEFINE Quiet == /\ kind \notin skewed' /\ Track(kind)' # "off"
                         => kind \notin skewed /\ Track(kind) # "off"
                      /\ \/ toServer' = toServer
                         \/ \E m \in Messages \ SetsOwn(kind) :
                               toServer' = Append(toServer, m)
             Loud == \/ kind \in skewed' \/ Track(kind)' = "off" \/ crashed' # "no"
                     \/ \E m \in SetsOwn(kind) : toServer' = Append(toServer, m) /\ ~Says(m)
  <1> SUFFICES Quiet \/ Loud
    OBVIOUS
  <1> USE DEF media, tables, May
  <1>1. /\ Kinds = {"audio", "video"} /\ kind \in Fields /\ "active" \in Fields
        /\ "left" \in Fields /\ mic \in {"none", "on", "off"}
        /\ Self \in People /\ Users \subseteq People
    BY DEF TypeOK, Fields, Kinds, People
  <1>2. ASSUME NEW op \in Ops, NEW u \in People, NEW f \in Fields, NEW v \in BOOLEAN,
               op \in {"MUTE", "HOST_MUTE"} => f \in Kinds,
               Emit(Msg(op, u, f, v))
        PROVE  IF \/ op = "MUTE" /\ f = kind
                  \/ op = "VIDEO_STATUS" /\ kind = "video"
                 THEN \E m \in SetsOwn(kind) :
                         /\ toServer' = Append(toServer, m)
                         /\ Says(m) <=> op # "VIDEO_STATUS" /\ v
                 ELSE \E m \in Messages \ SetsOwn(kind) : toServer' = Append(toServer, m)
    <2>1. Msg(op, u, f, v) \in Messages
      BY <1>2, MsgType
    <2> QED
      <3> DEFINE m == Msg(op, u, f, v)
      <3>1. m.op = op /\ m.user = u /\ m.field = f /\ m.val = v /\ m \in Messages
        BY <2>1 DEF Msg
      <3>2. toServer' = Append(toServer, m)
        BY <1>2 DEF Emit
      <3> HIDE DEF m
      <3> QED
        BY <3>1, <3>2 DEF SetsOwn, Says
  <1>3. {"MUTE", "HOST_MUTE", "VIDEO_STATUS", "STREAM_REQUEST", "REMOVE_USER",
         "GET_CALL_DATA"} \subseteq Ops
    BY DEF Ops
  <1>4. CASE AddStreams
    BY <1>1, <1>4 DEF AddStreams, CamNeedsMic, Track
  <1>5. CASE Dispose
    BY <1>5 DEF Dispose
  <1>6. CASE AskForData
    BY <1>1, <1>2, <1>3, <1>6 DEF AskForData, Track
  <1>7. ASSUME SwitchToVideoCall
        PROVE  Quiet \/ Loud
    <2>1. CASE AskForVideo
      BY <1>1, <1>2, <1>3, <2>1 DEF AskForVideo, Track
    <2>2. CASE StartVideo
      BY <1>1, <1>2, <1>3, <2>2 DEF StartVideo, Track
    <2>3. CASE NoDataToSwitch
      BY <2>3 DEF NoDataToSwitch, Crash
    <2> QED
      BY <1>7, <2>1, <2>2, <2>3 DEF SwitchToVideoCall
  <1>8. ASSUME NEW k \in Kinds, UnMuteMyTrack(k)
        PROVE  Quiet \/ Loud
    <2>1. CASE Unmute(k)
      <3>1. Emit(Msg("MUTE", Self, k, FALSE)) /\ k \in Fields
        BY <2>1 DEF Unmute, Fields
      <3>2. CASE k = kind
        BY <1>1, <1>2, <1>3, <3>1, <3>2
      <3>3. CASE k # kind
        <4>1. \E m \in Messages \ SetsOwn(kind) : toServer' = Append(toServer, m)
          BY <1>1, <1>2, <1>3, <3>1, <3>3
        <4> QED
          BY <1>1, <2>1, <3>3, <4>1 DEF Unmute, Track
      <3> QED
        BY <3>2, <3>3
    <2> QED
      BY <1>8, <2>1 DEF UnMuteMyTrack, Crash
  <1>9. ASSUME NEW k \in Kinds, MuteMyTrack(k)
        PROVE  Quiet \/ Loud
    <2>1. CASE Mute(k)
      <3>1. Emit(Msg("MUTE", Self, k, TRUE)) /\ k \in Fields
        BY <2>1 DEF Mute, Fields
      <3>2. CASE k = kind
        BY <1>1, <2>1, <3>2 DEF Mute, SetTrack, Track
      <3>3. CASE k # kind
        <4>1. \E m \in Messages \ SetsOwn(kind) : toServer' = Append(toServer, m)
          BY <1>1, <1>2, <1>3, <3>1, <3>3
        <4> QED
          BY <1>1, <2>1, <3>3, <4>1 DEF Mute, SetTrack, Track
      <3> QED
        BY <3>2, <3>3
    <2>2. CASE /\ Emit(Msg("STREAM_REQUEST", Self, "active", FALSE))
               /\ UNCHANGED <<media, tables, inCall, crashed, toClient, server>>
      BY <1>1, <1>2, <1>3, <2>2 DEF Track
    <2>3. CASE Crash("mute")
      BY <2>3 DEF Crash
    <2> QED
      BY <1>7, <1>8, <1>9, <2>1, <2>2, <2>3 DEF MuteMyTrack
  <1>10. ASSUME NEW u \in Users, NEW k \in Kinds, HostMute(u, k)
         PROVE  Quiet \/ Loud
    <2>1. Emit(Msg("HOST_MUTE", u, k, TRUE)) /\ k \in Fields /\ u \in People
      BY <1>10 DEF HostMute, Fields, People
    <2> QED
      BY <1>1, <1>2, <1>3, <1>10, <2>1 DEF HostMute, Track
  <1>11. ASSUME NEW u \in Users, RemoveUser(u)
         PROVE  Quiet \/ Loud
    BY <1>1, <1>2, <1>3, <1>11 DEF RemoveUser, Track
  <1> QED
    BY <1>4, <1>5, <1>6, <1>7, <1>8, <1>9, <1>10, <1>11 DEF Operation

\* The camera comes up with the streams or when they are there, and nobody
\* sends video, or notes the wish, without a word to the server.
LEMMA OperationVideo ==
    ASSUME TypeOK, CamNeedsMic, Operation, inCall
    PROVE  /\ CamNeedsMic'
           /\ \/ /\ cam' # "none" \/ addVideo' => cam # "none" \/ addVideo
                 /\ \/ toServer' = toServer
                    \/ \E m \in Messages : toServer' = Append(toServer, m)
              \/ \E m \in Announces : toServer' = Append(toServer, m)
  <1> DEFINE Quiet == /\ cam' # "none" \/ addVideo' => cam # "none" \/ addVideo
                      /\ \/ toServer' = toServer
                         \/ \E m \in Messages : toServer' = Append(toServer, m)
             Loud == \E m \in Announces : toServer' = Append(toServer, m)
  <1> SUFFICES CamNeedsMic' /\ (Quiet \/ Loud)
    OBVIOUS
  <1> USE DEF media, tables, May, CamNeedsMic
  <1>1. /\ Kinds = {"audio", "video"} /\ "active" \in Fields /\ Self \in People
        /\ mic \in {"none", "on", "off"}
        /\ {"VIDEO_STATUS", "STREAM_REQUEST"} \subseteq Ops
    BY DEF TypeOK, Fields, Kinds, People, Ops
  <1>2. toServer' = toServer \/ \E m \in Messages : toServer' = Append(toServer, m)
    <2>1. ASSUME NEW u \in Users
          PROVE  Msg("REMOVE_USER", u, "left", TRUE) \in Messages
      BY MsgType DEF Ops, People, Fields
    <2> QED
      BY <2>1, OperationKnows
  <1>3. ASSUME NEW op \in {"VIDEO_STATUS", "STREAM_REQUEST"},
               Emit(Msg(op, Self, "active", TRUE))
        PROVE  Loud
    <2>1. Msg(op, Self, "active", TRUE) \in Messages
      BY <1>1, MsgType
    <2>2. Msg(op, Self, "active", TRUE) \in Announces
      BY <2>1 DEF Announces, Msg
    <2> QED
      BY <1>3, <2>2 DEF Emit
  <1>4. CASE AddStreams
    BY <1>2, <1>4 DEF AddStreams
  <1>5. CASE Dispose
    BY <1>5 DEF Dispose
  <1>6. CASE AskForData
    BY <1>2, <1>6 DEF AskForData
  <1>7. ASSUME SwitchToVideoCall
        PROVE  CamNeedsMic' /\ (Quiet \/ Loud)
    <2>1. CASE AskForVideo
      BY <1>3, <2>1 DEF AskForVideo
    <2>2. CASE StartVideo
      BY <1>2, <1>3, <2>2 DEF StartVideo
    <2>3. CASE NoDataToSwitch
      BY <1>2, <2>3 DEF NoDataToSwitch, Crash
    <2> QED
      BY <1>7, <2>1, <2>2, <2>3 DEF SwitchToVideoCall
  <1>8. ASSUME NEW k \in Kinds, UnMuteMyTrack(k)
        PROVE  CamNeedsMic' /\ (Quiet \/ Loud)
    <2>1. CASE Unmute(k)
      <3>1. mic' = "on" /\ cam' = cam /\ addVideo' = addVideo
        BY <2>1 DEF Unmute
      <3> QED
        BY <1>2, <3>1
    <2>2. CASE Crash("unmute")
      BY <1>2, <2>2 DEF Crash
    <2> QED
      BY <1>8, <2>1, <2>2 DEF UnMuteMyTrack
  <1>9. ASSUME NEW k \in Kinds, MuteMyTrack(k)
        PROVE  CamNeedsMic' /\ (Quiet \/ Loud)
    <2>1. CASE Mute(k)
      <3>1. /\ Track(k) = "on" /\ SetTrack(k, "off") /\ addVideo' = addVideo
        BY <2>1 DEF Mute
      <3>2. /\ mic' = "none" <=> mic = "none"
            /\ cam' = "none" <=> cam = "none"
        BY <1>1, <3>1 DEF SetTrack, Track
      <3> QED
        BY <1>2, <3>1, <3>2
    <2>2. CASE UNCHANGED media
      BY <1>2, <2>2
    <2> QED
      BY <1>7, <1>8, <1>9, <2>1, <2>2 DEF MuteMyTrack, Crash
  <1>10. ASSUME NEW u \in Users, NEW k \in Kinds, HostMute(u, k)
         PROVE  CamNeedsMic' /\ (Quiet \/ Loud)
    BY <1>2, <1>10 DEF HostMute
  <1>11. ASSUME NEW u \in Users, RemoveUser(u)
         PROVE  CamNeedsMic' /\ (Quiet \/ Loud)
    BY <1>2, <1>11 DEF RemoveUser
  <1> QED
    BY <1>4, <1>5, <1>6, <1>7, <1>8, <1>9, <1>10, <1>11 DEF Operation

\* The handlers touch a track for a host's mute only, and then take it.
LEMMA ReceiveTells ==
    ASSUME TypeOK, Receive, crashed' = "no", inCall', NEW kind \in Kinds
    PROVE  /\ addVideo' = addVideo /\ (cam' = "none" <=> cam = "none")
           /\ mic' = "none" <=> mic = "none"
           /\ Head(toClient) \notin Ends
           /\ IF Head(toClient) \in HostMutesOf(Self, kind)
                THEN kind \in skewed' \/ Track(kind)' = "off"
                ELSE /\ kind \in skewed' <=> kind \in skewed
                     /\ Track(kind)' = Track(kind)
  <1> DEFINE m == Head(toClient)
  <1>1. /\ toClient # <<>> /\ m \in Received /\ inCall
        /\ OnMuteCall(m) \/ OnHostMute(m) \/ OnStreamRequest(m) \/ OnVideoStatus(m)
           \/ OnStatus(m) \/ OnNewParticipant(m) \/ OnRemoval(m) \/ OnEnd(m) \/ OnData(m)
    BY QueueTypes, TakenQueue DEF Receive
  <1>2. /\ m.op # "DATA" => m \in Messages
        /\ m.op \in {"MUTE", "HOST_MUTE"} => m.field \in Kinds
    BY <1>1, HeadType DEF Received, Messages, Ops
  <1> HIDE DEF m
  <1>3. SUFFICES /\ addVideo' = addVideo /\ (cam' = "none" <=> cam = "none")
                 /\ mic' = "none" <=> mic = "none"
                 /\ m \notin Ends
                 /\ IF m \in HostMutesOf(Self, kind)
                      THEN kind \in skewed' \/ Track(kind)' = "off"
                      ELSE /\ kind \in skewed' <=> kind \in skewed
                           /\ Track(kind)' = Track(kind)
    BY DEF m
  <1>4. CASE UNCHANGED media /\ m.op # "HOST_MUTE" /\ m.op # "END_CALL"
    BY <1>4 DEF media, HostMutesOf, Ends, Track
  <1>5. CASE OnHostMute(m)
    <2>1. m \in Messages /\ m.op = "HOST_MUTE" /\ m.field \in Kinds /\ m \notin Ends
      BY <1>2, <1>5 DEF OnHostMute, Ends
    <2>2. /\ addVideo' = addVideo
          /\ \/ m.user # Self /\ UNCHANGED <<mic, cam, skewed>>
             \/ /\ m.user = Self /\ Track(m.field) = "none"
                /\ skewed' = skewed \cup {m.field} /\ UNCHANGED <<mic, cam>>
             \/ /\ m.user = Self /\ Track(m.field) # "none"
                /\ skewed' = skewed \ {m.field} /\ SetTrack(m.field, "off")
      BY <1>5 DEF OnHostMute
    <2>3. m \in HostMutesOf(Self, kind) <=> m.user = Self /\ m.field = kind
      BY <2>1 DEF HostMutesOf
    <2> QED
      BY <2>1, <2>2, <2>3 DEF Kinds, SetTrack, Track
  <1>6. CASE OnEnd(m)
    BY <1>6 DEF OnEnd
  <1> QED
    BY <1>1, <1>4, <1>5, <1>6
    DEF OnMuteCall, OnStreamRequest, OnVideoStatus, OnStatus, OnNewParticipant,
        OnRemoval, OnData

\* What the server does with a request: the flags of the device's own tracks.
LEMMA ServerStepOwn ==
    ASSUME TypeOK, RequestsAddressed, ServerStep, Self \in members
    PROVE  /\ Self \in members'
           /\ \A kind \in Kinds :
                 srv'[Self][kind] <=> IF Head(toServer) \in SetsOwn(kind)
                                        THEN Says(Head(toServer)) ELSE srv[Self][kind]
           /\ srv[Self]["active"] \/ Head(toServer) \in Announces => srv'[Self]["active"]
  <1> DEFINE m == Head(toServer)
  <1>1. toServer # <<>> /\ Serve(m)
    BY DEF ServerStep
  <1>2. m \in Messages /\ Addressed(m)
    BY <1>1, QueueTypes, TakenQueue DEF RequestsAddressed
  <1> HIDE DEF m
  <1>3. SUFFICES /\ Self \in members'
                 /\ \A kind \in Kinds :
                       srv'[Self][kind] <=> IF m \in SetsOwn(kind)
                                              THEN Says(m) ELSE srv[Self][kind]
                 /\ srv[Self]["active"] \/ m \in Announces => srv'[Self]["active"]
    BY DEF m
  <1>4. /\ srv \in [People -> Info] /\ Self \in People /\ m.user \in People
        /\ m.field \in Fields /\ m.val \in BOOLEAN
        /\ Kinds \subseteq Fields /\ "active" \in Fields /\ "active" \notin Kinds
        /\ "video" \in Fields
        /\ m.op \in {"MUTE", "HOST_MUTE"} => m.field \in Kinds
        /\ \A g \in Fields : srv[Self][g] \in BOOLEAN
    BY <1>2 DEF TypeOK, Messages, People, Fields, Kinds, Info
  <1>5. CASE m.op = "MUTE"
    <2>1. SetSrv(Self, m.field, m.val) /\ members' = members
      BY <1>1, <1>5 DEF Serve, server
    <2>2. \A g \in Fields : srv'[Self][g] = IF g = m.field THEN m.val ELSE srv[Self][g]
      BY <1>4, <2>1, SetSrvFlags
    <2> QED
      BY <1>2, <1>4, <1>5, <2>1, <2>2 DEF SetsOwn, Says, Announces
  <1>6. CASE m.op = "HOST_MUTE"
    <2>1. m.user # Self
      BY <1>2, <1>6, SelfAssumption DEF Addressed
    <2>2. SetSrv(m.user, m.field, m.val) => srv'[Self] = srv[Self]
      BY <1>4, <2>1 DEF SetSrv
    <2>3. srv'[Self] = srv[Self] /\ members' = members
      BY <1>1, <1>6, <2>2 DEF Serve, server
    <2> QED
      BY <1>6, <2>3 DEF SetsOwn, Announces
  <1>7. CASE m.op = "VIDEO_STATUS"
    <2>1. /\ srv' = [srv EXCEPT ![Self]["active"] = TRUE, ![Self]["video"] = FALSE]
          /\ members' = members
      BY <1>1, <1>7 DEF Serve, server
    <2>2. \A g \in Fields : srv'[Self][g] = IF g = "active" THEN TRUE
                                            ELSE IF g = "video" THEN FALSE ELSE srv[Self][g]
      BY <1>4, <2>1 DEF Info, Fields, Kinds
    <2> QED
      BY <1>2, <1>4, <1>7, <2>1, <2>2 DEF SetsOwn, Says, Kinds
  <1>8. CASE m.op = "STREAM_REQUEST"
    <2>1. /\ SetSrv(Self, "active", srv[Self]["active"] \/ m.val)
          /\ members' = members
      BY <1>1, <1>8 DEF Serve, server, SetSrv
    <2>2. (srv[Self]["active"] \/ m.val) \in BOOLEAN
      OBVIOUS
    <2>3. PICK v \in BOOLEAN : v <=> srv[Self]["active"] \/ m.val
      BY <2>2
    <2>4. SetSrv(Self, "active", v)
      BY <1>4, <2>1, <2>3
    <2>5. \A g \in Fields : srv'[Self][g] = IF g = "active" THEN v ELSE srv[Self][g]
      BY <1>4, <2>4, SetSrvFlags
    <2> QED
      BY <1>2, <1>4, <1>8, <2>1, <2>3, <2>5 DEF SetsOwn, Announces
  <1>9. CASE m.op = "REMOVE_USER"
    BY <1>1, <1>2, <1>9, SelfAssumption DEF Serve, server, Addressed, SetsOwn, Announces
  <1>10. CASE m.op = "GET_CALL_DATA"
    BY <1>1, <1>10 DEF Serve, server, SetsOwn, Announces
  <1> QED
    BY <1>1, <1>5, <1>6, <1>7, <1>8, <1>9, <1>10 DEF Serve

\* What the others do to the device's flags, and the event that tells it.
LEMMA OthersOwn ==
    ASSUME TypeOK, Others
    PROVE  \E m \in Messages :
              /\ toClient' = Append(toClient, m)
              /\ Self \notin members' => m \in Ends
              /\ srv'[Self]["active"] = srv[Self]["active"]
              /\ \A kind \in Kinds : \/ m \in HostMutesOf(Self, kind)
                                     \/ srv'[Self][kind] = srv[Self][kind]
  <1>1. PICK m \in Messages : Push(m) /\ Told(m)
    BY OthersTell
  <1>2. /\ srv \in [People -> Info] /\ Self \in People /\ m.user \in People
        /\ m.field \in Fields /\ m.val \in BOOLEAN /\ Self \in members
        /\ Kinds \subseteq Fields /\ "active" \in Fields /\ "active" \notin Kinds
        /\ m.op = "HOST_MUTE" => m.field \in Kinds
    BY <1>1, OthersTell DEF TypeOK, Messages, People, Fields, Kinds
  <1>3. SUFFICES /\ Self \notin members' => m \in Ends
                 /\ srv'[Self]["active"] = srv[Self]["active"]
                 /\ \A kind \in Kinds : \/ m \in HostMutesOf(Self, kind)
                                        \/ srv'[Self][kind] = srv[Self][kind]
    BY <1>1 DEF Push
  <1>4. ASSUME SetSrv(m.user, m.field, m.val), UNCHANGED members,
               m.user # Self \/ m.op = "HOST_MUTE"
        PROVE  /\ Self \in members'
               /\ srv'[Self]["active"] = srv[Self]["active"]
               /\ \A kind \in Kinds : \/ m \in HostMutesOf(Self, kind)
                                      \/ srv'[Self][kind] = srv[Self][kind]
    <2>1. \A g \in Fields : srv'[Self][g] = IF Self = m.user /\ g = m.field
                                              THEN m.val ELSE srv[Self][g]
      BY <1>2, <1>4, SetSrvFlags
    <2> QED
      BY <1>2, <1>4, <2>1 DEF HostMutesOf
  <1>5. CASE /\ m.op \in {"MUTE", "HOST_MUTE"}
             /\ m.user # Self \/ m.op = "HOST_MUTE"
             /\ SetSrv(m.user, m.field, m.val) /\ UNCHANGED members
    BY <1>4, <1>5
  <1>6. CASE /\ m.user # Self /\ UNCHANGED members
             /\ srv' = [srv EXCEPT ![m.user]["active"] = TRUE, ![m.user]["video"] = FALSE]
    BY <1>2, <1>6
  <1>7. CASE srv' = srv /\ (Self \in members' \/ m.op = "END_CALL")
    BY <1>7 DEF Ends
  <1> QED
    BY <1>1, <1>2, <1>5, <1>6, <1>7, SelfAssumption DEF Told

\* What the server sends while it takes a request.
LEMMA ServerToClient ==
    ASSUME TypeOK, ServerStep
    PROVE  toClient' = toClient \/ \E m \in Received : toClient' = Append(toClient, m)
  <1> DEFINE m == Head(toServer)
  <1>1. toServer # <<>> /\ Serve(m)
    BY DEF ServerStep
  <1>2. m \in Messages
    BY <1>1, QueueTypes, TakenQueue
  <1>3. Snapshot([u \in members |-> srv[u]]) \in Received
    BY DataIs DEF TypeOK, Snapshot, Received
  <1> HIDE DEF m
  <1> QED
    BY <1>1, <1>2, <1>3 DEF Serve, Push, Received

\* The end of the call is on its way as long as the device does not know.
LEMMA EndStep ==
    ASSUME TypeOK, RequestsAddressed, EndIsComing, [Next]_vars
    PROVE  EndIsComing'
  <1> USE DEF EndIsComing
  <1>1. toClient \in Seq(Received) /\ Messages \subseteq Received
    BY QueueTypes DEF Received
  <1>2. CASE UNCHANGED <<inCall, members, toClient>>
    BY <1>2
  <1>3. CASE Receive
    <2>1. CASE inCall' /\ crashed' = "no"
      <3>1. Head(toClient) \notin Ends
        BY <1>3, <2>1, ReceiveTells DEF Kinds
      <3> QED
        BY <1>1, <1>3, <2>1, <3>1, TakenLatest, ReceiveKnows DEF server
    <2>2. CASE crashed' # "no"
      <3>1. /\ toClient # <<>> /\ toClient' = Tail(toClient) /\ members' = members
            /\ inCall' => inCall
        BY <1>3, ReceiveKnows DEF server
      <3>2. Head(toClient) \notin Ends
        BY <1>3, <2>2
        DEF Receive, Ends, OnMuteCall, OnHostMute, OnStreamRequest, OnVideoStatus, OnStatus,
            OnNewParticipant, OnRemoval, OnEnd, OnData
      <3> QED
        BY <1>1, <3>1, <3>2, TakenLatest
    <2> QED
      BY <2>1, <2>2, ReceiveKnows
  <1>4. CASE ServerStep
    <2>1. inCall' = inCall /\ (Self \in members => Self \in members')
      BY <1>4, ServerStepOwn DEF ServerStep, device
    <2>2. toClient' = toClient \/ \E m \in Received : toClient' = Append(toClient, m)
      BY <1>4, ServerToClient
    <2>3. \A m \in Received : Absent(Append(toClient, m), Ends) => Absent(toClient, Ends)
      BY <1>1, GrownLatest
    <2> QED
      BY <2>1, <2>2, <2>3
  <1>5. CASE Others
    <2>1. PICK m \in Messages : /\ toClient' = Append(toClient, m)
                                /\ Self \notin members' => m \in Ends
      BY <1>5, OthersOwn
    <2> QED
      BY <1>1, <2>1, GrownLatest
  <1>6. CASE Operation
    BY <1>2, <1>6, OperationKnows DEF server
  <1>7. CASE UNCHANGED vars
    BY <1>2, <1>7 DEF vars, server
  <1> QED
    BY <1>3, <1>4, <1>5, <1>6, <1>7 DEF Next

\* What the server has been told of a track stays enough, step by step.
LEMMA TrackStep ==
    ASSUME TypeOK, KnownInv, TracksInv, [Next]_vars, NEW kind \in Kinds,
           InTheCall, InTheCall'
    PROVE  TrackTold(kind)'
  <1>1. /\ toClient \in Seq(Received) /\ toServer \in Seq(Messages)
        /\ Messages \subseteq Received
    BY QueueTypes DEF Received
  <1>2. TrackTold(kind)
    BY DEF TracksInv, TracksTold
  <1> USE DEF InTheCall
  <1>3. SUFFICES ASSUME kind \notin skewed', Track(kind)' # "off",
                        Absent(toClient', HostMutesOf(Self, kind))
                 PROVE  Requested(kind)'
    BY DEF TrackTold
  <1>4. CASE UNCHANGED vars
    BY <1>2, <1>3, <1>4 DEF vars, media, server, TrackTold, Requested, Track
  <1>5. CASE Operation
    <2>1. UNCHANGED <<toClient, srv>>
      BY <1>5, OperationKnows DEF server
    <2>2. ASSUME NEW m \in SetsOwn(kind), toServer' = Append(toServer, m), ~Says(m)
          PROVE  Requested(kind)'
      <3>1. m \in Messages
        BY DEF SetsOwn
      <3>2. /\ ~Absent(Append(toServer, m), SetsOwn(kind))
            /\ \A n : Latest(Append(toServer, m), SetsOwn(kind), n) => n = m
        BY <1>1, <3>1, GrownLatest
      <3> QED
        BY <2>2, <3>2 DEF Requested
    <2>3. ASSUME NEW m \in Messages \ SetsOwn(kind), toServer' = Append(toServer, m),
                 Requested(kind)
          PROVE  Requested(kind)'
      <3>1. /\ Absent(Append(toServer, m), SetsOwn(kind)) <=> Absent(toServer, SetsOwn(kind))
            /\ \A n : Latest(Append(toServer, m), SetsOwn(kind), n)
                         => Latest(toServer, SetsOwn(kind), n)
        BY <1>1, GrownLatest
      <3> QED
        BY <2>1, <2>3, <3>1 DEF Requested
    <2>4. kind \notin skewed /\ Track(kind) # "off" => Requested(kind)
      BY <1>2, <1>3, <2>1 DEF TrackTold
    <2>5. toServer' = toServer /\ Requested(kind) => Requested(kind)'
      BY <2>1 DEF Requested
    <2>6. \/ \E m \in SetsOwn(kind) : toServer' = Append(toServer, m) /\ ~Says(m)
          \/ /\ kind \notin skewed /\ Track(kind) # "off"
             /\ \/ toServer' = toServer
                \/ \E m \in Messages \ SetsOwn(kind) : toServer' = Append(toServer, m)
      BY <1>3, <1>5, OperationTells DEF TracksInv, TracksTold
    <2> QED
      BY <2>2, <2>3, <2>4, <2>5, <2>6
  <1>6. CASE Receive
    <2> DEFINE m == Head(toClient)
    <2>1. /\ m \notin HostMutesOf(Self, kind)
          /\ kind \notin skewed /\ Track(kind) # "off"
      BY <1>3, <1>6, ReceiveTells
    <2>2. toClient # <<>> /\ toClient' = Tail(toClient) /\ UNCHANGED <<toServer, srv>>
      BY <1>6, ReceiveKnows DEF server
    <2>3. Absent(toClient, HostMutesOf(Self, kind))
      BY <1>1, <1>3, <2>1, <2>2, TakenLatest
    <2> QED
      BY <1>2, <2>1, <2>2, <2>3 DEF TrackTold, Requested
  <1>7. CASE ServerStep
    <2> DEFINE m == Head(toServer)
               T == SetsOwn(kind)
    <2>1. UNCHANGED <<mic, cam, skewed>> /\ toServer # <<>> /\ toServer' = Tail(toServer)
      BY <1>7 DEF ServerStep, device, media
    <2>2. Absent(toClient, HostMutesOf(Self, kind))
      <3>1. \A r \in Received : Absent(Append(toClient, r), HostMutesOf(Self, kind))
                                   => Absent(toClient, HostMutesOf(Self, kind))
        BY <1>1, GrownLatest
      <3> QED
        BY <1>3, <1>7, <3>1, ServerToClient
    <2>3. Requested(kind)
      BY <1>2, <1>3, <2>1, <2>2 DEF TrackTold, Track
    <2>4. srv'[Self][kind] <=> IF m \in T THEN Says(m) ELSE srv[Self][kind]
      BY <1>7, ServerStepOwn DEF KnownInv
    <2>5. /\ \A n : Latest(Tail(toServer), T, n) => Latest(toServer, T, n)
          /\ m \in T /\ Absent(Tail(toServer), T) => Latest(toServer, T, m)
          /\ m \notin T => (Absent(Tail(toServer), T) <=> Absent(toServer, T))
      BY <1>1, <2>1, TakenLatest
    <2> HIDE DEF m
    <2> QED
      BY <2>1, <2>3, <2>4, <2>5 DEF Requested
  <1>8. CASE Others
    <2>1. UNCHANGED <<mic, cam, skewed, toServer>>
      BY <1>8, OthersTell DEF device, media
    <2>2. PICK m \in Messages : /\ toClient' = Append(toClient, m)
                                /\ \/ m \in HostMutesOf(Self, kind)
                                   \/ srv'[Self][kind] = srv[Self][kind]
      BY <1>8, OthersOwn
    <2>3. Absent(toClient, HostMutesOf(Self, kind)) /\ m \notin HostMutesOf(Self, kind)
      BY <1>1, <1>3, <2>2, GrownLatest
    <2> QED
      BY <1>2, <1>3, <2>1, <2>2, <2>3 DEF TrackTold, Track, Requested
  <1> QED
    BY <1>4, <1>5, <1>6, <1>7, <1>8 DEF Next

\* And what it was told of the video.
LEMMA VideoStep ==
    ASSUME TypeOK, KnownInv, TracksInv, [Next]_vars,
           InTheCall, InTheCall'
    PROVE  VideoTold' /\ CamNeedsMic'
  <1>1. toServer \in Seq(Messages) /\ Announces \subseteq Messages
    BY QueueTypes DEF Announces
  <1>2. VideoTold /\ CamNeedsMic
    BY DEF TracksInv, TracksTold
  <1> USE DEF InTheCall
  <1>3. CASE UNCHANGED vars
    BY <1>2, <1>3 DEF vars, media, server, VideoTold, CamNeedsMic
  <1>4. CASE Operation
    <2>1. srv' = srv
      BY <1>4, OperationKnows DEF server
    <2>2. \A m \in Announces : ~Absent(Append(toServer, m), Announces)
      BY <1>1, GrownLatest
    <2>3. \A m \in Messages : Absent(Append(toServer, m), Announces) => Absent(toServer, Announces)
      BY <1>1, GrownLatest
    <2>4. /\ CamNeedsMic'
          /\ \/ /\ cam' # "none" \/ addVideo' => cam # "none" \/ addVideo
                /\ \/ toServer' = toServer
                   \/ \E m \in Messages : toServer' = Append(toServer, m)
             \/ \E m \in Announces : toServer' = Append(toServer, m)
      BY <1>2, <1>4, OperationVideo
    <2> QED
      BY <1>2, <2>1, <2>2, <2>3, <2>4 DEF VideoTold
  <1>5. CASE Receive
    <2>1. /\ addVideo' = addVideo /\ (cam' = "none" <=> cam = "none")
          /\ mic' = "none" <=> mic = "none"
      BY <1>5, ReceiveTells DEF Kinds
    <2>2. UNCHANGED <<toServer, srv>>
      BY <1>5, ReceiveKnows DEF server
    <2> QED
      BY <1>2, <2>1, <2>2 DEF VideoTold, CamNeedsMic
  <1>6. CASE ServerStep
    <2>1. UNCHANGED <<mic, cam, addVideo>> /\ toServer # <<>> /\ toServer' = Tail(toServer)
      BY <1>6 DEF ServerStep, device, media
    <2>2. srv[Self]["active"] \/ Head(toServer) \in Announces => srv'[Self]["active"]
      BY <1>6, ServerStepOwn DEF KnownInv
    <2>3. Head(toServer) \notin Announces =>
             (Absent(Tail(toServer), Announces) <=> Absent(toServer, Announces))
      BY <1>1, <2>1, TakenLatest
    <2> QED
      BY <1>2, <2>1, <2>2, <2>3 DEF VideoTold, CamNeedsMic
  <1>7. CASE Others
    <2>1. UNCHANGED <<mic, cam, addVideo, toServer>>
      BY <1>7, OthersTell DEF device, media
    <2>2. srv'[Self]["active"] = srv[Self]["active"]
      BY <1>7, OthersOwn
    <2> QED
      BY <1>2, <2>1, <2>2 DEF VideoTold, CamNeedsMic
  <1> QED
    BY <1>3, <1>4, <1>5, <1>6, <1>7 DEF Next

\* Nobody comes back into the call.
LEMMA InTheCallBefore == TypeOK /\ KnownInv /\ [Next]_vars /\ InTheCall' => InTheCall
  <1> SUFFICES ASSUME TypeOK, KnownInv, [Next]_vars, InTheCall'
               PROVE  InTheCall
    OBVIOUS
  <1> USE DEF InTheCall
  <1>1. CASE UNCHANGED vars
    BY <1>1 DEF vars, server
  <1>2. CASE Operation \/ Receive
    BY <1>2, OperationKnows, ReceiveKnows DEF server
  <1>3. CASE ServerStep
    BY <1>3 DEF ServerStep, Serve, server, device
  <1>4. CASE Others
    BY <1>4, OthersTell DEF device
  <1> QED
    BY <1>1, <1>2, <1>3, <1>4 DEF Next

LEMMA TracksInvariant == Spec => []TracksInv
  <1>1. TypeOK /\ KnownInv /\ TracksInv /\ [Next]_vars => TracksInv'
    <2> SUFFICES ASSUME TypeOK, KnownInv, TracksInv, [Next]_vars
                 PROVE  TracksInv'
      OBVIOUS
    <2>1. EndIsComing'
      BY EndStep DEF KnownInv, TracksInv
    <2>2. ASSUME InTheCall'
          PROVE  VideoTold' /\ CamNeedsMic' /\ \A kind \in Kinds : TrackTold(kind)'
      BY <2>2, InTheCallBefore, TrackStep, VideoStep
    <2> QED
      BY <2>1, <2>2 DEF TracksInv, TracksTold, Kinds
  <1> QED
    BY <1>1, InitTracks, KnownInvariant, PTL DEF Spec

\* A microphone or camera that is on is shown as on to the others, once all
\* requests and events are handled: whatever the toggle, the host's mutes and
\* the device's own requests cross; but see skewed.
THEOREM NobodyIsHeardUnseen == Spec => []NoHiddenTrack
  <1>1. TracksInv => NoHiddenTrack
    <2> SUFFICES ASSUME TracksInv, Settled, NEW kind \in Kinds \ skewed, Track(kind) = "on"
                 PROVE  ~srv[Self][kind] /\ (kind = "video" => srv[Self]["active"])
      BY DEF NoHiddenTrack
    <2>1. /\ Absent(toServer, SetsOwn(kind)) /\ Absent(toServer, Announces)
          /\ Absent(toClient, HostMutesOf(Self, kind)) /\ Absent(toClient, Ends)
      BY NothingAbsent DEF Settled
    <2>2. InTheCall
      BY <2>1 DEF TracksInv, EndIsComing, Settled, InTheCall
    <2>3. TrackTold(kind) /\ VideoTold
      BY <2>2 DEF TracksInv, TracksTold
    <2>4. ~srv[Self][kind]
      BY <2>1, <2>3 DEF TrackTold, Requested
    <2>5. kind = "video" => cam # "none"
      BY DEF Track
    <2> QED
      BY <2>1, <2>3, <2>4, <2>5 DEF VideoTold
  <1> QED
    BY <1>1, TracksInvariant, PTL

-----------------------------------------------------------------------------
(* The rows of the others.                                                 *)

SetsOf(u, kind) ==
    {m \in Messages : \/ m.op \in {"MUTE", "HOST_MUTE"} /\ m.user = u /\ m.field = kind
                      \/ m.op = "VIDEO_STATUS" /\ m.user = u /\ kind = "video"}
Joins(u) == {m \in Messages : m.op = "NEW_PARTICIPANT" /\ m.user = u}
Removals(u) == {m \in Messages : m.op = "REMOVE_USER" /\ m.user = u}
AnswersWith(u) == {m \in Received : m.op = "DATA" /\ u \in DOMAIN m.data}
AnswersWithout(u) == {m \in Received : m.op = "DATA" /\ u \notin DOMAIN m.data}

\* Of a user who has not been in the call nothing is known.
Unheard(u) ==
    /\ u \notin members /\ rows[u] = <<>> /\ u \notin DOMAIN data
    /\ Absent(toClient, Joins(u)) /\ Absent(toClient, AnswersWith(u))
    /\ \A kind \in Kinds : ~srv[u][kind] /\ Absent(toClient, SetsOf(u, kind))

\* A user joins once.  Answers name it only after the event that announces it,
\* and fail to name it only before.
Announced(u) ==
    /\ NoneAfter(toClient, Joins(u) \cup AnswersWith(u), Joins(u))
    /\ rows[u] # <<>> => Absent(toClient, Joins(u))
    /\ u \in members => SomeAfter(toClient, AnswersWithout(u), Joins(u))
    /\ u \notin gone => Unheard(u)

\* The user is in the call, and the device has not asked to remove it.
With(u) ==
    inCall /\ crashed = "no" /\ u \in members /\ Absent(toServer, Removals(u))

\* The last event about a flag has the value the server has; if there is none,
\* the row has it, or will when the host's mute that wrote the row comes back.
\* A user without a row is about to get one, and not in the data before; one
\* with a row that is not in the data has never had a flag set.
Shown(u, kind) ==
    /\ \A m : Latest(toClient, SetsOf(u, kind), m) => (Says(m) <=> srv[u][kind])
    /\ rows[u] # <<>> /\ Absent(toClient, SetsOf(u, kind)) =>
          \/ rows[u][1][kind] <=> srv[u][kind]
          \/ ~Absent(toServer, HostMutesOf(u, kind))
    /\ rows[u] = <<>> => /\ u \notin DOMAIN data /\ ~Absent(toClient, Joins(u))
                         /\ Absent(toClient, SetsOf(u, kind)) => ~srv[u][kind]
    /\ rows[u] # <<>> /\ u \notin DOMAIN data => ~rows[u][1][kind]

RowInv(u) == Announced(u) /\ (With(u) => \A kind \in Kinds : Shown(u, kind))
RowsInv == \A u \in Users : RowInv(u)

\* What an operation does to the row of another user: a host's mute is written
\* at once, a removal takes row and entry.
LEMMA OperationOf ==
    ASSUME TypeOK, Operation, NEW u \in Users
    PROVE  /\ rows'[u] # <<>> => rows[u] # <<>>
           /\ u \in DOMAIN data' => u \in DOMAIN data
           /\ \/ \E m \in Removals(u) : toServer' = Append(toServer, m)
              \/ /\ rows'[u] = <<>> => rows[u] = <<>>
                 /\ u \in DOMAIN data => u \in DOMAIN data'
                 /\ \/ toServer' = toServer
                    \/ \E m \in Messages : toServer' = Append(toServer, m)
                 /\ \A kind \in Kinds : rows[u] # <<>> =>
                       \/ rows'[u][1][kind] = rows[u][1][kind]
                       \/ /\ u \in DOMAIN data
                          /\ \E m \in HostMutesOf(u, kind) : toServer' = Append(toServer, m)
  <1> DEFINE Same == /\ rows'[u] = <<>> <=> rows[u] = <<>>
                     /\ u \in DOMAIN data' <=> u \in DOMAIN data
                     /\ rows[u] # <<>> =>
                           \A kind \in Kinds :
                              \/ rows'[u][1][kind] = rows[u][1][kind]
                              \/ /\ u \in DOMAIN data
                                 /\ \E m \in HostMutesOf(u, kind) : toServer' = Append(toServer, m)
             Taken == /\ rows'[u] # <<>> => rows[u] # <<>>
                      /\ u \in DOMAIN data' => u \in DOMAIN data
                      /\ \E m \in Removals(u) : toServer' = Append(toServer, m)
  <1>1. /\ rows \in [People -> Seq(Info)] /\ data \in DataOf /\ Self \in People /\ u \in People
        /\ u # Self /\ Users \subseteq People /\ Kinds \subseteq Fields
        /\ "active" \in Fields /\ TRUE \in BOOLEAN /\ FALSE \in BOOLEAN
        /\ {"HOST_MUTE", "REMOVE_USER"} \subseteq Ops /\ "left" \in Fields
    BY SelfAssumption DEF TypeOK, People, Fields, Kinds, Ops
  <1>2. ASSUME NEW v \in Users
        PROVE  /\ Msg("REMOVE_USER", v, "left", TRUE) \in Messages
               /\ Msg("REMOVE_USER", v, "left", TRUE) \in Removals(v)
    <2>1. Msg("REMOVE_USER", v, "left", TRUE) \in Messages
      BY <1>1, MsgType
    <2> QED
      BY <2>1 DEF Removals, Msg
  <1>3. toServer' = toServer \/ \E m \in Messages : toServer' = Append(toServer, m)
    BY <1>2, OperationKnows
  <1>4. SUFFICES Same \/ Taken
    <2> HIDE DEF Kinds
    <2> QED
      BY <1>3
  <1>5. ASSUME NEW f \in Fields, NEW v \in BOOLEAN
        PROVE  SetRow(Self, f, v)[u] = rows[u]
    <2>1. \A q \in People : q # Self => SetRow(Self, f, v)[q] = rows[q]
      BY <1>1, <1>5 DEF SetRow
    <2> QED
      BY <1>1, <2>1
  <1>6. ASSUME NEW f \in Fields, NEW v \in BOOLEAN, SetBoth(Self, f, v), Self \in DOMAIN data
        PROVE  Same
    <2>1. rows'[u] = rows[u] /\ DOMAIN data' = DOMAIN data
      BY <1>1, <1>5, <1>6, SetDataType DEF SetBoth
    <2> QED
      BY <2>1
  <1>7. ASSUME UNCHANGED tables
        PROVE  Same
    BY <1>7 DEF tables
  <1>8. ASSUME SwitchToVideoCall
        PROVE  Same
    <2>1. CASE AskForVideo
      BY <1>1, <1>5, <2>1 DEF AskForVideo
    <2>2. CASE StartVideo
      <3>1. rows' = rows /\ DOMAIN data' = DOMAIN data
        BY <1>1, <2>2, SetDataType DEF StartVideo
      <3> QED
        BY <3>1
    <2>3. CASE NoDataToSwitch
      BY <1>7, <2>3 DEF NoDataToSwitch, Crash
    <2> QED
      BY <1>8, <2>1, <2>2, <2>3 DEF SwitchToVideoCall
  <1>9. ASSUME NEW k \in Kinds, UnMuteMyTrack(k)
        PROVE  Same
    BY <1>1, <1>6, <1>7, <1>9 DEF UnMuteMyTrack, Unmute, Crash
  <1>10. ASSUME NEW k \in Kinds, MuteMyTrack(k)
         PROVE  Same
    BY <1>1, <1>6, <1>7, <1>8, <1>9, <1>10 DEF MuteMyTrack, Mute, Crash
  <1>11. ASSUME NEW v \in Users, NEW k \in Kinds, HostMute(v, k)
         PROVE  Same
    <2> DEFINE m == Msg("HOST_MUTE", v, k, TRUE)
    <2>1. m \in Messages /\ m.op = "HOST_MUTE" /\ m.user = v /\ m.field = k
      <3>1. v \in People /\ k \in Fields
        BY <1>1
      <3>2. m \in Messages
        BY <1>1, <3>1, MsgType
      <3> QED
        BY <3>2 DEF Msg
    <2>2. toServer' = Append(toServer, m)
      BY <1>11 DEF HostMute, Emit
    <2> HIDE DEF m
    <2>3. CASE v \in DOMAIN data
      <3>1. DOMAIN data' = DOMAIN data /\ rows' = SetRow(v, k, TRUE)
        BY <1>1, <1>11, <2>3, SetDataType DEF HostMute, SetKnown, SetBoth
      <3>2. /\ SetRow(v, k, TRUE)[u] = <<>> <=> rows[u] = <<>>
            /\ rows[u] # <<>> =>
                  \A g \in Fields : u # v \/ g # k =>
                                        SetRow(v, k, TRUE)[u][1][g] = rows[u][1][g]
        <4>1. v \in People /\ k \in Fields
          BY <1>1
        <4>2. PICK b \in BOOLEAN : b = TRUE
          BY <1>1
        <4>3. /\ SetRow(v, k, b)[u] = <<>> <=> rows[u] = <<>>
              /\ rows[u] # <<>> =>
                    \A g \in Fields : SetRow(v, k, b)[u][1][g]
                                        = IF u = v /\ g = k THEN b ELSE rows[u][1][g]
          BY <1>1, <4>1, SetRowFlags
        <4> QED
          BY <4>2, <4>3
      <3>3. m \in HostMutesOf(v, k)
        BY <2>1 DEF HostMutesOf
      <3> QED
        BY <1>1, <2>2, <2>3, <3>1, <3>2, <3>3
    <2>4. CASE v \notin DOMAIN data
      BY <1>7, <1>11, <2>4 DEF HostMute, SetKnown
    <2> QED
      BY <2>3, <2>4
  <1>12. ASSUME NEW v \in Users, RemoveUser(v)
         PROVE  Same \/ Taken
    <2>1. toServer' = Append(toServer, Msg("REMOVE_USER", v, "left", TRUE))
      BY <1>12 DEF RemoveUser, Emit
    <2>2. CASE v = u
      <3>1. rows'[u] # <<>> => rows[u] # <<>>
        BY <1>1, <1>12, <2>2 DEF RemoveUser, DropRow, tables
      <3>2. u \in DOMAIN data' => u \in DOMAIN data
        BY <1>12, <2>2 DEF RemoveUser, tables
      <3> QED
        BY <1>2, <2>1, <2>2, <3>1, <3>2
    <2>3. CASE v # u
      <3>1. rows'[u] = rows[u] /\ (u \in DOMAIN data' <=> u \in DOMAIN data)
        BY <1>1, <1>12, <2>3 DEF RemoveUser, DropRow, tables
      <3> QED
        BY <3>1
    <2> QED
      BY <2>2, <2>3
  <1>13. CASE AddStreams \/ Dispose \/ AskForData
    BY <1>7, <1>13 DEF AddStreams, Dispose, AskForData
  <1> HIDE DEF Same, Taken
  <1> QED
    BY <1>8, <1>9, <1>10, <1>11, <1>12, <1>13 DEF Operation

\* What a handler does to the row of another user.
LEMMA ReceiveOf ==
    ASSUME TypeOK, Receive, NEW u \in Users
    PROVE  /\ rows'[u] # <<>> => rows[u] # <<>> \/ Head(toClient) \in Joins(u)
           /\ u \in DOMAIN data' => u \in DOMAIN data \/ Head(toClient) \in AnswersWith(u)
           /\ inCall' /\ crashed' = "no" =>
                 /\ rows'[u] = <<>> => rows[u] = <<>> /\ Head(toClient) \notin Joins(u)
                 /\ \/ Head(toClient) \in AnswersWith(u) /\ u \in DOMAIN data'
                    \/ Head(toClient) \in AnswersWithout(u) /\ u \notin DOMAIN data'
                    \/ u \in DOMAIN data' <=> u \in DOMAIN data
                 /\ \A kind \in Kinds :
                       /\ rows[u] # <<>> =>
                             rows'[u][1][kind]
                               <=> IF Head(toClient) \in SetsOf(u, kind) /\ u \in DOMAIN data
                                     THEN Says(Head(toClient)) ELSE rows[u][1][kind]
                       /\ rows[u] = <<>> /\ Head(toClient) \in Joins(u) => ~rows'[u][1][kind]
                       /\ Head(toClient) \in SetsOf(u, kind) =>
                             u \in DOMAIN data \/ ~Says(Head(toClient))
  <1> DEFINE m == Head(toClient)
             Kept == /\ rows'[u] = <<>> <=> rows[u] = <<>>
                     /\ u \in DOMAIN data' <=> u \in DOMAIN data
                     /\ m \notin Joins(u)
                     /\ \A kind \in Kinds :
                           /\ rows[u] # <<>> =>
                                 rows'[u][1][kind]
                                   <=> IF m \in SetsOf(u, kind) /\ u \in DOMAIN data
                                         THEN Says(m) ELSE rows[u][1][kind]
                           /\ m \in SetsOf(u, kind) => u \in DOMAIN data \/ ~Says(m)
             Joined == /\ rows'[u] # <<>> /\ m \in Joins(u) /\ data' = data
                       /\ rows[u] # <<>> => rows'[u][1] = rows[u][1]
                       /\ rows[u] = <<>> => \A kind \in Kinds : ~rows'[u][1][kind]
             Answered == /\ rows' = rows /\ data' = m.data
                         /\ m.op = "DATA" /\ m \in Received
             Over == /\ rows'[u] # <<>> => rows[u] # <<>>
                     /\ u \in DOMAIN data' => u \in DOMAIN data
                     /\ ~inCall' \/ crashed' # "no"
  <1>1. toClient # <<>> /\ m \in Received
    BY QueueTypes, TakenQueue DEF Receive
  <1>2. /\ m.op # "DATA" => /\ m \in Messages /\ m.op \in Ops /\ m.user \in People
                            /\ m.field \in Fields /\ m.val \in BOOLEAN
        /\ m.op \in {"MUTE", "HOST_MUTE"} => m.field \in Kinds
    BY <1>1, HeadType DEF Received, Messages, Ops
  <1>3. /\ rows \in [People -> Seq(Info)] /\ data \in DataOf /\ u \in People
        /\ Kinds \subseteq Fields /\ {"audio", "video", "active", "left"} \subseteq Fields
        /\ "active" \notin Kinds /\ "left" \notin Kinds
        /\ TRUE \in BOOLEAN /\ FALSE \in BOOLEAN
    BY DEF TypeOK, People, Fields, Kinds
  <1>4. SUFFICES Kept \/ Joined \/ Answered \/ Over
    <2>1. m \in SetsOf(u, "audio") \cup SetsOf(u, "video") => m \notin Joins(u) /\ m.op # "DATA"
      BY DEF SetsOf, Joins
    <2>2. \A kind \in Kinds : m \in SetsOf(u, kind) => m \notin Joins(u) /\ m.op # "DATA"
      BY DEF SetsOf, Joins
    <2>3. CASE Kept
      BY <2>3
    <2>4. CASE Joined
      BY <2>2, <2>4
    <2>5. CASE Answered
      <3>1. m \notin Joins(u) /\ (m \in AnswersWith(u) \/ m \in AnswersWithout(u))
        BY <2>5 DEF Joins, AnswersWith, AnswersWithout
      <3> QED
        BY <2>2, <2>5, <3>1 DEF AnswersWith, AnswersWithout
    <2>6. CASE Over
      BY <2>6
    <2> HIDE DEF Kept, Joined, Answered, Over
    <2> QED
      BY <1>4, <2>3, <2>4, <2>5, <2>6
  <1> HIDE DEF m
  <1>5. ASSUME UNCHANGED tables, m \notin Joins(u),
               \A kind \in Kinds : m \in SetsOf(u, kind) => u \notin DOMAIN data /\ ~Says(m)
        PROVE  Kept
    BY <1>5 DEF tables
  <1>6. ASSUME NEW p \in DOMAIN data, NEW f \in Fields, NEW v \in BOOLEAN, SetBoth(p, f, v),
               m \notin Joins(u),
               \A kind \in Kinds : m \in SetsOf(u, kind) <=> p = u /\ f = kind,
               f \in Kinds => (v <=> Says(m))
        PROVE  Kept
    <2>1. p \in People
      BY <1>3, DataIs
    <2>2. DOMAIN data' = DOMAIN data
      BY <1>3, <1>6, SetDataType DEF SetBoth
    <2>3. /\ rows'[u] = <<>> <=> rows[u] = <<>>
          /\ rows[u] # <<>> =>
                \A g \in Fields : rows'[u][1][g] = IF u = p /\ g = f THEN v ELSE rows[u][1][g]
      BY <1>3, <1>6, <2>1, SetRowFlags DEF SetBoth
    <2> QED
      BY <1>3, <1>6, <2>2, <2>3
  <1>7. CASE OnMuteCall(m)
    <2>1. /\ m.op = "MUTE" /\ m.field \in Kinds /\ m.field \in Fields /\ m.val \in BOOLEAN
          /\ m \notin Joins(u) /\ m.op # "VIDEO_STATUS"
          /\ \A kind \in Kinds : m \in SetsOf(u, kind) <=> m.user = u /\ m.field = kind
          /\ Says(m) <=> m.val
      BY <1>2, <1>7 DEF OnMuteCall, Joins, SetsOf, Says
    <2>2. CASE m.user \in DOMAIN data
      BY <1>6, <1>7, <2>1, <2>2 DEF OnMuteCall
    <2>3. CASE m.user \notin DOMAIN data
      BY <1>7, <2>3 DEF OnMuteCall, tables
    <2> QED
      BY <2>2, <2>3
  <1>8. CASE OnHostMute(m)
    <2>1. /\ m.op = "HOST_MUTE" /\ m.field \in Kinds /\ m.field \in Fields /\ m.val \in BOOLEAN
          /\ m \notin Joins(u) /\ m.op # "VIDEO_STATUS"
          /\ \A kind \in Kinds : m \in SetsOf(u, kind) <=> m.user = u /\ m.field = kind
          /\ Says(m) <=> m.val
      BY <1>2, <1>3, <1>8 DEF OnHostMute, Joins, SetsOf, Says
    <2>2. CASE m.user \in DOMAIN data
      <3>1. (m.field = "audio" /\ m.val) \in BOOLEAN
        OBVIOUS
      <3>2. DOMAIN SetData(m.user, "audio", m.field = "audio" /\ m.val) = DOMAIN data
        BY <1>3, <2>2, <3>1, SetDataType
      <3>3. m.user \in People
        BY <1>3, <2>2, DataIs
      <3>4. /\ rows'[u] = <<>> <=> rows[u] = <<>>
            /\ rows[u] # <<>> =>
                  \A g \in Fields : rows'[u][1][g] = IF u = m.user /\ g = m.field
                                                       THEN m.val ELSE rows[u][1][g]
        BY <1>3, <1>8, <2>1, <2>2, <3>3, SetRowFlags DEF OnHostMute
      <3>5. DOMAIN data' = DOMAIN data
        BY <1>8, <2>2, <3>2 DEF OnHostMute
      <3> QED
        BY <1>3, <2>1, <2>2, <3>4, <3>5
    <2>3. CASE m.user \notin DOMAIN data
      BY <1>8, <2>3 DEF OnHostMute, tables
    <2> QED
      BY <2>2, <2>3
  <1>9. CASE OnStreamRequest(m)
    <2>1. /\ m.user \in People /\ m \notin Joins(u)
          /\ \A kind \in Kinds : m \notin SetsOf(u, kind)
      BY <1>2, <1>9 DEF OnStreamRequest, Joins, SetsOf
    <2>2. /\ rows'[u] = <<>> <=> rows[u] = <<>>
          /\ rows[u] # <<>> => \A g \in Kinds : rows'[u][1][g] = rows[u][1][g]
      <3>1. PICK b \in BOOLEAN : b = TRUE
        BY <1>3
      <3>2. /\ SetRow(m.user, "active", b)[u] = <<>> <=> rows[u] = <<>>
            /\ rows[u] # <<>> =>
                  \A g \in Fields : SetRow(m.user, "active", b)[u][1][g]
                                      = IF u = m.user /\ g = "active" THEN b ELSE rows[u][1][g]
        BY <1>3, <2>1, SetRowFlags
      <3> QED
        BY <1>3, <1>9, <3>1, <3>2 DEF OnStreamRequest
    <2> QED
      BY <1>9, <2>1, <2>2 DEF OnStreamRequest
  <1>10. CASE OnVideoStatus(m)
    <2>1. /\ m.op = "VIDEO_STATUS" /\ m.user \in People /\ m.val \in BOOLEAN
          /\ m \notin Joins(u) /\ ~Says(m)
          /\ \A kind \in Kinds : m \in SetsOf(u, kind) <=> m.user = u /\ kind = "video"
      BY <1>2, <1>10 DEF OnVideoStatus, Joins, SetsOf, Says
    <2>2. CASE m.user \in DOMAIN data
      <3>1. DOMAIN data' = DOMAIN data
        BY <1>10, <2>2 DEF OnVideoStatus
      <3>2. CASE rows[m.user] = <<>>
        BY <1>10, <2>1, <2>2, <3>1, <3>2 DEF OnVideoStatus
      <3>3. CASE rows[m.user] # <<>>
        <4>1. rows' = VideoRows(m.user, m.val)
          BY <1>10, <2>2, <3>3 DEF OnVideoStatus, VideoRows
        <4>2. /\ VideoRows(m.user, m.val)[u] = <<>> <=> rows[u] = <<>>
              /\ rows[u] # <<>> =>
                    \A g \in Kinds :
                       IF u = m.user /\ g = "video"
                         THEN ~VideoRows(m.user, m.val)[u][1][g]
                         ELSE VideoRows(m.user, m.val)[u][1][g] = rows[u][1][g]
          <5> HIDE DEF Kinds
          <5> QED
            BY <1>3, <2>1, <3>3, VideoRowsFlags
        <4> QED
          BY <2>1, <2>2, <3>1, <4>1, <4>2
      <3> QED
        BY <3>2, <3>3
    <2>3. CASE m.user \notin DOMAIN data
      BY <1>5, <1>10, <2>1, <2>3 DEF OnVideoStatus
    <2> QED
      BY <2>2, <2>3
  <1>11. CASE OnStatus(m)
    <2>1. /\ m.op # "DATA" /\ m.field \in Fields /\ m.val \in BOOLEAN /\ m \notin Joins(u)
          /\ \A kind \in Kinds : m \notin SetsOf(u, kind)
      BY <1>2, <1>11 DEF OnStatus, Joins, SetsOf
    <2>2. CASE m.user \in DOMAIN data
      <3>1. SetBoth(m.user, "left", m.val)
        BY <1>11, <2>2 DEF OnStatus, SetKnown
      <3> QED
        BY <1>3, <1>6, <2>1, <2>2, <3>1
    <2>3. CASE m.user \notin DOMAIN data
      BY <1>5, <1>11, <2>1, <2>3 DEF OnStatus, SetKnown
    <2> QED
      BY <2>2, <2>3
  <1>12. CASE OnNewParticipant(m)
    <2>1. /\ m \in Messages /\ m.op = "NEW_PARTICIPANT" /\ m.user \in People /\ data' = data
          /\ rows' = [rows EXCEPT ![m.user] = Append(@, Fresh)]
          /\ \A kind \in Kinds : m \notin SetsOf(u, kind)
      BY <1>2, <1>12 DEF OnNewParticipant, SetsOf
    <2>2. CASE m.user = u
      <3>1. rows[u] \in Seq(Info) /\ Fresh \in Info /\ rows'[u] = Append(rows[u], Fresh)
        BY <1>3, <2>1, <2>2, FreshType
      <3>2. rows'[u] # <<>>
        BY <3>1
      <3>3. rows[u] # <<>> => rows'[u][1] = rows[u][1]
        <4>1. rows[u] # <<>> => 1 \in DOMAIN rows[u]
          BY <3>1, TakenQueue
        <4> QED
          BY <3>1, <4>1, GrownQueue
      <3>4. rows[u] = <<>> => \A kind \in Kinds : ~rows'[u][1][kind]
        <4>1. rows[u] = <<>> => rows'[u][1] = Fresh
          BY <3>1
        <4>2. \A kind \in Kinds : ~Fresh[kind]
          BY DEF Fresh, Fields, Kinds
        <4> QED
          BY <4>1, <4>2
      <3>5. m \in Joins(u)
        BY <2>1, <2>2 DEF Joins
      <3> QED
        BY <2>1, <3>2, <3>3, <3>4, <3>5
    <2>3. CASE m.user # u
      <3>1. rows'[u] = rows[u] /\ m \notin Joins(u)
        BY <1>3, <2>1, <2>3 DEF Joins
      <3> QED
        BY <2>1, <3>1
    <2> QED
      BY <2>2, <2>3
  <1>13. CASE OnRemoval(m)
    BY <1>5, <1>13 DEF OnRemoval, Joins, SetsOf
  <1>14. CASE OnEnd(m)
    BY <1>3, <1>14 DEF OnEnd, NoRows, NoData
  <1>15. CASE OnData(m)
    BY <1>1, <1>15 DEF OnData
  <1>16. CASE ~inCall /\ UNCHANGED <<tables, inCall>>
    BY <1>16 DEF tables
  <1> HIDE DEF Kept, Joined, Answered, Over
  <1> QED
    BY <1>7, <1>8, <1>9, <1>10, <1>11, <1>12, <1>13, <1>14, <1>15, <1>16 DEF Receive, m

\* The server leaves a user alone, or tells the device what it does.
QuietOf(u) ==
    /\ toClient' = toClient
    /\ u \in members' => u \in members
    /\ u \in gone' <=> u \in gone
    /\ \A kind \in Kinds : srv'[u][kind] <=> srv[u][kind]

TellsOf(u, m) ==
    /\ toClient' = Append(toClient, m)
    /\ m \in AnswersWith(u) => u \in members
    /\ m \in AnswersWithout(u) => u \notin members'
    /\ IF m \in Joins(u) THEN u \notin gone /\ u \in gone'
       ELSE /\ u \in members' => u \in members
            /\ u \in gone' <=> u \in gone
    /\ \A kind \in Kinds :
          IF m \in SetsOf(u, kind) THEN u \in members /\ (srv'[u][kind] <=> Says(m))
                                   ELSE srv'[u][kind] <=> srv[u][kind]

LEMMA ServerStepOf ==
    ASSUME TypeOK, KnownInv, ServerStep, NEW u \in Users
    PROVE  /\ QuietOf(u) \/ \E m \in Received : TellsOf(u, m)
           /\ toServer # <<>> /\ toServer' = Tail(toServer)
           /\ Head(toServer) \in Removals(u) => u \notin members'
           /\ \A kind \in Kinds :
                 Head(toServer) \in HostMutesOf(u, kind) /\ u \in members' =>
                    \E m \in SetsOf(u, kind) : toClient' = Append(toClient, m)
  <1> DEFINE m == Head(toServer)
             Goal == /\ QuietOf(u) \/ \E n \in Received : TellsOf(u, n)
                     /\ m \in Removals(u) => u \notin members'
                     /\ \A kind \in Kinds :
                           m \in HostMutesOf(u, kind) /\ u \in members' =>
                              \E n \in SetsOf(u, kind) : toClient' = Append(toClient, n)
  <1>1. toServer # <<>> /\ toServer' = Tail(toServer) /\ Serve(m)
    BY DEF ServerStep
  <1>2. m \in Messages /\ m \in Received /\ Addressed(m)
    BY <1>1, QueueTypes, TakenQueue DEF KnownInv, RequestsAddressed, Received
  <1>3. SUFFICES Goal
    BY <1>1
  <1> HIDE DEF m
  <1>4. /\ srv \in [People -> Info] /\ u \in People /\ Self \in People /\ u # Self
        /\ m.user \in People /\ m.field \in Fields /\ m.val \in BOOLEAN /\ m.op \in Ops
        /\ Kinds \subseteq Fields
        /\ m.op \in {"MUTE", "HOST_MUTE"} => m.field \in Kinds
    BY <1>2, SelfAssumption DEF TypeOK, Messages, People, Fields
  <1>5. CASE m.op \in {"MUTE", "VIDEO_STATUS", "STREAM_REQUEST"}
    <2>1. UNCHANGED <<members, gone, toClient>>
      BY <1>1, <1>5 DEF Serve, server
    <2>2. srv'[u] = srv[u]
      BY <1>1, <1>4, <1>5 DEF Serve, SetSrv, server
    <2>3. \A kind \in Kinds : m \notin HostMutesOf(u, kind)
      BY <1>5 DEF HostMutesOf
    <2>4. m \notin Removals(u)
      BY <1>5 DEF Removals
    <2> QED
      BY <2>1, <2>2, <2>3, <2>4 DEF QuietOf
  <1>6. CASE m.op = "HOST_MUTE"
    <2>1. /\ m \notin Removals(u) /\ m \notin Joins(u)
          /\ m \notin AnswersWith(u) /\ m \notin AnswersWithout(u)
          /\ UNCHANGED <<members, gone>>
      BY <1>1, <1>6 DEF Removals, Joins, AnswersWith, AnswersWithout, Serve, server
    <2>2. \A kind \in Kinds : /\ m \in SetsOf(u, kind) <=> m.user = u /\ m.field = kind
                              /\ m \in HostMutesOf(u, kind) => m \in SetsOf(u, kind)
      BY <1>2, <1>6 DEF SetsOf, HostMutesOf
    <2>3. CASE m.user \in members /\ SetSrv(m.user, m.field, m.val) /\ Push(m)
      <3>1. \A g \in Fields : srv'[u][g] = IF u = m.user /\ g = m.field THEN m.val ELSE srv[u][g]
        BY <1>4, <2>3, SetSrvFlags
      <3>2. Says(m) <=> m.val
        BY <1>6 DEF Says
      <3>3. TellsOf(u, m)
        BY <1>4, <2>1, <2>2, <2>3, <3>1, <3>2 DEF TellsOf, Push
      <3> QED
        BY <1>2, <2>1, <2>2, <2>3, <3>3 DEF Push
    <2>4. CASE UNCHANGED <<srv, toClient>> /\ (m.user \notin members \/ Self \notin members)
      <3>1. QuietOf(u)
        BY <2>1, <2>4 DEF QuietOf
      <3>2. \A kind \in Kinds : m \in HostMutesOf(u, kind) => u \notin members'
        BY <2>1, <2>4 DEF HostMutesOf, KnownInv, AllOrNobody
      <3> QED
        BY <2>1, <3>1, <3>2
    <2> QED
      BY <1>1, <1>6, <2>3, <2>4 DEF Serve, server
  <1>7. CASE m.op = "REMOVE_USER"
    <2>1. /\ \A kind \in Kinds : m \notin HostMutesOf(u, kind)
          /\ UNCHANGED <<srv, gone, toClient>>
          /\ members' \subseteq members
          /\ m.user \notin members' \/ (Self \notin members /\ members' = members)
      BY <1>1, <1>7 DEF HostMutesOf, Serve, server
    <2>2. m \in Removals(u) => u \notin members'
      BY <2>1 DEF Removals, KnownInv, AllOrNobody
    <2> QED
      BY <2>1, <2>2 DEF QuietOf
  <1>8. CASE m.op = "GET_CALL_DATA"
    <2>1. m \notin Removals(u) /\ \A kind \in Kinds : m \notin HostMutesOf(u, kind)
      BY <1>8 DEF Removals, HostMutesOf
    <2>2. CASE Push(Snapshot([p \in members |-> srv[p]])) /\ UNCHANGED server
      <3> DEFINE n == Snapshot([p \in members |-> srv[p]])
      <3>1. n \in Received
        BY DataIs DEF TypeOK, Snapshot, Received
      <3>2. DOMAIN n.data = members /\ n.op = "DATA"
        BY DEF Snapshot
      <3>3. toClient' = Append(toClient, n)
        BY <2>2 DEF Push
      <3> HIDE DEF n
      <3>4. /\ n \in AnswersWith(u) => u \in members
            /\ n \in AnswersWithout(u) => u \notin members
            /\ n \notin Joins(u) /\ \A kind \in Kinds : n \notin SetsOf(u, kind)
        BY <3>2 DEF AnswersWith, AnswersWithout, Joins, SetsOf
      <3>5. TellsOf(u, n)
        BY <2>2, <3>3, <3>4 DEF TellsOf, server
      <3> QED
        BY <2>1, <3>1, <3>5
    <2>3. CASE UNCHANGED <<server, toClient>>
      BY <2>1, <2>3 DEF QuietOf, server
    <2> QED
      BY <1>1, <1>8, <2>2, <2>3 DEF Serve
  <1>9. CASE Self \notin members /\ UNCHANGED <<server, toClient>>
    <2>1. u \notin members' /\ QuietOf(u)
      BY <1>9 DEF QuietOf, server, KnownInv, AllOrNobody
    <2> QED
      BY <2>1
  <1> HIDE DEF Goal
  <1> QED
    BY <1>1, <1>5, <1>6, <1>7, <1>8, <1>9 DEF Serve

\* So do the others: every flag they set, and who comes and goes, is told.
LEMMA OthersOf ==
    ASSUME TypeOK, Others, NEW u \in Users
    PROVE  \E m \in Received : TellsOf(u, m)
  <1>1. PICK m \in Messages : Push(m) /\ Told(m)
    BY OthersTell
  <1>2. /\ srv \in [People -> Info] /\ u \in People /\ Self \in People /\ u # Self
        /\ m.user \in People /\ m.field \in Fields /\ m.val \in BOOLEAN /\ m.op \in Ops
        /\ Kinds \subseteq Fields /\ m \in Received
        /\ m.op \in {"MUTE", "HOST_MUTE"} => m.field \in Kinds
    BY SelfAssumption DEF TypeOK, Messages, People, Fields, Received
  <1>3. toClient' = Append(toClient, m)
    BY <1>1 DEF Push
  <1>4. m \notin AnswersWith(u) /\ m \notin AnswersWithout(u)
    BY <1>2 DEF AnswersWith, AnswersWithout, Ops
  <1>5. CASE /\ m.op \in {"MUTE", "HOST_MUTE"} /\ m.user \in members
             /\ SetSrv(m.user, m.field, m.val) /\ UNCHANGED <<members, gone, newcomers>>
    <2>1. \A g \in Fields : srv'[u][g] = IF u = m.user /\ g = m.field THEN m.val ELSE srv[u][g]
      BY <1>2, <1>5, SetSrvFlags
    <2>2. /\ \A kind \in Kinds : m \in SetsOf(u, kind) <=> m.user = u /\ m.field = kind
          /\ Says(m) <=> m.val
          /\ m \notin Joins(u)
      BY <1>5 DEF SetsOf, Says, Joins
    <2>3. TellsOf(u, m)
      BY <1>2, <1>3, <1>4, <1>5, <2>1, <2>2 DEF TellsOf
    <2> QED
      BY <1>2, <2>3
  <1>6. CASE /\ m.op = "VIDEO_STATUS" /\ m.user \in members
             /\ srv' = [srv EXCEPT ![m.user]["active"] = TRUE, ![m.user]["video"] = FALSE]
             /\ UNCHANGED <<members, gone, newcomers>>
    <2>1. \A g \in Kinds : IF u = m.user /\ g = "video" THEN ~srv'[u][g]
                           ELSE srv'[u][g] = srv[u][g]
      BY <1>2, <1>6 DEF Info, Fields, Kinds
    <2>2. /\ \A kind \in Kinds : m \in SetsOf(u, kind) <=> m.user = u /\ kind = "video"
          /\ ~Says(m) /\ m \notin Joins(u)
      BY <1>6 DEF SetsOf, Says, Joins
    <2>3. TellsOf(u, m)
      BY <1>3, <1>4, <1>6, <2>1, <2>2 DEF TellsOf
    <2> QED
      BY <1>2, <2>3
  <1>7. CASE /\ m.op \in {"LEAVE_CALL", "REMOVE_USER", "END_CALL"}
             /\ members' \subseteq members /\ UNCHANGED <<srv, gone, newcomers>>
    <2>1. m \notin Joins(u) /\ \A kind \in Kinds : m \notin SetsOf(u, kind)
      BY <1>7 DEF SetsOf, Joins
    <2>2. TellsOf(u, m)
      BY <1>3, <1>4, <1>7, <2>1 DEF TellsOf
    <2> QED
      BY <1>2, <2>2
  <1>8. CASE /\ m.op = "NEW_PARTICIPANT" /\ m.user \in Users \ gone
             /\ members' = members \cup {m.user} /\ gone' = gone \cup {m.user}
             /\ newcomers' = newcomers \cup {m.user} /\ UNCHANGED srv
    <2>1. (m \in Joins(u) <=> m.user = u) /\ \A kind \in Kinds : m \notin SetsOf(u, kind)
      BY <1>8 DEF SetsOf, Joins
    <2>2. TellsOf(u, m)
      BY <1>3, <1>4, <1>8, <2>1 DEF TellsOf
    <2> QED
      BY <1>2, <2>2
  <1> QED
    BY <1>1, <1>5, <1>6, <1>7, <1>8 DEF Told

\* What the server and the others do, as it matters for one user.
LEMMA ServerOf ==
    ASSUME TypeOK, KnownInv, ServerStep \/ Others, NEW u \in Users
    PROVE  /\ UNCHANGED device
           /\ QuietOf(u) \/ \E m \in Received : TellsOf(u, m)
           /\ u \in members' /\ Absent(toServer', Removals(u)) => Absent(toServer, Removals(u))
           /\ \A kind \in Kinds :
                 u \in members' /\ ~Absent(toServer, HostMutesOf(u, kind)) =>
                    \/ ~Absent(toServer', HostMutesOf(u, kind))
                    \/ ~Absent(toClient', SetsOf(u, kind))
  <1>1. CASE Others
    <2>1. UNCHANGED <<device, toServer>>
      BY <1>1, OthersTell
    <2>2. \E m \in Received : TellsOf(u, m)
      BY <1>1, OthersOf
    <2> QED
      BY <2>1, <2>2
  <1>2. CASE ServerStep
    <2>1. /\ toServer \in Seq(Messages) /\ toClient \in Seq(Received)
          /\ Messages \subseteq Received /\ UNCHANGED device
      BY <1>2, QueueTypes DEF Received, ServerStep
    <2>2. /\ QuietOf(u) \/ \E m \in Received : TellsOf(u, m)
          /\ toServer # <<>> /\ toServer' = Tail(toServer)
          /\ Head(toServer) \in Removals(u) => u \notin members'
          /\ \A kind \in Kinds :
                Head(toServer) \in HostMutesOf(u, kind) /\ u \in members' =>
                   \E m \in SetsOf(u, kind) : toClient' = Append(toClient, m)
      BY <1>2, ServerStepOf
    <2>3. u \in members' /\ Absent(toServer', Removals(u)) => Absent(toServer, Removals(u))
      BY <2>1, <2>2, TakenLatest
    <2>4. ASSUME NEW kind \in Kinds, u \in members', ~Absent(toServer, HostMutesOf(u, kind))
          PROVE  \/ ~Absent(toServer', HostMutesOf(u, kind))
                 \/ ~Absent(toClient', SetsOf(u, kind))
      <3>1. CASE Head(toServer) \in HostMutesOf(u, kind)
        <4>1. PICK m \in SetsOf(u, kind) : toClient' = Append(toClient, m)
          BY <2>2, <2>4, <3>1
        <4>2. m \in Received
          BY <2>1 DEF SetsOf
        <4> QED
          BY <2>1, <4>1, <4>2, GrownLatest
      <3>2. CASE Head(toServer) \notin HostMutesOf(u, kind)
        BY <2>1, <2>2, <2>4, <3>2, TakenLatest
      <3> QED
        BY <3>1, <3>2
    <2> QED
      BY <2>1, <2>2, <2>3, <2>4
  <1> QED
    BY <1>1, <1>2

\* A user is announced once, before it is named.
LEMMA AnnouncedStep ==
    ASSUME TypeOK, KnownInv, [Next]_vars, NEW u \in Users, Announced(u)
    PROVE  Announced(u)'
  <1> DEFINE J == Joins(u)
             A == Joins(u) \cup AnswersWith(u)
             W == AnswersWithout(u)
  <1>1. toClient \in Seq(Received)
    BY QueueTypes
  <1>2. /\ NoneAfter(toClient, A, J)
        /\ rows[u] # <<>> => Absent(toClient, J)
        /\ u \in members => SomeAfter(toClient, W, J)
        /\ u \notin gone => Unheard(u)
    BY DEF Announced
  <1>3. CASE UNCHANGED <<toClient, members, gone, srv>> /\ (rows'[u] # <<>> => rows[u] # <<>>)
             /\ (u \in DOMAIN data' => u \in DOMAIN data)
    BY <1>2, <1>3 DEF Announced, Unheard
  <1>4. CASE Operation
    BY <1>3, <1>4, OperationOf, OperationKnows DEF server
  <1>5. CASE UNCHANGED vars
    BY <1>3, <1>5 DEF vars, tables, server
  <1>6. CASE Receive
    <2> DEFINE m == Head(toClient)
    <2>1. toClient # <<>> /\ toClient' = Tail(toClient) /\ UNCHANGED <<members, gone, srv>>
      BY <1>6, ReceiveKnows DEF server
    <2>2. /\ rows'[u] # <<>> => rows[u] # <<>> \/ m \in J
          /\ u \in DOMAIN data' => u \in DOMAIN data \/ m \in AnswersWith(u)
      BY <1>6, ReceiveOf
    <2>3. NoneAfter(toClient', A, J) /\ (m \in J => Absent(toClient', J))
      BY <1>1, <1>2, <2>1, TakenOrder
    <2>4. u \in members' => SomeAfter(toClient', W, J)
      BY <1>1, <1>2, <2>1, TakenOrder
    <2>5. \A T : Absent(toClient, T) => Absent(toClient', T) /\ m \notin T
      BY <1>1, <2>1, TakenLatest
    <2>6. ASSUME u \notin gone
          PROVE  Unheard(u)'
      BY <1>2, <2>1, <2>2, <2>5, <2>6 DEF Unheard
    <2> HIDE DEF m
    <2> QED
      BY <1>2, <2>1, <2>2, <2>3, <2>4, <2>5, <2>6 DEF Announced
  <1>7. CASE ServerStep \/ Others
    <2>1. UNCHANGED <<rows, data>> /\ (QuietOf(u) \/ \E m \in Received : TellsOf(u, m))
      BY <1>7, ServerOf DEF device, tables
    <2>2. CASE QuietOf(u)
      BY <1>2, <2>1, <2>2 DEF QuietOf, Announced, Unheard
    <2>3. ASSUME NEW m \in Received, TellsOf(u, m)
          PROVE  Announced(u)'
      <3>1. /\ toClient' = Append(toClient, m)
            /\ m \in AnswersWith(u) => u \in members
            /\ m \in W => u \notin members'
            /\ m \in J => u \notin gone /\ u \in gone'
            /\ m \notin J => /\ u \in members' => u \in members
                             /\ u \in gone' <=> u \in gone
        BY <2>3 DEF TellsOf
      <3>2. m \in J => m \notin W /\ m \notin AnswersWith(u)
        BY DEF Joins, AnswersWithout, AnswersWith, Messages, Ops
      <3>3. m \in J => Absent(toClient, A) /\ rows[u] = <<>>
        BY <1>2, <3>1 DEF Unheard, Absent
      <3>4. NoneAfter(toClient', A, J)
        BY <1>1, <1>2, <3>1, <3>3, GrownOrder
      <3>5. u \in members' => SomeAfter(toClient', W, J)
        BY <1>1, <1>2, <3>1, <3>2, GrownOrder
      <3>6. \A T : m \notin T /\ Absent(toClient, T) => Absent(toClient', T)
        BY <1>1, <3>1, GrownLatest
      <3>7. rows'[u] # <<>> => Absent(toClient', J)
        BY <1>2, <2>1, <3>3, <3>6
      <3>8. ASSUME u \notin gone'
            PROVE  Unheard(u)'
        <4>1. u \notin gone /\ m \notin J /\ u \notin members /\ u \notin members'
              /\ m \notin AnswersWith(u)
          BY <1>2, <3>1, <3>8 DEF Unheard
        <4>2. \A kind \in Kinds : m \notin SetsOf(u, kind) /\ (srv'[u][kind] <=> srv[u][kind])
          BY <2>3, <4>1 DEF TellsOf
        <4> QED
          BY <1>2, <2>1, <3>6, <4>1, <4>2 DEF Unheard
      <3> QED
        BY <3>4, <3>5, <3>7, <3>8 DEF Announced
    <2> QED
      BY <2>1, <2>2, <2>3
  <1> QED
    BY <1>4, <1>5, <1>6, <1>7 DEF Next

\* An operation of the device.
LEMMA OperationShows ==
    ASSUME TypeOK, Operation, NEW u \in Users, RowInv(u), With(u)', NEW kind \in Kinds
    PROVE  Shown(u, kind)'
  <1>1. toServer \in Seq(Messages) /\ UNCHANGED <<toClient, srv, members, inCall>> /\ crashed = "no"
    BY QueueTypes, OperationKnows DEF server
  <1>2. \A m \in Removals(u) : toServer' # Append(toServer, m)
    <2>1. \A m \in Removals(u) : m \in Messages
      BY DEF Removals
    <2>2. \A m \in Removals(u) : ~Absent(Append(toServer, m), Removals(u))
      BY <1>1, <2>1, GrownLatest
    <2> QED
      BY <2>2 DEF With
  <1>3. /\ rows'[u] = <<>> <=> rows[u] = <<>>
        /\ u \in DOMAIN data' <=> u \in DOMAIN data
        /\ toServer' = toServer \/ \E m \in Messages : toServer' = Append(toServer, m)
        /\ rows[u] # <<>> =>
              \/ rows'[u][1][kind] = rows[u][1][kind]
              \/ /\ u \in DOMAIN data
                 /\ \E m \in HostMutesOf(u, kind) : toServer' = Append(toServer, m)
    BY <1>2, OperationOf
  <1>4. ASSUME NEW T, Absent(toServer', T)
        PROVE  Absent(toServer, T)
    <2>1. \A m \in Messages : Absent(Append(toServer, m), T) => Absent(toServer, T)
      BY <1>1, GrownLatest
    <2> QED
      BY <1>3, <1>4, <2>1
  <1>5. Shown(u, kind)
    BY <1>1, <1>4 DEF With, RowInv
  <1>6. \A m \in HostMutesOf(u, kind) : ~Absent(Append(toServer, m), HostMutesOf(u, kind))
    <2>1. \A m \in HostMutesOf(u, kind) : m \in Messages
      BY DEF HostMutesOf
    <2> QED
      BY <1>1, <2>1, GrownLatest
  <1>7. ASSUME rows[u] # <<>>
        PROVE  rows'[u][1][kind] = rows[u][1][kind]
               \/ (u \in DOMAIN data /\ ~Absent(toServer', HostMutesOf(u, kind)))
    BY <1>3, <1>6, <1>7
  <1> QED
    BY <1>1, <1>3, <1>4, <1>5, <1>7 DEF Shown

\* A handler.
LEMMA ReceiveShows ==
    ASSUME TypeOK, Receive, NEW u \in Users, RowInv(u), With(u)', NEW kind \in Kinds
    PROVE  Shown(u, kind)'
  <1> DEFINE m == Head(toClient)
             T == SetsOf(u, kind)
  <1>1. /\ toClient \in Seq(Received) /\ toClient # <<>> /\ toClient' = Tail(toClient)
        /\ UNCHANGED <<toServer, srv, members>> /\ inCall /\ crashed = "no"
        /\ inCall' /\ crashed' = "no"
    BY QueueTypes, ReceiveKnows DEF server, With
  <1>2. Shown(u, kind) /\ Announced(u) /\ u \in members
    BY <1>1 DEF With, RowInv
  <1>3. /\ rows'[u] # <<>> => rows[u] # <<>> \/ m \in Joins(u)
        /\ rows'[u] = <<>> => rows[u] = <<>> /\ m \notin Joins(u)
        /\ \/ m \in AnswersWith(u) /\ u \in DOMAIN data'
           \/ m \in AnswersWithout(u) /\ u \notin DOMAIN data'
           \/ u \in DOMAIN data' <=> u \in DOMAIN data
        /\ rows[u] # <<>> => (rows'[u][1][kind] <=> IF m \in T /\ u \in DOMAIN data
                                                       THEN Says(m) ELSE rows[u][1][kind])
        /\ rows[u] = <<>> /\ m \in Joins(u) => ~rows'[u][1][kind]
        /\ m \in T => u \in DOMAIN data \/ ~Says(m)
    BY <1>1, ReceiveOf
  <1>4. /\ \A n : Latest(toClient', T, n) => Latest(toClient, T, n)
        /\ m \in T /\ Absent(toClient', T) => Latest(toClient, T, m)
        /\ m \notin T => (Absent(toClient', T) <=> Absent(toClient, T))
        /\ m \notin Joins(u) => (Absent(toClient', Joins(u)) <=> Absent(toClient, Joins(u)))
    BY <1>1, TakenLatest
  <1>5. /\ m \in AnswersWith(u) => Absent(toClient', Joins(u))
        /\ m \in AnswersWithout(u) => ~Absent(toClient', Joins(u))
    BY <1>1, <1>2, TakenOrder DEF Announced
  <1>6. rows[u] # <<>> => Absent(toClient, Joins(u)) /\ Absent(toClient', Joins(u))
    BY <1>1, <1>2, TakenLatest DEF Announced
  <1>7. m \in Joins(u) => m \notin T /\ m \notin AnswersWith(u) /\ m \notin AnswersWithout(u)
    BY DEF Joins, SetsOf, AnswersWith, AnswersWithout
  <1>8. /\ \A n : Latest(toClient, T, n) => (Says(n) <=> srv[u][kind])
        /\ rows[u] # <<>> /\ Absent(toClient, T) =>
              \/ rows[u][1][kind] <=> srv[u][kind]
              \/ ~Absent(toServer, HostMutesOf(u, kind))
        /\ rows[u] = <<>> => /\ u \notin DOMAIN data /\ ~Absent(toClient, Joins(u))
                             /\ Absent(toClient, T) => ~srv[u][kind]
        /\ rows[u] # <<>> /\ u \notin DOMAIN data => ~rows[u][1][kind]
    BY <1>2 DEF Shown
  <1>9. SUFFICES /\ \A n : Latest(toClient', T, n) => (Says(n) <=> srv[u][kind])
                 /\ rows'[u] # <<>> /\ Absent(toClient', T) =>
                       \/ rows'[u][1][kind] <=> srv[u][kind]
                       \/ ~Absent(toServer, HostMutesOf(u, kind))
                 /\ rows'[u] = <<>> => /\ u \notin DOMAIN data' /\ ~Absent(toClient', Joins(u))
                                       /\ Absent(toClient', T) => ~srv[u][kind]
                 /\ rows'[u] # <<>> /\ u \notin DOMAIN data' => ~rows'[u][1][kind]
    BY <1>1 DEF Shown
  <1> HIDE DEF m, T
  <1>10. ASSUME rows'[u] # <<>>, Absent(toClient', T)
         PROVE  \/ rows'[u][1][kind] <=> srv[u][kind]
                \/ ~Absent(toServer, HostMutesOf(u, kind))
    <2>1. CASE rows[u] # <<>>
      BY <1>3, <1>4, <1>8, <1>10, <2>1
    <2>2. CASE rows[u] = <<>>
      BY <1>3, <1>4, <1>7, <1>8, <1>10, <2>2
    <2> QED
      BY <2>1, <2>2
  <1>11. ASSUME rows'[u] = <<>>
         PROVE  /\ u \notin DOMAIN data' /\ ~Absent(toClient', Joins(u))
                /\ Absent(toClient', T) => ~srv[u][kind]
    BY <1>3, <1>4, <1>5, <1>8, <1>11
  <1>12. ASSUME rows'[u] # <<>>, u \notin DOMAIN data'
         PROVE  ~rows'[u][1][kind]
    BY <1>3, <1>5, <1>6, <1>7, <1>8, <1>12
  <1> QED
    BY <1>4, <1>8, <1>10, <1>11, <1>12

\* The server and the others.
LEMMA ServerShows ==
    ASSUME TypeOK, KnownInv, ServerStep \/ Others, NEW u \in Users, RowInv(u), With(u)',
           NEW kind \in Kinds
    PROVE  Shown(u, kind)'
  <1> DEFINE T == SetsOf(u, kind)
  <1>1. /\ toClient \in Seq(Received) /\ UNCHANGED <<rows, data, inCall, crashed>>
        /\ inCall /\ crashed = "no" /\ u \in members'
    BY QueueTypes, ServerOf DEF device, tables, With
  <1>2. /\ QuietOf(u) \/ \E m \in Received : TellsOf(u, m)
        /\ Absent(toServer, Removals(u))
        /\ ~Absent(toServer, HostMutesOf(u, kind)) =>
              \/ ~Absent(toServer', HostMutesOf(u, kind))
              \/ ~Absent(toClient', T)
    BY <1>1, ServerOf DEF With
  <1>3. u \in members => Shown(u, kind)
    BY <1>1, <1>2 DEF With, RowInv
  <1>4. CASE QuietOf(u)
    BY <1>1, <1>2, <1>3, <1>4 DEF QuietOf, Shown
  <1>5. ASSUME NEW m \in Received, TellsOf(u, m)
        PROVE  Shown(u, kind)'
    <2>1. /\ toClient' = Append(toClient, m)
          /\ m \in Joins(u) => u \notin gone
          /\ m \notin Joins(u) => u \in members
          /\ IF m \in T THEN u \in members /\ (srv'[u][kind] <=> Says(m))
                        ELSE srv'[u][kind] <=> srv[u][kind]
      BY <1>1, <1>5 DEF TellsOf
    <2>2. /\ m \in T => ~Absent(toClient', T) /\ \A n : Latest(toClient', T, n) => n = m
          /\ m \notin T => /\ Absent(toClient', T) <=> Absent(toClient, T)
                           /\ \A n : Latest(toClient', T, n) => Latest(toClient, T, n)
          /\ Absent(toClient', Joins(u)) => Absent(toClient, Joins(u)) /\ m \notin Joins(u)
      BY <1>1, <2>1, GrownLatest
    <2>3. CASE m \in Joins(u)
      <3>1. /\ rows[u] = <<>> /\ u \notin DOMAIN data /\ ~srv[u][kind] /\ Absent(toClient, T)
        BY <2>1, <2>3 DEF RowInv, Announced, Unheard
      <3>2. m \notin T
        BY <2>3 DEF Joins, SetsOf
      <3>3. \A n : ~Latest(toClient, T, n)
        BY <3>1 DEF Absent, Latest
      <3> QED
        BY <1>1, <2>1, <2>2, <2>3, <3>1, <3>2, <3>3 DEF Shown
    <2>4. CASE m \notin Joins(u)
      <3>1. /\ \A n : Latest(toClient, T, n) => (Says(n) <=> srv[u][kind])
            /\ rows[u] # <<>> /\ Absent(toClient, T) =>
                  \/ rows[u][1][kind] <=> srv[u][kind]
                  \/ ~Absent(toServer, HostMutesOf(u, kind))
            /\ rows[u] = <<>> => /\ u \notin DOMAIN data /\ ~Absent(toClient, Joins(u))
                                 /\ Absent(toClient, T) => ~srv[u][kind]
            /\ rows[u] # <<>> /\ u \notin DOMAIN data => ~rows[u][1][kind]
        BY <1>3, <2>1, <2>4 DEF Shown
      <3>2. \A n : Latest(toClient', T, n) => (Says(n) <=> srv'[u][kind])
        BY <2>1, <2>2, <3>1
      <3>3. rows[u] # <<>> /\ Absent(toClient', T) =>
               \/ rows[u][1][kind] <=> srv'[u][kind]
               \/ ~Absent(toServer', HostMutesOf(u, kind))
        BY <1>2, <2>1, <2>2, <3>1
      <3>4. rows[u] = <<>> => /\ u \notin DOMAIN data /\ ~Absent(toClient', Joins(u))
                              /\ Absent(toClient', T) => ~srv'[u][kind]
        BY <2>1, <2>2, <3>1
      <3> QED
        BY <1>1, <3>1, <3>2, <3>3, <3>4 DEF Shown
    <2> QED
      BY <2>3, <2>4
  <1> QED
    BY <1>2, <1>4, <1>5

\* Every step keeps what is known of every other user.
LEMMA RowsStep == TypeOK /\ KnownInv /\ RowsInv /\ [Next]_vars => RowsInv'
  <1> SUFFICES ASSUME TypeOK, KnownInv, RowsInv, [Next]_vars, NEW u \in Users
               PROVE  RowInv(u)'
    BY DEF RowsInv
  <1>1. RowInv(u)
    BY DEF RowsInv
  <1>2. Announced(u)'
    BY <1>1, AnnouncedStep DEF RowInv
  <1>3. ASSUME With(u)', NEW kind \in Kinds
        PROVE  Shown(u, kind)'
    <2>1. CASE UNCHANGED vars
      <3>1. UNCHANGED <<rows, data, inCall, crashed, toServer, toClient, members, srv>>
        BY <2>1 DEF vars, tables, server
      <3>2. With(u)
        BY <1>3, <3>1 DEF With
      <3> QED
        BY <1>1, <3>1, <3>2 DEF RowInv, Shown
    <2> QED
      BY <1>1, <1>3, <2>1, OperationShows, ReceiveShows, ServerShows DEF Next
  <1> QED
    BY <1>2, <1>3 DEF RowInv, Kinds

\* At first every participant has a row, and nobody else is known.
LEMMA InitRows == Init => RowsInv
  <1> SUFFICES ASSUME Init, NEW u \in Users
               PROVE  RowInv(u)
    BY DEF RowsInv
  <1>1. PICK S \in SUBSET Users \ {{}}, copies \in {1, 2} :
            /\ members = S \cup {Self} /\ srv = [p \in People |-> Fresh]
            /\ data = [p \in S \cup {Self} |-> Fresh]
            /\ rows = [p \in People |-> IF p \in S \cup {Self}
                                          THEN [i \in 1 .. copies |-> Fresh] ELSE <<>>]
            /\ gone = S
    BY DEF Init
  <1>2. /\ toServer = <<>> /\ toClient = <<>> /\ u \in People /\ u # Self
        /\ \A T : Absent(toClient, T) /\ \A n : ~Latest(toClient, T, n)
        /\ DOMAIN toClient = {}
    <2>1. toServer = <<>> /\ toClient = <<>> /\ u \in People /\ u # Self
      BY SelfAssumption DEF Init, People
    <2>2. \A T : Absent(<<>>, T) /\ \A n : ~Latest(<<>>, T, n)
      BY NothingAbsent
    <2>3. DOMAIN toClient = {}
      BY <2>1, EmptySeq
    <2> QED
      BY <2>1, <2>2, <2>3
  <1>3. \A kind \in Kinds : ~Fresh[kind] /\ ~srv[u][kind]
    <2>1. \A kind \in Kinds : ~Fresh[kind]
      BY DEF Fresh, Fields, Kinds
    <2> QED
      BY <1>1, <1>2, <2>1
  <1>4. Announced(u)
    <2>1. u \notin gone => u \notin members /\ rows[u] = <<>> /\ u \notin DOMAIN data
      BY <1>1, <1>2
    <2> QED
      BY <1>2, <1>3, <2>1 DEF Announced, Unheard, NoneAfter, SomeAfter
  <1>5. ASSUME u \in members, NEW kind \in Kinds
        PROVE  Shown(u, kind)
    <2>1. u \in DOMAIN data /\ rows[u] = [i \in 1 .. copies |-> Fresh]
      BY <1>1, <1>2, <1>5
    <2>2. rows[u] # <<>> /\ rows[u][1] = Fresh
      BY <2>1
    <2> QED
      BY <1>2, <1>3, <2>1, <2>2 DEF Shown
  <1> QED
    BY <1>4, <1>5 DEF RowInv, With

LEMMA RowsInvariant == Spec => []RowsInv
  BY RowsStep, InitRows, KnownInvariant, PTL DEF Spec

\* Once everything is handled, the row the app shows of a participant has the
\* mutes the server has, in whatever order the device's own mutes as a host, the
\* events, the arrival of users and the answers to GET_CALL_DATA crossed.
THEOREM TheTruthIsShown == Spec => []RowsTellTheTruth
  <1>1. TypeOK /\ RowsInv => RowsTellTheTruth
    <2> SUFFICES ASSUME TypeOK, RowsInv, Settled, NEW u \in members \ {Self}
                 PROVE  rows[u] # <<>> /\ \A kind \in Kinds : rows[u][1][kind] = srv[u][kind]
      BY DEF RowsTellTheTruth
    <2>1. /\ u \in Users /\ rows[u] \in Seq(Info) /\ srv[u] \in Info
          /\ \A T : Absent(toClient, T) /\ Absent(toServer, T)
      BY NothingAbsent DEF TypeOK, People, Settled
    <2>2. With(u)
      BY <2>1 DEF With, Settled
    <2>3. \A kind \in Kinds : Shown(u, kind)
      BY <2>1, <2>2 DEF RowsInv, RowInv
    <2>4. rows[u] # <<>>
      BY <2>1, <2>3 DEF Shown, Kinds
    <2>5. rows[u][1] \in Info
      BY <2>1, <2>4, FirstRow, FreshType
    <2>6. \A kind \in Kinds : rows[u][1][kind] <=> srv[u][kind]
      BY <2>1, <2>3, <2>4 DEF Shown
    <2>7. \A kind \in Kinds : rows[u][1][kind] \in BOOLEAN /\ srv[u][kind] \in BOOLEAN
      BY <2>1, <2>5 DEF Info, Fields
    <2> QED
      BY <2>4, <2>6, <2>7
  <1> QED
    BY <1>1, RowsInvariant, TypeCorrect, PTL

=============================================================================
