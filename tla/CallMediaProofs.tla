---------------------------- MODULE CallMediaProofs ----------------------------
(***************************************************************************)
(* Theorems about CallMedia, for every set of users, every use of the call *)
(* and every bound.                                                        *)
(***************************************************************************)
EXTENDS CallMedia, QueueLemmas

-----------------------------------------------------------------------------
(* The tables of the participants.                                         *)

\* Setting a flag of a participant.
LEMMA InfoType ==
    ASSUME NEW i \in Info, NEW f \in Fields, NEW v \in BOOLEAN
    PROVE  [i EXCEPT ![f] = v] \in Info
  BY DEF Info

\* The flags of a new participant.
LEMMA FreshType == Fresh \in Info
  BY VideoCallAssumption DEF Fresh, Info

\* activeCallData.participants: the flags of some people.
LEMMA DataIs ==
    ASSUME NEW d
    PROVE  d \in DataOf <=> /\ DOMAIN d \subseteq People
                            /\ d \in [DOMAIN d -> Info]
  <1>1. ASSUME d \in DataOf
        PROVE  DOMAIN d \subseteq People /\ d \in [DOMAIN d -> Info]
    <2>1. PICK S \in SUBSET People : d \in [S -> Info]
      BY <1>1 DEF DataOf
    <2>2. DOMAIN d = S
      BY <2>1
    <2> QED
      BY <2>1, <2>2
  <1>2. ASSUME DOMAIN d \subseteq People, d \in [DOMAIN d -> Info]
        PROVE  d \in DataOf
    BY <1>2 DEF DataOf
  <1> QED
    BY <1>1, <1>2

\* A flag of a known user is set: nobody else is touched.
LEMMA SetDataType ==
    ASSUME data \in DataOf, NEW u \in DOMAIN data, NEW f \in Fields, NEW v \in BOOLEAN
    PROVE  /\ SetData(u, f, v) \in DataOf
           /\ DOMAIN SetData(u, f, v) = DOMAIN data
  <1>1. DOMAIN data \subseteq People /\ data \in [DOMAIN data -> Info]
    BY DataIs
  <1>2. [data[u] EXCEPT ![f] = v] \in Info
    BY <1>1, InfoType
  <1>3. SetData(u, f, v) = [data EXCEPT ![u] = [data[u] EXCEPT ![f] = v]]
    BY DEF SetData
  <1>4. /\ DOMAIN SetData(u, f, v) = DOMAIN data
        /\ SetData(u, f, v) \in [DOMAIN data -> Info]
    BY <1>1, <1>2, <1>3
  <1> QED
    BY <1>1, <1>4, DataIs

\* The first row of a user is replaced.
LEMMA FirstRow ==
    ASSUME NEW s \in Seq(Info), s # <<>>, NEW i \in Info
    PROVE  /\ [s EXCEPT ![1] = i] \in Seq(Info)
           /\ [s EXCEPT ![1] = i] # <<>>
           /\ [s EXCEPT ![1] = i][1] = i
           /\ s[1] \in Info
  <1>1. Len(s) \in Nat \ {0} /\ DOMAIN s = 1 .. Len(s) /\ s \in [1 .. Len(s) -> Info]
    BY EmptySeq, LenProperties
  <1>2. [s EXCEPT ![1] = i] \in [1 .. Len(s) -> Info]
    BY <1>1
  <1>3. [s EXCEPT ![1] = i] \in Seq(Info)
    BY <1>1, <1>2, IsASeq
  <1>4. 1 \in 1 .. Len(s)
    BY <1>1
  <1> QED
    BY <1>1, <1>2, <1>3, <1>4, QueueEntries

\* A flag of a user is set in the first row of that user, if there is one.
LEMMA SetRowType ==
    ASSUME rows \in [People -> Seq(Info)], NEW u \in People,
           NEW f \in Fields, NEW v \in BOOLEAN
    PROVE  /\ SetRow(u, f, v) \in [People -> Seq(Info)]
           /\ \A p \in People : p # u => SetRow(u, f, v)[p] = rows[p]
           /\ rows[u] # <<>> =>
                 /\ SetRow(u, f, v)[u] # <<>>
                 /\ SetRow(u, f, v)[u][1] = [rows[u][1] EXCEPT ![f] = v]
           /\ rows[u] = <<>> => SetRow(u, f, v) = rows
  <1>1. CASE rows[u] = <<>>
    BY <1>1 DEF SetRow
  <1>2. CASE rows[u] # <<>>
    <2> DEFINE i == [rows[u][1] EXCEPT ![f] = v]
               s == [rows[u] EXCEPT ![1] = i]
    <2>1. rows[u][1] \in Info
      BY <1>2, FirstRow, FreshType
    <2>2. i \in Info
      BY <2>1, InfoType
    <2>3. s \in Seq(Info) /\ s # <<>> /\ s[1] = i
      BY <1>2, <2>2, FirstRow
    <2>4. SetRow(u, f, v) = [rows EXCEPT ![u] = s]
      BY <1>2 DEF SetRow
    <2> HIDE DEF i, s
    <2>5. SetRow(u, f, v)[u] = s
      BY <2>4
    <2>6. SetRow(u, f, v) \in [People -> Seq(Info)]
      BY <2>3, <2>4
    <2> QED
      BY <1>2, <2>3, <2>4, <2>5, <2>6 DEF i
  <1> QED
    BY <1>1, <1>2

\* What OnVideoStatus writes into the rows.
VideoRows(u, v) ==
    [rows EXCEPT ![u][1]["active"] = v, ![u][1]["video"] = FALSE]

LEMMA VideoRowsType ==
    ASSUME rows \in [People -> Seq(Info)], NEW u \in People, rows[u] # <<>>,
           NEW v \in BOOLEAN
    PROVE  /\ VideoRows(u, v) \in [People -> Seq(Info)]
           /\ \A p \in People : p # u => VideoRows(u, v)[p] = rows[p]
           /\ VideoRows(u, v)[u] # <<>>
           /\ VideoRows(u, v)[u][1]
                = [rows[u][1] EXCEPT !["active"] = v, !["video"] = FALSE]
  <1> DEFINE i == [rows[u][1] EXCEPT !["active"] = v, !["video"] = FALSE]
             s == [rows[u] EXCEPT ![1] = i]
  <1>1. rows[u][1] \in Info /\ rows[u] \in Seq(Info) /\ 1 \in DOMAIN rows[u]
    BY FirstRow, FreshType, QueueEntries, TakenQueue
  <1>2. i \in Info
    BY <1>1 DEF Info
  <1>3. s \in Seq(Info) /\ s # <<>> /\ s[1] = i
    BY <1>2, FirstRow
  <1>4. VideoRows(u, v) = [rows EXCEPT ![u] = s]
    BY <1>1 DEF VideoRows
  <1> HIDE DEF i, s
  <1>5. /\ VideoRows(u, v)[u] = s
        /\ VideoRows(u, v) \in [People -> Seq(Info)]
        /\ \A p \in People : p # u => VideoRows(u, v)[p] = rows[p]
    BY <1>3, <1>4
  <1> QED
    BY <1>3, <1>5 DEF i

\* Both copies of a flag stay well typed, and the same people stay known.
LEMMA SetBothType ==
    ASSUME TypeOK, NEW u \in DOMAIN data, NEW f \in Fields, NEW v \in BOOLEAN,
           SetBoth(u, f, v)
    PROVE  data' \in DataOf /\ rows' \in [People -> Seq(Info)] /\ DOMAIN data' = DOMAIN data
  <1>1. u \in People /\ data \in DataOf /\ rows \in [People -> Seq(Info)]
    BY DataIs DEF TypeOK
  <1> QED
    BY <1>1, SetDataType, SetRowType DEF SetBoth

\* The same of a user who may be unknown.
LEMMA SetKnownType ==
    ASSUME TypeOK, NEW u, NEW f \in Fields, NEW v \in BOOLEAN, SetKnown(u, f, v)
    PROVE  data' \in DataOf /\ rows' \in [People -> Seq(Info)] /\ DOMAIN data' = DOMAIN data
  BY SetBothType DEF SetKnown, tables, TypeOK

\* Nobody is known after the end of the call.
LEMMA NoTables == NoData \in DataOf /\ NoRows \in [People -> Seq(Info)]
  <1>1. DOMAIN NoData = {} /\ NoData \in [{} -> Info]
    BY DEF NoData
  <1>2. <<>> \in Seq(Info)
    OBVIOUS
  <1> QED
    BY <1>1, <1>2, DataIs DEF NoRows

\* A user is removed from the data and loses a row.
LEMMA RemovedType ==
    ASSUME TypeOK, NEW u \in People
    PROVE  /\ [v \in DOMAIN data \ {u} |-> data[v]] \in DataOf
           /\ DropRow(u) \in [People -> Seq(Info)]
  <1>1. DOMAIN data \subseteq People /\ data \in [DOMAIN data -> Info]
    BY DataIs DEF TypeOK
  <1>2. [v \in DOMAIN data \ {u} |-> data[v]] \in DataOf
    BY <1>1, DataIs
  <1>3. rows \in [People -> Seq(Info)]
    BY DEF TypeOK
  <1>4. rows[u] # <<>> => Tail(rows[u]) \in Seq(Info)
    BY <1>3, TakenQueue
  <1> QED
    BY <1>2, <1>3, <1>4 DEF DropRow

\* A message about a participant.
LEMMA MsgType ==
    ASSUME NEW op \in Ops, NEW u \in People, NEW f \in Fields, NEW v \in BOOLEAN,
           op \in {"MUTE", "HOST_MUTE"} => f \in Kinds
    PROVE  Msg(op, u, f, v) \in Messages
  BY DEF Msg, Messages

\* What the device is sent.
Received == Messages \cup [op : {"DATA"}, data : DataOf]

\* A message is put into a queue.
LEMMA SentType ==
    ASSUME TypeOK
    PROVE  /\ \A m \in Messages : Emit(m) => toServer' \in Seq(Messages)
           /\ \A m \in Received : Push(m) => toClient' \in Seq(Received)
           /\ Messages \subseteq Received
  <1>1. toServer \in Seq(Messages) /\ toClient \in Seq(Received)
    BY DEF TypeOK, Received
  <1>2. \A m \in Messages : Append(toServer, m) \in Seq(Messages)
    BY <1>1, AppendProperties
  <1>3. \A m \in Received : Append(toClient, m) \in Seq(Received)
    BY <1>1, AppendProperties
  <1> QED
    BY <1>2, <1>3 DEF Emit, Push, Received

\* A flag at the server is set.
LEMMA SetSrvType ==
    ASSUME TypeOK, NEW u \in People, NEW f \in Fields, NEW v \in BOOLEAN, SetSrv(u, f, v)
    PROVE  srv' \in [People -> Info]
  <1>1. srv \in [People -> Info]
    BY DEF TypeOK
  <1>2. [srv[u] EXCEPT ![f] = v] \in Info
    BY <1>1, InfoType
  <1>3. srv' = [srv EXCEPT ![u] = [srv[u] EXCEPT ![f] = v]]
    BY DEF SetSrv
  <1> QED
    BY <1>1, <1>2, <1>3

-----------------------------------------------------------------------------
(* Type correctness.                                                       *)

\* The call is entered in a well typed state.
LEMMA InitType == Init => TypeOK
  <1> SUFFICES ASSUME Init
               PROVE  TypeOK
    OBVIOUS
  <1> PICK S \in SUBSET Users, copies \in {1, 2} :
        /\ members = S \cup {Self} /\ gone = S
        /\ srv = [u \in People |-> Fresh]
        /\ data = [u \in S \cup {Self} |-> Fresh]
        /\ rows = [u \in People |-> IF u \in S \cup {Self}
                                     THEN [i \in 1 .. copies |-> Fresh] ELSE <<>>]
    BY DEF Init
  <1>1. S \cup {Self} \subseteq People
    BY DEF People
  <1>2. data \in DataOf
    BY <1>1, FreshType, DataIs
  <1>3. [i \in 1 .. copies |-> Fresh] \in Seq(Info)
    <2>1. copies \in Nat
      OBVIOUS
    <2> QED
      BY <2>1, FreshType, IsASeq
  <1>4. <<>> \in Seq(Info) /\ <<>> \in Seq(Messages)
        /\ <<>> \in Seq(Messages \cup [op : {"DATA"}, data : DataOf])
    OBVIOUS
  <1>5. rows \in [People -> Seq(Info)]
    BY <1>3, <1>4
  <1>6. srv \in [People -> Info]
    BY FreshType
  <1> QED
    BY <1>1, <1>2, <1>4, <1>5, <1>6, VideoCallAssumption DEF Init, TypeOK

\* An operation of the app.
LEMMA OperationType == TypeOK /\ Operation => TypeOK'
  <1> SUFFICES ASSUME TypeOK, Operation
               PROVE  TypeOK'
    OBVIOUS
  <1> USE DEF TypeOK, media, tables, server
  <1>1. CASE AddStreams \/ Dispose
    BY <1>1 DEF AddStreams, Dispose
  <1>2. CASE AskForData
    <2>1. Msg("GET_CALL_DATA", Self, "active", FALSE) \in Messages
      BY MsgType DEF Ops, People, Fields
    <2> QED
      BY <1>2, <2>1, SentType DEF AskForData
  <1>3. ASSUME SwitchToVideoCall
        PROVE  TypeOK'
    <2>1. /\ Msg("STREAM_REQUEST", Self, "active", TRUE) \in Messages
          /\ Msg("VIDEO_STATUS", Self, "active", TRUE) \in Messages
          /\ Self \in People /\ "active" \in Fields
      BY MsgType DEF Ops, People, Fields
    <2>2. CASE AskForVideo /\ UNCHANGED <<inCall, toClient, server>>
      BY <2>1, <2>2, SentType, SetRowType DEF AskForVideo
    <2>3. CASE StartVideo /\ UNCHANGED <<inCall, toClient, server>>
      <3>1. Self \in DOMAIN data => SetData(Self, "active", TRUE) \in DataOf
        BY <2>1, SetDataType
      <3> QED
        BY <2>1, <2>3, <3>1, SentType DEF StartVideo
    <2>4. CASE NoDataToSwitch
      BY <2>4 DEF NoDataToSwitch, Crash
    <2> QED
      BY <1>3, <2>2, <2>3, <2>4 DEF SwitchToVideoCall
  <1>4. ASSUME NEW kind \in Kinds, UnMuteMyTrack(kind)
        PROVE  TypeOK'
    <2>1. kind \in Fields /\ Self \in People
      BY DEF Fields, People
    <2>2. Msg("MUTE", Self, kind, FALSE) \in Messages
      BY <2>1, MsgType DEF Ops
    <2>3. CASE Unmute(kind)
      BY <2>1, <2>2, <2>3, SentType, SetBothType DEF Unmute, Kinds
    <2> QED
      BY <1>4, <2>3 DEF UnMuteMyTrack, Crash
  <1>5. ASSUME NEW kind \in Kinds, MuteMyTrack(kind)
        PROVE  TypeOK'
    <2>1. kind \in Fields /\ Self \in People
      BY DEF Fields, People
    <2>2. /\ Msg("MUTE", Self, kind, TRUE) \in Messages
          /\ Msg("STREAM_REQUEST", Self, "active", FALSE) \in Messages
      BY <2>1, MsgType DEF Ops, Fields
    <2>3. CASE Mute(kind)
      BY <2>1, <2>2, <2>3, SentType, SetBothType DEF Mute, SetTrack
    <2> QED
      BY <1>3, <1>4, <1>5, <2>2, <2>3, SentType DEF MuteMyTrack, Crash
  <1>6. ASSUME NEW u \in Users, NEW kind \in Kinds, HostMute(u, kind)
        PROVE  TypeOK'
    <2>1. kind \in Fields /\ u \in People
      BY DEF Fields, People
    <2>2. Msg("HOST_MUTE", u, kind, TRUE) \in Messages
      BY <2>1, MsgType DEF Ops
    <2> QED
      BY <1>6, <2>1, <2>2, SentType, SetKnownType DEF HostMute
  <1>7. ASSUME NEW u \in Users, RemoveUser(u)
        PROVE  TypeOK'
    <2>1. u \in People
      BY DEF People
    <2>2. Msg("REMOVE_USER", u, "left", TRUE) \in Messages
      BY <2>1, MsgType DEF Ops, Fields
    <2> QED
      BY <1>7, <2>1, <2>2, SentType, RemovedType DEF RemoveUser
  <1> QED
    BY <1>1, <1>2, <1>3, <1>4, <1>5, <1>6, <1>7 DEF Operation

\* The message a handler is given.
LEMMA HeadType ==
    ASSUME TypeOK, toClient # <<>>
    PROVE  LET m == Head(toClient)
           IN /\ m.op = "DATA" => m.data \in DataOf
              /\ m.op # "DATA" => /\ m.op \in Ops /\ m.user \in People
                                  /\ m.field \in Fields /\ m.val \in BOOLEAN
              /\ m.op \in {"MUTE", "HOST_MUTE"} => m.field \in Kinds
              /\ Tail(toClient) \in Seq(Received)
  <1>1. toClient \in Seq(Received)
    BY DEF TypeOK, Received
  <1>2. Head(toClient) \in Received /\ Tail(toClient) \in Seq(Received)
    BY <1>1, TakenQueue
  <1> QED
    BY <1>2 DEF Received, Messages, Ops

\* A message is handled.
LEMMA ReceiveType == TypeOK /\ Receive => TypeOK'
  <1> SUFFICES ASSUME TypeOK, Receive
               PROVE  TypeOK'
    OBVIOUS
  <1> DEFINE m == Head(toClient)
  <1>2. toClient' \in Seq(Received)
    BY HeadType DEF Receive
  <1>3. /\ m.op = "DATA" => m.data \in DataOf
        /\ m.op # "DATA" => /\ m.op \in Ops /\ m.user \in People
                            /\ m.field \in Fields /\ m.val \in BOOLEAN
        /\ m.op \in {"MUTE", "HOST_MUTE"} => m.field \in Kinds
    BY HeadType DEF Receive
  <1>4. UNCHANGED <<toServer, server>>
    BY DEF Receive
  <1>5. /\ toServer \in Seq(Messages)
        /\ members \subseteq People /\ gone \subseteq People
        /\ srv \in [People -> Info]
        /\ newcomers \subseteq gone
        /\ toClient' \in Seq(Messages \cup [op : {"DATA"}, data : DataOf])
    BY <1>2 DEF TypeOK, Received
  <1>6. SUFFICES /\ mic' \in {"none", "on", "off"} /\ cam' \in {"none", "on", "off"}
                 /\ addVideo' \in BOOLEAN /\ inCall' \in BOOLEAN
                 /\ data' \in DataOf /\ rows' \in [People -> Seq(Info)]
                 /\ crashed' \in {"no", "mute", "unmute", "switch", "handler"}
                 /\ skewed' \subseteq Kinds
    BY <1>4, <1>5 DEF TypeOK, server
  <1>7. /\ mic \in {"none", "on", "off"} /\ cam \in {"none", "on", "off"}
        /\ addVideo \in BOOLEAN /\ inCall \in BOOLEAN
        /\ data \in DataOf /\ rows \in [People -> Seq(Info)]
        /\ crashed \in {"no", "mute", "unmute", "switch", "handler"}
        /\ skewed \subseteq Kinds
    BY DEF TypeOK
  <1> HIDE DEF m
  <1> USE DEF media, tables
  <1>10. CASE UNCHANGED <<tables, media, inCall>> /\ crashed' \in {crashed, "handler"}
    BY <1>7, <1>10
  <1>11. CASE OnMuteCall(m)
    BY <1>3, <1>7, <1>11, SetBothType DEF OnMuteCall
  <1>12. CASE OnHostMute(m)
    <2>1. m.user \in DOMAIN data => SetData(m.user, "audio", m.field = "audio" /\ m.val) \in DataOf
      <3>1. "audio" \in Fields /\ (m.field = "audio" /\ m.val) \in BOOLEAN
        BY DEF Fields, Kinds
      <3> QED
        BY <1>7, <3>1, SetDataType
    <2>2. SetRow(m.user, m.field, m.val) \in [People -> Seq(Info)]
      BY <1>3, <1>7, <1>12, SetRowType DEF OnHostMute
    <2> QED
      BY <1>3, <1>7, <1>12, <2>1, <2>2 DEF OnHostMute, SetTrack, Kinds
  <1>13. CASE OnStreamRequest(m)
    <2>1. SetRow(m.user, "active", TRUE) \in [People -> Seq(Info)]
      BY <1>3, <1>7, <1>13, SetRowType DEF OnStreamRequest, Fields
    <2> QED
      BY <1>7, <1>13, <2>1 DEF OnStreamRequest
  <1>14. CASE OnVideoStatus(m)
    <2>1. m.user \in People /\ m.val \in BOOLEAN
      BY <1>3, <1>14 DEF OnVideoStatus
    <2>2. "active" \in Fields /\ "video" \in Fields
      BY DEF Fields, Kinds
    <2>3. \A i \in Info : [i EXCEPT !["active"] = m.val, !["video"] = FALSE] \in Info
      BY <2>1, <2>2 DEF Info
    <2>4. CASE m.user \in DOMAIN data
      <3>1. DOMAIN data \subseteq People /\ data \in [DOMAIN data -> Info]
        BY <1>7, DataIs
      <3>2. data' \in [DOMAIN data -> Info] /\ DOMAIN data' = DOMAIN data
        <4>1. data' = [data EXCEPT ![m.user] =
                         [data[m.user] EXCEPT !["active"] = m.val, !["video"] = FALSE]]
          BY <1>14, <2>4 DEF OnVideoStatus
        <4>2. [data[m.user] EXCEPT !["active"] = m.val, !["video"] = FALSE] \in Info
          BY <2>3, <2>4, <3>1
        <4> QED
          BY <3>1, <4>1, <4>2
      <3>3. rows' \in [People -> Seq(Info)]
        <4>1. CASE rows[m.user] # <<>>
          <5>1. rows' = VideoRows(m.user, m.val)
            BY <1>14, <2>4, <4>1 DEF OnVideoStatus, VideoRows
          <5> QED
            BY <1>7, <2>1, <4>1, <5>1, VideoRowsType
        <4>2. CASE rows[m.user] = <<>>
          BY <1>7, <1>14, <2>4, <4>2 DEF OnVideoStatus
        <4> QED
          BY <4>1, <4>2
      <3> QED
        BY <1>7, <1>14, <3>1, <3>2, <3>3, DataIs DEF OnVideoStatus
    <2>5. CASE m.user \notin DOMAIN data
      BY <1>7, <1>14, <2>5 DEF OnVideoStatus
    <2> QED
      BY <2>4, <2>5
  <1>15. CASE OnStatus(m)
    <2>1. m.val \in BOOLEAN /\ "left" \in Fields
      BY <1>3, <1>15 DEF OnStatus, Fields
    <2> QED
      BY <1>7, <1>15, <2>1, SetKnownType DEF OnStatus
  <1>16. CASE OnNewParticipant(m)
    <2>1. m.user \in People
      BY <1>3, <1>16 DEF OnNewParticipant
    <2>2. Append(rows[m.user], Fresh) \in Seq(Info)
      BY <1>7, <2>1, FreshType, AppendProperties
    <2> QED
      BY <1>7, <1>16, <2>2 DEF OnNewParticipant
  <1>17. CASE OnEnd(m)
    BY <1>7, <1>17, NoTables DEF OnEnd
  <1>18. CASE OnData(m)
    BY <1>3, <1>7, <1>18 DEF OnData
  <1>19. CASE OnRemoval(m)
    BY <1>10, <1>19 DEF OnRemoval
  <1> QED
    BY <1>10, <1>11, <1>12, <1>13, <1>14, <1>15, <1>16, <1>17, <1>18, <1>19
    DEF Receive, m

\* The server takes a request.
LEMMA ServerStepType == TypeOK /\ ServerStep => TypeOK'
  <1> SUFFICES ASSUME TypeOK, ServerStep
               PROVE  TypeOK'
    OBVIOUS
  <1> DEFINE m == Head(toServer)
  <1>1. m \in Messages /\ toServer' \in Seq(Messages)
    BY TakenQueue DEF ServerStep, TypeOK
  <1>2. m.user \in People /\ m.field \in Fields /\ m.val \in BOOLEAN
    BY <1>1 DEF Messages
  <1>3. SUFFICES /\ members' \subseteq People /\ UNCHANGED <<gone, newcomers>>
                 /\ srv' \in [People -> Info]
                 /\ toClient' \in Seq(Received)
    BY <1>1 DEF ServerStep, TypeOK, Received, device, media, tables
  <1>4. /\ members \subseteq People /\ srv \in [People -> Info]
        /\ toClient \in Seq(Received) /\ Self \in People
    BY DEF TypeOK, Received, People
  <1>5. Serve(m)
    BY DEF ServerStep
  <1> HIDE DEF m
  <1> USE DEF server
  <1>10. CASE SetSrv(Self, m.field, m.val) /\ UNCHANGED <<members, gone, newcomers, toClient>>
    BY <1>2, <1>4, <1>10, SetSrvType
  <1>11. CASE m.op = "HOST_MUTE" /\ UNCHANGED <<members, gone, newcomers>>
              /\ IF m.user \in members
                   THEN SetSrv(m.user, m.field, m.val) /\ Push(m)
                   ELSE UNCHANGED <<srv, toClient>>
    BY <1>1, <1>2, <1>4, <1>11, SetSrvType, SentType
  <1>12. ASSUME srv' = [srv EXCEPT ![Self]["active"] = TRUE, ![Self]["video"] = FALSE]
        PROVE  srv' \in [People -> Info]
    <2>1. [srv[Self] EXCEPT !["active"] = TRUE, !["video"] = FALSE] \in Info
      BY <1>4 DEF Info
    <2> QED
      BY <1>4, <1>12, <2>1
  <1>13. ASSUME srv' = [srv EXCEPT ![Self]["active"] = @ \/ m.val]
        PROVE  srv' \in [People -> Info]
    <2>1. [srv[Self] EXCEPT !["active"] = @ \/ m.val] \in Info
      BY <1>2, <1>4 DEF Info, Fields
    <2> QED
      BY <1>4, <1>13, <2>1
  <1>14. CASE Push(Snapshot([u \in members |-> srv[u]])) /\ UNCHANGED server
    <2>1. [u \in members |-> srv[u]] \in DataOf
      BY <1>4, DataIs
    <2>2. Snapshot([u \in members |-> srv[u]]) \in Received
      BY <2>1 DEF Snapshot, Received
    <2> QED
      BY <1>4, <1>14, <2>2, SentType
  <1>15. CASE UNCHANGED <<server, toClient>>
    BY <1>4, <1>15
  <1>16. CASE m.op = "REMOVE_USER" /\ members' = members \ {m.user}
              /\ UNCHANGED <<srv, gone, newcomers, toClient>>
    BY <1>4, <1>16
  <1> QED
    BY <1>4, <1>5, <1>10, <1>11, <1>12, <1>13, <1>14, <1>15, <1>16 DEF Serve

\* The others.
LEMMA OthersType == TypeOK /\ Others => TypeOK'
  <1> SUFFICES ASSUME TypeOK, Others
               PROVE  TypeOK'
    OBVIOUS
  <1>1. SUFFICES /\ members' \subseteq People /\ gone' \subseteq People
                 /\ newcomers' \subseteq gone'
                 /\ srv' \in [People -> Info]
                 /\ toClient' \in Seq(Received)
    BY DEF Others, TypeOK, Received, device, media, tables
  <1>2. /\ members \subseteq People /\ gone \subseteq People
        /\ newcomers \subseteq gone
        /\ srv \in [People -> Info] /\ Self \in People
        /\ Users \subseteq People /\ Kinds \subseteq Fields
        /\ "active" \in Fields /\ "video" \in Fields /\ "left" \in Fields
        /\ {"MUTE", "VIDEO_STATUS", "HOST_MUTE", "LEAVE_CALL", "REMOVE_USER",
            "NEW_PARTICIPANT", "END_CALL"} \subseteq Ops
    BY DEF TypeOK, People, Fields, Kinds, Ops
  <1>3. \A m \in Messages : Push(m) => toClient' \in Seq(Received)
    BY SentType
  <1>4. ASSUME NEW u \in members, NEW kind \in Kinds, UserMutes(u, kind)
        PROVE  srv' \in [People -> Info] /\ toClient' \in Seq(Received)
    <2>1. (~srv[u][kind]) \in BOOLEAN
      OBVIOUS
    <2>2. Msg("MUTE", u, kind, ~srv[u][kind]) \in Messages
      BY <1>2, <2>1, MsgType
    <2>3. SetSrv(u, kind, ~srv[u][kind]) /\ Push(Msg("MUTE", u, kind, ~srv[u][kind]))
      BY <1>4 DEF UserMutes
    <2> QED
      BY <1>2, <1>3, <2>1, <2>2, <2>3, SetSrvType
  <1>5. ASSUME NEW u \in members, UserStartsVideo(u)
        PROVE  srv' \in [People -> Info] /\ toClient' \in Seq(Received)
    <2>1. [srv[u] EXCEPT !["active"] = TRUE, !["video"] = FALSE] \in Info
      BY <1>2 DEF Info
    <2>2. srv' = [srv EXCEPT ![u] = [srv[u] EXCEPT !["active"] = TRUE, !["video"] = FALSE]]
      BY <1>2, <1>5 DEF UserStartsVideo
    <2>3. Msg("VIDEO_STATUS", u, "active", TRUE) \in Messages
      BY <1>2, MsgType
    <2> QED
      BY <1>2, <1>3, <1>5, <2>1, <2>2, <2>3 DEF UserStartsVideo
  <1>6. ASSUME NEW p \in members, NEW kind \in Kinds, HostMutes(p, kind)
        PROVE  srv' \in [People -> Info] /\ toClient' \in Seq(Received)
    <2>1. Msg("HOST_MUTE", p, kind, TRUE) \in Messages
      BY <1>2, MsgType
    <2> QED
      BY <1>2, <1>3, <1>6, <2>1, SetSrvType DEF HostMutes
  <1>7. ASSUME NEW u \in members, NEW op \in {"LEAVE_CALL", "REMOVE_USER"}, UserLeaves(u, op)
        PROVE  members' \subseteq People /\ toClient' \in Seq(Received)
    <2>1. Msg(op, u, "left", TRUE) \in Messages
      BY <1>2, MsgType
    <2> QED
      BY <1>2, <1>3, <1>7, <2>1 DEF UserLeaves
  <1>8. ASSUME NEW u \in Users, UserJoins(u)
        PROVE  /\ members' \subseteq People /\ gone' \subseteq People
               /\ newcomers' \subseteq gone' /\ toClient' \in Seq(Received)
    <2>1. Msg("NEW_PARTICIPANT", u, "active", VideoCall) \in Messages
      BY <1>2, MsgType, VideoCallAssumption
    <2> QED
      BY <1>2, <1>3, <1>8, <2>1 DEF UserJoins
  <1>9. ASSUME CallEnds
        PROVE  members' \subseteq People /\ toClient' \in Seq(Received)
    <2>1. Msg("END_CALL", Self, "left", TRUE) \in Messages
      BY <1>2, MsgType
    <2> QED
      BY <1>3, <1>9, <2>1 DEF CallEnds
  <1> QED
    BY <1>2, <1>4, <1>5, <1>6, <1>7, <1>8, <1>9
    DEF Others, UserMutes, UserStartsVideo, HostMutes, UserLeaves, UserJoins, CallEnds

\* Every step keeps the types.
LEMMA NextType == TypeOK /\ [Next]_vars => TypeOK'
  <1>1. TypeOK /\ UNCHANGED vars => TypeOK'
    BY DEF TypeOK, vars, media, tables, server
  <1> QED
    BY <1>1, OperationType, ReceiveType, ServerStepType, OthersType DEF Next

\* Every reachable state is well typed: no handler writes a flag of a user
\* who is not known, and no row is dropped where there is none.
THEOREM TypeCorrect == Spec => []TypeOK
  BY InitType, NextType, PTL DEF Spec

-----------------------------------------------------------------------------
(* Who is known to the device.                                             *)

\* Every answer under way names the device, and who is in the call since
\* before the device.
AnswersHoldMembers ==
    \A i \in DOMAIN toClient :
        toClient[i].op = "DATA" =>
            /\ members \ newcomers \subseteq DOMAIN toClient[i].data
            /\ Self \in DOMAIN toClient[i].data

\* The device's own entry stays while the call does.
OwnEntryStays == inCall => Self \in DOMAIN data

\* The call goes on for the device, or is over for everybody.
AllOrNobody == Self \in members \/ members = {}

\* The device mutes and removes other users only.
Addressed(m) == m.op \in {"HOST_MUTE", "REMOVE_USER"} => m.user \in Users
RequestsAddressed == \A i \in DOMAIN toServer : Addressed(toServer[i])

KnownInv ==
    /\ AnswersHoldMembers /\ OwnEntryStays /\ AllOrNobody /\ RequestsAddressed
    /\ KnownUsersAreFound /\ OwnOperationsFindTheirData

\* What an operation does to the queues, and whom it forgets.
LEMMA OperationKnows ==
    TypeOK /\ Operation =>
        /\ crashed = "no" /\ UNCHANGED <<inCall, toClient, server>>
        /\ crashed' \in {"mute", "switch"} => Self \notin DOMAIN data
        /\ crashed' = "unmute" => Self \notin DOMAIN data \/ mic' = "none"
        /\ \/ /\ DOMAIN data' = DOMAIN data
              /\ \/ toServer' = toServer
                 \/ \E m \in Messages : Addressed(m) /\ toServer' = Append(toServer, m)
           \/ \E u \in Users :
                 /\ DOMAIN data \ {u} \subseteq DOMAIN data'
                 /\ toServer' = Append(toServer, Msg("REMOVE_USER", u, "left", TRUE))
  <1> SUFFICES ASSUME TypeOK, Operation
               PROVE  /\ crashed = "no" /\ UNCHANGED <<inCall, toClient, server>>
                      /\ crashed' \in {"mute", "switch"} => Self \notin DOMAIN data
                      /\ crashed' = "unmute" => Self \notin DOMAIN data \/ mic' = "none"
                      /\ \/ /\ DOMAIN data' = DOMAIN data
                            /\ \/ toServer' = toServer
                               \/ \E m \in Messages : Addressed(m) /\ toServer' = Append(toServer, m)
                         \/ \E u \in Users :
                               /\ DOMAIN data \ {u} \subseteq DOMAIN data'
                               /\ toServer' = Append(toServer,
                                                     Msg("REMOVE_USER", u, "left", TRUE))
    OBVIOUS
  <1> USE DEF media, tables, May
  <1>1. CASE AddStreams \/ Dispose
    BY <1>1 DEF AddStreams, Dispose
  <1>2. CASE AskForData
    <2>1. /\ Msg("GET_CALL_DATA", Self, "active", FALSE) \in Messages
          /\ Addressed(Msg("GET_CALL_DATA", Self, "active", FALSE))
      BY MsgType DEF Ops, People, Fields, Addressed, Msg
    <2> QED
      BY <1>2, <2>1 DEF AskForData, Emit
  <1>3. ASSUME SwitchToVideoCall
        PROVE  /\ crashed' \in {crashed, "switch"} /\ crashed = "no"
               /\ crashed' = "switch" => Self \notin DOMAIN data
               /\ UNCHANGED <<inCall, toClient, server>> /\ DOMAIN data' = DOMAIN data
               /\ \/ toServer' = toServer
                  \/ \E m \in Messages : Addressed(m) /\ toServer' = Append(toServer, m)
    <2>1. /\ Msg("STREAM_REQUEST", Self, "active", TRUE) \in Messages
          /\ Msg("VIDEO_STATUS", Self, "active", TRUE) \in Messages
          /\ Addressed(Msg("STREAM_REQUEST", Self, "active", TRUE))
          /\ Addressed(Msg("VIDEO_STATUS", Self, "active", TRUE))
          /\ Self \in People /\ "active" \in Fields
      BY MsgType DEF Ops, People, Fields, Addressed, Msg
    <2>2. Self \in DOMAIN data => DOMAIN SetData(Self, "active", TRUE) = DOMAIN data
      BY <2>1, SetDataType DEF TypeOK
    <2> QED
      BY <1>3, <2>1, <2>2
      DEF SwitchToVideoCall, AskForVideo, StartVideo, NoDataToSwitch, Crash, Emit
  <1>4. ASSUME NEW kind \in Kinds, UnMuteMyTrack(kind)
        PROVE  /\ crashed' \in {crashed, "unmute"} /\ crashed = "no"
               /\ crashed' = "unmute" => Self \notin DOMAIN data \/ mic' = "none"
               /\ UNCHANGED <<inCall, toClient, server>> /\ DOMAIN data' = DOMAIN data
               /\ \/ toServer' = toServer
                  \/ \E m \in Messages : Addressed(m) /\ toServer' = Append(toServer, m)
    <2>1. kind \in Fields /\ Self \in People
      BY DEF Fields, People
    <2>2. /\ Msg("MUTE", Self, kind, FALSE) \in Messages
          /\ Addressed(Msg("MUTE", Self, kind, FALSE))
      BY <2>1, MsgType DEF Ops, Addressed, Msg
    <2>3. Self \in DOMAIN data /\ SetBoth(Self, kind, FALSE) => DOMAIN data' = DOMAIN data
      BY <2>1, SetBothType
    <2> QED
      BY <1>4, <2>2, <2>3 DEF UnMuteMyTrack, Unmute, Crash, Emit
  <1>5. ASSUME NEW kind \in Kinds, MuteMyTrack(kind)
        PROVE  /\ crashed = "no"
               /\ crashed' \in {"mute", "switch"} => Self \notin DOMAIN data
               /\ crashed' = "unmute" => Self \notin DOMAIN data \/ mic' = "none"
               /\ UNCHANGED <<inCall, toClient, server>> /\ DOMAIN data' = DOMAIN data
               /\ \/ toServer' = toServer
                  \/ \E m \in Messages : Addressed(m) /\ toServer' = Append(toServer, m)
    <2>1. kind \in Fields /\ Self \in People
      BY DEF Fields, People
    <2>2. /\ Msg("MUTE", Self, kind, TRUE) \in Messages
          /\ Msg("STREAM_REQUEST", Self, "active", FALSE) \in Messages
          /\ Addressed(Msg("MUTE", Self, kind, TRUE))
          /\ Addressed(Msg("STREAM_REQUEST", Self, "active", FALSE))
      BY <2>1, MsgType DEF Ops, Fields, Addressed, Msg
    <2>3. Self \in DOMAIN data /\ SetBoth(Self, kind, TRUE) => DOMAIN data' = DOMAIN data
      BY <2>1, SetBothType
    <2>4. CASE Mute(kind)
      BY <1>5, <2>2, <2>3, <2>4 DEF MuteMyTrack, Mute, Emit
    <2> QED
      BY <1>3, <1>4, <1>5, <2>2, <2>4 DEF MuteMyTrack, Crash, Emit
  <1>6. ASSUME NEW u \in Users, NEW kind \in Kinds, HostMute(u, kind)
        PROVE  /\ DOMAIN data' = DOMAIN data
               /\ \E m \in Messages : Addressed(m) /\ toServer' = Append(toServer, m)
    <2>1. kind \in Fields /\ u \in People
      BY DEF Fields, People
    <2>2. Msg("HOST_MUTE", u, kind, TRUE) \in Messages /\ Addressed(Msg("HOST_MUTE", u, kind, TRUE))
      BY <2>1, MsgType DEF Ops, Addressed, Msg
    <2> QED
      BY <1>6, <2>1, <2>2, SetKnownType DEF HostMute, Emit
  <1>7. ASSUME NEW u \in Users, RemoveUser(u)
        PROVE  /\ DOMAIN data \ {u} \subseteq DOMAIN data'
               /\ toServer' = Append(toServer, Msg("REMOVE_USER", u, "left", TRUE))
    BY <1>7 DEF RemoveUser, Emit
  <1>8. CASE \E u \in Users, kind \in Kinds : HostMute(u, kind)
    BY <1>6, <1>8 DEF HostMute
  <1>9. CASE \E u \in Users : RemoveUser(u)
    BY <1>7, <1>9 DEF RemoveUser
  <1> QED
    BY <1>1, <1>2, <1>3, <1>4, <1>5, <1>8, <1>9 DEF Operation

\* What a handler does to the entries of who is known.
LEMMA ReceiveKnows ==
    TypeOK /\ Receive =>
        /\ toClient # <<>> /\ toClient' = Tail(toClient)
        /\ UNCHANGED <<toServer, server>>
        /\ crashed = "no" /\ crashed' \in {"no", "handler"}
        /\ inCall' => /\ inCall
                      /\ DOMAIN data' = IF Head(toClient).op = "DATA"
                                          THEN DOMAIN Head(toClient).data ELSE DOMAIN data
  <1> SUFFICES ASSUME TypeOK, Receive
               PROVE  /\ toClient # <<>> /\ toClient' = Tail(toClient)
                      /\ UNCHANGED <<toServer, server>>
                      /\ crashed = "no" /\ crashed' \in {"no", "handler"}
                      /\ inCall' => /\ inCall
                                    /\ DOMAIN data' = IF Head(toClient).op = "DATA"
                                                        THEN DOMAIN Head(toClient).data
                                                        ELSE DOMAIN data
    OBVIOUS
  <1> DEFINE m == Head(toClient)
  <1>1. /\ toClient # <<>> /\ toClient' = Tail(toClient)
        /\ UNCHANGED <<toServer, server>> /\ crashed = "no"
    BY DEF Receive
  <1>2. /\ m.op # "DATA" => /\ m.op \in Ops /\ m.user \in People
                            /\ m.field \in Fields /\ m.val \in BOOLEAN
        /\ m.op \in {"MUTE", "HOST_MUTE"} => m.field \in Kinds
    BY <1>1, HeadType
  <1>3. data \in DataOf /\ "audio" \in Fields /\ "left" \in Fields
    BY DEF TypeOK, Fields, Kinds
  <1>4. SUFFICES /\ crashed' \in {crashed, "handler"}
                 /\ inCall' => /\ inCall
                               /\ DOMAIN data' = IF m.op = "DATA" THEN DOMAIN m.data
                                                                  ELSE DOMAIN data
    BY <1>1
  <1> HIDE DEF m
  <1> USE DEF media, tables
  <1>10. CASE UNCHANGED <<tables, media, inCall, crashed>> /\ (~inCall \/ m.op # "DATA")
    BY <1>10
  <1>11. CASE OnMuteCall(m)
    BY <1>2, <1>11, SetBothType DEF OnMuteCall
  <1>12. CASE OnHostMute(m)
    <2>1. m.user \in DOMAIN data =>
             DOMAIN SetData(m.user, "audio", m.field = "audio" /\ m.val) = DOMAIN data
      <3>1. (m.field = "audio" /\ m.val) \in BOOLEAN
        OBVIOUS
      <3> QED
        BY <1>3, <3>1, SetDataType
    <2> QED
      BY <1>12, <2>1 DEF OnHostMute
  <1>13. CASE OnStreamRequest(m)
    BY <1>13 DEF OnStreamRequest
  <1>14. CASE OnVideoStatus(m)
    BY <1>14 DEF OnVideoStatus
  <1>15. CASE OnStatus(m)
    BY <1>2, <1>3, <1>15, SetKnownType DEF OnStatus
  <1>16. CASE OnNewParticipant(m)
    BY <1>16 DEF OnNewParticipant
  <1>17. CASE OnEnd(m)
    BY <1>17 DEF OnEnd
  <1>18. CASE OnData(m)
    BY <1>18 DEF OnData
  <1>19. CASE OnRemoval(m)
    BY <1>10, <1>19 DEF OnRemoval
  <1> QED
    BY <1>10, <1>11, <1>12, <1>13, <1>14, <1>15, <1>16, <1>17, <1>18, <1>19 DEF Receive, m

\* What the others do, and the device is told by the event m.
Told(m) ==
    \/ /\ m.op = "MUTE" /\ m.user \in members \ {Self}
       /\ SetSrv(m.user, m.field, m.val) /\ UNCHANGED <<members, gone, newcomers>>
    \/ /\ m.op = "VIDEO_STATUS" /\ m.user \in members \ {Self}
       /\ srv' = [srv EXCEPT ![m.user]["active"] = TRUE, ![m.user]["video"] = FALSE]
       /\ UNCHANGED <<members, gone, newcomers>>
    \/ /\ m.op = "HOST_MUTE" /\ m.user \in members /\ m.val
       /\ SetSrv(m.user, m.field, m.val) /\ UNCHANGED <<members, gone, newcomers>>
    \/ /\ m.op \in {"LEAVE_CALL", "REMOVE_USER"} /\ m.user \in members \ {Self}
       /\ members' = members \ {m.user} /\ UNCHANGED <<srv, gone, newcomers>>
    \/ /\ m.op = "NEW_PARTICIPANT" /\ m.user \in Users \ gone
       /\ members' = members \cup {m.user} /\ gone' = gone \cup {m.user}
       /\ newcomers' = newcomers \cup {m.user} /\ UNCHANGED srv
    \/ /\ m.op = "END_CALL" /\ members' = {} /\ UNCHANGED <<srv, gone, newcomers>>

LEMMA OthersTell ==
    TypeOK /\ Others =>
        /\ UNCHANGED <<device, toServer>> /\ Self \in members
        /\ \E m \in Messages : Push(m) /\ Told(m)
  <1> SUFFICES ASSUME TypeOK, Others
               PROVE  \E m \in Messages : Push(m) /\ Told(m)
    BY DEF Others, EventRoom
  <1>1. /\ members \subseteq People /\ Self \in People
        /\ Users \subseteq People /\ Kinds \subseteq Fields
        /\ "active" \in Fields /\ "left" \in Fields
        /\ {"MUTE", "VIDEO_STATUS", "HOST_MUTE", "LEAVE_CALL", "REMOVE_USER",
            "NEW_PARTICIPANT", "END_CALL"} \subseteq Ops
    BY DEF TypeOK, People, Fields, Kinds, Ops
  <1>2. ASSUME NEW op \in Ops, NEW u \in People, NEW f \in Fields, NEW v \in BOOLEAN,
               op \in {"MUTE", "HOST_MUTE"} => f \in Kinds,
               Push(Msg(op, u, f, v)),
               \A m : m.op = op /\ m.user = u /\ m.field = f /\ m.val = v => Told(m)
        PROVE  \E m \in Messages : Push(m) /\ Told(m)
    <2> DEFINE m == Msg(op, u, f, v)
    <2>1. m \in Messages
      BY <1>2, MsgType
    <2>2. m.op = op /\ m.user = u /\ m.field = f /\ m.val = v
      BY DEF Msg
    <2> HIDE DEF m
    <2>3. Told(m)
      BY <1>2, <2>2
    <2> QED
      BY <1>2, <2>1, <2>3 DEF m
  <1> HIDE DEF Kinds
  <1>3. ASSUME NEW u \in members \ {Self}, NEW kind \in Kinds, UserMutes(u, kind)
        PROVE  \E m \in Messages : Push(m) /\ Told(m)
    <2>1. (~srv[u][kind]) \in BOOLEAN
      OBVIOUS
    <2>2. /\ SetSrv(u, kind, ~srv[u][kind]) /\ Push(Msg("MUTE", u, kind, ~srv[u][kind]))
          /\ UNCHANGED <<members, gone, newcomers>>
      BY <1>3 DEF UserMutes
    <2>3. PICK v \in BOOLEAN : v = ~srv[u][kind]
      BY <2>1
    <2> QED
      BY <1>1, <1>2, <2>2, <2>3 DEF Told
  <1>4. ASSUME NEW u \in members \ {Self}, UserStartsVideo(u)
        PROVE  \E m \in Messages : Push(m) /\ Told(m)
    <2>1. /\ Push(Msg("VIDEO_STATUS", u, "active", TRUE))
          /\ srv' = [srv EXCEPT ![u]["active"] = TRUE, ![u]["video"] = FALSE]
          /\ UNCHANGED <<members, gone, newcomers>>
      BY <1>4 DEF UserStartsVideo
    <2>2. \A m : m.op = "VIDEO_STATUS" /\ m.user = u => Told(m)
      BY <2>1 DEF Told
    <2> QED
      BY <1>1, <1>2, <2>1, <2>2
  <1>5. ASSUME NEW p \in members, NEW kind \in Kinds, HostMutes(p, kind)
        PROVE  \E m \in Messages : Push(m) /\ Told(m)
    BY <1>1, <1>2, <1>5 DEF HostMutes, Told
  <1>6. ASSUME NEW u \in members \ {Self}, NEW op \in {"LEAVE_CALL", "REMOVE_USER"},
               UserLeaves(u, op)
        PROVE  \E m \in Messages : Push(m) /\ Told(m)
    BY <1>1, <1>2, <1>6, ZenonT(60) DEF UserLeaves, Told
  <1>7. ASSUME NEW u \in Users, UserJoins(u)
        PROVE  \E m \in Messages : Push(m) /\ Told(m)
    BY <1>1, <1>2, <1>7, VideoCallAssumption DEF UserJoins, Told
  <1>8. CASE CallEnds
    BY <1>1, <1>2, <1>8 DEF CallEnds, Told
  <1> QED
    BY <1>3, <1>4, <1>5, <1>6, <1>7, <1>8 DEF Others

\* What the server does to the membership, and to the queues.
LEMMA ServerKnows ==
    TypeOK /\ AllOrNobody /\ RequestsAddressed /\ (ServerStep \/ Others) =>
        /\ UNCHANGED device /\ AllOrNobody'
        /\ members' \ newcomers' \subseteq members \ newcomers
        /\ \/ toClient' = toClient
           \/ \E m \in Received :
                 /\ toClient' = Append(toClient, m)
                 /\ m.op = "DATA" => Self \in members /\ DOMAIN m.data = members
        /\ \/ toServer' = toServer
           \/ /\ toServer # <<>> /\ toServer' = Tail(toServer)
              /\ Head(toServer).op = "REMOVE_USER" => Head(toServer).user \notin members'
  <1> SUFFICES ASSUME TypeOK, AllOrNobody, RequestsAddressed, ServerStep \/ Others
               PROVE  /\ UNCHANGED device /\ AllOrNobody'
                      /\ members' \ newcomers' \subseteq members \ newcomers
                      /\ \/ toClient' = toClient
                         \/ \E m \in Received :
                               /\ toClient' = Append(toClient, m)
                               /\ m.op = "DATA" => Self \in members /\ DOMAIN m.data = members
                      /\ \/ toServer' = toServer
                         \/ /\ toServer # <<>> /\ toServer' = Tail(toServer)
                            /\ Head(toServer).op = "REMOVE_USER" =>
                                  Head(toServer).user \notin members'
    OBVIOUS
  <1>1. Messages \subseteq Received /\ \A m \in Messages : m.op # "DATA"
    BY DEF Received, Messages, Ops
  <1>2. CASE ServerStep
    <2> DEFINE m == Head(toServer)
    <2>1. /\ toServer # <<>> /\ toServer' = Tail(toServer) /\ Serve(m) /\ UNCHANGED device
      BY <1>2 DEF ServerStep
    <2>2. m \in Messages /\ Addressed(m)
      BY <2>1, TakenQueue DEF TypeOK, RequestsAddressed
    <2>3. SUFFICES /\ AllOrNobody'
                   /\ members' \ newcomers' \subseteq members \ newcomers
                   /\ \/ toClient' = toClient
                      \/ \E r \in Received :
                            /\ toClient' = Append(toClient, r)
                            /\ r.op = "DATA" => Self \in members /\ DOMAIN r.data = members
                   /\ m.op = "REMOVE_USER" => m.user \notin members'
      BY <2>1
    <2> HIDE DEF m
    <2>4. CASE Self \in members /\ Push(Snapshot([u \in members |-> srv[u]])) /\ UNCHANGED server
               /\ m.op = "GET_CALL_DATA"
      <3> DEFINE r == Snapshot([u \in members |-> srv[u]])
      <3>1. [u \in members |-> srv[u]] \in DataOf
        BY DataIs DEF TypeOK
      <3>2. r \in Received /\ DOMAIN r.data = members
        BY <3>1 DEF Snapshot, Received
      <3>3. toClient' = Append(toClient, r)
        BY <2>4 DEF Push
      <3> HIDE DEF r
      <3> QED
        BY <2>4, <3>2, <3>3 DEF server, AllOrNobody
    <2>5. CASE m.op = "REMOVE_USER" /\ members' = members \ {m.user}
               /\ UNCHANGED <<srv, gone, newcomers, toClient>>
      BY <2>2, <2>5, SelfAssumption DEF AllOrNobody, Addressed
    <2>6. CASE UNCHANGED <<members, newcomers>> /\ m.op # "REMOVE_USER"
               /\ (toClient' = toClient \/ Push(m))
      BY <1>1, <2>2, <2>6 DEF AllOrNobody, Push
    <2>7. CASE Self \notin members /\ UNCHANGED <<server, toClient>>
      BY <2>7 DEF AllOrNobody, server
    <2> QED
      BY <2>1, <2>4, <2>5, <2>6, <2>7 DEF Serve
  <1>3. CASE Others
    <2>1. UNCHANGED <<device, toServer>> /\ Self \in members
      BY <1>3 DEF Others, EventRoom
    <2>2. PICK m \in Messages : Push(m) /\ Told(m)
      BY <1>3, OthersTell
    <2>3. m \in Received /\ m.op # "DATA" /\ toClient' = Append(toClient, m)
      BY <1>1, <2>2 DEF Push
    <2>4. AllOrNobody' /\ members' \ newcomers' \subseteq members \ newcomers
      BY <2>1, <2>2, SelfAssumption DEF Told, AllOrNobody
    <2> QED
      BY <2>1, <2>3, <2>4
  <1> QED
    BY <1>2, <1>3

\* The types of the queues, and what is in them.
LEMMA QueueTypes ==
    TypeOK => toServer \in Seq(Messages) /\ toClient \in Seq(Received)
  BY DEF TypeOK, Received

\* At first the device knows everybody in the call.
LEMMA InitKnows == Init => KnownInv
  <1> SUFFICES ASSUME Init
               PROVE  KnownInv
    OBVIOUS
  <1>1. PICK S \in SUBSET Users :
            /\ members = S \cup {Self} /\ data = [u \in S \cup {Self} |-> Fresh]
    BY DEF Init
  <1>2. toServer = <<>> /\ toClient = <<>> /\ crashed = "no"
    BY DEF Init
  <1>3. DOMAIN toServer = {} /\ DOMAIN toClient = {}
    BY <1>2, EmptySeq
  <1> QED
    BY <1>1, <1>2, <1>3
    DEF KnownInv, AnswersHoldMembers, OwnEntryStays, AllOrNobody, RequestsAddressed,
        KnownUsersAreFound, OwnOperationsFindTheirData

\* The answers under way stay complete: nobody who was in the call since
\* before the device comes back.
LEMMA AnswersStep == TypeOK /\ KnownInv /\ [Next]_vars => AnswersHoldMembers'
  <1> SUFFICES ASSUME TypeOK, KnownInv, [Next]_vars
               PROVE  AnswersHoldMembers'
    OBVIOUS
  <1>1. toClient \in Seq(Received)
    BY QueueTypes
  <1>2. CASE UNCHANGED <<toClient, server>>
    BY <1>2 DEF KnownInv, AnswersHoldMembers, server
  <1>3. CASE UNCHANGED server /\ toClient # <<>> /\ toClient' = Tail(toClient)
    BY <1>1, <1>3, TakenQueue DEF KnownInv, AnswersHoldMembers, server
  <1>4. CASE ServerStep \/ Others
    <2>1. /\ members' \ newcomers' \subseteq members \ newcomers
          /\ \/ toClient' = toClient
             \/ \E m \in Received :
                   /\ toClient' = Append(toClient, m)
                   /\ m.op = "DATA" => Self \in members /\ DOMAIN m.data = members
      BY <1>4, ServerKnows DEF KnownInv
    <2>2. CASE toClient' = toClient
      BY <2>1, <2>2 DEF KnownInv, AnswersHoldMembers
    <2>3. ASSUME NEW m \in Received, toClient' = Append(toClient, m),
                 m.op = "DATA" => Self \in members /\ DOMAIN m.data = members
          PROVE  AnswersHoldMembers'
      <3>1. \A i \in DOMAIN toClient' : \/ i \in DOMAIN toClient /\ toClient'[i] = toClient[i]
                                        \/ toClient'[i] = m
        BY <1>1, <2>3, GrownQueue
      <3> QED
        BY <2>1, <2>3, <3>1 DEF KnownInv, AnswersHoldMembers
    <2> QED
      BY <2>1, <2>2, <2>3
  <1>5. CASE Operation
    BY <1>2, <1>5, OperationKnows
  <1>6. CASE Receive
    BY <1>3, <1>6, ReceiveKnows
  <1>7. CASE UNCHANGED vars
    BY <1>2, <1>7 DEF vars
  <1> QED
    BY <1>4, <1>5, <1>6, <1>7 DEF Next

\* The own entry stays: an answer under way has it.
LEMMA OwnStep ==
    TypeOK /\ KnownInv /\ [Next]_vars => OwnEntryStays' /\ OwnOperationsFindTheirData'
  <1> SUFFICES ASSUME TypeOK, KnownInv, [Next]_vars
               PROVE  OwnEntryStays' /\ OwnOperationsFindTheirData'
    OBVIOUS
  <1> USE DEF KnownInv, OwnEntryStays, OwnOperationsFindTheirData
  <1>1. CASE UNCHANGED device
    BY <1>1 DEF device, tables, media
  <1>2. CASE Operation
    <2>1. Self \in DOMAIN data => Self \in DOMAIN data'
      BY <1>2, OperationKnows, SelfAssumption
    <2> QED
      BY <1>2, <2>1, OperationKnows
  <1>3. CASE Receive
    <2>1. toClient # <<>> => 1 \in DOMAIN toClient /\ toClient[1] = Head(toClient)
      BY QueueTypes, TakenQueue
    <2> QED
      BY <1>3, <2>1, ReceiveKnows DEF AnswersHoldMembers
  <1>4. CASE ServerStep \/ Others
    BY <1>1, <1>4, ServerKnows
  <1>5. CASE UNCHANGED vars
    BY <1>1, <1>5 DEF vars, device
  <1> QED
    BY <1>2, <1>3, <1>4, <1>5 DEF Next

\* The requests stay addressed to others, and somebody is left in the call.
LEMMA RequestsStep ==
    TypeOK /\ KnownInv /\ [Next]_vars => RequestsAddressed' /\ AllOrNobody'
  <1> SUFFICES ASSUME TypeOK, KnownInv, [Next]_vars
               PROVE  RequestsAddressed' /\ AllOrNobody'
    OBVIOUS
  <1> USE DEF KnownInv, RequestsAddressed, AllOrNobody
  <1>1. toServer \in Seq(Messages)
    BY QueueTypes
  <1>2. CASE UNCHANGED <<toServer, server>>
    BY <1>2 DEF server
  <1>3. ASSUME NEW m \in Messages, Addressed(m), toServer' = Append(toServer, m)
        PROVE  RequestsAddressed'
    <2>1. \A i \in DOMAIN toServer' : \/ i \in DOMAIN toServer /\ toServer'[i] = toServer[i]
                                      \/ toServer'[i] = m
      BY <1>1, <1>3, GrownQueue
    <2> QED
      BY <1>3, <2>1 DEF Addressed
  <1>4. CASE Operation
    <2>1. ASSUME NEW u \in Users
          PROVE  /\ Msg("REMOVE_USER", u, "left", TRUE) \in Messages
                 /\ Addressed(Msg("REMOVE_USER", u, "left", TRUE))
      BY MsgType DEF Ops, People, Fields, Addressed, Msg
    <2>2. UNCHANGED server /\ (toServer' = toServer \/ RequestsAddressed')
      BY <1>3, <1>4, <2>1, OperationKnows
    <2> QED
      BY <1>2, <2>2 DEF server
  <1>5. CASE ServerStep \/ Others
    <2>1. /\ AllOrNobody'
          /\ \/ toServer' = toServer
             \/ toServer # <<>> /\ toServer' = Tail(toServer)
      BY <1>5, ServerKnows
    <2> QED
      BY <1>1, <2>1, TakenQueue DEF Addressed
  <1>6. CASE Receive
    BY <1>2, <1>6, ReceiveKnows
  <1>7. CASE UNCHANGED vars
    BY <1>2, <1>7 DEF vars
  <1> QED
    BY <1>4, <1>5, <1>6, <1>7 DEF Next

\* Who is forgotten is being removed, or was never entered.
LEMMA FoundStep == TypeOK /\ KnownInv /\ [Next]_vars => KnownUsersAreFound'
  <1> SUFFICES ASSUME TypeOK, KnownInv, [Next]_vars
               PROVE  KnownUsersAreFound'
    OBVIOUS
  <1> USE DEF KnownInv, KnownUsersAreFound
  <1>1. toServer \in Seq(Messages)
    BY QueueTypes
  <1>2. CASE UNCHANGED <<inCall, data, toServer, server>>
    BY <1>2 DEF server
  <1>3. CASE Operation
    <2>1. inCall' = inCall /\ members' = members /\ newcomers' = newcomers
      BY <1>3, OperationKnows DEF server
    <2>2. ASSUME NEW m \in Messages, toServer' = Append(toServer, m),
                 DOMAIN data \ {m.user} \subseteq DOMAIN data',
                 m.op = "REMOVE_USER" \/ DOMAIN data' = DOMAIN data
          PROVE  KnownUsersAreFound'
      <3>1. /\ \A i \in DOMAIN toServer : i \in DOMAIN toServer' /\ toServer'[i] = toServer[i]
            /\ \E i \in DOMAIN toServer' : toServer'[i] = m
        <4>1. Len(toServer) + 1 \in DOMAIN toServer'
          BY <1>1, <2>2, GrownQueue
        <4> QED
          BY <1>1, <2>2, <4>1, GrownQueue
      <3> QED
        BY <2>1, <2>2, <3>1
    <2>3. ASSUME NEW u \in Users
          PROVE  /\ Msg("REMOVE_USER", u, "left", TRUE) \in Messages
                 /\ Msg("REMOVE_USER", u, "left", TRUE).user = u
                 /\ Msg("REMOVE_USER", u, "left", TRUE).op = "REMOVE_USER"
      BY MsgType DEF Ops, People, Fields, Msg
    <2>4. CASE DOMAIN data' = DOMAIN data /\ toServer' = toServer
      BY <2>1, <2>4
    <2> QED
      BY <1>3, <2>2, <2>3, <2>4, OperationKnows
  <1>4. CASE Receive
    <2>1. /\ toClient # <<>> => 1 \in DOMAIN toClient /\ toClient[1] = Head(toClient)
      BY QueueTypes, TakenQueue
    <2> QED
      BY <1>4, <2>1, ReceiveKnows DEF AnswersHoldMembers, server
  <1>5. CASE ServerStep \/ Others
    <2>1. /\ UNCHANGED device
          /\ members' \ newcomers' \subseteq members \ newcomers
          /\ \/ toServer' = toServer
             \/ /\ toServer # <<>> /\ toServer' = Tail(toServer)
                /\ Head(toServer).op = "REMOVE_USER" => Head(toServer).user \notin members'
      BY <1>5, ServerKnows
    <2>2. \A i \in DOMAIN toServer :
              \/ \E j \in DOMAIN toServer' : toServer'[j] = toServer[i]
              \/ toServer[i].op = "REMOVE_USER" => toServer[i].user \notin members'
      <3>1. CASE toServer' = toServer
        BY <3>1
      <3>2. CASE toServer # <<>> /\ toServer' = Tail(toServer)
        <4>1. \A i \in DOMAIN toServer :
                  i # 1 => i - 1 \in DOMAIN toServer' /\ toServer'[i - 1] = toServer[i]
          BY <1>1, <3>2, TakenQueue
        <4>2. toServer[1] = Head(toServer)
          BY <1>1, <3>2, TakenQueue
        <4> QED
          BY <2>1, <3>2, <4>1, <4>2
      <3> QED
        BY <2>1, <3>1, <3>2
    <2> QED
      BY <2>1, <2>2 DEF device, tables
  <1>6. CASE UNCHANGED vars
    BY <1>2, <1>6 DEF vars, tables
  <1> QED
    BY <1>3, <1>4, <1>5, <1>6 DEF Next

LEMMA KnownInvariant == Spec => [](TypeOK /\ KnownInv)
  <1>1. TypeOK /\ KnownInv /\ [Next]_vars => (TypeOK /\ KnownInv)'
    BY NextType, AnswersStep, OwnStep, RequestsStep, FoundStep DEF KnownInv
  <1> QED
    BY <1>1, InitType, InitKnows, PTL DEF Spec

\* Whoever the server has in the call since before the device is in
\* activeCallData.participants while the call goes on, or a request to remove
\* that user is under way: a stale answer to GET_CALL_DATA never hides one.
THEOREM EverybodyIsFound == Spec => []KnownUsersAreFound
  <1>1. KnownInv => KnownUsersAreFound
    BY DEF KnownInv
  <1> QED
    BY <1>1, KnownInvariant, PTL

\* Muting, unmuting and starting the video fail for want of the device's own
\* entry only when the call has ended, or before the streams are there.
THEOREM OwnEntryIsFound == Spec => []OwnOperationsFindTheirData
  <1>1. KnownInv => OwnOperationsFindTheirData
    BY DEF KnownInv
  <1> QED
    BY <1>1, KnownInvariant, PTL

=============================================================================
