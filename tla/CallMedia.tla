------------------------------- MODULE CallMedia -------------------------------
(***************************************************************************)
(* What is heard and seen in one call: the device's microphone and camera, *)
(* the flags of the participants (kept twice: in activeCallData and in     *)
(* the rows of participantUsersList, which the app shows), and the call    *)
(* server, which tells the other devices.                                  *)
(*                                                                         *)
(* An operation writes its flags at once and sends a request; the requests *)
(* and the events of the server cross.  The connection is up: losing it is *)
(* in CallSession.                                                         *)
(***************************************************************************)
EXTENDS Naturals, Sequences, FiniteSets

CONSTANTS
    Users,       \* the other users
    Self,        \* CALL_TM_USER_ID
    VideoCall,   \* is the call a video call from the start?
    Uses,        \* what happens in the call: a subset of AllUses
    MaxRequests, \* bound on requests the server has not seen
    MaxEvents    \* bound on messages to the device when another is caused

\* Muting; adding video; joining and leaving; asking the server for the
\* participants; the end of the call.
AllUses == {"audio", "video", "people", "refresh", "end"}

ASSUME SelfAssumption == Self \notin Users
ASSUME UsesAssumption == Uses \subseteq AllUses
ASSUME VideoCallAssumption == VideoCall \in BOOLEAN
ASSUME MediaBoundsAssumption == MaxRequests \in Nat /\ MaxEvents \in Nat

People == Users \cup {Self}
Kinds == {"audio", "video"}

\* Of a participant: audio_muted, video_muted, video_active, and whether
\* status is LEFT.
Fields == Kinds \cup {"active", "left"}
Info == [Fields -> BOOLEAN]

VARIABLES
    mic, cam,  \* localAudioTrack, localVideoTrack: "none", "on" or "off"
    addVideo,  \* RoomClient.addVideo
    data,      \* activeCallData.participants
    rows,      \* participantUsersList, per user
    inCall,    \* ACTIVE_CALL_ID is this call
    crashed,   \* what an exception that nobody catches has come out of
    toServer, toClient,
    members, srv, \* server: who is in the call, with which flags
    gone,         \* server: who has been in it
    newcomers, \* history: who has joined it after the device
    skewed     \* history: tracks last set without, or against, the server

media == <<mic, cam, addVideo, skewed>>
tables == <<data, rows>>
server == <<members, srv, gone, newcomers>>
vars == <<media, tables, inCall, crashed, toServer, toClient, server>>

\* A request, or an event: the field of the user is set to val.
Ops == {"MUTE", "HOST_MUTE", "VIDEO_STATUS", "STREAM_REQUEST",
        "REMOVE_USER", "GET_CALL_DATA", "NEW_PARTICIPANT", "LEAVE_CALL",
        "STATUS_UPDATE", "END_CALL"}
Msg(op, u, f, v) == [op |-> op, user |-> u, field |-> f, val |-> v]
Messages ==
    {m \in [op : Ops, user : People, field : Fields, val : BOOLEAN] :
        m.op \in {"MUTE", "HOST_MUTE"} => m.field \in Kinds}

\* The answer to GET_CALL_DATA and ACCEPT: the participants.
Snapshot(d) == [op |-> "DATA", data |-> d]
DataOf == UNION {[S -> Info] : S \in SUBSET People}

TypeOK ==
    /\ mic \in {"none", "on", "off"} /\ cam \in {"none", "on", "off"}
    /\ addVideo \in BOOLEAN
    /\ data \in DataOf
    /\ rows \in [People -> Seq(Info)]
    /\ inCall \in BOOLEAN
    /\ crashed \in {"no", "mute", "unmute", "switch", "handler"}
    /\ toServer \in Seq(Messages)
    /\ toClient \in Seq(Messages \cup [op : {"DATA"}, data : DataOf])
    /\ members \subseteq People /\ gone \subseteq People
    /\ srv \in [People -> Info]
    /\ newcomers \subseteq gone
    /\ skewed \subseteq Kinds

NoData == [u \in {} |-> {}]
NoRows == [u \in People |-> <<>>]

\* Flags of a participant who has just been brought in.
Fresh == [f \in Fields |-> f = "active" /\ VideoCall]

\* In the call, before its streams are added.  The Ack of initiateCall lists
\* every participant once, a call request twice.
Init ==
    /\ mic = "none" /\ cam = "none"
    /\ addVideo = VideoCall
    /\ \E S \in SUBSET Users \ {{}}, copies \in {1, 2} :
           LET there == S \cup {Self} IN
               /\ members = there
               /\ srv = [u \in People |-> Fresh]
               /\ data = [u \in there |-> Fresh]
               /\ rows = [u \in People |->
                            IF u \in there
                              THEN [i \in 1 .. copies |-> Fresh] ELSE <<>>]
               /\ gone = S
    /\ inCall = TRUE
    /\ crashed = "no"
    /\ toServer = <<>> /\ toClient = <<>>
    /\ newcomers = {} /\ skewed = {}

-----------------------------------------------------------------------------
(* Helpers.                                                                *)

\* updateParticipants: only the first row of the user is updated.
SetRow(u, f, v) ==
    IF rows[u] = <<>> THEN rows ELSE [rows EXCEPT ![u][1][f] = v]

DropRow(u) ==
    IF rows[u] = <<>> THEN rows ELSE [rows EXCEPT ![u] = Tail(@)]

SetData(u, f, v) == [data EXCEPT ![u][f] = v]

\* Both copies of a flag of the user.
SetBoth(u, f, v) ==
    /\ data' = SetData(u, f, v)
    /\ rows' = SetRow(u, f, v)

\* The flag in both copies, if the user is known.
SetKnown(u, f, v) ==
    IF u \in DOMAIN data THEN SetBoth(u, f, v) ELSE UNCHANGED tables

Track(kind) == IF kind = "audio" THEN mic ELSE cam
SetTrack(kind, v) ==
    /\ mic' = IF kind = "audio" THEN v ELSE mic
    /\ cam' = IF kind = "video" THEN v ELSE cam

Emit(m) == toServer' = Append(toServer, m)

\* A null is dereferenced: the exception reaches the thread's top frame.
Crash(where) ==
    /\ crashed' = where
    /\ UNCHANGED <<media, tables, inCall, toServer, toClient, server>>

\* An operation of the app, while the process lives and the bound allows.
May(use) ==
    /\ use \in Uses
    /\ crashed = "no"
    /\ Len(toServer) < MaxRequests /\ Len(toClient) < MaxEvents

-----------------------------------------------------------------------------
(* Operations of the application.                                          *)

\* addCallStreams: tracks come up enabled, whatever was muted before.
AddStreams ==
    /\ crashed = "no" /\ inCall
    /\ mic = "none"
    /\ mic' = "on"
    /\ cam' = IF addVideo THEN "on" ELSE cam
    /\ UNCHANGED <<addVideo, skewed, tables, inCall, crashed, toServer,
                   toClient, server>>

\* switchToVideoCall, before the streams are there: nothing can be captured
\* yet, the wish is noted and announced.
AskForVideo ==
    /\ mic = "none" /\ cam = "none"
    /\ addVideo' = TRUE
    /\ Emit(Msg("STREAM_REQUEST", Self, "active", TRUE))
    /\ rows' = SetRow(Self, "active", TRUE)
    /\ UNCHANGED <<mic, cam, skewed, data, crashed>>

\* And with them: a camera is started for whoever is not sending video.
StartVideo ==
    /\ mic # "none" \/ cam # "none"
    /\ Self \in DOMAIN data
    /\ IF data[Self]["active"]
         THEN UNCHANGED <<media, data, toServer>>
         ELSE /\ Emit(Msg("VIDEO_STATUS", Self, "active", TRUE))
              /\ data' = SetData(Self, "active", TRUE)
              /\ addVideo' = TRUE
              /\ cam' = "on"
              /\ skewed' = skewed \ {"video"}
              /\ UNCHANGED mic
    /\ UNCHANGED <<rows, crashed>>

NoDataToSwitch ==
    /\ mic # "none" \/ cam # "none"
    /\ Self \notin DOMAIN data
    /\ Crash("switch")

SwitchToVideoCall ==
    /\ May("video")
    /\ \/ (AskForVideo \/ StartVideo) /\ UNCHANGED <<inCall, toClient, server>>
       \/ NoDataToSwitch

\* Mutant: the other devices are not told.
UnmuteUntold(kind) ==
    /\ Self \in DOMAIN data /\ mic # "none"
    /\ mic' = "on"
    /\ skewed' = skewed
    /\ SetBoth(Self, kind, FALSE)
    /\ UNCHANGED <<cam, addVideo, inCall, crashed, toServer, toClient, server>>

\* unMuteMyTrack: for video, too, it is the audio track that is enabled.
Unmute(kind) ==
    /\ Self \in DOMAIN data /\ mic # "none"
    /\ mic' = "on"
    /\ skewed' = IF kind = "video" /\ mic = "off" THEN skewed \cup {"audio"}
                 ELSE skewed \ {kind}
    /\ SetBoth(Self, kind, FALSE)
    /\ Emit(Msg("MUTE", Self, kind, FALSE))
    /\ UNCHANGED <<cam, addVideo, inCall, crashed, toClient, server>>

UnMuteMyTrack(kind) ==
    /\ May(kind)
    /\ \/ Unmute(kind)
       \/ (Self \notin DOMAIN data \/ mic = "none") /\ Crash("unmute")

Mute(kind) ==
    /\ Track(kind) = "on"
    /\ Self \in DOMAIN data
    /\ SetTrack(kind, "off")
    /\ skewed' = skewed \ {kind}
    /\ SetBoth(Self, kind, TRUE)
    /\ Emit(Msg("MUTE", Self, kind, TRUE))
    /\ UNCHANGED <<addVideo, inCall, crashed, toClient, server>>

\* muteMyTrack is a toggle, and adds what is not there yet: with no streams,
\* addAudioStream finds no factory and only announces the audio.
MuteMyTrack(kind) ==
    /\ May(kind)
    /\ \/ /\ kind = "audio" /\ mic = "none"
          /\ Emit(Msg("STREAM_REQUEST", Self, "active", FALSE))
          /\ UNCHANGED <<media, tables, inCall, crashed, toClient, server>>
       \/ kind = "video" /\ cam = "none" /\ SwitchToVideoCall
       \/ Track(kind) = "off" /\ UnMuteMyTrack(kind)
       \/ Mute(kind)
       \/ Track(kind) = "on" /\ Self \notin DOMAIN data /\ Crash("mute")

\* hostMuteAudio, hostMuteVideo.
HostMute(u, kind) ==
    /\ May(kind)
    /\ Emit(Msg("HOST_MUTE", u, kind, TRUE))
    /\ SetKnown(u, kind, TRUE)
    /\ UNCHANGED <<media, inCall, crashed, toClient, server>>

\* Mutant of RemoveUser: the server is not asked.
RemoveUserHereOnly(u) ==
    /\ May("people") /\ u \in DOMAIN data
    /\ data' = [v \in DOMAIN data \ {u} |-> data[v]]
    /\ rows' = DropRow(u)
    /\ UNCHANGED <<media, inCall, crashed, toServer, toClient, server>>

\* removeUser: its entry and its row go at once.
RemoveUser(u) ==
    /\ May("people")
    /\ Emit(Msg("REMOVE_USER", u, "left", TRUE))
    /\ IF u \in DOMAIN data
         THEN /\ data' = [v \in DOMAIN data \ {u} |-> data[v]]
              /\ rows' = DropRow(u)
         ELSE UNCHANGED tables
    /\ UNCHANGED <<media, inCall, crashed, toClient, server>>

\* acceptCall and isCallActive: see their Ack, OnData.
AskForData ==
    /\ May("refresh")
    /\ Emit(Msg("GET_CALL_DATA", Self, "active", FALSE))
    /\ UNCHANGED <<media, tables, inCall, crashed, toClient, server>>

\* The posted part of RoomClient.release, after the end of the call.
Dispose ==
    /\ ~inCall /\ crashed = "no"
    /\ mic # "none" \/ cam # "none"
    /\ mic' = "none" /\ cam' = "none" /\ addVideo' = FALSE /\ skewed' = {}
    /\ UNCHANGED <<tables, inCall, crashed, toServer, toClient, server>>

-----------------------------------------------------------------------------
(* Handlers of the call socket.  Each ignores another call's events.       *)

\* The user is looked up without a check.
OnMuteCall(m) ==
    /\ m.op = "MUTE"
    /\ IF m.user \in DOMAIN data
         THEN SetBoth(m.user, m.field, m.val) /\ UNCHANGED crashed
         ELSE crashed' = "handler" /\ UNCHANGED tables
    /\ UNCHANGED <<media, inCall>>

\* Mutant: the device's own track is left on.
OnHostMuteTrackOn(m) ==
    /\ m.op = "HOST_MUTE"
    /\ SetKnown(m.user, m.field, m.val)
    /\ UNCHANGED <<media, inCall, crashed>>

\* Mutant: the rows of the others are left alone.
OnHostMuteOwnRowOnly(m) ==
    /\ m.op = "HOST_MUTE" /\ m.user \in DOMAIN data
    /\ data' = SetData(m.user, m.field, m.val)
    /\ rows' = IF m.user = Self THEN SetRow(m.user, m.field, m.val) ELSE rows
    /\ IF m.user = Self /\ Track(m.field) = "on"
         THEN SetTrack(m.field, "off") ELSE UNCHANGED <<mic, cam>>
    /\ UNCHANGED <<addVideo, skewed, inCall, crashed>>

\* For video, too, it is audio_muted that is written, from an event that
\* holds video_muted; the row and the track are the right ones.
OnHostMute(m) ==
    /\ m.op = "HOST_MUTE"
    /\ IF m.user \in DOMAIN data
         THEN /\ data' = SetData(m.user, "audio", m.field = "audio" /\ m.val)
              /\ rows' = SetRow(m.user, m.field, m.val)
              /\ UNCHANGED crashed
              /\ IF m.user # Self THEN UNCHANGED <<mic, cam, skewed>>
                 ELSE IF Track(m.field) = "none"
                 THEN skewed' = skewed \cup {m.field} /\ UNCHANGED <<mic, cam>>
                 ELSE /\ SetTrack(m.field, "off")
                      /\ skewed' = skewed \ {m.field}
         ELSE crashed' = "handler" /\ UNCHANGED <<tables, mic, cam, skewed>>
    /\ UNCHANGED <<addVideo, inCall>>

\* Rows only; the data keep what they had.
OnStreamRequest(m) ==
    /\ m.op = "STREAM_REQUEST"
    /\ rows' = IF m.val THEN SetRow(m.user, "active", TRUE) ELSE rows
    /\ UNCHANGED <<data, media, inCall, crashed>>

\* Mutant: the row keeps its video_muted.
OnVideoStatusKeepMuted(m) ==
    /\ m.op = "VIDEO_STATUS"
    /\ SetKnown(m.user, "active", m.val)
    /\ UNCHANGED <<media, inCall, crashed>>

OnVideoStatus(m) ==
    /\ m.op = "VIDEO_STATUS"
    /\ IF m.user \in DOMAIN data
         THEN /\ data' = [data EXCEPT ![m.user]["active"] = m.val,
                                      ![m.user]["video"] = FALSE]
              /\ rows' = IF rows[m.user] = <<>> THEN rows
                         ELSE [rows EXCEPT ![m.user][1]["active"] = m.val,
                                           ![m.user][1]["video"] = FALSE]
         ELSE UNCHANGED tables
    /\ UNCHANGED <<media, inCall, crashed>>

\* Another participant leaves, or its status changes.
OnStatus(m) ==
    /\ m.op \in {"LEAVE_CALL", "STATUS_UPDATE"}
    /\ SetKnown(m.user, "left", m.val)
    /\ UNCHANGED <<media, inCall, crashed>>

\* Mutant: one of the flags of the new row is not read from the event.
OnNewParticipantNoStatus(m) ==
    /\ m.op = "NEW_PARTICIPANT"
    /\ rows' = [rows EXCEPT ![m.user] =
                   Append(@, [f \in Fields \ {"left"} |-> Fresh[f]])]
    /\ UNCHANGED <<data, media, inCall, crashed>>

\* A row is appended, the data are not told.
OnNewParticipant(m) ==
    /\ m.op = "NEW_PARTICIPANT"
    /\ rows' = [rows EXCEPT ![m.user] = Append(@, Fresh)]
    /\ UNCHANGED <<data, media, inCall, crashed>>

\* The removal of another user by another host is only reported to the app.
OnRemoval(m) ==
    /\ m.op = "REMOVE_USER"
    /\ UNCHANGED <<tables, media, inCall, crashed>>

\* Mutant of OnEnd: ACTIVE_CALL_ID is kept.
OnEndKeepsId(m) ==
    /\ m.op = "END_CALL"
    /\ data' = NoData /\ rows' = NoRows
    /\ UNCHANGED <<media, inCall, crashed>>

OnEnd(m) ==
    /\ m.op = "END_CALL"
    /\ data' = NoData /\ rows' = NoRows
    /\ inCall' = FALSE
    /\ UNCHANGED <<media, crashed>>

\* The data are replaced by what the server had when it answered.
OnData(m) ==
    /\ m.op = "DATA"
    /\ data' = m.data
    /\ UNCHANGED <<rows, media, inCall, crashed>>

Receive ==
    /\ crashed = "no"
    /\ toClient # <<>>
    /\ toClient' = Tail(toClient)
    /\ LET m == Head(toClient) IN
         IF inCall
           THEN \/ OnMuteCall(m) \/ OnHostMute(m) \/ OnStreamRequest(m)
                \/ OnVideoStatus(m) \/ OnStatus(m) \/ OnNewParticipant(m)
                \/ OnRemoval(m) \/ OnEnd(m) \/ OnData(m)
           ELSE UNCHANGED <<tables, media, inCall, crashed>>
    /\ UNCHANGED <<toServer, server>>

-----------------------------------------------------------------------------
(* The call server (external).  It takes the requests in order, tells      *)
(* everybody what a host did and the others what a user did.               *)

device == <<media, tables, inCall, crashed>>

Push(m) == toClient' = Append(toClient, m)
SetSrv(u, f, v) == srv' = [srv EXCEPT ![u][f] = v]

Serve(m) ==
    \/ /\ m.op = "MUTE"
       /\ SetSrv(Self, m.field, m.val)
       /\ UNCHANGED <<members, gone, newcomers, toClient>>
    \/ /\ m.op = "HOST_MUTE"
       /\ IF m.user \in members
            THEN SetSrv(m.user, m.field, m.val) /\ Push(m)
            ELSE UNCHANGED <<srv, toClient>>
       /\ UNCHANGED <<members, gone, newcomers>>
    \/ /\ m.op = "VIDEO_STATUS"
       /\ srv' = [srv EXCEPT ![Self]["active"] = TRUE, ![Self]["video"] = FALSE]
       /\ UNCHANGED <<members, gone, newcomers, toClient>>
    \/ /\ m.op = "STREAM_REQUEST"
       /\ srv' = [srv EXCEPT ![Self]["active"] = @ \/ m.val]
       /\ UNCHANGED <<members, gone, newcomers, toClient>>
    \/ /\ m.op = "REMOVE_USER"
       /\ members' = members \ {m.user}
       /\ UNCHANGED <<srv, gone, newcomers, toClient>>
    \/ /\ m.op = "GET_CALL_DATA"
       /\ Self \in members
       /\ Push(Snapshot([u \in members |-> srv[u]]))
       /\ UNCHANGED server
    \/ /\ Self \notin members
       /\ UNCHANGED <<server, toClient>>

ServerStep ==
    /\ toServer # <<>>
    /\ toServer' = Tail(toServer)
    /\ Serve(Head(toServer))
    /\ UNCHANGED device

EventRoom == Len(toClient) < MaxEvents /\ Self \in members

\* Another user mutes or unmutes itself.
UserMutes(u, kind) ==
    /\ kind \in Uses
    /\ LET v == ~srv[u][kind] IN
         SetSrv(u, kind, v) /\ Push(Msg("MUTE", u, kind, v))
    /\ UNCHANGED <<members, gone, newcomers>>

UserStartsVideo(u) ==
    /\ "video" \in Uses /\ ~srv[u]["active"]
    /\ srv' = [srv EXCEPT ![u]["active"] = TRUE, ![u]["video"] = FALSE]
    /\ Push(Msg("VIDEO_STATUS", u, "active", TRUE))
    /\ UNCHANGED <<members, gone, newcomers>>

\* Another host mutes a participant.
HostMutes(p, kind) ==
    /\ kind \in Uses
    /\ SetSrv(p, kind, TRUE)
    /\ Push(Msg("HOST_MUTE", p, kind, TRUE))
    /\ UNCHANGED <<members, gone, newcomers>>

UserLeaves(u, op) ==
    /\ "people" \in Uses
    /\ members' = members \ {u}
    /\ Push(Msg(op, u, "left", TRUE))
    /\ UNCHANGED <<srv, gone, newcomers>>

UserJoins(u) ==
    /\ "people" \in Uses /\ u \notin gone
    /\ members' = members \cup {u} /\ gone' = gone \cup {u}
    /\ newcomers' = newcomers \cup {u}
    /\ Push(Msg("NEW_PARTICIPANT", u, "active", VideoCall))
    /\ UNCHANGED srv

CallEnds ==
    /\ "end" \in Uses
    /\ members' = {}
    /\ Push(Msg("END_CALL", Self, "left", TRUE))
    /\ UNCHANGED <<srv, gone, newcomers>>

Others ==
    /\ EventRoom
    /\ \/ \E u \in members \ {Self}, kind \in Kinds : UserMutes(u, kind)
       \/ \E u \in members \ {Self} : UserStartsVideo(u)
       \/ \E p \in members, kind \in Kinds : HostMutes(p, kind)
       \/ \E u \in members \ {Self}, op \in {"LEAVE_CALL", "REMOVE_USER"} :
             UserLeaves(u, op)
       \/ \E u \in Users : UserJoins(u)
       \/ CallEnds
    /\ UNCHANGED <<device, toServer>>

-----------------------------------------------------------------------------
Operation ==
    \/ AddStreams \/ SwitchToVideoCall \/ AskForData \/ Dispose
    \/ \E kind \in Kinds : MuteMyTrack(kind) \/ UnMuteMyTrack(kind)
    \/ \E u \in Users, kind \in Kinds : HostMute(u, kind)
    \/ \E u \in Users : RemoveUser(u)

Next == Operation \/ Receive \/ ServerStep \/ Others

Spec == Init /\ [][Next]_vars

-----------------------------------------------------------------------------
(* Properties.                                                             *)

\* Everything sent has been handled.
Settled == inCall /\ crashed = "no" /\ toServer = <<>> /\ toClient = <<>>

\* A microphone or camera that is on is one the other devices are told is on:
\* whatever the toggle, the host's mute and the device's own requests cross,
\* they never end with a track that is on and shown as muted (or, for video,
\* as not there).  Excepted are tracks last set by one of the two operations
\* that do not agree with the server: the unmute of the video, which opens the
\* microphone, and the adding of streams, which forgets a host's mute.
NoHiddenTrack ==
    Settled => \A kind \in Kinds \ skewed :
                  Track(kind) = "on" =>
                      /\ ~srv[Self][kind]
                      /\ kind = "video" => srv[Self]["active"]

\* The row the app shows of another participant has the flags the server
\* has: what the device wrote at once, for a host's mute, and what the events
\* say end up the same in whatever order they cross.
RowsTellTheTruth ==
    Settled => \A u \in members \ {Self} :
                  /\ rows[u] # <<>>
                  /\ \A kind \in Kinds : rows[u][1][kind] = srv[u][kind]

\* The device that shows itself as muted is muted, and cannot be heard.
OwnRowTellsTheTruth ==
    Settled /\ "audio" \notin skewed /\ rows[Self] # <<>> /\ rows[Self][1]["audio"]
        => mic # "on"

\* The app's operations on its own tracks fail, for want of data, only when the
\* call has ended under them, or before the streams are there (unmute): while
\* it goes on, no removal and no stale answer takes the own entry away.
OwnOperationsFindTheirData ==
    /\ crashed \in {"mute", "switch"} => ~inCall
    /\ crashed = "unmute" => ~inCall \/ mic = "none"

\* The handlers look users up without a check, and find those the server has in
\* the call, except newcomers, which are never entered, and who is being removed:
\* the entry goes before the server knows, and a mute of that user may be on
\* its way.
KnownUsersAreFound ==
    inCall => \A u \in members \ newcomers :
                 \/ u \in DOMAIN data
                 \/ \E i \in DOMAIN toServer : toServer[i].op = "REMOVE_USER"
                                             /\ toServer[i].user = u

=============================================================================
