------------------------------ MODULE CallSession ------------------------------
(***************************************************************************)
(* Which call the SDK believes it is in: the global call state of          *)
(* TroopMessengerClient (ACTIVE_CALL_ID, activeCallData,                   *)
(* participantUsersList), the call operations of TroopMessengerCall and    *)
(* the call-socket handlers of TroopSocketClient, over a FIFO socket to an *)
(* external call server.                                                   *)
(*                                                                         *)
(* A participant is an identity here: its mute, video, host and status     *)
(* fields belong to CallMedia, the transports of the room to CallRoom.     *)
(* ACTIVE_CALL_TYPE and usbVideoCapture travel with those.                 *)
(*                                                                         *)
(* Every request of the SDK is answered by a Socket.IO Ack; acks and       *)
(* server events share one ordered stream (toClient).  An Ack is a closure *)
(* over nothing but the request, so between the request and its Ack any    *)
(* other message may be handled.                                           *)
(***************************************************************************)
EXTENDS Naturals, Sequences, FiniteSets

CONSTANTS
    Calls,       \* call ids the server can issue
    NoCall,      \* the empty ACTIVE_CALL_ID
    Users,       \* the other users
    Self,        \* CALL_TM_USER_ID
    BusyCheck,   \* does the server refuse a second call to a busy device?
    MaxRequests, \* bound on requests not yet acknowledged
    MaxEvents,   \* bound on messages in flight when the server sends an event
    MaxRows,     \* bound on a user's rows when another one is asked for
    MaxDrops,    \* bound on disconnections and process restarts
    MaxLookups   \* bound on concurrent REST lookups

ASSUME CallsAssumption == NoCall \notin Calls
ASSUME UsersAssumption == Self \notin Users
ASSUME BusyCheckAssumption == BusyCheck \in BOOLEAN
ASSUME BoundsAssumption == /\ MaxRequests \in Nat /\ MaxEvents \in Nat
                           /\ MaxRows \in Nat
                           /\ MaxDrops \in Nat /\ MaxLookups \in Nat

People == Users \cup {Self}
CallIds == Calls \cup {NoCall}

VARIABLES
    ACTIVE_CALL_ID,        \* the call the SDK is in, or NoCall
    activeCallData,        \* [call, members]; members = {}: no "participants"
    participantUsersList,  \* rows per user (the list may hold a user twice)
    room,                  \* RoomClient.CALL_ID while isAlreadyStarted
    lookups,               \* REST fetchUsersByUid calls being awaited
    connected,             \* callSocket.connected()
    toServer, toClient,    \* the two directions of the socket
    drops,                 \* disconnections and restarts so far
    srvCalls,              \* server: calls this device takes part in
    srvMembers,            \* server: who is in a call
    issued,                \* server: call ids handed out
    past,                  \* history: calls ACTIVE_CALL_ID has left
    crossed,               \* history: a hang-up Ack has wiped a later call
    synced                 \* history: no message was ever lost

callId == <<ACTIVE_CALL_ID, past>>
clientVars == <<callId, activeCallData, participantUsersList, room>>
serverVars == <<srvCalls, srvMembers, issued>>
vars == <<clientVars, lookups, connected, toServer, toClient,
          drops, serverVars, crossed, synced>>

-----------------------------------------------------------------------------
(* Messages.  One record shape for both directions keeps the types simple. *)

Requests == {"INITIATE_CALL", "ACCEPT", "REJECT", "END_CALL",
             "ADD_CALL_USER", "CALL_REMOVE_USER", "GET_CALL_DATA"}
HangUps == {"REJECT", "END_CALL"}
SelfEnds == {"END_CALL", "CALL_REMOVE_USER", "LEAVE_CALL"}
Events == SelfEnds \cup {"CALL_REQUEST", "CALL_NEW_PARTICIPANTS"}

Request == [op : Requests, call : CallIds, users : SUBSET People]

\* ack: the answer to a request of kind op (ok = "success"), else an event.
Reply == [ack : BOOLEAN, op : Requests \cup Events, call : CallIds,
          users : SUBSET People, ok : BOOLEAN]

Req(op, c, us) == [op |-> op, call |-> c, users |-> us]
Ack(op, c, us, ok) ==
    [ack |-> TRUE, op |-> op, call |-> c, users |-> us, ok |-> ok]
Event(op, c, us) ==
    [ack |-> FALSE, op |-> op, call |-> c, users |-> us, ok |-> TRUE]

TypeOK ==
    /\ ACTIVE_CALL_ID \in CallIds
    /\ activeCallData \in [call : CallIds, members : SUBSET People]
    /\ participantUsersList \in [People -> Nat]
    /\ room \in CallIds
    /\ lookups \subseteq [kind : {"initiate", "add"}, users : SUBSET People]
    /\ connected \in BOOLEAN
    /\ toServer \in Seq(Request)
    /\ toClient \in Seq(Reply)
    /\ drops \in Nat
    /\ srvCalls \subseteq Calls
    /\ srvMembers \in [Calls -> SUBSET People]
    /\ issued \subseteq Calls
    /\ past \subseteq Calls
    /\ crossed \in BOOLEAN
    /\ synced \in BOOLEAN

NoData == [call |-> NoCall, members |-> {}]
EmptyList == [u \in People |-> 0]

Init ==
    /\ ACTIVE_CALL_ID = NoCall
    /\ activeCallData = NoData
    /\ participantUsersList = EmptyList
    /\ room = NoCall
    /\ lookups = {}
    /\ connected = TRUE
    /\ toServer = <<>> /\ toClient = <<>>
    /\ drops = 0
    /\ srvCalls = {}
    /\ srvMembers = [c \in Calls |-> {}]
    /\ issued = {}
    /\ past = {}
    /\ crossed = FALSE
    /\ synced = TRUE

-----------------------------------------------------------------------------
(* Helpers shared by the handlers.                                         *)

\* One row is appended per user, whoever is already listed.
AddRows(list, us, n) ==
    [u \in People |-> list[u] + IF u \in us THEN n ELSE 0]

\* Mutant: the row of a user who is not listed is removed, too.
RemoveRowBlindly(list, us) ==
    [u \in People |-> IF u \in us THEN list[u] - 1 ELSE list[u]]

\* updateParticipants(.., "remove"): the first row of the user, if any.
RemoveRow(list, us) ==
    [u \in People |-> IF u \in us /\ list[u] > 0 THEN list[u] - 1 ELSE list[u]]

\* ACTIVE_CALL_ID := c, with the history of the calls it has held.
SetCall(c) ==
    /\ ACTIVE_CALL_ID' = c
    /\ past' = IF ACTIVE_CALL_ID = c THEN past
               ELSE past \cup ({ACTIVE_CALL_ID} \ {NoCall})

\* Mutant: the list of the participants outlives the call.
ForgetCallKeepList ==
    /\ SetCall(NoCall)
    /\ activeCallData' = NoData
    /\ UNCHANGED participantUsersList

\* What a hang-up Ack resets.
ForgetCall ==
    /\ SetCall(NoCall)
    /\ activeCallData' = NoData
    /\ participantUsersList' = EmptyList

\* Mutant: the room outlives the call.
LeaveCallKeepRoom == ForgetCall /\ UNCHANGED room

\* What the handlers for the end of the call reset.
LeaveCall == ForgetCall /\ room' = NoCall

\* emit: buffered by the socket library while it is disconnected.
Emit(m) == toServer' = Append(toServer, m)

\* Bound: requests whose Ack has not been handled yet.
Outstanding == {i \in DOMAIN toClient : toClient[i].ack}
QueueFree == Len(toServer) + Cardinality(Outstanding) < MaxRequests

-----------------------------------------------------------------------------
(* Operations of the application.                                          *)

\* The facade checks, then the REST lookup of the invited users starts.
InitiateCall ==
    /\ connected
    /\ ACTIVE_CALL_ID = NoCall
    /\ Cardinality(lookups) < MaxLookups
    /\ \E us \in SUBSET Users \ {{}} :
           lookups' = lookups \cup {[kind |-> "initiate", users |-> us \cup {Self}]}
    /\ UNCHANGED <<clientVars, connected, toServer, toClient,
                   drops, serverVars, crossed, synced>>

\* The lookup answers: nothing is checked again before the emit.
InitiateLookupDone ==
    /\ QueueFree
    /\ \E l \in lookups :
           /\ l.kind = "initiate"
           /\ lookups' = lookups \ {l}
           /\ Emit(Req("INITIATE_CALL", NoCall, l.users))
    /\ UNCHANGED <<clientVars, connected, toClient, drops,
                   serverVars, crossed, synced>>

\* The lookup fails, or its answer does not hold the device's own user.
LookupFailed ==
    /\ \E l \in lookups : lookups' = lookups \ {l}
    /\ UNCHANGED <<clientVars, connected, toServer, toClient,
                   drops, serverVars, crossed, synced>>

AddUsersToCall ==
    /\ Cardinality(lookups) < MaxLookups
    /\ \E us \in SUBSET Users \ {{}} :
           lookups' = lookups \cup {[kind |-> "add", users |-> us]}
    /\ UNCHANGED <<clientVars, connected, toServer, toClient,
                   drops, serverVars, crossed, synced>>

\* Users already among the participants are left out; none left, no request.
AddLookupDone ==
    /\ QueueFree
    /\ activeCallData.members # {}
    /\ \E l \in lookups :
           LET newcomers == l.users \ (activeCallData.members \cup {Self}) IN
           /\ l.kind = "add"
           /\ \A u \in newcomers : participantUsersList[u] < MaxRows
           /\ lookups' = lookups \ {l}
           /\ IF newcomers # {}
                THEN Emit(Req("ADD_CALL_USER", ACTIVE_CALL_ID, newcomers))
                ELSE UNCHANGED toServer
    /\ UNCHANGED <<clientVars, connected, toClient, drops,
                   serverVars, crossed, synced>>

AcceptCall ==
    /\ QueueFree
    /\ ACTIVE_CALL_ID # NoCall /\ connected
    /\ Emit(Req("ACCEPT", ACTIVE_CALL_ID, {}))
    /\ UNCHANGED <<clientVars, lookups, connected, toClient,
                   drops, serverVars, crossed, synced>>

\* endCall and rejectCall: the request goes out if it can, the room is
\* released at once, the rest of the state waits for the Ack.
HangUp(op) ==
    /\ QueueFree
    /\ IF ACTIVE_CALL_ID # NoCall /\ connected
         THEN Emit(Req(op, ACTIVE_CALL_ID, {}))
         ELSE UNCHANGED toServer
    /\ room' = NoCall
    /\ UNCHANGED <<callId, activeCallData, participantUsersList,
                   lookups, connected, toClient, drops,
                   serverVars, crossed, synced>>

EndCall == HangUp("END_CALL")
RejectCall == HangUp("REJECT")

RemoveUser(u) ==
    /\ QueueFree
    /\ connected
    /\ Emit(Req("CALL_REMOVE_USER", ACTIVE_CALL_ID, {u}))
    /\ IF u \in activeCallData.members
         THEN /\ activeCallData' = [activeCallData EXCEPT !.members = @ \ {u}]
              /\ participantUsersList' = RemoveRow(participantUsersList, {u})
         ELSE UNCHANGED <<activeCallData, participantUsersList>>
    /\ UNCHANGED <<callId, room, lookups, connected,
                   toClient, drops, serverVars, crossed, synced>>

\* isCallActive emits whether or not the socket is connected.  The value it
\* returns is the initial one: the Ack that would set it has not run yet.
IsCallActive(c) ==
    /\ QueueFree
    /\ Emit(Req("GET_CALL_DATA", c, {}))
    /\ UNCHANGED <<clientVars, lookups, connected, toClient,
                   drops, serverVars, crossed, synced>>

-----------------------------------------------------------------------------
(* Acks.                                                                   *)

\* The call id of the new call overwrites whatever the SDK was in; the room
\* of an earlier call is released and one for the new call is started.
InitiateAck(m) ==
    /\ m.ack /\ m.op = "INITIATE_CALL"
    /\ IF m.ok
         THEN /\ SetCall(m.call)
              /\ activeCallData' = [call |-> m.call, members |-> m.users]
              /\ participantUsersList' =
                     AddRows(participantUsersList, m.users, 1)
              /\ room' = m.call
         ELSE UNCHANGED clientVars
    /\ UNCHANGED crossed

\* Mutant: the answer to accept makes the SDK be in the call it is about.
AcceptAckEntersCall(m) ==
    /\ m.ack /\ m.op = "ACCEPT"
    /\ SetCall(m.call)
    /\ activeCallData' = [call |-> m.call, members |-> m.users]
    /\ UNCHANGED <<participantUsersList, room, crossed>>

AcceptAck(m) ==
    /\ m.ack /\ m.op = "ACCEPT"
    /\ IF m.ok
         THEN activeCallData' = [activeCallData EXCEPT !.members = m.users]
         ELSE UNCHANGED activeCallData
    /\ UNCHANGED <<callId, participantUsersList, room,
                   crossed>>

\* Mutant: the id of the call survives the Ack of a hang-up.
HangUpAckKeepsId(m) ==
    /\ m.ack /\ m.op \in HangUps
    /\ participantUsersList' = EmptyList
    /\ UNCHANGED <<callId, activeCallData, room, crossed>>

\* The Ack of endCall and rejectCall does not look at the current call.
HangUpAck(m) ==
    /\ m.ack /\ m.op \in HangUps
    /\ ForgetCall
    /\ crossed' = (crossed \/ ACTIVE_CALL_ID \notin {m.call, NoCall})
    /\ UNCHANGED room

AddUserAck(m) ==
    /\ m.ack /\ m.op = "ADD_CALL_USER"
    /\ participantUsersList' = AddRows(participantUsersList, m.users, 1)
    /\ UNCHANGED <<callId, activeCallData, room, crossed>>

\* Mutant: the data of whatever call was asked about is taken.
IsCallActiveAckAnyCall(m) ==
    /\ m.ack /\ m.op = "GET_CALL_DATA"
    /\ IF m.ok
         THEN activeCallData' = [call |-> m.call, members |-> m.users]
         ELSE UNCHANGED activeCallData
    /\ UNCHANGED <<callId, participantUsersList, room,
                   crossed>>

IsCallActiveAck(m) ==
    /\ m.ack /\ m.op = "GET_CALL_DATA"
    /\ IF m.ok /\ m.call = ACTIVE_CALL_ID
         THEN activeCallData' = [call |-> m.call, members |-> m.users]
         ELSE UNCHANGED activeCallData
    /\ UNCHANGED <<callId, participantUsersList, room,
                   crossed>>

-----------------------------------------------------------------------------
(* Events of the call server.                                              *)

\* A call request takes over whatever the SDK is doing.  The participants
\* are appended twice; a room already started is kept.
OnCallRequest(m) ==
    /\ ~m.ack /\ m.op = "CALL_REQUEST"
    /\ SetCall(m.call)
    /\ activeCallData' = [call |-> m.call, members |-> m.users]
    /\ participantUsersList' = AddRows(participantUsersList, m.users, 2)
    /\ room' = IF room = NoCall THEN m.call ELSE room
    /\ UNCHANGED crossed

\* Mutant: the end of the call is reported to the app only.
OnEndCallReportsOnly(m) ==
    /\ ~m.ack /\ m.op = "END_CALL"
    /\ UNCHANGED <<clientVars, crossed>>

OnEndCall(m) ==
    /\ ~m.ack /\ m.op = "END_CALL"
    /\ IF m.call = ACTIVE_CALL_ID THEN LeaveCall ELSE UNCHANGED clientVars
    /\ UNCHANGED crossed

\* Mutant: every removal in the active call is only reported.
OnCallRemoveUserReportsOnly(m) ==
    /\ ~m.ack /\ m.op = "CALL_REMOVE_USER"
    /\ UNCHANGED <<clientVars, crossed>>

\* In the active call: the device's own removal ends the call, anybody
\* else's is reported to the app as the end of the call and nothing more.
\* In another call: the user's row is dropped from the list.
OnCallRemoveUser(m) ==
    /\ ~m.ack /\ m.op = "CALL_REMOVE_USER"
    /\ \/ /\ m.call = ACTIVE_CALL_ID
          /\ IF m.users = {Self} THEN LeaveCall ELSE UNCHANGED clientVars
       \/ /\ m.call # ACTIVE_CALL_ID
          /\ participantUsersList' = RemoveRow(participantUsersList, m.users)
          /\ UNCHANGED <<callId, activeCallData, room>>
    /\ UNCHANGED crossed

\* Another user who leaves keeps its row, with status LEFT (see CallMedia).
OnLeaveCall(m) ==
    /\ ~m.ack /\ m.op = "LEAVE_CALL"
    /\ IF m.call = ACTIVE_CALL_ID /\ m.users = {Self}
         THEN LeaveCall
         ELSE UNCHANGED clientVars
    /\ UNCHANGED crossed

\* New participants get rows but are not added to activeCallData.
OnCallNewParticipants(m) ==
    /\ ~m.ack /\ m.op = "CALL_NEW_PARTICIPANTS"
    /\ participantUsersList' =
           IF m.call = ACTIVE_CALL_ID
             THEN AddRows(participantUsersList, m.users, 1)
             ELSE participantUsersList
    /\ UNCHANGED <<callId, activeCallData, room, crossed>>

Handle(m) ==
    \/ InitiateAck(m) \/ AcceptAck(m) \/ HangUpAck(m) \/ AddUserAck(m)
    \/ IsCallActiveAck(m)
    \/ OnCallRequest(m) \/ OnEndCall(m) \/ OnCallRemoveUser(m)
    \/ OnLeaveCall(m) \/ OnCallNewParticipants(m)

\* The socket's thread hands the oldest message to its handler.
Receive ==
    /\ toClient # <<>>
    /\ toClient' = Tail(toClient)
    /\ Handle(Head(toClient))
    /\ UNCHANGED <<lookups, connected, toServer, drops, serverVars, synced>>

-----------------------------------------------------------------------------
(* The call server (external): what the handlers above need of it.  It     *)
(* answers the requests of the device in order, and it never reuses a call *)
(* id.                                                                     *)

Answer(m) == toClient' = Append(toClient, m)

\* The device is out of the call c, if it was in it.
SrvLeave(c) ==
    /\ srvCalls' = srvCalls \ {c}
    /\ srvMembers' = IF c \in srvCalls THEN [srvMembers EXCEPT ![c] = {}]
                     ELSE srvMembers
    /\ UNCHANGED issued

ServerInitiate(m) ==
    /\ m.op = "INITIATE_CALL"
    /\ \/ /\ Answer(Ack("INITIATE_CALL", NoCall, {}, FALSE))
          /\ UNCHANGED serverVars
       \/ /\ BusyCheck => srvCalls = {}
          /\ \E c \in Calls \ issued :
                 /\ issued' = issued \cup {c}
                 /\ srvCalls' = srvCalls \cup {c}
                 /\ srvMembers' = [srvMembers EXCEPT ![c] = m.users]
                 /\ Answer(Ack("INITIATE_CALL", c, m.users, TRUE))

ServerAccept(m) ==
    /\ m.op = "ACCEPT"
    /\ IF m.call \in srvCalls
         THEN Answer(Ack("ACCEPT", m.call, srvMembers[m.call], TRUE))
         ELSE Answer(Ack("ACCEPT", m.call, {}, FALSE))
    /\ UNCHANGED serverVars

ServerHangUp(m) ==
    /\ m.op \in HangUps
    /\ SrvLeave(m.call)
    /\ Answer(Ack(m.op, m.call, {}, TRUE))

ServerAdd(m) ==
    /\ m.op = "ADD_CALL_USER"
    /\ LET new == IF m.call \in srvCalls
                    THEN m.users \ srvMembers[m.call] ELSE {} IN
       /\ srvMembers' = IF m.call \in srvCalls
                          THEN [srvMembers EXCEPT ![m.call] = @ \cup new]
                          ELSE srvMembers
       /\ Answer(Ack("ADD_CALL_USER", m.call, new, TRUE))
    /\ UNCHANGED <<srvCalls, issued>>

ServerRemove(m) ==
    /\ m.op = "CALL_REMOVE_USER"
    /\ srvMembers' = IF m.call \in srvCalls
                       THEN [srvMembers EXCEPT ![m.call] = @ \ m.users]
                       ELSE srvMembers
    /\ UNCHANGED <<srvCalls, issued, toClient>>

ServerGetData(m) ==
    /\ m.op = "GET_CALL_DATA"
    /\ IF m.call \in srvCalls
         THEN Answer(Ack("GET_CALL_DATA", m.call, srvMembers[m.call], TRUE))
         ELSE Answer(Ack("GET_CALL_DATA", m.call, {}, FALSE))
    /\ UNCHANGED serverVars

Serve(m) ==
    \/ ServerInitiate(m) \/ ServerAccept(m) \/ ServerHangUp(m)
    \/ ServerAdd(m) \/ ServerRemove(m) \/ ServerGetData(m)

ServerStep ==
    /\ connected
    /\ toServer # <<>>
    /\ toServer' = Tail(toServer)
    /\ Serve(Head(toServer))
    /\ UNCHANGED <<clientVars, lookups, connected, drops,
                   crossed, synced>>

\* An event for a disconnected device is lost.
Push(m) == toClient' = IF connected THEN Append(toClient, m) ELSE toClient

EventRoom == Len(toClient) < MaxEvents

ServerIdle == UNCHANGED <<clientVars, lookups, connected,
                          toServer, drops, crossed, synced>>

\* Somebody calls the device.
ServerOffer ==
    /\ EventRoom
    /\ BusyCheck => srvCalls = {}
    /\ \E c \in Calls \ issued, us \in SUBSET Users \ {{}} :
           /\ issued' = issued \cup {c}
           /\ srvCalls' = srvCalls \cup {c}
           /\ srvMembers' = [srvMembers EXCEPT ![c] = us \cup {Self}]
           /\ Push(Event("CALL_REQUEST", c, us \cup {Self}))
    /\ ServerIdle

\* The call is over for this device: hung up, removed by a host, or left.
ServerEnd ==
    /\ EventRoom
    /\ \E c \in srvCalls, op \in SelfEnds :
           /\ SrvLeave(c)
           /\ Push(Event(op, c, {Self}))
    /\ ServerIdle

\* Another user is brought in by a host; is removed by one, or leaves.
ServerJoin ==
    /\ EventRoom
    /\ \E c \in srvCalls, u \in Users :
           /\ u \notin srvMembers[c] /\ participantUsersList[u] < MaxRows
           /\ srvMembers' = [srvMembers EXCEPT ![c] = @ \cup {u}]
           /\ Push(Event("CALL_NEW_PARTICIPANTS", c, {u}))
    /\ UNCHANGED <<srvCalls, issued>>
    /\ ServerIdle

ServerPart ==
    /\ EventRoom
    /\ \E c \in srvCalls, u \in Users, op \in {"CALL_REMOVE_USER", "LEAVE_CALL"} :
           /\ u \in srvMembers[c]
           /\ srvMembers' = [srvMembers EXCEPT ![c] = @ \ {u}]
           /\ Push(Event(op, c, {u}))
    /\ UNCHANGED <<srvCalls, issued>>
    /\ ServerIdle

-----------------------------------------------------------------------------
(* The connection and the process.                                         *)

\* What is in flight is lost with its Acks; the SDK only logs the event.
Disconnect ==
    /\ connected /\ drops < MaxDrops
    /\ connected' = FALSE
    /\ toServer' = <<>> /\ toClient' = <<>>
    /\ drops' = drops + 1
    /\ synced' = FALSE
    /\ UNCHANGED <<clientVars, lookups, serverVars, crossed>>

\* The socket library reconnects; no handler re-reads the state of the call.
Reconnect ==
    /\ ~connected
    /\ connected' = TRUE
    /\ UNCHANGED <<clientVars, lookups, toServer, toClient,
                   drops, serverVars, crossed, synced>>

ProcessDeath ==
    /\ LeaveCall
    /\ lookups' = {}
    /\ connected' = FALSE
    /\ toServer' = <<>> /\ toClient' = <<>>
    /\ synced' = FALSE
    /\ crossed' = FALSE
    /\ UNCHANGED serverVars

Restart ==
    /\ drops < MaxDrops
    /\ drops' = drops + 1
    /\ ProcessDeath

\* participants!! of a call that has ended meanwhile: the exception leaves
\* the coroutine and the process dies.
AddLookupCrash ==
    /\ activeCallData.members = {}
    /\ \E l \in lookups : l.kind = "add"
    /\ UNCHANGED drops
    /\ ProcessDeath

-----------------------------------------------------------------------------
Operation ==
    \/ InitiateCall \/ InitiateLookupDone \/ LookupFailed
    \/ AddUsersToCall \/ AddLookupDone \/ AddLookupCrash
    \/ AcceptCall \/ RejectCall \/ EndCall
    \/ \E u \in Users : RemoveUser(u)
    \/ \E c \in issued : IsCallActive(c)

Environment ==
    \/ ServerOffer \/ ServerEnd \/ ServerJoin \/ ServerPart
    \/ Disconnect \/ Reconnect \/ Restart

Next == Operation \/ Receive \/ ServerStep \/ Environment

Spec == Init /\ [][Next]_vars

\* The socket thread runs, the server answers, a lost connection comes back.
FairSpec == Spec /\ WF_vars(Receive) /\ WF_vars(ServerStep) /\ WF_vars(Reconnect)

-----------------------------------------------------------------------------
(* Properties.                                                             *)

\* The two halves of "which call am I in" agree: whatever sets or clears
\* ACTIVE_CALL_ID does the same to activeCallData, and the Ack of
\* isCallActive, which replaces the data alone, only does it for that call.
DataFollowsCall == activeCallData.call = ACTIVE_CALL_ID

\* With no message lost and none left to handle, the SDK is not in a call
\* the server has ended: each of the three events that end a call, and the
\* Ack of each hang-up, reaches the handler of the call it is about, however
\* they cross the device's own requests.
NoEndedCallKept ==
    synced /\ toClient = <<>> /\ ACTIVE_CALL_ID # NoCall
        => ACTIVE_CALL_ID \in srvCalls

\* No message lost, no hang-up Ack came too late, no overlapping calls.
Orderly == synced /\ ~crossed /\ BusyCheck

\* The room that is open, with the microphone in it, is the room of the
\* active call: no room outlives its call (OnCallRequest keeps a room that is
\* already started, so one left over would serve the next call).
RoomServesCurrentCall == Orderly /\ room # NoCall => room = ACTIVE_CALL_ID

\* Between calls nothing is left of the last one: the Acks of accept, add and
\* isCallActive, which write without looking at the active call, never write
\* after its end.
IdleIsClean ==
    Orderly /\ ACTIVE_CALL_ID = NoCall
        => activeCallData = NoData /\ participantUsersList = EmptyList

\* "You cannot make another call": the active call is given up before another
\* is taken up, although initiateCall checks for an active call only before
\* its lookup and neither its Ack nor OnCallRequest checks at all.
CallNeverReplaced ==
    [][synced /\ BusyCheck /\ ACTIVE_CALL_ID # NoCall
         => ACTIVE_CALL_ID' \in {ACTIVE_CALL_ID, NoCall}]_vars

\* A call that was left is never entered again, messages lost or not.
Ledger == INSTANCE CallLedger WITH current <- ACTIVE_CALL_ID, left <- past
LedgerSpec == Ledger!Spec

\* A hang-up that was asked for takes effect: the SDK gets out of the call.
HangUpTakesEffect ==
    \A c \in Calls :
        (\E i \in DOMAIN toServer : toServer[i].op \in HangUps
                                    /\ toServer[i].call = c)
            ~> ACTIVE_CALL_ID # c

-----------------------------------------------------------------------------
(* What the proofs need beyond TypeOK (module CallSessionProofs).          *)

\* A message that makes the SDK enter its call, and one that makes it leave.
Starts(m) == IF m.ack THEN m.op = "INITIATE_CALL" /\ m.ok
             ELSE m.op = "CALL_REQUEST"
Ends(m) == IF m.ack THEN m.op \in HangUps
           ELSE \/ m.op = "END_CALL"
                \/ m.op \in SelfEnds /\ m.users = {Self}

\* Every call is offered to the SDK once: not again after it was taken up.
OfferedOnce ==
    /\ ACTIVE_CALL_ID \in issued \cup {NoCall}
    /\ past \subseteq issued
    /\ \A i \in DOMAIN toClient :
          Starts(toClient[i]) =>
              /\ toClient[i].call \in issued \ past
              /\ toClient[i].call # ACTIVE_CALL_ID
    /\ \A i, j \in DOMAIN toClient :
          Starts(toClient[i]) /\ Starts(toClient[j]) /\ i # j
              => toClient[i].call # toClient[j].call

\* The call c goes on, or its end is in flight behind position i.
Live(c, i) ==
    \/ c \in srvCalls
    \/ \E j \in DOMAIN toClient :
          j > i /\ Ends(toClient[j]) /\ toClient[j].call = c

\* While nothing is lost, a call that is over on the server has its end in
\* flight behind whatever makes the SDK be in it.
EndInFlight ==
    synced =>
      /\ connected
      /\ ACTIVE_CALL_ID = NoCall \/ Live(ACTIVE_CALL_ID, 0)
      /\ \A i \in DOMAIN toClient :
            Starts(toClient[i]) => Live(toClient[i].call, i)

=============================================================================
