--------------------------- MODULE CallSessionProofs ---------------------------
(***************************************************************************)
(* Theorems about CallSession, for every set of calls and users, every     *)
(* server policy and every bound.                                          *)
(***************************************************************************)
EXTENDS CallSession, SequenceTheorems, TLAPS

-----------------------------------------------------------------------------
(* The messages and the helpers are well typed.                            *)

\* A request built by an operation is a Request.
LEMMA ReqType ==
    ASSUME NEW op \in Requests, NEW c \in CallIds, NEW us \in SUBSET People
    PROVE  Req(op, c, us) \in Request
  BY DEF Req, Request

\* An answer of the server is a Reply.
LEMMA AckType ==
    ASSUME NEW op \in Requests, NEW c \in CallIds, NEW us \in SUBSET People,
           NEW ok \in BOOLEAN
    PROVE  Ack(op, c, us, ok) \in Reply
  BY DEF Ack, Reply

\* An event of the server is a Reply.
LEMMA EventType ==
    ASSUME NEW op \in Events, NEW c \in CallIds, NEW us \in SUBSET People
    PROVE  Event(op, c, us) \in Reply
  BY DEF Event, Reply

\* Row counts stay natural numbers: a row is only taken away where one is.
LEMMA RowsType ==
    ASSUME NEW list \in [People -> Nat], NEW us, NEW n \in Nat
    PROVE  /\ AddRows(list, us, n) \in [People -> Nat]
           /\ RemoveRow(list, us) \in [People -> Nat]
  BY DEF AddRows, RemoveRow

\* The empty state is well typed.
LEMMA EmptyType ==
    /\ NoData \in [call : CallIds, members : SUBSET People]
    /\ EmptyList \in [People -> Nat]
    /\ NoCall \in CallIds
  BY DEF NoData, EmptyList, CallIds

\* The part of TypeOK about the calls ACTIVE_CALL_ID holds and has held.
LEMMA SetCallType ==
    ASSUME TypeOK, NEW c \in CallIds, SetCall(c)
    PROVE  ACTIVE_CALL_ID' \in CallIds /\ past' \subseteq Calls
  BY DEF TypeOK, SetCall, CallIds

\* The part of TypeOK about what the end of a call resets.
LEMMA ForgetCallType ==
    ASSUME TypeOK, ForgetCall
    PROVE  /\ ACTIVE_CALL_ID' \in CallIds /\ past' \subseteq Calls
           /\ activeCallData' \in [call : CallIds, members : SUBSET People]
           /\ participantUsersList' \in [People -> Nat]
  BY EmptyType, SetCallType DEF ForgetCall

-----------------------------------------------------------------------------
(* Type correctness.                                                       *)

\* The state a process starts in is well typed.
LEMMA InitType == Init => TypeOK
  <1> SUFFICES ASSUME Init PROVE TypeOK
    OBVIOUS
  <1>1. <<>> \in Seq(Request) /\ <<>> \in Seq(Reply)
    OBVIOUS
  <1> QED
    BY <1>1, EmptyType DEF Init, TypeOK

\* A request that is sent, or not, leaves the queue well typed.
LEMMA SendType ==
    ASSUME TypeOK, NEW r \in Request,
           \/ toServer' = Append(toServer, r)
           \/ toServer' = toServer
    PROVE  toServer' \in Seq(Request)
  <1>1. toServer \in Seq(Request)
    BY DEF TypeOK
  <1>2. Append(toServer, r) \in Seq(Request)
    BY <1>1, AppendProperties
  <1> QED
    BY <1>1, <1>2

\* A process that starts again starts in a well typed state.
LEMMA CrashType ==
    ASSUME TypeOK, ProcessDeath, drops' \in Nat
    PROVE  TypeOK'
  <1>1. <<>> \in Seq(Request) /\ <<>> \in Seq(Reply)
    OBVIOUS
  <1>2. /\ ACTIVE_CALL_ID' \in CallIds /\ past' \subseteq Calls
        /\ activeCallData' \in [call : CallIds, members : SUBSET People]
        /\ participantUsersList' \in [People -> Nat]
    BY ForgetCallType DEF ProcessDeath, LeaveCall
  <1>3. room' = NoCall
    BY DEF ProcessDeath, LeaveCall
  <1> QED
    BY <1>1, <1>2, <1>3, EmptyType DEF ProcessDeath, TypeOK, serverVars

\* Every operation of the application, whether its request goes out or an
\* early return stops it, keeps the types.
LEMMA OperationType == TypeOK /\ Operation => TypeOK'
  <1> SUFFICES ASSUME TypeOK, Operation
               PROVE  TypeOK'
    OBVIOUS
  <1> USE DEF TypeOK, clientVars, callId, serverVars
  <1>1. CASE InitiateCall
    BY <1>1 DEF InitiateCall, People
  <1>2. CASE InitiateLookupDone
    <2> PICK l \in lookups : toServer' = Append(toServer, Req("INITIATE_CALL", NoCall, l.users))
      BY <1>2 DEF InitiateLookupDone, Emit
    <2>1. Req("INITIATE_CALL", NoCall, l.users) \in Request
      BY ReqType, EmptyType DEF Requests
    <2>2. lookups' \subseteq lookups
      BY <1>2 DEF InitiateLookupDone
    <2> QED
      BY <1>2, <2>1, <2>2 DEF InitiateLookupDone
  <1>3. CASE LookupFailed
    BY <1>3 DEF LookupFailed
  <1>4. CASE AddUsersToCall
    BY <1>4 DEF AddUsersToCall, People
  <1>5. CASE AddLookupDone
    <2> PICK l \in lookups :
            /\ lookups' = lookups \ {l}
            /\ \/ toServer' = Append(toServer, Req("ADD_CALL_USER", ACTIVE_CALL_ID,
                                 l.users \ (activeCallData.members \cup {Self})))
               \/ toServer' = toServer
      BY <1>5 DEF AddLookupDone, Emit
    <2>1. Req("ADD_CALL_USER", ACTIVE_CALL_ID,
              l.users \ (activeCallData.members \cup {Self})) \in Request
      BY ReqType DEF Requests
    <2>2. toServer' \in Seq(Request)
      BY <2>1, SMTT(30)
    <2>3. lookups' \subseteq [kind : {"initiate", "add"}, users : SUBSET People]
      OBVIOUS
    <2> QED
      BY <1>5, <2>2, <2>3 DEF AddLookupDone
  <1>6. CASE AddLookupCrash
    BY <1>6, CrashType DEF AddLookupCrash
  <1>7. CASE AcceptCall
    <2>1. Req("ACCEPT", ACTIVE_CALL_ID, {}) \in Request
      BY ReqType DEF Requests
    <2> QED
      BY <1>7, <2>1 DEF AcceptCall, Emit
  <1>8. ASSUME NEW op \in HangUps, HangUp(op)
        PROVE  TypeOK'
    <2>1. Req(op, ACTIVE_CALL_ID, {}) \in Request
      BY ReqType DEF Requests, HangUps
    <2>2. \/ toServer' = Append(toServer, Req(op, ACTIVE_CALL_ID, {}))
          \/ toServer' = toServer
      BY <1>8 DEF HangUp, Emit
    <2>3. toServer' \in Seq(Request)
      BY <2>1, <2>2, SendType
    <2> QED
      BY <1>8, <2>3, EmptyType DEF HangUp
  <1>9. ASSUME NEW u \in Users, RemoveUser(u)
        PROVE  TypeOK'
    <2>1. Req("CALL_REMOVE_USER", ACTIVE_CALL_ID, {u}) \in Request
      BY ReqType DEF Requests, People
    <2>2. RemoveRow(participantUsersList, {u}) \in [People -> Nat]
      BY RowsType
    <2>3. toServer' \in Seq(Request)
      BY <1>9, <2>1 DEF RemoveUser, Emit
    <2>4. activeCallData' \in [call : CallIds, members : SUBSET People]
      BY <1>9 DEF RemoveUser
    <2> QED
      BY <1>9, <2>2, <2>3, <2>4 DEF RemoveUser
  <1>10. ASSUME NEW c \in issued, IsCallActive(c)
         PROVE  TypeOK'
    <2>1. Req("GET_CALL_DATA", c, {}) \in Request
      BY ReqType DEF Requests, CallIds
    <2> QED
      BY <1>10, <2>1 DEF IsCallActive, Emit
  <1> QED
    BY <1>1, <1>2, <1>3, <1>4, <1>5, <1>6, <1>7, <1>8, <1>9, <1>10
    DEF Operation, RejectCall, EndCall, HangUps

\* Every Ack and event handler keeps the types, whatever call its message is
\* about.
LEMMA ReceiveType == TypeOK /\ Receive => TypeOK'
  <1> SUFFICES ASSUME TypeOK, Receive
               PROVE  TypeOK'
    OBVIOUS
  <1> DEFINE m == Head(toClient)
  <1>1. m \in Reply /\ toClient' \in Seq(Reply)
    BY DEF Receive, TypeOK
  <1>2. /\ m.call \in CallIds /\ m.users \in SUBSET People
        /\ AddRows(participantUsersList, m.users, 1) \in [People -> Nat]
        /\ AddRows(participantUsersList, m.users, 2) \in [People -> Nat]
        /\ RemoveRow(participantUsersList, m.users) \in [People -> Nat]
    BY <1>1, RowsType DEF Reply, TypeOK
  <1>3. Handle(m)
    BY DEF Receive
  <1>4. /\ lookups' \subseteq [kind : {"initiate", "add"}, users : SUBSET People]
        /\ connected' \in BOOLEAN /\ toServer' \in Seq(Request) /\ drops' \in Nat
        /\ srvCalls' \subseteq Calls /\ srvMembers' \in [Calls -> SUBSET People]
        /\ issued' \subseteq Calls /\ synced' \in BOOLEAN
    BY DEF Receive, TypeOK, serverVars
  <1>5. ASSUME ForgetCall, room' \in {room, NoCall}
        PROVE  /\ ACTIVE_CALL_ID' \in CallIds /\ past' \subseteq Calls
               /\ activeCallData' \in [call : CallIds, members : SUBSET People]
               /\ participantUsersList' \in [People -> Nat]
               /\ room' \in CallIds
    BY <1>5, ForgetCallType, EmptyType DEF TypeOK
  <1> HIDE DEF m
  <1> USE DEF TypeOK, clientVars, callId
  <1>10. CASE InitiateAck(m)
    BY <1>10, <1>1, <1>2, <1>4, SetCallType DEF InitiateAck
  <1>11. CASE AcceptAck(m)
    BY <1>11, <1>1, <1>2, <1>4 DEF AcceptAck
  <1>12. CASE HangUpAck(m)
    BY <1>12, <1>1, <1>2, <1>4, <1>5 DEF HangUpAck
  <1>13. CASE AddUserAck(m)
    BY <1>13, <1>1, <1>2, <1>4 DEF AddUserAck
  <1>14. CASE IsCallActiveAck(m)
    BY <1>14, <1>1, <1>2, <1>4 DEF IsCallActiveAck
  <1>15. CASE OnCallRequest(m)
    BY <1>15, <1>1, <1>2, <1>4, SetCallType DEF OnCallRequest
  <1>16. CASE OnEndCall(m)
    BY <1>16, <1>1, <1>2, <1>4, <1>5 DEF OnEndCall, LeaveCall
  <1>17. CASE OnCallRemoveUser(m)
    BY <1>17, <1>1, <1>2, <1>4, <1>5 DEF OnCallRemoveUser, LeaveCall
  <1>18. CASE OnLeaveCall(m)
    BY <1>18, <1>1, <1>2, <1>4, <1>5 DEF OnLeaveCall, LeaveCall
  <1>19. CASE OnCallNewParticipants(m)
    BY <1>19, <1>1, <1>2, <1>4 DEF OnCallNewParticipants
  <1> QED
    BY <1>3, <1>10, <1>11, <1>12, <1>13, <1>14, <1>15, <1>16, <1>17, <1>18, <1>19
    DEF Handle

\* The answers of the server are well typed replies for the handlers.
LEMMA ServerStepType == TypeOK /\ ServerStep => TypeOK'
  <1> SUFFICES ASSUME TypeOK, ServerStep
               PROVE  TypeOK'
    OBVIOUS
  <1> DEFINE m == Head(toServer)
  <1>1. m \in Request /\ toServer' \in Seq(Request)
    BY DEF ServerStep, TypeOK
  <1>2. m.call \in CallIds /\ m.users \in SUBSET People /\ m.op \in Requests
    BY <1>1 DEF Request
  <1>3. Serve(m) /\ UNCHANGED <<clientVars, lookups, connected, drops,
                                crossed, synced>>
    BY DEF ServerStep
  <1>4. SUFFICES /\ toClient' \in Seq(Reply)
                 /\ srvCalls' \subseteq Calls /\ srvMembers' \in [Calls -> SUBSET People]
                 /\ issued' \subseteq Calls
    BY <1>1, <1>3 DEF TypeOK, clientVars, callId
  <1>5. ASSUME NEW r \in Reply, Answer(r)
        PROVE  toClient' \in Seq(Reply)
    BY <1>5 DEF Answer, TypeOK
  <1> HIDE DEF m
  <1> USE DEF TypeOK, serverVars
  <1>10. CASE ServerInitiate(m)
    <2>1. CASE Answer(Ack("INITIATE_CALL", NoCall, {}, FALSE)) /\ UNCHANGED serverVars
      <3>1. Ack("INITIATE_CALL", NoCall, {}, FALSE) \in Reply
        BY AckType, EmptyType DEF Requests
      <3> QED
        BY <2>1, <3>1, <1>5
    <2>2. ASSUME NEW c \in Calls \ issued,
                 issued' = issued \cup {c}, srvCalls' = srvCalls \cup {c},
                 srvMembers' = [srvMembers EXCEPT ![c] = m.users],
                 Answer(Ack("INITIATE_CALL", c, m.users, TRUE))
          PROVE  <1>4!1
      <3>1. Ack("INITIATE_CALL", c, m.users, TRUE) \in Reply
        BY AckType, <1>2 DEF Requests, CallIds
      <3> QED
        BY <2>2, <3>1, <1>2, <1>5
    <2> QED
      BY <1>10, <2>1, <2>2 DEF ServerInitiate
  <1>11. CASE ServerAccept(m)
    <2>1. m.call \in srvCalls => Ack("ACCEPT", m.call, srvMembers[m.call], TRUE) \in Reply
      BY AckType, <1>2 DEF Requests
    <2>2. Ack("ACCEPT", m.call, {}, FALSE) \in Reply
      BY AckType, <1>2 DEF Requests
    <2> QED
      BY <1>11, <2>1, <2>2, <1>5 DEF ServerAccept
  <1>12. CASE ServerHangUp(m)
    <2>1. Ack(m.op, m.call, {}, TRUE) \in Reply
      BY AckType, <1>2
    <2> QED
      BY <1>12, <2>1, <1>5 DEF ServerHangUp, SrvLeave
  <1>13. CASE ServerAdd(m)
    <2> DEFINE new == IF m.call \in srvCalls
                        THEN m.users \ srvMembers[m.call] ELSE {}
    <2>1. new \in SUBSET People
      BY <1>2
    <2>2. Ack("ADD_CALL_USER", m.call, new, TRUE) \in Reply
      BY AckType, <1>2, <2>1 DEF Requests
    <2>3. Answer(Ack("ADD_CALL_USER", m.call, new, TRUE))
      BY <1>13 DEF ServerAdd
    <2>4. srvMembers' \in [Calls -> SUBSET People]
      BY <1>13, <2>1 DEF ServerAdd
    <2> HIDE DEF new
    <2> QED
      BY <1>13, <2>2, <2>3, <2>4, <1>5 DEF ServerAdd
  <1>14. CASE ServerRemove(m)
    BY <1>14 DEF ServerRemove
  <1>15. CASE ServerGetData(m)
    <2>1. m.call \in srvCalls
             => Ack("GET_CALL_DATA", m.call, srvMembers[m.call], TRUE) \in Reply
      BY AckType, <1>2 DEF Requests
    <2>2. Ack("GET_CALL_DATA", m.call, {}, FALSE) \in Reply
      BY AckType, <1>2 DEF Requests
    <2> QED
      BY <1>15, <2>1, <2>2, <1>5 DEF ServerGetData
  <1> QED
    BY <1>3, <1>10, <1>11, <1>12, <1>13, <1>14, <1>15 DEF Serve

\* Events, losses and restarts keep the types.
LEMMA EnvironmentType == TypeOK /\ Environment => TypeOK'
  <1> SUFFICES ASSUME TypeOK, Environment
               PROVE  TypeOK'
    OBVIOUS
  <1>1. ASSUME NEW r \in Reply, Push(r)
        PROVE  toClient' \in Seq(Reply)
    BY <1>1 DEF Push, TypeOK
  <1>2. ASSUME ServerIdle, toClient' \in Seq(Reply), srvCalls' \subseteq Calls,
               srvMembers' \in [Calls -> SUBSET People], issued' \subseteq Calls
        PROVE  TypeOK'
    BY <1>2 DEF ServerIdle, TypeOK, clientVars, callId
  <1> USE DEF TypeOK
  <1>3. CASE ServerOffer
    <2> PICK c \in Calls \ issued, us \in SUBSET Users :
            /\ issued' = issued \cup {c}
            /\ srvCalls' = srvCalls \cup {c}
            /\ srvMembers' = [srvMembers EXCEPT ![c] = us \cup {Self}]
            /\ Push(Event("CALL_REQUEST", c, us \cup {Self}))
      BY <1>3 DEF ServerOffer
    <2>1. us \cup {Self} \in SUBSET People
      BY DEF People
    <2>2. Event("CALL_REQUEST", c, us \cup {Self}) \in Reply
      BY <2>1, EventType DEF Events, CallIds
    <2>3. toClient' \in Seq(Reply)
      BY <2>2, <1>1
    <2> QED
      BY <1>2, <1>3, <2>1, <2>3 DEF ServerOffer
  <1>4. CASE ServerEnd
    <2> PICK c \in srvCalls, op \in SelfEnds :
            SrvLeave(c) /\ Push(Event(op, c, {Self}))
      BY <1>4 DEF ServerEnd
    <2>1. Event(op, c, {Self}) \in Reply
      BY EventType DEF Events, CallIds, People
    <2>2. toClient' \in Seq(Reply)
      BY <2>1, <1>1
    <2> QED
      BY <1>2, <1>4, <2>2 DEF ServerEnd, SrvLeave
  <1>5. CASE ServerJoin
    <2> PICK c \in srvCalls, u \in Users :
            /\ srvMembers' = [srvMembers EXCEPT ![c] = @ \cup {u}]
            /\ Push(Event("CALL_NEW_PARTICIPANTS", c, {u}))
      BY <1>5 DEF ServerJoin
    <2>1. Event("CALL_NEW_PARTICIPANTS", c, {u}) \in Reply
      BY EventType DEF Events, CallIds, People
    <2>2. toClient' \in Seq(Reply)
      BY <2>1, <1>1
    <2>3. srvMembers' \in [Calls -> SUBSET People]
      BY DEF People
    <2> QED
      BY <1>2, <1>5, <2>2, <2>3 DEF ServerJoin
  <1>6. CASE ServerPart
    <2> PICK c \in srvCalls, u \in Users, op \in {"CALL_REMOVE_USER", "LEAVE_CALL"} :
            /\ srvMembers' = [srvMembers EXCEPT ![c] = @ \ {u}]
            /\ Push(Event(op, c, {u}))
      BY <1>6 DEF ServerPart
    <2>1. Event(op, c, {u}) \in Reply
      BY EventType DEF Events, SelfEnds, CallIds, People
    <2>2. toClient' \in Seq(Reply)
      BY <2>1, <1>1
    <2>3. srvMembers' \in [Calls -> SUBSET People]
      OBVIOUS
    <2> QED
      BY <1>2, <1>6, <2>2, <2>3 DEF ServerPart
  <1>7. CASE Disconnect
    <2>1. toServer' \in Seq(Request) /\ toClient' \in Seq(Reply)
      BY <1>7, EmptySeq DEF Disconnect
    <2>2. drops' \in Nat
      BY <1>7 DEF Disconnect
    <2> QED
      BY <1>7, <2>1, <2>2 DEF Disconnect, clientVars, callId, serverVars
  <1>8. CASE Reconnect
    BY <1>8 DEF Reconnect, clientVars, callId, serverVars
  <1>9. CASE Restart
    BY <1>9, CrashType DEF Restart
  <1> QED
    BY <1>3, <1>4, <1>5, <1>6, <1>7, <1>8, <1>9 DEF Environment

\* TypeOK is inductive by itself: no handler relies on another one's order.
LEMMA NextType == TypeOK /\ [Next]_vars => TypeOK'
  <1>1. TypeOK /\ UNCHANGED vars => TypeOK'
    BY DEF TypeOK, vars, clientVars, callId, serverVars
  <1> QED
    BY <1>1, OperationType, ReceiveType, ServerStepType, EnvironmentType DEF Next

\* Every variable keeps its type, whatever the handlers and the server do.
THEOREM TypeCorrect == Spec => []TypeOK
  <1> QED
    BY InitType, NextType, PTL DEF Spec

-----------------------------------------------------------------------------
(* The data of the call and its id.                                        *)

\* ACTIVE_CALL_ID and activeCallData.call change together, in every handler.
LEMMA DataStep == TypeOK /\ DataFollowsCall /\ [Next]_vars => DataFollowsCall'
  <1> SUFFICES ASSUME TypeOK, DataFollowsCall, [Next]_vars
               PROVE  DataFollowsCall'
    OBVIOUS
  <1> USE DEF DataFollowsCall, clientVars, callId
  <1>1. ForgetCall => DataFollowsCall'
    BY DEF ForgetCall, SetCall, NoData
  <1>2. ASSUME activeCallData' = activeCallData,
               ACTIVE_CALL_ID' = ACTIVE_CALL_ID
        PROVE  DataFollowsCall'
    BY <1>2
  <1>3. ASSUME NEW us, ACTIVE_CALL_ID' = ACTIVE_CALL_ID,
               activeCallData' = [activeCallData EXCEPT !.members = us]
        PROVE  DataFollowsCall'
    BY <1>3 DEF TypeOK
  <1>4. CASE UNCHANGED vars
    BY <1>4, <1>2 DEF vars
  <1>5. CASE Operation
    <2>1. ASSUME NEW u \in Users, RemoveUser(u)
          PROVE  DataFollowsCall'
      BY <2>1, <1>2, <1>3 DEF RemoveUser
    <2>2. CASE AddLookupCrash
      BY <2>2, <1>1 DEF AddLookupCrash, ProcessDeath, LeaveCall
    <2> QED
      BY <1>5, <2>1, <2>2, <1>2 DEF Operation, InitiateCall, InitiateLookupDone,
         LookupFailed, AddUsersToCall, AddLookupDone, AcceptCall, RejectCall,
         EndCall, HangUp, IsCallActive
  <1>6. CASE Receive
    <2> DEFINE m == Head(toClient)
    <2>1. Handle(m)
      BY <1>6 DEF Receive
    <2> HIDE DEF m
    <2>2. CASE InitiateAck(m)
      BY <2>2, <1>2 DEF InitiateAck, SetCall
    <2>3. CASE AcceptAck(m)
      BY <2>3, <1>2, <1>3 DEF AcceptAck
    <2>4. CASE HangUpAck(m)
      BY <2>4, <1>1 DEF HangUpAck
    <2>5. CASE AddUserAck(m)
      BY <2>5, <1>2 DEF AddUserAck
    <2>6. CASE IsCallActiveAck(m)
      BY <2>6, <1>2 DEF IsCallActiveAck
    <2>7. CASE OnCallRequest(m)
      BY <2>7 DEF OnCallRequest, SetCall
    <2>8. CASE OnEndCall(m) \/ OnCallRemoveUser(m) \/ OnLeaveCall(m)
      BY <2>8, <1>1, <1>2 DEF OnEndCall, OnCallRemoveUser, OnLeaveCall, LeaveCall
    <2>9. CASE OnCallNewParticipants(m)
      BY <2>9, <1>2 DEF OnCallNewParticipants
    <2> QED
      BY <2>1, <2>2, <2>3, <2>4, <2>5, <2>6, <2>7, <2>8, <2>9 DEF Handle
  <1>7. CASE ServerStep
    BY <1>7, <1>2 DEF ServerStep
  <1>8. CASE Environment
    BY <1>8, <1>1, <1>2 DEF Environment, ServerOffer, ServerEnd, ServerJoin,
       ServerPart, ServerIdle, Disconnect, Reconnect, Restart, ProcessDeath, LeaveCall
  <1> QED
    BY <1>4, <1>5, <1>6, <1>7, <1>8 DEF Next

\* The two halves of the call state agree in every reachable state, whatever
\* is lost and however the messages interleave.
THEOREM DataAgrees == Spec => []DataFollowsCall
  <1>1. Init => DataFollowsCall
    BY DEF Init, DataFollowsCall, NoData
  <1> QED
    BY <1>1, DataStep, TypeCorrect, PTL DEF Spec

-----------------------------------------------------------------------------
(* The four kinds of steps, as far as the ids of the calls are concerned.  *)

\* The calls and the messages to the device are left alone.
Quiet == /\ UNCHANGED <<callId, toClient, issued, srvCalls, synced>>
         /\ connected' \in {connected, TRUE}

\* The oldest message is handled: it makes the SDK enter its call, or leave
\* the active one, or it does neither.
Takes(m) ==
    /\ toClient # <<>> /\ m = Head(toClient) /\ toClient' = Tail(toClient)
    /\ UNCHANGED <<issued, srvCalls, synced, connected>>
    /\ \/ Starts(m) /\ SetCall(m.call)
       \/ Ends(m) /\ SetCall(NoCall)
       \/ /\ UNCHANGED callId
          /\ ~Starts(m)
          /\ Ends(m) => m.call # ACTIVE_CALL_ID

\* The server sends r: it opens a new call, closes one, or does neither.
Sends(r) ==
    /\ UNCHANGED <<callId, synced, connected>>
    /\ r \in Reply
    /\ toClient' = IF connected THEN Append(toClient, r) ELSE toClient
    /\ \/ /\ Starts(r) /\ ~Ends(r) /\ r.call \in Calls \ issued
          /\ issued' = issued \cup {r.call}
          /\ srvCalls' = srvCalls \cup {r.call}
       \/ /\ Ends(r) /\ ~Starts(r) /\ UNCHANGED issued
          /\ srvCalls' = srvCalls \ {r.call}
       \/ ~Starts(r) /\ ~Ends(r) /\ UNCHANGED <<issued, srvCalls>>

\* The messages in flight are lost, the active call possibly with them.
Loses ==
    /\ toClient' = <<>> /\ synced' = FALSE
    /\ UNCHANGED issued
    /\ UNCHANGED callId \/ SetCall(NoCall)

\* An operation of the application sends requests and touches neither the
\* call id nor the server, except for the one that kills the process.
LEMMA OperationKind == TypeOK /\ Operation => Quiet \/ Loses
  <1> SUFFICES ASSUME TypeOK, Operation
               PROVE  Quiet \/ Loses
    OBVIOUS
  <1> USE DEF clientVars, serverVars
  <1>1. CASE AddLookupCrash
    BY <1>1 DEF AddLookupCrash, ProcessDeath, LeaveCall, ForgetCall, Loses
  <1>2. ASSUME NEW u \in Users, RemoveUser(u)
        PROVE  Quiet
    BY <1>2 DEF RemoveUser, Quiet
  <1>3. ASSUME NEW c \in issued, IsCallActive(c)
        PROVE  Quiet
    BY <1>3 DEF IsCallActive, Quiet
  <1> QED
    BY <1>1, <1>2, <1>3 DEF Operation, InitiateCall, InitiateLookupDone, LookupFailed,
       AddUsersToCall, AddLookupDone, AcceptCall, RejectCall, EndCall, HangUp, Quiet

\* A handler takes the head of the queue, and enters or leaves a call only as
\* that message says.
LEMMA ReceiveKind == TypeOK /\ Receive => \E m \in Reply : Takes(m)
  <1> SUFFICES ASSUME TypeOK, Receive
               PROVE  \E m \in Reply : Takes(m)
    OBVIOUS
  <1> DEFINE m == Head(toClient)
  <1>1. m \in Reply
    BY DEF Receive, TypeOK
  <1>2. /\ toClient # <<>> /\ toClient' = Tail(toClient) /\ Handle(m)
        /\ UNCHANGED <<issued, srvCalls, synced, connected>>
    BY DEF Receive, serverVars
  <1>3. SUFFICES \/ Starts(m) /\ SetCall(m.call)
                 \/ Ends(m) /\ SetCall(NoCall)
                 \/ /\ UNCHANGED callId
                    /\ ~Starts(m)
                    /\ Ends(m) => m.call # ACTIVE_CALL_ID
    BY <1>1, <1>2 DEF Takes
  <1> HIDE DEF m
  <1> USE DEF Starts, Ends, clientVars
  <1>10. CASE InitiateAck(m)
    BY <1>10 DEF InitiateAck, HangUps
  <1>11. CASE AcceptAck(m) \/ AddUserAck(m) \/ IsCallActiveAck(m)
    BY <1>11 DEF AcceptAck, AddUserAck, IsCallActiveAck, HangUps
  <1>12. CASE HangUpAck(m)
    BY <1>12 DEF HangUpAck, ForgetCall
  <1>13. CASE OnCallRequest(m)
    BY <1>13 DEF OnCallRequest
  <1>14. CASE OnEndCall(m)
    BY <1>14 DEF OnEndCall, LeaveCall, ForgetCall, SelfEnds
  <1>15. CASE OnCallRemoveUser(m)
    BY <1>15 DEF OnCallRemoveUser, LeaveCall, ForgetCall, SelfEnds
  <1>16. CASE OnLeaveCall(m)
    BY <1>16 DEF OnLeaveCall, LeaveCall, ForgetCall, SelfEnds
  <1>17. CASE OnCallNewParticipants(m)
    BY <1>17 DEF OnCallNewParticipants, SelfEnds
  <1> QED
    BY <1>2, <1>10, <1>11, <1>12, <1>13, <1>14, <1>15, <1>16, <1>17 DEF Handle

\* The server answers a request with at most one message, and only the Ack of
\* initiateCall starts a call.
LEMMA ServerStepKind == TypeOK /\ ServerStep => Quiet \/ \E r \in Reply : Sends(r)
  <1> SUFFICES ASSUME TypeOK, ServerStep
               PROVE  Quiet \/ \E r \in Reply : Sends(r)
    OBVIOUS
  <1> DEFINE m == Head(toServer)
  <1>1. m \in Request
    BY DEF ServerStep, TypeOK
  <1>2. m.call \in CallIds /\ m.users \in SUBSET People /\ m.op \in Requests
    BY <1>1 DEF Request
  <1>3. Serve(m) /\ connected /\ UNCHANGED <<callId, synced, connected>>
    BY DEF ServerStep, clientVars
  <1>4. ASSUME NEW op \in Requests \ HangUps, NEW us \in SUBSET People,
               NEW ok \in BOOLEAN, op # "INITIATE_CALL" \/ ~ok,
               NEW c \in CallIds, Answer(Ack(op, c, us, ok)),
               UNCHANGED <<issued, srvCalls>>
        PROVE  \E r \in Reply : Sends(r)
    <2> DEFINE r == Ack(op, c, us, ok)
    <2>1. r \in Reply
      BY AckType
    <2>2. ~Starts(r) /\ ~Ends(r)
      BY <1>4 DEF Starts, Ends, Ack
    <2>3. toClient' = Append(toClient, r)
      BY <1>4 DEF Answer
    <2> HIDE DEF r
    <2> QED
      BY <1>3, <1>4, <2>1, <2>2, <2>3 DEF Sends
  <1> HIDE DEF m
  <1> USE DEF serverVars
  <1>10. CASE ServerInitiate(m)
    <2>1. CASE Answer(Ack("INITIATE_CALL", NoCall, {}, FALSE)) /\ UNCHANGED serverVars
      BY <2>1, <1>4, EmptyType DEF HangUps, Requests
    <2>2. ASSUME NEW c \in Calls \ issued,
                 issued' = issued \cup {c}, srvCalls' = srvCalls \cup {c},
                 Answer(Ack("INITIATE_CALL", c, m.users, TRUE))
          PROVE  \E r \in Reply : Sends(r)
      <3>1. c \in CallIds /\ "INITIATE_CALL" \in Requests
        BY DEF CallIds, Requests
      <3> DEFINE r == Ack("INITIATE_CALL", c, m.users, TRUE)
      <3>2. r \in Reply /\ Starts(r) /\ ~Ends(r) /\ r.call = c
        BY <1>2, <3>1, AckType DEF Starts, Ends, Ack, HangUps
      <3>3. toClient' = Append(toClient, r)
        BY <2>2 DEF Answer
      <3> HIDE DEF r
      <3> QED
        BY <1>3, <2>2, <3>2, <3>3 DEF Sends
    <2> QED
      BY <1>10, <2>1, <2>2 DEF ServerInitiate
  <1>11. CASE ServerAccept(m)
    <2>1. m.call \in srvCalls => srvMembers[m.call] \in SUBSET People
      BY DEF TypeOK
    <2> QED
      BY <1>11, <2>1, <1>2, <1>4 DEF ServerAccept, HangUps, Requests
  <1>12. CASE ServerHangUp(m)
    <2> DEFINE r == Ack(m.op, m.call, {}, TRUE)
    <2>1. r \in Reply /\ ~Starts(r) /\ Ends(r) /\ r.call = m.call
      <3>1. m.op \in HangUps
        BY <1>12 DEF ServerHangUp
      <3>2. r \in Reply
        BY <1>2, AckType
      <3> QED
        BY <3>1, <3>2 DEF Starts, Ends, Ack, HangUps
    <2>2. toClient' = Append(toClient, r) /\ UNCHANGED issued
          /\ srvCalls' = srvCalls \ {m.call}
      BY <1>12 DEF ServerHangUp, Answer, SrvLeave
    <2> HIDE DEF r
    <2> QED
      BY <1>3, <2>1, <2>2 DEF Sends
  <1>13. CASE ServerAdd(m)
    <2>1. m.call \in srvCalls => m.users \ srvMembers[m.call] \in SUBSET People
      BY <1>2 DEF TypeOK
    <2> QED
      BY <1>13, <2>1, <1>2, <1>4 DEF ServerAdd, HangUps, Requests
  <1>14. CASE ServerRemove(m)
    BY <1>14, <1>3 DEF ServerRemove, Quiet
  <1>15. CASE ServerGetData(m)
    <2>1. m.call \in srvCalls => srvMembers[m.call] \in SUBSET People
      BY DEF TypeOK
    <2> QED
      BY <1>15, <2>1, <1>2, <1>4 DEF ServerGetData, HangUps, Requests
  <1> QED
    BY <1>3, <1>10, <1>11, <1>12, <1>13, <1>14, <1>15 DEF Serve

\* What happens by itself sends one event, or loses everything in flight.
LEMMA EnvironmentKind ==
    TypeOK /\ Environment => Quiet \/ Loses \/ \E r \in Reply : Sends(r)
  <1> SUFFICES ASSUME TypeOK, Environment
               PROVE  Quiet \/ Loses \/ \E r \in Reply : Sends(r)
    OBVIOUS
  <1> USE DEF clientVars, serverVars
  <1>1. \A op \in Events, c \in CallIds, us \in SUBSET People :
            /\ Starts(Event(op, c, us)) <=> op = "CALL_REQUEST"
            /\ Ends(Event(op, c, us)) <=> \/ op = "END_CALL"
                                          \/ op \in SelfEnds /\ us = {Self}
            /\ Event(op, c, us).call = c
            /\ Event(op, c, us) \in Reply
    <2> TAKE op \in Events, c \in CallIds, us \in SUBSET People
    <2> DEFINE r == Event(op, c, us)
    <2>1. r \in Reply
      BY EventType
    <2>2. ~r.ack /\ r.op = op /\ r.call = c /\ r.users = us
      BY DEF Event
    <2> HIDE DEF r
    <2>3. Starts(r) <=> op = "CALL_REQUEST"
      BY <2>2 DEF Starts
    <2>4. Ends(r) <=> \/ op = "END_CALL"
                      \/ op \in SelfEnds /\ us = {Self}
      BY <2>2 DEF Ends
    <2> QED
      BY <2>1, <2>2, <2>3, <2>4 DEF r
  <1>2. ServerIdle => UNCHANGED <<callId, synced, connected>>
    BY DEF ServerIdle
  <1>3. CASE ServerOffer
    <2> PICK c \in Calls \ issued, us \in SUBSET Users :
            /\ issued' = issued \cup {c}
            /\ srvCalls' = srvCalls \cup {c}
            /\ Push(Event("CALL_REQUEST", c, us \cup {Self}))
      BY <1>3 DEF ServerOffer
    <2> DEFINE r == Event("CALL_REQUEST", c, us \cup {Self})
    <2>1. c \in CallIds /\ us \cup {Self} \in SUBSET People
      BY DEF People, CallIds
    <2>2. r \in Reply /\ Starts(r) /\ ~Ends(r) /\ r.call = c
      BY <1>1, <2>1 DEF Events, SelfEnds
    <2>3. UNCHANGED <<callId, synced, connected>>
      BY <1>2, <1>3 DEF ServerOffer
    <2> QED
      BY <2>2, <2>3 DEF Sends, Push
  <1>4. CASE ServerEnd
    <2> PICK c \in srvCalls, op \in SelfEnds :
            SrvLeave(c) /\ Push(Event(op, c, {Self}))
      BY <1>4 DEF ServerEnd
    <2> DEFINE r == Event(op, c, {Self})
    <2>1. c \in CallIds /\ {Self} \in SUBSET People
      BY DEF People, CallIds, TypeOK
    <2>2. r \in Reply /\ ~Starts(r) /\ Ends(r) /\ r.call = c
      BY <1>1, <2>1 DEF Events, SelfEnds
    <2>3. UNCHANGED <<callId, synced, connected>>
      BY <1>2, <1>4 DEF ServerEnd
    <2> QED
      BY <2>2, <2>3 DEF Sends, Push, SrvLeave
  <1>5. CASE ServerJoin
    <2> PICK c \in srvCalls, u \in Users : Push(Event("CALL_NEW_PARTICIPANTS", c, {u}))
      BY <1>5 DEF ServerJoin
    <2> DEFINE r == Event("CALL_NEW_PARTICIPANTS", c, {u})
    <2>1. c \in CallIds /\ {u} \in SUBSET People
      BY DEF People, CallIds, TypeOK
    <2>2. r \in Reply /\ ~Starts(r) /\ ~Ends(r)
      BY <1>1, <2>1 DEF Events, SelfEnds
    <2>3. UNCHANGED <<callId, synced, connected, issued, srvCalls>>
      BY <1>2, <1>5 DEF ServerJoin
    <2> QED
      BY <2>2, <2>3 DEF Sends, Push
  <1>6. CASE ServerPart
    <2> PICK c \in srvCalls, u \in Users, op \in {"CALL_REMOVE_USER", "LEAVE_CALL"} :
            Push(Event(op, c, {u}))
      BY <1>6 DEF ServerPart
    <2> DEFINE r == Event(op, c, {u})
    <2>1. c \in CallIds /\ {u} \in SUBSET People /\ u # Self
      BY UsersAssumption DEF People, CallIds, TypeOK
    <2>2. r \in Reply /\ ~Starts(r) /\ ~Ends(r)
      BY <1>1, <2>1 DEF Events, SelfEnds
    <2>3. UNCHANGED <<callId, synced, connected, issued, srvCalls>>
      BY <1>2, <1>6 DEF ServerPart
    <2> QED
      BY <2>2, <2>3 DEF Sends, Push
  <1>7. CASE Disconnect
    BY <1>7 DEF Disconnect, Loses
  <1>8. CASE Reconnect
    BY <1>8 DEF Reconnect, Quiet
  <1>9. CASE Restart
    BY <1>9 DEF Restart, ProcessDeath, LeaveCall, ForgetCall, Loses
  <1> QED
    BY <1>3, <1>4, <1>5, <1>6, <1>7, <1>8, <1>9 DEF Environment

\* Every step is of one of the four kinds.
LEMMA StepKind ==
    TypeOK /\ [Next]_vars
       => \/ Quiet \/ Loses
          \/ \E m \in Reply : Takes(m)
          \/ \E r \in Reply : Sends(r)
  <1>1. UNCHANGED vars => Quiet
    BY DEF vars, clientVars, serverVars, Quiet
  <1> QED
    BY <1>1, OperationKind, ReceiveKind, ServerStepKind, EnvironmentKind DEF Next

-----------------------------------------------------------------------------
(* The device never comes back to a call.                                  *)

\* What is left of the queue when its head was taken.
LEMMA TailQueue ==
    ASSUME TypeOK, toClient # <<>>, toClient' = Tail(toClient)
    PROVE  /\ toClient' \in Seq(Reply) /\ Len(toClient) > 0
           /\ Len(toClient') = Len(toClient) - 1
           /\ DOMAIN toClient = 1 .. Len(toClient)
           /\ DOMAIN toClient' = 1 .. (Len(toClient) - 1)
           /\ toClient[1] = Head(toClient)
           /\ \A i \in DOMAIN toClient' :
                 i + 1 \in DOMAIN toClient /\ toClient'[i] = toClient[i + 1]
  <1>1. toClient \in Seq(Reply)
    BY DEF TypeOK
  <1> QED
    BY <1>1, HeadTailProperties, LenProperties

\* The queue when the server has sent r.
LEMMA SentQueue ==
    ASSUME TypeOK, NEW r \in Reply, toClient' = Append(toClient, r)
    PROVE  /\ DOMAIN toClient = 1 .. Len(toClient) /\ Len(toClient) \in Nat
           /\ DOMAIN toClient' = 1 .. (Len(toClient) + 1)
           /\ \A i \in DOMAIN toClient : toClient'[i] = toClient[i]
           /\ toClient'[Len(toClient) + 1] = r
  <1>1. toClient \in Seq(Reply)
    BY DEF TypeOK
  <1> QED
    BY <1>1, AppendProperties, LenProperties

\* OfferedOnce is inductive: the server never issues an id twice, and the
\* queue delivers every offer once.
LEMMA OfferStep == TypeOK /\ OfferedOnce /\ [Next]_vars => OfferedOnce'
  <1> SUFFICES ASSUME TypeOK, OfferedOnce, [Next]_vars
               PROVE  OfferedOnce'
    OBVIOUS
  <1>1. /\ ACTIVE_CALL_ID \in issued \cup {NoCall}
        /\ past \subseteq issued
        /\ NoCall \notin issued
        /\ \A i \in DOMAIN toClient :
              Starts(toClient[i]) =>
                  /\ toClient[i].call \in issued \ past
                  /\ toClient[i].call # ACTIVE_CALL_ID
        /\ \A i, j \in DOMAIN toClient :
              Starts(toClient[i]) /\ Starts(toClient[j]) /\ i # j
                  => toClient[i].call # toClient[j].call
    BY CallsAssumption DEF OfferedOnce, TypeOK
  <1>2. CASE Quiet
    BY <1>2, <1>1 DEF Quiet, OfferedOnce, callId, Starts
  <1>3. CASE Loses
    BY <1>3, <1>1 DEF Loses, OfferedOnce, callId, SetCall
  <1>4. ASSUME NEW m \in Reply, Takes(m)
        PROVE  OfferedOnce'
    <2>1. /\ 1 \in DOMAIN toClient /\ toClient[1] = m
          /\ \A i \in DOMAIN toClient' :
                /\ i + 1 \in DOMAIN toClient /\ i + 1 # 1
                /\ toClient'[i] = toClient[i + 1]
          /\ \A i, j \in DOMAIN toClient' : i # j => i + 1 # j + 1
      BY <1>4, TailQueue DEF Takes
    <2>2. issued' = issued
      BY <1>4 DEF Takes
    <2>3. \A i, j \in DOMAIN toClient' :
             Starts(toClient'[i]) /\ Starts(toClient'[j]) /\ i # j
                 => toClient'[i].call # toClient'[j].call
      BY <1>1, <2>1
    <2>4. CASE Starts(m) /\ SetCall(m.call)
      <3>1. m.call \in issued
        BY <1>1, <2>1, <2>4
      <3>2. ACTIVE_CALL_ID' = m.call /\ past' \subseteq past \cup ({ACTIVE_CALL_ID} \ {NoCall})
        BY <2>4 DEF SetCall
      <3>3. \A i \in DOMAIN toClient' : Starts(toClient'[i]) =>
                toClient'[i].call \in issued \ past' /\ toClient'[i].call # m.call
        BY <1>1, <2>1, <2>4, <3>2
      <3> QED
        BY <1>1, <2>2, <2>3, <3>1, <3>2, <3>3 DEF OfferedOnce, Starts
    <2>5. CASE Ends(m) /\ SetCall(NoCall)
      <3>2. ACTIVE_CALL_ID' = NoCall /\ past' \subseteq past \cup ({ACTIVE_CALL_ID} \ {NoCall})
        BY <2>5 DEF SetCall
      <3>3. \A i \in DOMAIN toClient' : Starts(toClient'[i]) =>
                toClient'[i].call \in issued \ past' /\ toClient'[i].call # NoCall
        BY <1>1, <2>1, <3>2
      <3> QED
        BY <1>1, <2>2, <2>3, <3>2, <3>3 DEF OfferedOnce, Starts
    <2>6. CASE UNCHANGED callId
      BY <1>1, <2>1, <2>2, <2>3, <2>6 DEF OfferedOnce, Starts, callId
    <2> QED
      BY <1>4, <2>4, <2>5, <2>6 DEF Takes
  <1>5. ASSUME NEW r \in Reply, Sends(r)
        PROVE  OfferedOnce'
    <2>1. ACTIVE_CALL_ID' = ACTIVE_CALL_ID /\ past' = past /\ issued \subseteq issued'
      BY <1>5 DEF Sends, callId
    <2>2. Starts(r) => r.call \in issued' \ issued /\ r.call # NoCall
      BY <1>5, CallsAssumption DEF Sends
    <2>3. CASE toClient' = toClient
      BY <1>1, <2>1, <2>3 DEF OfferedOnce, Starts
    <2>4. CASE toClient' = Append(toClient, r)
      <3>1. \A i \in DOMAIN toClient' :
               \/ i \in DOMAIN toClient /\ toClient'[i] = toClient[i]
               \/ i = Len(toClient) + 1 /\ toClient'[i] = r
        BY <2>4, SentQueue
      <3>2. \A i \in DOMAIN toClient' : Starts(toClient'[i]) =>
                toClient'[i].call \in issued' \ past /\ toClient'[i].call # ACTIVE_CALL_ID
        BY <1>1, <2>1, <2>2, <3>1
      <3>3. \A i, j \in DOMAIN toClient' :
               Starts(toClient'[i]) /\ Starts(toClient'[j]) /\ i # j
                   => toClient'[i].call # toClient'[j].call
        BY <1>1, <2>2, <3>1
      <3> QED
        BY <1>1, <2>1, <3>2, <3>3 DEF OfferedOnce, Starts
    <2> QED
      BY <1>5, <2>3, <2>4 DEF Sends
  <1> QED
    BY <1>2, <1>3, <1>4, <1>5, StepKind

LEMMA OfferInvariant == Spec => [](TypeOK /\ OfferedOnce)
  <1>1. Init => OfferedOnce
    BY DEF Init, OfferedOnce
  <1> QED
    BY <1>1, OfferStep, TypeCorrect, PTL DEF Spec

\* Every step of the call layer is a step of the ledger, or none.
LEMMA LedgerStep ==
    TypeOK /\ OfferedOnce /\ [Next]_vars => [Ledger!Next]_(Ledger!vars)
  <1> SUFFICES ASSUME TypeOK, OfferedOnce, [Next]_vars
               PROVE  [Ledger!Next]_(Ledger!vars)
    OBVIOUS
  <1>1. callId' = callId => UNCHANGED Ledger!vars
    BY DEF callId, Ledger!vars
  <1>2. ASSUME SetCall(NoCall)
        PROVE  [Ledger!Next]_(Ledger!vars)
    BY <1>2 DEF SetCall, Ledger!Next, Ledger!GiveUp, Ledger!vars
  <1>3. ASSUME NEW m \in Reply, Takes(m), Starts(m), SetCall(m.call)
        PROVE  [Ledger!Next]_(Ledger!vars)
    <2>1. 1 \in DOMAIN toClient /\ toClient[1] = m
      BY <1>3, TailQueue DEF Takes
    <2>2. m.call \in issued \ past /\ m.call # ACTIVE_CALL_ID
      BY <1>3, <2>1 DEF OfferedOnce
    <2>3. m.call \in Calls
      BY <2>2 DEF TypeOK
    <2>4. Ledger!TakeUp(m.call)
      BY <1>3, <2>2 DEF Ledger!TakeUp, SetCall
    <2> QED
      BY <2>3, <2>4 DEF Ledger!Next
  <1> QED
    BY <1>1, <1>2, <1>3, StepKind DEF Quiet, Loses, Takes, Sends

\* The call layer implements the ledger: whatever is lost, delayed or crossed,
\* the SDK never enters a call a second time.
THEOREM NeverReenters == Spec => LedgerSpec
  <1>1. Init => Ledger!Init
    BY DEF Init, Ledger!Init
  <1> QED
    BY <1>1, LedgerStep, OfferInvariant, PTL DEF Spec, LedgerSpec, Ledger!Spec

-----------------------------------------------------------------------------
(* A call the server has ended.                                            *)

\* Live of the state a step ends in, of a message taken from that state.
LiveNow(c, i) ==
    \/ c \in srvCalls'
    \/ \E j \in DOMAIN toClient' :
          j > i /\ Ends(toClient'[j]) /\ toClient'[j].call = c

\* EndInFlight is inductive: the event or Ack that tells of the end of a call
\* comes behind the one that told of its beginning, and is handled after it.
LEMMA EndStep == TypeOK /\ EndInFlight /\ [Next]_vars => EndInFlight'
  <1> SUFFICES ASSUME TypeOK, EndInFlight, [Next]_vars, synced'
               PROVE  EndInFlight'
    BY DEF EndInFlight
  <1>1. CASE Quiet
    BY <1>1 DEF Quiet, EndInFlight, Live, callId
  <1>2. CASE Loses
    BY <1>2 DEF Loses
  <1>3. ASSUME synced
        PROVE  /\ connected
               /\ ACTIVE_CALL_ID = NoCall \/ Live(ACTIVE_CALL_ID, 0)
               /\ \A i \in DOMAIN toClient :
                     Starts(toClient[i]) => Live(toClient[i].call, i)
    BY <1>3 DEF EndInFlight
  <1>4. ASSUME NEW m \in Reply, Takes(m)
        PROVE  EndInFlight'
    <2>1. synced /\ connected'
      BY <1>3, <1>4 DEF Takes
    <2>2. /\ 1 \in DOMAIN toClient /\ toClient[1] = m
          /\ DOMAIN toClient' = 1 .. (Len(toClient) - 1)
          /\ DOMAIN toClient = 1 .. Len(toClient) /\ Len(toClient) \in Nat
          /\ \A i \in DOMAIN toClient' :
                i + 1 \in DOMAIN toClient /\ toClient'[i] = toClient[i + 1]
      BY <1>4, TailQueue, LenProperties DEF Takes, TypeOK
    <2>3. ASSUME NEW c, NEW i \in Nat, Live(c, i + 1)
          PROVE  LiveNow(c, i)
      <3>1. CASE c \in srvCalls
        BY <1>4, <3>1 DEF Takes, LiveNow
      <3>2. ASSUME NEW j \in DOMAIN toClient, j > i + 1,
                   Ends(toClient[j]), toClient[j].call = c
            PROVE  LiveNow(c, i)
        <4>1. j - 1 \in DOMAIN toClient' /\ j - 1 > i /\ toClient'[j - 1] = toClient[j]
          BY <2>2, <3>2
        <4> QED
          BY <3>2, <4>1 DEF LiveNow
      <3> QED
        BY <2>3, <3>1, <3>2 DEF Live, LiveNow
    <2>4. \A i \in DOMAIN toClient' :
             Starts(toClient'[i]) => LiveNow(toClient'[i].call, i)
      <3> SUFFICES ASSUME NEW i \in DOMAIN toClient', Starts(toClient'[i])
                   PROVE  LiveNow(toClient'[i].call, i)
        OBVIOUS
      <3>1. i \in Nat /\ i + 1 \in DOMAIN toClient /\ toClient'[i] = toClient[i + 1]
        BY <2>2
      <3>2. Live(toClient[i + 1].call, i + 1)
        BY <1>3, <2>1, <3>1
      <3> QED
        BY <2>3, <3>1, <3>2
    <2>5. ACTIVE_CALL_ID' = NoCall \/ LiveNow(ACTIVE_CALL_ID', 0)
      <3>1. CASE Starts(m) /\ SetCall(m.call)
        <4>1. Live(m.call, 1) /\ ACTIVE_CALL_ID' = m.call
          BY <1>3, <2>1, <2>2, <3>1 DEF SetCall
        <4> QED
          BY <2>3, <4>1 DEF Live, LiveNow
      <3>2. CASE SetCall(NoCall)
        BY <3>2 DEF SetCall
      <3>3. CASE UNCHANGED callId /\ (Ends(m) => m.call # ACTIVE_CALL_ID)
        <4>1. ACTIVE_CALL_ID' = ACTIVE_CALL_ID
          BY <3>3 DEF callId
        <4>2. Live(ACTIVE_CALL_ID, 0) => Live(ACTIVE_CALL_ID, 1)
          BY <2>2, <3>3 DEF Live, LiveNow
        <4>3. Live(ACTIVE_CALL_ID, 0) => LiveNow(ACTIVE_CALL_ID', 0)
          BY <2>3, <4>1, <4>2
        <4> QED
          BY <1>3, <2>1, <4>1, <4>3
      <3> QED
        BY <1>4, <3>1, <3>2, <3>3 DEF Takes
    <2> QED
      BY <2>1, <2>4, <2>5, Zenon DEF EndInFlight, Live, LiveNow, Starts, Ends
  <1>5. ASSUME NEW r \in Reply, Sends(r)
        PROVE  EndInFlight'
    <2>1. synced /\ connected /\ connected' /\ ACTIVE_CALL_ID' = ACTIVE_CALL_ID
      BY <1>3, <1>5 DEF Sends, callId
    <2>2. /\ DOMAIN toClient = 1 .. Len(toClient) /\ Len(toClient) \in Nat
          /\ DOMAIN toClient' = 1 .. (Len(toClient) + 1)
          /\ \A i \in DOMAIN toClient : toClient'[i] = toClient[i]
          /\ toClient'[Len(toClient) + 1] = r
      BY <1>5, <2>1, SentQueue DEF Sends
    <2>3. ASSUME NEW c, NEW i \in 0 .. Len(toClient), Live(c, i)
          PROVE  LiveNow(c, i)
      <3>1. CASE c \in srvCalls'
        BY <3>1 DEF Live, LiveNow
      <3>2. CASE c \in srvCalls /\ c \notin srvCalls'
        <4>1. Ends(r) /\ r.call = c
          BY <1>5, <3>2 DEF Sends
        <4> QED
          BY <2>2, <4>1 DEF Live, LiveNow
      <3>3. ASSUME NEW j \in DOMAIN toClient, j > i,
                   Ends(toClient[j]), toClient[j].call = c
            PROVE  LiveNow(c, i)
        <4>1. j \in DOMAIN toClient' /\ toClient'[j] = toClient[j]
          BY <2>2
        <4> QED
          BY <3>3, <4>1 DEF Live, LiveNow
      <3> QED
        BY <2>3, <3>1, <3>2, <3>3 DEF Live, LiveNow
    <2>4. \A i \in DOMAIN toClient' :
             Starts(toClient'[i]) => LiveNow(toClient'[i].call, i)
      <3> SUFFICES ASSUME NEW i \in DOMAIN toClient', Starts(toClient'[i])
                   PROVE  LiveNow(toClient'[i].call, i)
        OBVIOUS
      <3>1. CASE i \in DOMAIN toClient
        <4>1. i \in 0 .. Len(toClient) /\ toClient'[i] = toClient[i]
          BY <2>2, <3>1
        <4>2. Live(toClient[i].call, i)
          BY <1>3, <2>1, <3>1, <4>1
        <4> QED
          BY <2>3, <4>1, <4>2
      <3>2. CASE i = Len(toClient) + 1
        <4>1. toClient'[i] = r /\ r.call \in srvCalls'
          BY <1>5, <2>2, <3>2 DEF Sends
        <4> QED
          BY <4>1 DEF Live, LiveNow
      <3> QED
        BY <2>2, <3>1, <3>2
    <2>5. ACTIVE_CALL_ID' = NoCall \/ LiveNow(ACTIVE_CALL_ID', 0)
      BY <1>3, <2>1, <2>2, <2>3
    <2> QED
      BY <2>1, <2>4, <2>5, Zenon DEF EndInFlight, Live, LiveNow, Starts, Ends
  <1> QED
    BY <1>1, <1>2, <1>4, <1>5, StepKind

\* With every message delivered, the SDK is in no call the server has ended:
\* none of the three events that end a call, and no hang-up Ack, can miss the
\* call it is about.
THEOREM EndedCallsAreLeft == Spec => []NoEndedCallKept
  <1>1. Init => EndInFlight
    BY DEF Init, EndInFlight
  <1>2. Spec => []EndInFlight
    BY <1>1, EndStep, TypeCorrect, PTL DEF Spec
  <1>3. EndInFlight => NoEndedCallKept
    BY DEF EndInFlight, NoEndedCallKept, Live
  <1> QED
    BY <1>2, <1>3, PTL
=============================================================================
