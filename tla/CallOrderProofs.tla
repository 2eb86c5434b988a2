---------------------------- MODULE CallOrderProofs ----------------------------
(***************************************************************************)
(* Theorems about CallSession that rest on the order in which the requests *)
(* of the device and the messages to it cross: the active call is given up *)
(* before another one is taken up, the open room is the room of the active *)
(* call, and nothing is left of a call between calls.                      *)
(***************************************************************************)
EXTENDS CallSessionProofs, QueueLemmas

-----------------------------------------------------------------------------
(* The invariant.                                                          *)

\* An Ack that writes into the data or the list of whatever call is active.
Writes(m) == m.ack /\ \/ m.op = "ACCEPT" /\ m.ok
                      \/ m.op = "ADD_CALL_USER" /\ m.users # {}

\* The requests made about the active call only.
AboutActive == HangUps \cup {"ACCEPT", "ADD_CALL_USER"}

\* The end of call c is in the queue, between positions i and k.
EndsBetween(c, i, k) ==
    \E j \in DOMAIN toClient :
        i < j /\ j < k /\ Ends(toClient[j]) /\ toClient[j].call = c

\* Requests are about calls the server has issued; the end of a call comes
\* when it is over; messages with participants are about a call.
KnownCalls ==
    /\ srvCalls \subseteq issued
    /\ \A i \in DOMAIN toServer :
          /\ toServer[i].call \in issued \cup {NoCall}
          /\ toServer[i].op \in AboutActive =>
                toServer[i].call \in past \cup {ACTIVE_CALL_ID, NoCall}
          /\ toServer[i].op = "GET_CALL_DATA" => toServer[i].call # NoCall
    /\ \A i \in DOMAIN toClient :
          /\ toClient[i].call \in issued \cup {NoCall}
          /\ Ends(toClient[i]) => toClient[i].call \notin srvCalls
          /\ toClient[i].ack /\ toClient[i].op \in HangUps =>
                toClient[i].call \in past \cup {ACTIVE_CALL_ID, NoCall}
          /\ toClient[i].op \in {"GET_CALL_DATA", "CALL_NEW_PARTICIPANTS"} =>
                toClient[i].call # NoCall

\* A call begins for the device behind the end of the one before.
StartsWait ==
    synced /\ BusyCheck =>
        /\ \A k \in DOMAIN toClient :
              Starts(toClient[k]) =>
                  ACTIVE_CALL_ID = NoCall \/ EndsBetween(ACTIVE_CALL_ID, 0, k)
        /\ \A i, k \in DOMAIN toClient :
              Starts(toClient[i]) /\ Starts(toClient[k]) /\ i < k =>
                  EndsBetween(toClient[i].call, i, k)

\* A call that was left is over at the server, too.
LeftIsOver == Orderly => past \cap srvCalls = {}

\* The room closes when the hang-up is asked for, and stays closed.
HangUpClosesRoom ==
    Orderly /\ ACTIVE_CALL_ID # NoCall =>
        /\ \A i \in DOMAIN toServer :
              toServer[i].op \in HangUps /\ toServer[i].call = ACTIVE_CALL_ID
                  => room = NoCall
        /\ \A i \in DOMAIN toClient :
              /\ toClient[i].ack /\ toClient[i].op \in HangUps
              /\ toClient[i].call = ACTIVE_CALL_ID
              => room = NoCall

\* An Ack that writes without looking at the active call is about that call,
\* and is handled before its end.
WritesInTime ==
    Orderly =>
        \A i \in DOMAIN toClient :
            Writes(toClient[i]) =>
                /\ ACTIVE_CALL_ID # NoCall /\ toClient[i].call = ACTIVE_CALL_ID
                /\ ~EndsBetween(ACTIVE_CALL_ID, 0, i)

OrderInv ==
    /\ RoomServesCurrentCall /\ IdleIsClean
    /\ LeftIsOver /\ HangUpClosesRoom /\ WritesInTime

-----------------------------------------------------------------------------
(* The steps, by what they do to the requests, the messages, the room and  *)
(* the list.                                                               *)

\* The app sends a request, or none; what is about the active call names it.
Asks ==
    /\ UNCHANGED <<callId, toClient, issued, srvCalls, crossed, synced>>
    /\ room' \in {room, NoCall}
    /\ activeCallData.members = {} =>
          UNCHANGED <<activeCallData, participantUsersList>>
    /\ \/ toServer' = toServer
       \/ \E r \in Request :
             /\ toServer' = Append(toServer, r)
             /\ r.call \in issued \cup {NoCall, ACTIVE_CALL_ID}
             /\ r.op \in AboutActive => r.call = ACTIVE_CALL_ID
             /\ r.op = "GET_CALL_DATA" => r.call \in issued
             /\ r.op \in HangUps => room' = NoCall

\* What a message that does not change the active call may write.
WritesAsItMay(m) ==
    \/ Writes(m)
    \/ /\ m.call = ACTIVE_CALL_ID
       /\ m.op \in {"GET_CALL_DATA", "CALL_NEW_PARTICIPANTS"}
    \/ /\ activeCallData' = activeCallData
       /\ participantUsersList' \in {participantUsersList,
                                     AddRows(participantUsersList, {}, 1),
                                     RemoveRow(participantUsersList, m.users)}

\* A message is handled.
Handles(m) ==
    /\ toClient # <<>> /\ m = Head(toClient) /\ toClient' = Tail(toClient)
    /\ UNCHANGED <<toServer, issued, srvCalls, synced>>
    /\ \/ /\ Starts(m) /\ SetCall(m.call) /\ crossed' = crossed
          /\ room' = m.call \/ (room # NoCall /\ room' = room)
       \/ /\ ~m.ack /\ Ends(m) /\ m.call = ACTIVE_CALL_ID
          /\ LeaveCall /\ crossed' = crossed
       \/ /\ m.ack /\ Ends(m)
          /\ ForgetCall /\ room' = room
          /\ crossed' = (crossed \/ ACTIVE_CALL_ID \notin {m.call, NoCall})
       \/ /\ ~Starts(m)
          /\ Ends(m) => ~m.ack /\ m.call # ACTIVE_CALL_ID
          /\ UNCHANGED <<callId, room, crossed>>
          /\ WritesAsItMay(m)

\* The server takes a request, or acts of its own, and sends r, if anything.
Tells(r) ==
    /\ UNCHANGED <<callId, activeCallData, participantUsersList, room, crossed, synced>>
    /\ toServer' = toServer \/ (toServer # <<>> /\ toServer' = Tail(toServer))
    /\ toClient' \in {toClient, Append(toClient, r)}
    /\ r.ack => \/ r.op = "INITIATE_CALL" /\ r.call \in issued' \cup {NoCall}
                \/ \E i \in DOMAIN toServer : /\ toServer[i].op = r.op
                                              /\ toServer[i].call = r.call
    /\ ~r.ack => r.call \in issued'
    /\ Writes(r) => r.call \in srvCalls
    /\ \/ /\ ~Ends(r) /\ ~Writes(r) /\ r.call \in Calls \ issued
          /\ BusyCheck => srvCalls = {}
          /\ issued' = issued \cup {r.call} /\ srvCalls' = srvCalls \cup {r.call}
       \/ /\ Ends(r) /\ ~Starts(r) /\ UNCHANGED issued
          /\ srvCalls' = srvCalls \ {r.call}
       \/ ~Starts(r) /\ ~Ends(r) /\ UNCHANGED <<issued, srvCalls>>

\* The server takes a request and sends nothing.
TakesSilently ==
    /\ UNCHANGED <<clientVars, toClient, issued, srvCalls, crossed, synced>>
    /\ toServer # <<>> /\ toServer' = Tail(toServer)

\* What is in flight is lost.
Forgets ==
    /\ toServer' = <<>> /\ toClient' = <<>> /\ synced' = FALSE
    /\ UNCHANGED <<issued, srvCalls>>
    /\ UNCHANGED callId \/ SetCall(NoCall)

\* The operations of the application.
LEMMA OperationAsks == TypeOK /\ Operation => Asks \/ Forgets
  <1> SUFFICES ASSUME TypeOK, Operation
               PROVE  Asks \/ Forgets
    OBVIOUS
  <1> USE DEF clientVars, serverVars, AboutActive, HangUps
  <1>1. CASE InitiateCall \/ LookupFailed \/ AddUsersToCall
    BY <1>1 DEF InitiateCall, LookupFailed, AddUsersToCall, Asks
  <1>2. CASE InitiateLookupDone
    <2> PICK l \in lookups : toServer' = Append(toServer, Req("INITIATE_CALL", NoCall, l.users))
      BY <1>2 DEF InitiateLookupDone, Emit
    <2>1. Req("INITIATE_CALL", NoCall, l.users) \in Request
      BY ReqType, EmptyType DEF Requests, TypeOK
    <2> QED
      BY <1>2, <2>1 DEF InitiateLookupDone, Asks, Req
  <1>3. CASE AddLookupDone
    <2> PICK l \in lookups :
          \/ toServer' = Append(toServer, Req("ADD_CALL_USER", ACTIVE_CALL_ID,
                               l.users \ (activeCallData.members \cup {Self})))
          \/ toServer' = toServer
      BY <1>3 DEF AddLookupDone, Emit
    <2>1. Req("ADD_CALL_USER", ACTIVE_CALL_ID,
              l.users \ (activeCallData.members \cup {Self})) \in Request
      BY ReqType DEF Requests, TypeOK
    <2> QED
      BY <1>3, <2>1 DEF AddLookupDone, Asks, Req
  <1>4. CASE AddLookupCrash
    BY <1>4 DEF AddLookupCrash, ProcessDeath, LeaveCall, ForgetCall, Forgets
  <1>5. CASE AcceptCall
    <2>1. Req("ACCEPT", ACTIVE_CALL_ID, {}) \in Request
      BY ReqType DEF Requests, TypeOK
    <2> QED
      BY <1>5, <2>1 DEF AcceptCall, Emit, Asks, Req
  <1>6. ASSUME NEW op \in HangUps, HangUp(op)
        PROVE  Asks
    <2>1. Req(op, ACTIVE_CALL_ID, {}) \in Request
      BY ReqType DEF Requests, TypeOK
    <2> QED
      BY <1>6, <2>1 DEF HangUp, Emit, Asks, Req
  <1>7. ASSUME NEW u \in Users, RemoveUser(u)
        PROVE  Asks
    <2>1. Req("CALL_REMOVE_USER", ACTIVE_CALL_ID, {u}) \in Request
      BY ReqType DEF Requests, People, TypeOK
    <2> QED
      BY <1>7, <2>1 DEF RemoveUser, Emit, Asks, Req
  <1>8. ASSUME NEW c \in issued, IsCallActive(c)
        PROVE  Asks
    <2>1. Req("GET_CALL_DATA", c, {}) \in Request
      BY ReqType DEF Requests, CallIds, TypeOK
    <2> QED
      BY <1>8, <2>1 DEF IsCallActive, Emit, Asks, Req
  <1> QED
    BY <1>1, <1>2, <1>3, <1>4, <1>5, <1>6, <1>7, <1>8
    DEF Operation, RejectCall, EndCall

\* The handlers.
LEMMA ReceiveHandles == TypeOK /\ Receive => \E m \in Reply : Handles(m)
  <1> SUFFICES ASSUME TypeOK, Receive
               PROVE  \E m \in Reply : Handles(m)
    OBVIOUS
  <1> DEFINE m == Head(toClient)
  <1>1. m \in Reply
    BY DEF Receive, TypeOK
  <1>2. /\ toClient # <<>> /\ toClient' = Tail(toClient) /\ Handle(m)
        /\ UNCHANGED <<toServer, issued, srvCalls, synced>>
    BY DEF Receive, serverVars
  <1>3. SUFFICES \/ /\ Starts(m) /\ SetCall(m.call) /\ crossed' = crossed
                    /\ room' = m.call \/ (room # NoCall /\ room' = room)
                 \/ /\ ~m.ack /\ Ends(m) /\ m.call = ACTIVE_CALL_ID
                    /\ LeaveCall /\ crossed' = crossed
                 \/ /\ m.ack /\ Ends(m)
                    /\ ForgetCall /\ room' = room
                    /\ crossed' = (crossed \/ ACTIVE_CALL_ID \notin {m.call, NoCall})
                 \/ /\ ~Starts(m)
                    /\ Ends(m) => ~m.ack /\ m.call # ACTIVE_CALL_ID
                    /\ UNCHANGED <<callId, room, crossed>>
                    /\ WritesAsItMay(m)
    BY <1>1, <1>2 DEF Handles
  <1> HIDE DEF m
  <1> USE DEF WritesAsItMay, Starts, Ends, Writes, clientVars
  <1>10. CASE InitiateAck(m)
    BY <1>10 DEF InitiateAck, HangUps
  <1>11. CASE AcceptAck(m)
    BY <1>11 DEF AcceptAck, HangUps
  <1>12. CASE AddUserAck(m)
    <2>1. m.users = {} => AddRows(participantUsersList, m.users, 1)
                             = AddRows(participantUsersList, {}, 1)
      OBVIOUS
    <2> QED
      BY <1>12, <2>1 DEF AddUserAck, HangUps
  <1>13. CASE IsCallActiveAck(m)
    BY <1>13 DEF IsCallActiveAck, HangUps
  <1>14. CASE HangUpAck(m)
    BY <1>14 DEF HangUpAck
  <1>15. CASE OnCallRequest(m)
    BY <1>15 DEF OnCallRequest
  <1>16. CASE OnEndCall(m)
    BY <1>16 DEF OnEndCall, SelfEnds
  <1>17. CASE OnCallRemoveUser(m)
    BY <1>17 DEF OnCallRemoveUser, SelfEnds
  <1>18. CASE OnLeaveCall(m)
    BY <1>18 DEF OnLeaveCall, SelfEnds
  <1>19. CASE OnCallNewParticipants(m)
    BY <1>19 DEF OnCallNewParticipants, SelfEnds
  <1> QED
    BY <1>2, <1>10, <1>11, <1>12, <1>13, <1>14, <1>15, <1>16, <1>17, <1>18, <1>19
    DEF Handle

\* The server's answers.
LEMMA ServerTells ==
    TypeOK /\ ServerStep => TakesSilently \/ \E r \in Reply : Tells(r)
  <1> SUFFICES ASSUME TypeOK, ServerStep
               PROVE  TakesSilently \/ \E r \in Reply : Tells(r)
    OBVIOUS
  <1> DEFINE m == Head(toServer)
  <1>1. m \in Request /\ \E i \in DOMAIN toServer : toServer[i] = m
    BY TakenQueue DEF ServerStep, TypeOK
  <1>2. m.call \in CallIds /\ m.users \in SUBSET People /\ m.op \in Requests
    BY <1>1 DEF Request
  <1>3. /\ Serve(m) /\ toServer # <<>> /\ toServer' = Tail(toServer)
        /\ UNCHANGED <<callId, activeCallData, participantUsersList, room,
                       crossed, synced>>
    BY DEF ServerStep, clientVars
  <1>4. ASSUME NEW ok \in BOOLEAN, NEW us \in SUBSET People,
               m.op \in {"ACCEPT", "ADD_CALL_USER", "GET_CALL_DATA"},
               ok => m.op = "ADD_CALL_USER" \/ m.call \in srvCalls,
               m.op = "ADD_CALL_USER" /\ us # {} => m.call \in srvCalls,
               Answer(Ack(m.op, m.call, us, ok)),
               UNCHANGED <<issued, srvCalls>>
        PROVE  \E r \in Reply : Tells(r)
    <2> DEFINE r == Ack(m.op, m.call, us, ok)
    <2>1. r \in Reply
      BY <1>2, AckType
    <2>2. r.ack /\ r.op = m.op /\ r.call = m.call /\ r.users = us /\ r.ok = ok
      BY DEF Ack
    <2>3. toClient' = Append(toClient, r)
      BY <1>4 DEF Answer
    <2> HIDE DEF r, m
    <2>4. ~Starts(r) /\ ~Ends(r) /\ (Writes(r) => r.call \in srvCalls)
      BY <1>4, <2>2 DEF Starts, Ends, Writes, HangUps
    <2> QED
      BY <1>1, <1>3, <1>4, <2>1, <2>2, <2>3, <2>4 DEF Tells
  <1>5. ASSUME NEW c \in Calls \ issued, BusyCheck => srvCalls = {},
               issued' = issued \cup {c}, srvCalls' = srvCalls \cup {c},
               Answer(Ack("INITIATE_CALL", c, m.users, TRUE))
        PROVE  \E r \in Reply : Tells(r)
    <2> DEFINE r == Ack("INITIATE_CALL", c, m.users, TRUE)
    <2>1. r \in Reply
      BY <1>2, AckType DEF CallIds, Requests
    <2>2. r.ack /\ r.op = "INITIATE_CALL" /\ r.call = c
      BY DEF Ack
    <2>3. toClient' = Append(toClient, r)
      BY <1>5 DEF Answer
    <2> HIDE DEF r, m
    <2>4. ~Ends(r) /\ ~Writes(r)
      BY <2>2 DEF Ends, Writes, HangUps
    <2> QED
      BY <1>3, <1>5, <2>1, <2>2, <2>3, <2>4 DEF Tells
  <1>6. ASSUME Answer(Ack("INITIATE_CALL", NoCall, {}, FALSE)), UNCHANGED serverVars
        PROVE  \E r \in Reply : Tells(r)
    <2> DEFINE r == Ack("INITIATE_CALL", NoCall, {}, FALSE)
    <2>1. r \in Reply
      BY EmptyType, AckType DEF Requests
    <2>2. r.ack /\ r.op = "INITIATE_CALL" /\ r.call = NoCall /\ ~r.ok
      BY DEF Ack
    <2>3. toClient' = Append(toClient, r)
      BY <1>6 DEF Answer
    <2> HIDE DEF r, m
    <2>4. ~Starts(r) /\ ~Ends(r) /\ ~Writes(r)
      BY <2>2 DEF Starts, Ends, Writes, HangUps
    <2> QED
      BY <1>3, <1>6, <2>1, <2>2, <2>3, <2>4 DEF Tells, serverVars
  <1>7. ASSUME m.op \in HangUps, Answer(Ack(m.op, m.call, {}, TRUE)),
               UNCHANGED issued, srvCalls' = srvCalls \ {m.call}
        PROVE  \E r \in Reply : Tells(r)
    <2> DEFINE r == Ack(m.op, m.call, {}, TRUE)
    <2>1. r \in Reply
      BY <1>2, AckType
    <2>2. r.ack /\ r.op = m.op /\ r.call = m.call
      BY DEF Ack
    <2>3. toClient' = Append(toClient, r)
      BY <1>7 DEF Answer
    <2> HIDE DEF r, m
    <2>4. ~Starts(r) /\ Ends(r) /\ ~Writes(r)
      BY <1>7, <2>2 DEF Starts, Ends, Writes, HangUps
    <2> QED
      BY <1>1, <1>3, <1>7, <2>1, <2>2, <2>3, <2>4 DEF Tells
  <1> HIDE DEF m
  <1>10. CASE ServerInitiate(m)
    BY <1>10, <1>5, <1>6 DEF ServerInitiate
  <1>11. CASE ServerAccept(m)
    <2>1. m.call \in srvCalls => srvMembers[m.call] \in SUBSET People
      BY DEF TypeOK
    <2>2. m.op = "ACCEPT" /\ UNCHANGED <<issued, srvCalls>>
      BY <1>11 DEF ServerAccept, serverVars
    <2>3. CASE m.call \in srvCalls
      <3>1. Answer(Ack(m.op, m.call, srvMembers[m.call], TRUE))
        BY <1>11, <2>3 DEF ServerAccept
      <3> QED
        BY <1>4, <2>1, <2>2, <2>3, <3>1
    <2>4. CASE m.call \notin srvCalls
      <3>1. Answer(Ack(m.op, m.call, {}, FALSE))
        BY <1>11, <2>4 DEF ServerAccept
      <3>2. {} \in SUBSET People /\ FALSE \in BOOLEAN
        OBVIOUS
      <3> QED
        BY <1>4, <2>2, <3>1, <3>2
    <2> QED
      BY <2>3, <2>4
  <1>12. CASE ServerHangUp(m)
    BY <1>12, <1>7 DEF ServerHangUp, SrvLeave
  <1>13. CASE ServerAdd(m)
    <2> DEFINE new == IF m.call \in srvCalls
                        THEN m.users \ srvMembers[m.call] ELSE {}
    <2>1. new \in SUBSET People /\ (new # {} => m.call \in srvCalls)
      BY <1>2
    <2>2. /\ m.op = "ADD_CALL_USER" /\ UNCHANGED <<issued, srvCalls>>
          /\ Answer(Ack(m.op, m.call, new, TRUE))
      BY <1>13 DEF ServerAdd
    <2> HIDE DEF new
    <2> QED
      BY <1>4, <2>1, <2>2
  <1>14. CASE ServerRemove(m)
    BY <1>14, <1>3 DEF ServerRemove, TakesSilently, clientVars, callId
  <1>15. CASE ServerGetData(m)
    <2>1. m.call \in srvCalls => srvMembers[m.call] \in SUBSET People
      BY DEF TypeOK
    <2>2. m.op = "GET_CALL_DATA" /\ UNCHANGED <<issued, srvCalls>>
      BY <1>15 DEF ServerGetData, serverVars
    <2>3. CASE m.call \in srvCalls
      <3>1. Answer(Ack(m.op, m.call, srvMembers[m.call], TRUE))
        BY <1>15, <2>3 DEF ServerGetData
      <3> QED
        BY <1>4, <2>1, <2>2, <2>3, <3>1
    <2>4. CASE m.call \notin srvCalls
      <3>1. Answer(Ack(m.op, m.call, {}, FALSE))
        BY <1>15, <2>4 DEF ServerGetData
      <3>2. {} \in SUBSET People /\ FALSE \in BOOLEAN
        OBVIOUS
      <3> QED
        BY <1>4, <2>2, <3>1, <3>2
    <2> QED
      BY <2>3, <2>4
  <1> QED
    BY <1>3, <1>10, <1>11, <1>12, <1>13, <1>14, <1>15 DEF Serve

\* What the server does of its own.  While nothing is lost, it is sent.
LEMMA EnvironmentTells ==
    TypeOK /\ srvCalls \subseteq issued /\ Environment
       => Asks \/ Forgets \/ \E r \in Reply : Tells(r)
  <1> SUFFICES ASSUME TypeOK, srvCalls \subseteq issued, Environment
               PROVE  Asks \/ Forgets \/ \E r \in Reply : Tells(r)
    OBVIOUS
  <1>1. ASSUME NEW op \in Events, NEW c \in Calls, NEW us \in SUBSET People,
               Push(Event(op, c, us)), ServerIdle,
               \/ /\ op = "CALL_REQUEST" /\ c \notin issued
                  /\ BusyCheck => srvCalls = {}
                  /\ issued' = issued \cup {c} /\ srvCalls' = srvCalls \cup {c}
               \/ /\ op \in SelfEnds /\ us = {Self} /\ c \in issued
                  /\ UNCHANGED issued /\ srvCalls' = srvCalls \ {c}
               \/ /\ op \notin {"CALL_REQUEST", "END_CALL"} /\ us # {Self}
                  /\ c \in issued /\ UNCHANGED <<issued, srvCalls>>
        PROVE  \E r \in Reply : Tells(r)
    <2> DEFINE r == Event(op, c, us)
    <2>1. r \in Reply
      BY <1>1, EventType DEF CallIds
    <2>2. ~r.ack /\ r.op = op /\ r.call = c /\ r.users = us
      BY DEF Event
    <2>3. toClient' \in {toClient, Append(toClient, r)}
      BY <1>1 DEF Push
    <2> HIDE DEF r
    <2>4. ~Writes(r) /\ (Starts(r) <=> op = "CALL_REQUEST")
          /\ (Ends(r) <=> \/ op = "END_CALL"
                          \/ op \in SelfEnds /\ us = {Self})
      BY <2>2 DEF Writes, Starts, Ends
    <2>5. UNCHANGED <<callId, activeCallData, participantUsersList, room,
                      toServer, crossed, synced>>
      BY <1>1 DEF ServerIdle, clientVars
    <2>6. CASE op = "CALL_REQUEST"
      BY <1>1, <2>1, <2>2, <2>3, <2>4, <2>5, <2>6 DEF Tells, SelfEnds
    <2>7. CASE op # "CALL_REQUEST"
      BY <1>1, <2>1, <2>2, <2>3, <2>4, <2>5, <2>7 DEF Tells, SelfEnds
    <2> QED
      BY <2>6, <2>7
  <1>2. CASE ServerOffer
    <2> PICK c \in Calls \ issued, us \in SUBSET Users :
            /\ issued' = issued \cup {c}
            /\ srvCalls' = srvCalls \cup {c}
            /\ Push(Event("CALL_REQUEST", c, us \cup {Self}))
      BY <1>2 DEF ServerOffer
    <2>1. us \cup {Self} \in SUBSET People /\ "CALL_REQUEST" \in Events
      BY DEF People, Events
    <2>2. ServerIdle /\ (BusyCheck => srvCalls = {})
      BY <1>2 DEF ServerOffer
    <2> QED
      BY <1>1, <2>1, <2>2
  <1>3. CASE ServerEnd
    <2> PICK c \in srvCalls, op \in SelfEnds :
            SrvLeave(c) /\ Push(Event(op, c, {Self}))
      BY <1>3 DEF ServerEnd
    <2>1. {Self} \in SUBSET People /\ op \in Events /\ c \in Calls /\ c \in issued
      BY DEF People, Events, TypeOK
    <2>2. ServerIdle /\ UNCHANGED issued /\ srvCalls' = srvCalls \ {c}
      BY <1>3 DEF ServerEnd, SrvLeave
    <2> QED
      BY <1>1, <2>1, <2>2
  <1>4. CASE ServerJoin \/ ServerPart
    <2> PICK c \in srvCalls, u \in Users,
             op \in {"CALL_NEW_PARTICIPANTS", "CALL_REMOVE_USER", "LEAVE_CALL"} :
            Push(Event(op, c, {u}))
      BY <1>4 DEF ServerJoin, ServerPart
    <2>1. {u} \in SUBSET People /\ {u} # {Self}
      BY UsersAssumption DEF People
    <2>2. /\ op \in Events /\ c \in Calls /\ c \in issued
          /\ op \notin {"CALL_REQUEST", "END_CALL"}
      BY DEF Events, SelfEnds, TypeOK
    <2>3. ServerIdle /\ UNCHANGED <<issued, srvCalls>>
      BY <1>4 DEF ServerJoin, ServerPart
    <2> QED
      BY <1>1, <2>1, <2>2, <2>3
  <1>5. CASE Disconnect
    BY <1>5 DEF Disconnect, Forgets, clientVars, serverVars
  <1>6. CASE Reconnect
    BY <1>6 DEF Reconnect, Asks, clientVars, serverVars
  <1>7. CASE Restart
    BY <1>7 DEF Restart, ProcessDeath, LeaveCall, ForgetCall, Forgets, serverVars
  <1> QED
    BY <1>2, <1>3, <1>4, <1>5, <1>6, <1>7 DEF Environment

\* Every step is of one of these kinds.
LEMMA StepOrder ==
    TypeOK /\ srvCalls \subseteq issued /\ [Next]_vars
       => \/ Asks \/ Forgets \/ TakesSilently
          \/ \E m \in Reply : Handles(m)
          \/ \E r \in Reply : Tells(r)
  <1>1. UNCHANGED vars => Asks
    BY DEF vars, clientVars, serverVars, Asks
  <1> QED
    BY <1>1, OperationAsks, ReceiveHandles, ServerTells, EnvironmentTells DEF Next

-----------------------------------------------------------------------------
(* Requests and messages are about known calls.                            *)

\* The entries of the queues after a step.
LEMMA StepQueues ==
    ASSUME TypeOK, NEW r
    PROVE  /\ r \in Request /\ toServer' = Append(toServer, r) =>
                 \A i \in DOMAIN toServer' :
                    \/ \E j \in DOMAIN toServer : toServer'[i] = toServer[j]
                    \/ toServer'[i] = r
           /\ toServer # <<>> /\ toServer' = Tail(toServer) =>
                 \A i \in DOMAIN toServer' :
                    \E j \in DOMAIN toServer : toServer'[i] = toServer[j]
           /\ r \in Reply /\ toClient' = Append(toClient, r) =>
                 \A i \in DOMAIN toClient' :
                    \/ \E j \in DOMAIN toClient : toClient'[i] = toClient[j]
                    \/ toClient'[i] = r
           /\ toClient # <<>> /\ toClient' = Tail(toClient) =>
                 \A i \in DOMAIN toClient' :
                    \E j \in DOMAIN toClient : toClient'[i] = toClient[j]
           /\ DOMAIN <<>> = {}
  <1>1. toServer \in Seq(Request) /\ toClient \in Seq(Reply)
    BY DEF TypeOK
  <1>2. r \in Request /\ toServer' = Append(toServer, r) =>
            \A i \in DOMAIN toServer' :
               \/ \E j \in DOMAIN toServer : toServer'[i] = toServer[j]
               \/ toServer'[i] = r
    BY <1>1, GrownQueue
  <1>3. r \in Reply /\ toClient' = Append(toClient, r) =>
            \A i \in DOMAIN toClient' :
               \/ \E j \in DOMAIN toClient : toClient'[i] = toClient[j]
               \/ toClient'[i] = r
    BY <1>1, GrownQueue
  <1>4. toServer # <<>> /\ toServer' = Tail(toServer) =>
            \A i \in DOMAIN toServer' :
               \E j \in DOMAIN toServer : toServer'[i] = toServer[j]
    BY <1>1, TakenQueue
  <1>5. toClient # <<>> /\ toClient' = Tail(toClient) =>
            \A i \in DOMAIN toClient' :
               \E j \in DOMAIN toClient : toClient'[i] = toClient[j]
    BY <1>1, TakenQueue
  <1> QED
    BY <1>2, <1>3, <1>4, <1>5

\* The calls the SDK is and was in stay among them.
LEMMA CallsRemembered ==
    ASSUME TypeOK, UNCHANGED callId \/ \E c : SetCall(c)
    PROVE  past \cup {ACTIVE_CALL_ID, NoCall}
              \subseteq past' \cup {ACTIVE_CALL_ID', NoCall}
  BY DEF SetCall, callId

\* KnownCalls is inductive: no request can name a call the server has not
\* issued, and no end of a call is sent while the device takes part in it.
LEMMA KnownStep ==
    TypeOK /\ OfferedOnce /\ KnownCalls /\ [Next]_vars => KnownCalls'
  <1> SUFFICES ASSUME TypeOK, OfferedOnce, KnownCalls, [Next]_vars
               PROVE  KnownCalls'
    OBVIOUS
  <1>1. /\ srvCalls \subseteq issued
        /\ ACTIVE_CALL_ID \in issued \cup {NoCall}
        /\ issued \subseteq Calls /\ NoCall \notin issued
    BY CallsAssumption DEF KnownCalls, OfferedOnce, TypeOK
  <1>2. \A i \in DOMAIN toServer :
           /\ toServer[i].call \in issued \cup {NoCall}
           /\ toServer[i].op \in AboutActive =>
                 toServer[i].call \in past \cup {ACTIVE_CALL_ID, NoCall}
           /\ toServer[i].op = "GET_CALL_DATA" => toServer[i].call # NoCall
           /\ toServer[i].op \in Requests
    <2>1. \A i \in DOMAIN toServer : toServer[i] \in Request
      BY QueueEntries DEF TypeOK
    <2> QED
      BY <2>1 DEF KnownCalls, Request
  <1>3. \A i \in DOMAIN toClient :
           /\ toClient[i].call \in issued \cup {NoCall}
           /\ Ends(toClient[i]) => toClient[i].call \notin srvCalls
           /\ toClient[i].ack /\ toClient[i].op \in HangUps =>
                 toClient[i].call \in past \cup {ACTIVE_CALL_ID, NoCall}
           /\ toClient[i].op \in {"GET_CALL_DATA", "CALL_NEW_PARTICIPANTS"} =>
                 toClient[i].call # NoCall
    BY DEF KnownCalls
  <1>4. CASE Asks
    <2>1. UNCHANGED <<toClient, issued, srvCalls, past, ACTIVE_CALL_ID>>
      BY <1>4 DEF Asks, callId
    <2>2. CASE toServer' = toServer
      BY <1>1, <1>2, <1>3, <2>1, <2>2, Zenon DEF KnownCalls, Ends
    <2>3. ASSUME NEW r \in Request, toServer' = Append(toServer, r),
                 r.call \in issued \cup {NoCall, ACTIVE_CALL_ID},
                 r.op \in AboutActive => r.call = ACTIVE_CALL_ID,
                 r.op = "GET_CALL_DATA" => r.call \in issued
          PROVE  KnownCalls'
      <3>1. \A i \in DOMAIN toServer' :
               \/ \E j \in DOMAIN toServer : toServer'[i] = toServer[j]
               \/ toServer'[i] = r
        BY <2>3, StepQueues
      <3>2. \A i \in DOMAIN toServer' :
               /\ toServer'[i].call \in issued \cup {NoCall}
               /\ toServer'[i].op \in AboutActive =>
                     toServer'[i].call \in past \cup {ACTIVE_CALL_ID, NoCall}
               /\ toServer'[i].op = "GET_CALL_DATA" => toServer'[i].call # NoCall
        BY <1>1, <1>2, <2>3, <3>1
      <3> QED
        BY <1>1, <1>3, <2>1, <3>2 DEF KnownCalls, Ends
    <2> QED
      BY <1>4, <2>2, <2>3 DEF Asks
  <1>5. CASE Forgets
    BY <1>1, <1>5 DEF Forgets, KnownCalls
  <1>6. CASE TakesSilently
    <2>1. \A i \in DOMAIN toServer' :
             \E j \in DOMAIN toServer : toServer'[i] = toServer[j]
      BY <1>6, StepQueues DEF TakesSilently
    <2> QED
      BY <1>1, <1>2, <1>3, <1>6, <2>1 DEF TakesSilently, clientVars, callId, KnownCalls, Ends
  <1>7. ASSUME NEW m \in Reply, Handles(m)
        PROVE  KnownCalls'
    <2>1. \A i \in DOMAIN toClient' :
             \E j \in DOMAIN toClient : toClient'[i] = toClient[j]
      BY <1>7, StepQueues DEF Handles
    <2>2. past \cup {ACTIVE_CALL_ID, NoCall} \subseteq past' \cup {ACTIVE_CALL_ID', NoCall}
      <3>1. UNCHANGED callId \/ \E c : SetCall(c)
        BY <1>7 DEF Handles, LeaveCall, ForgetCall, callId
      <3> QED
        BY <3>1, CallsRemembered
    <2>3. UNCHANGED <<toServer, issued, srvCalls>>
      BY <1>7 DEF Handles
    <2>4. \A i \in DOMAIN toClient' :
             /\ toClient'[i].call \in issued \cup {NoCall}
             /\ Ends(toClient'[i]) => toClient'[i].call \notin srvCalls
             /\ toClient'[i].ack /\ toClient'[i].op \in HangUps =>
                   toClient'[i].call \in past' \cup {ACTIVE_CALL_ID', NoCall}
             /\ toClient'[i].op \in {"GET_CALL_DATA", "CALL_NEW_PARTICIPANTS"} =>
                   toClient'[i].call # NoCall
      BY <1>3, <2>1, <2>2
    <2> QED
      BY <1>1, <1>2, <2>2, <2>3, <2>4 DEF KnownCalls, Ends
  <1>8. ASSUME NEW r \in Reply, Tells(r)
        PROVE  KnownCalls'
    <2>1. \A i \in DOMAIN toServer' :
             \E j \in DOMAIN toServer : toServer'[i] = toServer[j]
      <3>1. CASE toServer' = toServer
        BY <3>1
      <3>2. CASE toServer # <<>> /\ toServer' = Tail(toServer)
        BY <3>2, StepQueues
      <3> QED
        BY <1>8, <3>1, <3>2 DEF Tells
    <2>2. \A i \in DOMAIN toClient' :
             \/ \E j \in DOMAIN toClient : toClient'[i] = toClient[j]
             \/ toClient'[i] = r
      <3>1. CASE toClient' = toClient
        BY <3>1
      <3>2. CASE toClient' = Append(toClient, r)
        BY <3>2, StepQueues
      <3> QED
        BY <1>8, <3>1, <3>2 DEF Tells
    <2>3. UNCHANGED <<ACTIVE_CALL_ID, past>>
      BY <1>8 DEF Tells, callId
    <2>4. /\ srvCalls' \subseteq issued' /\ issued \subseteq issued'
          /\ \A c \in issued \cup {NoCall} : c \notin srvCalls => c \notin srvCalls'
          /\ issued' \subseteq Calls
      BY <1>1, <1>8, CallsAssumption DEF Tells
    <2>5. /\ r.call \in issued' \cup {NoCall}
          /\ r.ack /\ r.op \in HangUps =>
                r.call \in past \cup {ACTIVE_CALL_ID, NoCall}
          /\ r.op \in {"GET_CALL_DATA", "CALL_NEW_PARTICIPANTS"} => r.call # NoCall
      <3>1. CASE ~r.ack
        <4>1. r.call \in issued'
          BY <1>8, <3>1 DEF Tells
        <4> QED
          BY <2>4, <3>1, <4>1, CallsAssumption
      <3>2. CASE r.ack /\ r.op = "INITIATE_CALL"
        <4>1. r.call \in issued' \cup {NoCall}
          BY <1>2, <1>8, <2>4, <3>2 DEF Tells
        <4> QED
          BY <3>2, <4>1 DEF HangUps
      <3>3. ASSUME NEW i \in DOMAIN toServer,
                   toServer[i].op = r.op, toServer[i].call = r.call
            PROVE  /\ r.call \in issued' \cup {NoCall}
                   /\ r.op \in HangUps =>
                         r.call \in past \cup {ACTIVE_CALL_ID, NoCall}
                   /\ r.op \in {"GET_CALL_DATA", "CALL_NEW_PARTICIPANTS"} => r.call # NoCall
        BY <1>2, <2>4, <3>3 DEF AboutActive, Requests
      <3> QED
        BY <1>8, <3>1, <3>2, <3>3 DEF Tells
    <2>6. Ends(r) => r.call \notin srvCalls'
      BY <1>8 DEF Tells
    <2>7. \A i \in DOMAIN toClient' :
             /\ toClient'[i].call \in issued' \cup {NoCall}
             /\ Ends(toClient'[i]) => toClient'[i].call \notin srvCalls'
             /\ toClient'[i].ack /\ toClient'[i].op \in HangUps =>
                   toClient'[i].call \in past \cup {ACTIVE_CALL_ID, NoCall}
             /\ toClient'[i].op \in {"GET_CALL_DATA", "CALL_NEW_PARTICIPANTS"} =>
                   toClient'[i].call # NoCall
      BY <1>3, <2>2, <2>4, <2>5, <2>6
    <2>8. \A i \in DOMAIN toServer' :
             /\ toServer'[i].call \in issued' \cup {NoCall}
             /\ toServer'[i].op \in AboutActive =>
                   toServer'[i].call \in past \cup {ACTIVE_CALL_ID, NoCall}
             /\ toServer'[i].op = "GET_CALL_DATA" => toServer'[i].call # NoCall
      BY <1>2, <2>1, <2>4
    <2> QED
      BY <2>3, <2>4, <2>7, <2>8 DEF KnownCalls, Ends
  <1> QED
    BY <1>1, <1>4, <1>5, <1>6, <1>7, <1>8, StepOrder

-----------------------------------------------------------------------------
(* A call begins behind the end of the one before.                         *)

\* EndsBetween of the state a step ends in, for a call of the state before.
EndsBetweenNow(c, i, k) ==
    \E j \in DOMAIN toClient' :
        i < j /\ j < k /\ Ends(toClient'[j]) /\ toClient'[j].call = c

\* The same of StartsWait.
StartsWaitNow ==
    /\ \A k \in DOMAIN toClient' :
          Starts(toClient'[k]) =>
             ACTIVE_CALL_ID' = NoCall \/ EndsBetweenNow(ACTIVE_CALL_ID', 0, k)
    /\ \A i, k \in DOMAIN toClient' :
          Starts(toClient'[i]) /\ Starts(toClient'[k]) /\ i < k =>
             EndsBetweenNow(toClient'[i].call, i, k)

\* StartsWait is inductive.  The server offers a call only when the device
\* takes part in none, so that the end of the last one was sent before.
LEMMA StartsStep ==
    /\ TypeOK /\ OfferedOnce /\ EndInFlight /\ KnownCalls /\ StartsWait
    /\ [Next]_vars
    => StartsWait'
  <1> SUFFICES ASSUME TypeOK, OfferedOnce, EndInFlight, KnownCalls, StartsWait,
                      [Next]_vars, synced', BusyCheck
               PROVE  StartsWait'
    BY DEF StartsWait
  <1> DEFINE C == ACTIVE_CALL_ID
  <1>1. /\ Len(toClient) \in Nat /\ DOMAIN toClient = 1 .. Len(toClient)
        /\ \A i \in DOMAIN toClient : i \in Nat /\ toClient[i] \in Reply
        /\ srvCalls \subseteq issued
    BY QueueEntries DEF TypeOK, KnownCalls
  <1>2. ASSUME synced
        PROVE  /\ \A k \in DOMAIN toClient :
                     Starts(toClient[k]) => C = NoCall \/ EndsBetween(C, 0, k)
               /\ \A i, k \in DOMAIN toClient :
                     Starts(toClient[i]) /\ Starts(toClient[k]) /\ i < k =>
                        EndsBetween(toClient[i].call, i, k)
    BY <1>2 DEF StartsWait
  <1>4. CASE Forgets
    BY <1>4 DEF Forgets
  <1>5. SUFFICES ASSUME synced
                 PROVE  StartsWaitNow
    <2>1. synced \/ Forgets
      BY <1>1, StepOrder DEF Asks, TakesSilently, Handles, Tells
    <2> QED
      BY <1>4, <2>1, Zenon DEF StartsWaitNow, StartsWait, EndsBetween, EndsBetweenNow,
                               Starts, Ends
  <1>6. CASE toClient' = toClient /\ UNCHANGED callId
    BY <1>2, <1>5, <1>6 DEF StartsWaitNow, EndsBetween, EndsBetweenNow, callId
  <1>7. ASSUME NEW m \in Reply, Handles(m)
        PROVE  StartsWaitNow
    <2>1. /\ toClient[1] = m /\ 1 \in DOMAIN toClient
          /\ DOMAIN toClient' = 1 .. (Len(toClient) - 1)
          /\ \A i \in DOMAIN toClient' : /\ i + 1 \in DOMAIN toClient /\ i \in Nat
                                         /\ toClient'[i] = toClient[i + 1]
          /\ \A i \in DOMAIN toClient : \/ i = 1
                                        \/ /\ i - 1 \in DOMAIN toClient'
                                           /\ toClient'[i - 1] = toClient[i]
      BY <1>7, TakenQueue DEF Handles, TypeOK
    <2>2. ASSUME NEW c, NEW i \in Nat, NEW k \in Nat, EndsBetween(c, i + 1, k + 1)
          PROVE  EndsBetweenNow(c, i, k)
      <3> PICK j \in DOMAIN toClient :
              i + 1 < j /\ j < k + 1 /\ Ends(toClient[j]) /\ toClient[j].call = c
        BY <2>2 DEF EndsBetween
      <3>1. j - 1 \in DOMAIN toClient' /\ toClient'[j - 1] = toClient[j]
        BY <1>1, <2>1
      <3>2. i < j - 1 /\ j - 1 < k
        BY <1>1
      <3> QED
        BY <3>1, <3>2 DEF EndsBetweenNow
    <2>3. \A i, k \in DOMAIN toClient' :
             Starts(toClient'[i]) /\ Starts(toClient'[k]) /\ i < k =>
                EndsBetweenNow(toClient'[i].call, i, k)
      BY <1>2, <1>5, <2>1, <2>2
    <2>4. ASSUME NEW k \in DOMAIN toClient', Starts(toClient'[k]), ACTIVE_CALL_ID' # NoCall
          PROVE  EndsBetweenNow(ACTIVE_CALL_ID', 0, k)
      <3>1. /\ k + 1 \in DOMAIN toClient /\ Starts(toClient[k + 1]) /\ k \in Nat
            /\ 1 < k + 1
        BY <1>1, <2>1, <2>4
      <3>2. CASE Starts(m) /\ SetCall(m.call)
        <4>1. EndsBetween(m.call, 1, k + 1) /\ ACTIVE_CALL_ID' = m.call
          BY <1>2, <1>5, <2>1, <3>1, <3>2 DEF SetCall
        <4> QED
          BY <2>2, <3>1, <4>1
      <3>3. CASE SetCall(NoCall)
        BY <2>4, <3>3 DEF SetCall
      <3>4. CASE UNCHANGED callId /\ (Ends(m) => m.call # C)
        <4>1. EndsBetween(C, 0, k + 1) /\ ACTIVE_CALL_ID' = C
          BY <1>2, <1>5, <2>4, <3>1, <3>4 DEF callId
        <4>2. PICK j \in DOMAIN toClient :
                 0 < j /\ j < k + 1 /\ Ends(toClient[j]) /\ toClient[j].call = C
          BY <4>1 DEF EndsBetween
        <4>3. j # 1
          BY <2>1, <3>4, <4>2
        <4>4. 1 < j
          BY <1>1, <4>2, <4>3
        <4>5. EndsBetween(C, 1, k + 1)
          BY <4>2, <4>4 DEF EndsBetween
        <4> QED
          BY <2>2, <3>1, <4>1, <4>5
      <3> QED
        BY <1>7, <3>2, <3>3, <3>4 DEF Handles, LeaveCall, ForgetCall
    <2> QED
      BY <2>3, <2>4 DEF StartsWaitNow
  <1>8. ASSUME NEW r \in Reply, Tells(r), toClient' = Append(toClient, r)
        PROVE  StartsWaitNow
    <2>1. /\ \A i \in DOMAIN toClient : /\ i \in DOMAIN toClient'
                                        /\ toClient'[i] = toClient[i]
          /\ \A i \in DOMAIN toClient' :
                \/ i \in DOMAIN toClient /\ toClient'[i] = toClient[i]
                \/ i = Len(toClient) + 1 /\ toClient'[i] = r
      BY <1>8, GrownQueue DEF TypeOK
    <2>2. \A c, i, k : EndsBetween(c, i, k) => EndsBetweenNow(c, i, k)
      BY <2>1 DEF EndsBetween, EndsBetweenNow
    <2>3. ASSUME NEW c, NEW i \in Nat, Live(c, i), srvCalls = {}
          PROVE  EndsBetweenNow(c, i, Len(toClient) + 1)
      <3>1. PICK j \in DOMAIN toClient : j > i /\ Ends(toClient[j]) /\ toClient[j].call = c
        BY <2>3 DEF Live
      <3> QED
        BY <1>1, <2>1, <3>1 DEF EndsBetweenNow
    <2>4. Starts(r) => srvCalls = {}
      BY <1>8 DEF Tells
    <2>5. /\ C = NoCall \/ Live(C, 0)
          /\ \A i \in DOMAIN toClient :
                Starts(toClient[i]) => Live(toClient[i].call, i)
      BY <1>5 DEF EndInFlight
    <2>6. ACTIVE_CALL_ID' = C
      BY <1>8 DEF Tells, callId
    <2>7. ASSUME NEW k \in DOMAIN toClient', Starts(toClient'[k]), C # NoCall
          PROVE  EndsBetweenNow(C, 0, k)
      BY <1>2, <1>5, <2>1, <2>2, <2>3, <2>4, <2>5, <2>7
    <2>8. ASSUME NEW i \in DOMAIN toClient', NEW k \in DOMAIN toClient',
                 Starts(toClient'[i]), Starts(toClient'[k]), i < k
          PROVE  EndsBetweenNow(toClient'[i].call, i, k)
      <3>1. i \in DOMAIN toClient /\ toClient'[i] = toClient[i] /\ i \in Nat
        BY <1>1, <2>1, <2>8
      <3> QED
        BY <1>2, <1>5, <2>1, <2>2, <2>3, <2>4, <2>5, <2>8, <3>1
    <2> QED
      BY <2>6, <2>7, <2>8 DEF StartsWaitNow
  <1> QED
    BY <1>1, <1>4, <1>6, <1>7, <1>8, StepOrder DEF Asks, TakesSilently, Tells, Forgets, clientVars

-----------------------------------------------------------------------------
(* The room and the list follow the call.                                  *)

\* Adding the rows of nobody to an empty list, or removing a row from it,
\* leaves it empty.
LEMMA EmptyRows ==
    /\ AddRows(EmptyList, {}, 1) = EmptyList
    /\ \A us : RemoveRow(EmptyList, us) = EmptyList
  BY DEF AddRows, RemoveRow, EmptyList

\* What OrderInv says of the state a step ends in, while all is in order.
OrderNow ==
    /\ room' # NoCall => room' = ACTIVE_CALL_ID'
    /\ ACTIVE_CALL_ID' = NoCall =>
          activeCallData' = NoData /\ participantUsersList' = EmptyList
    /\ past' \cap srvCalls' = {}
    /\ ACTIVE_CALL_ID' # NoCall /\ room' # NoCall =>
          /\ \A i \in DOMAIN toServer' :
                toServer'[i].op \in HangUps => toServer'[i].call # ACTIVE_CALL_ID'
          /\ \A i \in DOMAIN toClient' :
                toClient'[i].ack /\ toClient'[i].op \in HangUps =>
                   toClient'[i].call # ACTIVE_CALL_ID'
    /\ \A i \in DOMAIN toClient' :
          Writes(toClient'[i]) =>
             /\ ACTIVE_CALL_ID' # NoCall /\ toClient'[i].call = ACTIVE_CALL_ID'
             /\ ~EndsBetweenNow(ACTIVE_CALL_ID', 0, i)

\* OrderInv is inductive: an Ack is handled in the call its request was made
\* in, or too late for that call but before the next one.
LEMMA OrderStep ==
    /\ TypeOK /\ OfferedOnce /\ EndInFlight /\ KnownCalls /\ StartsWait
    /\ OrderInv /\ [Next]_vars
    => OrderInv'
  <1> SUFFICES ASSUME TypeOK, OfferedOnce, KnownCalls, StartsWait, OrderInv,
                      [Next]_vars
               PROVE  OrderInv'
    OBVIOUS
  <1> DEFINE C == ACTIVE_CALL_ID
  <1>1. /\ Len(toClient) \in Nat /\ DOMAIN toClient = 1 .. Len(toClient)
        /\ \A i \in DOMAIN toClient : i \in Nat /\ toClient[i] \in Reply
        /\ srvCalls \subseteq issued /\ past \subseteq issued
        /\ NoCall \notin issued /\ NoCall \notin past
        /\ crossed \in BOOLEAN /\ synced \in BOOLEAN
    BY QueueEntries, CallsAssumption DEF TypeOK, KnownCalls, OfferedOnce
  <1>2. Orderly' => Orderly
    BY <1>1, StepOrder DEF Orderly, Asks, TakesSilently, Handles, Tells, Forgets
  <1>3. SUFFICES ASSUME Orderly, synced', ~crossed', ~Forgets
                 PROVE  OrderNow
    <2>1. Orderly' => Orderly /\ synced' /\ ~crossed' /\ ~Forgets
      BY <1>2 DEF Orderly, Forgets
    <2>2. Orderly' => OrderNow
      BY <1>3, <2>1
    <2> QED
      BY <2>2, Zenon
      DEF OrderNow, OrderInv, RoomServesCurrentCall, IdleIsClean, LeftIsOver,
          HangUpClosesRoom, WritesInTime, EndsBetween, EndsBetweenNow,
          Writes, Ends
  <1>4. /\ room # NoCall => room = C
        /\ C = NoCall => /\ activeCallData = NoData /\ participantUsersList = EmptyList
                         /\ activeCallData.members = {}
        /\ past \cap srvCalls = {}
        /\ C # NoCall /\ room # NoCall =>
              /\ \A i \in DOMAIN toServer :
                    toServer[i].op \in HangUps => toServer[i].call # C
              /\ \A i \in DOMAIN toClient :
                    toClient[i].ack /\ toClient[i].op \in HangUps =>
                       toClient[i].call # C
        /\ \A i \in DOMAIN toClient :
              Writes(toClient[i]) =>
                 /\ C # NoCall /\ toClient[i].call = C
                 /\ ~EndsBetween(C, 0, i)
    BY <1>3 DEF OrderInv, RoomServesCurrentCall, IdleIsClean, LeftIsOver,
                HangUpClosesRoom, WritesInTime, NoData
  <1>5. CASE Asks
    <2>1. /\ UNCHANGED <<ACTIVE_CALL_ID, past, toClient, issued, srvCalls>>
          /\ room' \in {room, NoCall}
          /\ activeCallData.members = {} =>
                UNCHANGED <<activeCallData, participantUsersList>>
      BY <1>5 DEF Asks, callId
    <2>2. C # NoCall /\ room' # NoCall =>
             \A i \in DOMAIN toServer' :
                toServer'[i].op \in HangUps => toServer'[i].call # C
      <3>1. CASE toServer' = toServer
        BY <1>4, <2>1, <3>1
      <3>2. ASSUME NEW r \in Request, toServer' = Append(toServer, r),
                   r.op \in HangUps => room' = NoCall
            PROVE  C # NoCall /\ room' # NoCall =>
                      \A i \in DOMAIN toServer' :
                         toServer'[i].op \in HangUps => toServer'[i].call # C
        <4>1. \A i \in DOMAIN toServer' :
                 \/ \E j \in DOMAIN toServer : toServer'[i] = toServer[j]
                 \/ toServer'[i] = r
          BY <3>2, StepQueues
        <4> QED
          BY <1>4, <2>1, <3>2, <4>1
      <3> QED
        BY <1>5, <3>1, <3>2 DEF Asks
    <2>3. \A i : EndsBetweenNow(C, 0, i) <=> EndsBetween(C, 0, i)
      BY <2>1 DEF EndsBetween, EndsBetweenNow
    <2> QED
      BY <1>4, <2>1, <2>2, <2>3 DEF OrderNow
  <1>6. CASE TakesSilently
    <2>1. UNCHANGED <<ACTIVE_CALL_ID, past, activeCallData, participantUsersList,
                      room, toClient, issued, srvCalls>>
      BY <1>6 DEF TakesSilently, clientVars, callId
    <2>2. \A i \in DOMAIN toServer' :
             \E j \in DOMAIN toServer : toServer'[i] = toServer[j]
      BY <1>6, StepQueues DEF TakesSilently
    <2>3. \A i : EndsBetweenNow(C, 0, i) <=> EndsBetween(C, 0, i)
      BY <2>1 DEF EndsBetween, EndsBetweenNow
    <2> QED
      BY <1>4, <2>1, <2>2, <2>3 DEF OrderNow
  <1>7. ASSUME NEW m \in Reply, Handles(m)
        PROVE  OrderNow
    <2>1. /\ toClient[1] = m /\ 1 \in DOMAIN toClient
          /\ DOMAIN toClient' = 1 .. (Len(toClient) - 1)
          /\ \A i \in DOMAIN toClient' : /\ i + 1 \in DOMAIN toClient /\ i \in Nat
                                         /\ toClient'[i] = toClient[i + 1]
      BY <1>7, TakenQueue DEF Handles, TypeOK
    <2>2. UNCHANGED <<toServer, issued, srvCalls>>
      BY <1>7 DEF Handles
    <2>3. Ends(m) /\ m.call = C =>
             \A i \in DOMAIN toClient' : ~Writes(toClient'[i])
      <3> SUFFICES ASSUME Ends(m), m.call = C, NEW i \in DOMAIN toClient',
                          Writes(toClient'[i])
                   PROVE  FALSE
        OBVIOUS
      <3>1. ~EndsBetween(C, 0, i + 1)
        BY <1>4, <2>1
      <3>2. 0 < 1 /\ 1 < i + 1
        BY <1>1, <2>1
      <3> QED
        BY <2>1, <3>1, <3>2 DEF EndsBetween
    <2>4. CASE Starts(m) /\ SetCall(m.call)
               /\ (room' = m.call \/ (room # NoCall /\ room' = room))
      <3>1. C = NoCall
        <4>1. synced /\ BusyCheck
          BY <1>3 DEF Orderly
        <4>2. C = NoCall \/ EndsBetween(C, 0, 1)
          BY <2>1, <2>4, <4>1 DEF StartsWait
        <4> QED
          BY <1>1, <4>2 DEF EndsBetween
      <3>2. m.call \in issued \ past /\ m.call # NoCall
        BY <1>1, <2>1, <2>4 DEF OfferedOnce
      <3>3. ACTIVE_CALL_ID' = m.call /\ past' = past /\ room' = m.call
        BY <1>4, <2>4, <3>1 DEF SetCall
      <3>4. \A i \in DOMAIN toServer :
               toServer[i].op \in HangUps => toServer[i].call # m.call
        BY <3>1, <3>2 DEF KnownCalls, AboutActive
      <3>5. \A i \in DOMAIN toClient :
               toClient[i].ack /\ toClient[i].op \in HangUps =>
                  toClient[i].call # m.call
        BY <3>1, <3>2 DEF KnownCalls
      <3> QED
        BY <1>4, <2>1, <2>2, <3>1, <3>2, <3>3, <3>4, <3>5 DEF OrderNow
    <2>5. CASE ForgetCall /\ room' = NoCall /\ Ends(m) /\ m.call = C
      <3>1. /\ ACTIVE_CALL_ID' = NoCall /\ past' \subseteq past \cup {C}
            /\ activeCallData' = NoData /\ participantUsersList' = EmptyList
        BY <2>5 DEF ForgetCall, SetCall
      <3>2. C \notin srvCalls
        BY <2>1, <2>5 DEF KnownCalls
      <3> QED
        BY <1>4, <2>2, <2>3, <2>5, <3>1, <3>2 DEF OrderNow
    <2>6. CASE ForgetCall /\ room' = room /\ C = NoCall
      <3>1. /\ ACTIVE_CALL_ID' = NoCall /\ past' = past
            /\ activeCallData' = NoData /\ participantUsersList' = EmptyList
        BY <2>6 DEF ForgetCall, SetCall
      <3> QED
        BY <1>4, <2>1, <2>2, <2>6, <3>1 DEF OrderNow
    <2>7. m.ack /\ Ends(m) /\ m.call = C /\ C # NoCall => room = NoCall
      <3>1. m.ack /\ Ends(m) => m.op \in HangUps
        BY DEF Ends
      <3> QED
        BY <1>4, <2>1, <3>1
    <2>8. CASE /\ ~Starts(m)
               /\ Ends(m) => ~m.ack /\ m.call # C
               /\ UNCHANGED <<callId, room>> /\ WritesAsItMay(m)
      <3>1. ACTIVE_CALL_ID' = C /\ past' = past /\ room' = room
        BY <2>8 DEF callId
      <3>2. C = NoCall => activeCallData' = NoData /\ participantUsersList' = EmptyList
        <4>1. C = NoCall => ~Writes(m)
          BY <1>4, <2>1
        <4>2. m.op \in {"GET_CALL_DATA", "CALL_NEW_PARTICIPANTS"} => m.call # NoCall
          BY <2>1 DEF KnownCalls
        <4> QED
          BY <1>4, <2>8, <4>1, <4>2, EmptyRows DEF WritesAsItMay
      <3>3. ASSUME NEW i \in DOMAIN toClient', EndsBetweenNow(C, 0, i)
            PROVE  EndsBetween(C, 0, i + 1)
        <4>1. PICK j \in DOMAIN toClient' :
                 0 < j /\ j < i /\ Ends(toClient'[j]) /\ toClient'[j].call = C
          BY <3>3 DEF EndsBetweenNow
        <4>2. /\ j + 1 \in DOMAIN toClient /\ 0 < j + 1 /\ j + 1 < i + 1
              /\ toClient[j + 1] = toClient'[j]
          BY <1>1, <2>1, <4>1
        <4> QED
          BY <4>1, <4>2 DEF EndsBetween
      <3> QED
        BY <1>4, <2>1, <2>2, <3>1, <3>2, <3>3 DEF OrderNow
    <2> QED
      BY <1>3, <1>4, <1>7, <2>4, <2>5, <2>6, <2>7, <2>8 DEF Handles, LeaveCall
  <1>8. ASSUME NEW r \in Reply, Tells(r)
        PROVE  OrderNow
    <2>1. UNCHANGED <<ACTIVE_CALL_ID, past, activeCallData, participantUsersList, room>>
      BY <1>8 DEF Tells, callId
    <2>2. past \cap srvCalls' = {}
      BY <1>1, <1>4, <1>8 DEF Tells
    <2>3. \A i \in DOMAIN toServer' :
             \E j \in DOMAIN toServer : toServer'[i] = toServer[j]
      <3>1. CASE toServer' = toServer
        BY <3>1
      <3>2. CASE toServer # <<>> /\ toServer' = Tail(toServer)
        BY <3>2, StepQueues
      <3> QED
        BY <1>8, <3>1, <3>2 DEF Tells
    <2>4. \/ toClient' = toClient
          \/ /\ toClient' = Append(toClient, r)
             /\ DOMAIN toClient' = 1 .. (Len(toClient) + 1)
             /\ \A i \in DOMAIN toClient' :
                   \/ i \in DOMAIN toClient /\ toClient'[i] = toClient[i]
                   \/ i = Len(toClient) + 1 /\ toClient'[i] = r
      BY <1>8, GrownQueue DEF Tells, TypeOK
    <2>5. \/ r.op = "INITIATE_CALL" \/ ~r.ack
          \/ \E i \in DOMAIN toServer : toServer[i].op = r.op /\ toServer[i].call = r.call
      BY <1>8 DEF Tells
    <2>6. r.ack /\ r.op \in HangUps /\ C # NoCall /\ room # NoCall => r.call # C
      BY <1>4, <2>5 DEF HangUps
    <2>7. Writes(r) => C # NoCall /\ r.call = C /\ C \in srvCalls
      <3>1. Writes(r) => r.call \in srvCalls
        BY <1>8 DEF Tells
      <3>2. Writes(r) => r.call \in past \cup {C, NoCall}
        BY <2>5 DEF Writes, KnownCalls, AboutActive
      <3> QED
        BY <1>1, <1>4, <3>1, <3>2
    <2>8. C \in srvCalls => \A j \in DOMAIN toClient : Ends(toClient[j]) => toClient[j].call # C
      BY DEF KnownCalls
    <2>9. ASSUME NEW i \in DOMAIN toClient', Writes(toClient'[i])
          PROVE  /\ C # NoCall /\ toClient'[i].call = C
                 /\ ~EndsBetweenNow(C, 0, i)
      <3>1. CASE i \in DOMAIN toClient /\ toClient'[i] = toClient[i]
        <4>1. EndsBetweenNow(C, 0, i) => EndsBetween(C, 0, i)
          BY <1>1, <2>4, <3>1 DEF EndsBetween, EndsBetweenNow
        <4> QED
          BY <1>4, <2>9, <3>1, <4>1
      <3>2. CASE i = Len(toClient) + 1 /\ toClient'[i] = r
        BY <1>1, <2>4, <2>7, <2>8, <2>9, <3>2 DEF EndsBetweenNow
      <3> QED
        BY <2>4, <3>1, <3>2
    <2>10. C # NoCall /\ room # NoCall =>
              \A i \in DOMAIN toClient' :
                 toClient'[i].ack /\ toClient'[i].op \in HangUps =>
                    toClient'[i].call # C
      BY <1>4, <2>4, <2>6
    <2> QED
      BY <1>4, <2>1, <2>2, <2>3, <2>9, <2>10 DEF OrderNow
  <1> QED
    BY <1>1, <1>3, <1>5, <1>6, <1>7, <1>8, StepOrder

-----------------------------------------------------------------------------
(* The theorems.                                                           *)

\* The whole inductive invariant.
LEMMA OrderInvariant ==
    Spec => [](TypeOK /\ OfferedOnce /\ StartsWait /\ OrderInv)
  <1>1. Init => EndInFlight
    BY DEF Init, EndInFlight
  <1>2. Init => KnownCalls /\ StartsWait /\ OrderInv
    <2> SUFFICES ASSUME Init
                 PROVE  KnownCalls /\ StartsWait /\ OrderInv
      OBVIOUS
    <2>1. DOMAIN toClient = {} /\ DOMAIN toServer = {}
      BY DEF Init
    <2> QED
      BY <2>1 DEF Init, KnownCalls, StartsWait, OrderInv, RoomServesCurrentCall, IdleIsClean,
                  LeftIsOver, HangUpClosesRoom, WritesInTime
  <1>3. Spec => []EndInFlight
    BY <1>1, EndStep, TypeCorrect, PTL DEF Spec
  <1>4. Spec => []KnownCalls
    BY <1>2, KnownStep, OfferInvariant, PTL DEF Spec
  <1>5. Spec => []StartsWait
    BY <1>2, <1>3, <1>4, StartsStep, OfferInvariant, PTL DEF Spec
  <1> QED
    BY <1>2, <1>3, <1>4, <1>5, OrderStep, OfferInvariant, PTL DEF Spec

\* Without losses and late hang-ups, the room that is open is the room of the
\* active call: the hang-up, which closes the room, and its Ack, which ends
\* the call, are of one call, and OnCallRequest finds no room left over.
THEOREM RoomOfTheCall == Spec => []RoomServesCurrentCall
  BY OrderInvariant, PTL DEF OrderInv

\* Without losses and late hang-ups nothing is left between calls: no Ack of
\* accept, add or isCallActive writes after the end of its call.
THEOREM CleanBetweenCalls == Spec => []IdleIsClean
  BY OrderInvariant, PTL DEF OrderInv

\* While nothing is lost, a call begins in a state without a call.
LEMMA StartsWhenIdle ==
    ASSUME TypeOK, StartsWait, synced, BusyCheck,
           NEW m \in Reply, Takes(m), Starts(m)
    PROVE  ACTIVE_CALL_ID = NoCall
  <1>1. 1 \in DOMAIN toClient /\ toClient[1] = m
    BY TailQueue DEF Takes
  <1>2. ACTIVE_CALL_ID = NoCall \/ EndsBetween(ACTIVE_CALL_ID, 0, 1)
    BY <1>1 DEF StartsWait
  <1>3. \A i \in DOMAIN toClient : i \in Nat
    BY QueueEntries DEF TypeOK
  <1> QED
    BY <1>2, <1>3 DEF EndsBetween

\* The active call is given up before another is taken up: the Ack of
\* initiateCall and OnCallRequest overwrite no call, although they check none.
THEOREM NoCallReplaced == Spec => CallNeverReplaced
  <1>1. TypeOK /\ StartsWait /\ [Next]_vars =>
           [synced /\ BusyCheck /\ ACTIVE_CALL_ID # NoCall
              => ACTIVE_CALL_ID' \in {ACTIVE_CALL_ID, NoCall}]_vars
    <2> SUFFICES ASSUME TypeOK, StartsWait, [Next]_vars,
                        synced, BusyCheck, ACTIVE_CALL_ID # NoCall
                 PROVE  ACTIVE_CALL_ID' \in {ACTIVE_CALL_ID, NoCall}
      OBVIOUS
    <2>1. ASSUME NEW m \in Reply, Takes(m)
          PROVE  ACTIVE_CALL_ID' \in {ACTIVE_CALL_ID, NoCall}
      BY <2>1, StartsWhenIdle DEF Takes, SetCall, callId
    <2> QED
      BY <2>1, StepKind DEF Quiet, Loses, Sends, SetCall, callId
  <1> QED
    BY <1>1, OrderInvariant, PTL DEF Spec, CallNeverReplaced

=============================================================================
