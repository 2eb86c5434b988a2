------------------------------ MODULE OfflineSync ------------------------------
(***************************************************************************)
(* Login, connection and the synchronisation that follows every new access *)
(* token: the flag that holds synchronisation back while a registration is *)
(* in progress, and the queues of what the user did while disconnected.    *)
(*                                                                         *)
(* Operations are the app's calls, on its own threads.  Acks and events    *)
(* run on the socket's event thread, in order.  A synchronisation run is a *)
(* coroutine: it reads one queue after another and is suspended in the     *)
(* middle by a REST request, which may outlast the connection, and, since  *)
(* nothing cancels it, a logout.                                           *)
(*                                                                         *)
(* Queues are preferences and survive the process; the flag, the socket    *)
(* and the runs do not.  What the queues hold is the number of the         *)
(* operation that put it there.                                            *)
(***************************************************************************)
EXTENDS Naturals, Sequences, FiniteSets, SequencesExt

CONSTANTS
    Runs,           \* synchronisation coroutines that may exist at a time
    Ops,            \* operations of the app that are explored
    MaxOps,         \* bound on operations
    MaxDisconnects, \* bound on lost connections
    MaxRestarts,    \* bound on ends of the process
    MaxLogins       \* bound on logouts

AllOps == {"read", "deleteMessages", "viewStory", "deleteStory",
           "archive", "unarchive", "message", "block", "unblock"}

ASSUME OpsAssumption == Ops \subseteq AllOps
ASSUME SyncBoundsAssumption ==
    MaxOps \in Nat /\ MaxDisconnects \in Nat /\ MaxRestarts \in Nat /\ MaxLogins \in Nat

VARIABLES
    isRegisterIsInProcessing,
    loggedIn,       \* TM_USER_LOGIN_STATUS
    callRegistered, \* CALL_SDK_REGISTER_STATUS
    registering,    \* "no", "register" or "contacts": the REST answer awaited
    callRegistering,
    fetching,       \* the first fetch of all messages, until they are stored
    socket,         \* messengerSocket # null
    link,           \* "down", "open": connected, "ready": CLIENT_IS_CONNECTED
    queue,          \* the preferences, by name
    run,            \* the step each run is at, 0: none
    out,            \* what was emitted and not taken by the server
    acks,           \* Acks under way
    orphans,        \* queues an Ack on a socket of before a logout may empty
    told,           \* what the server was told
    asked,          \* history: the operations
    put,            \* history: what was put in which queue
    outlived,       \* history: a run or an Ack outlived its connection
    early,          \* history: a message came during the first fetch
    held,           \* history: the flag held back the latest synchronisation
    losses          \* disconnections, restarts and logouts so far

account == <<loggedIn, callRegistered, registering, callRegistering, fetching>>
transport == <<out, acks, orphans, told>>
history == <<asked, put, outlived, early, held, losses>>
vars == <<isRegisterIsInProcessing, account, socket, link, queue, run,
          transport, history>>

Queues == {"reads", "deletions", "views", "storyDeletions",
           "archives", "unarchives", "blocks", "unblocks"}
PerElement == {"deletions", "views"}
Batched == {"storyDeletions", "archives", "unarchives", "blocks", "unblocks"}

\* The queue each operation uses, when offline.
QueueOf(op) ==
    CASE op = "read" -> "reads" [] op = "deleteMessages" -> "deletions"
      [] op = "viewStory" -> "views" [] op = "deleteStory" -> "storyDeletions"
      [] op = "archive" -> "archives" [] op \in {"block", "unblock"} -> "unblocks"
      [] OTHER -> "unarchives"

\* The steps of syncData, in its order; "local" stands for syncLocalMessages.
SyncSteps == <<"reads", "clearReads", "local", "deletions", "stories", "views",
               "storyDeletions", "archives", "unarchives", "blocks", "unblocks">>

\* The steps of queues that no operation of Ops uses do nothing: passed over.
Passed == {i \in DOMAIN SyncSteps :
             SyncSteps[i] \in Queues \ ({"reads"} \cup {QueueOf(op) : op \in Ops})}
After(i) ==
    LET later == {j \in DOMAIN SyncSteps \ Passed : j > i}
    IN  IF later = {} THEN 0 ELSE Min(later)

Numbers == 1 .. MaxOps
Packets == {p \in [kind : Queues, ns : SUBSET Numbers, ack : BOOLEAN] :
              p.ack => p.kind \in PerElement \cup Batched}
Packet(k, ns, a) == [kind |-> k, ns |-> ns, ack |-> a]
Entries(k) == Range(queue[k])

TypeOK ==
    /\ {isRegisterIsInProcessing, loggedIn, callRegistered, callRegistering,
        fetching, socket, outlived, early, held} \subseteq BOOLEAN
    /\ registering \in {"no", "register", "contacts"}
    /\ link \in {"down", "open", "ready"}
    /\ queue \in [Queues -> Seq(Numbers)]
    /\ run \in [Runs -> 0 .. Len(SyncSteps)]
    /\ out \in Seq(Packets) /\ acks \in Seq(PerElement \cup Batched)
    /\ orphans \subseteq Queues
    /\ {told, put} \subseteq SUBSET (Queues \X Numbers)
    /\ asked \in Seq(Ops)
    /\ losses \in [disconnects : 0 .. MaxDisconnects, restarts : 0 .. MaxRestarts,
                   logouts : 0 .. MaxLogins]

EmptyQueues == [k \in Queues |-> <<>>]
Idle == [r \in Runs |-> 0]

\* A fresh installation, or one whose user has logged in before, with or
\* without the registration for calls.
Init ==
    /\ isRegisterIsInProcessing = FALSE
    /\ loggedIn \in BOOLEAN /\ callRegistered \in BOOLEAN
    /\ callRegistered => loggedIn
    /\ registering = "no" /\ callRegistering = FALSE /\ fetching = FALSE
    /\ socket = FALSE /\ link = "down"
    /\ queue = EmptyQueues /\ run = Idle
    /\ out = <<>> /\ acks = <<>> /\ orphans = {} /\ told = {}
    /\ asked = <<>> /\ put = {} /\ outlived = FALSE /\ early = FALSE
    /\ held = FALSE
    /\ losses = [disconnects |-> 0, restarts |-> 0, logouts |-> 0]

-----------------------------------------------------------------------------
(* The end of the process: memory is lost, preferences stay.               *)

Killed ==
    /\ isRegisterIsInProcessing' = FALSE
    /\ registering' = "no" /\ callRegistering' = FALSE /\ fetching' = FALSE
    /\ socket' = FALSE /\ link' = "down" /\ run' = Idle
    /\ out' = <<>> /\ acks' = <<>> /\ orphans' = {}
    /\ losses' = [losses EXCEPT !.restarts = @ + 1]

Restart ==
    /\ losses.restarts < MaxRestarts
    /\ Killed
    /\ UNCHANGED <<loggedIn, callRegistered, queue, told, asked, put, outlived, early, held>>

-----------------------------------------------------------------------------
(* Registration.                                                           *)

\* messengerSocketInitialize: the first call creates the socket, and registers
\* for calls unless that was done before.
InitializeSocket ==
    /\ socket' = TRUE
    /\ callRegistering' = (callRegistering \/ (~socket /\ ~callRegistered))

\* runTheClientSdk: register, or startListening for a user logged in before.
RunTheClientSdk ==
    IF loggedIn
      THEN /\ InitializeSocket
           /\ isRegisterIsInProcessing' =
                (isRegisterIsInProcessing \/ (~socket /\ ~callRegistered))
           /\ UNCHANGED registering
      ELSE /\ registering = "no" /\ registering' = "register"
           /\ isRegisterIsInProcessing' = TRUE
           /\ UNCHANGED <<socket, callRegistering>>

AppStarts ==
    /\ ~socket /\ registering = "no"
    /\ RunTheClientSdk
    /\ UNCHANGED <<loggedIn, callRegistered, fetching, link, queue, run, transport, history>>

\* register, from the answer of registerTm on: any failure leaves the flag.
RegisterAnswer(ok) ==
    /\ registering = "register"
    /\ IF ok THEN /\ loggedIn' = TRUE /\ registering' = "contacts"
             ELSE registering' = "no" /\ UNCHANGED loggedIn
    /\ UNCHANGED <<isRegisterIsInProcessing, callRegistered, callRegistering, fetching,
                   socket, link, queue, run, transport, history>>

\* The contacts: "refused" fetches nothing, "throws" does not connect either.
ContactsAnswer(how) ==
    /\ registering = "contacts" /\ registering' = "no"
    /\ fetching' = (fetching \/ how = "ok")
    /\ IF how = "throws"
         THEN UNCHANGED <<socket, callRegistering, isRegisterIsInProcessing>>
         ELSE /\ InitializeSocket
              /\ isRegisterIsInProcessing' =
                   (isRegisterIsInProcessing \/ (~socket /\ ~callRegistered))
    /\ UNCHANGED <<loggedIn, callRegistered, link, queue, run, transport, history>>

\* fetchAllMessages: the flag is cleared by a refusal, or at the end of
\* messageInsertOrUpdate; an answer without messages leaves it.
FetchAnswer(how) ==
    /\ fetching /\ fetching' = FALSE
    /\ isRegisterIsInProcessing' = (isRegisterIsInProcessing /\ how = "none")
    /\ UNCHANGED <<loggedIn, callRegistered, registering, callRegistering, socket,
                   link, queue, run, transport, history>>

\* callRegister: the flag it set stays set.
CallRegisterAnswer(ok) ==
    /\ callRegistering /\ callRegistering' = FALSE
    /\ callRegistered' = (callRegistered \/ ok)
    /\ UNCHANGED <<isRegisterIsInProcessing, loggedIn, registering, fetching, socket,
                   link, queue, run, transport, history>>

\* A message event: the thread of messageInsertOrUpdate ends by clearing the
\* flag, whatever it was set for.
MessageStored ==
    /\ link # "down" /\ isRegisterIsInProcessing
    /\ isRegisterIsInProcessing' = FALSE
    /\ early' = (early \/ fetching)
    /\ UNCHANGED <<account, socket, link, queue, run, transport, asked, put, outlived, held, losses>>

\* logout: the socket is not closed, only its listeners are removed, and
\* neither the runs nor the flag are touched.  Without a call socket it throws
\* before the preferences are cleared.
Logout ==
    /\ loggedIn /\ socket /\ losses.logouts < MaxLogins
    /\ IF callRegistered
         THEN /\ socket' = FALSE /\ link' = "down"
              /\ loggedIn' = FALSE /\ callRegistered' = FALSE
              /\ queue' = EmptyQueues /\ put' = {}
              /\ orphans' = orphans \cup Range(acks)
                              \cup {p.kind : p \in {q \in Range(out) : q.ack}}
              /\ out' = <<>> /\ acks' = <<>>
              /\ outlived' = (outlived \/ run # Idle \/ orphans' # {})
              /\ losses' = [losses EXCEPT !.logouts = @ + 1]
              /\ UNCHANGED <<isRegisterIsInProcessing, registering, callRegistering,
                             fetching, run, told, asked, early, held>>
         ELSE /\ losses.restarts < MaxRestarts
              /\ Killed
              /\ UNCHANGED <<loggedIn, callRegistered, queue, told, asked, put,
                             outlived, early, held>>

-----------------------------------------------------------------------------
(* The connection.                                                         *)

Connect ==
    /\ socket /\ link = "down" /\ link' = "open"
    /\ UNCHANGED <<isRegisterIsInProcessing, account, socket, queue, run, transport, history>>

\* Mutant of SyncData: the flag is not looked at.
SyncAtOnce(r) == held' = FALSE /\ run' = [run EXCEPT ![r] = 1]

\* syncData.
SyncData(r) ==
    /\ held' = isRegisterIsInProcessing
    /\ run' = IF isRegisterIsInProcessing THEN run ELSE [run EXCEPT ![r] = 1]

\* messengerSocketOnAccessToken.
AccessToken ==
    /\ link = "open" /\ link' = "ready"
    /\ IF loggedIn THEN \E r \in Runs : run[r] = 0 /\ SyncData(r)
       ELSE UNCHANGED <<run, held>>
    /\ UNCHANGED <<isRegisterIsInProcessing, account, socket, queue, transport,
                   asked, put, outlived, early, losses>>

\* What was emitted and not delivered is lost, and so are the Acks.
Disconnect ==
    /\ link # "down" /\ losses.disconnects < MaxDisconnects
    /\ link' = "down" /\ out' = <<>> /\ acks' = <<>>
    /\ outlived' = (outlived \/ run # Idle)
    /\ losses' = [losses EXCEPT !.disconnects = @ + 1]
    /\ UNCHANGED <<isRegisterIsInProcessing, account, socket, queue, run, orphans, told,
                   asked, put, early, held>>

ServerTakes ==
    /\ link # "down" /\ out # <<>>
    /\ LET p == Head(out) IN
         /\ told' = told \cup ({p.kind} \X p.ns)
         /\ acks' = IF p.ack THEN Append(acks, p.kind) ELSE acks
    /\ out' = Tail(out)
    /\ UNCHANGED <<isRegisterIsInProcessing, account, socket, link, queue, run, orphans, history>>

Emptied(k) == queue' = [queue EXCEPT ![k] = <<>>]

\* Mutant of Ack: an entry that names nothing is left behind.
AckLeavesZero ==
    /\ link # "down" /\ acks # <<>>
    /\ acks' = Tail(acks) /\ queue' = [queue EXCEPT ![Head(acks)] = <<0>>]
    /\ UNCHANGED <<isRegisterIsInProcessing, account, socket, link, run, out, orphans,
                   told, history>>

\* The Ack of any packet of a queue empties the whole queue.
Ack ==
    /\ link # "down" /\ acks # <<>>
    /\ acks' = Tail(acks) /\ Emptied(Head(acks))
    /\ UNCHANGED <<isRegisterIsInProcessing, account, socket, link, run, out, orphans,
                   told, history>>

\* The same Ack, on the socket of before a logout.
OrphanAck(k) ==
    /\ k \in orphans /\ orphans' = orphans \ {k} /\ Emptied(k)
    /\ UNCHANGED <<isRegisterIsInProcessing, account, socket, link, run, out, acks,
                   told, history>>

-----------------------------------------------------------------------------
(* What the user does.                                                     *)

EventOf(op) == IF op = "block" THEN "blocks" ELSE QueueOf(op)

\* archive, unarchive and read look at the socket, the others at
\* CLIENT_IS_CONNECTED.
Online(op) == link = "ready" \/ (link = "open" /\ op \in {"archive", "unarchive", "read"})

\* Mutant of Queued: every operation replaces what its queue holds.
QueuedAlone(op, n) ==
    CASE op = "unarchive" -> queue
      [] OTHER -> [queue EXCEPT ![QueueOf(op)] = <<n>>]

\* Offline: archive replaces the queue, unarchive writes a preference that
\* nothing reads, block is put among the users to unblock.
Queued(op, n) ==
    CASE op = "archive" -> [queue EXCEPT !["archives"] = <<n>>]
      [] op = "unarchive" -> queue
      [] OTHER -> [queue EXCEPT ![QueueOf(op)] = Append(@, n)]

Operate(op) ==
    LET n == Len(asked) + 1
    IN /\ loggedIn /\ n <= MaxOps
       /\ asked' = Append(asked, op)
       /\ IF Online(op)
            THEN /\ out' = Append(out, Packet(EventOf(op), {n}, FALSE))
                 /\ UNCHANGED <<queue, put>>
            ELSE /\ queue' = Queued(op, n)
                 /\ put' = put \cup {e \in Queues \X {n} : n \in Range(queue'[e[1]])}
                 /\ UNCHANGED out
       /\ UNCHANGED <<isRegisterIsInProcessing, account, socket, link, run, acks, orphans,
                      told, outlived, early, held, losses>>

-----------------------------------------------------------------------------
(* One run of the synchronisation.                                         *)

At(r, step) == run[r] # 0 /\ SyncSteps[run[r]] = step

\* n steps on, or the end.
Forward(r, n) == run' = [run EXCEPT ![r] = After(@ + n - 1)]

EachOf(k, ack) == [i \in 1 .. Len(queue[k]) |-> Packet(k, {queue[k][i]}, ack)]

\* messengerSocket!!.emit, with the process at its end if there is no socket.
EmitAll(r, ps, n) ==
    IF socket \/ ps = <<>>
      THEN /\ out' = out \o ps /\ Forward(r, n)
           /\ UNCHANGED <<isRegisterIsInProcessing, registering, callRegistering, fetching,
                          socket, link, acks, orphans, losses>>
      ELSE losses.restarts < MaxRestarts /\ Killed

\* Mutant of SyncReads: the loop returns after its first entry.
SyncOneRead(r) ==
    /\ At(r, "reads")
    /\ EmitAll(r, SelectSeq(EachOf("reads", FALSE), LAMBDA p : Head(queue["reads"]) \in p.ns),
                  IF queue["reads"] = <<>> THEN 2 ELSE 1)
    /\ UNCHANGED <<loggedIn, callRegistered, queue, told, asked, put, outlived, early, held>>

\* syncOfflineReadMessages: one event for each entry, none of them with an Ack;
SyncReads(r) ==
    /\ At(r, "reads")
    /\ EmitAll(r, EachOf("reads", FALSE), IF queue["reads"] = <<>> THEN 2 ELSE 1)
    /\ UNCHANGED <<loggedIn, callRegistered, queue, told, asked, put, outlived, early, held>>

\* then the queue is emptied, with what was added since.
ClearReads(r) ==
    /\ At(r, "clearReads") /\ Emptied("reads") /\ Forward(r, 1)
    /\ UNCHANGED <<isRegisterIsInProcessing, account, socket, link, transport, history>>

\* syncLocalMessages emits even when there is nothing to send; the messages
\* themselves are in Messages.
SyncLocal(r) ==
    /\ At(r, "local")
    /\ IF socket
         THEN /\ Forward(r, 1)
              /\ UNCHANGED <<isRegisterIsInProcessing, registering, callRegistering,
                             fetching, socket, link, out, acks, orphans, losses>>
         ELSE losses.restarts < MaxRestarts /\ Killed
    /\ UNCHANGED <<loggedIn, callRegistered, queue, told, asked, put, outlived, early, held>>

\* syncStories: the run is suspended until the REST request ends, however.
SyncStories(r) ==
    /\ At(r, "stories") /\ Forward(r, 1)
    /\ UNCHANGED <<isRegisterIsInProcessing, account, socket, link, queue, transport, history>>

\* syncLocallyDeletedMessages, syncLocallyViewedStories.
SyncEach(r, k) ==
    /\ At(r, k) /\ EmitAll(r, EachOf(k, TRUE), 1)
    /\ UNCHANGED <<loggedIn, callRegistered, queue, told, asked, put, outlived, early, held>>

\* Mutant of SyncBatch: no Ack is asked for.
SyncUnheard(r, k) ==
    /\ At(r, k)
    /\ EmitAll(r, IF queue[k] = <<>> THEN <<>> ELSE <<Packet(k, Entries(k), FALSE)>>, 1)
    /\ UNCHANGED <<loggedIn, callRegistered, queue, told, asked, put, outlived, early, held>>

\* syncLocallyDeletedStories, syncLocallyArchivedChats, and the three after it.
SyncBatch(r, k) ==
    /\ At(r, k)
    /\ EmitAll(r, IF queue[k] = <<>> THEN <<>> ELSE <<Packet(k, Entries(k), TRUE)>>, 1)
    /\ UNCHANGED <<loggedIn, callRegistered, queue, told, asked, put, outlived, early, held>>

RunStep(r) ==
    \/ SyncReads(r) \/ ClearReads(r) \/ SyncLocal(r) \/ SyncStories(r)
    \/ \E k \in PerElement : SyncEach(r, k)
    \/ \E k \in Batched : SyncBatch(r, k)

-----------------------------------------------------------------------------

Answers ==
    \/ \E ok \in BOOLEAN : RegisterAnswer(ok) \/ CallRegisterAnswer(ok)
    \/ \E how \in {"ok", "refused", "throws"} : ContactsAnswer(how)
    \/ \E how \in {"messages", "none", "refused"} : FetchAnswer(how)

Next ==
    \/ AppStarts \/ Logout \/ Restart
    \/ Answers \/ MessageStored
    \/ Connect \/ AccessToken \/ Disconnect
    \/ ServerTakes \/ Ack \/ \E k \in Queues : OrphanAck(k)
    \/ \E op \in Ops : Operate(op)
    \/ \E r \in Runs : RunStep(r)

\* The app starts the library; the socket reconnects by itself; the server
\* issues tokens, takes what is sent and acknowledges it; runs go on.  Nothing
\* is promised of the answers to a registration.
Fairness ==
    /\ WF_vars(AppStarts) /\ WF_vars(Connect) /\ WF_vars(AccessToken)
    /\ WF_vars(ServerTakes) /\ WF_vars(Ack)
    /\ \A r \in Runs : WF_vars(RunStep(r))

Spec == Init /\ [][Next]_vars /\ Fairness

-----------------------------------------------------------------------------
(* Properties.                                                             *)

\* The queues that grow while the device is disconnected and are emptied by one
\* Ack for all their entries.
Reliable == {"storyDeletions", "unarchives", "unblocks"}

\* What was put in such a queue is in it until the server knows it, through
\* disconnections and restarts, unless a run or an Ack outlived its connection:
\* then an Ack for the entries of before empties the queue of later ones too.
NothingLost ==
    ~outlived =>
        \A e \in put : e[1] \in Reliable => e[2] \in Entries(e[1]) \/ e \in told

\* The other queues are emptied too early: read receipts without any Ack, and
\* deletions and views by the first Ack, with the others still on their way.
\* What was in them reaches the server where no connection is lost.
LostOnlyByCuts ==
    losses.disconnects = 0 /\ losses.restarts = 0 /\ ~outlived =>
        \A e \in put : e[1] \in {"reads", "deletions", "views"} =>
            \/ e[2] \in Entries(e[1]) \/ e \in told
            \/ \E p \in Range(out) : p.kind = e[1] /\ e[2] \in p.ns

\* What the flag is for: no synchronisation run while the first fetch of all
\* messages is under way.  A message that arrives meanwhile opens the gate
\* early, and a run of before a logout is not held back.
FirstFetchAlone == fetching /\ run # Idle => early \/ outlived

\* A queue that holds something is emptied at last, whatever connections are
\* lost on the way, where the registration gets as far as the socket and the
\* flag does not hold back the last synchronisation: nothing makes up for one
\* that was held back.
QueuesDrain ==
    <>[](loggedIn /\ socket /\ ~held) =>
        \A k \in {QueueOf(op) : op \in Ops} : queue[k] # <<>> ~> queue[k] = <<>>

\* blockUser tells the server to block, and never the opposite: the server is
\* told to unblock only where the app asked it.  (KDoc of blockUser.)
UnblocksAreAsked ==
    \A n \in Numbers : <<"unblocks", n>> \in told => asked[n] = "unblock"

=============================================================================
