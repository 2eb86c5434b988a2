------------------------------- MODULE Messages -------------------------------
(***************************************************************************)
(* The table of messages, and everything that writes it.                   *)
(*                                                                         *)
(*   - The user's thread inserts a row for what is sent, asks for the last *)
(*     local id in a second query and sends the text under that reference; *)
(*     deleting removes the row and tells the server, or queues it.        *)
(*   - The event thread starts a thread for every packet of messages and   *)
(*     writes delivery and recall itself.                                  *)
(*   - Each of those threads looks for the row of a message, stores it, and *)
(*     acknowledges it, one message after the other.                       *)
(*   - A synchronisation, begun by each access token, asks for what is     *)
(*     missing by REST and meanwhile sends what is not: unsent messages,   *)
(*     deletions, receipts.                                                *)
(*                                                                         *)
(* A message id is its place in srv.  A local id is never used again.  The *)
(* fields delivered and read, and the statuses recalled and edited, are    *)
(* reduced to seen and recalled.  OfflineSync models when a               *)
(* synchronisation runs at all.                                            *)
(***************************************************************************)
EXTENDS Naturals, Sequences, FiniteSets, Functions

CONSTANTS
    Own,            \* the texts the user may send, each at most once
    Others,         \* the texts the others may send
    Threads,        \* threads that may handle messages at a time
    None,           \* no text
    MaxUpsets,      \* bound on lost connections, ends of the process, failed requests,
                    \* deletions, and changes by the others, together
    MaxInbox        \* packets under way up to which the others act

ASSUME TextsAssumption == Own \cap Others = {} /\ None \notin Own \cup Others
ASSUME MessageBoundsAssumption ==
    MaxUpsets \in Nat /\ MaxInbox \in Nat \ {0}

VARIABLES
    rows,       \* the chat table
    nextId,     \* the next local id
    deletions,  \* OFFLINE_DELETED_MESSAGES
    link,       \* "down" or "ready": CLIENT_IS_CONNECTED
    writing,    \* the text whose row is inserted and whose id is not read yet
    sync,       \* the step of the synchronisation, "none": none
    fetches,    \* REST requests under way, each by the last message id it told
    threads,    \* what each thread has to handle, and how far it is
    out, inbox, \* packets to and from the server
    srv,        \* the messages of the server
    typed,      \* history: the texts sent
    removed,    \* history: the texts deleted
    restless,   \* history: those of them the server could still send
    hurt,       \* history: a request failed, or was killed with its thread
    crossed,    \* history: a text was sent under the reference of another row
    shared,     \* history: messages two threads handled at a time
    raced,      \* history: messages changed while a thread handled them
    upsets      \* what counts towards MaxUpsets so far

store == <<rows, nextId, deletions>>
wire == <<out, inbox>>
history == <<typed, removed, restless, hurt, crossed, shared, raced, upsets>>
vars == <<store, link, writing, sync, fetches, threads, wire, srv, history>>

Texts == Own \cup Others
Ids == Nat \ {0}
LocalIds == Nat \ {0}
Rows == [id : LocalIds, mid : Nat, text : Texts,
         synced : BOOLEAN, seen : BOOLEAN, recalled : BOOLEAN]
Messages == [mid : Ids, text : Texts, ref : Nat, seen : BOOLEAN, recalled : BOOLEAN]
Entries == [text : Texts, ref : Nat, seen : BOOLEAN, recalled : BOOLEAN, deleted : BOOLEAN]
Outgoing == [type : {"SEND"}, list : Seq([ref : Nat, text : Own])]
            \cup [type : {"DELIVERED", "RECALL", "DELETE", "SYNC_DELETE"}, list : Seq(Nat)]
Incoming == [type : {"MESSAGES"}, list : Seq(Messages)]
            \cup [type : {"DELIVERED", "RECALL", "DELETE", "SYNC_DELETE"}, list : Seq(Nat)]

TypeOK ==
    /\ rows \subseteq Rows /\ IsFiniteSet(rows) /\ nextId \in LocalIds
    /\ \A r1, r2 \in rows : r1.id < nextId /\ (r1.id = r2.id => r1 = r2)
    /\ deletions \subseteq Nat /\ IsFiniteSet(deletions)
    /\ link \in {"down", "ready"} /\ writing \in Own \cup {None}
    /\ sync \in {"none", "local", "rest"}
    /\ fetches \subseteq Nat
    /\ threads \in [Threads -> [todo : Seq(Messages), step : {"look", "store", "tell"},
                                target : Nat]]
    /\ out \in Seq(Outgoing) /\ inbox \in Seq(Incoming) /\ srv \in Seq(Entries)
    /\ typed \subseteq Own /\ restless \subseteq removed /\ removed \subseteq Texts
    /\ {hurt, crossed} \subseteq BOOLEAN /\ shared \cup raced \subseteq Ids
    /\ upsets \in 0 .. MaxUpsets

Resting == [todo |-> <<>>, step |-> "look", target |-> 0]

Init ==
    /\ rows = {} /\ nextId = 1 /\ deletions = {}
    /\ link = "down" /\ writing = None /\ sync = "none" /\ fetches = {}
    /\ threads = [th \in Threads |-> Resting]
    /\ out = <<>> /\ inbox = <<>> /\ srv = <<>>
    /\ typed = {} /\ removed = {} /\ restless = {} /\ hurt = FALSE /\ crossed = FALSE
    /\ shared = {} /\ raced = {}
    /\ upsets = 0

Upset == upsets < MaxUpsets /\ upsets' = upsets + 1

-----------------------------------------------------------------------------
(* Queries.                                                                *)

\* A finite set of numbers, the smallest first.
InOrder(S) ==
    CHOOSE f \in [1 .. Cardinality(S) -> S] : \A i, j \in DOMAIN f : i < j => f[i] < f[j]

LastOf(S) == CHOOSE n \in S \cup {0} : \A k \in S : k <= n
LastLocalId == LastOf({r.id : r \in rows})
LastMessageId == LastOf({r.mid : r \in rows})
HasRow(mid) == \E r \in rows : r.mid = mid

\* The rows after those with message ids in mids are marked.
MarkSeen(mids) ==
    {IF r.mid \in mids THEN [r EXCEPT !.synced = TRUE, !.seen = TRUE] ELSE r : r \in rows}
MarkRecalled(mids) ==
    {IF r.mid \in mids THEN [r EXCEPT !.recalled = TRUE] ELSE r : r \in rows}

\* Mutant of RowOf: the local id is the id of the message.
RowByMessageId(id, s) == [id |-> s.mid, mid |-> s.mid, text |-> s.text, synced |-> TRUE,
                          seen |-> s.seen, recalled |-> s.recalled]

\* The row stored: whatever the table said of the message is replaced.
RowOf(id, s) == [id |-> id, mid |-> s.mid, text |-> s.text, synced |-> TRUE,
                 seen |-> s.seen, recalled |-> s.recalled]

Packet(t, l) == [type |-> t, list |-> l]
Message(s, i) == [mid |-> i, text |-> s[i].text, ref |-> s[i].ref,
                  seen |-> s[i].seen, recalled |-> s[i].recalled]
Handled(th) == {threads[th].todo[i].mid : i \in DOMAIN threads[th].todo}
AllHandled == UNION {Handled(th) : th \in Threads}

-----------------------------------------------------------------------------
(* What the user does.                                                     *)

\* sendTextMessage up to insertMessage.
Write(t) ==
    /\ writing = None /\ t \in Own \ typed
    /\ rows' = rows \cup {[id |-> nextId, mid |-> 0, text |-> t, synced |-> FALSE,
                           seen |-> FALSE, recalled |-> FALSE]}
    /\ nextId' = nextId + 1 /\ writing' = t /\ typed' = typed \cup {t}
    /\ UNCHANGED <<deletions, link, sync, fetches, threads, wire, srv, removed, restless, hurt,
                   crossed, shared, raced, upsets>>

\* Mutant of Send: the reference does not name the row.
SendUnnamed ==
    /\ writing # None /\ writing' = None
    /\ out' = IF link = "ready" THEN Append(out, Packet("SEND", <<[ref |-> nextId, text |-> writing]>>))
                                ELSE out
    /\ UNCHANGED <<store, link, sync, fetches, threads, inbox, srv, history>>

\* The rest of it: the last local id is read, and the text sent if connected.
Send ==
    /\ writing # None /\ writing' = None
    /\ out' = IF link = "ready"
                THEN Append(out, Packet("SEND", <<[ref |-> LastLocalId, text |-> writing]>>))
                ELSE out
    /\ crossed' = (crossed \/ (link = "ready" /\ \A r \in rows : r.text = writing => r.id # LastLocalId))
    /\ UNCHANGED <<store, link, sync, fetches, threads, inbox, srv, typed, removed, restless, hurt,
                   shared, raced, upsets>>

InInbox(i) == \E k \in DOMAIN inbox :
                \/ inbox[k].type = "MESSAGES" /\ \E j \in DOMAIN inbox[k].list : inbox[k].list[j].mid = i
                \/ inbox[k].type # "MESSAGES" /\ i \in Range(inbox[k].list)

\* Row r is the only one of its message, nothing under way could bring another, and
\* the server is told.
Settled(r) == /\ link = "ready" /\ r.mid # 0 /\ r.mid \notin AllHandled \cup shared
              /\ ~InInbox(r.mid)
              /\ fetches = {} /\ \A k \in DOMAIN out : out[k].type # "SEND"

\* Mutant of DeleteMessage: the server is not told.
DeleteHereOnly(r) ==
    /\ writing = None /\ Upset
    /\ rows' = rows \ {r} /\ removed' = removed \cup {r.text}
    /\ restless' = IF Settled(r) THEN restless ELSE restless \cup {r.text}
    /\ UNCHANGED <<nextId, deletions, link, writing, sync, fetches, threads, wire, srv, typed,
                   hurt, crossed, shared, raced>>

\* deleteMessages.  A message that has no id yet is deleted under the id 0.
DeleteMessage(r) ==
    /\ writing = None /\ Upset
    /\ rows' = rows \ {r} /\ removed' = removed \cup {r.text}
    /\ restless' = IF Settled(r) THEN restless ELSE restless \cup {r.text}
    /\ IF link = "ready"
         THEN /\ out' = Append(out, Packet("DELETE", <<r.mid>>))
              /\ UNCHANGED deletions
         ELSE /\ deletions' = deletions \cup {r.mid}
              /\ UNCHANGED out
    /\ UNCHANGED <<nextId, link, writing, sync, fetches, threads, inbox, srv, typed,
                   hurt, crossed, shared, raced>>

\* recallMessage, of a message the server has: nothing is queued offline.
RecallMessage(r) ==
    /\ writing = None /\ link = "ready" /\ r.mid # 0 /\ r.text \in Own /\ ~r.recalled
    /\ Upset
    /\ out' = Append(out, Packet("RECALL", <<r.mid>>))
    /\ UNCHANGED <<store, link, writing, sync, fetches, threads, inbox, srv, typed, removed,
                   restless, hurt, crossed, shared, raced>>

-----------------------------------------------------------------------------
(* messageInsertOrUpdate: a thread for each list of messages.              *)

Start(th, list) ==
    /\ threads[th].todo = <<>>
    /\ threads' = [threads EXCEPT ![th] = [Resting EXCEPT !.todo = list]]
    /\ shared' = shared \cup (AllHandled \cap {list[i].mid : i \in DOMAIN list})

\* Mutant of Target: the message id is not looked up.
TargetByReference(s) ==
    IF \E r \in rows : r.id = s.ref THEN s.ref ELSE 0

\* The row that has the message id, or else the one the reference names.
Target(s) ==
    IF HasRow(s.mid) THEN (CHOOSE r \in rows : r.mid = s.mid).id
    ELSE IF \E r \in rows : r.id = s.ref THEN s.ref ELSE 0

\* Mutant of Look: the message is acknowledged before it is stored.
LookAndTell(th) ==
    LET s == Head(threads[th].todo)
    IN /\ threads[th].todo # <<>> /\ threads[th].step = "look"
       /\ threads' = [threads EXCEPT ![th].step = "store", ![th].target = Target(s)]
       /\ out' = Append(out, Packet("DELIVERED", <<s.mid>>))
       /\ UNCHANGED <<store, link, writing, sync, fetches, inbox, srv, history>>

Look(th) ==
    /\ threads[th].todo # <<>> /\ threads[th].step = "look"
    /\ threads' = [threads EXCEPT ![th].step = "store",
                                  ![th].target = Target(Head(threads[th].todo))]
    /\ UNCHANGED <<store, link, writing, sync, fetches, wire, srv, history>>

Done(th) == threads' = [threads EXCEPT ![th] = [Resting EXCEPT !.todo = Tail(threads[th].todo)]]

\* A message of another that the server does not know delivered.
Owed(s) == s.text \in Others /\ ~s.seen

\* Mutant of Store: the row keeps its own flags.
StoreKeepsFlags(th) ==
    LET s == Head(threads[th].todo)
        id == threads[th].target
    IN /\ threads[th].todo # <<>> /\ threads[th].step = "store"
       /\ IF id = 0 THEN rows' = rows \cup {RowOf(nextId, s)} /\ nextId' = nextId + 1
          ELSE /\ rows' = {IF r.id = id THEN [RowOf(id, s) EXCEPT !.seen = r.seen, !.recalled = r.recalled]
                           ELSE r : r \in rows}
               /\ UNCHANGED nextId
       /\ IF Owed(s) THEN threads' = [threads EXCEPT ![th].step = "tell"] ELSE Done(th)
       /\ UNCHANGED <<deletions, link, writing, sync, fetches, wire, srv, history>>

\* insertMessage, or updateMessage, which does nothing if the row is gone.
Store(th) ==
    LET s == Head(threads[th].todo)
        id == threads[th].target
    IN /\ threads[th].todo # <<>> /\ threads[th].step = "store"
       /\ IF id = 0 THEN rows' = rows \cup {RowOf(nextId, s)} /\ nextId' = nextId + 1
          ELSE /\ rows' = {IF r.id = id THEN RowOf(id, s) ELSE r : r \in rows}
               /\ UNCHANGED nextId
       /\ IF Owed(s) THEN threads' = [threads EXCEPT ![th].step = "tell"] ELSE Done(th)
       /\ UNCHANGED <<deletions, link, writing, sync, fetches, wire, srv, history>>

\* updateMessageDeliveredStatus and sendMessageDeliveryStatus.
Tell(th) ==
    LET s == Head(threads[th].todo)
    IN /\ threads[th].todo # <<>> /\ threads[th].step = "tell"
       /\ rows' = MarkSeen({s.mid})
       /\ out' = Append(out, Packet("DELIVERED", <<s.mid>>))
       /\ Done(th)
       /\ UNCHANGED <<nextId, deletions, link, writing, sync, fetches, inbox, srv, history>>

-----------------------------------------------------------------------------
(* The event thread.                                                       *)

\* RECEIVE, SENT, SYNC, MISSING: the messages go to a thread.
OnMessages(th) ==
    /\ Start(th, Head(inbox).list)
    /\ UNCHANGED <<rows, deletions, raced>>

\* updateMessageDeliveredStatus; recalledMessages, or the Ack of recallMessage.
OnDelivered ==
    /\ rows' = MarkSeen(Range(Head(inbox).list))
    /\ raced' = raced \cup (AllHandled \cap Range(Head(inbox).list))
    /\ UNCHANGED <<deletions, threads, shared>>
OnRecall ==
    /\ rows' = MarkRecalled(Range(Head(inbox).list))
    /\ raced' = raced \cup (AllHandled \cap Range(Head(inbox).list))
    /\ UNCHANGED <<deletions, threads, shared>>

\* The Ack of deleteMessages removes the rows again, the one of a
\* synchronisation empties the queue.
OnDeleteAck ==
    /\ rows' = {r \in rows : r.mid \notin Range(Head(inbox).list)}
    /\ UNCHANGED <<deletions, threads, shared, raced>>
OnSyncDeleteAck ==
    /\ deletions' = {}
    /\ UNCHANGED <<rows, threads, shared, raced>>

Receive ==
    /\ inbox # <<>> /\ inbox' = Tail(inbox)
    /\ LET type == Head(inbox).type IN
         \/ type = "MESSAGES" /\ \E th \in Threads : OnMessages(th)
         \/ type = "DELIVERED" /\ OnDelivered
         \/ type = "RECALL" /\ OnRecall
         \/ type = "DELETE" /\ OnDeleteAck
         \/ type = "SYNC_DELETE" /\ OnSyncDeleteAck
    /\ UNCHANGED <<nextId, link, writing, sync, fetches, out, srv, typed, removed, restless, hurt,
                   crossed, upsets>>

-----------------------------------------------------------------------------
(* The connection, and the synchronisation.                                *)

\* Mutant of Request: the last local id.
RequestLocal == LastLocalId

\* The last message id, read when the token comes.
Request == LastMessageId

\* messengerSocketOnAccessToken and syncData.  One run of the
\* synchronisation at a time; OfflineSync has more.
Token ==
    /\ link = "down" /\ link' = "ready"
    /\ sync = "none" /\ sync' = "local"
    /\ fetches' = fetches \cup {Request}
    /\ UNCHANGED <<store, writing, threads, wire, srv, history>>

\* Mutant of Unsent: the last row is taken to be under way.
UnsentButLast == InOrder({r.id : r \in {x \in rows : ~x.synced /\ x.id # LastLocalId}})

\* fetchUnSentMessages: their local ids.
Unsent == InOrder({r.id : r \in {x \in rows : ~x.synced}})
RowAt(id) == CHOOSE r \in rows : r.id = id

\* syncLocalMessages, then syncLocallyDeletedMessages and
\* syncUndeliveredStatusMessages, taken together.
SyncLocal ==
    /\ sync = "local" /\ sync' = "rest"
    /\ out' = IF Unsent = <<>> THEN out
              ELSE Append(out, Packet("SEND", [i \in DOMAIN Unsent |->
                                        [ref |-> Unsent[i], text |-> RowAt(Unsent[i]).text]]))
    /\ UNCHANGED <<store, link, writing, fetches, threads, inbox, srv, history>>
SyncTheRest ==
    LET owed == {r.mid : r \in {x \in rows : x.text \in Others /\ ~x.seen}}
    IN /\ sync = "rest" /\ sync' = "none"
       /\ out' = out \o [i \in 1 .. Cardinality(deletions) |->
                            Packet("SYNC_DELETE", <<InOrder(deletions)[i]>>)]
                     \o IF owed = {} THEN <<>> ELSE <<Packet("DELIVERED", InOrder(owed))>>
       /\ rows' = MarkSeen(owed)
       /\ UNCHANGED <<nextId, deletions, link, writing, fetches, threads, inbox, srv, history>>

\* syncServerMessages: the messages after the one told, and those of before
\* that have changed.
FetchAnswer(f, th) ==
    LET wanted == {i \in DOMAIN srv : ~srv[i].deleted /\
                     (i > f \/ srv[i].recalled \/ (srv[i].text \in Own /\ srv[i].seen))}
        ids == InOrder(wanted)
    IN /\ f \in fetches /\ fetches' = fetches \ {f}
       /\ Start(th, [k \in DOMAIN ids |-> Message(srv, ids[k])])
       /\ UNCHANGED <<store, link, writing, sync, wire, srv, typed, removed, restless, hurt, crossed,
                      raced, upsets>>

FetchFails(f) ==
    /\ f \in fetches /\ fetches' = fetches \ {f}
    /\ Upset /\ hurt' = TRUE
    /\ UNCHANGED <<store, link, writing, sync, threads, wire, srv, typed, removed, restless, crossed,
                   shared, raced>>

\* The deletions lost with the connection.
Undelivered == UNION {{srv[i].text : i \in Range(out[k].list) \ {0}} :
                        k \in {n \in DOMAIN out : out[n].type = "DELETE"}}

Disconnect ==
    /\ link = "ready" /\ Upset
    /\ link' = "down" /\ out' = <<>> /\ inbox' = <<>>
    /\ restless' = restless \cup Undelivered
    /\ UNCHANGED <<store, writing, sync, fetches, threads, srv, typed, removed, hurt, crossed,
                   shared, raced>>

\* The end of the process.
Kill ==
    /\ Upset
    /\ hurt' = (hurt \/ fetches # {} \/ AllHandled # {})
    /\ link' = "down" /\ writing' = None /\ sync' = "none" /\ fetches' = {}
    /\ threads' = [th \in Threads |-> Resting]
    /\ out' = <<>> /\ inbox' = <<>>
    /\ restless' = restless \cup Undelivered
    /\ UNCHANGED <<store, srv, typed, removed, crossed, shared, raced>>

-----------------------------------------------------------------------------
(* The server.  It knows a message it has by its reference, and refuses to  *)
(* delete the message 0: the Ack would delete every unsent row.             *)

Push(p) == Len(inbox) < MaxInbox /\ inbox' = IF link = "ready" THEN Append(inbox, p) ELSE inbox

Entry(t, ref) == [text |-> t, ref |-> ref, seen |-> FALSE, recalled |-> FALSE, deleted |-> FALSE]
Stored(s, ref) == \E i \in DOMAIN s : s[i].ref = ref
Accept(s, list) ==
    LET new == InOrder({i \in DOMAIN list : ~Stored(s, list[i].ref)})
    IN s \o [k \in DOMAIN new |-> Entry(list[new[k]].text, list[new[k]].ref)]
IdOf(s, ref) == CHOOSE i \in DOMAIN s : s[i].ref = ref

Serve ==
    /\ link = "ready" /\ out # <<>> /\ out' = Tail(out)
    /\ LET p == Head(out) IN
         \/ /\ p.type = "SEND"
            /\ srv' = Accept(srv, p.list)
            /\ inbox' = Append(inbox, Packet("MESSAGES",
                          [k \in DOMAIN p.list |-> Message(srv', IdOf(srv', p.list[k].ref))]))
         \/ /\ p.type = "DELIVERED"
            /\ srv' = [i \in DOMAIN srv |->
                         IF i \in Range(p.list) THEN [srv[i] EXCEPT !.seen = TRUE] ELSE srv[i]]
            /\ UNCHANGED inbox
         \/ /\ p.type = "RECALL"
            /\ srv' = [srv EXCEPT ![p.list[1]].recalled = TRUE]
            /\ inbox' = Append(inbox, p)
         \/ /\ p.type \in {"DELETE", "SYNC_DELETE"}
            /\ srv' = [i \in DOMAIN srv |->
                         IF i = p.list[1] THEN [srv[i] EXCEPT !.deleted = TRUE] ELSE srv[i]]
            /\ inbox' = IF p = Packet("DELETE", <<0>>) THEN inbox ELSE Append(inbox, p)
    /\ UNCHANGED <<store, link, writing, sync, fetches, threads, history>>

OtherSends(t) ==
    /\ t \in Others /\ \A i \in DOMAIN srv : srv[i].text # t
    /\ srv' = Append(srv, Entry(t, 0))
    /\ Push(Packet("MESSAGES", <<Message(srv', Len(srv'))>>))
    /\ UNCHANGED <<store, link, writing, sync, fetches, threads, out, history>>

OtherRecalls(i) ==
    /\ srv[i].text \in Others /\ ~srv[i].recalled /\ Upset
    /\ srv' = [srv EXCEPT ![i].recalled = TRUE]
    /\ Push(Packet("RECALL", <<i>>))
    /\ UNCHANGED <<store, link, writing, sync, fetches, threads, out, typed, removed, restless, hurt,
                   crossed, shared, raced>>

OtherSees(i) ==
    /\ srv[i].text \in Own /\ ~srv[i].seen /\ Upset
    /\ srv' = [srv EXCEPT ![i].seen = TRUE]
    /\ Push(Packet("DELIVERED", <<i>>))
    /\ UNCHANGED <<store, link, writing, sync, fetches, threads, out, typed, removed, restless, hurt,
                   crossed, shared, raced>>

-----------------------------------------------------------------------------

User == \/ \E t \in Own : Write(t)
        \/ Send
        \/ \E r \in rows : DeleteMessage(r) \/ RecallMessage(r)
Thread(th) == Look(th) \/ Store(th) \/ Tell(th)
Synchronise == SyncLocal \/ SyncTheRest
Fetched == \E f \in fetches : (\E th \in Threads : FetchAnswer(f, th)) \/ FetchFails(f)
Server == \/ Serve
          \/ \E t \in Others : OtherSends(t)
          \/ \E i \in DOMAIN srv : OtherRecalls(i) \/ OtherSees(i)

Next ==
    \/ User \/ Receive \/ Token \/ Synchronise \/ Fetched
    \/ \E th \in Threads : Thread(th)
    \/ Server
    \/ Disconnect \/ Kill

\* Threads, the event thread and synchronisations go on; the socket reconnects
\* by itself; the server takes what is sent.  Requests may stay unanswered.
Fairness ==
    /\ WF_vars(Send) /\ WF_vars(Receive) /\ WF_vars(Token) /\ WF_vars(Synchronise)
    /\ WF_vars(Serve) /\ \A th \in Threads : WF_vars(Thread(th))

Spec == Init /\ [][Next]_vars /\ Fairness

-----------------------------------------------------------------------------
(* Properties.                                                             *)

\* No message is missed for good: what the server has is in the table, or is
\* being handled, or lies after the last message id, which is what the next
\* synchronisation asks from.  A request that failed, or was killed together
\* with the thread for its answer, does leave a gap, and so does a message
\* overwritten by one that was sent under its reference.
NoGap ==
    ~hurt /\ ~crossed =>
        \A i \in DOMAIN srv :
            \/ HasRow(i) \/ srv[i].text \in removed
            \/ i \in AllHandled \/ InInbox(i)
            \/ \E f \in fetches : f < i
            \/ link = "down" /\ LastMessageId < i

\* A message has one row, though every packet that brings it has a thread of
\* its own; unless two of these overlapped.
OneRowPerMessage ==
    \A r1, r2 \in rows : r1.mid = r2.mid /\ r1.mid # 0 => r1 = r2 \/ r1.mid \in shared

\* A text goes out once, however often it is sent again after a lost
\* connection, unless it once went under the reference of another row.
SentOnce ==
    ~crossed => \A i, j \in DOMAIN srv : srv[i].text = srv[j].text => i = j

\* The server is told that a message is delivered only when it is stored.
DeliveredIsStored ==
    ~crossed => \A i \in DOMAIN srv :
        srv[i].text \in Others /\ srv[i].seen => HasRow(i) \/ srv[i].text \in removed

\* When all is handled and the device is connected, no recalled message is
\* shown, and a delivered one is shown as such, unless a thread that had an
\* older state of the message overlapped the change, or another thread.
ChangesAreShown ==
    link = "ready" /\ fetches = {} /\ ~hurt /\ ~crossed =>
        \A r \in {x \in rows : x.mid # 0 /\ x.text \notin removed} :
            r.mid \notin AllHandled \cup raced \cup shared /\ ~InInbox(r.mid) =>
            /\ srv[r.mid].recalled => r.recalled
            /\ r.text \in Own /\ srv[r.mid].seen => r.seen

\* Every text the user sends reaches the server, unless it is deleted.
TextArrives ==
    \A t \in Own : t \in typed ~> t \in removed \/ \E i \in DOMAIN srv : srv[i].text = t

\* A deleted message does not come back, unless it was deleted offline, or
\* while something that could bring it was under way, or the deletion was lost:
\* nothing remembers a deletion, and a synchronisation asks from the last of the
\* messages that are left.  A text that went under the reference of another row
\* has two rows, and one of them stays.
DeletionHolds == ~crossed => \A r \in rows : r.text \in removed => r.text \in restless

=============================================================================
