---------------------------- MODULE MessagesProofs ----------------------------
(***************************************************************************)
(* Theorems about the table of messages: Messages.                         *)
(***************************************************************************)
EXTENDS Messages, QueueLemmas, FiniteSetTheorems

-----------------------------------------------------------------------------
(* Helpers of the model.                                                   *)

\* The numbers of a finite set can be counted in their order.
LEMMA RankExists ==
    ASSUME NEW S \in SUBSET Nat, IsFiniteSet(S)
    PROVE  \E f \in [1 .. Cardinality(S) -> S] : \A i, j \in DOMAIN f : i < j => f[i] < f[j]
  <1> DEFINE n == Cardinality(S)
             Below(m) == {k \in S : k < m}
             size(m) == Cardinality(Below(m))
             rank == [m \in S |-> size(m) + 1]
  <1>1. n \in Nat /\ IsFiniteSet(1 .. n) /\ Cardinality(1 .. n) = n
    <2>1. n \in Nat
      BY FS_CardinalityType
    <2>2. 1 \in Int /\ n \in Int
      BY <2>1
    <2> QED
      BY <2>1, <2>2, FS_Interval
  <1>2. \A m \in S : IsFiniteSet(Below(m)) /\ size(m) \in Nat
    <2>1. \A m \in S : Below(m) \in SUBSET S
      OBVIOUS
    <2> QED
      BY <2>1, FS_Subset, FS_CardinalityType
  <1>3. \A m \in S : size(m) <= n - 1
    <2>1. TAKE m \in S
    <2>2. Below(m) \in SUBSET (S \ {m})
      BY <2>1
    <2>3. IsFiniteSet(S \ {m}) /\ Cardinality(S \ {m}) = n - 1
      BY <2>1, FS_RemoveElement
    <2> QED
      BY <2>2, <2>3, FS_Subset
  <1>4. ASSUME NEW a \in S, NEW b \in S, a < b
        PROVE  size(a) <= size(b) - 1
    <2>1. Below(a) \in SUBSET (Below(b) \ {a}) /\ a \in Below(b)
      <3>1. a \in Nat /\ b \in Nat /\ \A k \in S : k \in Nat
        OBVIOUS
      <3>2. \A k \in S : k < a => k < b /\ k # a
        BY <1>4, <3>1
      <3> QED
        BY <1>4, <3>2
    <2>2. IsFiniteSet(Below(b) \ {a}) /\ Cardinality(Below(b) \ {a}) = size(b) - 1
      BY <1>2, <2>1, FS_RemoveElement
    <2> QED
      BY <2>1, <2>2, FS_Subset
  <1> HIDE DEF size, n
  <1>5. /\ rank \in [S -> 1 .. n]
        /\ \A a, b \in S : a < b => rank[a] < rank[b]
    <2>1. ASSUME NEW m \in S PROVE size(m) + 1 \in 1 .. n
      <3>1. size(m) \in Nat /\ size(m) <= n - 1
        BY <1>2, <1>3
      <3> QED
        BY <1>1, <3>1
    <2>2. ASSUME NEW a \in S, NEW b \in S, a < b PROVE size(a) + 1 < size(b) + 1
      <3>1. size(a) \in Nat /\ size(b) \in Nat /\ size(a) <= size(b) - 1
        BY <1>2, <1>4, <2>2
      <3> QED
        BY <3>1
    <2> QED
      BY <2>1, <2>2
  <1> HIDE DEF rank
  <1>6. rank \in Injection(S, 1 .. n)
    <2>1. \A a, b \in S : a # b => rank[a] # rank[b]
      <3>1. TAKE a, b \in S
      <3>2. HAVE a # b
      <3>3. a < b \/ b < a
        BY <3>1, <3>2
      <3>4. rank[a] \in Nat /\ rank[b] \in Nat
        BY <1>1, <1>5, <3>1
      <3> QED
        BY <1>5, <3>1, <3>3, <3>4
    <2> QED
      BY <1>5, <2>1 DEF Injection, IsInjective
  <1>7. rank \in Surjection(S, 1 .. n)
    BY <1>1, <1>6, FS_Injection DEF n
  <1>8. \A i \in 1 .. n : \E m \in S : rank[m] = i
    BY <1>7 DEF Surjection
  <1>9. PICK f \in [1 .. n -> S] : \A i \in 1 .. n : rank[f[i]] = i
    <2>1. [i \in 1 .. n |-> CHOOSE m \in S : rank[m] = i] \in [1 .. n -> S]
      BY <1>8
    <2> QED
      BY <1>8, <2>1
  <1>10. ASSUME NEW i \in 1 .. n, NEW j \in 1 .. n, i < j
         PROVE  f[i] < f[j]
    <2>1. f[i] \in S /\ f[j] \in S /\ rank[f[i]] = i /\ rank[f[j]] = j /\ i \in Nat /\ j \in Nat
      BY <1>1, <1>9
    <2>2. f[j] < f[i] => j < i
      BY <1>5, <2>1
    <2>3. f[i] \in Nat /\ f[j] \in Nat
      BY <2>1
    <2>4. ~(j < i) /\ i # j
      BY <1>10, <2>1
    <2>5. f[i] # f[j]
      BY <2>1, <2>4
    <2> QED
      BY <2>2, <2>3, <2>4, <2>5
  <1> QED
    BY <1>9, <1>10 DEF n

\* A finite set of numbers in order (InOrder): all of them, each once.
LEMMA InOrderIs ==
    ASSUME NEW S \in SUBSET Nat, IsFiniteSet(S)
    PROVE  /\ InOrder(S) \in Seq(S) /\ Range(InOrder(S)) = S
           /\ \A i, j \in DOMAIN InOrder(S) : i < j => InOrder(S)[i] < InOrder(S)[j]
           /\ S = {} <=> InOrder(S) = <<>>
  <1> DEFINE n == Cardinality(S)
             f == InOrder(S)
  <1>1. n \in Nat /\ IsFiniteSet(1 .. n) /\ Cardinality(1 .. n) = n
    <2>1. n \in Nat
      BY FS_CardinalityType
    <2>2. 1 \in Int /\ n \in Int
      BY <2>1
    <2> QED
      BY <2>1, <2>2, FS_Interval
  <1>2. f \in [1 .. n -> S] /\ \A i, j \in DOMAIN f : i < j => f[i] < f[j]
    BY RankExists DEF InOrder
  <1> HIDE DEF f, n
  <1>3. f \in Seq(S)
    BY <1>1, <1>2, SeqDef
  <1>4. f \in Injection(1 .. n, S)
    <2>1. \A i \in 1 .. n : f[i] \in Nat
      BY <1>2
    <2>2. \A i, j \in 1 .. n : f[i] = f[j] => i = j
      BY <1>1, <1>2, <2>1
    <2> QED
      BY <1>2, <2>2 DEF Injection, IsInjective
  <1>5. f \in Surjection(1 .. n, S)
    BY <1>1, <1>4, FS_Injection DEF n
  <1>6. Range(f) = S
    BY <1>2, <1>5 DEF Range, Surjection
  <1>7. S = {} <=> f = <<>>
    <2>1. f = <<>> <=> DOMAIN f = {}
      BY <1>3, QueueEntries
    <2> QED
      BY <1>6, <2>1 DEF Range
  <1> QED
    BY <1>2, <1>3, <1>6, <1>7 DEF f

\* The last of a finite set of numbers (LastOf): none of the set is larger.
LEMMA LastOfIs ==
    ASSUME NEW S \in SUBSET Nat, IsFiniteSet(S)
    PROVE  LastOf(S) \in S \cup {0} /\ \A k \in S : k <= LastOf(S)
  <1> DEFINE f == InOrder(S)
  <1>1. /\ f \in Seq(S) /\ Range(f) = S /\ (S = {} <=> f = <<>>)
        /\ \A i, j \in DOMAIN f : i < j => f[i] < f[j]
    BY InOrderIs
  <1> HIDE DEF f
  <1>2. Len(f) \in Nat /\ DOMAIN f = 1 .. Len(f) /\ \A i \in DOMAIN f : f[i] \in S /\ i \in Nat
    BY <1>1, QueueEntries
  <1>3. \E n \in S \cup {0} : \A k \in S : k <= n
    <2>1. CASE S = {}
      BY <2>1
    <2>2. CASE S # {}
      <3>1. Len(f) \in DOMAIN f
        BY <1>1, <1>2, <2>2 DEF Range
      <3>2. \A i \in DOMAIN f : i < Len(f) \/ i = Len(f)
        BY <1>2
      <3>3. \A i \in DOMAIN f : f[i] <= f[Len(f)]
        <4>1. TAKE i \in DOMAIN f
        <4>2. f[i] \in Nat /\ f[Len(f)] \in Nat
          BY <1>2, <3>1
        <4> QED
          BY <1>1, <3>1, <3>2, <4>2
      <3>4. \A k \in S : k <= f[Len(f)]
        BY <1>1, <3>3 DEF Range
      <3> QED
        BY <1>2, <3>1, <3>4
    <2> QED
      BY <2>1, <2>2
  <1> QED
    BY <1>3 DEF LastOf

\* What is computed for each place of a queue is a queue.
LEMMA MapIs ==
    ASSUME NEW S, NEW q \in Seq(S), NEW T, NEW f, f = [k \in DOMAIN q |-> f[k]],
           \A k \in DOMAIN q : f[k] \in T
    PROVE  f \in Seq(T)
  <1>1. Len(q) \in Nat /\ DOMAIN q = 1 .. Len(q)
    BY QueueEntries
  <1>2. f \in [1 .. Len(q) -> T]
    BY <1>1
  <1> QED
    BY <1>1, <1>2, SeqDef

\* A queue of one entry.
LEMMA OneEntry ==
    ASSUME NEW S, NEW e \in S
    PROVE  <<e>> \in Seq(S) /\ Range(<<e>>) = {e} /\ <<e>>[1] = e
  BY DEF Range

\* The image of a finite set is finite.
LEMMA ImageIsFinite ==
    ASSUME NEW S, IsFiniteSet(S), NEW f, DOMAIN f = S
    PROVE  IsFiniteSet({f[x] : x \in S})
  <1> DEFINE T == {f[x] : x \in S}
             g == [x \in S |-> f[x]]
  <1>1. g \in Surjection(S, T)
    BY DEF Surjection
  <1> QED
    BY <1>1, FS_Surjection

\* The packets.
LEMMA PacketIs ==
    ASSUME NEW t \in {"DELIVERED", "RECALL", "DELETE", "SYNC_DELETE"}, NEW l \in Seq(Nat)
    PROVE  /\ Packet(t, l) \in Outgoing /\ Packet(t, l) \in Incoming
           /\ Packet(t, l).type = t /\ Packet(t, l).list = l
  BY DEF Packet, Outgoing, Incoming

LEMMA SendPacketIs ==
    ASSUME NEW l \in Seq([ref : Nat, text : Own])
    PROVE  /\ Packet("SEND", l) \in Outgoing
           /\ Packet("SEND", l).type = "SEND" /\ Packet("SEND", l).list = l
  BY DEF Packet, Outgoing

LEMMA AnswerIs ==
    ASSUME NEW l \in Seq(Messages)
    PROVE  /\ Packet("MESSAGES", l) \in Incoming
           /\ Packet("MESSAGES", l).type = "MESSAGES" /\ Packet("MESSAGES", l).list = l
  BY DEF Packet, Incoming

\* What a packet carries.
LEMMA OutgoingIs ==
    ASSUME NEW p \in Outgoing
    PROVE  \/ p.type = "SEND" /\ p.list \in Seq([ref : Nat, text : Own])
           \/ p.type \in {"DELIVERED", "RECALL", "DELETE", "SYNC_DELETE"} /\ p.list \in Seq(Nat)
  BY DEF Outgoing

LEMMA IncomingIs ==
    ASSUME NEW p \in Incoming
    PROVE  \/ p.type = "MESSAGES" /\ p.list \in Seq(Messages)
           \/ p.type \in {"DELIVERED", "RECALL", "DELETE", "SYNC_DELETE"} /\ p.list \in Seq(Nat)
  BY DEF Incoming

\* The server's log grows, by the messages it does not have (Accept).
LEMMA AcceptIs ==
    ASSUME NEW s \in Seq(Entries), NEW l \in Seq([ref : Nat, text : Own])
    PROVE  /\ Accept(s, l) \in Seq(Entries)
           /\ \A i \in DOMAIN s : i \in DOMAIN Accept(s, l) /\ Accept(s, l)[i] = s[i]
           /\ \A i \in DOMAIN Accept(s, l) \ DOMAIN s :
                 \E j \in DOMAIN l : /\ Accept(s, l)[i] = Entry(l[j].text, l[j].ref)
                                     /\ ~Stored(s, l[j].ref)
           /\ \A j \in DOMAIN l : Stored(Accept(s, l), l[j].ref)
           /\ (\A j, k \in DOMAIN l : l[j].ref = l[k].ref => j = k)
                => \A i, k \in DOMAIN Accept(s, l) \ DOMAIN s :
                      Accept(s, l)[i].ref = Accept(s, l)[k].ref => i = k
  <1> DEFINE N == {i \in DOMAIN l : ~Stored(s, l[i].ref)}
             new == InOrder(N)
             e == [k \in DOMAIN new |-> Entry(l[new[k]].text, l[new[k]].ref)]
             a == s \o e
  <1>1. /\ Len(l) \in Nat /\ DOMAIN l = 1 .. Len(l)
        /\ \A j \in DOMAIN l : l[j] \in [ref : Nat, text : Own] /\ j \in Nat
    BY QueueEntries
  <1>2. N \in SUBSET Nat /\ IsFiniteSet(N) /\ N \subseteq DOMAIN l
    <2>1. N \in SUBSET Nat /\ \A j \in N : j <= Len(l)
      BY <1>1
    <2> QED
      BY <1>1, <2>1, FS_BoundedSetOfNaturals
  <1> HIDE DEF N
  <1>3. /\ new \in Seq(N) /\ Range(new) = N
        /\ \A i, j \in DOMAIN new : i < j => new[i] < new[j]
    BY <1>2, InOrderIs
  <1> HIDE DEF new
  <1>4. \A k \in DOMAIN new : new[k] \in N /\ k \in Nat
    BY <1>3, QueueEntries
  <1>5. /\ e \in Seq(Entries) /\ DOMAIN e = DOMAIN new
        /\ \A k \in DOMAIN new : e[k] = Entry(l[new[k]].text, l[new[k]].ref)
    <2>1. \A k \in DOMAIN new : e[k] \in Entries
      BY <1>1, <1>2, <1>4 DEF Entry, Entries, Texts
    <2> QED
      BY <1>3, <2>1, MapIs
  <1> HIDE DEF e
  <1>6. /\ a \in Seq(Entries)
        /\ \A i \in DOMAIN s : i \in DOMAIN a /\ a[i] = s[i]
        /\ \A k \in DOMAIN e : Len(s) + k \in DOMAIN a /\ a[Len(s) + k] = e[k]
        /\ \A i \in DOMAIN a : \/ i \in DOMAIN s /\ a[i] = s[i]
                               \/ i - Len(s) \in DOMAIN e /\ a[i] = e[i - Len(s)]
    BY <1>5, JoinedQueue
  <1>7. Accept(s, l) = a
    BY DEF Accept, e, new, N
  <1> HIDE DEF a
  <1>8. \A i \in DOMAIN a \ DOMAIN s :
           \E j \in DOMAIN l : a[i] = Entry(l[j].text, l[j].ref) /\ ~Stored(s, l[j].ref)
    BY <1>2, <1>4, <1>5, <1>6 DEF N
  <1>9. ASSUME NEW j \in DOMAIN l PROVE Stored(a, l[j].ref)
    <2>1. CASE Stored(s, l[j].ref)
      BY <1>6, <2>1 DEF Stored
    <2>2. CASE ~Stored(s, l[j].ref)
      <3>1. PICK k \in DOMAIN new : new[k] = j
        BY <1>3, <2>2 DEF N, Range
      <3>2. e[k].ref = l[j].ref
        BY <1>5, <3>1 DEF Entry
      <3> QED
        BY <1>5, <1>6, <3>1, <3>2 DEF Stored
    <2> QED
      BY <2>1, <2>2
  <1>10. ASSUME \A j, k \in DOMAIN l : l[j].ref = l[k].ref => j = k,
                NEW i \in DOMAIN a \ DOMAIN s, NEW k \in DOMAIN a \ DOMAIN s, a[i].ref = a[k].ref
         PROVE  i = k
    <2>1. ASSUME NEW n \in DOMAIN a \ DOMAIN s
          PROVE  \E p \in DOMAIN new : p = n - Len(s) /\ a[n].ref = l[new[p]].ref
      <3>1. n - Len(s) \in DOMAIN e /\ a[n] = e[n - Len(s)]
        BY <1>6
      <3>2. PICK p : p = n - Len(s)
        OBVIOUS
      <3>3. p \in DOMAIN new /\ a[n] = e[p]
        BY <1>5, <3>1, <3>2
      <3>4. e[p] = Entry(l[new[p]].text, l[new[p]].ref)
        BY <1>5, <3>3
      <3> QED
        BY <3>2, <3>3, <3>4 DEF Entry
    <2>2. PICK p \in DOMAIN new : p = i - Len(s) /\ a[i].ref = l[new[p]].ref
      BY <2>1
    <2>3. PICK q \in DOMAIN new : q = k - Len(s) /\ a[k].ref = l[new[q]].ref
      BY <2>1
    <2>4. new[p] = new[q]
      BY <1>2, <1>4, <1>10, <2>2, <2>3
    <2>5. p \in Nat /\ q \in Nat /\ new[p] \in Nat
      BY <1>2, <1>4
    <2>6. p = q
      <3>1. ~(p < q) /\ ~(q < p)
        BY <1>3, <2>4, <2>5
      <3> QED
        BY <2>5, <3>1
    <2>7. i \in Nat /\ k \in Nat /\ Len(s) \in Nat
      BY <1>6, QueueEntries
    <2> QED
      BY <2>2, <2>3, <2>6, <2>7
  <1> QED
    BY <1>6, <1>7, <1>8, <1>9, <1>10

-----------------------------------------------------------------------------
(* Types.                                                                  *)

TableTyped ==
    /\ rows \subseteq Rows /\ IsFiniteSet(rows) /\ nextId \in LocalIds
    /\ \A r1, r2 \in rows : r1.id < nextId /\ (r1.id = r2.id => r1 = r2)
    /\ \A r \in rows : ~r.synced => r.text \in Own

DeletionsTyped == deletions \subseteq Nat /\ IsFiniteSet(deletions)

StateTyped ==
    /\ link \in {"down", "ready"} /\ writing \in Own \cup {None}
    /\ sync \in {"none", "local", "rest"}
    /\ fetches \subseteq Nat

ThreadStates == [todo : Seq(Messages), step : {"look", "store", "tell"}, target : Nat]

ThreadsTyped == threads \in [Threads -> ThreadStates]

WireTyped == out \in Seq(Outgoing) /\ inbox \in Seq(Incoming)

LogTyped == srv \in Seq(Entries)

HistoryTyped ==
    /\ typed \subseteq Own /\ removed \subseteq Texts
    /\ hurt \in BOOLEAN /\ crossed \in BOOLEAN /\ shared \subseteq Ids /\ raced \subseteq Ids
    /\ upsets \in 0 .. MaxUpsets

Typed ==
    /\ TableTyped /\ DeletionsTyped /\ StateTyped /\ ThreadsTyped /\ WireTyped /\ LogTyped
    /\ HistoryTyped

\* The parts of the type invariant.
LEMMA TypeParts == Typed /\ restless \subseteq removed => TypeOK
  BY DEF TypeOK, Typed, TableTyped, DeletionsTyped, StateTyped, ThreadsTyped, ThreadStates,
     WireTyped, LogTyped, HistoryTyped

\* Row a is row b, perhaps marked.
Marks(a, b) ==
    /\ a.id = b.id /\ a.mid = b.mid /\ a.text = b.text
    /\ (b.synced => a.synced) /\ (b.seen => a.seen) /\ (b.recalled => a.recalled)

\* The rows are those of before, perhaps marked.
RowsMarked ==
    /\ \A a \in rows' : \E b \in rows : Marks(a, b)
    /\ \A b \in rows : \E a \in rows' : Marks(a, b)

\* Rows that are marked one by one.
LEMMA MarkedRows ==
    ASSUME TableTyped, NEW f, DOMAIN f = rows, rows' = {f[r] : r \in rows}, nextId' = nextId,
           \A r \in rows : f[r] \in Rows /\ Marks(f[r], r)
    PROVE  TableTyped' /\ RowsMarked
  <1>1. RowsMarked
    BY DEF RowsMarked
  <1>2. IsFiniteSet(rows')
    BY ImageIsFinite DEF TableTyped
  <1>3. rows' \subseteq Rows /\ \A a \in rows' : ~a.synced => a.text \in Own
    BY DEF TableTyped, Marks
  <1>4. ASSUME NEW a1 \in rows', NEW a2 \in rows'
        PROVE  a1.id < nextId /\ (a1.id = a2.id => a1 = a2)
    <2>1. PICK b1 \in rows, b2 \in rows : a1 = f[b1] /\ a2 = f[b2]
      OBVIOUS
    <2>2. a1.id = b1.id /\ a2.id = b2.id
      BY <2>1 DEF Marks
    <2> QED
      BY <2>1, <2>2 DEF TableTyped
  <1> QED
    BY <1>1, <1>2, <1>3, <1>4 DEF TableTyped

\* MarkSeen and MarkRecalled mark rows.
LEMMA SeenRows ==
    ASSUME TableTyped, NEW M, rows' = MarkSeen(M), nextId' = nextId
    PROVE  TableTyped' /\ RowsMarked
  <1> DEFINE f == [r \in rows |->
                     IF r.mid \in M THEN [r EXCEPT !.synced = TRUE, !.seen = TRUE] ELSE r]
  <1>1. rows' = {f[r] : r \in rows}
    BY DEF MarkSeen
  <1>2. \A r \in rows : f[r] \in Rows /\ Marks(f[r], r)
    BY DEF TableTyped, Marks, Rows
  <1> HIDE DEF f
  <1>3. DOMAIN f = rows
    BY DEF f
  <1> QED
    BY <1>1, <1>2, <1>3, MarkedRows

LEMMA RecalledRows ==
    ASSUME TableTyped, NEW M, rows' = MarkRecalled(M), nextId' = nextId
    PROVE  TableTyped' /\ RowsMarked
  <1> DEFINE f == [r \in rows |->
                     IF r.mid \in M THEN [r EXCEPT !.recalled = TRUE] ELSE r]
  <1>1. rows' = {f[r] : r \in rows}
    BY DEF MarkRecalled
  <1>2. \A r \in rows : f[r] \in Rows /\ Marks(f[r], r)
    BY DEF TableTyped, Marks, Rows
  <1> HIDE DEF f
  <1>3. DOMAIN f = rows
    BY DEF f
  <1> QED
    BY <1>1, <1>2, <1>3, MarkedRows

\* Fewer rows.
LEMMA FewerRows ==
    ASSUME TableTyped, rows' \subseteq rows, nextId' = nextId
    PROVE  TableTyped'
  BY FS_Subset DEF TableTyped

\* A new row.
LEMMA NewRow ==
    ASSUME TableTyped, NEW r \in Rows, r.id = nextId, r.synced \/ r.text \in Own,
           rows' = rows \cup {r}, nextId' = nextId + 1
    PROVE  TableTyped'
  <1>1. IsFiniteSet(rows')
    BY FS_AddElement DEF TableTyped
  <1>2. /\ nextId \in Nat \ {0} /\ nextId' \in LocalIds
        /\ \A x \in rows : x.id \in Nat /\ x.id < nextId
    BY DEF TableTyped, LocalIds, Rows
  <1>3. \A x \in rows : x.id < nextId' /\ x.id # nextId
    BY <1>2
  <1>4. nextId < nextId'
    BY <1>2
  <1>5. \A x \in rows' : ~x.synced => x.text \in Own
    BY DEF TableTyped
  <1> QED
    BY <1>1, <1>2, <1>3, <1>4, <1>5 DEF TableTyped

\* A row is written over.
LEMMA ChangedRow ==
    ASSUME TableTyped, NEW id, NEW n \in Rows, n.id = id, n.synced,
           rows' = {IF r.id = id THEN n ELSE r : r \in rows}, nextId' = nextId
    PROVE  TableTyped'
  <1> DEFINE f == [r \in rows |-> IF r.id = id THEN n ELSE r]
  <1>1. rows' = {f[r] : r \in rows} /\ DOMAIN f = rows
    OBVIOUS
  <1>2. IsFiniteSet(rows')
    <2> HIDE DEF f
    <2>1. IsFiniteSet(rows)
      BY DEF TableTyped
    <2>2. IsFiniteSet({f[r] : r \in rows})
      BY <1>1, <2>1, ImageIsFinite
    <2> QED
      BY <1>1, <2>2
  <1>3. rows' \subseteq Rows
    BY DEF TableTyped
  <1>4. ASSUME NEW a1 \in rows', NEW a2 \in rows'
        PROVE  a1.id < nextId /\ (a1.id = a2.id => a1 = a2)
    <2>1. PICK b1 \in rows, b2 \in rows : /\ a1 = IF b1.id = id THEN n ELSE b1
                                          /\ a2 = IF b2.id = id THEN n ELSE b2
      OBVIOUS
    <2> QED
      BY <2>1 DEF TableTyped
  <1> QED
    BY <1>2, <1>3, <1>4 DEF TableTyped

\* The ids of the messages that are being handled.
LEMMA HandledAre ==
    ASSUME ThreadsTyped
    PROVE  /\ \A th \in Threads : \A i \in DOMAIN threads[th].todo :
                 threads[th].todo[i] \in Messages /\ threads[th].todo[i].mid \in AllHandled
           /\ \A n \in AllHandled : \E th \in Threads : \E i \in DOMAIN threads[th].todo :
                 threads[th].todo[i].mid = n
           /\ AllHandled \subseteq Ids
  <1>1. \A th \in Threads : threads[th].todo \in Seq(Messages)
    BY DEF ThreadsTyped, ThreadStates
  <1>2. \A th \in Threads : \A i \in DOMAIN threads[th].todo : threads[th].todo[i] \in Messages
    BY <1>1, QueueEntries
  <1>3. \A th \in Threads : \A i \in DOMAIN threads[th].todo : threads[th].todo[i].mid \in Ids
    BY <1>2 DEF Messages
  <1> QED
    BY <1>2, <1>3 DEF AllHandled, Handled

\* Thread th goes on to n, the others stay where they are.
Goes(th, n) == threads'[th] = n /\ \A u \in Threads \ {th} : threads'[u] = threads[u]

\* A thread takes a list of messages up.
LEMMA StartIs ==
    ASSUME ThreadsTyped, shared \subseteq Ids, NEW th \in Threads, NEW l \in Seq(Messages),
           Start(th, l)
    PROVE  /\ ThreadsTyped' /\ shared' \subseteq Ids /\ shared \subseteq shared'
           /\ threads[th].todo = <<>>
           /\ Goes(th, [todo |-> l, step |-> "look", target |-> 0])
           /\ \A i \in DOMAIN l : l[i].mid \in AllHandled => l[i].mid \in shared'
  <1>1. /\ threads \in [Threads -> ThreadStates]
        /\ threads' = [threads EXCEPT ![th] = [todo |-> l, step |-> "look", target |-> 0]]
    <2>1. [Resting EXCEPT !.todo = l] = [todo |-> l, step |-> "look", target |-> 0]
      BY DEF Resting
    <2> QED
      BY <2>1 DEF Start, ThreadsTyped
  <1>2. [todo |-> l, step |-> "look", target |-> 0] \in ThreadStates
    BY DEF ThreadStates
  <1>3. ThreadsTyped'
    BY <1>1, <1>2 DEF ThreadsTyped
  <1>4. shared' \subseteq Ids
    BY HandledAre DEF Start
  <1> QED
    BY <1>1, <1>3, <1>4 DEF Start, Goes

\* A thread is through with a message.
LEMMA DoneIs ==
    ASSUME ThreadsTyped, NEW th \in Threads, threads[th].todo # <<>>, Done(th)
    PROVE  /\ ThreadsTyped'
           /\ Goes(th, [todo |-> Tail(threads[th].todo), step |-> "look", target |-> 0])
  <1>1. /\ threads \in [Threads -> ThreadStates] /\ threads[th].todo \in Seq(Messages)
        /\ threads' = [threads EXCEPT ![th] =
                          [todo |-> Tail(threads[th].todo), step |-> "look", target |-> 0]]
    <2>1. \A l : [Resting EXCEPT !.todo = l] = [todo |-> l, step |-> "look", target |-> 0]
      BY DEF Resting
    <2>2. /\ threads \in [Threads -> ThreadStates] /\ threads[th] \in ThreadStates
          /\ threads' = [threads EXCEPT ![th] = [Resting EXCEPT !.todo = Tail(threads[th].todo)]]
      BY DEF Done, ThreadsTyped
    <2>3. threads[th].todo \in Seq(Messages)
      BY <2>2 DEF ThreadStates
    <2> QED
      BY <2>1, <2>2, <2>3
  <1>2. Tail(threads[th].todo) \in Seq(Messages)
    BY <1>1, TakenQueue
  <1>3. [todo |-> Tail(threads[th].todo), step |-> "look", target |-> 0] \in ThreadStates
    BY <1>2 DEF ThreadStates
  <1> QED
    BY <1>1, <1>3 DEF ThreadsTyped, Goes

\* The message a thread is at.
LEMMA HeadIs ==
    ASSUME ThreadsTyped, NEW th \in Threads, threads[th].todo # <<>>
    PROVE  /\ threads[th].todo \in Seq(Messages) /\ Head(threads[th].todo) \in Messages
           /\ Head(threads[th].todo) \in Range(threads[th].todo)
           /\ Head(threads[th].todo).mid \in Handled(th)
           /\ threads[th].target \in Nat
  <1>1. threads[th].todo \in Seq(Messages) /\ threads[th].target \in Nat
    BY DEF ThreadsTyped, ThreadStates
  <1>2. /\ Head(threads[th].todo) \in Messages /\ 1 \in DOMAIN threads[th].todo
        /\ threads[th].todo[1] = Head(threads[th].todo)
    BY <1>1, TakenQueue
  <1> QED
    BY <1>1, <1>2 DEF Handled, Range

\* A thread looks for the row of its message.
LEMMA LookIs ==
    ASSUME TableTyped, ThreadsTyped, NEW th \in Threads, Look(th)
    PROVE  /\ ThreadsTyped' /\ threads[th].todo # <<>> /\ threads[th].step = "look"
           /\ Goes(th, [todo |-> threads[th].todo, step |-> "store",
                        target |-> Target(Head(threads[th].todo))])
           /\ \/ \E r \in rows : /\ r.mid = Head(threads[th].todo).mid
                                 /\ threads'[th].target = r.id
              \/ /\ ~HasRow(Head(threads[th].todo).mid)
                 /\ \E r \in rows : /\ r.id = Head(threads[th].todo).ref
                                    /\ threads'[th].target = r.id
              \/ /\ ~HasRow(Head(threads[th].todo).mid)
                 /\ \A r \in rows : r.id # Head(threads[th].todo).ref
                 /\ threads'[th].target = 0
  <1> DEFINE s == Head(threads[th].todo)
  <1>1. threads[th].todo # <<>> /\ threads[th].step = "look"
    BY DEF Look
  <1>2. s \in Messages /\ threads[th] \in ThreadStates
    BY <1>1, HeadIs DEF ThreadsTyped
  <1> HIDE DEF s
  <1>3. \/ \E r \in rows : r.mid = s.mid /\ Target(s) = r.id
        \/ ~HasRow(s.mid) /\ \E r \in rows : r.id = s.ref /\ Target(s) = r.id
        \/ ~HasRow(s.mid) /\ (\A r \in rows : r.id # s.ref) /\ Target(s) = 0
    BY DEF Target, HasRow
  <1>4. Target(s) \in Nat
    BY <1>3 DEF TableTyped, Rows, LocalIds
  <1>5. /\ threads \in [Threads -> ThreadStates]
        /\ threads' = [threads EXCEPT ![th].step = "store", ![th].target = Target(s)]
    BY DEF Look, s, ThreadsTyped
  <1>6. threads' = [threads EXCEPT ![th] =
                      [todo |-> threads[th].todo, step |-> "store", target |-> Target(s)]]
    <2> DEFINE n == [todo |-> threads[th].todo, step |-> "store", target |-> Target(s)]
               m == [[threads[th] EXCEPT !.step = "store"] EXCEPT !.target = Target(s)]
    <2>1. m = n
      <3>1. PICK k : k = [threads[th] EXCEPT !.step = "store"]
        OBVIOUS
      <3>2. PICK v : v = Target(s)
        OBVIOUS
      <3>3. k = [todo |-> threads[th].todo, step |-> "store", target |-> threads[th].target]
        BY <1>2, <3>1 DEF ThreadStates
      <3>4. [k EXCEPT !.target = v] = [todo |-> threads[th].todo, step |-> "store", target |-> v]
        BY <3>3
      <3> QED
        BY <3>1, <3>2, <3>4
    <2>2. threads' = [threads EXCEPT ![th] = m]
      BY <1>5
    <2> QED
      BY <2>1, <2>2
  <1>7. [todo |-> threads[th].todo, step |-> "store", target |-> Target(s)] \in ThreadStates
    BY <1>2, <1>4 DEF ThreadStates
  <1>8. /\ ThreadsTyped'
        /\ threads'[th] = [todo |-> threads[th].todo, step |-> "store", target |-> Target(s)]
        /\ \A u \in Threads \ {th} : threads'[u] = threads[u]
    BY <1>5, <1>6, <1>7 DEF ThreadsTyped
  <1>9. threads'[th].target = Target(s)
    BY <1>8
  <1> QED
    BY <1>1, <1>3, <1>8, <1>9 DEF s, Goes

\* A thread stores its message.
LEMMA StoreIs ==
    ASSUME TableTyped, ThreadsTyped, NEW th \in Threads, Store(th)
    PROVE  /\ TableTyped' /\ ThreadsTyped'
           /\ threads[th].todo # <<>> /\ threads[th].step = "store"
           /\ \/ /\ threads[th].target = 0 /\ nextId' = nextId + 1
                 /\ rows' = rows \cup {RowOf(nextId, Head(threads[th].todo))}
              \/ /\ threads[th].target # 0 /\ nextId' = nextId
                 /\ rows' = {IF r.id = threads[th].target
                               THEN RowOf(threads[th].target, Head(threads[th].todo))
                               ELSE r : r \in rows}
           /\ \/ /\ Owed(Head(threads[th].todo))
                 /\ Goes(th, [todo |-> threads[th].todo, step |-> "tell",
                              target |-> threads[th].target])
              \/ /\ ~Owed(Head(threads[th].todo))
                 /\ Goes(th, [todo |-> Tail(threads[th].todo), step |-> "look", target |-> 0])
  <1> DEFINE s == Head(threads[th].todo)
             id == threads[th].target
  <1>1. threads[th].todo # <<>> /\ threads[th].step = "store"
    BY DEF Store
  <1>2. s \in Messages /\ id \in Nat /\ threads[th] \in ThreadStates
    BY <1>1, HeadIs DEF ThreadsTyped
  <1>3. \/ id = 0 /\ rows' = rows \cup {RowOf(nextId, s)} /\ nextId' = nextId + 1
        \/ id # 0 /\ rows' = {IF r.id = id THEN RowOf(id, s) ELSE r : r \in rows} /\ nextId' = nextId
    BY DEF Store
  <1>4. \/ Owed(s) /\ threads' = [threads EXCEPT ![th].step = "tell"]
        \/ ~Owed(s) /\ Done(th)
    BY DEF Store
  <1> HIDE DEF s, id
  <1>5. TableTyped'
    <2>1. CASE id = 0
      <3>1. RowOf(nextId, s) \in Rows /\ RowOf(nextId, s).id = nextId /\ RowOf(nextId, s).synced
        BY <1>2 DEF RowOf, Rows, Messages, TableTyped, LocalIds, Ids
      <3>2. PICK n \in Rows : n = RowOf(nextId, s)
        BY <3>1
      <3> QED
        BY <1>3, <2>1, <3>1, <3>2, NewRow
    <2>2. CASE id # 0
      <3>1. RowOf(id, s) \in Rows /\ RowOf(id, s).id = id /\ RowOf(id, s).synced
        BY <1>2, <2>2 DEF RowOf, Rows, Messages, LocalIds, Ids
      <3>2. PICK n \in Rows : n = RowOf(id, s)
        BY <3>1
      <3> QED
        BY <1>3, <2>2, <3>1, <3>2, ChangedRow
    <2> QED
      BY <2>1, <2>2
  <1>6. ASSUME Owed(s), threads' = [threads EXCEPT ![th].step = "tell"]
        PROVE  ThreadsTyped' /\ Goes(th, [todo |-> threads[th].todo, step |-> "tell", target |-> id])
    <2> DEFINE n == [todo |-> threads[th].todo, step |-> "tell", target |-> id]
    <2>1. n = [threads[th] EXCEPT !.step = "tell"]
      BY <1>2 DEF ThreadStates, id
    <2>2. threads' = [threads EXCEPT ![th] = n]
      BY <1>6, <2>1
    <2>3. n \in ThreadStates
      BY <1>2 DEF ThreadStates
    <2> HIDE DEF n
    <2>4. threads \in [Threads -> ThreadStates]
      BY DEF ThreadsTyped
    <2>5. ThreadsTyped' /\ Goes(th, n)
      BY <2>2, <2>3, <2>4 DEF ThreadsTyped, Goes
    <2> QED
      BY <2>5 DEF n
  <1>7. ASSUME Done(th)
        PROVE  /\ ThreadsTyped'
               /\ Goes(th, [todo |-> Tail(threads[th].todo), step |-> "look", target |-> 0])
    BY <1>1, <1>7, DoneIs
  <1> QED
    BY <1>1, <1>3, <1>4, <1>5, <1>6, <1>7 DEF s, id

\* A thread acknowledges its message.
LEMMA TellIs ==
    ASSUME TableTyped, ThreadsTyped, WireTyped, NEW th \in Threads, Tell(th)
    PROVE  /\ TableTyped' /\ ThreadsTyped' /\ RowsMarked
           /\ threads[th].todo # <<>> /\ threads[th].step = "tell"
           /\ Packet("DELIVERED", <<Head(threads[th].todo).mid>>) \in Outgoing
           /\ out' = Append(out, Packet("DELIVERED", <<Head(threads[th].todo).mid>>))
           /\ Goes(th, [todo |-> Tail(threads[th].todo), step |-> "look", target |-> 0])
  <1>1. /\ threads[th].todo # <<>> /\ threads[th].step = "tell" /\ Done(th)
        /\ rows' = MarkSeen({Head(threads[th].todo).mid}) /\ nextId' = nextId
        /\ out' = Append(out, Packet("DELIVERED", <<Head(threads[th].todo).mid>>))
    BY DEF Tell
  <1>2. Head(threads[th].todo).mid \in Nat
    BY <1>1, HeadIs DEF Messages, Ids
  <1>3. <<Head(threads[th].todo).mid>> \in Seq(Nat)
    BY <1>2, OneEntry
  <1>4. Packet("DELIVERED", <<Head(threads[th].todo).mid>>) \in Outgoing
    BY <1>3, PacketIs
  <1>5. TableTyped' /\ RowsMarked
    BY <1>1, SeenRows
  <1>6. /\ ThreadsTyped'
        /\ Goes(th, [todo |-> Tail(threads[th].todo), step |-> "look", target |-> 0])
    BY <1>1, DoneIs
  <1> QED
    BY <1>1, <1>4, <1>5, <1>6

\* A packet is sent.
LEMMA PacketSent ==
    ASSUME WireTyped, NEW p \in Outgoing, out' = Append(out, p)
    PROVE  out' \in Seq(Outgoing) /\ Range(out') = Range(out) \cup {p}
  BY GrownQueue, GrownRange DEF WireTyped

\* A packet arrives.
LEMMA PacketArrives ==
    ASSUME WireTyped, NEW p \in Incoming, inbox' = Append(inbox, p)
    PROVE  inbox' \in Seq(Incoming) /\ Range(inbox') = Range(inbox) \cup {p}
  BY GrownQueue, GrownRange DEF WireTyped

\* The last ids of the table.
LEMMA LastIds ==
    ASSUME TableTyped
    PROVE  /\ LastLocalId \in Nat /\ \A r \in rows : r.id <= LastLocalId
           /\ LastLocalId # 0 => \E r \in rows : r.id = LastLocalId
           /\ LastMessageId \in Nat /\ \A r \in rows : r.mid <= LastMessageId
           /\ LastMessageId # 0 => \E r \in rows : r.mid = LastMessageId
  <1> DEFINE I == {r.id : r \in rows}
             M == {r.mid : r \in rows}
             fi == [r \in rows |-> r.id]
             fm == [r \in rows |-> r.mid]
  <1>1. I \in SUBSET Nat /\ M \in SUBSET Nat
    BY DEF TableTyped, Rows, LocalIds
  <1>2. IsFiniteSet(I)
    <2>1. DOMAIN fi = rows /\ I = {fi[r] : r \in rows}
      OBVIOUS
    <2> HIDE DEF fi, I
    <2> QED
      BY <2>1, ImageIsFinite DEF TableTyped
  <1>3. IsFiniteSet(M)
    <2>1. DOMAIN fm = rows /\ M = {fm[r] : r \in rows}
      OBVIOUS
    <2> HIDE DEF fm, M
    <2> QED
      BY <2>1, ImageIsFinite DEF TableTyped
  <1>4. LastLocalId = LastOf(I) /\ LastMessageId = LastOf(M)
    BY DEF LastLocalId, LastMessageId
  <1>5. /\ LastOf(I) \in I \cup {0} /\ \A k \in I : k <= LastOf(I)
        /\ LastOf(M) \in M \cup {0} /\ \A k \in M : k <= LastOf(M)
    <2> HIDE DEF I, M
    <2> QED
      BY <1>1, <1>2, <1>3, LastOfIs
  <1>6. /\ \A r \in rows : r.id \in I /\ r.mid \in M
        /\ \A k \in I : \E r \in rows : r.id = k
        /\ \A k \in M : \E r \in rows : r.mid = k
    OBVIOUS
  <1> HIDE DEF I, M
  <1>7. LastLocalId \in I \cup {0} /\ LastMessageId \in M \cup {0}
    BY <1>4, <1>5
  <1>8. /\ \A r \in rows : r.id <= LastLocalId
        /\ \A r \in rows : r.mid <= LastMessageId
    BY <1>4, <1>5, <1>6, Zenon
  <1> QED
    BY <1>1, <1>6, <1>7, <1>8

-----------------------------------------------------------------------------
(* What each action does, of the variables the properties are about.       *)

\* The user's row is inserted.
LEMMA WriteIs ==
    ASSUME Typed, NEW t \in Own, Write(t)
    PROVE  Typed'
  <1> DEFINE n == [id |-> nextId, mid |-> 0, text |-> t, synced |-> FALSE,
                   seen |-> FALSE, recalled |-> FALSE]
  <1>1. n \in Rows /\ n.id = nextId /\ n.text \in Own
    BY DEF Rows, Texts, Typed, TableTyped
  <1>2. rows' = rows \cup {n} /\ nextId' = nextId + 1
    BY DEF Write
  <1> HIDE DEF n
  <1>3. TableTyped'
    BY <1>1, <1>2, NewRow DEF Typed
  <1>4. StateTyped' /\ HistoryTyped'
    BY DEF Write, Typed, StateTyped, HistoryTyped
  <1>5. DeletionsTyped' /\ ThreadsTyped' /\ WireTyped' /\ LogTyped'
    BY DEF Write, Typed, DeletionsTyped, ThreadsTyped, WireTyped, LogTyped, wire
  <1> QED
    BY <1>3, <1>4, <1>5 DEF Typed

\* The text is sent.
LEMMA SendIs ==
    ASSUME Typed, Send
    PROVE  /\ Typed' /\ writing \in Own
           /\ \/ Range(out') = Range(out)
              \/ /\ link = "ready"
                 /\ Range(out') = Range(out)
                       \cup {Packet("SEND", <<[ref |-> LastLocalId, text |-> writing]>>)}
                 /\ <<[ref |-> LastLocalId, text |-> writing]>> \in Seq([ref : Nat, text : Own])
  <1> DEFINE x == [ref |-> LastLocalId, text |-> writing]
  <1>1. writing \in Own
    BY DEF Send, Typed, StateTyped
  <1>2. x \in [ref : Nat, text : Own]
    BY <1>1, LastIds DEF Typed
  <1>3. out' = out \/ (link = "ready" /\ out' = Append(out, Packet("SEND", <<x>>)))
    BY DEF Send
  <1> HIDE DEF x
  <1>4. <<x>> \in Seq([ref : Nat, text : Own])
    BY <1>2, OneEntry
  <1>5. Packet("SEND", <<x>>) \in Outgoing
    BY <1>4, SendPacketIs
  <1>6. /\ out' \in Seq(Outgoing)
        /\ \/ Range(out') = Range(out)
           \/ link = "ready" /\ Range(out') = Range(out) \cup {Packet("SEND", <<x>>)}
    BY <1>3, <1>5, PacketSent DEF Typed, WireTyped
  <1>7. WireTyped' /\ StateTyped' /\ HistoryTyped'
    BY <1>6 DEF Send, Typed, StateTyped, WireTyped, HistoryTyped
  <1>8. TableTyped' /\ DeletionsTyped' /\ ThreadsTyped' /\ LogTyped'
    BY DEF Send, Typed, TableTyped, DeletionsTyped, ThreadsTyped, LogTyped, store
  <1> QED
    BY <1>1, <1>4, <1>6, <1>7, <1>8 DEF Typed, x

\* A message is deleted.
LEMMA DeleteIs ==
    ASSUME Typed, NEW r \in rows, DeleteMessage(r)
    PROVE  /\ Typed' /\ r \in Rows
           /\ \/ /\ link = "ready" /\ deletions' = deletions
                 /\ Range(out') = Range(out) \cup {Packet("DELETE", <<r.mid>>)}
              \/ /\ link # "ready" /\ deletions' = deletions \cup {r.mid}
                 /\ Range(out') = Range(out)
           /\ Packet("DELETE", <<r.mid>>).type = "DELETE"
           /\ Packet("DELETE", <<r.mid>>).list = <<r.mid>>
  <1>1. r \in Rows /\ r.mid \in Nat /\ r.text \in Texts
    BY DEF Typed, TableTyped, Rows
  <1>2. <<r.mid>> \in Seq(Nat)
    BY <1>1, OneEntry
  <1>3. /\ Packet("DELETE", <<r.mid>>) \in Outgoing
        /\ Packet("DELETE", <<r.mid>>).type = "DELETE" /\ Packet("DELETE", <<r.mid>>).list = <<r.mid>>
    BY <1>2, PacketIs
  <1>4. TableTyped'
    BY FewerRows DEF Typed, DeleteMessage
  <1>5. \/ link = "ready" /\ deletions' = deletions /\ out' = Append(out, Packet("DELETE", <<r.mid>>))
        \/ link # "ready" /\ deletions' = deletions \cup {r.mid} /\ out' = out
    BY DEF DeleteMessage
  <1>6. DeletionsTyped'
    BY <1>1, <1>5, FS_AddElement DEF Typed, DeletionsTyped
  <1>7. /\ out' \in Seq(Outgoing)
        /\ \/ /\ link = "ready" /\ deletions' = deletions
              /\ Range(out') = Range(out) \cup {Packet("DELETE", <<r.mid>>)}
           \/ /\ link # "ready" /\ deletions' = deletions \cup {r.mid}
              /\ Range(out') = Range(out)
    BY <1>3, <1>5, PacketSent DEF Typed, WireTyped
  <1>8. StateTyped' /\ WireTyped' /\ ThreadsTyped' /\ LogTyped'
    BY <1>7 DEF DeleteMessage, Typed, StateTyped, WireTyped, ThreadsTyped, LogTyped
  <1>9. HistoryTyped'
    BY <1>1, MessageBoundsAssumption DEF DeleteMessage, Typed, HistoryTyped, Upset
  <1> QED
    BY <1>1, <1>3, <1>4, <1>6, <1>7, <1>8, <1>9 DEF Typed

\* A message is recalled.
LEMMA RecallIs ==
    ASSUME Typed, NEW r \in rows, RecallMessage(r)
    PROVE  /\ Typed' /\ r \in Rows
           /\ Range(out') = Range(out) \cup {Packet("RECALL", <<r.mid>>)}
           /\ Packet("RECALL", <<r.mid>>).type = "RECALL"
           /\ Packet("RECALL", <<r.mid>>).list = <<r.mid>>
  <1>1. r \in Rows /\ r.mid \in Nat
    BY DEF Typed, TableTyped, Rows
  <1>2. <<r.mid>> \in Seq(Nat)
    BY <1>1, OneEntry
  <1>3. /\ Packet("RECALL", <<r.mid>>) \in Outgoing
        /\ Packet("RECALL", <<r.mid>>).type = "RECALL" /\ Packet("RECALL", <<r.mid>>).list = <<r.mid>>
    BY <1>2, PacketIs
  <1>4. out' \in Seq(Outgoing) /\ Range(out') = Range(out) \cup {Packet("RECALL", <<r.mid>>)}
    BY <1>3, PacketSent DEF Typed, RecallMessage
  <1>5. WireTyped' /\ StateTyped' /\ ThreadsTyped' /\ LogTyped'
    BY <1>4 DEF RecallMessage, Typed, StateTyped, WireTyped, ThreadsTyped, LogTyped
  <1>6. TableTyped' /\ DeletionsTyped'
    BY DEF RecallMessage, Typed, TableTyped, DeletionsTyped, store
  <1>7. HistoryTyped'
    BY MessageBoundsAssumption DEF RecallMessage, Typed, HistoryTyped, Upset
  <1> QED
    BY <1>1, <1>3, <1>4, <1>5, <1>6, <1>7 DEF Typed

\* A thread takes a step.
LEMMA ThreadTypes ==
    ASSUME Typed, NEW th \in Threads, Thread(th)
    PROVE  Typed'
  <1>1. CASE Look(th)
    <2>1. ThreadsTyped'
      BY <1>1, LookIs DEF Typed
    <2> QED
      BY <1>1, <2>1 DEF Look, Typed, TableTyped, DeletionsTyped, StateTyped, WireTyped, LogTyped,
         HistoryTyped, store, wire, history
  <1>2. CASE Store(th)
    <2>1. ThreadsTyped' /\ TableTyped'
      BY <1>2, StoreIs DEF Typed
    <2> QED
      BY <1>2, <2>1 DEF Store, Typed, DeletionsTyped, StateTyped, WireTyped, LogTyped,
         HistoryTyped, wire, history
  <1>3. CASE Tell(th)
    <2>1. /\ ThreadsTyped' /\ TableTyped' /\ Packet("DELIVERED", <<Head(threads[th].todo).mid>>) \in Outgoing
          /\ out' = Append(out, Packet("DELIVERED", <<Head(threads[th].todo).mid>>))
      BY <1>3, TellIs DEF Typed
    <2>2. out' \in Seq(Outgoing)
      BY <2>1, PacketSent DEF Typed
    <2> QED
      BY <1>3, <2>1, <2>2 DEF Tell, Typed, DeletionsTyped, StateTyped, WireTyped, LogTyped,
         HistoryTyped, history
  <1> QED
    BY <1>1, <1>2, <1>3 DEF Thread

\* A packet is taken from those that arrived.
LEMMA TakenIs ==
    ASSUME Typed, Receive
    PROVE  /\ inbox # <<>> /\ Head(inbox) \in Incoming /\ inbox' \in Seq(Incoming)
           /\ Range(inbox) = {Head(inbox)} \cup Range(inbox')
           /\ nextId' = nextId /\ StateTyped' /\ LogTyped' /\ out' = out
  <1>1. /\ inbox # <<>> /\ inbox' = Tail(inbox) /\ inbox \in Seq(Incoming)
        /\ nextId' = nextId /\ out' = out
    BY DEF Receive, Typed, WireTyped
  <1>2. /\ Head(inbox) \in Incoming /\ inbox' \in Seq(Incoming)
        /\ Range(inbox) = {Head(inbox)} \cup Range(inbox')
    BY <1>1, TakenQueue, TakenRange
  <1>3. StateTyped' /\ LogTyped'
    BY DEF Receive, Typed, StateTyped, LogTyped
  <1> QED
    BY <1>1, <1>2, <1>3

\* The event thread handles a packet, one way for each type.
LEMMA ReceiveIs ==
    ASSUME Receive
    PROVE  \/ Head(inbox).type = "MESSAGES" /\ \E th \in Threads : OnMessages(th)
           \/ Head(inbox).type = "DELIVERED" /\ OnDelivered
           \/ Head(inbox).type = "RECALL" /\ OnRecall
           \/ Head(inbox).type = "DELETE" /\ OnDeleteAck
           \/ Head(inbox).type = "SYNC_DELETE" /\ OnSyncDeleteAck
  BY DEF Receive

\* Messages go to a thread.
LEMMA OnMessagesIs ==
    ASSUME Typed, Receive, Head(inbox).type = "MESSAGES", NEW th \in Threads, OnMessages(th)
    PROVE  /\ Typed' /\ Head(inbox).list \in Seq(Messages)
           /\ threads[th].todo = <<>> /\ shared \subseteq shared'
           /\ Goes(th, [todo |-> Head(inbox).list, step |-> "look", target |-> 0])
           /\ \A i \in DOMAIN Head(inbox).list : Head(inbox).list[i].mid \in AllHandled =>
                 Head(inbox).list[i].mid \in shared'
  <1>1. Head(inbox).list \in Seq(Messages)
    BY TakenIs, IncomingIs
  <1>2. PICK l \in Seq(Messages) : l = Head(inbox).list
    BY <1>1
  <1>3. Start(th, l)
    BY <1>2 DEF OnMessages
  <1>4. ThreadsTyped /\ shared \subseteq Ids
    BY DEF Typed, HistoryTyped
  <1>5. /\ ThreadsTyped' /\ shared' \subseteq Ids /\ shared \subseteq shared'
        /\ threads[th].todo = <<>> /\ Goes(th, [todo |-> l, step |-> "look", target |-> 0])
        /\ \A i \in DOMAIN l : l[i].mid \in AllHandled => l[i].mid \in shared'
    BY <1>3, <1>4, StartIs
  <1>6. TableTyped' /\ DeletionsTyped'
    BY DEF OnMessages, Receive, Typed, TableTyped, DeletionsTyped
  <1>7. WireTyped' /\ StateTyped' /\ LogTyped'
    BY TakenIs DEF Typed, WireTyped
  <1>8. HistoryTyped'
    BY <1>5 DEF OnMessages, Receive, Typed, HistoryTyped
  <1> QED
    BY <1>1, <1>2, <1>5, <1>6, <1>7, <1>8 DEF Typed

\* A notice of delivery or recall, which marks rows.
LEMMA OnNoticeIs ==
    ASSUME Typed, Receive,
           \/ Head(inbox).type = "DELIVERED" /\ OnDelivered
           \/ Head(inbox).type = "RECALL" /\ OnRecall
    PROVE  /\ Typed' /\ RowsMarked /\ Head(inbox).list \in Seq(Nat)
           /\ deletions' = deletions /\ threads' = threads /\ shared' = shared
  <1>1. Head(inbox).list \in Seq(Nat)
    BY TakenIs, IncomingIs
  <1>2. nextId' = nextId
    BY TakenIs
  <1>3. TableTyped' /\ RowsMarked
    BY <1>2, SeenRows, RecalledRows DEF OnDelivered, OnRecall, Typed
  <1>4. raced' \subseteq Ids
    BY HandledAre DEF OnDelivered, OnRecall, Typed, HistoryTyped
  <1>5. WireTyped' /\ StateTyped' /\ LogTyped'
    BY TakenIs DEF Typed, WireTyped
  <1>6. deletions' = deletions /\ threads' = threads /\ shared' = shared
    BY DEF OnDelivered, OnRecall
  <1>7. HistoryTyped' /\ DeletionsTyped' /\ ThreadsTyped'
    BY <1>4, <1>6 DEF Receive, Typed, HistoryTyped, DeletionsTyped, ThreadsTyped
  <1> QED
    BY <1>1, <1>3, <1>5, <1>6, <1>7 DEF Typed

\* The answers to deletions.
LEMMA OnDeletionIs ==
    ASSUME Typed, Receive,
           \/ Head(inbox).type = "DELETE" /\ OnDeleteAck
           \/ Head(inbox).type = "SYNC_DELETE" /\ OnSyncDeleteAck
    PROVE  /\ Typed' /\ rows' \subseteq rows /\ deletions' \subseteq deletions
           /\ Head(inbox).list \in Seq(Nat)
           /\ threads' = threads /\ shared' = shared /\ raced' = raced
  <1>1. Head(inbox).list \in Seq(Nat)
    BY TakenIs, IncomingIs
  <1>2. nextId' = nextId
    BY TakenIs
  <1>3. /\ rows' \subseteq rows /\ deletions' \subseteq deletions
        /\ threads' = threads /\ shared' = shared /\ raced' = raced
    BY DEF OnDeleteAck, OnSyncDeleteAck
  <1>4. TableTyped'
    BY <1>2, <1>3, FewerRows DEF Typed
  <1>5. DeletionsTyped'
    BY <1>3, FS_Subset DEF Typed, DeletionsTyped
  <1>6. WireTyped' /\ StateTyped' /\ LogTyped'
    BY TakenIs DEF Typed, WireTyped
  <1>7. HistoryTyped' /\ ThreadsTyped'
    BY <1>3 DEF Receive, Typed, HistoryTyped, ThreadsTyped
  <1> QED
    BY <1>1, <1>3, <1>4, <1>5, <1>6, <1>7 DEF Typed

\* An access token.
LEMMA TokenIs ==
    ASSUME Typed, Token
    PROVE  Typed'
  <1>1. Request \in Nat
    BY LastIds DEF Request, Typed
  <1>2. StateTyped'
    BY <1>1 DEF Token, Typed, StateTyped
  <1> QED
    BY <1>2 DEF Token, Typed, TableTyped, DeletionsTyped, ThreadsTyped, WireTyped, LogTyped,
       HistoryTyped, store, wire, history

\* What is sent of the rows that are not (Unsent): each once, and nothing else.
LEMMA UnsentIs ==
    ASSUME TableTyped
    PROVE  /\ Unsent \in Seq(Nat) /\ \A j, k \in DOMAIN Unsent : j < k => Unsent[j] < Unsent[k]
           /\ \A j \in DOMAIN Unsent :
                 \E r \in rows : ~r.synced /\ Unsent[j] = r.id /\ RowAt(Unsent[j]) = r
           /\ \A r \in rows : ~r.synced => \E j \in DOMAIN Unsent : Unsent[j] = r.id
           /\ Unsent = <<>> <=> \A r \in rows : r.synced
  <1> DEFINE U == {x \in rows : ~x.synced}
             f == [r \in U |-> r.id]
             S == {r.id : r \in U}
  <1>1. IsFiniteSet(U)
    BY FS_Subset DEF TableTyped
  <1>2. IsFiniteSet(S) /\ S \in SUBSET Nat
    <2>1. S = {f[r] : r \in U} /\ DOMAIN f = U
      OBVIOUS
    <2>2. S \in SUBSET Nat
      BY DEF TableTyped, Rows, LocalIds
    <2> HIDE DEF f, U, S
    <2> QED
      BY <1>1, <2>1, <2>2, ImageIsFinite
  <1>3. /\ \A n \in S : \E r \in rows : ~r.synced /\ n = r.id
        /\ \A r \in rows : ~r.synced => r.id \in S
    OBVIOUS
  <1>4. Unsent = InOrder(S)
    BY DEF Unsent
  <1> HIDE DEF S, U
  <1>5. /\ Unsent \in Seq(S) /\ Range(Unsent) = S /\ (S = {} <=> Unsent = <<>>)
        /\ \A j, k \in DOMAIN Unsent : j < k => Unsent[j] < Unsent[k]
    BY <1>2, <1>4, InOrderIs
  <1>6. \A j \in DOMAIN Unsent : Unsent[j] \in S
    BY <1>5, QueueEntries
  <1>7. Unsent \in Seq(Nat)
    <2>1. Unsent = [j \in DOMAIN Unsent |-> Unsent[j]]
      BY <1>5
    <2>2. \A j \in DOMAIN Unsent : Unsent[j] \in Nat
      BY <1>2, <1>6
    <2> QED
      BY <1>5, <2>1, <2>2, MapIs
  <1>8. \A r \in rows : RowAt(r.id) = r
    BY DEF RowAt, TableTyped
  <1>9. \A n \in S : \E j \in DOMAIN Unsent : Unsent[j] = n
    BY <1>5 DEF Range
  <1> QED
    BY <1>3, <1>5, <1>6, <1>7, <1>8, <1>9

\* The unsent rows are sent.
LEMMA SyncLocalIs ==
    ASSUME Typed, SyncLocal
    PROVE  /\ Typed'
           /\ \/ Range(out') = Range(out) /\ \A r \in rows : r.synced
              \/ \E l \in Seq([ref : Nat, text : Own]) :
                    /\ Range(out') = Range(out) \cup {Packet("SEND", l)}
                    /\ \A j \in DOMAIN l : \E r \in rows :
                          ~r.synced /\ l[j] = [ref |-> r.id, text |-> r.text]
                    /\ \A j, k \in DOMAIN l : l[j].ref = l[k].ref => j = k
                    /\ \A r \in rows : ~r.synced =>
                          \E j \in DOMAIN l : l[j] = [ref |-> r.id, text |-> r.text]
  <1> DEFINE l == [j \in DOMAIN Unsent |-> [ref |-> Unsent[j], text |-> RowAt(Unsent[j]).text]]
  <1>1. TableTyped
    BY DEF Typed
  <1>2. Unsent \in Seq(Nat) /\ \A j \in DOMAIN Unsent : j \in Nat /\ Unsent[j] \in Nat
    BY <1>1, UnsentIs, QueueEntries
  <1>3. /\ DOMAIN l = DOMAIN Unsent /\ l = [j \in DOMAIN Unsent |-> l[j]]
        /\ \A j \in DOMAIN l : \E r \in rows : ~r.synced /\ l[j] = [ref |-> r.id, text |-> r.text]
    BY <1>1, UnsentIs
  <1>4. \A j \in DOMAIN l : l[j].ref = Unsent[j]
    OBVIOUS
  <1>5. \A r \in rows : ~r.synced => \E j \in DOMAIN l : l[j] = [ref |-> r.id, text |-> r.text]
    <2>1. TAKE r \in rows
    <2>2. HAVE ~r.synced
    <2>3. PICK j \in DOMAIN Unsent : Unsent[j] = r.id
      BY <1>1, <2>1, <2>2, UnsentIs
    <2>4. RowAt(r.id) = r
      BY <1>1, <2>1 DEF RowAt, TableTyped
    <2>5. l[j] = [ref |-> r.id, text |-> r.text]
      BY <2>3, <2>4
    <2> QED
      BY <2>3, <2>5
  <1>6. out' = IF Unsent = <<>> THEN out ELSE Append(out, Packet("SEND", l))
    BY DEF SyncLocal
  <1> HIDE DEF l
  <1>7. \A j, k \in DOMAIN l : l[j].ref = l[k].ref => j = k
    <2>1. TAKE j, k \in DOMAIN l
    <2>2. j \in Nat /\ k \in Nat /\ Unsent[j] \in Nat /\ Unsent[k] \in Nat
      BY <1>2, <1>3, <2>1
    <2>3. /\ j < k => Unsent[j] < Unsent[k]
          /\ k < j => Unsent[k] < Unsent[j]
      BY <1>1, <1>3, <2>1, UnsentIs
    <2> QED
      BY <1>4, <2>1, <2>2, <2>3
  <1>8. \A j \in DOMAIN Unsent : l[j] \in [ref : Nat, text : Own]
    BY <1>1, <1>3 DEF TableTyped, Rows, LocalIds
  <1>9. l \in Seq([ref : Nat, text : Own])
    BY <1>2, <1>3, <1>8, MapIs
  <1>10. Packet("SEND", l) \in Outgoing
    BY <1>9, SendPacketIs
  <1>11. /\ out' \in Seq(Outgoing)
         /\ \/ Range(out') = Range(out) /\ \A r \in rows : r.synced
            \/ Range(out') = Range(out) \cup {Packet("SEND", l)}
    <2>1. CASE Unsent = <<>>
      BY <1>1, <1>6, <2>1, UnsentIs DEF Typed, WireTyped
    <2>2. CASE Unsent # <<>>
      BY <1>6, <1>10, <2>2, PacketSent DEF Typed
    <2> QED
      BY <2>1, <2>2
  <1>12. WireTyped' /\ StateTyped' /\ HistoryTyped'
    BY <1>11 DEF SyncLocal, Typed, StateTyped, WireTyped, HistoryTyped, history
  <1>13. TableTyped' /\ DeletionsTyped' /\ ThreadsTyped' /\ LogTyped'
    BY DEF SyncLocal, Typed, TableTyped, DeletionsTyped, ThreadsTyped, LogTyped, store
  <1>14. Typed'
    BY <1>12, <1>13 DEF Typed
  <1> QED
    BY <1>3, <1>5, <1>7, <1>9, <1>11, <1>14

\* The messages of others that are not shown as read (SyncTheRest).
Unseen == {r.mid : r \in {x \in rows : x.text \in Others /\ ~x.seen}}

\* The queued deletions and the receipts that are missing are sent.
LEMMA SyncTheRestIs ==
    ASSUME Typed, SyncTheRest
    PROVE  /\ Typed' /\ RowsMarked /\ rows' = MarkSeen(Unseen)
           /\ Range(out) \subseteq Range(out')
           /\ \A p \in Range(out') \ Range(out) :
                 \/ \E d \in deletions : p.type = "SYNC_DELETE" /\ p.list = <<d>>
                 \/ p.type = "DELIVERED" /\ p.list \in Seq(Unseen)
  <1> DEFINE n == Cardinality(deletions)
             D == InOrder(deletions)
             f == [i \in 1 .. n |-> Packet("SYNC_DELETE", <<D[i]>>)]
             E == InOrder(Unseen)
             e == IF Unseen = {} THEN <<>> ELSE <<Packet("DELIVERED", E)>>
  <1>1. Unseen \in SUBSET Nat /\ IsFiniteSet(Unseen)
    <2> DEFINE U == {x \in rows : x.text \in Others /\ ~x.seen}
               g == [r \in U |-> r.mid]
    <2>1. IsFiniteSet(U)
      BY FS_Subset DEF Typed, TableTyped
    <2>2. Unseen = {g[r] : r \in U} /\ DOMAIN g = U
      BY DEF Unseen
    <2>3. Unseen \in SUBSET Nat
      BY DEF Typed, TableTyped, Rows, Unseen
    <2> HIDE DEF U, g
    <2> QED
      BY <2>1, <2>2, <2>3, ImageIsFinite
  <1>2. deletions \in SUBSET Nat /\ IsFiniteSet(deletions)
    BY DEF Typed, DeletionsTyped
  <1>3. D \in [1 .. n -> deletions] /\ n \in Nat
    BY <1>2, RankExists, FS_CardinalityType DEF InOrder
  <1>4. E \in Seq(Unseen)
    BY <1>1, InOrderIs
  <1>5. out' = (out \o f) \o e /\ rows' = MarkSeen(Unseen) /\ nextId' = nextId
    BY DEF SyncTheRest, Unseen
  <1>6. \A i \in 1 .. n : f[i] = Packet("SYNC_DELETE", <<D[i]>>) /\ D[i] \in deletions
    BY <1>3
  <1> HIDE DEF E, D, n
  <1>7. f \in Seq(Outgoing) /\ DOMAIN f = 1 .. n
    <2>1. \A i \in 1 .. n : f[i] \in Outgoing
      <3>1. TAKE i \in 1 .. n
      <3>2. <<D[i]>> \in Seq(Nat)
        BY <1>2, <1>6, OneEntry
      <3>3. PICK l \in Seq(Nat) : l = <<D[i]>>
        BY <3>2
      <3>4. Packet("SYNC_DELETE", l) \in Outgoing
        BY PacketIs
      <3> QED
        BY <1>6, <3>3, <3>4
    <2>2. f \in [1 .. n -> Outgoing]
      BY <2>1
    <2> QED
      BY <1>3, <2>2, SeqDef
  <1> HIDE DEF f
  <1>8. \A p \in Range(f) : \E d \in deletions : p.type = "SYNC_DELETE" /\ p.list = <<d>>
    BY <1>6, <1>7 DEF Range, Packet
  <1>9. e \in Seq(Outgoing) /\ \A p \in Range(e) : p.type = "DELIVERED" /\ p.list = E
    <2>1. CASE Unseen = {}
      <3>1. e = <<>> /\ Range(e) = {}
        BY <2>1, NothingInRange
      <3> QED
        BY <3>1
    <2>2. CASE Unseen # {}
      <3>1. E = [j \in DOMAIN E |-> E[j]] /\ \A j \in DOMAIN E : E[j] \in Nat
        BY <1>1, <1>4, QueueEntries
      <3>2. E \in Seq(Nat)
        BY <1>4, <3>1, MapIs
      <3>3. PICK q \in Outgoing : q = Packet("DELIVERED", E) /\ q.type = "DELIVERED" /\ q.list = E
        BY <3>2, PacketIs
      <3>4. e = <<q>>
        BY <2>2, <3>3
      <3> QED
        BY <3>3, <3>4, OneEntry
    <2> QED
      BY <2>1, <2>2
  <1> HIDE DEF e
  <1>10. /\ out' \in Seq(Outgoing)
         /\ Range(out') = (Range(out) \cup Range(f)) \cup Range(e)
    <2>1. out \o f \in Seq(Outgoing) /\ Range(out \o f) = Range(out) \cup Range(f)
      BY <1>7, JoinedQueue, JoinedRange DEF Typed, WireTyped
    <2>2. PICK g \in Seq(Outgoing) : g = out \o f
      BY <2>1
    <2>3. g \o e \in Seq(Outgoing) /\ Range(g \o e) = Range(g) \cup Range(e)
      BY <1>9, JoinedQueue, JoinedRange
    <2> QED
      BY <1>5, <2>1, <2>2, <2>3
  <1>11. TableTyped' /\ RowsMarked
    BY <1>5, SeenRows DEF Typed
  <1>12. WireTyped' /\ StateTyped' /\ HistoryTyped'
    BY <1>10 DEF SyncTheRest, Typed, StateTyped, WireTyped, HistoryTyped, history
  <1>13. DeletionsTyped' /\ ThreadsTyped' /\ LogTyped'
    BY DEF SyncTheRest, Typed, DeletionsTyped, ThreadsTyped, LogTyped
  <1>14. Typed'
    BY <1>11, <1>12, <1>13 DEF Typed
  <1> QED
    BY <1>4, <1>5, <1>8, <1>9, <1>10, <1>11, <1>14

\* The message of the server under an id.
LEMMA MessageIs ==
    ASSUME NEW s \in Seq(Entries), NEW i \in DOMAIN s
    PROVE  /\ Message(s, i) \in Messages /\ Message(s, i).mid = i
           /\ Message(s, i).text = s[i].text /\ Message(s, i).ref = s[i].ref
           /\ Message(s, i).seen = s[i].seen /\ Message(s, i).recalled = s[i].recalled
  <1>1. s[i] \in Entries /\ i \in Nat \ {0}
    BY QueueEntries
  <1> QED
    BY <1>1 DEF Message, Messages, Entries, Ids

\* What a synchronisation is answered that told f (FetchAnswer).
Wanted(f) == {i \in DOMAIN srv : ~srv[i].deleted /\
                 (i > f \/ srv[i].recalled \/ (srv[i].text \in Own /\ srv[i].seen))}

\* A synchronisation is answered.
LEMMA FetchAnswerIs ==
    ASSUME Typed, NEW f \in fetches, NEW th \in Threads, FetchAnswer(f, th)
    PROVE  /\ Typed' /\ threads[th].todo = <<>> /\ shared \subseteq shared'
           /\ fetches' = fetches \ {f}
           /\ \E l \in Seq(Messages) :
                 /\ Goes(th, [todo |-> l, step |-> "look", target |-> 0])
                 /\ \A k \in DOMAIN l : l[k].mid \in AllHandled => l[k].mid \in shared'
                 /\ \A k \in DOMAIN l : \E i \in Wanted(f) : l[k] = Message(srv, i)
                 /\ \A i \in Wanted(f) : \E k \in DOMAIN l : l[k] = Message(srv, i)
  <1> DEFINE ids == InOrder(Wanted(f))
             l == [k \in DOMAIN ids |-> Message(srv, ids[k])]
  <1>1. srv \in Seq(Entries) /\ Len(srv) \in Nat /\ DOMAIN srv = 1 .. Len(srv)
    BY QueueEntries DEF Typed, LogTyped
  <1>2. Wanted(f) \in SUBSET Nat /\ IsFiniteSet(Wanted(f))
    <2>1. Wanted(f) \in SUBSET Nat /\ \A i \in Wanted(f) : i <= Len(srv)
      BY <1>1 DEF Wanted
    <2> QED
      BY <1>1, <2>1, FS_BoundedSetOfNaturals
  <1>3. ids \in Seq(Wanted(f)) /\ Range(ids) = Wanted(f)
    BY <1>2, InOrderIs
  <1>4. fetches' = fetches \ {f} /\ Start(th, l)
    BY DEF FetchAnswer, Wanted
  <1> HIDE DEF ids
  <1>5. /\ \A k \in DOMAIN ids : ids[k] \in Wanted(f)
        /\ \A i \in Wanted(f) : \E k \in DOMAIN ids : ids[k] = i
    BY <1>3, QueueEntries DEF Range
  <1>6. /\ DOMAIN l = DOMAIN ids /\ l = [k \in DOMAIN ids |-> l[k]]
        /\ \A k \in DOMAIN ids : l[k] = Message(srv, ids[k])
    OBVIOUS
  <1> HIDE DEF l
  <1>7. \A i \in Wanted(f) : Message(srv, i) \in Messages
    BY <1>1, MessageIs DEF Wanted
  <1>8. l \in Seq(Messages)
    BY <1>3, <1>5, <1>6, <1>7, MapIs
  <1>9. ThreadsTyped /\ shared \subseteq Ids
    BY DEF Typed, HistoryTyped
  <1>10. /\ ThreadsTyped' /\ shared' \subseteq Ids /\ shared \subseteq shared'
         /\ threads[th].todo = <<>> /\ Goes(th, [todo |-> l, step |-> "look", target |-> 0])
         /\ \A k \in DOMAIN l : l[k].mid \in AllHandled => l[k].mid \in shared'
    BY <1>4, <1>8, <1>9, StartIs
  <1>11. TableTyped' /\ DeletionsTyped' /\ WireTyped' /\ LogTyped'
    BY DEF FetchAnswer, Typed, TableTyped, DeletionsTyped, WireTyped, LogTyped, store, wire
  <1>12. StateTyped' /\ HistoryTyped'
    BY <1>10 DEF FetchAnswer, Typed, StateTyped, HistoryTyped
  <1>13. Typed'
    BY <1>10, <1>11, <1>12 DEF Typed
  <1>14. /\ \A k \in DOMAIN l : \E i \in Wanted(f) : l[k] = Message(srv, i)
         /\ \A i \in Wanted(f) : \E k \in DOMAIN l : l[k] = Message(srv, i)
    BY <1>5, <1>6
  <1> QED
    BY <1>4, <1>8, <1>10, <1>13, <1>14, Zenon

\* A request fails, the connection is lost, the process ends.
LEMMA UpsetTypes ==
    ASSUME Typed, (\E f \in fetches : FetchFails(f)) \/ Disconnect \/ Kill
    PROVE  Typed'
  <1>1. HistoryTyped'
    <2>1. Upset
      BY DEF FetchFails, Disconnect, Kill
    <2>2. upsets' \in 0 .. MaxUpsets
      BY <2>1, MessageBoundsAssumption DEF Typed, HistoryTyped, Upset
    <2>3. /\ typed' = typed /\ removed' = removed /\ crossed' = crossed /\ shared' = shared
          /\ raced' = raced
          /\ hurt' \in BOOLEAN
      BY DEF FetchFails, Disconnect, Kill, Typed, HistoryTyped
    <2> QED
      BY <2>2, <2>3 DEF Typed, HistoryTyped
  <1>2. StateTyped'
    BY DEF FetchFails, Disconnect, Kill, Typed, StateTyped
  <1>3. TableTyped' /\ DeletionsTyped' /\ LogTyped'
    BY DEF FetchFails, Disconnect, Kill, Typed, TableTyped, DeletionsTyped, LogTyped, store
  <1>4. ThreadsTyped'
    <2>1. Resting \in ThreadStates
      BY EmptySeq DEF Resting, ThreadStates
    <2> QED
      BY <2>1 DEF FetchFails, Disconnect, Kill, Typed, ThreadsTyped
  <1>5. WireTyped'
    BY EmptySeq DEF FetchFails, Disconnect, Kill, Typed, WireTyped, wire
  <1> QED
    BY <1>1, <1>2, <1>3, <1>4, <1>5 DEF Typed

\* The messages of the server stay, with their marks.
SrvKept ==
    \A i \in DOMAIN srv :
        /\ i \in DOMAIN srv' /\ srv'[i].text = srv[i].text /\ srv'[i].ref = srv[i].ref
        /\ (srv[i].seen => srv'[i].seen) /\ (srv[i].recalled => srv'[i].recalled)
        /\ (srv[i].deleted => srv'[i].deleted)

\* A packet is taken by the server.
LEMMA ServedIs ==
    ASSUME Typed, Serve
    PROVE  /\ out # <<>> /\ Head(out) \in Outgoing /\ out' \in Seq(Outgoing)
           /\ Range(out) = {Head(out)} \cup Range(out')
           /\ TableTyped' /\ DeletionsTyped' /\ StateTyped' /\ ThreadsTyped' /\ HistoryTyped'
  <1>1. /\ out # <<>> /\ out' = Tail(out) /\ out \in Seq(Outgoing)
    BY DEF Serve, Typed, WireTyped
  <1>2. /\ Head(out) \in Outgoing /\ out' \in Seq(Outgoing)
        /\ Range(out) = {Head(out)} \cup Range(out')
    BY <1>1, TakenQueue, TakenRange
  <1> QED
    BY <1>1, <1>2 DEF Serve, Typed, TableTyped, DeletionsTyped, StateTyped, ThreadsTyped,
       HistoryTyped, store, history

\* The server takes texts, those it does not have.
LEMMA ServeSendIs ==
    ASSUME Typed, Serve, Head(out).type = "SEND"
    PROVE  /\ Typed' /\ SrvKept /\ Head(out).list \in Seq([ref : Nat, text : Own])
           /\ srv' = Accept(srv, Head(out).list)
           /\ \E q \in Incoming :
                 /\ inbox' = Append(inbox, q) /\ q.type = "MESSAGES" /\ q.list \in Seq(Messages)
                 /\ DOMAIN q.list = DOMAIN Head(out).list
                 /\ \A k \in DOMAIN q.list : \E i \in DOMAIN srv' :
                       srv'[i].ref = Head(out).list[k].ref /\ q.list[k] = Message(srv', i)
  <1>1. PICK l \in Seq([ref : Nat, text : Own]) : l = Head(out).list
    BY ServedIs, OutgoingIs
  <1> DEFINE m == [k \in DOMAIN l |-> Message(srv', IdOf(srv', l[k].ref))]
  <1>2. srv' = Accept(srv, l) /\ inbox' = Append(inbox, Packet("MESSAGES", m))
    BY <1>1 DEF Serve
  <1>3. srv \in Seq(Entries) /\ inbox \in Seq(Incoming)
    BY DEF Typed, LogTyped, WireTyped
  <1>4. PICK a : a = Accept(srv, l)
    OBVIOUS
  <1>5. PICK s \in Seq(Entries) : s = srv
    BY <1>3
  <1>6. /\ Accept(s, l) \in Seq(Entries)
        /\ \A i \in DOMAIN s : i \in DOMAIN Accept(s, l) /\ Accept(s, l)[i] = s[i]
        /\ \A j \in DOMAIN l : Stored(Accept(s, l), l[j].ref)
    BY AcceptIs
  <1>7. /\ a \in Seq(Entries) /\ \A i \in DOMAIN srv : i \in DOMAIN a /\ a[i] = srv[i]
        /\ \A j \in DOMAIN l : Stored(a, l[j].ref)
    BY <1>4, <1>5, <1>6
  <1>8. srv' = a /\ SrvKept
    BY <1>2, <1>4, <1>7 DEF SrvKept
  <1>9. \A k \in DOMAIN l : IdOf(a, l[k].ref) \in DOMAIN a /\ a[IdOf(a, l[k].ref)].ref = l[k].ref
    BY <1>7 DEF Stored, IdOf
  <1>10. /\ DOMAIN m = DOMAIN l /\ m = [k \in DOMAIN l |-> m[k]]
         /\ \A k \in DOMAIN l : m[k] = Message(a, IdOf(a, l[k].ref))
    BY <1>8
  <1> HIDE DEF m
  <1>11. \A k \in DOMAIN l : m[k] \in Messages
    BY <1>7, <1>9, <1>10, MessageIs
  <1>12. m \in Seq(Messages)
    <2>1. l \in Seq([ref : Nat, text : Own])
      BY <1>1
    <2>2. m = [k \in DOMAIN l |-> m[k]]
      BY <1>10
    <2> QED
      BY <1>11, <2>1, <2>2, MapIs
  <1>13. PICK q \in Incoming : q = Packet("MESSAGES", m) /\ q.type = "MESSAGES" /\ q.list = m
    BY <1>12, AnswerIs
  <1>14. inbox' \in Seq(Incoming)
    BY <1>2, <1>13, PacketArrives DEF Typed
  <1>15. Typed'
    BY <1>7, <1>8, <1>14, ServedIs DEF Typed, LogTyped, WireTyped
  <1>16. /\ inbox' = Append(inbox, q) /\ q.list \in Seq(Messages) /\ DOMAIN q.list = DOMAIN l
         /\ \A k \in DOMAIN q.list : \E i \in DOMAIN srv' :
               srv'[i].ref = l[k].ref /\ q.list[k] = Message(srv', i)
    <2>1. \A k \in DOMAIN l : \E i \in DOMAIN a :
             a[i].ref = l[k].ref /\ m[k] = Message(a, i)
      BY <1>9, <1>10
    <2>2. srv' = a
      BY <1>8
    <2>3. inbox' = Append(inbox, q) /\ q.list = m
      BY <1>2, <1>13
    <2> QED
      BY <1>10, <1>12, <2>1, <2>2, <2>3
  <1> QED
    BY <1>1, <1>2, <1>8, <1>13, <1>15, <1>16

\* What the server takes of a list of texts: those under references it does not have.
LEMMA AcceptedIs ==
    ASSUME Typed, Serve, Head(out).type = "SEND"
    PROVE  /\ srv' \in Seq(Entries) /\ Head(out).list \in Seq([ref : Nat, text : Own])
           /\ \A i \in DOMAIN srv : i \in DOMAIN srv' /\ srv'[i] = srv[i]
           /\ \A i \in DOMAIN srv' \ DOMAIN srv : \E j \in DOMAIN Head(out).list :
                 /\ srv'[i] = Entry(Head(out).list[j].text, Head(out).list[j].ref)
                 /\ ~Stored(srv, Head(out).list[j].ref)
           /\ \A j \in DOMAIN Head(out).list : Stored(srv', Head(out).list[j].ref)
           /\ (\A j, k \in DOMAIN Head(out).list : Head(out).list[j].ref = Head(out).list[k].ref => j = k)
                => \A i, k \in DOMAIN srv' \ DOMAIN srv : srv'[i].ref = srv'[k].ref => i = k
  <1>1. PICK l \in Seq([ref : Nat, text : Own]) : l = Head(out).list
    BY ServedIs, OutgoingIs
  <1>2. PICK s \in Seq(Entries) : s = srv
    BY DEF Typed, LogTyped
  <1>3. srv' = Accept(s, l)
    BY <1>1, <1>2 DEF Serve
  <1>4. /\ Accept(s, l) \in Seq(Entries)
        /\ \A i \in DOMAIN s : i \in DOMAIN Accept(s, l) /\ Accept(s, l)[i] = s[i]
        /\ \A i \in DOMAIN Accept(s, l) \ DOMAIN s : \E j \in DOMAIN l :
              Accept(s, l)[i] = Entry(l[j].text, l[j].ref) /\ ~Stored(s, l[j].ref)
        /\ \A j \in DOMAIN l : Stored(Accept(s, l), l[j].ref)
        /\ (\A j, k \in DOMAIN l : l[j].ref = l[k].ref => j = k)
              => \A i, k \in DOMAIN Accept(s, l) \ DOMAIN s :
                    Accept(s, l)[i].ref = Accept(s, l)[k].ref => i = k
    BY AcceptIs
  <1>5. PICK a : a = Accept(s, l)
    OBVIOUS
  <1>6. /\ a \in Seq(Entries)
        /\ \A i \in DOMAIN s : i \in DOMAIN a /\ a[i] = s[i]
        /\ \A i \in DOMAIN a \ DOMAIN s : \E j \in DOMAIN l :
              a[i] = Entry(l[j].text, l[j].ref) /\ ~Stored(s, l[j].ref)
        /\ \A j \in DOMAIN l : Stored(a, l[j].ref)
        /\ (\A j, k \in DOMAIN l : l[j].ref = l[k].ref => j = k)
              => \A i, k \in DOMAIN a \ DOMAIN s : a[i].ref = a[k].ref => i = k
    BY <1>4, <1>5
  <1>7. srv' = a
    BY <1>3, <1>5
  <1> QED
    BY <1>1, <1>2, <1>6, <1>7

\* The server takes a receipt, a recall or a deletion.
LEMMA ServeNoticeIs ==
    ASSUME Typed, Serve, Head(out).type # "SEND"
    PROVE  /\ Typed' /\ SrvKept /\ DOMAIN srv' = DOMAIN srv /\ Head(out).list \in Seq(Nat)
           /\ \A i \in DOMAIN srv :
                 /\ srv'[i].seen <=> (srv[i].seen \/ (Head(out).type = "DELIVERED"
                                                       /\ i \in Range(Head(out).list)))
                 /\ srv'[i].recalled <=> (srv[i].recalled \/ (Head(out).type = "RECALL"
                                                               /\ i = Head(out).list[1]))
                 /\ srv'[i].deleted <=> (srv[i].deleted
                                         \/ (Head(out).type \in {"DELETE", "SYNC_DELETE"}
                                             /\ i = Head(out).list[1]))
           /\ \/ inbox' = inbox /\ (Head(out).type = "DELIVERED" \/ Head(out) = Packet("DELETE", <<0>>))
              \/ /\ inbox' = Append(inbox, Head(out)) /\ Head(out) \in Incoming
                 /\ Head(out).type \in {"RECALL", "DELETE", "SYNC_DELETE"}
                 /\ Head(out) # Packet("DELETE", <<0>>)
  <1> DEFINE p == Head(out)
             l == Head(out).list
  <1>1. /\ p \in Outgoing /\ l \in Seq(Nat)
        /\ p.type \in {"DELIVERED", "RECALL", "DELETE", "SYNC_DELETE"}
    BY ServedIs, OutgoingIs
  <1>2. p \in Incoming
    BY <1>1 DEF Outgoing, Incoming
  <1>3. srv \in Seq(Entries) /\ Len(srv) \in Nat /\ DOMAIN srv = 1 .. Len(srv)
        /\ \A i \in DOMAIN srv : srv[i] \in Entries
    BY QueueEntries DEF Typed, LogTyped
  <1>4. \/ /\ p.type = "DELIVERED"
           /\ srv' = [i \in DOMAIN srv |->
                         IF i \in Range(l) THEN [srv[i] EXCEPT !.seen = TRUE] ELSE srv[i]]
           /\ inbox' = inbox
        \/ /\ p.type = "RECALL" /\ srv' = [srv EXCEPT ![l[1]].recalled = TRUE]
           /\ inbox' = Append(inbox, p)
        \/ /\ p.type \in {"DELETE", "SYNC_DELETE"}
           /\ srv' = [i \in DOMAIN srv |->
                         IF i = l[1] THEN [srv[i] EXCEPT !.deleted = TRUE] ELSE srv[i]]
           /\ inbox' = IF p = Packet("DELETE", <<0>>) THEN inbox ELSE Append(inbox, p)
    BY <1>1 DEF Serve
  <1> HIDE DEF p, l
  <1>5. ASSUME NEW e \in Entries
        PROVE  /\ \A n : n = [e EXCEPT !.seen = TRUE] =>
                     /\ n \in Entries /\ n.text = e.text /\ n.ref = e.ref
                     /\ n.seen /\ n.recalled = e.recalled /\ n.deleted = e.deleted
               /\ \A n : n = [e EXCEPT !.recalled = TRUE] =>
                     /\ n \in Entries /\ n.text = e.text /\ n.ref = e.ref
                     /\ n.recalled /\ n.seen = e.seen /\ n.deleted = e.deleted
               /\ \A n : n = [e EXCEPT !.deleted = TRUE] =>
                     /\ n \in Entries /\ n.text = e.text /\ n.ref = e.ref
                     /\ n.deleted /\ n.seen = e.seen /\ n.recalled = e.recalled
    BY DEF Entries
  <1>6. /\ DOMAIN srv' = DOMAIN srv /\ srv' = [i \in DOMAIN srv |-> srv'[i]]
        /\ \A i \in DOMAIN srv :
             /\ srv'[i] \in Entries /\ srv'[i].text = srv[i].text /\ srv'[i].ref = srv[i].ref
             /\ srv'[i].seen <=> (srv[i].seen \/ (p.type = "DELIVERED" /\ i \in Range(l)))
             /\ srv'[i].recalled <=> (srv[i].recalled \/ (p.type = "RECALL" /\ i = l[1]))
             /\ srv'[i].deleted <=> (srv[i].deleted
                                     \/ (p.type \in {"DELETE", "SYNC_DELETE"} /\ i = l[1]))
    <2>1. CASE p.type = "DELIVERED"
      <3>1. srv' = [i \in DOMAIN srv |->
                      IF i \in Range(l) THEN [srv[i] EXCEPT !.seen = TRUE] ELSE srv[i]]
        BY <1>4, <2>1
      <3>2. DOMAIN srv' = DOMAIN srv /\ srv' = [i \in DOMAIN srv |-> srv'[i]]
        BY <3>1
      <3>3. \A i \in DOMAIN srv : IF i \in Range(l) THEN srv'[i] = [srv[i] EXCEPT !.seen = TRUE]
                                                   ELSE srv'[i] = srv[i]
        BY <3>1
      <3> QED
        BY <1>3, <1>5, <2>1, <3>2, <3>3
    <2>2. CASE p.type = "RECALL"
      <3>1. srv' = [i \in DOMAIN srv |->
                      IF i = l[1] THEN [srv[i] EXCEPT !.recalled = TRUE] ELSE srv[i]]
        BY <1>3, <1>4, <2>2
      <3>2. DOMAIN srv' = DOMAIN srv /\ srv' = [i \in DOMAIN srv |-> srv'[i]]
        BY <3>1
      <3>3. \A i \in DOMAIN srv : IF i = l[1] THEN srv'[i] = [srv[i] EXCEPT !.recalled = TRUE]
                                             ELSE srv'[i] = srv[i]
        BY <3>1
      <3> QED
        BY <1>3, <1>5, <2>2, <3>2, <3>3
    <2>3. CASE p.type \in {"DELETE", "SYNC_DELETE"}
      <3>1. srv' = [i \in DOMAIN srv |->
                      IF i = l[1] THEN [srv[i] EXCEPT !.deleted = TRUE] ELSE srv[i]]
        BY <1>4, <2>3
      <3>2. DOMAIN srv' = DOMAIN srv /\ srv' = [i \in DOMAIN srv |-> srv'[i]]
        BY <3>1
      <3>3. \A i \in DOMAIN srv : IF i = l[1] THEN srv'[i] = [srv[i] EXCEPT !.deleted = TRUE]
                                             ELSE srv'[i] = srv[i]
        BY <3>1
      <3> QED
        BY <1>3, <1>5, <2>3, <3>2, <3>3
    <2> QED
      BY <1>1, <2>1, <2>2, <2>3
  <1>7. srv' \in Seq(Entries)
    BY <1>3, <1>6, MapIs
  <1>8. SrvKept
    BY <1>6 DEF SrvKept
  <1>9. \/ inbox' = inbox /\ (p.type = "DELIVERED" \/ p = Packet("DELETE", <<0>>))
        \/ /\ inbox' = Append(inbox, p) /\ p.type \in {"RECALL", "DELETE", "SYNC_DELETE"}
           /\ p # Packet("DELETE", <<0>>)
    <2>1. Packet("DELETE", <<0>>).type = "DELETE"
      BY DEF Packet
    <2> QED
      BY <1>4, <2>1
  <1>10. inbox' \in Seq(Incoming)
    BY <1>2, <1>9, PacketArrives DEF Typed, WireTyped
  <1>11. Typed'
    BY <1>7, <1>10, ServedIs DEF Typed, LogTyped, WireTyped
  <1> QED
    BY <1>1, <1>2, <1>6, <1>8, <1>9, <1>11 DEF p, l

\* Another sends a text.
LEMMA OtherSendsIs ==
    ASSUME Typed, NEW t \in Others, OtherSends(t)
    PROVE  /\ Typed' /\ SrvKept /\ srv' \in Seq(Entries)
           /\ Len(srv) + 1 \notin DOMAIN srv /\ DOMAIN srv' = DOMAIN srv \cup {Len(srv) + 1}
           /\ srv'[Len(srv) + 1] = Entry(t, 0) /\ \A i \in DOMAIN srv : srv'[i] = srv[i]
           /\ \/ link # "ready" /\ inbox' = inbox
              \/ /\ link = "ready"
                 /\ \E m \in Messages, q \in Incoming :
                       /\ m = Message(srv', Len(srv) + 1)
                       /\ inbox' = Append(inbox, q) /\ q.type = "MESSAGES" /\ q.list = <<m>>
  <1> DEFINE n == Len(srv) + 1
  <1>1. PICK e : e = Entry(t, 0)
    OBVIOUS
  <1>2. e \in Entries
    BY <1>1 DEF Entry, Entries, Texts
  <1>3. srv \in Seq(Entries) /\ srv' = Append(srv, e)
    BY <1>1 DEF OtherSends, Typed, LogTyped
  <1>4. /\ Append(srv, e) \in Seq(Entries)
        /\ DOMAIN srv = 1 .. Len(srv) /\ Len(srv) \in Nat
        /\ DOMAIN Append(srv, e) = 1 .. n /\ Append(srv, e)[n] = e
        /\ \A i \in DOMAIN srv : i \in DOMAIN Append(srv, e) /\ Append(srv, e)[i] = srv[i]
    BY <1>2, <1>3, GrownQueue
  <1>5. /\ srv' \in Seq(Entries) /\ n \notin DOMAIN srv /\ DOMAIN srv' = DOMAIN srv \cup {n}
        /\ srv'[n] = e /\ Len(srv') = n
        /\ \A i \in DOMAIN srv : i \in DOMAIN srv' /\ srv'[i] = srv[i]
    <2>1. DOMAIN srv' = 1 .. Len(srv') /\ Len(srv') \in Nat /\ n \in Nat
      BY <1>3, <1>4, QueueEntries
    <2>2. n \notin DOMAIN srv /\ 1 .. n = (1 .. Len(srv)) \cup {n}
      BY <1>4
    <2>3. Len(srv') = n
      BY <1>3, <1>4, <2>1
    <2> QED
      BY <1>3, <1>4, <2>2, <2>3
  <1>6. SrvKept
    BY <1>5 DEF SrvKept
  <1>7. PICK m \in Messages : m = Message(srv', n)
    BY <1>5, MessageIs
  <1>8. PICK l \in Seq(Messages) : l = <<m>>
    BY OneEntry
  <1>9. PICK q \in Incoming : q = Packet("MESSAGES", l) /\ q.type = "MESSAGES" /\ q.list = l
    BY AnswerIs
  <1>10. Push(q)
    BY <1>5, <1>7, <1>8, <1>9 DEF OtherSends
  <1>11. (link # "ready" /\ inbox' = inbox) \/ (link = "ready" /\ inbox' = Append(inbox, q))
    BY <1>10 DEF Push
  <1>12. inbox' \in Seq(Incoming)
    BY <1>11, PacketArrives DEF Typed, WireTyped
  <1>13. WireTyped' /\ LogTyped'
    BY <1>5, <1>12 DEF OtherSends, Typed, WireTyped, LogTyped
  <1>14. Typed'
    BY <1>13 DEF OtherSends, Typed, TableTyped, DeletionsTyped, StateTyped, ThreadsTyped,
       HistoryTyped, store, history
  <1> QED
    BY <1>1, <1>5, <1>6, <1>7, <1>8, <1>9, <1>11, <1>14

\* The others read or recall a message.
LEMMA OtherMarksIs ==
    ASSUME Typed, NEW i \in DOMAIN srv, OtherRecalls(i) \/ OtherSees(i)
    PROVE  /\ Typed' /\ SrvKept /\ DOMAIN srv' = DOMAIN srv
           /\ \A j \in DOMAIN srv :
                 /\ srv'[j].seen <=> (srv[j].seen \/ (OtherSees(i) /\ j = i))
                 /\ srv'[j].recalled <=> (srv[j].recalled \/ (OtherRecalls(i) /\ j = i))
                 /\ srv'[j].deleted <=> srv[j].deleted
           /\ \/ link # "ready" /\ inbox' = inbox
              \/ /\ link = "ready"
                 /\ \E q \in Incoming :
                       /\ inbox' = Append(inbox, q) /\ q.list = <<i>>
                       /\ OtherSees(i) => q.type = "DELIVERED"
                       /\ OtherRecalls(i) => q.type = "RECALL"
                       /\ q.type \in {"DELIVERED", "RECALL"}
  <1>1. /\ srv \in Seq(Entries) /\ i \in Nat /\ \A j \in DOMAIN srv : srv[j] \in Entries
    BY QueueEntries DEF Typed, LogTyped
  <1>2. PICK l \in Seq(Nat) : l = <<i>>
    BY <1>1, OneEntry
  <1>3. PICK d \in Incoming : d = Packet("DELIVERED", l) /\ d.type = "DELIVERED" /\ d.list = l
    BY PacketIs
  <1>4. PICK r \in Incoming : r = Packet("RECALL", l) /\ r.type = "RECALL" /\ r.list = l
    BY PacketIs
  <1>5. /\ OtherSees(i) => /\ ~srv[i].seen /\ Push(d)
                           /\ srv' = [srv EXCEPT ![i].seen = TRUE]
        /\ OtherRecalls(i) => /\ ~srv[i].recalled /\ Push(r)
                              /\ srv' = [srv EXCEPT ![i].recalled = TRUE]
    BY <1>2, <1>3, <1>4 DEF OtherSees, OtherRecalls
  <1>6. ASSUME NEW e \in Entries
        PROVE  /\ \A n : n = [e EXCEPT !.seen = TRUE] =>
                     /\ n \in Entries /\ n.text = e.text /\ n.ref = e.ref
                     /\ n.seen /\ n.recalled = e.recalled /\ n.deleted = e.deleted
               /\ \A n : n = [e EXCEPT !.recalled = TRUE] =>
                     /\ n \in Entries /\ n.text = e.text /\ n.ref = e.ref
                     /\ n.recalled /\ n.seen = e.seen /\ n.deleted = e.deleted
    BY DEF Entries
  <1>7. ~(OtherSees(i) /\ OtherRecalls(i))
    <2>1. OtherSees(i) => srv[i].text \in Own
      BY DEF OtherSees
    <2>2. OtherRecalls(i) => srv[i].text \in Others
      BY DEF OtherRecalls
    <2> QED
      BY <2>1, <2>2, TextsAssumption
  <1>8. /\ DOMAIN srv' = DOMAIN srv /\ srv' = [j \in DOMAIN srv |-> srv'[j]]
        /\ \A j \in DOMAIN srv :
             /\ srv'[j] \in Entries /\ srv'[j].text = srv[j].text /\ srv'[j].ref = srv[j].ref
             /\ srv'[j].seen <=> (srv[j].seen \/ (OtherSees(i) /\ j = i))
             /\ srv'[j].recalled <=> (srv[j].recalled \/ (OtherRecalls(i) /\ j = i))
             /\ srv'[j].deleted <=> srv[j].deleted
    <2>1. CASE OtherSees(i)
      <3>1. /\ DOMAIN srv' = DOMAIN srv /\ srv' = [j \in DOMAIN srv |-> srv'[j]]
            /\ srv'[i] = [srv[i] EXCEPT !.seen = TRUE]
            /\ \A j \in DOMAIN srv \ {i} : srv'[j] = srv[j]
        BY <1>1, <1>5, <2>1
      <3> QED
        BY <1>1, <1>6, <1>7, <2>1, <3>1
    <2>2. CASE OtherRecalls(i)
      <3>1. /\ DOMAIN srv' = DOMAIN srv /\ srv' = [j \in DOMAIN srv |-> srv'[j]]
            /\ srv'[i] = [srv[i] EXCEPT !.recalled = TRUE]
            /\ \A j \in DOMAIN srv \ {i} : srv'[j] = srv[j]
        BY <1>1, <1>5, <2>2
      <3> QED
        BY <1>1, <1>6, <1>7, <2>2, <3>1
    <2> QED
      BY <2>1, <2>2
  <1>9. srv' \in Seq(Entries)
    BY <1>1, <1>8, MapIs
  <1>10. SrvKept
    BY <1>8 DEF SrvKept
  <1>11. \E q \in Incoming :
            /\ (link # "ready" /\ inbox' = inbox) \/ (link = "ready" /\ inbox' = Append(inbox, q))
            /\ q.list = <<i>> /\ q.type \in {"DELIVERED", "RECALL"}
            /\ OtherSees(i) => q.type = "DELIVERED"
            /\ OtherRecalls(i) => q.type = "RECALL"
    <2>1. CASE OtherSees(i)
      BY <1>2, <1>3, <1>5, <1>7, <2>1 DEF Push
    <2>2. CASE OtherRecalls(i)
      BY <1>2, <1>4, <1>5, <1>7, <2>2 DEF Push
    <2> QED
      BY <2>1, <2>2
  <1>12. inbox' \in Seq(Incoming)
    BY <1>11, PacketArrives DEF Typed, WireTyped
  <1>13. WireTyped' /\ LogTyped'
    BY <1>9, <1>12 DEF OtherSees, OtherRecalls, Typed, WireTyped, LogTyped
  <1>14. HistoryTyped'
    BY MessageBoundsAssumption DEF OtherSees, OtherRecalls, Typed, HistoryTyped, Upset
  <1>15. Typed'
    BY <1>13, <1>14 DEF OtherSees, OtherRecalls, Typed, TableTyped, DeletionsTyped, StateTyped,
       ThreadsTyped, store
  <1> QED
    BY <1>8, <1>10, <1>11, <1>15

-----------------------------------------------------------------------------
(* The types are kept.                                                     *)

\* The actions, one by one.
LEMMA Steps ==
    ASSUME Next
    PROVE  \/ \E t \in Own : Write(t)
           \/ Send
           \/ \E r \in rows : DeleteMessage(r)
           \/ \E r \in rows : RecallMessage(r)
           \/ \E th \in Threads : Look(th)
           \/ \E th \in Threads : Store(th)
           \/ \E th \in Threads : Tell(th)
           \/ Receive /\ Head(inbox).type = "MESSAGES" /\ \E th \in Threads : OnMessages(th)
           \/ Receive /\ Head(inbox).type = "DELIVERED" /\ OnDelivered
           \/ Receive /\ Head(inbox).type = "RECALL" /\ OnRecall
           \/ Receive /\ Head(inbox).type = "DELETE" /\ OnDeleteAck
           \/ Receive /\ Head(inbox).type = "SYNC_DELETE" /\ OnSyncDeleteAck
           \/ Token \/ SyncLocal \/ SyncTheRest
           \/ \E f \in fetches, th \in Threads : FetchAnswer(f, th)
           \/ \E f \in fetches : FetchFails(f)
           \/ Serve
           \/ \E t \in Others : OtherSends(t)
           \/ \E i \in DOMAIN srv : OtherRecalls(i) \/ OtherSees(i)
           \/ Disconnect
           \/ Kill
  BY ReceiveIs DEF Next, User, Thread, Synchronise, Fetched, Server

\* A step keeps the types.
LEMMA TypeNext ==
    ASSUME Typed, [Next]_vars
    PROVE  Typed'
  <1>1. CASE Next
    <2>1. CASE \E th \in Threads : Thread(th)
      BY <2>1, ThreadTypes
    <2>2. CASE Receive
      BY <2>2, ReceiveIs, OnMessagesIs, OnNoticeIs, OnDeletionIs
    <2>3. CASE Serve
      BY <2>3, ServeSendIs, ServeNoticeIs
    <2>4. CASE \E f \in fetches, th \in Threads : FetchAnswer(f, th)
      BY <2>4, FetchAnswerIs
    <2>5. CASE (\E f \in fetches : FetchFails(f)) \/ Disconnect \/ Kill
      BY <2>5, UpsetTypes
    <2>6. CASE (\E t \in Others : OtherSends(t)) \/ \E i \in DOMAIN srv : OtherRecalls(i) \/ OtherSees(i)
      BY <2>6, OtherSendsIs, OtherMarksIs
    <2>7. CASE (\E t \in Own : Write(t)) \/ Send
      BY <2>7, WriteIs, SendIs
    <2>8. CASE \E r \in rows : DeleteMessage(r) \/ RecallMessage(r)
      BY <2>8, DeleteIs, RecallIs
    <2>9. CASE Token \/ SyncLocal \/ SyncTheRest
      BY <2>9, TokenIs, SyncLocalIs, SyncTheRestIs
    <2> QED
      BY <1>1, <2>1, <2>2, <2>3, <2>4, <2>5, <2>6, <2>7, <2>8, <2>9
         DEF Next, User, Synchronise, Fetched, Server
  <1>2. CASE UNCHANGED vars
    BY <1>2 DEF vars, store, wire, history, Typed, TableTyped, DeletionsTyped, StateTyped,
       ThreadsTyped, WireTyped, LogTyped, HistoryTyped
  <1> QED
    BY <1>1, <1>2

\* The types hold at first.
LEMMA TypeInit == Init => Typed
  <1> SUFFICES ASSUME Init PROVE Typed
    OBVIOUS
  <1>1. IsFiniteSet({})
    BY FS_EmptySet
  <1>2. TableTyped /\ DeletionsTyped
    BY <1>1 DEF Init, TableTyped, DeletionsTyped, LocalIds
  <1>3. ThreadsTyped
    <2>1. Resting \in ThreadStates
      BY EmptySeq DEF Resting, ThreadStates
    <2> QED
      BY <2>1 DEF Init, ThreadsTyped
  <1>4. WireTyped /\ LogTyped
    BY EmptySeq DEF Init, WireTyped, LogTyped
  <1>5. StateTyped
    BY DEF Init, StateTyped
  <1>6. HistoryTyped
    <2>1. 0 \in 0 .. MaxUpsets
      BY MessageBoundsAssumption
    <2> QED
      BY <2>1 DEF Init, HistoryTyped
  <1> QED
    BY <1>2, <1>3, <1>4, <1>5, <1>6 DEF Typed

-----------------------------------------------------------------------------
(* What is said of the messages of the server is true.                     *)

\* The messages that are being handled, and those on their way to it.
Tasks == UNION {Range(threads[th].todo) : th \in Threads}
Answers == UNION {Range(p.list) : p \in {q \in Range(inbox) : q.type = "MESSAGES"}}
InFlight == Tasks \cup Answers

True(m) == m.mid \in DOMAIN srv /\ m.text = srv[m.mid].text /\ m.ref = srv[m.mid].ref

Deletes == {"DELETE", "SYNC_DELETE"}

\* A notice is about messages of the server; a deletion about those whose text is deleted,
\* or about the message 0.
Notice(p) ==
    /\ p.type # "DELIVERED" => DOMAIN p.list = {1}
    /\ \A n \in Range(p.list) :
         /\ n = 0 => p.type \in Deletes
         /\ n # 0 => n \in DOMAIN srv /\ (p.type \in Deletes => srv[n].text \in removed)

NoticesTrue ==
    /\ \A p \in Range(out) : p.type # "SEND" => Notice(p)
    /\ \A p \in Range(inbox) : p.type # "MESSAGES" =>
         Notice(p) /\ (p.type = "DELETE" => 0 \notin Range(p.list))

RowTrue(r) ==
    /\ r.mid # 0 => r.mid \in DOMAIN srv /\ srv[r.mid].text = r.text
    /\ r.mid = 0 => r.text \in Own
    /\ r.mid = 0 <=> ~r.synced

DeletionsTrue ==
    /\ \A d \in deletions \ {0} : d \in DOMAIN srv /\ srv[d].text \in removed
    /\ \A i \in DOMAIN srv : srv[i].deleted => srv[i].text \in removed

TrueInv ==
    /\ \A m \in InFlight : True(m)
    /\ NoticesTrue /\ DeletionsTrue
    /\ \A r \in rows : RowTrue(r)

\* Messages in flight are messages.
LEMMA FlightTyped ==
    ASSUME Typed
    PROVE  /\ InFlight \subseteq Messages
           /\ \A m \in Tasks : m.mid \in AllHandled
           /\ \A n \in AllHandled : \E m \in Tasks : m.mid = n
           /\ \A th \in Threads : \A i \in DOMAIN threads[th].todo : threads[th].todo[i] \in Tasks
           /\ \A th \in Threads : threads[th].todo # <<>> => Head(threads[th].todo) \in Tasks
  <1>1. \A m \in Tasks : \E th \in Threads : \E i \in DOMAIN threads[th].todo : m = threads[th].todo[i]
    BY DEF Tasks, Range
  <1>2. ThreadsTyped
    BY DEF Typed
  <1>3. Tasks \subseteq Messages
    BY <1>1, <1>2, HandledAre
  <1>4. \A p \in Range(inbox) : p.type = "MESSAGES" => Range(p.list) \subseteq Messages
    <2>1. TAKE p \in Range(inbox)
    <2>2. HAVE p.type = "MESSAGES"
    <2>3. p \in Incoming
      BY <2>1, RangeIsIn DEF Typed, WireTyped
    <2>4. p.list \in Seq(Messages)
      BY <2>2, <2>3, IncomingIs
    <2> QED
      BY <2>4, RangeIsIn
  <1>5. Answers \subseteq Messages
    BY <1>4 DEF Answers
  <1>6. \A th \in Threads : \A i \in DOMAIN threads[th].todo : threads[th].todo[i] \in Tasks
    BY DEF Tasks, Range
  <1>7. \A th \in Threads : threads[th].todo # <<>> => Head(threads[th].todo) \in Tasks
    BY <1>2, HeadIs DEF Tasks
  <1> QED
    BY <1>1, <1>2, <1>3, <1>5, <1>6, <1>7, HandledAre DEF InFlight

\* Where a thread goes with no new messages, none is taken up.
LEMMA GoesOn ==
    ASSUME NEW th \in Threads, NEW n, Goes(th, n), Range(n.todo) \subseteq Range(threads[th].todo)
    PROVE  Tasks' \subseteq Tasks
  <1>1. \A u \in Threads : Range(threads'[u].todo) \subseteq Range(threads[u].todo)
    BY DEF Goes
  <1> QED
    BY <1>1 DEF Tasks

\* A thread takes a list up.
LEMMA GoesWith ==
    ASSUME NEW th \in Threads, NEW n, Goes(th, n), threads[th].todo = <<>>
    PROVE  Tasks' = Tasks \cup Range(n.todo)
  <1>1. \A u \in Threads \ {th} : Range(threads'[u].todo) = Range(threads[u].todo)
    BY DEF Goes
  <1>2. Range(threads'[th].todo) = Range(n.todo) /\ Range(threads[th].todo) = {}
    BY NothingInRange DEF Goes
  <1> QED
    BY <1>1, <1>2 DEF Tasks

\* What a thread does to the tasks, one step after the other.
LEMMA ThreadTasks ==
    ASSUME Typed, NEW th \in Threads, Thread(th)
    PROVE  Tasks' \subseteq Tasks
  <1>1. TableTyped /\ ThreadsTyped /\ WireTyped
    BY DEF Typed
  <1>2. CASE Look(th)
    <2>1. PICK n : n = [todo |-> threads[th].todo, step |-> "store",
                        target |-> Target(Head(threads[th].todo))]
      OBVIOUS
    <2>2. Goes(th, n) /\ n.todo = threads[th].todo
      BY <1>1, <1>2, <2>1, LookIs
    <2> QED
      BY <2>2, GoesOn
  <1>3. CASE Store(th) \/ Tell(th)
    <2>1. PICK n : Goes(th, n) /\ n.todo \in {threads[th].todo, Tail(threads[th].todo)}
                   /\ threads[th].todo # <<>>
      BY <1>1, <1>3, StoreIs, TellIs
    <2>2. Range(Tail(threads[th].todo)) \subseteq Range(threads[th].todo)
      BY <1>1, <2>1, HeadIs, TakenRange
    <2> QED
      BY <2>1, <2>2, GoesOn
  <1> QED
    BY <1>2, <1>3 DEF Thread

\* No action takes a message from the server or changes what it says.
LEMMA SrvStep ==
    ASSUME Typed, Next
    PROVE  SrvKept
  <1>1. CASE Serve
    BY <1>1, ServeSendIs, ServeNoticeIs
  <1>2. CASE (\E t \in Others : OtherSends(t)) \/ \E i \in DOMAIN srv : OtherRecalls(i) \/ OtherSees(i)
    BY <1>2, OtherSendsIs, OtherMarksIs
  <1>3. ASSUME srv' = srv PROVE SrvKept
    BY <1>3 DEF SrvKept
  <1>4. User \/ Receive \/ Token \/ Synchronise \/ Fetched \/ Disconnect \/ Kill
          \/ (\E th \in Threads : Thread(th)) => srv' = srv
    BY DEF User, Write, Send, DeleteMessage, RecallMessage, Receive, Token, Synchronise, SyncLocal,
       SyncTheRest, Fetched, FetchAnswer, FetchFails, Disconnect, Kill, Thread, Look, Store, Tell
  <1> QED
    BY <1>1, <1>2, <1>3, <1>4 DEF Next, Server

\* A message comes in flight as the server has it: with the answer to a request or to texts
\* sent, or because another sends it.
LEMMA FlightStep ==
    ASSUME Typed, Next, NEW m \in InFlight' \ InFlight
    PROVE  \/ \E f \in fetches : \E i \in Wanted(f) : srv' = srv /\ m = Message(srv, i)
           \/ /\ Serve /\ Head(out) \in Range(out) /\ Head(out).type = "SEND"
              /\ \E k \in DOMAIN Head(out).list : \E i \in DOMAIN srv' :
                    srv'[i].ref = Head(out).list[k].ref /\ m = Message(srv', i)
           \/ /\ \E t \in Others : OtherSends(t)
              /\ Len(srv) + 1 \in DOMAIN srv' /\ m = Message(srv', Len(srv) + 1)
  <1>1. CASE User \/ Token \/ Synchronise \/ \E f \in fetches : FetchFails(f)
    <2>1. threads' = threads /\ inbox' = inbox
      BY <1>1 DEF User, Write, Send, DeleteMessage, RecallMessage, Token, Synchronise, SyncLocal,
         SyncTheRest, FetchFails, wire
    <2> QED
      BY <2>1 DEF InFlight, Tasks, Answers
  <1>2. CASE \E th \in Threads : Thread(th)
    <2>1. Tasks' \subseteq Tasks
      BY <1>2, ThreadTasks
    <2>2. inbox' = inbox
      BY <1>2 DEF Thread, Look, Store, Tell, wire
    <2> QED
      BY <2>1, <2>2 DEF InFlight, Answers
  <1>3. CASE Receive
    <2>1. Range(inbox') \subseteq Range(inbox) /\ Head(inbox) \in Range(inbox)
      BY <1>3, TakenIs
    <2>2. Answers' \subseteq Answers
      BY <2>1 DEF Answers
    <2>3. CASE Head(inbox).type = "MESSAGES"
      <3>1. PICK th \in Threads : OnMessages(th)
        BY <1>3, <2>3, ReceiveIs
      <3>2. PICK n : n = [todo |-> Head(inbox).list, step |-> "look", target |-> 0]
        OBVIOUS
      <3>3. Goes(th, n) /\ threads[th].todo = <<>> /\ n.todo = Head(inbox).list
        BY <1>3, <2>3, <3>1, <3>2, OnMessagesIs
      <3>4. Tasks' = Tasks \cup Range(Head(inbox).list)
        BY <3>3, GoesWith
      <3>5. Range(Head(inbox).list) \subseteq Answers
        BY <2>1, <2>3 DEF Answers
      <3> QED
        BY <2>2, <3>4, <3>5 DEF InFlight
    <2>4. CASE Head(inbox).type # "MESSAGES"
      <3>1. threads' = threads
        BY <1>3, <2>4, ReceiveIs, OnNoticeIs, OnDeletionIs
      <3> QED
        BY <2>2, <3>1 DEF InFlight, Tasks
    <2> QED
      BY <2>3, <2>4
  <1>4. CASE \E f \in fetches, th \in Threads : FetchAnswer(f, th)
    <2>1. PICK f \in fetches, th \in Threads : FetchAnswer(f, th)
      BY <1>4
    <2>2. PICK l \in Seq(Messages) :
             /\ Goes(th, [todo |-> l, step |-> "look", target |-> 0]) /\ threads[th].todo = <<>>
             /\ \A k \in DOMAIN l : \E i \in Wanted(f) : l[k] = Message(srv, i)
      BY <2>1, FetchAnswerIs
    <2>3. PICK n : n = [todo |-> l, step |-> "look", target |-> 0]
      OBVIOUS
    <2>4. Tasks' = Tasks \cup Range(l)
      <3>1. n.todo = l
        BY <2>3
      <3> QED
        BY <2>2, <2>3, <3>1, GoesWith
    <2>5. inbox' = inbox /\ srv' = srv
      BY <2>1 DEF FetchAnswer, wire
    <2>6. m \in Range(l)
      BY <2>4, <2>5 DEF InFlight, Answers
    <2>7. PICK k \in DOMAIN l : m = l[k]
      BY <2>6 DEF Range
    <2> QED
      BY <2>2, <2>5, <2>7
  <1>5. CASE Disconnect \/ Kill
    <2>1. Answers' = {}
      BY <1>5, NothingInRange DEF Disconnect, Kill, Answers
    <2>2. Tasks' \subseteq Tasks
      <3>1. CASE Disconnect
        BY <3>1 DEF Disconnect, Tasks
      <3>2. CASE Kill
        BY <3>2, NothingInRange DEF Kill, Tasks, Resting
      <3> QED
        BY <1>5, <3>1, <3>2
    <2> QED
      BY <2>1, <2>2 DEF InFlight
  <1>6. CASE Serve
    <2>1. threads' = threads
      BY <1>6 DEF Serve
    <2>2. CASE Head(out).type = "SEND"
      <3>1. PICK q \in Incoming :
              /\ inbox' = Append(inbox, q) /\ q.type = "MESSAGES" /\ q.list \in Seq(Messages)
              /\ DOMAIN q.list = DOMAIN Head(out).list
              /\ \A k \in DOMAIN q.list : \E i \in DOMAIN srv' :
                    srv'[i].ref = Head(out).list[k].ref /\ q.list[k] = Message(srv', i)
        BY <1>6, <2>2, ServeSendIs
      <3>2. Range(inbox') = Range(inbox) \cup {q}
        BY <3>1, PacketArrives DEF Typed
      <3>3. m \in Range(q.list)
        BY <2>1, <3>1, <3>2 DEF InFlight, Tasks, Answers
      <3>4. PICK k \in DOMAIN q.list : m = q.list[k]
        BY <3>3 DEF Range
      <3>5. Head(out) \in Range(out)
        BY <1>6, ServedIs
      <3> QED
        BY <1>6, <2>2, <3>1, <3>4, <3>5
    <2>3. CASE Head(out).type # "SEND"
      <3>1. \A q \in Range(inbox') : q \in Range(inbox) \/ q.type # "MESSAGES"
        BY <1>6, <2>3, ServeNoticeIs, PacketArrives DEF Typed
      <3> QED
        BY <2>1, <3>1 DEF InFlight, Tasks, Answers
    <2> QED
      BY <2>2, <2>3
  <1>7. CASE \E t \in Others : OtherSends(t)
    <2>1. PICK t \in Others : OtherSends(t)
      BY <1>7
    <2>2. threads' = threads
      BY <2>1 DEF OtherSends
    <2>3. \/ inbox' = inbox
          \/ \E n \in Messages, q \in Incoming :
                n = Message(srv', Len(srv) + 1) /\ inbox' = Append(inbox, q) /\ q.list = <<n>>
      BY <2>1, OtherSendsIs
    <2>4. Len(srv) + 1 \in DOMAIN srv'
      BY <2>1, OtherSendsIs
    <2>5. CASE inbox' = inbox
      BY <2>2, <2>5 DEF InFlight, Tasks, Answers
    <2>6. CASE inbox' # inbox
      <3>1. PICK n \in Messages, q \in Incoming :
               n = Message(srv', Len(srv) + 1) /\ inbox' = Append(inbox, q) /\ q.list = <<n>>
        BY <2>3, <2>6
      <3>2. Range(inbox') = Range(inbox) \cup {q} /\ Range(q.list) = {n}
        BY <3>1, PacketArrives, OneEntry DEF Typed
      <3>3. m = n
        BY <2>2, <3>2 DEF InFlight, Tasks, Answers
      <3> QED
        BY <2>1, <2>4, <3>1, <3>3
    <2> QED
      BY <2>5, <2>6
  <1>8. CASE \E i \in DOMAIN srv : OtherRecalls(i) \/ OtherSees(i)
    <2>1. threads' = threads
      BY <1>8 DEF OtherRecalls, OtherSees
    <2>2. \A q \in Range(inbox') : q \in Range(inbox) \/ q.type # "MESSAGES"
      BY <1>8, OtherMarksIs, PacketArrives DEF Typed
    <2> QED
      BY <2>1, <2>2 DEF InFlight, Tasks, Answers
  <1> QED
    BY <1>1, <1>2, <1>3, <1>4, <1>5, <1>6, <1>7, <1>8 DEF Next, Fetched, Server

\* The packets an action sends.
LEMMA OutStep ==
    ASSUME Typed, Next, NEW p \in Range(out') \ Range(out)
    PROVE  \/ (Send \/ SyncLocal) /\ p.type = "SEND"
           \/ \E r \in rows : DeleteMessage(r) /\ p.type = "DELETE" /\ p.list = <<r.mid>>
           \/ \E r \in rows : RecallMessage(r) /\ p.type = "RECALL" /\ p.list = <<r.mid>>
           \/ \E th \in Threads : /\ Tell(th) /\ p.type = "DELIVERED"
                                  /\ p.list = <<Head(threads[th].todo).mid>>
           \/ SyncTheRest /\ \E d \in deletions : p.type = "SYNC_DELETE" /\ p.list = <<d>>
           \/ SyncTheRest /\ p.type = "DELIVERED" /\ p.list \in Seq(Unseen)
  <1>1. CASE Send
    <2>1. PICK l \in Seq([ref : Nat, text : Own]) : Range(out') \subseteq Range(out) \cup {Packet("SEND", l)}
      <3>1. \/ Range(out') = Range(out)
            \/ /\ Range(out') = Range(out)
                     \cup {Packet("SEND", <<[ref |-> LastLocalId, text |-> writing]>>)}
               /\ <<[ref |-> LastLocalId, text |-> writing]>> \in Seq([ref : Nat, text : Own])
        BY <1>1, SendIs
      <3> QED
        BY <3>1
    <2>2. p = Packet("SEND", l)
      BY <2>1
    <2> QED
      BY <1>1, <2>2 DEF Packet
  <1>2. CASE SyncLocal
    <2>1. PICK l \in Seq([ref : Nat, text : Own]) : Range(out') = Range(out) \cup {Packet("SEND", l)}
      BY <1>2, SyncLocalIs
    <2>2. p = Packet("SEND", l)
      BY <2>1
    <2> QED
      BY <1>2, <2>2 DEF Packet
  <1>3. CASE SyncTheRest
    BY <1>3, SyncTheRestIs
  <1>4. CASE \E r \in rows : DeleteMessage(r)
    BY <1>4, DeleteIs
  <1>5. CASE \E r \in rows : RecallMessage(r)
    BY <1>5, RecallIs
  <1>6. CASE \E th \in Threads : Tell(th)
    <2>1. PICK th \in Threads : Tell(th)
      BY <1>6
    <2>2. TableTyped /\ ThreadsTyped /\ WireTyped
      BY DEF Typed
    <2>3. PICK q \in Outgoing : /\ q = Packet("DELIVERED", <<Head(threads[th].todo).mid>>)
                                /\ out' = Append(out, q)
      BY <2>1, <2>2, TellIs
    <2>4. q.type = "DELIVERED" /\ q.list = <<Head(threads[th].todo).mid>>
      BY <2>3 DEF Packet
    <2>5. p = q
      BY <2>2, <2>3, PacketSent
    <2> QED
      BY <2>1, <2>4, <2>5
  <1>7. CASE Serve
    BY <1>7, ServedIs
  <1>8. CASE Disconnect \/ Kill
    BY <1>8, NothingInRange DEF Disconnect, Kill
  <1>9. ASSUME out' = out PROVE FALSE
    BY <1>9
  <1>10. CASE \/ \E t \in Own : Write(t)
              \/ \E th \in Threads : Look(th) \/ Store(th)
              \/ Receive \/ Token \/ Fetched
              \/ \E t \in Others : OtherSends(t)
              \/ \E i \in DOMAIN srv : OtherRecalls(i) \/ OtherSees(i)
    BY <1>9, <1>10 DEF Write, Look, Store, Receive, Token, Fetched, FetchAnswer, FetchFails,
       OtherSends, OtherRecalls, OtherSees, wire
  <1> QED
    BY <1>1, <1>2, <1>3, <1>4, <1>5, <1>6, <1>7, <1>8, <1>10
       DEF Next, User, Thread, Synchronise, Server

\* The packets that arrive with an action.
LEMMA InStep ==
    ASSUME Typed, Next, NEW q \in Range(inbox') \ Range(inbox)
    PROVE  \/ q.type = "MESSAGES"
           \/ /\ q \in Range(out) /\ q \in Outgoing /\ q # Packet("DELETE", <<0>>)
              /\ q.type \in {"RECALL", "DELETE", "SYNC_DELETE"}
           \/ \E i \in DOMAIN srv : q.type \in {"DELIVERED", "RECALL"} /\ q.list = <<i>>
  <1>1. WireTyped
    BY DEF Typed
  <1>2. CASE Serve
    <2>1. Head(out) \in Range(out) /\ Head(out) \in Outgoing
      BY <1>2, ServedIs
    <2>2. CASE Head(out).type = "SEND"
      BY <1>1, <1>2, <2>2, ServeSendIs, PacketArrives
    <2>3. CASE Head(out).type # "SEND"
      BY <1>1, <1>2, <2>1, <2>3, ServeNoticeIs, PacketArrives
    <2> QED
      BY <2>2, <2>3
  <1>3. CASE \E t \in Others : OtherSends(t)
    BY <1>1, <1>3, OtherSendsIs, PacketArrives
  <1>4. CASE \E i \in DOMAIN srv : OtherRecalls(i) \/ OtherSees(i)
    BY <1>1, <1>4, OtherMarksIs, PacketArrives
  <1>5. CASE Receive
    BY <1>5, TakenIs
  <1>6. CASE Disconnect \/ Kill
    BY <1>6, NothingInRange DEF Disconnect, Kill
  <1>7. ASSUME inbox' = inbox PROVE FALSE
    BY <1>7
  <1>8. CASE User \/ Token \/ Synchronise \/ Fetched \/ \E th \in Threads : Thread(th)
    BY <1>7, <1>8 DEF User, Write, Send, DeleteMessage, RecallMessage, Token, Synchronise, SyncLocal,
       SyncTheRest, Fetched, FetchAnswer, FetchFails, Thread, Look, Store, Tell, wire
  <1> QED
    BY <1>2, <1>3, <1>4, <1>5, <1>6, <1>8 DEF Next, Server

\* What was deleted stays so, and only DeleteMessage deletes.
LEMMA RemovedStep ==
    ASSUME Typed, Next
    PROVE  removed \subseteq removed' /\ \A t \in removed' \ removed :
              \E r \in rows : DeleteMessage(r) /\ r.text = t
  <1>1. CASE \E r \in rows : DeleteMessage(r)
    <2>1. PICK r \in rows : DeleteMessage(r)
      BY <1>1
    <2>2. removed' = removed \cup {r.text}
      BY <2>1 DEF DeleteMessage
    <2> QED
      BY <2>1, <2>2
  <1>2. CASE ~\E r \in rows : DeleteMessage(r)
    <2>1. removed' = removed
      BY <1>2 DEF Next, User, Write, Send, RecallMessage, Receive, Token, Synchronise, SyncLocal,
         SyncTheRest, Fetched, FetchAnswer, FetchFails, Disconnect, Kill, Thread, Look, Store, Tell,
         Server, Serve, OtherSends, OtherRecalls, OtherSees, history
    <2> QED
      BY <2>1
  <1> QED
    BY <1>1, <1>2

\* A row that is kept: marked perhaps, but not as long as the server does not know it.
KeptRow(a, b) == Marks(a, b) /\ (b.mid = 0 => a = b)

\* Marks under the ids of messages of the server.
LEMMA KeptRows ==
    ASSUME TableTyped, NEW M, 0 \notin M, rows' = MarkSeen(M) \/ rows' = MarkRecalled(M)
    PROVE  /\ \A a \in rows' : \E b \in rows : KeptRow(a, b)
           /\ \A b \in rows : \E a \in rows' : KeptRow(a, b)
  <1> DEFINE f == [r \in rows |->
                     IF r.mid \in M THEN [r EXCEPT !.synced = TRUE, !.seen = TRUE] ELSE r]
             g == [r \in rows |->
                     IF r.mid \in M THEN [r EXCEPT !.recalled = TRUE] ELSE r]
  <1>1. rows' = {f[r] : r \in rows} \/ rows' = {g[r] : r \in rows}
    BY DEF MarkSeen, MarkRecalled
  <1>2. \A r \in rows : KeptRow(f[r], r) /\ KeptRow(g[r], r)
    BY DEF TableTyped, KeptRow, Marks, Rows
  <1> HIDE DEF f, g
  <1> QED
    BY <1>1, <1>2

\* A row is kept as it is.
LEMMA SameRow ==
    ASSUME NEW r
    PROVE  KeptRow(r, r)
  BY DEF KeptRow, Marks

\* The row that Store leaves for the message it stores.
StoredRow(th) ==
    RowOf(IF threads[th].target = 0 THEN nextId ELSE threads[th].target, Head(threads[th].todo))

\* The row that Write leaves.
WrittenRow(t) == [id |-> nextId, mid |-> 0, text |-> t, synced |-> FALSE,
                  seen |-> FALSE, recalled |-> FALSE]

\* What becomes of the table: a row is one of before, or written, or stored; and a row goes
\* when it is deleted, by the user or by an Ack, or when a message is stored in its place.
RowsCome ==
    \A a \in rows' :
        \/ \E b \in rows : KeptRow(a, b)
        \/ \E t \in Own : Write(t) /\ a = WrittenRow(t)
        \/ \E th \in Threads :
              /\ Store(th) /\ a = StoredRow(th)
              /\ threads[th].target # 0 => \E b \in rows : b.id = threads[th].target
RowsGo ==
    \A b \in rows :
        \/ \E a \in rows' : KeptRow(a, b)
        \/ DeleteMessage(b)
        \/ /\ Receive /\ Head(inbox).type = "DELETE" /\ OnDeleteAck
           /\ b.mid \in Range(Head(inbox).list)
        \/ \E th \in Threads : Store(th) /\ b.id = threads[th].target /\ StoredRow(th) \in rows'

LEMMA RowsStep ==
    ASSUME Typed, Next, NoticesTrue, \A r \in rows : RowTrue(r)
    PROVE  RowsCome /\ RowsGo
  <1>1. TableTyped /\ ThreadsTyped /\ WireTyped
    BY DEF Typed
  <1>2. CASE rows' = rows
    BY <1>2, SameRow DEF RowsCome, RowsGo
  <1>3. CASE \E t \in Own : Write(t)
    <2>1. PICK t \in Own : Write(t)
      BY <1>3
    <2>2. rows' = rows \cup {WrittenRow(t)}
      BY <2>1 DEF Write, WrittenRow
    <2> QED
      BY <2>1, <2>2, SameRow DEF RowsCome, RowsGo
  <1>4. CASE \E r \in rows : DeleteMessage(r)
    <2>1. PICK r \in rows : DeleteMessage(r)
      BY <1>4
    <2>2. rows' = rows \ {r}
      BY <2>1 DEF DeleteMessage
    <2> QED
      BY <2>1, <2>2, SameRow DEF RowsCome, RowsGo
  <1>5. CASE \E th \in Threads : Store(th)
    <2>1. PICK th \in Threads : Store(th)
      BY <1>5
    <2>2. \/ threads[th].target = 0 /\ rows' = rows \cup {StoredRow(th)}
          \/ /\ threads[th].target # 0
             /\ rows' = {IF r.id = threads[th].target THEN StoredRow(th) ELSE r : r \in rows}
      <3>1. CASE threads[th].target = 0
        <4>1. StoredRow(th) = RowOf(nextId, Head(threads[th].todo))
          BY <3>1 DEF StoredRow
        <4> QED
          BY <1>1, <2>1, <3>1, <4>1, StoreIs
      <3>2. CASE threads[th].target # 0
        <4>1. StoredRow(th) = RowOf(threads[th].target, Head(threads[th].todo))
          BY <3>2 DEF StoredRow
        <4> QED
          BY <1>1, <2>1, <3>2, <4>1, StoreIs
      <3> QED
        BY <3>1, <3>2
    <2> QED
      BY <2>1, <2>2, SameRow DEF RowsCome, RowsGo
  <1>6. CASE \E th \in Threads : Tell(th)
    <2>1. PICK th \in Threads : Tell(th)
      BY <1>6
    <2>2. rows' = MarkSeen({Head(threads[th].todo).mid}) /\ threads[th].todo # <<>>
      BY <2>1 DEF Tell
    <2>3. Head(threads[th].todo).mid # 0
      BY <1>1, <2>2, HeadIs DEF Messages, Ids
    <2> QED
      BY <1>1, <2>2, <2>3, KeptRows DEF RowsCome, RowsGo
  <1>7. CASE /\ Receive
             /\ \/ OnDelivered /\ Head(inbox).type = "DELIVERED"
                \/ OnRecall /\ Head(inbox).type = "RECALL"
    <2>1. Head(inbox) \in Range(inbox)
      BY <1>7, TakenIs
    <2>2. 0 \notin Range(Head(inbox).list)
      BY <1>7, <2>1 DEF NoticesTrue, Notice, Deletes
    <2>3. rows' = MarkSeen(Range(Head(inbox).list)) \/ rows' = MarkRecalled(Range(Head(inbox).list))
      BY <1>7 DEF OnDelivered, OnRecall
    <2> QED
      BY <1>1, <2>2, <2>3, KeptRows DEF RowsCome, RowsGo
  <1>8. CASE Receive /\ OnDeleteAck /\ Head(inbox).type = "DELETE"
    <2>1. rows' = {r \in rows : r.mid \notin Range(Head(inbox).list)}
      BY <1>8 DEF OnDeleteAck
    <2> QED
      BY <1>8, <2>1, SameRow DEF RowsCome, RowsGo
  <1>9. CASE SyncTheRest
    <2>1. rows' = MarkSeen(Unseen)
      BY <1>9, SyncTheRestIs
    <2>2. 0 \notin Unseen
      BY TextsAssumption DEF Unseen, RowTrue
    <2> QED
      BY <1>1, <2>1, <2>2, KeptRows DEF RowsCome, RowsGo
  <1>10. CASE \/ Send \/ \E r \in rows : RecallMessage(r)
              \/ \E th \in Threads : Look(th)
              \/ \E th \in Threads : OnMessages(th)
              \/ OnSyncDeleteAck
              \/ Token \/ SyncLocal \/ Disconnect \/ Kill
              \/ \E f \in fetches, th \in Threads : FetchAnswer(f, th)
              \/ \E f \in fetches : FetchFails(f)
    BY <1>2, <1>10 DEF Send, RecallMessage, Look, OnMessages, OnSyncDeleteAck, Token, SyncLocal,
       Disconnect, Kill, FetchAnswer, FetchFails, store
  <1>11. CASE \/ Serve \/ \E t \in Others : OtherSends(t)
              \/ \E i \in DOMAIN srv : OtherRecalls(i) \/ OtherSees(i)
    BY <1>2, <1>11 DEF Serve, OtherSends, OtherRecalls, OtherSees, store
  <1> QED
    BY <1>3, <1>4, <1>5, <1>6, <1>7, <1>8, <1>9, <1>10, <1>11, Steps

\* A message in flight says what the server has.
LEMMA FlightNext ==
    ASSUME Typed, Next, \A m \in InFlight : True(m)
    PROVE  \A m \in InFlight' : True(m)'
  <1>1. SrvKept /\ srv' \in Seq(Entries)
    BY SrvStep, TypeNext DEF Typed, LogTyped
  <1>2. TAKE m \in InFlight'
  <1>3. CASE m \in InFlight
    BY <1>1, <1>3 DEF True, SrvKept
  <1>4. CASE m \notin InFlight
    <2>1. PICK i \in DOMAIN srv' : m = Message(srv', i)
      BY <1>4, FlightStep DEF Wanted
    <2> QED
      BY <1>1, <2>1, MessageIs DEF True
  <1> QED
    BY <1>3, <1>4

\* A list of one number.
LEMMA OneNumber ==
    ASSUME NEW n
    PROVE  DOMAIN <<n>> = {1} /\ Range(<<n>>) = {n} /\ <<n>>[1] = n
  BY DEF Range

\* The packets sent are as NoticesTrue says.
LEMMA SentNext ==
    ASSUME Typed, Next, TrueInv, NEW p \in Range(out'), p.type # "SEND"
    PROVE  Notice(p)'
  <1>1. SrvKept /\ removed \subseteq removed'
    BY SrvStep, RemovedStep
  <1>2. CASE p \in Range(out)
    BY <1>1, <1>2 DEF TrueInv, NoticesTrue, Notice, SrvKept
  <1>3. CASE p \notin Range(out)
    <2>1. ASSUME NEW n, p.list = <<n>>, n = 0 => p.type \in Deletes,
                 n # 0 => n \in DOMAIN srv' /\ (p.type \in Deletes => srv'[n].text \in removed')
          PROVE  Notice(p)'
      <3>1. DOMAIN p.list = {1} /\ Range(p.list) = {n}
        BY <2>1, OneNumber
      <3> QED
        BY <2>1, <3>1 DEF Notice
    <2>2. CASE \E r \in rows : DeleteMessage(r) /\ p.type = "DELETE" /\ p.list = <<r.mid>>
      <3>1. PICK r \in rows : DeleteMessage(r) /\ p.type = "DELETE" /\ p.list = <<r.mid>>
        BY <2>2
      <3>2. r.text \in removed' /\ RowTrue(r)
        BY <3>1 DEF DeleteMessage, TrueInv
      <3>3. r.mid # 0 => r.mid \in DOMAIN srv' /\ srv'[r.mid].text \in removed'
        BY <1>1, <3>2 DEF RowTrue, SrvKept
      <3> QED
        BY <2>1, <3>1, <3>3 DEF Deletes
    <2>3. CASE \E r \in rows : RecallMessage(r) /\ p.type = "RECALL" /\ p.list = <<r.mid>>
      <3>1. PICK r \in rows : RecallMessage(r) /\ p.type = "RECALL" /\ p.list = <<r.mid>>
        BY <2>3
      <3>2. r.mid # 0 /\ RowTrue(r)
        BY <3>1 DEF RecallMessage, TrueInv
      <3>3. r.mid \in DOMAIN srv'
        BY <1>1, <3>2 DEF RowTrue, SrvKept
      <3> QED
        BY <2>1, <3>1, <3>2, <3>3 DEF Deletes
    <2>4. CASE \E th \in Threads : /\ Tell(th) /\ p.type = "DELIVERED"
                                   /\ p.list = <<Head(threads[th].todo).mid>>
      <3>1. PICK th \in Threads : /\ Tell(th) /\ p.type = "DELIVERED"
                                  /\ p.list = <<Head(threads[th].todo).mid>>
        BY <2>4
      <3>2. Head(threads[th].todo) \in InFlight
        BY <3>1, FlightTyped DEF Tell, InFlight
      <3>3. Head(threads[th].todo).mid \in DOMAIN srv /\ Head(threads[th].todo).mid # 0
        BY <3>2, FlightTyped DEF TrueInv, True, Messages, Ids
      <3>4. Head(threads[th].todo).mid \in DOMAIN srv'
        BY <1>1, <3>3 DEF SrvKept
      <3> QED
        BY <2>1, <3>1, <3>3, <3>4 DEF Deletes
    <2>5. CASE SyncTheRest /\ \E d \in deletions : p.type = "SYNC_DELETE" /\ p.list = <<d>>
      <3>1. PICK d \in deletions : p.type = "SYNC_DELETE" /\ p.list = <<d>>
        BY <2>5
      <3>2. d # 0 => d \in DOMAIN srv' /\ srv'[d].text \in removed'
        BY <1>1 DEF TrueInv, DeletionsTrue, SrvKept
      <3> QED
        BY <2>1, <3>1, <3>2 DEF Deletes
    <2>6. CASE SyncTheRest /\ p.type = "DELIVERED" /\ p.list \in Seq(Unseen)
      <3>1. Range(p.list) \subseteq Unseen
        BY <2>6, RangeIsIn
      <3>2. \A n \in Unseen : n # 0 /\ n \in DOMAIN srv'
        BY <1>1, TextsAssumption DEF TrueInv, RowTrue, Unseen, SrvKept
      <3> QED
        BY <2>6, <3>1, <3>2 DEF Notice, Deletes
    <2> QED
      BY <1>3, <2>2, <2>3, <2>4, <2>5, <2>6, OutStep
  <1> QED
    BY <1>2, <1>3

\* The packets that arrive are as NoticesTrue says.
LEMMA ArrivedNext ==
    ASSUME Typed, Next, TrueInv, NEW p \in Range(inbox'), p.type # "MESSAGES"
    PROVE  Notice(p)' /\ (p.type = "DELETE" => 0 \notin Range(p.list))
  <1>1. SrvKept /\ removed \subseteq removed'
    BY SrvStep, RemovedStep
  <1>2. CASE p \in Range(inbox)
    BY <1>1, <1>2 DEF TrueInv, NoticesTrue, Notice, SrvKept
  <1>3. CASE /\ p \in Range(out) /\ p \in Outgoing /\ p # Packet("DELETE", <<0>>)
             /\ p.type \in {"RECALL", "DELETE", "SYNC_DELETE"}
    <2>1. Notice(p) /\ p.list \in Seq(Nat) /\ p = Packet(p.type, p.list)
      BY <1>3 DEF TrueInv, NoticesTrue, Outgoing, Packet
    <2>2. Notice(p)'
      BY <1>1, <2>1 DEF Notice, SrvKept
    <2>3. ASSUME 0 \in Range(p.list), p.type = "DELETE" PROVE FALSE
      <3>1. DOMAIN p.list = {1}
        BY <2>1, <2>3 DEF Notice
      <3>2. p.list[1] = 0
        BY <2>3, <3>1 DEF Range
      <3>3. p.list = <<0>>
        BY <2>1, <3>1, <3>2
      <3> QED
        BY <1>3, <2>1, <2>3, <3>3
    <2> QED
      BY <2>2, <2>3
  <1>4. CASE \E i \in DOMAIN srv : p.type \in {"DELIVERED", "RECALL"} /\ p.list = <<i>>
    <2>1. PICK i \in DOMAIN srv : p.type \in {"DELIVERED", "RECALL"} /\ p.list = <<i>>
      BY <1>4
    <2>2. DOMAIN p.list = {1} /\ Range(p.list) = {i}
      BY <2>1, OneNumber
    <2>3. i \in DOMAIN srv' /\ i # 0
      BY <1>1, QueueEntries DEF SrvKept, Typed, LogTyped
    <2> QED
      BY <2>1, <2>2, <2>3 DEF Notice, Deletes
  <1> QED
    BY <1>2, <1>3, <1>4, InStep

\* The rows are as RowTrue says.
LEMMA RowsTrueNext ==
    ASSUME Typed, Next, TrueInv, NEW a \in rows'
    PROVE  RowTrue(a)'
  <1>1. SrvKept
    BY SrvStep
  <1>2. CASE \E b \in rows : KeptRow(a, b)
    <2>1. PICK b \in rows : KeptRow(a, b)
      BY <1>2
    <2>2. RowTrue(b) /\ b.synced \in BOOLEAN /\ a.synced \in BOOLEAN
      BY TypeNext DEF TrueInv, Typed, TableTyped, Rows
    <2> QED
      BY <1>1, <2>1, <2>2 DEF RowTrue, KeptRow, Marks, SrvKept
  <1>3. CASE \E t \in Own : Write(t) /\ a = WrittenRow(t)
    BY <1>3 DEF WrittenRow, RowTrue
  <1>4. CASE \E th \in Threads : Store(th) /\ a = StoredRow(th)
    <2>1. PICK th \in Threads : Store(th) /\ a = StoredRow(th)
      BY <1>4
    <2>2. Head(threads[th].todo) \in InFlight
      BY <2>1, FlightTyped DEF Store, InFlight
    <2>3. PICK m \in InFlight : m = Head(threads[th].todo)
      BY <2>2
    <2>4. a.mid = m.mid /\ a.text = m.text /\ a.synced
      BY <2>1, <2>3 DEF StoredRow, RowOf
    <2>5. m.mid # 0 /\ True(m)
      BY FlightTyped DEF TrueInv, Messages, Ids
    <2> QED
      BY <1>1, <2>4, <2>5 DEF True, RowTrue, SrvKept
  <1> QED
    BY <1>2, <1>3, <1>4, RowsStep DEF TrueInv, RowsCome

\* Nothing but deleteMessages, offline, queues a deletion.
LEMMA DeletionsStep ==
    ASSUME Typed, Next, NEW d \in deletions' \ deletions
    PROVE  \E r \in rows : DeleteMessage(r) /\ d = r.mid
  <1>1. CASE \E r \in rows : DeleteMessage(r)
    BY <1>1 DEF DeleteMessage
  <1>2. CASE Receive
    BY <1>2, ReceiveIs DEF OnMessages, OnDelivered, OnRecall, OnDeleteAck, OnSyncDeleteAck
  <1>3. CASE ~(\E r \in rows : DeleteMessage(r)) /\ ~Receive
    BY <1>3 DEF Next, User, Write, Send, RecallMessage, Token, Synchronise, SyncLocal, SyncTheRest,
       Fetched, FetchAnswer, FetchFails, Disconnect, Kill, Thread, Look, Store, Tell, Server, Serve,
       OtherSends, OtherRecalls, OtherSees, store
  <1> QED
    BY <1>1, <1>2, <1>3

\* What the server deletes, it is told to.
LEMMA ServerDeletes ==
    ASSUME Typed, Next, NEW i \in DOMAIN srv', srv'[i].deleted
    PROVE  /\ i \in DOMAIN srv
           /\ srv[i].deleted \/ /\ Serve /\ Head(out) \in Range(out) /\ Head(out).type \in Deletes
                                /\ i = Head(out).list[1]
  <1>1. CASE Serve /\ Head(out).type = "SEND"
    <2>1. \A e \in {Entry(x.text, x.ref) : x \in Range(Head(out).list)} : ~e.deleted
      BY DEF Entry
    <2> QED
      BY <1>1, <2>1, AcceptedIs DEF Range
  <1>2. CASE Serve /\ Head(out).type # "SEND"
    BY <1>2, ServeNoticeIs, ServedIs DEF Deletes
  <1>3. CASE \E t \in Others : OtherSends(t)
    <2>1. PICK t \in Others : OtherSends(t)
      BY <1>3
    <2>2. ~Entry(t, 0).deleted
      BY DEF Entry
    <2> QED
      BY <2>1, <2>2, OtherSendsIs
  <1>4. CASE \E j \in DOMAIN srv : OtherRecalls(j) \/ OtherSees(j)
    BY <1>4, OtherMarksIs
  <1>5. CASE srv' = srv
    BY <1>5
  <1>6. User \/ Receive \/ Token \/ Synchronise \/ Fetched \/ Disconnect \/ Kill
          \/ (\E th \in Threads : Thread(th)) => srv' = srv
    BY DEF User, Write, Send, DeleteMessage, RecallMessage, Receive, Token, Synchronise, SyncLocal,
       SyncTheRest, Fetched, FetchAnswer, FetchFails, Disconnect, Kill, Thread, Look, Store, Tell
  <1> QED
    BY <1>1, <1>2, <1>3, <1>4, <1>5, <1>6 DEF Next, Server

\* What is deleted is as DeletionsTrue says.
LEMMA DeletionsTrueNext ==
    ASSUME Typed, Next, TrueInv
    PROVE  DeletionsTrue'
  <1>1. SrvKept /\ removed \subseteq removed'
    BY SrvStep, RemovedStep
  <1>2. ASSUME NEW d \in deletions', d # 0 PROVE d \in DOMAIN srv' /\ srv'[d].text \in removed'
    <2>1. CASE d \in deletions
      BY <1>1, <1>2, <2>1 DEF TrueInv, DeletionsTrue, SrvKept
    <2>2. CASE d \notin deletions
      <3>1. PICK r \in rows : DeleteMessage(r) /\ d = r.mid
        BY <2>2, DeletionsStep
      <3>2. r.text \in removed' /\ RowTrue(r)
        BY <3>1 DEF DeleteMessage, TrueInv
      <3> QED
        BY <1>1, <1>2, <3>1, <3>2 DEF RowTrue, SrvKept
    <2> QED
      BY <2>1, <2>2
  <1>3. ASSUME NEW i \in DOMAIN srv', srv'[i].deleted PROVE srv'[i].text \in removed'
    <2>1. i \in DOMAIN srv
      BY <1>3, ServerDeletes
    <2>2. CASE srv[i].deleted
      BY <1>1, <2>1, <2>2 DEF TrueInv, DeletionsTrue, SrvKept
    <2>3. CASE ~srv[i].deleted
      <3>1. PICK p \in Range(out) : p.type \in Deletes /\ i = p.list[1]
        BY <1>3, <2>3, ServerDeletes
      <3>2. Notice(p) /\ DOMAIN p.list = {1}
        BY <3>1 DEF TrueInv, NoticesTrue, Notice, Deletes
      <3>3. i \in Range(p.list) /\ i # 0
        BY <2>1, <3>1, <3>2, QueueEntries DEF Range, Typed, LogTyped
      <3> QED
        BY <1>1, <2>1, <3>1, <3>2, <3>3 DEF Notice, SrvKept
    <2> QED
      BY <2>2, <2>3
  <1> QED
    BY <1>2, <1>3 DEF DeletionsTrue

\* A step keeps what is said of the server's messages true.
LEMMA TrueNext ==
    ASSUME Typed, TrueInv, [Next]_vars
    PROVE  TrueInv'
  <1>1. CASE Next
    BY <1>1, FlightNext, SentNext, ArrivedNext, RowsTrueNext, DeletionsTrueNext
       DEF TrueInv, NoticesTrue
  <1>2. CASE UNCHANGED vars
    BY <1>2 DEF vars, store, wire, history, TrueInv, InFlight, Tasks, Answers, True, NoticesTrue,
       Notice, DeletionsTrue, RowTrue
  <1> QED
    BY <1>1, <1>2

LEMMA TrueInit == Init => TrueInv
  <1> SUFFICES ASSUME Init PROVE TrueInv
    OBVIOUS
  <1>1. InFlight = {}
    BY NothingInRange DEF Init, InFlight, Tasks, Answers, Resting
  <1>2. NoticesTrue
    BY NothingInRange DEF Init, NoticesTrue
  <1>3. DeletionsTrue
    BY DEF Init, DeletionsTrue
  <1> QED
    BY <1>1, <1>2, <1>3 DEF Init, TrueInv

\* The invariants of the types and of what is said of the server's messages.
LEMMA TrueInvariant == Spec => [](Typed /\ TrueInv)
  <1>1. Init => Typed /\ TrueInv
    BY TypeInit, TrueInit
  <1>2. Typed /\ TrueInv /\ [Next]_vars => (Typed /\ TrueInv)'
    BY TypeNext, TrueNext
  <1> QED
    BY <1>1, <1>2, PTL DEF Spec

\* What the server could still send was deleted: the deletions lost with a connection
\* are deletions.
LEMMA RestlessNext ==
    ASSUME Typed, TrueInv, restless \subseteq removed, [Next]_vars
    PROVE  (restless \subseteq removed)'
  <1>1. CASE UNCHANGED vars
    BY <1>1 DEF vars, history
  <1>2. CASE \E r \in rows : DeleteMessage(r)
    BY <1>2 DEF DeleteMessage
  <1>3. CASE Disconnect \/ Kill
    <2>1. Undelivered \subseteq removed
      <3>1. ASSUME NEW k \in DOMAIN out, out[k].type = "DELETE", NEW n \in Range(out[k].list) \ {0}
            PROVE  srv[n].text \in removed
        <4>1. Notice(out[k])
          BY <3>1 DEF TrueInv, NoticesTrue, Range
        <4> QED
          BY <3>1, <4>1 DEF Notice, Deletes
      <3> QED
        BY <3>1 DEF Undelivered
    <2> QED
      BY <1>3, <2>1 DEF Disconnect, Kill
  <1>4. CASE Next /\ ~(\E r \in rows : DeleteMessage(r)) /\ ~Disconnect /\ ~Kill
    <2>1. restless' = restless
      BY <1>4 DEF Next, User, Write, Send, RecallMessage, Receive, Token, Synchronise, SyncLocal,
         SyncTheRest, Fetched, FetchAnswer, FetchFails, Thread, Look, Store, Tell, Server, Serve,
         OtherSends, OtherRecalls, OtherSees, history
    <2>2. removed \subseteq removed'
      BY <1>4, RemovedStep
    <2> QED
      BY <2>1, <2>2
  <1> QED
    BY <1>1, <1>2, <1>3, <1>4

\* The variables of the table of messages, of its threads and of the wire have their types:
\* no two rows have one local id, and no new row takes an old one's.
THEOREM TypeCorrect == Spec => []TypeOK
  <1>1. Init => restless \subseteq removed
    BY DEF Init
  <1>2. Typed /\ TrueInv /\ restless \subseteq removed /\ [Next]_vars => (restless \subseteq removed)'
    BY RestlessNext
  <1> QED
    BY <1>1, <1>2, TrueInvariant, TypeParts, PTL DEF Spec

-----------------------------------------------------------------------------
(* A message has one row.                                                  *)

\* A thread takes a list up: what another handles already is shared.
Begins(th) ==
    /\ threads[th].todo = <<>>
    /\ threads'[th].step = "look" /\ threads'[th].todo \in Seq(Messages) /\ threads'[th].target = 0
    /\ \A m \in Range(threads'[th].todo) : m.mid \in AllHandled => m.mid \in shared'

\* What becomes of the threads: one goes a step, or takes a list up, or all are killed.
ThreadsGo ==
    \/ threads' = threads
    \/ \E th \in Threads :
          /\ \A u \in Threads \ {th} : threads'[u] = threads[u]
          /\ Look(th) \/ Store(th) \/ Tell(th) \/ (Begins(th) /\ ~Thread(th))
    \/ Kill

LEMMA ThreadsStep ==
    ASSUME Typed, Next
    PROVE  ThreadsGo
  <1>1. ThreadsTyped /\ TableTyped /\ WireTyped
    BY DEF Typed
  <1>2. ASSUME NEW th \in Threads, NEW l \in Seq(Messages), threads[th].todo = <<>>,
               Goes(th, [todo |-> l, step |-> "look", target |-> 0]),
               \A k \in DOMAIN l : l[k].mid \in AllHandled => l[k].mid \in shared'
        PROVE  ThreadsGo
    <2>1. PICK n : n = [todo |-> l, step |-> "look", target |-> 0]
      OBVIOUS
    <2>2. n.todo = l /\ n.step = "look" /\ n.target = 0
      BY <2>1
    <2>3. threads'[th] = n /\ \A u \in Threads \ {th} : threads'[u] = threads[u]
      BY <1>2, <2>1 DEF Goes
    <2>4. \A m \in Range(l) : m.mid \in AllHandled => m.mid \in shared'
      BY <1>2 DEF Range
    <2>5. Begins(th)
      BY <1>2, <2>2, <2>3, <2>4 DEF Begins
    <2>6. ~Thread(th)
      BY <1>2 DEF Thread, Look, Store, Tell
    <2> QED
      BY <2>3, <2>5, <2>6 DEF ThreadsGo
  <1>3. CASE Receive /\ Head(inbox).type = "MESSAGES"
    <2>1. PICK th \in Threads : OnMessages(th)
      BY <1>3, ReceiveIs
    <2>2. PICK l \in Seq(Messages) : l = Head(inbox).list
      BY <1>3, <2>1, OnMessagesIs
    <2> QED
      BY <1>2, <1>3, <2>1, <2>2, OnMessagesIs
  <1>4. CASE Receive /\ Head(inbox).type # "MESSAGES"
    BY <1>4, ReceiveIs, OnNoticeIs, OnDeletionIs DEF ThreadsGo
  <1>5. CASE \E f \in fetches, th \in Threads : FetchAnswer(f, th)
    <2>1. PICK f \in fetches, th \in Threads : FetchAnswer(f, th)
      BY <1>5
    <2>2. PICK l \in Seq(Messages) :
             /\ Goes(th, [todo |-> l, step |-> "look", target |-> 0])
             /\ \A k \in DOMAIN l : l[k].mid \in AllHandled => l[k].mid \in shared'
      BY <2>1, FetchAnswerIs
    <2> QED
      BY <1>2, <2>1, <2>2, FetchAnswerIs
  <1>6. CASE \E th \in Threads : Look(th)
    <2>1. PICK th \in Threads : Look(th)
      BY <1>6
    <2> QED
      BY <1>1, <2>1, LookIs DEF Goes, ThreadsGo
  <1>7. CASE \E th \in Threads : Store(th)
    <2>1. PICK th \in Threads : Store(th)
      BY <1>7
    <2> QED
      BY <1>1, <2>1, StoreIs DEF Goes, ThreadsGo
  <1>8. CASE \E th \in Threads : Tell(th)
    <2>1. PICK th \in Threads : Tell(th)
      BY <1>8
    <2> QED
      BY <1>1, <2>1, TellIs DEF Goes, ThreadsGo
  <1>9. CASE Kill
    BY <1>9 DEF ThreadsGo
  <1>10. CASE \/ User \/ Token \/ Synchronise \/ Server \/ Disconnect
              \/ \E f \in fetches : FetchFails(f)
    BY <1>10 DEF ThreadsGo, User, Write, Send, DeleteMessage, RecallMessage, Token, Synchronise,
       SyncLocal, SyncTheRest, Server, Serve, OtherSends, OtherRecalls, OtherSees, Disconnect, FetchFails
  <1> QED
    BY <1>3, <1>4, <1>5, <1>6, <1>7, <1>8, <1>9, <1>10 DEF Next, Thread, Fetched

\* What two threads handled at a time stays noted.
LEMMA SharedStep ==
    ASSUME Typed, Next
    PROVE  shared \subseteq shared'
  <1>1. CASE Receive
    BY <1>1, ReceiveIs, OnMessagesIs, OnNoticeIs, OnDeletionIs
  <1>2. CASE \E f \in fetches, th \in Threads : FetchAnswer(f, th)
    BY <1>2, FetchAnswerIs
  <1>3. CASE ~Receive /\ ~\E f \in fetches, th \in Threads : FetchAnswer(f, th)
    BY <1>3 DEF Next, User, Write, Send, DeleteMessage, RecallMessage, Token, Synchronise, SyncLocal,
       SyncTheRest, Fetched, FetchFails, Disconnect, Kill, Thread, Look, Store, Tell, Server, Serve,
       OtherSends, OtherRecalls, OtherSees, history
  <1> QED
    BY <1>1, <1>2, <1>3

Storing(th) == threads[th].todo # <<>> /\ threads[th].step = "store"
At(th) == Head(threads[th].todo)

\* Threads handle different messages.
ThreadsApart ==
    \A u, v \in Threads : \A n \in Handled(u) \cap Handled(v) : u = v \/ n \in shared

\* Who stores a message has found its row, if it has one.
OneTarget ==
    \A th \in Threads : Storing(th) /\ At(th).mid \notin shared =>
        \A r \in rows : r.mid = At(th).mid => r.id = threads[th].target

OneRowInv == ThreadsApart /\ OneTarget /\ OneRowPerMessage

\* The messages a thread handles, when it goes a step.
LEMMA HandledStep ==
    ASSUME Typed, NEW th \in Threads, Thread(th)
    PROVE  /\ Handled(th)' \subseteq Handled(th)
           /\ Look(th) => Storing(th)' /\ At(th)' = At(th)
           /\ Storing(th)' => Look(th)
           /\ threads[th].todo # <<>> /\ At(th) \in Messages /\ At(th).mid \in Handled(th)
  <1>1. TableTyped /\ ThreadsTyped /\ WireTyped
    BY DEF Typed
  <1>2. threads[th].todo # <<>>
    BY DEF Thread, Look, Store, Tell
  <1>3. threads[th].todo \in Seq(Messages) /\ Range(Tail(threads[th].todo)) \subseteq Range(threads[th].todo)
    BY <1>1, <1>2, HeadIs, TakenRange
  <1>4. At(th) \in Messages /\ At(th).mid \in Handled(th)
    BY <1>1, <1>2, HeadIs DEF At
  <1>5. CASE Look(th)
    <2>1. PICK n : n = [todo |-> threads[th].todo, step |-> "store",
                        target |-> Target(Head(threads[th].todo))]
      OBVIOUS
    <2>2. threads'[th] = n /\ n.todo = threads[th].todo /\ n.step = "store"
      BY <1>1, <1>5, <2>1, LookIs DEF Goes
    <2> QED
      BY <1>2, <1>4, <1>5, <2>2 DEF Handled, Storing, At
  <1>6. CASE Store(th) \/ Tell(th)
    <2>1. PICK t \in {threads[th].todo, Tail(threads[th].todo)}, k \in {"look", "tell"} :
             \E g : Goes(th, [todo |-> t, step |-> k, target |-> g])
      BY <1>1, <1>6, StoreIs, TellIs
    <2>2. threads'[th].todo = t /\ threads'[th].step = k
      BY <2>1 DEF Goes
    <2>3. Range(threads'[th].todo) \subseteq Range(threads[th].todo)
      BY <1>3, <2>1, <2>2
    <2>4. /\ Handled(th) = {m.mid : m \in Range(threads[th].todo)}
          /\ Handled(th)' = {m.mid : m \in Range(threads'[th].todo)}
      BY DEF Handled, Range
    <2>5. Handled(th)' \subseteq Handled(th)
      BY <2>3, <2>4
    <2>6. ~Storing(th)' /\ ~Look(th)
      BY <1>6, <2>1, <2>2 DEF Storing, Look, Store, Tell
    <2> QED
      BY <1>2, <1>4, <2>5, <2>6
  <1> QED
    BY <1>5, <1>6 DEF Thread

LEMMA ApartNext ==
    ASSUME Typed, ThreadsApart, Next
    PROVE  ThreadsApart'
  <1>1. shared \subseteq shared'
    BY SharedStep
  <1>2. SUFFICES ASSUME NEW u \in Threads, NEW v \in Threads, NEW n \in Handled(u)' \cap Handled(v)',
                        u # v
                 PROVE  n \in shared'
    BY DEF ThreadsApart
  <1>3. CASE threads' = threads
    BY <1>1, <1>2, <1>3 DEF ThreadsApart, Handled
  <1>4. CASE Kill
    BY <1>4 DEF Kill, Handled, Resting
  <1>5. ASSUME NEW th \in Threads, \A w \in Threads \ {th} : threads'[w] = threads[w],
               Thread(th) \/ Begins(th)
        PROVE  n \in shared'
    <2>1. \A w \in Threads \ {th} : Handled(w)' = Handled(w)
      BY <1>5 DEF Handled
    <2>2. CASE Thread(th)
      <3>1. Handled(th)' \subseteq Handled(th)
        BY <2>2, HandledStep
      <3> QED
        BY <1>1, <1>2, <2>1, <3>1 DEF ThreadsApart
    <2>3. CASE Begins(th)
      <3>1. \A k \in Handled(th)' : k \in AllHandled => k \in shared'
        BY <2>3 DEF Begins, Handled, Range
      <3> QED
        BY <1>1, <1>2, <2>1, <3>1 DEF ThreadsApart, AllHandled
    <2> QED
      BY <1>5, <2>2, <2>3
  <1> QED
    BY <1>3, <1>4, <1>5, ThreadsStep DEF ThreadsGo, Thread

LEMMA TargetNext ==
    ASSUME Typed, TrueInv, OneRowInv, Next
    PROVE  OneTarget'
  <1>1. shared \subseteq shared'
    BY SharedStep
  <1>2. SUFFICES ASSUME NEW th \in Threads, Storing(th)', At(th)'.mid \notin shared',
                        NEW a \in rows', a.mid = At(th)'.mid
                 PROVE  a.id = threads'[th].target
    BY DEF OneTarget
  <1>3. CASE threads'[th] = threads[th]
    <2>1. Storing(th) /\ At(th)' = At(th) /\ At(th).mid \notin shared
      BY <1>1, <1>2, <1>3 DEF Storing, At
    <2>2. At(th).mid \in Handled(th) /\ At(th).mid # 0
      BY <2>1, HeadIs DEF Typed, Storing, At, Messages, Ids
    <2>3. CASE \E b \in rows : KeptRow(a, b)
      <3>1. PICK b \in rows : KeptRow(a, b)
        BY <2>3
      <3> QED
        BY <1>2, <1>3, <2>1, <3>1 DEF KeptRow, Marks, OneRowInv, OneTarget
    <2>4. CASE \E t \in Own : Write(t) /\ a = WrittenRow(t)
      BY <1>2, <2>1, <2>2, <2>4 DEF WrittenRow
    <2>5. CASE \E w \in Threads : Store(w) /\ a = StoredRow(w)
      <3>1. PICK w \in Threads : Store(w) /\ a = StoredRow(w)
        BY <2>5
      <3>2. a.mid = At(w).mid
        BY <3>1 DEF StoredRow, RowOf, At
      <3>3. At(w).mid \in Handled(w) /\ (Storing(w)' => Look(w))
        BY <3>1, HandledStep DEF Thread
      <3>4. w # th
        BY <1>2, <3>1, <3>3 DEF Look, Store
      <3> QED
        BY <1>2, <2>1, <2>2, <3>2, <3>3, <3>4 DEF OneRowInv, ThreadsApart
    <2> QED
      BY <2>3, <2>4, <2>5, RowsStep DEF TrueInv, RowsCome
  <1>4. CASE Look(th)
    <2>1. At(th)' = At(th) /\ rows' = rows
      BY <1>4, HandledStep DEF Thread, Look, store
    <2>2. a \in rows /\ a.mid = At(th).mid /\ a.mid \notin shared
      BY <1>1, <1>2, <2>1
    <2>3. At(th).mid # 0
      BY <1>4, HandledStep DEF Thread, Messages, Ids
    <2>4. \E r \in rows : r.mid = At(th).mid /\ threads'[th].target = r.id
      BY <1>4, <2>2, LookIs DEF Typed, HasRow, At
    <2> QED
      BY <2>2, <2>3, <2>4 DEF OneRowInv, OneRowPerMessage
  <1>5. CASE Store(th) \/ Tell(th)
    BY <1>2, <1>5, HandledStep DEF Thread, Look, Store, Tell
  <1>6. CASE Begins(th) \/ Kill
    BY <1>2, <1>6 DEF Begins, Kill, Storing, Resting
  <1> QED
    BY <1>3, <1>4, <1>5, <1>6, ThreadsStep DEF ThreadsGo

LEMMA OneRowNext ==
    ASSUME Typed, TrueInv, OneRowInv, Next
    PROVE  OneRowPerMessage'
  <1>1. shared \subseteq shared'
    BY SharedStep
  <1>2. SUFFICES ASSUME NEW a1 \in rows', NEW a2 \in rows', a1.mid = a2.mid, a1.mid # 0,
                        a1.mid \notin shared'
                 PROVE  a1 = a2
    BY DEF OneRowPerMessage
  <1>3. TableTyped /\ TableTyped'
    BY TypeNext DEF Typed
  <1>4. SUFFICES a1.id = a2.id
    BY <1>3 DEF TableTyped
  <1>5. ASSUME NEW a \in rows', a.mid # 0
        PROVE  \/ \E b \in rows : b.mid = a.mid /\ b.id = a.id
               \/ \E th \in Threads : Store(th) /\ a = StoredRow(th)
    <2>1. a.mid # 0 => ~\E t \in Own : a = WrittenRow(t)
      BY DEF WrittenRow
    <2> QED
      BY <1>5, <2>1, RowsStep DEF TrueInv, RowsCome, KeptRow, Marks
  <1>6. ASSUME NEW a \in rows', NEW b \in rows', NEW th \in Threads, Store(th), a = StoredRow(th),
               a.mid = b.mid, a.mid \notin shared, a.mid # 0
        PROVE  a.id = b.id
    <2>1. CASE \E u \in Threads : Store(u) /\ b = StoredRow(u)
      <3>1. PICK u \in Threads : Store(u) /\ b = StoredRow(u)
        BY <2>1
      <3>2. a.mid = At(th).mid /\ b.mid = At(u).mid
        BY <1>6, <3>1 DEF StoredRow, RowOf, At
      <3>3. At(th).mid \in Handled(th) /\ At(u).mid \in Handled(u)
        BY <1>6, <3>1, HandledStep DEF Thread
      <3> QED
        BY <1>6, <3>1, <3>2, <3>3 DEF OneRowInv, ThreadsApart
    <2>2. CASE ~\E u \in Threads : Store(u) /\ b = StoredRow(u)
      <3>1. PICK c \in rows : c.mid = b.mid /\ c.id = b.id
        BY <1>5, <1>6, <2>2
      <3>2. a.mid = At(th).mid /\ (threads[th].target # 0 => a.id = threads[th].target)
        BY <1>6 DEF StoredRow, RowOf, At
      <3>3. Storing(th)
        BY <1>6 DEF Store, Storing
      <3>4. c.id = threads[th].target
        BY <1>6, <3>1, <3>2, <3>3 DEF OneRowInv, OneTarget
      <3>5. c.id # 0
        BY <1>3 DEF TableTyped, Rows, LocalIds
      <3> QED
        BY <3>1, <3>2, <3>4, <3>5
    <2> QED
      BY <2>1, <2>2
  <1>7. CASE \E b1, b2 \in rows : b1.mid = a1.mid /\ b1.id = a1.id /\ b2.mid = a2.mid /\ b2.id = a2.id
    BY <1>1, <1>2, <1>7 DEF OneRowInv, OneRowPerMessage
  <1> QED
    BY <1>1, <1>2, <1>5, <1>6, <1>7

\* At each moment, the threads that handle a message are apart, each has found the one row there
\* is, and every message has one row.
LEMMA OneRowInvariant == Spec => []OneRowInv
  <1>1. Init => OneRowInv
    BY DEF Init, OneRowInv, ThreadsApart, OneTarget, OneRowPerMessage, Handled, Storing, Resting
  <1>2. Typed /\ TrueInv /\ OneRowInv /\ [Next]_vars => OneRowInv'
    <2>1. CASE UNCHANGED vars
      BY <2>1 DEF vars, store, history, OneRowInv, ThreadsApart, OneTarget, OneRowPerMessage, Handled,
         Storing, At
    <2> QED
      BY <2>1, ApartNext, TargetNext, OneRowNext DEF OneRowInv
  <1> QED
    BY <1>1, <1>2, TrueInvariant, PTL DEF Spec

\* Every message has one row, though each packet that brings it is handled by a thread of its
\* own, which looks for the row first and writes it later: what no other thread handled
\* meanwhile has one row at most, and that is the one the thread has found.
THEOREM OneRowEach == Spec => []OneRowPerMessage
  <1>1. OneRowInv => OneRowPerMessage
    BY DEF OneRowInv
  <1> QED
    BY <1>1, OneRowInvariant, PTL

-----------------------------------------------------------------------------
(* The texts, and the references they go under.                            *)

\* The texts under way, each under its reference, and those of the user the server has.
Sending == UNION {Range(p.list) : p \in {q \in Range(out) : q.type = "SEND"}}
Logged == {[ref |-> srv[i].ref, text |-> srv[i].text] : i \in {n \in DOMAIN srv : srv[n].text \in Own}}
Pairs == Sending \cup Logged

\* A list of texts goes under different references.
ListsApart ==
    \A p \in Range(out) : p.type = "SEND" =>
        \A j, k \in DOMAIN p.list : p.list[j].ref = p.list[k].ref => j = k

\* What is sent, has a row or is deleted was written; the text that is being sent is not
\* deleted.
OwnTexts ==
    /\ \A r \in rows : r.text \in Own => r.text \in typed
    /\ \A p \in Pairs : p.text \in typed
    /\ removed \cap Own \subseteq typed
    /\ writing # None => writing \in typed \ removed

\* The others' texts are on the server, each once and under no reference.
OthersTexts ==
    /\ \A t \in removed \cap Others : \E i \in DOMAIN srv : srv[i].text = t
    /\ \A i, j \in DOMAIN srv : srv[i].text \in Others /\ srv[i].text = srv[j].text => i = j
    /\ \A i \in DOMAIN srv : srv[i].text \in Others => srv[i].ref = 0

\* Only the others' messages are acknowledged.
OthersTold ==
    /\ \A p \in Range(out) : p.type = "DELIVERED" => \A n \in Range(p.list) : srv[n].text \in Others
    /\ \A th \in Threads : threads[th].todo # <<>> /\ threads[th].step = "tell" =>
          At(th).text \in Others

TextsInv == ListsApart /\ OwnTexts /\ OthersTexts /\ OthersTold

LEMMA PairsAre ==
    ASSUME Typed
    PROVE  /\ Pairs \subseteq [ref : Nat, text : Own]
           /\ \A i \in DOMAIN srv : srv[i].text \in Own =>
                 [ref |-> srv[i].ref, text |-> srv[i].text] \in Pairs
           /\ \A p \in Range(out) : p.type = "SEND" =>
                 p.list \in Seq([ref : Nat, text : Own]) /\ Range(p.list) \subseteq Pairs
  <1>1. \A p \in Range(out) : p.type = "SEND" =>
           p.list \in Seq([ref : Nat, text : Own]) /\ Range(p.list) \subseteq [ref : Nat, text : Own]
    BY OutgoingIs, RangeIsIn DEF Typed, WireTyped
  <1>2. Sending \subseteq [ref : Nat, text : Own]
    BY <1>1 DEF Sending
  <1>3. Logged \subseteq [ref : Nat, text : Own]
    <2>1. \A i \in DOMAIN srv : srv[i] \in Entries
      BY QueueEntries DEF Typed, LogTyped
    <2>2. \A i \in DOMAIN srv : srv[i].ref \in Nat
      BY <2>1 DEF Entries
    <2> QED
      BY <2>2 DEF Logged
  <1> QED
    BY <1>1, <1>2, <1>3 DEF Pairs, Sending, Logged

\* Texts go out with Send, or with a synchronisation.
LEMMA SendingStep ==
    ASSUME Typed, Next, NEW p \in Range(out') \ Range(out), p.type = "SEND"
    PROVE  \/ /\ Send /\ link = "ready" /\ writing \in Own
              /\ p.list = <<[ref |-> LastLocalId, text |-> writing]>>
           \/ /\ SyncLocal
              /\ \A j \in DOMAIN p.list : \E r \in rows :
                    ~r.synced /\ p.list[j] = [ref |-> r.id, text |-> r.text]
              /\ \A j, k \in DOMAIN p.list : p.list[j].ref = p.list[k].ref => j = k
  <1>1. CASE Send
    <2>1. PICK l : l = <<[ref |-> LastLocalId, text |-> writing]>>
      OBVIOUS
    <2>2. /\ writing \in Own
          /\ \/ Range(out') = Range(out)
             \/ link = "ready" /\ Range(out') = Range(out) \cup {Packet("SEND", l)}
      BY <1>1, <2>1, SendIs
    <2>3. p = Packet("SEND", l) /\ link = "ready"
      BY <2>2
    <2>4. p.list = l
      BY <2>3 DEF Packet
    <2> QED
      BY <1>1, <2>1, <2>2, <2>3, <2>4
  <1>2. CASE SyncLocal
    <2>1. PICK l \in Seq([ref : Nat, text : Own]) :
             /\ Range(out') = Range(out) \cup {Packet("SEND", l)}
             /\ \A j \in DOMAIN l : \E r \in rows : ~r.synced /\ l[j] = [ref |-> r.id, text |-> r.text]
             /\ \A j, k \in DOMAIN l : l[j].ref = l[k].ref => j = k
      BY <1>2, SyncLocalIs
    <2>2. p.list = l
      BY <2>1 DEF Packet
    <2> QED
      BY <1>2, <2>1, <2>2
  <1> QED
    BY <1>1, <1>2, OutStep

\* What is new on the server: a text of another's, or one of a packet.
LEMMA SrvGrows ==
    ASSUME Typed, Next, NEW i \in DOMAIN srv' \ DOMAIN srv
    PROVE  \/ /\ \E t \in Others : OtherSends(t) /\ srv'[i] = Entry(t, 0)
              /\ DOMAIN srv' = DOMAIN srv \cup {i}
           \/ /\ Serve /\ Head(out) \in Range(out) /\ Head(out).type = "SEND"
              /\ \E x \in Range(Head(out).list) :
                    srv'[i] = Entry(x.text, x.ref) /\ ~Stored(srv, x.ref)
  <1>1. CASE Serve /\ Head(out).type = "SEND"
    <2>1. PICK j \in DOMAIN Head(out).list :
             /\ srv'[i] = Entry(Head(out).list[j].text, Head(out).list[j].ref)
             /\ ~Stored(srv, Head(out).list[j].ref)
      BY <1>1, AcceptedIs
    <2>2. Head(out).list[j] \in Range(Head(out).list) /\ Head(out) \in Range(out)
      BY <1>1, ServedIs DEF Range
    <2> QED
      BY <1>1, <2>1, <2>2
  <1>2. CASE Serve /\ Head(out).type # "SEND"
    BY <1>2, ServeNoticeIs
  <1>3. CASE \E t \in Others : OtherSends(t)
    <2>1. PICK t \in Others : OtherSends(t)
      BY <1>3
    <2>2. i = Len(srv) + 1
      BY <2>1, OtherSendsIs
    <2> QED
      BY <2>1, <2>2, OtherSendsIs
  <1>4. CASE \E j \in DOMAIN srv : OtherRecalls(j) \/ OtherSees(j)
    BY <1>4, OtherMarksIs
  <1>5. CASE srv' = srv
    BY <1>5
  <1>6. User \/ Receive \/ Token \/ Synchronise \/ Fetched \/ Disconnect \/ Kill
          \/ (\E th \in Threads : Thread(th)) => srv' = srv
    BY DEF User, Write, Send, DeleteMessage, RecallMessage, Receive, Token, Synchronise, SyncLocal,
       SyncTheRest, Fetched, FetchAnswer, FetchFails, Disconnect, Kill, Thread, Look, Store, Tell
  <1> QED
    BY <1>1, <1>2, <1>3, <1>4, <1>5, <1>6 DEF Next, Server

\* A text is under way as before, or as its row says.
LEMMA UnderWayStep ==
    ASSUME Typed, Next, NEW p \in Sending'
    PROVE  \/ p \in Sending
           \/ /\ Send /\ link = "ready" /\ writing \in Own
              /\ p = [ref |-> LastLocalId, text |-> writing]
           \/ /\ SyncLocal
              /\ \E r \in rows : ~r.synced /\ p = [ref |-> r.id, text |-> r.text]
  <1>1. PICK q \in Range(out') : q.type = "SEND" /\ p \in Range(q.list)
    BY DEF Sending
  <1>2. CASE q \in Range(out)
    BY <1>1, <1>2 DEF Sending
  <1>3. CASE q \notin Range(out)
    <2>1. PICK j \in DOMAIN q.list : p = q.list[j]
      BY <1>1 DEF Range
    <2>2. q.list = <<[ref |-> LastLocalId, text |-> writing]>> =>
             p = [ref |-> LastLocalId, text |-> writing]
      BY <2>1
    <2> QED
      BY <1>1, <1>3, <2>1, <2>2, SendingStep
  <1> QED
    BY <1>2, <1>3

\* A text is under way or on the server as before, or as its row says.
LEMMA PairsStep ==
    ASSUME Typed, Next, NEW p \in Pairs'
    PROVE  \/ p \in Pairs
           \/ /\ Send /\ link = "ready" /\ writing \in Own
              /\ p = [ref |-> LastLocalId, text |-> writing]
           \/ /\ SyncLocal
              /\ \E r \in rows : ~r.synced /\ p = [ref |-> r.id, text |-> r.text]
  <1>1. CASE p \in Sending'
    BY <1>1, UnderWayStep DEF Pairs
  <1>2. CASE p \in Logged'
    <2>1. PICK i \in DOMAIN srv' : srv'[i].text \in Own /\ p = [ref |-> srv'[i].ref, text |-> srv'[i].text]
      BY <1>2 DEF Logged
    <2>2. CASE i \in DOMAIN srv
      BY <2>1, <2>2, SrvStep DEF SrvKept, Pairs, Logged
    <2>3. CASE i \notin DOMAIN srv
      <3>1. CASE \E t \in Others : srv'[i] = Entry(t, 0)
        BY <2>1, <3>1, TextsAssumption DEF Entry
      <3>2. CASE /\ Head(out) \in Range(out) /\ Head(out).type = "SEND"
                 /\ \E x \in Range(Head(out).list) : srv'[i] = Entry(x.text, x.ref)
        <4>1. PICK x \in Range(Head(out).list) : srv'[i] = Entry(x.text, x.ref)
          BY <3>2
        <4>2. x \in Pairs
          BY <3>2, PairsAre
        <4>3. x = [ref |-> x.ref, text |-> x.text]
          BY <4>2, PairsAre
        <4> QED
          BY <2>1, <4>1, <4>2, <4>3 DEF Entry
      <3> QED
        BY <2>3, <3>1, <3>2, SrvGrows
    <2> QED
      BY <2>2, <2>3
  <1> QED
    BY <1>1, <1>2 DEF Pairs

\* The text that is being sent.
LEMMA WritingStep ==
    ASSUME Typed, Next
    PROVE  \/ writing' = writing /\ typed' = typed
           \/ \E t \in Own : /\ Write(t) /\ writing = None /\ t \notin typed
                             /\ writing' = t /\ typed' = typed \cup {t} /\ removed' = removed
           \/ (Send \/ Kill) /\ writing' = None /\ typed' = typed
  <1>1. CASE \E t \in Own : Write(t)
    BY <1>1 DEF Write
  <1>2. CASE Send \/ Kill
    BY <1>2 DEF Send, Kill
  <1>3. CASE ~(\E t \in Own : Write(t)) /\ ~Send /\ ~Kill
    BY <1>3 DEF Next, User, DeleteMessage, RecallMessage, Receive, Token, Synchronise, SyncLocal,
       SyncTheRest, Fetched, FetchAnswer, FetchFails, Disconnect, Thread, Look, Store, Tell, Server,
       Serve, OtherSends, OtherRecalls, OtherSees, history
  <1> QED
    BY <1>1, <1>2, <1>3

\* A message in flight was written, or is another's.
LEMMA FlightTexts ==
    ASSUME Typed, TrueInv, OwnTexts, NEW m \in InFlight
    PROVE  m.text \in typed \cup Others /\ m.mid # 0
  <1>1. m \in Messages /\ True(m)
    BY FlightTyped DEF TrueInv
  <1>2. CASE m.text \in Own
    <2>1. PICK p \in Pairs : p = [ref |-> srv[m.mid].ref, text |-> srv[m.mid].text]
      BY <1>1, <1>2, PairsAre DEF True
    <2>2. p.text = m.text
      BY <1>1, <2>1 DEF True
    <2> QED
      BY <1>1, <2>2 DEF OwnTexts, Messages, Ids
  <1> QED
    BY <1>1, <1>2 DEF Messages, Ids, Texts

LEMMA ListsApartNext ==
    ASSUME Typed, ListsApart, Next
    PROVE  ListsApart'
  <1>1. SUFFICES ASSUME NEW p \in Range(out'), p.type = "SEND", NEW j \in DOMAIN p.list,
                        NEW k \in DOMAIN p.list, p.list[j].ref = p.list[k].ref
                 PROVE  j = k
    BY DEF ListsApart
  <1>2. CASE p \in Range(out)
    BY <1>1, <1>2 DEF ListsApart
  <1>3. CASE p \notin Range(out)
    <2>1. CASE p.list = <<[ref |-> LastLocalId, text |-> writing]>>
      BY <2>1, OneNumber
    <2> QED
      BY <1>1, <1>3, <2>1, SendingStep
  <1> QED
    BY <1>2, <1>3

LEMMA OwnTextsNext ==
    ASSUME Typed, TrueInv, OwnTexts, Next
    PROVE  OwnTexts'
  <1>1. typed \subseteq typed'
    BY WritingStep
  <1>2. TextsAssumption
    BY TextsAssumption
  <1>3. ASSUME NEW a \in rows', a.text \in Own PROVE a.text \in typed'
    <2>1. CASE \E b \in rows : KeptRow(a, b)
      BY <1>1, <1>3, <2>1 DEF OwnTexts, KeptRow, Marks
    <2>2. CASE \E t \in Own : Write(t) /\ a = WrittenRow(t)
      BY <2>2 DEF Write, WrittenRow
    <2>3. CASE \E th \in Threads : Store(th) /\ a = StoredRow(th)
      <3>1. PICK th \in Threads : Store(th) /\ a = StoredRow(th)
        BY <2>3
      <3>2. Head(threads[th].todo) \in InFlight
        BY <3>1, FlightTyped DEF Store, InFlight
      <3>3. a.text = Head(threads[th].todo).text
        BY <3>1 DEF StoredRow, RowOf
      <3> QED
        BY <1>1, <1>3, <3>2, <3>3, FlightTexts, TextsAssumption
    <2> QED
      BY <2>1, <2>2, <2>3, RowsStep DEF TrueInv, RowsCome
  <1>4. ASSUME NEW p \in Pairs' PROVE p.text \in typed'
    <2>1. CASE p \in Pairs
      BY <1>1, <2>1 DEF OwnTexts
    <2>2. CASE Send /\ p = [ref |-> LastLocalId, text |-> writing]
      BY <1>1, <2>2 DEF OwnTexts, Send
    <2>3. CASE \E r \in rows : ~r.synced /\ p = [ref |-> r.id, text |-> r.text]
      BY <1>1, <2>3 DEF OwnTexts, Typed, TableTyped
    <2> QED
      BY <2>1, <2>2, <2>3, PairsStep
  <1>5. removed' \cap Own \subseteq typed'
    BY <1>1, RemovedStep DEF OwnTexts
  <1>6. writing' # None => writing' \in typed' \ removed'
    <2>1. CASE \E t \in Own : /\ t \notin typed
                              /\ writing' = t /\ typed' = typed \cup {t} /\ removed' = removed
      BY <2>1 DEF OwnTexts
    <2>2. CASE writing' = writing /\ typed' = typed
      <3>1. writing' # None => removed' = removed
        BY <2>2, RemovedStep DEF DeleteMessage
      <3> QED
        BY <2>2, <3>1 DEF OwnTexts
    <2> QED
      BY <2>1, <2>2, WritingStep
  <1> QED
    BY <1>3, <1>4, <1>5, <1>6 DEF OwnTexts

LEMMA OthersTextsNext ==
    ASSUME Typed, TrueInv, OthersTexts, Next
    PROVE  OthersTexts'
  <1>1. SrvKept
    BY SrvStep
  <1>2. ASSUME NEW t \in removed' \cap Others PROVE \E i \in DOMAIN srv' : srv'[i].text = t
    <2>1. CASE t \in removed
      BY <1>1, <1>2, <2>1 DEF OthersTexts, SrvKept
    <2>2. CASE t \notin removed
      <3>1. PICK r \in rows : r.text = t
        BY <2>2, RemovedStep
      <3>2. r.mid \in DOMAIN srv /\ srv[r.mid].text = t
        BY <1>2, <3>1, TextsAssumption DEF TrueInv, RowTrue
      <3> QED
        BY <1>1, <3>2 DEF SrvKept
    <2> QED
      BY <2>1, <2>2
  <1>3. ASSUME NEW i \in DOMAIN srv' \ DOMAIN srv, srv'[i].text \in Others
        PROVE  /\ srv'[i].ref = 0
               /\ \A j \in DOMAIN srv : srv'[i].text # srv'[j].text
               /\ DOMAIN srv' = DOMAIN srv \cup {i}
    <2>1. CASE /\ \E t \in Others : OtherSends(t) /\ srv'[i] = Entry(t, 0)
               /\ DOMAIN srv' = DOMAIN srv \cup {i}
      <3>1. PICK t \in Others : OtherSends(t) /\ srv'[i] = Entry(t, 0)
        BY <2>1
      <3>2. \A j \in DOMAIN srv : srv[j].text # t
        BY <3>1 DEF OtherSends
      <3>3. srv'[i].text = t /\ srv'[i].ref = 0
        BY <3>1 DEF Entry
      <3> QED
        BY <1>1, <2>1, <3>2, <3>3 DEF SrvKept
    <2>2. CASE /\ Head(out) \in Range(out) /\ Head(out).type = "SEND"
               /\ \E x \in Range(Head(out).list) : srv'[i] = Entry(x.text, x.ref)
      <3>1. PICK x \in Range(Head(out).list) : srv'[i] = Entry(x.text, x.ref)
        BY <2>2
      <3>2. x.text \in Own
        BY <2>2, PairsAre
      <3> QED
        BY <1>3, <3>1, <3>2, TextsAssumption DEF Entry
    <2> QED
      BY <2>1, <2>2, SrvGrows
  <1>4. ASSUME NEW i \in DOMAIN srv', NEW j \in DOMAIN srv', srv'[i].text \in Others,
               srv'[i].text = srv'[j].text
        PROVE  i = j
    <2>1. CASE i \in DOMAIN srv /\ j \in DOMAIN srv
      BY <1>1, <1>4, <2>1 DEF OthersTexts, SrvKept
    <2>2. CASE i \notin DOMAIN srv
      <3>1. i \in DOMAIN srv' \ DOMAIN srv
        BY <2>2
      <3>2. DOMAIN srv' = DOMAIN srv \cup {i} /\ \A k \in DOMAIN srv : srv'[i].text # srv'[k].text
        BY <1>3, <1>4, <3>1
      <3> QED
        BY <1>4, <3>2
    <2>3. CASE j \notin DOMAIN srv
      <3>1. j \in DOMAIN srv' \ DOMAIN srv /\ srv'[j].text \in Others
        BY <1>4, <2>3
      <3>2. DOMAIN srv' = DOMAIN srv \cup {j} /\ \A k \in DOMAIN srv : srv'[j].text # srv'[k].text
        BY <1>3, <3>1
      <3> QED
        BY <1>4, <3>2
    <2> QED
      BY <2>1, <2>2, <2>3
  <1>5. ASSUME NEW i \in DOMAIN srv', srv'[i].text \in Others PROVE srv'[i].ref = 0
    BY <1>1, <1>3, <1>5 DEF OthersTexts, SrvKept
  <1> QED
    BY <1>2, <1>4, <1>5 DEF OthersTexts

\* A thread acknowledges what it has stored.
LEMMA ToldStep ==
    ASSUME Typed, NEW th \in Threads, Thread(th), threads'[th].step = "tell"
    PROVE  Store(th) /\ Owed(At(th)) /\ At(th)' = At(th) /\ threads'[th].todo # <<>>
  <1>1. TableTyped /\ ThreadsTyped /\ WireTyped
    BY DEF Typed
  <1>2. ~Look(th)
    <2>1. Look(th) => Storing(th)'
      BY HandledStep
    <2> QED
      BY <2>1 DEF Storing
  <1>3. ASSUME Tell(th) PROVE FALSE
    <2>1. Goes(th, [todo |-> Tail(threads[th].todo), step |-> "look", target |-> 0])
      BY <1>1, <1>3, TellIs
    <2> QED
      BY <2>1 DEF Goes
  <1>4. CASE Store(th)
    <2>1. /\ Owed(At(th))
          /\ Goes(th, [todo |-> threads[th].todo, step |-> "tell", target |-> threads[th].target])
      <3>1. ~Goes(th, [todo |-> Tail(threads[th].todo), step |-> "look", target |-> 0])
        BY DEF Goes
      <3> QED
        BY <1>1, <1>4, <3>1, StoreIs DEF At
    <2>2. threads'[th].todo = threads[th].todo
      BY <2>1 DEF Goes
    <2> QED
      BY <1>4, <2>1, <2>2 DEF At, Store
  <1> QED
    BY <1>2, <1>3, <1>4 DEF Thread

LEMMA OthersToldNext ==
    ASSUME Typed, TrueInv, OthersTold, Next
    PROVE  OthersTold'
  <1>1. SrvKept
    BY SrvStep
  <1>2. ASSUME NEW p \in Range(out'), p.type = "DELIVERED", NEW n \in Range(p.list)
        PROVE  srv'[n].text \in Others
    <2>1. CASE p \in Range(out)
      <3>1. n \in DOMAIN srv /\ srv[n].text \in Others
        BY <1>2, <2>1 DEF TrueInv, NoticesTrue, Notice, OthersTold, Deletes
      <3> QED
        BY <1>1, <3>1 DEF SrvKept
    <2>2. CASE \E th \in Threads : Tell(th) /\ p.list = <<Head(threads[th].todo).mid>>
      <3>1. PICK th \in Threads : Tell(th) /\ p.list = <<Head(threads[th].todo).mid>>
        BY <2>2
      <3>2. n = At(th).mid
        BY <1>2, <3>1, OneNumber DEF At
      <3>3. At(th) \in InFlight /\ At(th).text \in Others
        BY <3>1, FlightTyped DEF OthersTold, Tell, InFlight, At
      <3> QED
        BY <1>1, <3>2, <3>3 DEF TrueInv, True, SrvKept
    <2>3. CASE p.list \in Seq(Unseen)
      <3>1. n \in Unseen
        BY <1>2, <2>3, RangeIsIn
      <3>2. PICK r \in rows : r.mid = n /\ r.text \in Others
        BY <3>1 DEF Unseen
      <3>3. n \in DOMAIN srv /\ srv[n].text \in Others
        BY <3>2, TextsAssumption DEF TrueInv, RowTrue
      <3> QED
        BY <1>1, <3>3 DEF SrvKept
    <2> QED
      BY <1>2, <2>1, <2>2, <2>3, OutStep
  <1>3. ASSUME NEW th \in Threads, threads'[th].todo # <<>>, threads'[th].step = "tell"
        PROVE  At(th)'.text \in Others
    <2>1. CASE threads'[th] = threads[th]
      BY <1>3, <2>1 DEF OthersTold, At
    <2>2. CASE Thread(th)
      BY <1>3, <2>2, ToldStep DEF Owed
    <2>3. CASE Begins(th) \/ Kill
      BY <1>3, <2>3 DEF Begins, Kill, Resting
    <2> QED
      BY <2>1, <2>2, <2>3, ThreadsStep DEF ThreadsGo, Thread
  <1> QED
    BY <1>2, <1>3 DEF OthersTold

\* What is said of the texts holds at every step.
LEMMA TextsInvariant == Spec => []TextsInv
  <1>1. Init => TextsInv
    <2> SUFFICES ASSUME Init PROVE TextsInv
      OBVIOUS
    <2>1. Pairs = {} /\ Range(out) = {}
      BY NothingInRange DEF Init, Pairs, Sending, Logged
    <2> QED
      BY <2>1 DEF Init, TextsInv, ListsApart, OwnTexts, OthersTexts, OthersTold, Resting
  <1>2. Typed /\ TrueInv /\ TextsInv /\ [Next]_vars => TextsInv'
    <2>1. CASE UNCHANGED vars
      BY <2>1 DEF vars, store, wire, history, TextsInv, ListsApart, OwnTexts, OthersTexts, OthersTold,
         Pairs, Sending, Logged, At
    <2> QED
      BY <2>1, ListsApartNext, OwnTextsNext, OthersTextsNext, OthersToldNext DEF TextsInv
  <1> QED
    BY <1>1, <1>2, TrueInvariant, PTL DEF Spec

\* The rows whose text the server need not have: the reference is all that names them.
Fresh == {r \in rows : r.mid = 0 \/ r.text = writing}

\* A reference is a local id that was given, and the row that has it has the text.
PairsNamed ==
    \A p \in Pairs : /\ p.ref \in LocalIds /\ p.ref < nextId
                     /\ \A r \in rows : r.id = p.ref => r.text = p.text

\* A text goes under one reference, a reference with one text.
PairsApart == \A p, q \in Pairs : p.ref = q.ref <=> p.text = q.text

\* A fresh row is the only one of its text, which goes under its local id.
FreshNamed ==
    \A r \in Fresh : /\ \A p \in Pairs : p.text = r.text => p.ref = r.id
                     /\ \A x \in rows : x.text = r.text => x = r

\* The server has one message under a reference.
RefsApart == \A i, j \in DOMAIN srv : srv[i].ref = srv[j].ref /\ srv[i].ref # 0 => i = j

\* The row a thread has found has the text it stores, also if it is a fresh one.
TargetNamed(th) ==
    /\ threads[th].target < nextId
    /\ \A r \in rows : r.id = threads[th].target => r.text = At(th).text
    /\ \A r \in Fresh : r.text = At(th).text => r.id = threads[th].target
    /\ \/ threads[th].target = 0 \/ At(th).text \in removed
       \/ \E r \in rows : r.id = threads[th].target
TargetsNamed == \A th \in Threads : Storing(th) => TargetNamed(th)

WritingHasRow == writing # None => \E r \in rows : r.text = writing

Refs == PairsNamed /\ PairsApart /\ FreshNamed /\ RefsApart /\ TargetsNamed /\ WritingHasRow
RefsInv == ~crossed => Refs

LEMMA NextIdStep ==
    ASSUME Typed, Next
    PROVE  nextId' = nextId \/ nextId' = nextId + 1
  <1>1. CASE \E th \in Threads : Store(th)
    BY <1>1 DEF Store
  <1>2. CASE ~\E th \in Threads : Store(th)
    BY <1>2 DEF Next, User, Write, Send, DeleteMessage, RecallMessage, Receive, Token, Synchronise,
       SyncLocal, SyncTheRest, Fetched, FetchAnswer, FetchFails, Disconnect, Kill, Thread, Look, Tell,
       Server, Serve, OtherSends, OtherRecalls, OtherSees, store
  <1> QED
    BY <1>1, <1>2

LEMMA CrossedStep ==
    ASSUME Typed, Next
    PROVE  /\ crossed => crossed'
           /\ Send /\ ~crossed' /\ link = "ready" => \E r \in rows : r.text = writing /\ r.id = LastLocalId
  <1>1. CASE Send
    BY <1>1 DEF Send
  <1>2. CASE ~Send
    <2>1. crossed' = crossed
      BY <1>2 DEF Next, User, Write, DeleteMessage, RecallMessage, Receive, Token, Synchronise,
         SyncLocal, SyncTheRest, Fetched, FetchAnswer, FetchFails, Disconnect, Kill, Thread, Look,
         Store, Tell, Server, Serve, OtherSends, OtherRecalls, OtherSees, history
    <2> QED
      BY <1>2, <2>1
  <1> QED
    BY <1>1, <1>2

\* A text that goes out anew is that of a fresh row, under its local id.
LEMMA NewPairs ==
    ASSUME Typed, TrueInv, Next, ~crossed', NEW p \in Pairs' \ Pairs
    PROVE  rows' = rows /\ \E r \in Fresh : p.ref = r.id /\ p.text = r.text
  <1>1. CASE Send /\ link = "ready" /\ p = [ref |-> LastLocalId, text |-> writing]
    <2>1. PICK r \in rows : r.text = writing /\ r.id = LastLocalId
      BY <1>1, CrossedStep
    <2> QED
      BY <1>1, <2>1 DEF Send, store, Fresh
  <1>2. CASE SyncLocal /\ \E r \in rows : ~r.synced /\ p = [ref |-> r.id, text |-> r.text]
    <2>1. PICK r \in rows : ~r.synced /\ p = [ref |-> r.id, text |-> r.text]
      BY <1>2
    <2>2. r.mid = 0
      BY <2>1 DEF TrueInv, RowTrue
    <2> QED
      BY <1>2, <2>1, <2>2 DEF SyncLocal, store, Fresh
  <1> QED
    BY <1>1, <1>2, PairsStep

\* The rows of after and before, by their local ids and texts.
LEMMA RowsNamed ==
    ASSUME Typed, TrueInv, TextsInv, Refs, Next
    PROVE  /\ \A a \in rows' :
                 \/ \E b \in rows : a.id = b.id /\ a.text = b.text /\ (a \in Fresh' => b \in Fresh)
                 \/ a.id = nextId /\ a.text \in Own \ (typed \cup removed) /\ writing' = a.text
                 \/ \E th \in Threads :
                       /\ Storing(th) /\ threads[th].target = 0
                       /\ a.id = nextId /\ a.text = At(th).text /\ a \notin Fresh'
           /\ \A b \in rows : (\E a \in rows' : a.id = b.id /\ a.text = b.text) \/ b.text \in removed'
  <1>1. TableTyped
    BY DEF Typed
  <1>2. ASSUME NEW a \in rows'
        PROVE  \/ \E b \in rows : a.id = b.id /\ a.text = b.text /\ (a \in Fresh' => b \in Fresh)
               \/ a.id = nextId /\ a.text \in Own \ (typed \cup removed) /\ writing' = a.text
               \/ \E th \in Threads :
                     /\ Storing(th) /\ threads[th].target = 0
                     /\ a.id = nextId /\ a.text = At(th).text /\ a \notin Fresh'
    <2>1. CASE \E b \in rows : KeptRow(a, b)
      <3>1. PICK b \in rows : KeptRow(a, b)
        BY <2>1
      <3>2. a.id = b.id /\ a.mid = b.mid /\ a.text = b.text /\ b.text \in Texts
        BY <1>1, <3>1 DEF KeptRow, Marks, TableTyped, Rows
      <3>3. CASE writing' = writing
        BY <3>2, <3>3 DEF Fresh
      <3>4. CASE \E t \in Own : writing' = t /\ t \notin typed
        BY <3>2, <3>4 DEF Fresh, TextsInv, OwnTexts
      <3>5. CASE writing' = None
        BY <3>2, <3>5, TextsAssumption DEF Fresh, Texts
      <3> QED
        BY <3>3, <3>4, <3>5, WritingStep
    <2>2. CASE \E t \in Own : Write(t) /\ a = WrittenRow(t)
      <3>1. PICK t \in Own : Write(t) /\ a = WrittenRow(t)
        BY <2>2
      <3>2. a.id = nextId /\ a.text = t /\ writing' = t /\ t \notin typed
        BY <3>1 DEF Write, WrittenRow
      <3> QED
        BY <3>2 DEF TextsInv, OwnTexts
    <2>3. CASE \E th \in Threads :
                  /\ Store(th) /\ a = StoredRow(th)
                  /\ threads[th].target # 0 => \E b \in rows : b.id = threads[th].target
      <3>1. PICK th \in Threads :
                  /\ Store(th) /\ a = StoredRow(th)
                  /\ threads[th].target # 0 => \E b \in rows : b.id = threads[th].target
        BY <2>3
      <3>2. Storing(th) /\ writing' = writing
        BY <3>1 DEF Store, Storing
      <3>3. At(th) \in InFlight
        BY <3>1, FlightTyped DEF Store, InFlight, At
      <3>4. /\ a.mid = At(th).mid /\ a.text = At(th).text /\ a.mid # 0
            /\ a.id = IF threads[th].target = 0 THEN nextId ELSE threads[th].target
        BY <3>1, <3>3, FlightTexts DEF StoredRow, RowOf, At, TextsInv
      <3>5. a \in Fresh' => a.text = writing /\ writing # None
        BY <3>2, <3>3, <3>4, FlightTyped, TextsAssumption DEF Fresh, Messages, Texts
      <3>6. TargetNamed(th)
        BY <3>2 DEF Refs, TargetsNamed
      <3>7. CASE threads[th].target = 0
        <4>1. ASSUME a \in Fresh' PROVE FALSE
          <5>1. PICK r \in rows : r.text = a.text
            BY <3>5, <4>1 DEF Refs, WritingHasRow
          <5>2. r.id = 0
            BY <3>4, <3>5, <3>6, <3>7, <4>1, <5>1 DEF TargetNamed, Fresh
          <5> QED
            BY <1>1, <5>2 DEF TableTyped, Rows, LocalIds
        <4> QED
          BY <3>2, <3>4, <3>7, <4>1
      <3>8. CASE threads[th].target # 0
        <4>1. PICK b \in rows : b.id = threads[th].target
          BY <3>1, <3>8
        <4>2. b.text = a.text
          BY <3>4, <3>6, <4>1 DEF TargetNamed
        <4> QED
          BY <3>4, <3>5, <3>8, <4>1, <4>2 DEF Fresh
      <3> QED
        BY <3>7, <3>8
    <2> QED
      BY <2>1, <2>2, <2>3, RowsStep DEF TrueInv, RowsCome
  <1>3. ASSUME NEW b \in rows
        PROVE  (\E a \in rows' : a.id = b.id /\ a.text = b.text) \/ b.text \in removed'
    <2>1. CASE \E a \in rows' : KeptRow(a, b)
      BY <2>1 DEF KeptRow, Marks
    <2>2. CASE DeleteMessage(b)
      BY <2>2 DEF DeleteMessage
    <2>3. CASE /\ Receive /\ Head(inbox).type = "DELETE" /\ b.mid \in Range(Head(inbox).list)
      <3>1. Head(inbox) \in Range(inbox)
        BY <2>3, TakenIs
      <3>2. b.mid # 0 /\ srv[b.mid].text \in removed
        BY <2>3, <3>1 DEF TrueInv, NoticesTrue, Notice, Deletes
      <3> QED
        BY <3>2, RemovedStep DEF TrueInv, RowTrue
    <2>4. CASE \E th \in Threads : Store(th) /\ b.id = threads[th].target /\ StoredRow(th) \in rows'
      <3>1. PICK th \in Threads : Store(th) /\ b.id = threads[th].target /\ StoredRow(th) \in rows'
        BY <2>4
      <3>2. Storing(th) /\ b.id # 0
        BY <1>1, <3>1 DEF Store, Storing, TableTyped, Rows, LocalIds
      <3>3. b.text = At(th).text
        BY <3>1, <3>2 DEF Refs, TargetsNamed, TargetNamed
      <3>4. StoredRow(th).id = b.id /\ StoredRow(th).text = At(th).text
        BY <3>1, <3>2 DEF StoredRow, RowOf, At
      <3> QED
        BY <3>1, <3>3, <3>4
    <2> QED
      BY <2>1, <2>2, <2>3, <2>4, RowsStep DEF TrueInv, RowsGo
  <1> QED
    BY <1>2, <1>3

LEMMA NamedNext ==
    ASSUME Typed, TrueInv, TextsInv, Refs, Next, ~crossed'
    PROVE  PairsNamed' /\ PairsApart'
  <1>1. TableTyped
    BY DEF Typed
  <1>2. ASSUME NEW p \in Pairs'
        PROVE  \/ p \in Pairs
               \/ rows' = rows /\ \E r \in Fresh : r \in rows /\ p.ref = r.id /\ p.text = r.text
    BY NewPairs DEF Fresh
  <1>3. \A p \in Pairs' : p.ref \in LocalIds /\ p.ref < nextId
    BY <1>1, <1>2 DEF Refs, PairsNamed, TableTyped, Rows
  <1>4. \A p \in Pairs' : p.ref < nextId'
    BY <1>1, <1>3, NextIdStep DEF TableTyped, LocalIds
  <1>5. ASSUME NEW p \in Pairs', NEW a \in rows', a.id = p.ref PROVE a.text = p.text
    <2>1. a.id # nextId
      BY <1>1, <1>3, <1>5 DEF TableTyped, LocalIds
    <2>2. PICK b \in rows : a.id = b.id /\ a.text = b.text
      BY <2>1, RowsNamed
    <2>3. CASE p \in Pairs
      BY <1>5, <2>2, <2>3 DEF Refs, PairsNamed
    <2>4. CASE \E r \in Fresh : r \in rows /\ p.ref = r.id /\ p.text = r.text
      BY <1>1, <1>5, <2>2, <2>4 DEF TableTyped
    <2> QED
      BY <1>2, <2>3, <2>4
  <1>6. ASSUME NEW p \in Pairs', NEW q \in Pairs' PROVE p.ref = q.ref <=> p.text = q.text
    <2>1. CASE p \in Pairs /\ q \in Pairs
      BY <2>1 DEF Refs, PairsApart
    <2>2. ASSUME NEW u \in Pairs, NEW r \in Fresh, r \in rows
          PROVE  u.ref = r.id <=> u.text = r.text
      BY <2>2 DEF Refs, PairsNamed, FreshNamed
    <2>3. ASSUME NEW r1 \in Fresh, NEW r2 \in Fresh, r1 \in rows, r2 \in rows
          PROVE  r1.id = r2.id <=> r1.text = r2.text
      BY <1>1, <2>3 DEF Refs, FreshNamed, TableTyped
    <2>4. CASE p \notin Pairs /\ q \in Pairs
      <3>1. PICK r \in Fresh : r \in rows /\ p.ref = r.id /\ p.text = r.text
        BY <1>2, <2>4
      <3> QED
        BY <2>2, <2>4, <3>1
    <2>5. CASE p \in Pairs /\ q \notin Pairs
      <3>1. PICK r \in Fresh : r \in rows /\ q.ref = r.id /\ q.text = r.text
        BY <1>2, <2>5
      <3> QED
        BY <2>2, <2>5, <3>1
    <2>6. CASE p \notin Pairs /\ q \notin Pairs
      <3>1. PICK r \in Fresh : r \in rows /\ p.ref = r.id /\ p.text = r.text
        BY <1>2, <2>6
      <3>2. PICK x \in Fresh : x \in rows /\ q.ref = x.id /\ q.text = x.text
        BY <1>2, <2>6
      <3> QED
        BY <2>3, <3>1, <3>2
    <2> QED
      BY <2>1, <2>4, <2>5, <2>6
  <1> QED
    BY <1>3, <1>4, <1>5, <1>6 DEF PairsNamed, PairsApart

LEMMA FreshNext ==
    ASSUME Typed, TrueInv, TextsInv, Refs, Next, ~crossed'
    PROVE  FreshNamed'
  <1>1. TableTyped /\ TableTyped'
    BY TypeNext DEF Typed
  <1>2. ASSUME NEW p \in Pairs', p \notin Pairs PROVE \E r \in Fresh : r \in rows /\ p.ref = r.id /\ p.text = r.text
    BY <1>2, NewPairs DEF Fresh
  <1>3. \A p \in Pairs' : p.text \in typed
    <2>1. ASSUME NEW p \in Pairs', p \notin Pairs PROVE p.text \in typed
      <3>1. PICK r \in rows : p.text = r.text
        BY <1>2, <2>1
      <3>2. p.text \in Own
        BY PairsStep, <2>1 DEF Typed, TableTyped
      <3> QED
        BY <3>1, <3>2 DEF TextsInv, OwnTexts
    <2> QED
      BY <2>1 DEF TextsInv, OwnTexts
  <1>4. SUFFICES ASSUME NEW a \in Fresh', a \in rows'
                 PROVE  /\ \A p \in Pairs' : p.text = a.text => p.ref = a.id
                        /\ \A x \in rows' : x.text = a.text => x = a
    BY DEF FreshNamed, Fresh
  <1>5. CASE \E b \in rows : a.id = b.id /\ a.text = b.text /\ b \in Fresh
    <2>1. PICK b \in rows : a.id = b.id /\ a.text = b.text /\ b \in Fresh
      BY <1>5
    <2>2. ASSUME NEW p \in Pairs', p.text = a.text PROVE p.ref = a.id
      <3>1. CASE p \in Pairs
        BY <2>1, <2>2, <3>1 DEF Refs, FreshNamed
      <3>2. CASE p \notin Pairs
        <4>1. PICK r \in Fresh : r \in rows /\ p.ref = r.id /\ p.text = r.text
          BY <1>2, <3>2
        <4>2. r = b
          BY <2>1, <2>2, <4>1 DEF Refs, FreshNamed
        <4> QED
          BY <2>1, <4>1, <4>2
      <3> QED
        BY <3>1, <3>2
    <2>3. ASSUME NEW x \in rows', x.text = a.text PROVE x = a
      <3>1. CASE \E y \in rows : x.id = y.id /\ x.text = y.text
        <4>1. PICK y \in rows : x.id = y.id /\ x.text = y.text
          BY <3>1
        <4>2. y = b
          BY <2>1, <2>3, <4>1 DEF Refs, FreshNamed
        <4> QED
          BY <1>1, <1>4, <2>1, <4>1, <4>2 DEF TableTyped
      <3>2. CASE x.text \in Own \ (typed \cup removed)
        BY <2>1, <2>3, <3>2 DEF TextsInv, OwnTexts
      <3>3. CASE \E th \in Threads : Storing(th) /\ threads[th].target = 0 /\ x.text = At(th).text
        <4>1. PICK th \in Threads : Storing(th) /\ threads[th].target = 0 /\ x.text = At(th).text
          BY <3>3
        <4>2. b.id = 0
          BY <2>1, <2>3, <4>1 DEF Refs, TargetsNamed, TargetNamed
        <4> QED
          BY <1>1, <4>2 DEF TableTyped, Rows, LocalIds
      <3> QED
        BY <3>1, <3>2, <3>3, RowsNamed
    <2> QED
      BY <2>2, <2>3
  <1>6. CASE a.id = nextId /\ a.text \in Own \ (typed \cup removed) /\ writing' = a.text
    <2>1. ASSUME NEW p \in Pairs', p.text = a.text PROVE FALSE
      BY <1>3, <1>6, <2>1
    <2>2. ASSUME NEW x \in rows', x.text = a.text PROVE x = a
      <3>1. CASE \E y \in rows : x.id = y.id /\ x.text = y.text
        BY <1>6, <2>2, <3>1 DEF TextsInv, OwnTexts
      <3>2. CASE x.id = nextId
        BY <1>1, <1>4, <1>6, <3>2 DEF TableTyped
      <3> QED
        BY <3>1, <3>2, RowsNamed
    <2> QED
      BY <2>1, <2>2
  <1> QED
    BY <1>4, <1>5, <1>6, RowsNamed

LEMMA RefsApartNext ==
    ASSUME Typed, TextsInv, RefsApart, Next
    PROVE  RefsApart'
  <1>1. SrvKept
    BY SrvStep
  <1>2. ASSUME NEW i \in DOMAIN srv' \ DOMAIN srv, NEW j \in DOMAIN srv', srv'[i].ref # 0,
               srv'[j].ref = srv'[i].ref
        PROVE  i = j
    <2>1. CASE \E t \in Others : srv'[i] = Entry(t, 0)
      BY <1>2, <2>1 DEF Entry
    <2>2. CASE /\ Serve /\ Head(out) \in Range(out) /\ Head(out).type = "SEND"
               /\ \E x \in Range(Head(out).list) : srv'[i] = Entry(x.text, x.ref) /\ ~Stored(srv, x.ref)
      <3>1. ~Stored(srv, srv'[i].ref)
        BY <2>2 DEF Entry
      <3>2. j \notin DOMAIN srv
        BY <1>1, <1>2, <3>1 DEF Stored, SrvKept
      <3>3. \A m, n \in DOMAIN Head(out).list : Head(out).list[m].ref = Head(out).list[n].ref => m = n
        BY <2>2 DEF TextsInv, ListsApart
      <3>4. \A m, n \in DOMAIN srv' \ DOMAIN srv : srv'[m].ref = srv'[n].ref => m = n
        BY <2>2, <3>3, AcceptedIs
      <3> QED
        BY <1>2, <3>2, <3>4
    <2> QED
      BY <2>1, <2>2, SrvGrows
  <1>3. ASSUME NEW i \in DOMAIN srv, NEW j \in DOMAIN srv, srv'[i].ref = srv'[j].ref, srv'[i].ref # 0
        PROVE  i = j
    BY <1>1, <1>3 DEF SrvKept, RefsApart
  <1> QED
    BY <1>2, <1>3 DEF RefsApart

\* What Look finds is the row of the message.
LEMMA FoundNamed ==
    ASSUME Typed, TrueInv, TextsInv, Refs, NEW th \in Threads, Look(th)
    PROVE  TargetNamed(th)'
  <1>1. TableTyped /\ ThreadsTyped
    BY DEF Typed
  <1>2. /\ rows' = rows /\ nextId' = nextId /\ removed' = removed /\ writing' = writing
        /\ At(th)' = At(th) /\ Fresh' = Fresh
    <2>1. At(th)' = At(th)
      BY HandledStep DEF Thread
    <2> QED
      BY <2>1 DEF Look, store, history, Fresh
  <1>3. At(th) \in InFlight /\ True(At(th)) /\ At(th) \in Messages
    BY FlightTyped DEF Look, InFlight, At, TrueInv
  <1>4. At(th).mid # 0 /\ At(th).text \in typed \cup Others
    BY <1>3, FlightTexts DEF TextsInv
  <1>5. CASE \E r \in rows : r.mid = At(th).mid /\ threads'[th].target = r.id
    <2>1. PICK r \in rows : r.mid = At(th).mid /\ threads'[th].target = r.id
      BY <1>5
    <2>2. r.text = At(th).text
      BY <1>3, <1>4, <2>1 DEF TrueInv, RowTrue, True
    <2>3. \A x \in Fresh : x.text = At(th).text => x = r
      BY <2>2 DEF Refs, FreshNamed
    <2> QED
      BY <1>1, <1>2, <2>1, <2>2, <2>3 DEF TargetNamed, TableTyped
  <1>6. ASSUME At(th).text \in Own
        PROVE  \E p \in Pairs : p.ref = At(th).ref /\ p.text = At(th).text
    <2>1. [ref |-> srv[At(th).mid].ref, text |-> srv[At(th).mid].text] \in Pairs
      BY <1>3, <1>6, PairsAre DEF True
    <2>2. PICK p \in Pairs : p = [ref |-> srv[At(th).mid].ref, text |-> srv[At(th).mid].text]
      BY <2>1
    <2>3. p.ref = At(th).ref /\ p.text = At(th).text
      BY <1>3, <2>2 DEF True
    <2> QED
      BY <2>3
  <1>7. At(th).ref # 0 => At(th).text \in Own
    BY <1>3, <1>4 DEF TextsInv, OthersTexts, True, Messages, Texts
  <1>8. \A x \in Fresh : x \in rows /\ x.text \in Own
    BY TextsAssumption DEF Fresh, TrueInv, RowTrue, TextsInv, OwnTexts, Typed, StateTyped, TableTyped,
       Rows, Texts
  <1>9. \A x \in Fresh : x.text = At(th).text => x.id = At(th).ref
    <2> TAKE x \in Fresh
    <2> HAVE x.text = At(th).text
    <2>1. PICK p \in Pairs : p.ref = At(th).ref /\ p.text = At(th).text
      BY <1>6, <1>8
    <2> QED
      BY <2>1 DEF Refs, FreshNamed
  <1>10. CASE \E r \in rows : r.id = At(th).ref /\ threads'[th].target = r.id
    <2>1. PICK r \in rows : r.id = At(th).ref /\ threads'[th].target = r.id
      BY <1>10
    <2>2. r.id # 0
      BY <1>1 DEF TableTyped, Rows, LocalIds
    <2>3. PICK p \in Pairs : p.ref = At(th).ref /\ p.text = At(th).text
      BY <1>6, <1>7, <2>1, <2>2
    <2>4. r.text = At(th).text
      BY <2>1, <2>3 DEF Refs, PairsNamed
    <2> QED
      BY <1>1, <1>2, <1>9, <2>1, <2>4 DEF TargetNamed, TableTyped
  <1>11. CASE (\A r \in rows : r.id # At(th).ref) /\ threads'[th].target = 0
    <2>1. \A x \in Fresh : x.text # At(th).text
      BY <1>8, <1>9, <1>11
    <2>2. \A r \in rows : r.id # 0
      BY <1>1 DEF TableTyped, Rows, LocalIds
    <2>3. 0 < nextId
      BY <1>1 DEF TableTyped, LocalIds
    <2> QED
      BY <1>2, <1>11, <2>1, <2>2, <2>3 DEF TargetNamed
  <1> QED
    BY <1>1, <1>5, <1>10, <1>11, LookIs DEF At

LEMMA TargetsNext ==
    ASSUME Typed, TrueInv, TextsInv, Refs, Next, ~crossed'
    PROVE  TargetsNamed'
  <1>1. TableTyped /\ ThreadsTyped
    BY DEF Typed
  <1>2. SUFFICES ASSUME NEW th \in Threads, Storing(th)' PROVE TargetNamed(th)'
    BY DEF TargetsNamed
  <1>3. CASE threads'[th] = threads[th]
    <2>1. Storing(th) /\ At(th)' = At(th) /\ TargetNamed(th)
      BY <1>2, <1>3 DEF Storing, At, Refs, TargetsNamed
    <2>2. At(th).text \in typed \cup Others
      <3>1. At(th) \in InFlight
        BY <2>1, FlightTyped DEF Storing, InFlight, At
      <3> QED
        BY <3>1, FlightTexts DEF TextsInv
    <2>3. threads[th].target \in Nat /\ nextId \in Nat /\ threads[th].target < nextId
      BY <1>1, <2>1, HeadIs DEF Storing, TargetNamed, TableTyped, LocalIds
    <2>4. threads'[th].target < nextId'
      BY <1>3, <2>3, NextIdStep
    <2>5. ASSUME NEW a \in rows', a.id = threads[th].target PROVE a.text = At(th).text
      <3>1. a.id # nextId
        BY <2>3, <2>5
      <3>2. PICK b \in rows : a.id = b.id /\ a.text = b.text
        BY <3>1, RowsNamed
      <3> QED
        BY <2>1, <2>5, <3>2 DEF TargetNamed
    <2>6. ASSUME NEW a \in Fresh', a.text = At(th).text PROVE a.id = threads[th].target
      <3>1. a \in rows'
        BY DEF Fresh
      <3>2. a.text \notin Own \ (typed \cup removed)
        BY <2>2, <2>6, TextsAssumption
      <3>3. PICK b \in rows : a.id = b.id /\ a.text = b.text /\ b \in Fresh
        BY <3>1, <3>2, RowsNamed
      <3> QED
        BY <2>1, <2>6, <3>3 DEF TargetNamed
    <2>7. \/ threads[th].target = 0 \/ At(th).text \in removed'
          \/ \E r \in rows' : r.id = threads[th].target
      <3>1. CASE threads[th].target = 0 \/ At(th).text \in removed
        BY <3>1, RemovedStep
      <3>2. CASE \E r \in rows : r.id = threads[th].target
        BY <2>1, <3>2, RowsNamed DEF TargetNamed
      <3> QED
        BY <2>1, <3>1, <3>2 DEF TargetNamed
    <2> QED
      BY <1>3, <2>1, <2>4, <2>5, <2>6, <2>7 DEF TargetNamed
  <1>4. CASE Thread(th)
    BY <1>2, <1>4, HandledStep, FoundNamed
  <1>5. CASE Begins(th) \/ Kill
    BY <1>2, <1>5 DEF Begins, Kill, Storing, Resting
  <1> QED
    BY <1>3, <1>4, <1>5, ThreadsStep DEF ThreadsGo, Thread

LEMMA WritingNext ==
    ASSUME Typed, TrueInv, TextsInv, TextsInv', Refs, Next, ~crossed'
    PROVE  WritingHasRow'
  <1>1. CASE writing' = writing
    <2>1. SUFFICES ASSUME writing # None PROVE \E r \in rows' : r.text = writing'
      BY <1>1 DEF WritingHasRow
    <2>2. PICK r \in rows : r.text = writing
      BY <2>1 DEF Refs, WritingHasRow
    <2>3. r.text \notin removed'
      BY <1>1, <2>1, <2>2 DEF TextsInv, OwnTexts
    <2> QED
      BY <1>1, <2>2, <2>3, RowsNamed
  <1>2. CASE \E t \in Own : Write(t)
    <2>1. PICK t \in Own : Write(t)
      BY <1>2
    <2>2. WrittenRow(t) \in rows' /\ writing' = t
      BY <2>1 DEF Write, WrittenRow
    <2>3. WrittenRow(t).text = t
      BY DEF WrittenRow
    <2> QED
      BY <2>2, <2>3 DEF WritingHasRow
  <1>3. CASE writing' = None
    BY <1>3 DEF WritingHasRow
  <1> QED
    BY <1>1, <1>2, <1>3, WritingStep

\* As long as no text went under the reference of another row, references name the rows
\* they were taken from.
LEMMA RefsInvariant == Spec => []RefsInv
  <1>1. Init => RefsInv
    <2> SUFFICES ASSUME Init PROVE Refs
      BY DEF RefsInv
    <2>1. Pairs = {} /\ Fresh = {}
      BY NothingInRange DEF Init, Pairs, Sending, Logged, Fresh
    <2>2. \A th \in Threads : ~Storing(th)
      BY DEF Init, Storing, Resting
    <2> QED
      BY <2>1, <2>2 DEF Init, Refs, PairsNamed, PairsApart, FreshNamed, RefsApart, TargetsNamed,
         WritingHasRow
  <1>2. Typed /\ TrueInv /\ TextsInv /\ TextsInv' /\ RefsInv /\ [Next]_vars => RefsInv'
    <2>1. CASE UNCHANGED vars
      BY <2>1 DEF vars, store, wire, history, RefsInv, Refs, PairsNamed, PairsApart, FreshNamed,
         RefsApart, TargetsNamed, TargetNamed, WritingHasRow, Pairs, Sending, Logged, Fresh, At, Storing
    <2>2. ASSUME Typed, TrueInv, TextsInv, TextsInv', RefsInv, Next, ~crossed' PROVE Refs'
      <3>1. Refs
        BY <2>2, CrossedStep DEF RefsInv
      <3> QED
        BY <2>2, <3>1, NamedNext, FreshNext, RefsApartNext, TargetsNext, WritingNext DEF Refs
    <2> QED
      BY <2>1, <2>2 DEF RefsInv
  <1> QED
    BY <1>1, <1>2, TrueInvariant, TextsInvariant, PTL DEF Spec

\* The server has one message of a text.
LEMMA OneOfText ==
    ASSUME Typed, TextsInv, Refs, NEW i \in DOMAIN srv, NEW j \in DOMAIN srv,
           srv[i].text = srv[j].text
    PROVE  i = j
  <1>1. CASE srv[i].text \in Others
    BY <1>1 DEF TextsInv, OthersTexts
  <1>2. CASE srv[i].text \in Own
    <2>1. PICK p \in Pairs : p = [ref |-> srv[i].ref, text |-> srv[i].text]
      BY <1>2, PairsAre
    <2>2. PICK q \in Pairs : q = [ref |-> srv[j].ref, text |-> srv[j].text]
      BY <1>2, PairsAre
    <2>3. p.ref = srv[i].ref /\ p.text = srv[i].text /\ q.ref = srv[j].ref /\ q.text = srv[j].text
      BY <2>1, <2>2
    <2>4. srv[i].ref = srv[j].ref /\ srv[i].ref # 0
      BY <2>3 DEF Refs, PairsNamed, PairsApart, LocalIds
    <2> QED
      BY <2>4 DEF Refs, RefsApart
  <1>3. srv[i] \in Entries
    BY QueueEntries DEF Typed, LogTyped
  <1> QED
    BY <1>1, <1>2, <1>3 DEF Entries, Texts

\* A text goes out once, however often it is sent again, unless it once went under the
\* reference of another row: what the server has it has under the local id of the only row of
\* the text, and it refuses a reference it knows.
THEOREM SentOnceOnly == Spec => []SentOnce
  <1>1. Typed /\ TextsInv /\ RefsInv => SentOnce
    BY OneOfText DEF RefsInv, SentOnce
  <1> QED
    BY <1>1, TrueInvariant, TextsInvariant, RefsInvariant, PTL

-----------------------------------------------------------------------------
(* The server is told of what is stored.                                   *)

Kept(i) == HasRow(i) \/ srv[i].text \in removed

\* What is acknowledged, or is going to be, is stored.
ToldKept ==
    /\ \A p \in Range(out) : p.type = "DELIVERED" => \A n \in Range(p.list) : Kept(n)
    /\ \A th \in Threads : threads[th].todo # <<>> /\ threads[th].step = "tell" => Kept(At(th).mid)
    /\ \A i \in DOMAIN srv : srv[i].text \in Others /\ srv[i].seen => Kept(i)

DeliveredInv == ~crossed => ToldKept

\* What is stored stays, unless it is deleted.
LEMMA KeptNext ==
    ASSUME Typed, TrueInv, TextsInv, Refs, Next, NEW i \in DOMAIN srv, Kept(i)
    PROVE  Kept(i)'
  <1>1. srv'[i].text = srv[i].text /\ removed \subseteq removed' /\ i # 0
    BY SrvStep, RemovedStep, QueueEntries DEF SrvKept, Typed, LogTyped
  <1>2. SUFFICES ASSUME NEW b \in rows, b.mid = i PROVE Kept(i)'
    BY <1>1 DEF Kept, HasRow
  <1>3. b.text = srv[i].text
    BY <1>1, <1>2 DEF TrueInv, RowTrue
  <1>4. CASE \E a \in rows' : KeptRow(a, b)
    BY <1>2, <1>4 DEF KeptRow, Marks, Kept, HasRow
  <1>5. CASE DeleteMessage(b)
    <2>1. b.text \in removed'
      BY <1>5 DEF DeleteMessage
    <2> QED
      BY <1>1, <1>3, <2>1 DEF Kept
  <1>6. CASE /\ Receive /\ Head(inbox).type = "DELETE" /\ b.mid \in Range(Head(inbox).list)
    <2>1. Head(inbox) \in Range(inbox)
      BY <1>6, TakenIs
    <2>2. srv[i].text \in removed
      BY <1>1, <1>2, <1>6, <2>1 DEF TrueInv, NoticesTrue, Notice, Deletes
    <2> QED
      BY <1>1, <2>2 DEF Kept
  <1>7. CASE \E th \in Threads : Store(th) /\ b.id = threads[th].target /\ StoredRow(th) \in rows'
    <2>1. PICK th \in Threads : Store(th) /\ b.id = threads[th].target /\ StoredRow(th) \in rows'
      BY <1>7
    <2>2. Storing(th)
      BY <2>1 DEF Store, Storing
    <2>3. b.text = At(th).text
      BY <2>1, <2>2 DEF Refs, TargetsNamed, TargetNamed
    <2>4. At(th) \in InFlight
      BY <2>2, FlightTyped DEF Storing, InFlight, At
    <2>5. At(th).mid \in DOMAIN srv /\ srv[At(th).mid].text = At(th).text
      BY <2>4 DEF TrueInv, True
    <2>6. At(th).mid = i
      BY <1>3, <2>3, <2>5, OneOfText
    <2>7. StoredRow(th).mid = At(th).mid
      BY DEF StoredRow, RowOf, At
    <2> QED
      BY <2>1, <2>6, <2>7 DEF Kept, HasRow
  <1> QED
    BY <1>4, <1>5, <1>6, <1>7, RowsStep DEF TrueInv, RowsGo

\* What a thread stores is kept.
LEMMA StoreKeeps ==
    ASSUME Typed, TrueInv, TextsInv, Refs, Next, NEW th \in Threads, Store(th),
           NEW n, n = At(th).mid
    PROVE  Kept(n)'
  <1>1. TableTyped /\ ThreadsTyped
    BY DEF Typed
  <1>2. Storing(th)
    BY DEF Store, Storing
  <1>3. At(th) \in InFlight
    BY <1>2, FlightTyped DEF Storing, InFlight, At
  <1>4. StoredRow(th).mid = n
    BY DEF StoredRow, RowOf, At
  <1>5. CASE threads[th].target = 0
    <2>1. rows' = rows \cup {StoredRow(th)}
      BY <1>5 DEF Store, StoredRow
    <2> QED
      BY <1>4, <2>1 DEF Kept, HasRow
  <1>6. CASE threads[th].target # 0 /\ \E b \in rows : b.id = threads[th].target
    <2>1. rows' = {IF r.id = threads[th].target THEN StoredRow(th) ELSE r : r \in rows}
      BY <1>6 DEF Store, StoredRow
    <2>2. StoredRow(th) \in rows'
      BY <1>6, <2>1
    <2> QED
      BY <1>4, <2>2 DEF Kept, HasRow
  <1>7. CASE At(th).text \in removed
    <2>1. n \in DOMAIN srv /\ srv[n].text \in removed
      BY <1>3, <1>7 DEF TrueInv, True
    <2> QED
      BY <2>1, SrvStep, RemovedStep DEF SrvKept, Kept
  <1> QED
    BY <1>2, <1>5, <1>6, <1>7 DEF Refs, TargetsNamed, TargetNamed

\* What the server learns to be delivered, it is told.
LEMMA ServerLearns ==
    ASSUME Typed, Next, NEW i \in DOMAIN srv', srv'[i].seen, srv'[i].text \in Others
    PROVE  /\ i \in DOMAIN srv
           /\ srv[i].seen \/ \E p \in Range(out) : p.type = "DELIVERED" /\ i \in Range(p.list)
  <1>1. CASE i \notin DOMAIN srv
    <2>1. i \in DOMAIN srv' \ DOMAIN srv
      BY <1>1
    <2>2. ASSUME NEW t \in Others, srv'[i] = Entry(t, 0) PROVE FALSE
      BY <2>2 DEF Entry
    <2>3. ASSUME NEW x \in Range(Head(out).list), srv'[i] = Entry(x.text, x.ref) PROVE FALSE
      BY <2>3 DEF Entry
    <2> QED
      BY <2>1, <2>2, <2>3, SrvGrows
  <1>2. CASE i \in DOMAIN srv
    <2>1. SrvKept
      BY SrvStep
    <2>2. CASE Serve /\ Head(out).type = "SEND"
      BY <1>2, <2>2, AcceptedIs
    <2>3. CASE Serve /\ Head(out).type # "SEND"
      <3>1. srv'[i].seen <=> (srv[i].seen \/ (Head(out).type = "DELIVERED" /\ i \in Range(Head(out).list)))
        BY <1>2, <2>3, ServeNoticeIs
      <3> QED
        BY <1>2, <2>3, <3>1, ServedIs
    <2>4. CASE \E t \in Others : OtherSends(t)
      BY <1>2, <2>4, OtherSendsIs
    <2>5. CASE \E j \in DOMAIN srv : OtherRecalls(j) \/ OtherSees(j)
      <3>1. PICK j \in DOMAIN srv : OtherRecalls(j) \/ OtherSees(j)
        BY <2>5
      <3>2. srv'[i].seen <=> (srv[i].seen \/ (OtherSees(j) /\ i = j))
        BY <1>2, <3>1, OtherMarksIs
      <3>3. ~(OtherSees(j) /\ i = j)
        BY <1>2, <2>1, TextsAssumption DEF OtherSees, SrvKept
      <3> QED
        BY <1>2, <3>2, <3>3
    <2>6. CASE srv' = srv
      BY <1>2, <2>6
    <2>7. User \/ Receive \/ Token \/ Synchronise \/ Fetched \/ Disconnect \/ Kill
            \/ (\E th \in Threads : Thread(th)) => srv' = srv
      BY DEF User, Write, Send, DeleteMessage, RecallMessage, Receive, Token, Synchronise, SyncLocal,
         SyncTheRest, Fetched, FetchAnswer, FetchFails, Disconnect, Kill, Thread, Look, Store, Tell
    <2> QED
      BY <2>2, <2>3, <2>4, <2>5, <2>6, <2>7 DEF Next, Server
  <1> QED
    BY <1>1, <1>2

LEMMA ToldNext ==
    ASSUME Typed, TrueInv, TextsInv, Refs, ToldKept, Next
    PROVE  ToldKept'
  <1>1. ASSUME NEW p \in Range(out'), p.type = "DELIVERED", NEW n \in Range(p.list)
        PROVE  Kept(n)'
    <2>1. CASE p \in Range(out)
      <3>1. n \in DOMAIN srv /\ Kept(n)
        BY <1>1, <2>1 DEF TrueInv, NoticesTrue, Notice, ToldKept, Deletes
      <3> QED
        BY <3>1, KeptNext
    <2>2. CASE \E th \in Threads : Tell(th) /\ p.list = <<Head(threads[th].todo).mid>>
      <3>1. PICK th \in Threads : Tell(th) /\ p.list = <<Head(threads[th].todo).mid>>
        BY <2>2
      <3>2. n = At(th).mid
        BY <1>1, <3>1, OneNumber DEF At
      <3>3. At(th) \in InFlight /\ Kept(At(th).mid)
        BY <3>1, FlightTyped DEF ToldKept, Tell, InFlight, At
      <3>4. n \in DOMAIN srv
        BY <3>2, <3>3 DEF TrueInv, True
      <3> QED
        BY <3>2, <3>3, <3>4, KeptNext
    <2>3. CASE p.list \in Seq(Unseen)
      <3>1. n \in Unseen
        BY <1>1, <2>3, RangeIsIn
      <3>2. PICK r \in rows : r.mid = n /\ r.text \in Others
        BY <3>1 DEF Unseen
      <3>3. n \in DOMAIN srv /\ Kept(n)
        BY <3>2, TextsAssumption DEF TrueInv, RowTrue, Kept, HasRow
      <3> QED
        BY <3>3, KeptNext
    <2> QED
      BY <1>1, <2>1, <2>2, <2>3, OutStep
  <1>2. ASSUME NEW th \in Threads, threads'[th].todo # <<>>, threads'[th].step = "tell"
        PROVE  Kept(At(th).mid)'
    <2>1. CASE threads'[th] = threads[th]
      <3>1. At(th)' = At(th) /\ Kept(At(th).mid) /\ At(th) \in InFlight
        BY <1>2, <2>1, FlightTyped DEF ToldKept, At, InFlight
      <3>2. At(th).mid \in DOMAIN srv
        BY <3>1 DEF TrueInv, True
      <3>3. PICK n \in DOMAIN srv : n = At(th).mid
        BY <3>2
      <3>4. Kept(n)'
        BY <3>1, <3>3, KeptNext
      <3> QED
        BY <3>1, <3>3, <3>4 DEF Kept, HasRow
    <2>2. CASE Thread(th)
      <3>1. Store(th) /\ At(th)' = At(th)
        BY <1>2, <2>2, ToldStep
      <3>2. PICK n : n = At(th).mid
        OBVIOUS
      <3>3. Kept(n)'
        BY <3>1, <3>2, StoreKeeps
      <3> QED
        BY <3>1, <3>2, <3>3 DEF Kept, HasRow
    <2>3. CASE Begins(th) \/ Kill
      BY <1>2, <2>3 DEF Begins, Kill, Resting
    <2> QED
      BY <2>1, <2>2, <2>3, ThreadsStep DEF ThreadsGo, Thread
  <1>3. ASSUME NEW i \in DOMAIN srv', srv'[i].text \in Others, srv'[i].seen PROVE Kept(i)'
    <2>1. i \in DOMAIN srv
      BY <1>3, ServerLearns
    <2>2. srv[i].text \in Others
      BY <1>3, <2>1, SrvStep DEF SrvKept
    <2>3. Kept(i)
      BY <1>3, <2>1, <2>2, ServerLearns DEF ToldKept
    <2> QED
      BY <2>1, <2>3, KeptNext
  <1> QED
    BY <1>1, <1>2, <1>3 DEF ToldKept

\* What the server is told stays kept.
LEMMA DeliveredInvariant == Spec => []DeliveredInv
  <1>1. Init => DeliveredInv
    <2> SUFFICES ASSUME Init PROVE ToldKept
      BY DEF DeliveredInv
    <2>1. Range(out) = {}
      BY NothingInRange DEF Init
    <2> QED
      BY <2>1 DEF Init, ToldKept, Resting
  <1>2. Typed /\ TrueInv /\ TextsInv /\ RefsInv /\ DeliveredInv /\ [Next]_vars => DeliveredInv'
    <2>1. CASE UNCHANGED vars
      BY <2>1 DEF vars, store, wire, history, DeliveredInv, ToldKept, Kept, HasRow, At
    <2>2. ASSUME Typed, TrueInv, TextsInv, RefsInv, DeliveredInv, Next, ~crossed' PROVE ToldKept'
      <3>1. Refs /\ ToldKept
        BY <2>2, CrossedStep DEF RefsInv, DeliveredInv
      <3> QED
        BY <2>2, <3>1, ToldNext
    <2> QED
      BY <2>1, <2>2 DEF DeliveredInv
  <1> QED
    BY <1>1, <1>2, TrueInvariant, TextsInvariant, RefsInvariant, PTL DEF Spec

\* The server is told that a message is delivered only when it is stored, or was deleted since.
\* A thread has stored what it acknowledges, and a row that has its message gives it up for
\* no other.
THEOREM DeliveredOnlyStored == Spec => []DeliveredIsStored
  <1>1. DeliveredInv => DeliveredIsStored
    BY DEF DeliveredInv, ToldKept, DeliveredIsStored, Kept
  <1> QED
    BY <1>1, DeliveredInvariant, PTL

-----------------------------------------------------------------------------
(* What is deleted does not come back.                                     *)

\* The server is told to delete the message, and nothing has been asked of it.
Going(i) ==
    /\ link = "ready" /\ fetches = {}
    /\ \E p \in Range(out) : p.type = "DELETE" /\ p.list = <<i>>

\* No row has the text, nothing under way brings it, and the server deletes what it has.
Gone(t) ==
    /\ \A r \in rows : r.text # t
    /\ \A m \in InFlight : m.text # t
    /\ \A p \in Sending : p.text # t
    /\ \A i \in DOMAIN srv : srv[i].text = t => srv[i].deleted \/ Going(i)

DeletedGone == \A t \in removed \ restless : Gone(t)
DeletionInv == ~crossed => DeletedGone

\* A packet stays on its way until the server takes it or the connection is lost; meanwhile
\* no new request is made.
LEMMA OutStays ==
    ASSUME Typed, Next, link = "ready", NEW p \in Range(out)
    PROVE  \/ p \in Range(out') /\ link' = link /\ fetches' \subseteq fetches
           \/ Serve /\ p = Head(out) /\ link' = link /\ fetches' = fetches
           \/ Disconnect \/ Kill
  <1>1. CASE Send
    BY <1>1, SendIs DEF Send
  <1>2. CASE \E r \in rows : DeleteMessage(r)
    BY <1>2, DeleteIs DEF DeleteMessage
  <1>3. CASE \E r \in rows : RecallMessage(r)
    BY <1>3, RecallIs DEF RecallMessage
  <1>4. CASE \E th \in Threads : Tell(th)
    BY <1>4, TellIs, PacketSent DEF Typed, Tell
  <1>5. CASE SyncLocal
    BY <1>5, SyncLocalIs DEF SyncLocal
  <1>6. CASE SyncTheRest
    BY <1>6, SyncTheRestIs DEF SyncTheRest
  <1>7. CASE Serve
    BY <1>7, ServedIs DEF Serve
  <1>8. CASE \/ \E t \in Own : Write(t)
             \/ \E th \in Threads : Look(th) \/ Store(th)
             \/ Receive \/ Fetched
             \/ \E t \in Others : OtherSends(t)
             \/ \E i \in DOMAIN srv : OtherRecalls(i) \/ OtherSees(i)
    BY <1>8 DEF Write, Look, Store, Receive, Fetched, FetchAnswer, FetchFails, OtherSends,
       OtherRecalls, OtherSees, wire
  <1>9. ~Token
    BY DEF Token
  <1> QED
    BY <1>1, <1>2, <1>3, <1>4, <1>5, <1>6, <1>7, <1>8, <1>9 DEF Next, User, Synchronise, Thread, Server

\* What the server could still send stays noted, and what is lost with the connection is.
LEMMA RestlessStep ==
    ASSUME Next
    PROVE  restless \subseteq restless' /\ (Disconnect \/ Kill => Undelivered \subseteq restless')
  <1>1. CASE Disconnect \/ Kill
    BY <1>1 DEF Disconnect, Kill
  <1>2. CASE \E r \in rows : DeleteMessage(r)
    BY <1>2 DEF DeleteMessage, Disconnect, Kill
  <1>3. CASE ~Disconnect /\ ~Kill /\ ~\E r \in rows : DeleteMessage(r)
    BY <1>3 DEF Next, User, Write, Send, RecallMessage, Receive, Token, Synchronise, SyncLocal,
       SyncTheRest, Fetched, FetchAnswer, FetchFails, Thread, Look, Store, Tell, Server, Serve,
       OtherSends, OtherRecalls, OtherSees, history
  <1> QED
    BY <1>1, <1>2, <1>3

\* A text the server has not had so far was under way, or is another's.
LEMMA NewText ==
    ASSUME Typed, Next, NEW i \in DOMAIN srv', i \notin DOMAIN srv
    PROVE  \/ \E x \in Sending : srv'[i].text = x.text
           \/ /\ srv'[i].text \in Others /\ srv'[i].ref = 0
              /\ \A j \in DOMAIN srv : srv[j].text # srv'[i].text
  <1>1. i \in DOMAIN srv' \ DOMAIN srv
    OBVIOUS
  <1>2. ASSUME NEW t \in Others, OtherSends(t), srv'[i] = Entry(t, 0)
        PROVE  /\ srv'[i].text \in Others /\ srv'[i].ref = 0
               /\ \A j \in DOMAIN srv : srv[j].text # srv'[i].text
    <2>1. srv'[i].text = t /\ srv'[i].ref = 0
      BY <1>2 DEF Entry
    <2> QED
      BY <1>2, <2>1 DEF OtherSends
  <1>3. ASSUME Head(out) \in Range(out), Head(out).type = "SEND", NEW x \in Range(Head(out).list),
               srv'[i] = Entry(x.text, x.ref)
        PROVE  \E y \in Sending : srv'[i].text = y.text
    <2>1. x \in Sending
      BY <1>3 DEF Sending
    <2>2. srv'[i].text = x.text
      BY <1>3 DEF Entry
    <2> QED
      BY <2>1, <2>2
  <1> QED
    BY <1>1, <1>2, <1>3, SrvGrows

\* A text that is gone stays so.
LEMMA GoneNext ==
    ASSUME Typed, TrueInv, TextsInv, Refs, Next, NEW t \in removed, t \notin restless', Gone(t)
    PROVE  Gone(t)'
  <1>1. ASSUME NEW a \in rows' PROVE a.text # t
    <2>1. CASE \E b \in rows : KeptRow(a, b)
      BY <2>1 DEF KeptRow, Marks, Gone
    <2>2. CASE \E u \in Own : Write(u) /\ a = WrittenRow(u)
      BY <2>2 DEF Write, WrittenRow, TextsInv, OwnTexts
    <2>3. CASE \E th \in Threads : Store(th) /\ a = StoredRow(th)
      <3>1. PICK th \in Threads : Store(th) /\ a = StoredRow(th)
        BY <2>3
      <3>2. At(th) \in InFlight /\ a.text = At(th).text
        BY <3>1, FlightTyped DEF Store, InFlight, At, StoredRow, RowOf
      <3> QED
        BY <3>2 DEF Gone
    <2> QED
      BY <2>1, <2>2, <2>3, RowsStep DEF TrueInv, RowsCome
  <1>2. ASSUME NEW i \in DOMAIN srv', i \notin DOMAIN srv PROVE srv'[i].text # t
    <2>1. \A x \in Sending : x.text # t
      BY DEF Gone
    <2>2. t \in Others => \E j \in DOMAIN srv : srv[j].text = t
      BY DEF TextsInv, OthersTexts
    <2> QED
      BY <1>2, <2>1, <2>2, NewText
  <1>3. ASSUME NEW m \in InFlight', m.text = t PROVE FALSE
    <2>1. m \in InFlight' \ InFlight
      BY <1>3 DEF Gone
    <2>2. ASSUME NEW f \in fetches, NEW i \in Wanted(f), m = Message(srv, i) PROVE FALSE
      <3>1. i \in DOMAIN srv /\ ~srv[i].deleted
        BY DEF Wanted
      <3>2. srv[i].text = t
        BY <1>3, <2>2 DEF Message
      <3> QED
        BY <3>1, <3>2 DEF Gone, Going
    <2>3. ASSUME Head(out) \in Range(out), Head(out).type = "SEND", NEW k \in DOMAIN Head(out).list,
                 NEW i \in DOMAIN srv', srv'[i].ref = Head(out).list[k].ref, m = Message(srv', i)
          PROVE  FALSE
      <3>1. srv'[i].text = t
        BY <1>3, <2>3 DEF Message
      <3>2. i \in DOMAIN srv
        BY <1>2, <3>1
      <3>3. srv[i].ref = srv'[i].ref /\ srv[i].text = t
        BY <3>1, <3>2, SrvStep DEF SrvKept
      <3>4. PICK x \in Sending : x = Head(out).list[k]
        BY <2>3 DEF Sending, Range
      <3>5. x \in Pairs /\ x.ref = srv[i].ref /\ x.text # t
        BY <2>3, <3>3, <3>4 DEF Pairs, Gone
      <3>6. srv[i].ref # 0
        BY <3>5 DEF Refs, PairsNamed, LocalIds
      <3>7. srv[i].text \in Own
        <4>1. srv[i] \in Entries
          BY <3>2, QueueEntries DEF Typed, LogTyped
        <4> QED
          BY <3>2, <3>6, <4>1 DEF Entries, Texts, TextsInv, OthersTexts
      <3>8. PICK q \in Pairs : q = [ref |-> srv[i].ref, text |-> srv[i].text]
        BY <3>2, <3>7, PairsAre
      <3>9. q.ref = srv[i].ref /\ q.text = t
        BY <3>3, <3>8
      <3> QED
        BY <3>5, <3>9 DEF Refs, PairsApart
    <2>4. ASSUME NEW u \in Others, OtherSends(u), Len(srv) + 1 \in DOMAIN srv',
                 m = Message(srv', Len(srv) + 1)
          PROVE  FALSE
      <3>1. Len(srv) + 1 \notin DOMAIN srv
        BY <2>4, OtherSendsIs
      <3>2. srv'[Len(srv) + 1].text = t
        BY <1>3, <2>4 DEF Message
      <3> QED
        BY <1>2, <2>4, <3>1, <3>2
    <2> QED
      BY <2>1, <2>2, <2>3, <2>4, FlightStep
  <1>4. ASSUME NEW p \in Sending' PROVE p.text # t
    <2>1. writing \in Own => t # writing
      BY TextsAssumption DEF TextsInv, OwnTexts
    <2>2. CASE Send /\ writing \in Own /\ p = [ref |-> LastLocalId, text |-> writing]
      BY <2>1, <2>2
    <2>3. CASE \E r \in rows : ~r.synced /\ p = [ref |-> r.id, text |-> r.text]
      BY <2>3 DEF Gone
    <2> QED
      BY <2>2, <2>3, UnderWayStep DEF Gone
  <1>5. ASSUME NEW i \in DOMAIN srv', srv'[i].text = t PROVE srv'[i].deleted \/ Going(i)'
    <2>1. i \in DOMAIN srv /\ srv[i].text = t
      BY <1>2, <1>5, SrvStep DEF SrvKept
    <2>2. CASE srv[i].deleted
      BY <2>1, <2>2, SrvStep DEF SrvKept
    <2>3. CASE Going(i)
      <3>1. PICK p \in Range(out) : p.type = "DELETE" /\ p.list = <<i>>
        BY <2>3 DEF Going
      <3>2. CASE p \in Range(out') /\ link' = link /\ fetches' \subseteq fetches
        BY <2>3, <3>1, <3>2 DEF Going
      <3>3. CASE Serve /\ p = Head(out)
        <4>1. i = Head(out).list[1] /\ Head(out).type = "DELETE"
          BY <3>1, <3>3, OneNumber
        <4> QED
          BY <2>1, <3>3, <4>1, ServeNoticeIs
      <3>4. CASE Disconnect \/ Kill
        <4>1. i # 0 /\ Range(p.list) = {i}
          BY <2>1, <3>1, OneNumber, QueueEntries DEF Typed, LogTyped
        <4>2. PICK k \in DOMAIN out : out[k] = p
          BY DEF Range
        <4>3. t \in Undelivered
          BY <2>1, <3>1, <4>1, <4>2 DEF Undelivered
        <4> QED
          BY <3>4, <4>3, RestlessStep
      <3> QED
        BY <2>3, <3>2, <3>3, <3>4, OutStays DEF Going
    <2> QED
      BY <2>1, <2>2, <2>3 DEF Gone
  <1> QED
    BY <1>1, <1>3, <1>4, <1>5 DEF Gone

\* A text is gone at once when the only row of its message is deleted and nothing under way
\* could bring another.
LEMMA DeletedStep ==
    ASSUME Typed, TrueInv, TextsInv, Refs, OneRowPerMessage, Next,
           NEW t \in removed', t \notin removed, t \notin restless'
    PROVE  Gone(t)'
  <1>1. PICK r \in rows : DeleteMessage(r) /\ r.text = t
    BY RemovedStep
  <1>2. /\ Settled(r) /\ rows' = rows \ {r} /\ srv' = srv /\ threads' = threads /\ inbox' = inbox
        /\ link' = link /\ fetches' = fetches
    BY <1>1 DEF DeleteMessage
  <1>3. /\ link = "ready" /\ r.mid # 0 /\ r.mid \notin AllHandled \cup shared /\ ~InInbox(r.mid)
        /\ fetches = {} /\ \A k \in DOMAIN out : out[k].type # "SEND"
    BY <1>2 DEF Settled
  <1>4. r.mid \in DOMAIN srv /\ srv[r.mid].text = t
    BY <1>1, <1>3 DEF TrueInv, RowTrue
  <1>5. ASSUME NEW i \in DOMAIN srv, srv[i].text = t PROVE i = r.mid
    BY <1>4, <1>5, OneOfText
  <1>6. ASSUME NEW a \in rows', a.text = t PROVE FALSE
    <2>1. a \in rows /\ a # r
      BY <1>2
    <2>2. a.mid # 0
      BY <1>1, <1>6, <2>1 DEF Refs, FreshNamed, Fresh
    <2>3. a.mid = r.mid
      BY <1>5, <1>6, <2>1, <2>2 DEF TrueInv, RowTrue
    <2> QED
      BY <1>3, <2>1, <2>3 DEF OneRowPerMessage
  <1>7. ASSUME NEW m \in InFlight', m.text = t PROVE FALSE
    <2>1. m \in InFlight
      BY <1>2 DEF InFlight, Tasks, Answers
    <2>2. m.mid = r.mid
      BY <1>5, <1>7, <2>1 DEF TrueInv, True
    <2>3. CASE m \in Tasks
      BY <1>3, <2>2, <2>3, FlightTyped
    <2>4. CASE m \in Answers
      <3>1. PICK k \in DOMAIN inbox : inbox[k].type = "MESSAGES" /\ m \in Range(inbox[k].list)
        BY <2>4 DEF Answers, Range
      <3>2. PICK j \in DOMAIN inbox[k].list : inbox[k].list[j] = m
        BY <3>1 DEF Range
      <3> QED
        BY <1>3, <2>2, <3>1, <3>2 DEF InInbox
    <2> QED
      BY <2>1, <2>3, <2>4 DEF InFlight
  <1>8. ASSUME NEW p \in Sending' PROVE FALSE
    <2>1. Sending = {}
      BY <1>3 DEF Sending, Range
    <2>2. ~Send /\ ~SyncLocal
      BY <1>1 DEF DeleteMessage, Send, SyncLocal
    <2> QED
      BY <2>1, <2>2, UnderWayStep
  <1>9. Going(r.mid)'
    <2>1. PICK p : p = Packet("DELETE", <<r.mid>>)
      OBVIOUS
    <2>2. p \in Range(out') /\ p.type = "DELETE" /\ p.list = <<r.mid>>
      BY <1>1, <1>3, <2>1, DeleteIs
    <2> QED
      BY <1>2, <1>3, <2>2 DEF Going
  <1>10. ASSUME NEW i \in DOMAIN srv', srv'[i].text = t PROVE Going(i)'
    <2>1. i = r.mid /\ i \in DOMAIN srv
      BY <1>2, <1>5, <1>10
    <2>2. PICK p \in Range(out') : p.type = "DELETE" /\ p.list = <<r.mid>>
      BY <1>9 DEF Going
    <2> QED
      BY <1>9, <2>1, <2>2 DEF Going
  <1> QED
    BY <1>6, <1>7, <1>8, <1>10 DEF Gone

\* A deleted message does not come back, unless it was deleted offline, or while something
\* that could bring it was under way, or the deletion was lost: no row has it, nothing under
\* way brings it, and the server has deleted it or is told to before it is asked anything.
THEOREM DeletionsHold == Spec => []DeletionHolds
  <1>1. Init => DeletionInv
    BY DEF Init, DeletionInv, DeletedGone
  <1>2. /\ Typed /\ TrueInv /\ TextsInv /\ RefsInv /\ OneRowPerMessage /\ DeletionInv
        /\ [Next]_vars
        => DeletionInv'
    <2>1. CASE UNCHANGED vars
      BY <2>1 DEF vars, store, wire, history, DeletionInv, DeletedGone, Gone, Going, InFlight, Tasks,
         Answers, Sending
    <2>2. ASSUME Typed, TrueInv, TextsInv, RefsInv, OneRowPerMessage, DeletionInv, Next, ~crossed',
                 NEW t \in removed' \ restless'
          PROVE  Gone(t)'
      <3>1. Refs /\ DeletedGone
        BY <2>2, CrossedStep DEF RefsInv, DeletionInv
      <3>2. CASE t \in removed
        <4>1. t \notin restless'
          OBVIOUS
        <4>2. Gone(t)
          BY <3>1, <3>2, <4>1, RestlessStep, <2>2 DEF DeletedGone
        <4> QED
          BY <2>2, <3>1, <3>2, <4>1, <4>2, GoneNext
      <3>3. CASE t \notin removed
        BY <2>2, <3>1, <3>3, DeletedStep
      <3> QED
        BY <3>2, <3>3
    <2> QED
      BY <2>1, <2>2 DEF DeletionInv, DeletedGone
  <1>3. DeletionInv => DeletionHolds
    BY DEF DeletionInv, DeletedGone, Gone, DeletionHolds
  <1> QED
    BY <1>1, <1>2, <1>3, TrueInvariant, TextsInvariant, RefsInvariant, OneRowEach, PTL DEF Spec

-----------------------------------------------------------------------------
(* No message is missed for good.                                          *)

\* Packets under way bring message i, and nothing after it before.
Brought(i) ==
    \E k \in DOMAIN inbox :
        /\ inbox[k].type = "MESSAGES" /\ \E m \in Range(inbox[k].list) : m.mid = i
        /\ \A l \in DOMAIN inbox : l < k /\ inbox[l].type = "MESSAGES" =>
              \A m \in Range(inbox[l].list) : m.mid < i

\* The device knows of nothing after message i, which is what a synchronisation would ask for;
\* if it is connected the message is on its way.
Coming(i) ==
    /\ fetches = {} /\ (\A r \in rows : r.mid < i) /\ (\A m \in Tasks : m.mid < i)
    /\ link = "ready" => Brought(i)

NotMissed(i) == Kept(i) \/ i \in AllHandled \/ (\E f \in fetches : f < i) \/ Coming(i)

GapInv == ~hurt /\ ~crossed => \A i \in DOMAIN srv : NotMissed(i)

\* Requests tell messages the server has; nothing arrives without a connection.
WireInv ==
    /\ \A f \in fetches : f = 0 \/ f \in DOMAIN srv
    /\ link # "ready" => inbox = <<>>

\* The messages that are being handled.
LEMMA HandledTasks ==
    AllHandled = {m.mid : m \in Tasks} /\ AllHandled' = {m.mid : m \in Tasks'}
  BY DEF AllHandled, Handled, Tasks, Range

\* Requests are made with a token only, and end with their answers.
LEMMA LinkStep ==
    ASSUME Typed, Next
    PROVE  \/ link' = link /\ fetches' = fetches /\ hurt' = hurt
           \/ Token
           \/ \E f \in fetches, th \in Threads :
                 FetchAnswer(f, th) /\ link' = link /\ fetches' = fetches \ {f} /\ hurt' = hurt
           \/ (\E f \in fetches : FetchFails(f)) /\ hurt'
           \/ Disconnect /\ link' # "ready" /\ fetches' = fetches /\ hurt' = hurt
           \/ Kill /\ link' # "ready" /\ fetches' = {}
              /\ (hurt' \/ (~hurt /\ fetches = {} /\ AllHandled = {}))
  <1>1. CASE \E f \in fetches : FetchFails(f)
    BY <1>1 DEF FetchFails
  <1>2. CASE \E f \in fetches, th \in Threads : FetchAnswer(f, th)
    BY <1>2 DEF FetchAnswer
  <1>3. CASE Disconnect
    BY <1>3 DEF Disconnect
  <1>4. CASE Kill
    BY <1>4 DEF Kill, Typed, HistoryTyped
  <1>5. CASE User \/ Receive \/ Synchronise \/ Server \/ \E th \in Threads : Thread(th)
    BY <1>5 DEF User, Write, Send, DeleteMessage, RecallMessage, Receive, Synchronise, SyncLocal,
       SyncTheRest, Thread, Look, Store, Tell, Server, Serve, OtherSends, OtherRecalls, OtherSees,
       history
  <1> QED
    BY <1>1, <1>2, <1>3, <1>4, <1>5 DEF Next, Fetched

\* A packet arrives at the end, and is handled at the front.
LEMMA InboxStep ==
    ASSUME Typed, Next
    PROVE  \/ inbox' = inbox
           \/ Receive /\ inbox' = Tail(inbox) /\ inbox # <<>>
           \/ link = "ready" /\ (\E q \in Incoming : inbox' = Append(inbox, q)) /\ threads' = threads
           \/ (Disconnect \/ Kill) /\ inbox' = <<>>
  <1>1. CASE Serve
    BY <1>1, ServeSendIs, ServeNoticeIs DEF Serve
  <1>2. CASE \E t \in Others : OtherSends(t)
    BY <1>2, OtherSendsIs DEF OtherSends
  <1>3. CASE \E i \in DOMAIN srv : OtherRecalls(i) \/ OtherSees(i)
    BY <1>3, OtherMarksIs DEF OtherRecalls, OtherSees
  <1>4. CASE Receive
    BY <1>4 DEF Receive
  <1>5. CASE Disconnect \/ Kill
    BY <1>5 DEF Disconnect, Kill
  <1>6. CASE User \/ Token \/ Synchronise \/ Fetched \/ \E th \in Threads : Thread(th)
    BY <1>6 DEF User, Write, Send, DeleteMessage, RecallMessage, Token, Synchronise, SyncLocal,
       SyncTheRest, Fetched, FetchAnswer, FetchFails, Thread, Look, Store, Tell, wire
  <1> QED
    BY <1>1, <1>2, <1>3, <1>4, <1>5, <1>6 DEF Next, Server

\* The last message id is that of a message the server has.
LEMMA RequestIs ==
    ASSUME Typed, TrueInv, Token
    PROVE  \E f \in Nat : /\ fetches' = fetches \cup {f} /\ (f = 0 \/ \E r \in rows : r.mid = f)
                          /\ (f = 0 \/ f \in DOMAIN srv)
  <1>1. LastMessageId \in Nat /\ (LastMessageId # 0 => \E r \in rows : r.mid = LastMessageId)
    BY LastIds DEF Typed
  <1>2. LastMessageId # 0 => LastMessageId \in DOMAIN srv
    BY <1>1 DEF TrueInv, RowTrue
  <1> QED
    BY <1>1, <1>2 DEF Token, Request

LEMMA WireInvNext ==
    ASSUME Typed, TrueInv, WireInv, Next
    PROVE  WireInv'
  <1>1. \A f \in fetches' : f = 0 \/ f \in DOMAIN srv'
    <2>1. \A f \in fetches' : f = 0 \/ f \in DOMAIN srv
      <3>1. CASE Token
        BY <3>1, RequestIs DEF WireInv
      <3>2. CASE fetches' \subseteq fetches
        BY <3>2 DEF WireInv
      <3>3. (\E f \in fetches : FetchFails(f)) => fetches' \subseteq fetches
        BY DEF FetchFails
      <3> QED
        BY <3>1, <3>2, <3>3, LinkStep
    <2> QED
      BY <2>1, SrvStep DEF SrvKept
  <1>2. link' # "ready" => inbox' = <<>>
    <2>1. CASE link' = link
      BY <2>1, InboxStep DEF WireInv, Disconnect, Kill
    <2>2. CASE Token
      BY <2>2 DEF Token
    <2>3. CASE Disconnect \/ Kill
      BY <2>3 DEF Disconnect, Kill
    <2>4. (\E f \in fetches : FetchFails(f)) => link' = link
      BY DEF FetchFails
    <2> QED
      BY <2>1, <2>2, <2>3, <2>4, LinkStep
  <1> QED
    BY <1>1, <1>2 DEF WireInv

\* Requests and arrivals are as WireInv says.
LEMMA WireInvariant == Spec => []WireInv
  <1>1. Init => WireInv
    BY DEF Init, WireInv
  <1>2. Typed /\ TrueInv /\ WireInv /\ [Next]_vars => WireInv'
    <2>1. CASE UNCHANGED vars
      BY <2>1 DEF vars, wire, WireInv
    <2> QED
      BY <2>1, WireInvNext
  <1> QED
    BY <1>1, <1>2, TrueInvariant, PTL DEF Spec

\* A thread takes up what arrived, or what was asked.
LEMMA ReceivedTasks ==
    ASSUME Typed, Receive, Head(inbox).type = "MESSAGES"
    PROVE  Tasks' = Tasks \cup Range(Head(inbox).list)
  <1>1. PICK th \in Threads : OnMessages(th)
    BY ReceiveIs
  <1>2. PICK n : n = [todo |-> Head(inbox).list, step |-> "look", target |-> 0]
    OBVIOUS
  <1>3. Goes(th, n) /\ threads[th].todo = <<>> /\ n.todo = Head(inbox).list
    BY <1>1, <1>2, OnMessagesIs
  <1> QED
    BY <1>3, GoesWith

LEMMA AnsweredTasks ==
    ASSUME Typed, NEW f \in fetches, NEW th \in Threads, FetchAnswer(f, th)
    PROVE  Tasks \subseteq Tasks' /\ \A i \in Wanted(f) : \E m \in Tasks' : m.mid = i
  <1>1. PICK l \in Seq(Messages) :
           /\ Goes(th, [todo |-> l, step |-> "look", target |-> 0])
           /\ \A i \in Wanted(f) : \E k \in DOMAIN l : l[k] = Message(srv, i)
    BY FetchAnswerIs
  <1>2. PICK n : n = [todo |-> l, step |-> "look", target |-> 0]
    OBVIOUS
  <1>3. n.todo = l /\ threads[th].todo = <<>>
    BY <1>2, FetchAnswerIs
  <1>4. Tasks' = Tasks \cup Range(l)
    BY <1>1, <1>2, <1>3, GoesWith
  <1>5. \A i \in Wanted(f) : \E m \in Range(l) : m = Message(srv, i)
    BY <1>1 DEF Range
  <1> QED
    BY <1>4, <1>5 DEF Message

LEMMA TasksCome ==
    ASSUME Typed, Next, NEW m \in Tasks'
    PROVE  \/ m \in Tasks
           \/ Receive /\ Head(inbox).type = "MESSAGES" /\ m \in Range(Head(inbox).list)
           \/ fetches # {}
  <1>1. CASE \E th \in Threads : Thread(th)
    BY <1>1, ThreadTasks
  <1>2. CASE Receive /\ Head(inbox).type = "MESSAGES"
    BY <1>2, ReceivedTasks
  <1>3. CASE Receive /\ Head(inbox).type # "MESSAGES"
    <2>1. threads' = threads
      BY <1>3, ReceiveIs, OnNoticeIs, OnDeletionIs
    <2> QED
      BY <2>1 DEF Tasks
  <1>4. CASE Fetched
    BY <1>4 DEF Fetched
  <1>5. CASE User \/ Token \/ Synchronise \/ Server \/ Disconnect
    <2>1. threads' = threads
      BY <1>5 DEF User, Write, Send, DeleteMessage, RecallMessage, Token, Synchronise, SyncLocal,
         SyncTheRest, Server, Serve, OtherSends, OtherRecalls, OtherSees, Disconnect
    <2> QED
      BY <2>1 DEF Tasks
  <1>6. CASE Kill
    BY <1>6, NothingInRange DEF Kill, Tasks, Resting
  <1> QED
    BY <1>1, <1>2, <1>3, <1>4, <1>5, <1>6 DEF Next

\* A message is handled until it is kept.
LEMMA TasksGo ==
    ASSUME Typed, TrueInv, TextsInv, Refs, ToldKept, Next, NEW m \in Tasks
    PROVE  m \in Tasks' \/ Kept(m.mid)' \/ Kill
  <1>1. TableTyped /\ ThreadsTyped /\ WireTyped
    BY DEF Typed
  <1>2. PICK th \in Threads : m \in Range(threads[th].todo)
    BY DEF Tasks
  <1>3. threads[th].todo # <<>> /\ threads[th].todo \in Seq(Messages)
    BY <1>1, <1>2, NothingInRange DEF ThreadsTyped, ThreadStates
  <1>4. m = At(th) \/ m \in Range(Tail(threads[th].todo))
    BY <1>2, <1>3, TakenRange DEF At
  <1>5. threads'[th].todo = threads[th].todo => m \in Tasks'
    BY <1>2 DEF Tasks
  <1>6. threads'[th].todo = Tail(threads[th].todo) /\ m # At(th) => m \in Tasks'
    BY <1>4 DEF Tasks
  <1>7. CASE threads'[th] = threads[th]
    BY <1>5, <1>7
  <1>8. ASSUME NEW t, NEW k, NEW g, Goes(th, [todo |-> t, step |-> k, target |-> g])
        PROVE  threads'[th].todo = t
    BY <1>8 DEF Goes
  <1>9. CASE Look(th)
    <2>1. PICK g : Goes(th, [todo |-> threads[th].todo, step |-> "store", target |-> g])
      BY <1>1, <1>9, LookIs
    <2> QED
      BY <1>5, <1>8, <2>1
  <1>10. CASE Store(th)
    <2>1. PICK t \in {threads[th].todo, Tail(threads[th].todo)} :
             \E k, g : Goes(th, [todo |-> t, step |-> k, target |-> g])
      BY <1>1, <1>10, StoreIs
    <2>2. threads'[th].todo = t
      BY <1>8, <2>1
    <2>3. ASSUME m = At(th) PROVE Kept(m.mid)'
      <3>1. PICK n : n = m.mid
        OBVIOUS
      <3>2. Kept(n)'
        BY <1>10, <2>3, <3>1, StoreKeeps
      <3> QED
        BY <3>1, <3>2
    <2> QED
      BY <1>5, <1>6, <2>1, <2>2, <2>3
  <1>11. CASE Tell(th)
    <2>1. PICK t, k, g : /\ Goes(th, [todo |-> t, step |-> k, target |-> g])
                         /\ t = Tail(threads[th].todo)
      BY <1>1, <1>11, TellIs
    <2>2. threads'[th].todo = Tail(threads[th].todo)
      BY <1>8, <2>1
    <2>3. ASSUME m = At(th) PROVE Kept(m.mid)'
      <3>1. Kept(m.mid)
        BY <1>11, <2>3 DEF ToldKept, Tell
      <3>2. m \in InFlight
        BY DEF InFlight
      <3>3. PICK n \in DOMAIN srv : n = m.mid
        BY <3>2 DEF TrueInv, True
      <3>4. Kept(n)'
        BY <3>1, <3>3, KeptNext
      <3> QED
        BY <3>3, <3>4
    <2> QED
      BY <1>6, <2>2, <2>3
  <1>12. ~Begins(th)
    BY <1>3 DEF Begins
  <1> QED
    BY <1>7, <1>9, <1>10, <1>11, <1>12, ThreadsStep DEF ThreadsGo

\* What is brought comes nearer, and is taken up in its turn.
LEMMA BroughtStep ==
    ASSUME Typed, Next, NEW i, Brought(i), link' = "ready"
    PROVE  \/ /\ Brought(i)'
              /\ Receive /\ Head(inbox).type = "MESSAGES" =>
                    \A m \in Range(Head(inbox).list) : m.mid < i
           \/ /\ Receive /\ Head(inbox).type = "MESSAGES"
              /\ \E m \in Range(Head(inbox).list) : m.mid = i
  <1>1. inbox \in Seq(Incoming)
    BY DEF Typed, WireTyped
  <1>2. PICK k \in DOMAIN inbox :
           /\ inbox[k].type = "MESSAGES" /\ \E m \in Range(inbox[k].list) : m.mid = i
           /\ \A l \in DOMAIN inbox : l < k /\ inbox[l].type = "MESSAGES" =>
                 \A m \in Range(inbox[l].list) : m.mid < i
    BY DEF Brought
  <1>3. k \in Nat /\ \A l \in DOMAIN inbox : l \in Nat
    BY <1>1, QueueEntries
  <1>4. CASE Receive
    <2>1. inbox # <<>> /\ inbox' = Tail(inbox)
      BY <1>4 DEF Receive
    <2>2. 1 \in DOMAIN inbox /\ inbox[1] = Head(inbox)
      BY <1>1, <2>1, TakenQueue
    <2>3. CASE k = 1
      BY <1>2, <1>4, <2>2, <2>3
    <2>4. CASE k # 1
      <3>1. 1 < k
        BY <1>1, <1>3, <2>4, QueueEntries
      <3>2. k - 1 \in DOMAIN inbox' /\ inbox'[k - 1] = inbox[k]
        BY <1>1, <2>1, <2>4, TakenQueue
      <3>3. ASSUME NEW l \in DOMAIN inbox', l < k - 1, inbox'[l].type = "MESSAGES"
            PROVE  \A m \in Range(inbox'[l].list) : m.mid < i
        <4>1. l + 1 \in DOMAIN inbox /\ l \in Nat /\ inbox'[l] = inbox[l + 1]
          BY <1>1, <2>1, TakenQueue
        <4>2. l + 1 < k
          BY <1>3, <3>3, <4>1
        <4> QED
          BY <1>2, <3>3, <4>1, <4>2
      <3>4. Brought(i)'
        BY <1>2, <3>2, <3>3 DEF Brought
      <3> QED
        BY <1>2, <2>2, <3>1, <3>4
    <2> QED
      BY <2>3, <2>4
  <1>5. CASE ~Receive /\ inbox' = inbox
    BY <1>2, <1>5 DEF Brought
  <1>6. CASE ~Receive /\ \E q \in Incoming : inbox' = Append(inbox, q)
    <2>1. PICK q \in Incoming : inbox' = Append(inbox, q)
      BY <1>6
    <2>2. /\ \A l \in DOMAIN inbox : l \in DOMAIN inbox' /\ inbox'[l] = inbox[l]
          /\ \A l \in DOMAIN inbox' : l \in DOMAIN inbox \/ l = Len(inbox) + 1
          /\ Len(inbox) \in Nat /\ k <= Len(inbox)
      BY <1>1, <2>1, GrownQueue
    <2>3. \A l \in DOMAIN inbox' : l < k => l \in DOMAIN inbox
      BY <1>3, <2>2
    <2> QED
      BY <1>2, <1>6, <2>2, <2>3 DEF Brought
  <1>7. ~Disconnect /\ ~Kill
    BY DEF Disconnect, Kill
  <1> QED
    BY <1>4, <1>5, <1>6, <1>7, InboxStep

\* A message that is new to the server is after all the device knows of, and on its way if the
\* device is connected.
LEMMA NewComes ==
    ASSUME Typed, Typed', TrueInv, TextsInv, Refs, WireInv, Next,
           NEW i \in DOMAIN srv', i \notin DOMAIN srv
    PROVE  NotMissed(i)'
  <1>1. i # 0 /\ i \in Nat /\ \A j \in DOMAIN srv : j < i
    <2>1. /\ DOMAIN srv = 1 .. Len(srv) /\ Len(srv) \in Nat
          /\ DOMAIN srv' = 1 .. Len(srv') /\ Len(srv') \in Nat
      BY QueueEntries DEF Typed, LogTyped
    <2> QED
      BY <2>1
  <1>2. i \in DOMAIN srv' \ DOMAIN srv
    OBVIOUS
  <1>3. \/ Serve /\ Head(out).type = "SEND"
        \/ \E t \in Others : OtherSends(t)
    BY <1>2, SrvGrows
  <1>4. rows' = rows /\ threads' = threads /\ fetches' = fetches /\ link' = link
    BY <1>3 DEF Serve, OtherSends, store
  <1>5. Tasks' = Tasks
    BY <1>4 DEF Tasks
  <1>6. \A m \in InFlight : m.mid < i
    BY <1>1 DEF TrueInv, True
  <1>7. ASSUME link = "ready"
        PROVE  \E q \in Incoming : /\ inbox' = Append(inbox, q) /\ q.type = "MESSAGES"
                                   /\ \E m \in Range(q.list) : m.mid = i
    <2>1. CASE \E t \in Others : OtherSends(t)
      <3>1. PICK t \in Others : OtherSends(t)
        BY <2>1
      <3>2. PICK m \in Messages, q \in Incoming :
               /\ m = Message(srv', Len(srv) + 1)
               /\ inbox' = Append(inbox, q) /\ q.type = "MESSAGES" /\ q.list = <<m>>
        BY <1>7, <3>1, OtherSendsIs
      <3>3. i = Len(srv) + 1
        BY <1>2, <3>1, OtherSendsIs
      <3>4. m \in Range(q.list) /\ m.mid = i
        BY <3>2, <3>3, OneNumber DEF Message
      <3> QED
        BY <3>2, <3>4
    <2>2. CASE Serve /\ Head(out).type = "SEND"
      <3>1. PICK q \in Incoming :
              /\ inbox' = Append(inbox, q) /\ q.type = "MESSAGES" /\ q.list \in Seq(Messages)
              /\ DOMAIN q.list = DOMAIN Head(out).list
              /\ \A k \in DOMAIN q.list : \E n \in DOMAIN srv' :
                    srv'[n].ref = Head(out).list[k].ref /\ q.list[k] = Message(srv', n)
        BY <2>2, ServeSendIs
      <3>2. PICK k \in DOMAIN Head(out).list :
               srv'[i] = Entry(Head(out).list[k].text, Head(out).list[k].ref)
        BY <1>2, <2>2, AcceptedIs
      <3>3. PICK x \in Sending : x = Head(out).list[k]
        BY <2>2, ServedIs DEF Sending, Range
      <3>4. srv'[i].ref = x.ref
        BY <3>2, <3>3 DEF Entry
      <3>5. x.ref # 0
        BY DEF Refs, PairsNamed, Pairs, LocalIds
      <3>6. PICK n \in DOMAIN srv' : srv'[n].ref = x.ref /\ q.list[k] = Message(srv', n)
        BY <3>1, <3>3
      <3>7. RefsApart'
        BY RefsApartNext DEF Refs
      <3>8. n = i
        BY <3>4, <3>5, <3>6, <3>7 DEF RefsApart
      <3>9. q.list[k] \in Range(q.list) /\ q.list[k].mid = i
        BY <3>1, <3>6, <3>8 DEF Range, Message
      <3> QED
        BY <3>1, <3>9
    <2> QED
      BY <1>3, <2>1, <2>2
  <1>8. ASSUME link' = "ready" PROVE Brought(i)'
    <2>1. PICK q \in Incoming : /\ inbox' = Append(inbox, q) /\ q.type = "MESSAGES"
                                /\ \E m \in Range(q.list) : m.mid = i
      BY <1>4, <1>7, <1>8
    <2>2. PICK k : k = Len(inbox) + 1
      OBVIOUS
    <2>3. /\ k \in DOMAIN inbox' /\ inbox'[k] = q
          /\ \A l \in DOMAIN inbox' : l < k => l \in DOMAIN inbox /\ inbox'[l] = inbox[l]
      BY <2>1, <2>2, GrownQueue DEF Typed, WireTyped
    <2>4. ASSUME NEW l \in DOMAIN inbox', l < k, inbox'[l].type = "MESSAGES",
                 NEW m \in Range(inbox'[l].list)
          PROVE  m.mid < i
      <3>1. inbox[l] \in Range(inbox) /\ inbox'[l] = inbox[l]
        BY <2>3, <2>4 DEF Range
      <3>2. m \in InFlight
        BY <2>4, <3>1 DEF InFlight, Answers
      <3> QED
        BY <1>6, <3>2
    <2> QED
      BY <2>1, <2>3, <2>4 DEF Brought
  <1>9. CASE fetches # {}
    <2>1. PICK f \in fetches : f < i
      BY <1>1, <1>9 DEF WireInv
    <2> QED
      BY <1>4, <2>1 DEF NotMissed
  <1>10. CASE fetches = {}
    <2>1. \A r \in rows : r.mid < i
      BY <1>1 DEF TrueInv, RowTrue
    <2>2. \A m \in Tasks : m.mid < i
      BY <1>6 DEF InFlight
    <2> QED
      BY <1>4, <1>5, <1>8, <1>10, <2>1, <2>2 DEF NotMissed, Coming
  <1> QED
    BY <1>9, <1>10

\* A message that is coming is asked for with the next token, or taken up when it arrives.
LEMMA ComingNext ==
    ASSUME Typed, TrueInv, WireInv, Next, ~hurt', NEW i \in DOMAIN srv, Coming(i)
    PROVE  i \in AllHandled' \/ (\E f \in fetches' : f < i) \/ Coming(i)'
  <1>1. /\ fetches = {} /\ (\A r \in rows : r.mid < i) /\ (\A m \in Tasks : m.mid < i)
        /\ link = "ready" => Brought(i)
    BY DEF Coming
  <1>2. i # 0 /\ i \in Nat
    BY QueueEntries DEF Typed, LogTyped
  <1>3. CASE Token
    BY <1>1, <1>2, <1>3, RequestIs
  <1>4. CASE ~Token
    <2>1. fetches' = {} /\ (link' = "ready" => link = "ready")
      BY <1>1, <1>4, LinkStep
    <2>2. CASE Receive /\ Head(inbox).type = "MESSAGES" /\ \E m \in Range(Head(inbox).list) : m.mid = i
      BY <2>2, ReceivedTasks, HandledTasks
    <2>3. CASE ~(Receive /\ Head(inbox).type = "MESSAGES" /\ \E m \in Range(Head(inbox).list) : m.mid = i)
      <3>1. ASSUME link' = "ready"
            PROVE  /\ Brought(i)'
                   /\ Receive /\ Head(inbox).type = "MESSAGES" =>
                         \A m \in Range(Head(inbox).list) : m.mid < i
        BY <1>1, <2>1, <2>3, <3>1, BroughtStep
      <3>2. Receive => link' = "ready"
        BY DEF Receive, WireInv
      <3>3. \A m \in Tasks' : m.mid < i
        BY <1>1, <3>1, <3>2, TasksCome
      <3>4. ASSUME NEW a \in rows' PROVE a.mid < i
        <4>1. CASE \E b \in rows : KeptRow(a, b)
          BY <1>1, <4>1 DEF KeptRow, Marks
        <4>2. CASE \E t \in Own : Write(t) /\ a = WrittenRow(t)
          BY <1>2, <4>2 DEF WrittenRow
        <4>3. CASE \E th \in Threads : Store(th) /\ a = StoredRow(th)
          <5>1. PICK th \in Threads : Store(th) /\ a = StoredRow(th)
            BY <4>3
          <5>2. At(th) \in Tasks /\ a.mid = At(th).mid
            BY <5>1, FlightTyped DEF Store, At, StoredRow, RowOf
          <5> QED
            BY <1>1, <5>2
        <4> QED
          BY <4>1, <4>2, <4>3, RowsStep DEF TrueInv, RowsCome
      <3> QED
        BY <2>1, <3>1, <3>3, <3>4 DEF Coming
    <2> QED
      BY <2>2, <2>3
  <1> QED
    BY <1>3, <1>4

LEMMA GapNext ==
    ASSUME Typed, Typed', TrueInv, TextsInv, Refs, ToldKept, WireInv, Next, ~hurt',
           \A i \in DOMAIN srv : NotMissed(i), NEW i \in DOMAIN srv'
    PROVE  NotMissed(i)'
  <1>1. CASE i \notin DOMAIN srv
    BY <1>1, NewComes
  <1>2. CASE i \in DOMAIN srv /\ Kept(i)
    BY <1>2, KeptNext DEF NotMissed
  <1>3. CASE i \in DOMAIN srv /\ i \in AllHandled
    <2>1. ~Kill
      BY <1>3 DEF Kill
    <2>2. PICK m \in Tasks : m.mid = i
      BY <1>3, HandledTasks
    <2>3. m \in Tasks' \/ Kept(i)'
      BY <2>1, <2>2, TasksGo
    <2> QED
      BY <2>2, <2>3, HandledTasks DEF NotMissed
  <1>4. CASE i \in DOMAIN srv /\ \E f \in fetches : f < i
    <2>1. PICK f \in fetches : f < i
      BY <1>4
    <2>2. CASE fetches' = fetches
      BY <2>1, <2>2 DEF NotMissed
    <2>3. CASE Token
      BY <2>1, <2>3 DEF NotMissed, Token
    <2>4. CASE \E g \in fetches, th \in Threads : FetchAnswer(g, th) /\ fetches' = fetches \ {g}
      <3>1. PICK g \in fetches, th \in Threads : FetchAnswer(g, th) /\ fetches' = fetches \ {g}
        BY <2>4
      <3>2. CASE f # g
        BY <2>1, <3>1, <3>2 DEF NotMissed
      <3>3. CASE f = g /\ srv[i].deleted
        <4>1. Kept(i)
          BY <1>4, <3>3 DEF TrueInv, DeletionsTrue, Kept
        <4> QED
          BY <1>4, <4>1, KeptNext DEF NotMissed
      <3>4. CASE f = g /\ ~srv[i].deleted
        <4>1. i \in Wanted(f)
          BY <1>4, <2>1, <3>4, QueueEntries DEF Wanted, Typed, LogTyped
        <4> QED
          BY <3>1, <3>4, <4>1, AnsweredTasks, HandledTasks DEF NotMissed
      <3> QED
        BY <3>2, <3>3, <3>4
    <2>5. ~Kill
      BY <2>1 DEF Kill
    <2> QED
      BY <2>2, <2>3, <2>4, <2>5, LinkStep
  <1>5. CASE i \in DOMAIN srv /\ Coming(i)
    BY <1>5, ComingNext DEF NotMissed
  <1> QED
    BY <1>1, <1>2, <1>3, <1>4, <1>5 DEF NotMissed

LEMMA HurtStep ==
    ASSUME Typed, Next
    PROVE  hurt => hurt'
  <1>1. CASE Kill
    BY <1>1 DEF Kill
  <1>2. CASE Token
    BY <1>2 DEF Token, history
  <1> QED
    BY <1>1, <1>2, LinkStep

\* No message is missed for good: what the server has is in the table, or is being handled, or
\* lies after the last message id, which is what the next synchronisation asks from.  Nothing
\* arrives before an earlier message that is still to come.
THEOREM NothingMissed == Spec => []NoGap
  <1>1. Init => GapInv
    BY DEF Init, GapInv
  <1>2. /\ Typed /\ Typed' /\ TrueInv /\ TextsInv /\ RefsInv /\ DeliveredInv /\ WireInv /\ GapInv
        /\ [Next]_vars
        => GapInv'
    <2>1. CASE UNCHANGED vars
      BY <2>1 DEF vars, store, wire, history, GapInv, NotMissed, Kept, HasRow, AllHandled, Handled,
         Coming, Brought, Tasks
    <2>2. ASSUME Typed, Typed', TrueInv, TextsInv, RefsInv, DeliveredInv, WireInv, GapInv, Next,
                 ~hurt', ~crossed', NEW i \in DOMAIN srv'
          PROVE  NotMissed(i)'
      <3>1. Refs /\ ToldKept /\ \A n \in DOMAIN srv : NotMissed(n)
        BY <2>2, CrossedStep, HurtStep DEF RefsInv, DeliveredInv, GapInv
      <3> QED
        BY <2>2, <3>1, GapNext
    <2> QED
      BY <2>1, <2>2 DEF GapInv
  <1>3. Typed /\ TrueInv /\ GapInv => NoGap
    <2>1. SUFFICES ASSUME Typed, TrueInv, NEW i \in DOMAIN srv, Coming(i)
                   PROVE  InInbox(i) \/ (link = "down" /\ LastMessageId < i)
      BY DEF GapInv, NoGap, NotMissed, Kept
    <2>2. CASE link = "ready"
      <3>1. PICK k \in DOMAIN inbox : /\ inbox[k].type = "MESSAGES"
                                      /\ \E m \in Range(inbox[k].list) : m.mid = i
        BY <2>1, <2>2 DEF Coming, Brought
      <3>2. \E j \in DOMAIN inbox[k].list : inbox[k].list[j].mid = i
        BY <3>1 DEF Range
      <3> QED
        BY <3>1, <3>2 DEF InInbox
    <2>3. CASE link = "down"
      <3>1. i \in Nat /\ i # 0
        BY QueueEntries DEF Typed, LogTyped
      <3>2. LastMessageId < i
        BY <2>1, <3>1, LastIds DEF Typed, Coming
      <3> QED
        BY <2>3, <3>2
    <2> QED
      BY <2>1, <2>2, <2>3 DEF Typed, StateTyped
  <1> QED
    BY <1>1, <1>2, <1>3, TrueInvariant, TextsInvariant, RefsInvariant, DeliveredInvariant,
       WireInvariant, PTL DEF Spec

-----------------------------------------------------------------------------
(* Changes are shown.                                                      *)

\* What may change of a message: it is recalled, or a text of the user's is delivered.  Each kind
\* of change has its notice.
Changes == {"RECALL", "DELIVERED"}
Changed(kind, x) == IF kind = "RECALL" THEN x.recalled ELSE x.seen /\ x.text \in Own

\* A row or a message in flight that shows message i without the change.
Old(kind, i, x) == x.mid = i /\ ~Changed(kind, x)
OldPackets(kind, i) ==
    {p \in Incoming : p.type = "MESSAGES" /\ \E m \in Range(p.list) : Old(kind, i, m)}
Notes(kind, i) == {p \in Incoming : p.type = kind /\ i \in Range(p.list)}
Noted(kind, i) == ~Absent(inbox, Notes(kind, i))

\* What the threads have yet to store.
ToStore(th) ==
    IF threads[th].step = "tell" THEN Range(Tail(threads[th].todo)) ELSE Range(threads[th].todo)
Unstored == UNION {ToStore(th) : th \in {u \in Threads : threads[u].todo # <<>>}}

\* Whoever holds an older state of message i is about to learn of the change.
Follows(kind, i) == SomeAfter(inbox, OldPackets(kind, i), Notes(kind, i))
TasksLearn(kind, i) == \A m \in Tasks : Old(kind, i, m) => Noted(kind, i)
RowsLearn(kind, i) ==
    \A r \in rows : Old(kind, i, r) => \/ Noted(kind, i)
                                       \/ \E m \in Answers \cup Unstored : m.mid = i

\* So it is while the device is connected; for threads and rows, once the messages asked for on
\* connecting have come.
Shows(kind, i) ==
    /\ Follows(kind, i)
    /\ fetches = {} /\ i \notin raced \cup shared => TasksLearn(kind, i) /\ RowsLearn(kind, i)

ShownInv ==
    link = "ready" /\ ~hurt /\ ~crossed =>
        \A kind \in Changes : \A i \in DOMAIN srv :
            Changed(kind, srv[i]) /\ srv[i].text \notin removed => Shows(kind, i)

\* A change is announced at once.
LEMMA ChangesCome ==
    ASSUME Typed, TrueInv, TextsInv, Next, link = "ready",
           NEW kind \in Changes, NEW i \in DOMAIN srv', Changed(kind, srv'[i])
    PROVE  \/ i \in DOMAIN srv /\ Changed(kind, srv[i])
           \/ /\ threads' = threads /\ rows' = rows /\ ~Receive
              /\ \E q \in Notes(kind, i) : inbox' = Append(inbox, q)
  <1> DEFINE Before == i \in DOMAIN srv /\ Changed(kind, srv[i])
  <1>1. CASE srv' = srv
    BY <1>1
  <1>2. CASE Serve /\ Head(out).type = "SEND"
    <2>1. PICK l \in Seq([ref : Nat, text : Own]) : srv' = Accept(srv, l)
      BY <1>2, ServeSendIs
    <2>2. /\ \A n \in DOMAIN srv : srv'[n] = srv[n]
          /\ \A n \in DOMAIN srv' \ DOMAIN srv : \E t, k : srv'[n] = Entry(t, k)
      <3>1. PICK s \in Seq(Entries) : s = srv
        BY DEF Typed, LogTyped
      <3>2. /\ \A n \in DOMAIN s : n \in DOMAIN Accept(s, l) /\ Accept(s, l)[n] = s[n]
            /\ \A n \in DOMAIN Accept(s, l) \ DOMAIN s : \E j \in DOMAIN l :
                  Accept(s, l)[n] = Entry(l[j].text, l[j].ref) /\ ~Stored(s, l[j].ref)
        BY AcceptIs
      <3>3. \A n \in DOMAIN Accept(s, l) \ DOMAIN s : \E t, k : Accept(s, l)[n] = Entry(t, k)
        BY <3>2
      <3>4. srv' = Accept(s, l)
        BY <2>1, <3>1
      <3> QED
        BY <3>1, <3>2, <3>3, <3>4
    <2>3. CASE i \in DOMAIN srv
      <3>1. srv'[i] = srv[i]
        BY <2>2, <2>3
      <3> QED
        BY <2>3, <3>1
    <2>4. CASE i \notin DOMAIN srv
      <3>1. PICK t, n : srv'[i] = Entry(t, n)
        BY <2>2, <2>4
      <3>2. ~srv'[i].recalled /\ ~srv'[i].seen
        BY <3>1 DEF Entry
      <3> QED
        BY <3>2 DEF Changed
    <2> QED
      BY <2>3, <2>4
  <1>3. CASE Serve /\ Head(out).type # "SEND"
    <2>1. /\ DOMAIN srv' = DOMAIN srv /\ srv'[i].text = srv[i].text
          /\ srv'[i].seen => srv[i].seen \/ (Head(out).type = "DELIVERED" /\ i \in Range(Head(out).list))
          /\ srv'[i].recalled => srv[i].recalled \/ (Head(out).type = "RECALL" /\ i = Head(out).list[1])
      BY <1>3, ServeNoticeIs DEF SrvKept
    <2>2. Head(out) \in Range(out) /\ Head(out) \in Outgoing
      BY <1>3, ServedIs
    <2>3. CASE kind = "DELIVERED"
      <3>1. srv'[i].text \in Own /\ srv'[i].seen
        BY <2>3 DEF Changed
      <3>2. Head(out).type = "DELIVERED" /\ i \in Range(Head(out).list) => srv[i].text \in Others
        BY <2>2 DEF TextsInv, OthersTold
      <3>3. srv[i].text \notin Others
        BY <2>1, <3>1, TextsAssumption
      <3> QED
        BY <2>1, <2>3, <3>1, <3>2, <3>3 DEF Changed
    <2>4. CASE kind = "RECALL" /\ ~Before
      <3>1. Head(out).type = "RECALL" /\ i = Head(out).list[1]
        BY <2>1, <2>4 DEF Changed
      <3>2. DOMAIN Head(out).list = {1}
        BY <2>2, <3>1 DEF TrueInv, NoticesTrue, Notice
      <3>3. i \in Range(Head(out).list)
        BY <3>1, <3>2 DEF Range
      <3>4. inbox' = Append(inbox, Head(out)) /\ Head(out) \in Incoming
        BY <1>3, <3>1, ServeNoticeIs DEF Packet
      <3>5. Head(out) \in Notes(kind, i)
        BY <2>4, <3>1, <3>3, <3>4 DEF Notes
      <3>6. threads' = threads /\ rows' = rows /\ out' # out
        <4>1. out \in Seq(Outgoing) /\ out # <<>> /\ out' = Tail(out)
          BY <1>3 DEF Serve, Typed, WireTyped
        <4>2. DOMAIN Tail(out) # DOMAIN out
          BY <4>1, TakenQueue
        <4> QED
          BY <1>3, <4>1, <4>2 DEF Serve, store
      <3>7. ~Receive
        BY <3>6 DEF Receive
      <3> QED
        BY <3>4, <3>5, <3>6, <3>7
    <2> QED
      BY <2>3, <2>4 DEF Changes
  <1>4. CASE \E t \in Others : OtherSends(t)
    <2>1. PICK t \in Others : OtherSends(t)
      BY <1>4
    <2>2. \/ i \in DOMAIN srv /\ srv'[i] = srv[i]
          \/ srv'[i] = Entry(t, 0)
      BY <2>1, OtherSendsIs
    <2>3. ~Entry(t, 0).recalled /\ ~Entry(t, 0).seen
      BY DEF Entry
    <2> QED
      BY <2>2, <2>3 DEF Changed
  <1>5. CASE \E n \in DOMAIN srv : OtherRecalls(n) \/ OtherSees(n)
    <2>1. PICK n \in DOMAIN srv : OtherRecalls(n) \/ OtherSees(n)
      BY <1>5
    <2>2. /\ DOMAIN srv' = DOMAIN srv /\ srv'[i].text = srv[i].text
          /\ srv'[i].seen <=> (srv[i].seen \/ (OtherSees(n) /\ i = n))
          /\ srv'[i].recalled <=> (srv[i].recalled \/ (OtherRecalls(n) /\ i = n))
      BY <2>1, OtherMarksIs DEF SrvKept
    <2>3. PICK q \in Incoming : /\ inbox' = Append(inbox, q) /\ q.list = <<n>>
                                /\ OtherSees(n) => q.type = "DELIVERED"
                                /\ OtherRecalls(n) => q.type = "RECALL"
      BY <2>1, OtherMarksIs
    <2>4. Range(q.list) = {n}
      BY <2>3, OneEntry
    <2>5. threads' = threads /\ rows' = rows
      BY <2>1 DEF OtherRecalls, OtherSees, store
    <2>6. ~Receive
      BY <2>3, GrownIsNew DEF Receive, Typed, WireTyped
    <2>7. ~Before => i = n /\ (kind = "RECALL" => OtherRecalls(n)) /\ (kind = "DELIVERED" => OtherSees(n))
      BY <2>2 DEF Changed, Changes
    <2>8. ~Before => q \in Notes(kind, i)
      BY <2>3, <2>4, <2>7 DEF Notes, Changes
    <2> QED
      BY <2>3, <2>5, <2>6, <2>8
  <1>6. Next => \/ srv' = srv
                \/ Serve
                \/ \E t \in Others : OtherSends(t)
                \/ \E n \in DOMAIN srv : OtherRecalls(n) \/ OtherSees(n)
    <2>1. CASE Server
      BY <2>1 DEF Server
    <2>2. CASE User \/ Receive \/ Token \/ Synchronise
      BY <2>2 DEF User, Write, Send, DeleteMessage, RecallMessage, Receive, Token, Synchronise,
         SyncLocal, SyncTheRest
    <2>3. CASE Fetched \/ (\E th \in Threads : Thread(th)) \/ Disconnect \/ Kill
      BY <2>3 DEF Fetched, FetchAnswer, FetchFails, Thread, Look, Store, Tell, Disconnect, Kill
    <2> QED
      BY <2>1, <2>2, <2>3 DEF Next
  <1> QED
    BY <1>1, <1>2, <1>3, <1>4, <1>5, <1>6

\* The messages in a packet that arrives are as the server has them.
LEMMA NewMessages ==
    ASSUME Typed, Next, NEW q \in Incoming, inbox' = Append(inbox, q), q.type = "MESSAGES",
           NEW m \in Range(q.list)
    PROVE  m.mid \in DOMAIN srv' /\ m = Message(srv', m.mid)
  <1>1. inbox \in Seq(Incoming)
    BY DEF Typed, WireTyped
  <1>2. inbox' # inbox /\ inbox' # <<>> /\ (inbox # <<>> => inbox' # Tail(inbox))
    BY <1>1, GrownIsNew
  <1>3. \A p \in Incoming : inbox' = Append(inbox, p) => p = q
    BY <1>1, LastEntry
  <1>4. \A n : Message(srv', n).mid = n
    BY DEF Message
  <1>5. CASE Serve /\ Head(out).type = "SEND"
    <2>1. PICK p \in Incoming :
             /\ inbox' = Append(inbox, p)
             /\ \A k \in DOMAIN p.list : \E i \in DOMAIN srv' : p.list[k] = Message(srv', i)
      BY <1>5, ServeSendIs
    <2>2. PICK k \in DOMAIN q.list : m = q.list[k]
      BY DEF Range
    <2> QED
      BY <1>3, <1>4, <2>1, <2>2
  <1>6. CASE Serve /\ Head(out).type # "SEND"
    BY <1>2, <1>3, <1>6, ServeNoticeIs
  <1>7. CASE \E t \in Others : OtherSends(t)
    <2>1. PICK n \in Messages, p \in Incoming :
             /\ n = Message(srv', Len(srv) + 1) /\ Len(srv) + 1 \in DOMAIN srv'
             /\ inbox' = Append(inbox, p) /\ p.list = <<n>>
      BY <1>2, <1>7, OtherSendsIs
    <2>2. q.list = <<n>> /\ Range(<<n>>) = {n}
      BY <1>3, <2>1, OneEntry
    <2>3. m = n
      BY <2>2
    <2> QED
      BY <1>4, <2>1, <2>3
  <1>8. CASE \E i \in DOMAIN srv : OtherRecalls(i) \/ OtherSees(i)
    BY <1>2, <1>3, <1>8, OtherMarksIs
  <1>9. CASE Receive \/ Disconnect \/ Kill
    BY <1>2, <1>9 DEF Receive, Disconnect, Kill
  <1>10. CASE User \/ Token \/ Synchronise \/ Fetched \/ \E th \in Threads : Thread(th)
    BY <1>2, <1>10 DEF User, Write, Send, DeleteMessage, RecallMessage, Token, Synchronise,
       SyncLocal, SyncTheRest, Fetched, FetchAnswer, FetchFails, Thread, Look, Store, Tell, wire
  <1> QED
    BY <1>5, <1>6, <1>7, <1>8, <1>9, <1>10 DEF Next, Server

\* Packets with an older state stay ahead of the notice.
LEMMA FollowsNext ==
    ASSUME Typed, TrueInv, TextsInv, Next, link = "ready", link' = "ready",
           NEW kind \in Changes, NEW i \in DOMAIN srv', Changed(kind, srv'[i]),
           i \in DOMAIN srv /\ Changed(kind, srv[i]) => Follows(kind, i)
    PROVE  Follows(kind, i)'
  <1>1. inbox \in Seq(Incoming)
    BY DEF Typed, WireTyped
  <1>2. \A p \in Notes(kind, i) : p \in Incoming /\ p \notin OldPackets(kind, i)
    BY DEF Notes, OldPackets, Changes
  <1>3. CASE ~(i \in DOMAIN srv /\ Changed(kind, srv[i]))
    <2>1. PICK q \in Notes(kind, i) : inbox' = Append(inbox, q)
      BY <1>3, ChangesCome
    <2> QED
      BY <1>1, <1>2, <2>1, GrownOrder DEF Follows
  <1>4. CASE inbox' = inbox /\ Follows(kind, i)
    BY <1>4 DEF Follows
  <1>5. CASE Receive /\ inbox' = Tail(inbox) /\ inbox # <<>> /\ Follows(kind, i)
    BY <1>1, <1>5, TakenOrder DEF Follows
  <1>6. CASE (\E q \in Incoming : inbox' = Append(inbox, q)) /\ Follows(kind, i)
    <2>1. PICK q \in Incoming : inbox' = Append(inbox, q)
      BY <1>6
    <2>2. q \notin OldPackets(kind, i)
      <3>1. SUFFICES ASSUME q.type = "MESSAGES", NEW m \in Range(q.list), Old(kind, i, m)
                     PROVE  FALSE
        BY DEF OldPackets
      <3>2. m.mid = i /\ m = Message(srv', i)
        BY <2>1, <3>1, NewMessages DEF Old
      <3>3. m.seen = srv'[i].seen /\ m.recalled = srv'[i].recalled /\ m.text = srv'[i].text
        BY <3>2 DEF Message
      <3> QED
        BY <3>1, <3>3 DEF Old, Changed
    <2> QED
      BY <1>1, <1>6, <2>1, <2>2, GrownOrder DEF Follows
  <1>7. ~Disconnect /\ ~Kill
    BY DEF Disconnect, Kill
  <1> QED
    BY <1>3, <1>4, <1>5, <1>6, <1>7, InboxStep

\* A notice is under way until it is handled.
LEMMA NotedNext ==
    ASSUME Typed, Next, link' = "ready", NEW kind, NEW i, Noted(kind, i)
    PROVE  Noted(kind, i)' \/ (Receive /\ Head(inbox) \in Notes(kind, i))
  <1>1. inbox \in Seq(Incoming)
    BY DEF Typed, WireTyped
  <1>2. CASE inbox' = inbox
    BY <1>2 DEF Noted
  <1>3. CASE Receive /\ inbox' = Tail(inbox) /\ inbox # <<>>
    BY <1>1, <1>3, TakenLatest DEF Noted
  <1>4. CASE \E q \in Incoming : inbox' = Append(inbox, q)
    <2>1. PICK k \in DOMAIN inbox : inbox[k] \in Notes(kind, i)
      BY DEF Noted, Absent
    <2>2. k \in DOMAIN inbox' /\ inbox'[k] = inbox[k]
      BY <1>1, <1>4, GrownQueue
    <2> QED
      BY <2>1, <2>2 DEF Noted, Absent
  <1>5. ~Disconnect /\ ~Kill
    BY DEF Disconnect, Kill
  <1> QED
    BY <1>2, <1>3, <1>4, <1>5, InboxStep

\* A notice that is handled marks the rows of its message.
LEMMA NoticeMarks ==
    ASSUME Typed, TrueInv, Next, Receive, NEW kind \in Changes, NEW i \in DOMAIN srv,
           Changed(kind, srv[i]), Head(inbox) \in Notes(kind, i), i \notin raced'
    PROVE  /\ \A r \in rows' : ~Old(kind, i, r)
           /\ \A m \in Tasks' : ~Old(kind, i, m)
  <1>1. Head(inbox).type = kind /\ i \in Range(Head(inbox).list)
    BY DEF Notes
  <1>2. CASE kind = "RECALL"
    <2>1. OnRecall
      BY <1>1, <1>2, ReceiveIs
    <2>2. \A r \in rows' : r.mid = i => r.recalled
      BY <1>1, <2>1 DEF OnRecall, MarkRecalled, Typed, TableTyped, Rows
    <2>3. raced' = raced \cup (AllHandled \cap Range(Head(inbox).list)) /\ threads' = threads
      BY <2>1 DEF OnRecall
    <2>4. i \notin AllHandled
      BY <1>1, <2>3
    <2> QED
      BY <1>2, <2>2, <2>3, <2>4, HandledTasks DEF Old, Changed, Tasks
  <1>3. CASE kind = "DELIVERED"
    <2>1. OnDelivered
      BY <1>1, <1>3, ReceiveIs
    <2>2. \A r \in rows' : r.mid = i => r.seen /\ \E b \in rows : b.mid = i /\ r.text = b.text
      BY <1>1, <2>1 DEF OnDelivered, MarkSeen, Typed, TableTyped, Rows
    <2>3. raced' = raced \cup (AllHandled \cap Range(Head(inbox).list)) /\ threads' = threads
      BY <2>1 DEF OnDelivered
    <2>4. i \notin AllHandled
      BY <1>1, <2>3
    <2>5. i # 0
      BY QueueEntries DEF Typed, LogTyped
    <2>6. \A b \in rows : b.mid = i => b.text \in Own
      BY <1>3, <2>5 DEF TrueInv, RowTrue, Changed
    <2> QED
      BY <1>3, <2>2, <2>3, <2>4, <2>6, HandledTasks DEF Old, Changed, Tasks
  <1> QED
    BY <1>2, <1>3 DEF Changes

\* What is yet to be stored is stored next, or still to be stored.
LEMMA UnstoredStep ==
    ASSUME Typed, Next, link' = "ready", NEW m \in Unstored
    PROVE  m \in Unstored' \/ \E th \in Threads : Store(th) /\ m = At(th)
  <1>1. PICK u \in Threads : threads[u].todo # <<>> /\ m \in ToStore(u)
    BY DEF Unstored
  <1>2. CASE threads'[u] = threads[u]
    BY <1>1, <1>2 DEF Unstored, ToStore
  <1>3. TableTyped /\ ThreadsTyped /\ WireTyped
    BY DEF Typed
  <1>4. /\ threads[u].todo \in Seq(Messages)
        /\ Range(threads[u].todo) = {At(u)} \cup Range(Tail(threads[u].todo))
    <2>1. threads[u].todo \in Seq(Messages)
      BY <1>1, <1>3, HeadIs
    <2> QED
      BY <1>1, <2>1, TakenRange DEF At
  <1>5. ASSUME threads'[u].todo = Tail(threads[u].todo), threads'[u].step = "look",
               m \in Range(Tail(threads[u].todo))
        PROVE  m \in Unstored'
    <2>1. Tail(threads[u].todo) # <<>>
      BY <1>5, NothingInRange
    <2> QED
      BY <1>5, <2>1 DEF Unstored, ToStore
  <1>6. CASE Look(u)
    <2>1. threads[u].step = "look"
      BY <1>3, <1>6, LookIs
    <2>2. threads'[u].todo = threads[u].todo /\ threads'[u].step = "store"
      <3>1. PICK g : Goes(u, [todo |-> threads[u].todo, step |-> "store", target |-> g])
        BY <1>3, <1>6, LookIs
      <3> QED
        BY <3>1 DEF Goes
    <2> QED
      BY <1>1, <2>1, <2>2 DEF Unstored, ToStore
  <1>7. CASE Store(u) /\ m # At(u)
    <2>1. m \in Range(Tail(threads[u].todo))
      BY <1>1, <1>4, <1>7 DEF ToStore
    <2>2. \/ \E g : Goes(u, [todo |-> threads[u].todo, step |-> "tell", target |-> g])
          \/ Goes(u, [todo |-> Tail(threads[u].todo), step |-> "look", target |-> 0])
      BY <1>3, <1>7, StoreIs
    <2>3. CASE \E g : Goes(u, [todo |-> threads[u].todo, step |-> "tell", target |-> g])
      <3>1. threads'[u].todo = threads[u].todo /\ threads'[u].step = "tell"
        BY <2>3 DEF Goes
      <3> QED
        BY <1>1, <2>1, <3>1 DEF Unstored, ToStore
    <2>4. CASE Goes(u, [todo |-> Tail(threads[u].todo), step |-> "look", target |-> 0])
      BY <1>5, <2>1, <2>4 DEF Goes
    <2> QED
      BY <2>2, <2>3, <2>4
  <1>8. CASE Tell(u)
    <2>1. /\ threads[u].step = "tell"
          /\ Goes(u, [todo |-> Tail(threads[u].todo), step |-> "look", target |-> 0])
      BY <1>3, <1>8, TellIs
    <2> QED
      BY <1>1, <1>5, <2>1 DEF Goes, ToStore
  <1>9. ~Begins(u) /\ ~Kill
    BY <1>1 DEF Begins, Kill
  <1>10. \/ threads'[u] = threads[u] \/ Look(u) \/ Store(u) \/ Tell(u)
    <2>1. CASE threads' = threads
      BY <2>1
    <2>2. CASE threads' # threads
      <3>1. PICK th \in Threads : /\ \A v \in Threads \ {th} : threads'[v] = threads[v]
                                  /\ Look(th) \/ Store(th) \/ Tell(th) \/ Begins(th)
        BY <1>9, <2>2, ThreadsStep DEF ThreadsGo
      <3> QED
        BY <1>9, <3>1
    <2> QED
      BY <2>1, <2>2
  <1> QED
    BY <1>2, <1>6, <1>7, <1>8, <1>10

\* Threads learn of changes, while no request is under way.
LEMMA TasksLearnNext ==
    ASSUME Typed, TrueInv, Next, link' = "ready", fetches = {},
           NEW kind \in Changes, NEW i \in DOMAIN srv, Changed(kind, srv[i]), i \notin raced',
           Follows(kind, i), TasksLearn(kind, i)
    PROVE  TasksLearn(kind, i)'
  <1> SUFFICES ASSUME NEW m \in Tasks', Old(kind, i, m)
               PROVE  Noted(kind, i)'
    BY DEF TasksLearn, Old, Changed
  <1>1. CASE m \in Tasks
    <2>1. Noted(kind, i)
      BY <1>1 DEF TasksLearn
    <2> QED
      BY <2>1, NotedNext, NoticeMarks
  <1>2. CASE Receive /\ Head(inbox).type = "MESSAGES" /\ m \in Range(Head(inbox).list)
    <2>1. inbox \in Seq(Incoming) /\ inbox # <<>> /\ inbox' = Tail(inbox) /\ Head(inbox) \in Incoming
      BY <1>2, TakenIs DEF Receive, Typed, WireTyped
    <2>2. Head(inbox) \in OldPackets(kind, i)
      BY <1>2, <2>1 DEF OldPackets
    <2> QED
      BY <2>1, <2>2, TakenOrder DEF Follows, Noted
  <1> QED
    BY <1>1, <1>2, TasksCome

\* Rows learn of changes, while no request is under way.
LEMMA RowsLearnNext ==
    ASSUME Typed, TrueInv, OneRowInv, Next, link' = "ready", fetches = {},
           NEW kind \in Changes, NEW i \in DOMAIN srv, Changed(kind, srv[i]),
           i \notin raced', i \notin shared, TasksLearn(kind, i), RowsLearn(kind, i)
    PROVE  RowsLearn(kind, i)'
  <1> SUFFICES ASSUME NEW r \in rows', Old(kind, i, r)
               PROVE  Noted(kind, i)' \/ \E m \in (Answers \cup Unstored)' : m.mid = i
    BY DEF RowsLearn, Old, Changed
  <1>1. i \in Nat \ {0}
    BY QueueEntries DEF Typed, LogTyped
  <1>2. ASSUME Noted(kind, i) PROVE Noted(kind, i)'
    BY <1>2, NotedNext, NoticeMarks
  <1>3. ASSUME NEW th \in Threads, Store(th), r = StoredRow(th)
        PROVE  Noted(kind, i)'
    <2>1. At(th).mid = r.mid /\ (Changed(kind, At(th)) <=> Changed(kind, r))
      BY <1>3 DEF StoredRow, RowOf, At, Changed
    <2>2. At(th) \in Tasks
      BY <1>3, FlightTyped, StoreIs DEF Typed, At
    <2> QED
      BY <1>2, <2>1, <2>2 DEF TasksLearn, Old
  <1>4. ASSUME NEW b \in rows, KeptRow(r, b)
        PROVE  Noted(kind, i)' \/ \E m \in (Answers \cup Unstored)' : m.mid = i
    <2>1. Old(kind, i, b) /\ r.id = b.id
      BY <1>4 DEF KeptRow, Marks, Old, Changed
    <2>2. CASE Noted(kind, i)
      BY <1>2, <2>2
    <2>3. ASSUME NEW m \in Answers, m.mid = i
          PROVE  \E n \in (Answers \cup Unstored)' : n.mid = i
      <3>1. PICK p \in Range(inbox) : p.type = "MESSAGES" /\ m \in Range(p.list)
        BY <2>3 DEF Answers
      <3>2. CASE p \in Range(inbox')
        BY <2>3, <3>1, <3>2 DEF Answers
      <3>3. CASE Receive /\ p = Head(inbox)
        <4>1. PICK th \in Threads : OnMessages(th)
          BY <3>1, <3>3, ReceiveIs
        <4>2. Goes(th, [todo |-> Head(inbox).list, step |-> "look", target |-> 0])
          BY <3>1, <3>3, <4>1, OnMessagesIs
        <4>3. threads'[th].todo = Head(inbox).list /\ threads'[th].step = "look"
          BY <4>2 DEF Goes
        <4>4. m \in Unstored'
          BY <3>1, <3>3, <4>3, NothingInRange DEF Unstored, ToStore
        <4> QED
          BY <2>3, <4>4
      <3>4. p \in Range(inbox') \/ (Receive /\ p = Head(inbox))
        <4>1. Receive => Range(inbox) = {Head(inbox)} \cup Range(inbox')
          BY TakenIs
        <4>2. \A q \in Incoming : inbox' = Append(inbox, q) => Range(inbox') = Range(inbox) \cup {q}
          BY PacketArrives DEF Typed
        <4>3. ~Disconnect /\ ~Kill
          BY DEF Disconnect, Kill
        <4> QED
          BY <4>1, <4>2, <4>3, InboxStep
      <3> QED
        BY <3>2, <3>3, <3>4
    <2>4. ASSUME NEW th \in Threads, Store(th), At(th).mid = i
          PROVE  Noted(kind, i)'
      <3>1. threads[th].todo # <<>> /\ threads[th].step = "store"
        BY <2>4, StoreIs DEF Typed
      <3>2. b.id = threads[th].target
        BY <2>1, <2>4, <3>1 DEF OneRowInv, OneTarget, Storing, Old
      <3>3. b.id # 0
        BY DEF Typed, TableTyped, Rows, LocalIds
      <3>4. rows' = {IF x.id = threads[th].target THEN RowOf(threads[th].target, At(th)) ELSE x :
                         x \in rows}
        BY <2>4, <3>2, <3>3, StoreIs DEF Typed, At
      <3>5. r = RowOf(threads[th].target, At(th))
        BY <2>1, <3>2, <3>4
      <3>6. r = StoredRow(th)
        BY <3>2, <3>3, <3>5 DEF StoredRow, At
      <3> QED
        BY <1>3, <2>4, <3>6
    <2>5. ASSUME NEW m \in Unstored, m.mid = i
          PROVE  Noted(kind, i)' \/ \E n \in (Answers \cup Unstored)' : n.mid = i
      BY <2>4, <2>5, UnstoredStep
    <2> QED
      BY <2>1, <2>2, <2>3, <2>5 DEF RowsLearn
  <1>5. r.mid # 0
    BY <1>1 DEF Old
  <1>6. \A t : WrittenRow(t).mid = 0
    BY DEF WrittenRow
  <1> QED
    BY <1>3, <1>4, <1>5, <1>6, RowsStep DEF RowsCome, TrueInv

\* The answer of a request brings whatever has changed, as it is now.
LEMMA FetchLearns ==
    ASSUME Typed, TrueInv, NEW f \in fetches, NEW th \in Threads, FetchAnswer(f, th),
           NEW kind \in Changes, NEW i \in DOMAIN srv, Changed(kind, srv[i]),
           srv[i].text \notin removed, i \notin shared'
    PROVE  TasksLearn(kind, i)' /\ RowsLearn(kind, i)'
  <1>1. PICK l \in Seq(Messages) :
           /\ Goes(th, [todo |-> l, step |-> "look", target |-> 0]) /\ threads[th].todo = <<>>
           /\ \A k \in DOMAIN l : l[k].mid \in AllHandled => l[k].mid \in shared'
           /\ \A k \in DOMAIN l : \E n \in Wanted(f) : l[k] = Message(srv, n)
           /\ \A n \in Wanted(f) : \E k \in DOMAIN l : l[k] = Message(srv, n)
    BY FetchAnswerIs
  <1>2. PICK g : g = [todo |-> l, step |-> "look", target |-> 0]
    OBVIOUS
  <1>3. threads'[th].todo = l /\ threads'[th].step = "look" /\ Tasks' = Tasks \cup Range(l)
    <2>1. g.todo = l /\ g.step = "look" /\ Goes(th, g)
      BY <1>1, <1>2
    <2> QED
      BY <1>1, <2>1, GoesWith DEF Goes
  <1>4. i \in Wanted(f)
    BY DEF Wanted, TrueInv, DeletionsTrue, Changed, Changes
  <1>5. PICK k \in DOMAIN l : l[k] = Message(srv, i)
    BY <1>1, <1>4
  <1>6. l[k].mid = i /\ i \notin AllHandled
    BY <1>1, <1>5 DEF Message
  <1>7. \A m \in Range(l) : ~Old(kind, i, m)
    <2>1. TAKE m \in Range(l)
    <2>2. PICK n : m = Message(srv, n)
      BY <1>1 DEF Range
    <2> QED
      BY <2>2 DEF Message, Old, Changed
  <1>8. \A m \in Tasks' : ~Old(kind, i, m)
    BY <1>3, <1>6, <1>7, HandledTasks DEF Old
  <1>9. l[k] \in Unstored'
    <2>1. l[k] \in Range(l)
      BY DEF Range
    <2> QED
      BY <1>3, <2>1, NothingInRange DEF Unstored, ToStore
  <1> QED
    BY <1>6, <1>8, <1>9 DEF TasksLearn, RowsLearn, Old, Changed

\* Every step keeps what is shown, or about to be.
LEMMA ShowsNext ==
    ASSUME Typed, TrueInv, TextsInv, OneRowInv, WireInv, Next, link' = "ready", ~hurt',
           NEW kind \in Changes, NEW i \in DOMAIN srv', Changed(kind, srv'[i]),
           srv'[i].text \notin removed',
           link = "ready" /\ i \in DOMAIN srv /\ Changed(kind, srv[i]) => Shows(kind, i)
    PROVE  Shows(kind, i)'
  <1>1. removed \subseteq removed' /\ shared \subseteq shared' /\ raced \subseteq raced'
    <2>1. raced \subseteq raced'
      BY Steps DEF Write, Send, DeleteMessage, RecallMessage, Look, Store, Tell, Receive, OnMessages,
         OnDelivered, OnRecall, OnDeleteAck, OnSyncDeleteAck, Token, SyncLocal, SyncTheRest,
         FetchAnswer, FetchFails, Serve, OtherSends, OtherRecalls, OtherSees, Disconnect, Kill, history
    <2> QED
      BY <2>1, RemovedStep, SharedStep
  <1>2. i \in DOMAIN srv => srv'[i].text = srv[i].text
    BY SrvStep DEF SrvKept
  <1>3. CASE Token
    <2>1. inbox' = <<>> /\ fetches' # {}
      BY <1>3 DEF Token, wire, WireInv
    <2>2. DOMAIN inbox' = {}
      BY <2>1
    <2> QED
      BY <2>1, <2>2 DEF Shows, Follows, SomeAfter
  <1>4. CASE link = "ready"
    <2>1. Follows(kind, i)'
      BY <1>4, FollowsNext DEF Shows
    <2>2. ASSUME fetches' = {}, i \notin raced' \cup shared'
          PROVE  TasksLearn(kind, i)' /\ RowsLearn(kind, i)'
      <3>1. CASE ~(i \in DOMAIN srv /\ Changed(kind, srv[i]))
        <4>1. PICK q \in Notes(kind, i) : inbox' = Append(inbox, q)
          BY <1>4, <3>1, ChangesCome
        <4>2. Noted(kind, i)'
          <5>1. inbox \in Seq(Incoming) /\ q \in Incoming
            BY DEF Typed, WireTyped, Notes
          <5>2. Len(inbox) + 1 \in DOMAIN inbox' /\ inbox'[Len(inbox) + 1] = q
            BY <4>1, <5>1, GrownQueue
          <5> QED
            BY <5>2 DEF Noted, Absent
        <4> QED
          BY <4>2 DEF TasksLearn, RowsLearn, Noted
      <3>2. CASE i \in DOMAIN srv /\ Changed(kind, srv[i]) /\ fetches = {}
        <4>1. Follows(kind, i) /\ TasksLearn(kind, i) /\ RowsLearn(kind, i)
          BY <1>1, <1>4, <2>2, <3>2 DEF Shows
        <4> QED
          BY <1>1, <2>2, <3>2, <4>1, TasksLearnNext, RowsLearnNext
      <3>3. CASE i \in DOMAIN srv /\ Changed(kind, srv[i]) /\ fetches # {}
        <4>1. PICK f \in fetches, th \in Threads : FetchAnswer(f, th)
          <5>1. ~Kill /\ ~Disconnect
            BY DEF Kill, Disconnect
          <5> QED
            BY <2>2, <3>3, <5>1, LinkStep DEF Token
        <4> QED
          BY <1>1, <1>2, <2>2, <3>3, <4>1, FetchLearns
      <3> QED
        BY <3>1, <3>2, <3>3
    <2> QED
      BY <2>1, <2>2 DEF Shows
  <1>5. link = "ready" \/ Token
    <2>1. (\E f \in fetches : FetchFails(f)) => hurt'
      BY DEF FetchFails
    <2> QED
      BY <2>1, LinkStep
  <1> QED
    BY <1>3, <1>4, <1>5

\* When all is handled and the device is connected, the table shows what the server says: no
\* recalled message, and each text of the user's that was delivered as such.  Messages of an older
\* state are followed by the notice, and what was asked for on connecting is newer than any change.
THEOREM ChangesShown == Spec => []ChangesAreShown
  <1>1. Init => ShownInv
    BY DEF Init, ShownInv
  <1>2. Typed /\ TrueInv /\ TextsInv /\ OneRowInv /\ WireInv /\ ShownInv /\ [Next]_vars => ShownInv'
    <2>1. CASE UNCHANGED vars
      BY <2>1 DEF vars, store, wire, history, ShownInv, Shows, Follows, TasksLearn, RowsLearn, Noted,
         Tasks, Answers, Unstored, ToStore
    <2>2. ASSUME Typed, TrueInv, TextsInv, OneRowInv, WireInv, ShownInv, Next,
                 link' = "ready", ~hurt', ~crossed', NEW kind \in Changes, NEW i \in DOMAIN srv',
                 Changed(kind, srv'[i]), srv'[i].text \notin removed'
          PROVE  Shows(kind, i)'
      <3>1. ~hurt /\ ~crossed /\ removed \subseteq removed'
        BY <2>2, CrossedStep, HurtStep, RemovedStep
      <3>2. i \in DOMAIN srv => srv'[i].text = srv[i].text
        BY <2>2, SrvStep DEF SrvKept
      <3>3. link = "ready" /\ i \in DOMAIN srv /\ Changed(kind, srv[i]) => Shows(kind, i)
        BY <2>2, <3>1, <3>2 DEF ShownInv
      <3> QED
        BY <2>2, <3>3, ShowsNext
    <2> QED
      BY <2>1, <2>2 DEF ShownInv
  <1>3. Typed /\ TrueInv /\ ShownInv => ChangesAreShown
    <2>1. SUFFICES ASSUME Typed, TrueInv, link = "ready", fetches = {},
                          \A kind \in Changes : \A i \in DOMAIN srv :
                             Changed(kind, srv[i]) /\ srv[i].text \notin removed => Shows(kind, i),
                          NEW r \in rows, r.mid # 0, r.text \notin removed,
                          r.mid \notin AllHandled \cup raced \cup shared, ~InInbox(r.mid)
                   PROVE  /\ srv[r.mid].recalled => r.recalled
                          /\ r.text \in Own /\ srv[r.mid].seen => r.seen
      BY DEF ShownInv, ChangesAreShown
    <2>2. r.mid \in DOMAIN srv /\ srv[r.mid].text = r.text
      BY <2>1 DEF TrueInv, RowTrue
    <2>3. ASSUME NEW kind \in Changes, Changed(kind, srv[r.mid])
          PROVE  Changed(kind, r)
      <3>1. RowsLearn(kind, r.mid)
        BY <2>1, <2>2, <2>3 DEF Shows
      <3>2. ~Noted(kind, r.mid)
        <4>1. \A k \in DOMAIN inbox : inbox[k] \notin Notes(kind, r.mid)
          BY <2>1 DEF InInbox, Notes, Changes
        <4> QED
          BY <4>1 DEF Noted, Absent
      <3>3. \A m \in Answers : m.mid # r.mid
        <4>1. ASSUME NEW m \in Answers, m.mid = r.mid PROVE FALSE
          <5>1. PICK k \in DOMAIN inbox : inbox[k].type = "MESSAGES" /\ m \in Range(inbox[k].list)
            BY <4>1 DEF Answers, Range
          <5>2. PICK j \in DOMAIN inbox[k].list : m = inbox[k].list[j]
            BY <5>1 DEF Range
          <5> QED
            BY <2>1, <4>1, <5>1, <5>2 DEF InInbox
        <4> QED
          BY <4>1
      <3>4. \A m \in Unstored : m.mid # r.mid
        <4>1. Unstored \subseteq Tasks
          <5>1. \A th \in Threads : threads[th].todo # <<>> =>
                   Range(Tail(threads[th].todo)) \subseteq Range(threads[th].todo)
            <6>1. \A th \in Threads : threads[th].todo # <<>> => threads[th].todo \in Seq(Messages)
              BY <2>1, HeadIs DEF Typed
            <6> QED
              BY <6>1, TakenRange
          <5> QED
            BY <5>1 DEF Unstored, ToStore, Tasks
        <4> QED
          BY <2>1, <4>1, HandledTasks
      <3> QED
        BY <3>1, <3>2, <3>3, <3>4 DEF RowsLearn, Old
    <2> QED
      BY <2>2, <2>3 DEF Changed, Changes
  <1> QED
    BY <1>1, <1>2, <1>3, TrueInvariant, TextsInvariant, OneRowInvariant, WireInvariant, PTL DEF Spec

=============================================================================
