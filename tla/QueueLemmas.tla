------------------------------ MODULE QueueLemmas ------------------------------
(***************************************************************************)
(* The two ends of a queue: what its entries are after one was taken from  *)
(* the front or put at the back.  The sockets of all components are such   *)
(* queues.                                                                 *)
(***************************************************************************)
EXTENDS Naturals, Sequences, Functions, SequenceTheorems, TLAPS

\* The entries of a queue.
LEMMA QueueEntries ==
    ASSUME NEW S, NEW q \in Seq(S)
    PROVE  /\ Len(q) \in Nat /\ DOMAIN q = 1 .. Len(q)
           /\ \A i \in DOMAIN q : q[i] \in S /\ i \in Nat
           /\ q = <<>> <=> DOMAIN q = {}
  BY LenProperties, EmptySeq

\* The front entry is taken (Head, Tail): the others move up by one.
LEMMA TakenQueue ==
    ASSUME NEW S, NEW q \in Seq(S), q # <<>>
    PROVE  /\ Head(q) \in S /\ Tail(q) \in Seq(S)
           /\ 1 \in DOMAIN q /\ q[1] = Head(q)
           /\ DOMAIN q = 1 .. Len(q) /\ Len(q) \in Nat \ {0}
           /\ DOMAIN Tail(q) = 1 .. (Len(q) - 1)
           /\ \A i \in DOMAIN Tail(q) : /\ i + 1 \in DOMAIN q /\ i \in Nat
                                        /\ Tail(q)[i] = q[i + 1]
           /\ \A i \in DOMAIN q : \/ i = 1
                                  \/ /\ i - 1 \in DOMAIN Tail(q)
                                     /\ Tail(q)[i - 1] = q[i]
  <1>1. /\ Head(q) \in S /\ Tail(q) \in Seq(S) /\ Len(Tail(q)) = Len(q) - 1
        /\ \A i \in 1 .. Len(Tail(q)) : Tail(q)[i] = q[i + 1]
    BY HeadTailProperties
  <1>2. DOMAIN q = 1 .. Len(q) /\ Len(q) \in Nat \ {0}
    BY LenProperties, EmptySeq
  <1>3. DOMAIN Tail(q) = 1 .. (Len(q) - 1)
    BY <1>1, LenProperties
  <1>4. q[1] = Head(q)
    BY <1>2
  <1> QED
    BY <1>1, <1>2, <1>3, <1>4

\* An entry is put at the back (Append): the others stay where they are.
LEMMA GrownQueue ==
    ASSUME NEW S, NEW q \in Seq(S), NEW e \in S
    PROVE  /\ Append(q, e) \in Seq(S)
           /\ DOMAIN q = 1 .. Len(q) /\ Len(q) \in Nat
           /\ DOMAIN Append(q, e) = 1 .. (Len(q) + 1)
           /\ Append(q, e)[Len(q) + 1] = e
           /\ \A i \in DOMAIN q : /\ i \in DOMAIN Append(q, e)
                                  /\ Append(q, e)[i] = q[i]
           /\ \A i \in DOMAIN Append(q, e) :
                 \/ i \in DOMAIN q /\ Append(q, e)[i] = q[i]
                 \/ i = Len(q) + 1 /\ Append(q, e)[i] = e
  <1>1. DOMAIN q = 1 .. Len(q) /\ Len(q) \in Nat
    BY LenProperties
  <1>2. /\ Append(q, e) \in Seq(S) /\ Len(Append(q, e)) = Len(q) + 1
        /\ \A i \in 1 .. Len(q) : Append(q, e)[i] = q[i]
        /\ Append(q, e)[Len(q) + 1] = e
    BY AppendProperties
  <1>3. DOMAIN Append(q, e) = 1 .. (Len(q) + 1)
    BY <1>2, LenProperties
  <1> QED
    BY <1>1, <1>2, <1>3

\* Two queues one behind the other (\o).
LEMMA JoinedQueue ==
    ASSUME NEW S, NEW q \in Seq(S), NEW r \in Seq(S)
    PROVE  /\ q \o r \in Seq(S)
           /\ \A i \in DOMAIN q : i \in DOMAIN (q \o r) /\ (q \o r)[i] = q[i]
           /\ \A i \in DOMAIN r : /\ Len(q) + i \in DOMAIN (q \o r)
                                  /\ (q \o r)[Len(q) + i] = r[i]
           /\ \A i \in DOMAIN (q \o r) :
                 \/ i \in DOMAIN q /\ (q \o r)[i] = q[i]
                 \/ i - Len(q) \in DOMAIN r /\ (q \o r)[i] = r[i - Len(q)]
  <1>1. /\ q \o r \in Seq(S) /\ Len(q \o r) = Len(q) + Len(r)
        /\ \A i \in 1 .. Len(q) + Len(r) :
              (q \o r)[i] = IF i <= Len(q) THEN q[i] ELSE r[i - Len(q)]
    BY ConcatProperties
  <1>2. /\ DOMAIN q = 1 .. Len(q) /\ Len(q) \in Nat
        /\ DOMAIN r = 1 .. Len(r) /\ Len(r) \in Nat
        /\ DOMAIN (q \o r) = 1 .. (Len(q) + Len(r))
    BY <1>1, LenProperties
  <1> QED
    BY <1>1, <1>2

\* The set of the entries of a queue.
LEMMA TakenRange ==
    ASSUME NEW S, NEW q \in Seq(S), q # <<>>
    PROVE  Range(q) = {Head(q)} \cup Range(Tail(q))
  <1>1. ASSUME NEW e \in Range(q)
        PROVE  e = Head(q) \/ e \in Range(Tail(q))
    <2>1. PICK i \in DOMAIN q : q[i] = e
      BY DEF Range
    <2> QED
      BY <2>1, TakenQueue DEF Range
  <1>2. Head(q) \in Range(q)
    BY TakenQueue DEF Range
  <1>3. ASSUME NEW e \in Range(Tail(q))
        PROVE  e \in Range(q)
    <2>1. PICK i \in DOMAIN Tail(q) : Tail(q)[i] = e
      BY DEF Range
    <2> QED
      BY <2>1, TakenQueue DEF Range
  <1> QED
    BY <1>1, <1>2, <1>3

LEMMA GrownRange ==
    ASSUME NEW S, NEW q \in Seq(S), NEW e \in S
    PROVE  Range(Append(q, e)) = Range(q) \cup {e}
  <1> DEFINE r == Append(q, e)
             n == Len(q) + 1
  <1>1. /\ n \in DOMAIN r /\ r[n] = e
        /\ \A i \in DOMAIN q : i \in DOMAIN r /\ r[i] = q[i]
        /\ \A i \in DOMAIN r : (i \in DOMAIN q /\ r[i] = q[i]) \/ (i = n /\ r[i] = e)
    BY GrownQueue
  <1> HIDE DEF r, n
  <1>2. Range(r) = Range(q) \cup {e}
    BY <1>1 DEF Range
  <1> QED
    BY <1>2 DEF r

LEMMA JoinedRange ==
    ASSUME NEW S, NEW q \in Seq(S), NEW r \in Seq(S)
    PROVE  Range(q \o r) = Range(q) \cup Range(r)
  <1> DEFINE s == q \o r
             n == Len(q)
  <1>1. /\ \A i \in DOMAIN q : i \in DOMAIN s /\ s[i] = q[i]
        /\ \A i \in DOMAIN r : n + i \in DOMAIN s /\ s[n + i] = r[i]
        /\ \A i \in DOMAIN s : \/ i \in DOMAIN q /\ s[i] = q[i]
                               \/ i - n \in DOMAIN r /\ s[i] = r[i - n]
    BY JoinedQueue
  <1> HIDE DEF s, n
  <1>2. Range(s) = Range(q) \cup Range(r)
    BY <1>1 DEF Range
  <1> QED
    BY <1>2 DEF s

LEMMA NothingInRange == Range(<<>>) = {}
  BY EmptySeq DEF Range

LEMMA RangeIsIn ==
    ASSUME NEW S, NEW q \in Seq(S)
    PROVE  Range(q) \subseteq S
  BY QueueEntries DEF Range

-----------------------------------------------------------------------------
(* The last word of a queue on a subject: T are the entries about it.      *)

Absent(q, T) == \A i \in DOMAIN q : q[i] \notin T
Latest(q, T, m) ==
    \E i \in DOMAIN q : /\ q[i] = m /\ m \in T
                        /\ \A j \in DOMAIN q : j > i => q[j] \notin T

\* Taking the front entry leaves the last word, unless it was the last.
LEMMA TakenLatest ==
    ASSUME NEW S, NEW q \in Seq(S), q # <<>>, NEW T
    PROVE  /\ \A m : Latest(Tail(q), T, m) => Latest(q, T, m)
           /\ Head(q) \in T /\ Absent(Tail(q), T) => Latest(q, T, Head(q))
           /\ Head(q) \notin T => (Absent(Tail(q), T) <=> Absent(q, T))
           /\ Absent(q, T) => Absent(Tail(q), T) /\ Head(q) \notin T
  <1>1. /\ 1 \in DOMAIN q /\ q[1] = Head(q)
        /\ \A i \in DOMAIN q : i \in Nat
        /\ \A i \in DOMAIN Tail(q) : i + 1 \in DOMAIN q /\ i \in Nat /\ Tail(q)[i] = q[i + 1]
        /\ \A i \in DOMAIN q : i = 1 \/ (i - 1 \in DOMAIN Tail(q) /\ Tail(q)[i - 1] = q[i])
    BY TakenQueue, QueueEntries
  <1>2. ASSUME NEW m, Latest(Tail(q), T, m)
        PROVE  Latest(q, T, m)
    <2>1. PICK i \in DOMAIN Tail(q) :
              /\ Tail(q)[i] = m /\ m \in T
              /\ \A j \in DOMAIN Tail(q) : j > i => Tail(q)[j] \notin T
      BY <1>2 DEF Latest
    <2>2. i + 1 \in DOMAIN q /\ q[i + 1] = m
      BY <1>1, <2>1
    <2>3. ASSUME NEW j \in DOMAIN q, j > i + 1
          PROVE  q[j] \notin T
      <3>1. i \in Nat /\ j \in Nat
        BY <1>1
      <3>2. j - 1 \in DOMAIN Tail(q) /\ Tail(q)[j - 1] = q[j]
        BY <1>1, <2>3, <3>1
      <3>3. j - 1 > i
        BY <2>3, <3>1
      <3> QED
        BY <2>1, <3>2, <3>3
    <2> QED
      BY <2>1, <2>2, <2>3 DEF Latest
  <1>3. ASSUME Absent(Tail(q), T)
        PROVE  \A i \in DOMAIN q : i # 1 => q[i] \notin T
    BY <1>1, <1>3 DEF Absent
  <1>4. ASSUME Absent(q, T)
        PROVE  Absent(Tail(q), T) /\ Head(q) \notin T
    BY <1>1, <1>4 DEF Absent
  <1>5. Head(q) \in T /\ Absent(Tail(q), T) => Latest(q, T, Head(q))
    BY <1>1, <1>3 DEF Latest
  <1>6. Head(q) \notin T /\ Absent(Tail(q), T) => Absent(q, T)
    BY <1>1, <1>3 DEF Absent
  <1> QED
    BY <1>2, <1>4, <1>5, <1>6

\* An entry put at the back has the last word on its subject, and no other.
LEMMA GrownLatest ==
    ASSUME NEW S, NEW q \in Seq(S), NEW e \in S, NEW T
    PROVE  /\ e \in T => /\ ~Absent(Append(q, e), T)
                         /\ \A m : Latest(Append(q, e), T, m) => m = e
           /\ e \notin T => /\ Absent(Append(q, e), T) <=> Absent(q, T)
                            /\ \A m : Latest(Append(q, e), T, m) => Latest(q, T, m)
           /\ Absent(Append(q, e), T) => Absent(q, T) /\ e \notin T
  <1> DEFINE r == Append(q, e)
             n == Len(q) + 1
  <1>1. /\ n \in DOMAIN r /\ r[n] = e
        /\ \A i \in DOMAIN q : i \in DOMAIN r /\ r[i] = q[i] /\ n > i
        /\ \A i \in DOMAIN r : (i \in DOMAIN q /\ r[i] = q[i]) \/ (i = n /\ r[i] = e)
    BY GrownQueue
  <1> HIDE DEF r, n
  <1>2. ASSUME e \in T
        PROVE  ~Absent(r, T) /\ \A m : Latest(r, T, m) => m = e
    BY <1>1, <1>2 DEF Absent, Latest
  <1>3. ASSUME e \notin T
        PROVE  /\ Absent(r, T) <=> Absent(q, T)
               /\ \A m : Latest(r, T, m) => Latest(q, T, m)
    <2>1. Absent(r, T) <=> Absent(q, T)
      BY <1>1, <1>3 DEF Absent
    <2>2. ASSUME NEW m, Latest(r, T, m)
          PROVE  Latest(q, T, m)
      <3>1. PICK i \in DOMAIN r : /\ r[i] = m /\ m \in T
                                  /\ \A j \in DOMAIN r : j > i => r[j] \notin T
        BY <2>2 DEF Latest
      <3>2. i \in DOMAIN q /\ q[i] = m
        BY <1>1, <1>3, <3>1
      <3> QED
        BY <1>1, <3>1, <3>2 DEF Latest
    <2> QED
      BY <2>1, <2>2
  <1>4. Absent(r, T) => Absent(q, T) /\ e \notin T
    BY <1>1 DEF Absent
  <1> QED
    BY <1>2, <1>3, <1>4 DEF r

\* Nothing is said in an empty queue.
LEMMA NothingAbsent ==
    ASSUME NEW T
    PROVE  Absent(<<>>, T) /\ \A m : ~Latest(<<>>, T, m)
  BY EmptySeq DEF Absent, Latest

-----------------------------------------------------------------------------
(* The order of the entries of two kinds.                                  *)

\* No entry of B comes after one of A; one comes after each of A.
NoneAfter(q, A, B) ==
    \A i, j \in DOMAIN q : i < j /\ q[i] \in A => q[j] \notin B
SomeAfter(q, A, B) ==
    \A i \in DOMAIN q : q[i] \in A => \E j \in DOMAIN q : i < j /\ q[j] \in B

\* Taking the front entry keeps the order of the others.
LEMMA TakenOrder ==
    ASSUME NEW S, NEW q \in Seq(S), q # <<>>, NEW A, NEW B
    PROVE  /\ NoneAfter(q, A, B) => /\ NoneAfter(Tail(q), A, B)
                                    /\ Head(q) \in A => Absent(Tail(q), B)
           /\ SomeAfter(q, A, B) => /\ SomeAfter(Tail(q), A, B)
                                    /\ Head(q) \in A => ~Absent(Tail(q), B)
  <1> DEFINE r == Tail(q)
  <1>1. /\ 1 \in DOMAIN q /\ q[1] = Head(q)
        /\ \A i \in DOMAIN q : i \in Nat
        /\ \A i \in DOMAIN r : i + 1 \in DOMAIN q /\ i \in Nat /\ i > 0 /\ r[i] = q[i + 1]
        /\ \A i \in DOMAIN q : i = 1 \/ (i - 1 \in DOMAIN r /\ r[i - 1] = q[i])
    BY TakenQueue, QueueEntries
  <1> HIDE DEF r
  <1>2. ASSUME NoneAfter(q, A, B)
        PROVE  NoneAfter(r, A, B) /\ (Head(q) \in A => Absent(r, B))
    <2>1. ASSUME NEW i \in DOMAIN r, NEW j \in DOMAIN r, i < j, r[i] \in A
          PROVE  r[j] \notin B
      <3>1. i + 1 \in DOMAIN q /\ j + 1 \in DOMAIN q /\ i + 1 < j + 1
        BY <1>1, <2>1
      <3> QED
        BY <1>1, <1>2, <2>1, <3>1 DEF NoneAfter
    <2>2. ASSUME NEW j \in DOMAIN r, Head(q) \in A
          PROVE  r[j] \notin B
      <3>1. j + 1 \in DOMAIN q /\ 1 < j + 1
        BY <1>1
      <3> QED
        BY <1>1, <1>2, <2>2, <3>1 DEF NoneAfter
    <2> QED
      BY <2>1, <2>2 DEF NoneAfter, Absent
  <1>3. ASSUME SomeAfter(q, A, B)
        PROVE  SomeAfter(r, A, B) /\ (Head(q) \in A => ~Absent(r, B))
    <2>1. ASSUME NEW i \in DOMAIN r, r[i] \in A
          PROVE  \E j \in DOMAIN r : i < j /\ r[j] \in B
      <3>1. PICK j \in DOMAIN q : i + 1 < j /\ q[j] \in B
        BY <1>1, <1>3, <2>1 DEF SomeAfter
      <3>2. j - 1 \in DOMAIN r /\ r[j - 1] = q[j] /\ i < j - 1
        BY <1>1, <3>1
      <3> QED
        BY <3>1, <3>2
    <2>2. ASSUME Head(q) \in A
          PROVE  \E j \in DOMAIN r : r[j] \in B
      <3>1. PICK j \in DOMAIN q : 1 < j /\ q[j] \in B
        BY <1>1, <1>3, <2>2 DEF SomeAfter
      <3>2. j - 1 \in DOMAIN r /\ r[j - 1] = q[j]
        BY <1>1, <3>1
      <3> QED
        BY <3>1, <3>2
    <2> QED
      BY <2>1, <2>2 DEF SomeAfter, Absent
  <1> QED
    BY <1>2, <1>3 DEF r

\* What an entry put at the back does to the order.
LEMMA GrownOrder ==
    ASSUME NEW S, NEW q \in Seq(S), NEW e \in S, NEW A, NEW B
    PROVE  /\ NoneAfter(q, A, B) /\ (e \in B => Absent(q, A))
                => NoneAfter(Append(q, e), A, B)
           /\ SomeAfter(q, A, B) /\ e \notin A => SomeAfter(Append(q, e), A, B)
           /\ e \in B /\ e \notin A => SomeAfter(Append(q, e), A, B)
  <1> DEFINE r == Append(q, e)
             n == Len(q) + 1
  <1>1. /\ n \in DOMAIN r /\ r[n] = e
        /\ \A i \in DOMAIN q : i \in DOMAIN r /\ r[i] = q[i] /\ n > i /\ i \in Nat
        /\ \A i \in DOMAIN r : (i \in DOMAIN q /\ r[i] = q[i]) \/ (i = n /\ r[i] = e)
        /\ n \in Nat
    BY GrownQueue
  <1> HIDE DEF r, n
  <1>2. ASSUME NoneAfter(q, A, B), e \in B => Absent(q, A)
        PROVE  NoneAfter(r, A, B)
    <2> SUFFICES ASSUME NEW i \in DOMAIN r, NEW j \in DOMAIN r, i < j, r[i] \in A
                 PROVE  r[j] \notin B
      BY DEF NoneAfter
    <2>1. i \in DOMAIN q /\ r[i] = q[i]
      BY <1>1
    <2>2. CASE j \in DOMAIN q /\ r[j] = q[j]
      BY <1>2, <2>1, <2>2 DEF NoneAfter
    <2>3. CASE r[j] = e
      BY <1>2, <2>1, <2>3 DEF Absent
    <2> QED
      BY <1>1, <2>2, <2>3
  <1>3. ASSUME e \notin A, SomeAfter(q, A, B) \/ e \in B
        PROVE  SomeAfter(r, A, B)
    <2> SUFFICES ASSUME NEW i \in DOMAIN r, r[i] \in A
                 PROVE  \E j \in DOMAIN r : i < j /\ r[j] \in B
      BY DEF SomeAfter
    <2>1. i \in DOMAIN q /\ r[i] = q[i]
      BY <1>1, <1>3
    <2> QED
      BY <1>1, <1>3, <2>1 DEF SomeAfter
  <1> QED
    BY <1>2, <1>3 DEF r

\* What was appended last is the last entry.
LEMMA LastEntry ==
    ASSUME NEW S, NEW q \in Seq(S), NEW a \in S, NEW b \in S, Append(q, a) = Append(q, b)
    PROVE  a = b
  <1>1. Append(q, a)[Len(q) + 1] = a /\ Append(q, b)[Len(q) + 1] = b
    BY GrownQueue
  <1> QED
    BY <1>1

\* A queue with one more entry is not what it was, nor with one fewer.
LEMMA GrownIsNew ==
    ASSUME NEW S, NEW q \in Seq(S), NEW e \in S
    PROVE  /\ Append(q, e) # q /\ Append(q, e) # <<>>
           /\ q # <<>> => Append(q, e) # Tail(q)
  <1>1. /\ DOMAIN q = 1 .. Len(q) /\ Len(q) \in Nat
        /\ DOMAIN Append(q, e) = 1 .. (Len(q) + 1) /\ Append(q, e) \in Seq(S)
    BY GrownQueue
  <1>2. Len(q) + 1 \in DOMAIN Append(q, e) /\ Len(q) + 1 \notin DOMAIN q
    BY <1>1
  <1>3. q # <<>> => Len(q) + 1 \notin DOMAIN Tail(q)
    BY <1>1, TakenQueue
  <1> QED
    BY <1>1, <1>2, <1>3, QueueEntries

\* Joining queues of which the second has no entry of B keeps the order.
LEMMA JoinedOrder ==
    ASSUME NEW S, NEW q \in Seq(S), NEW r \in Seq(S), NEW A, NEW B, Absent(r, B)
    PROVE  /\ NoneAfter(q, A, B) => NoneAfter(q \o r, A, B)
           /\ Absent(q, B) => Absent(q \o r, B)
  <1> DEFINE s == q \o r
             n == Len(q)
  <1>1. \A i \in DOMAIN s : \/ i \in DOMAIN q /\ s[i] = q[i]
                            \/ i - n \in DOMAIN r /\ s[i] = r[i - n]
    BY JoinedQueue
  <1>2. \A i \in DOMAIN s : s[i] \in B => i \in DOMAIN q /\ s[i] = q[i]
    BY <1>1 DEF Absent
  <1>3. /\ DOMAIN q = 1 .. n /\ n \in Nat
        /\ \A i \in DOMAIN s : i \in Nat /\ i >= 1
        /\ \A i \in DOMAIN s : i \in DOMAIN q => s[i] = q[i]
    <2>1. s \in Seq(S)
      BY JoinedQueue
    <2> QED
      BY <2>1, JoinedQueue, QueueEntries
  <1> HIDE DEF s, n
  <1>4. ASSUME NoneAfter(q, A, B), NEW i \in DOMAIN s, NEW j \in DOMAIN s, i < j, s[i] \in A
        PROVE  s[j] \notin B
    <2>1. CASE j \in DOMAIN q
      <3>1. i \in DOMAIN q
        BY <1>3, <1>4, <2>1
      <3> QED
        BY <1>3, <1>4, <2>1, <3>1 DEF NoneAfter
    <2>2. CASE j \notin DOMAIN q
      BY <1>2, <2>2
    <2> QED
      BY <2>1, <2>2
  <1>5. (NoneAfter(q, A, B) => NoneAfter(s, A, B)) /\ (Absent(q, B) => Absent(s, B))
    BY <1>2, <1>4 DEF NoneAfter, Absent
  <1> QED
    BY <1>5 DEF s


-----------------------------------------------------------------------------
(* An entry that stands behind others.                                     *)

\* An entry of A has one of R before it, unless that is done already (r), one of
\* V, unless that is done (v), and none of J behind it.
Preceded(q, i, T, done) == done \/ \E k \in DOMAIN q : k < i /\ q[k] \in T
Prepared(q, A, R, r, V, v, J) ==
    \E i \in DOMAIN q : /\ q[i] \in A
                        /\ Preceded(q, i, R, r) /\ Preceded(q, i, V, v)
                        /\ \A k \in DOMAIN q : k > i => q[k] \notin J

\* What is done stays done.
LEMMA PreparedStays ==
    ASSUME NEW q, NEW A, NEW R, NEW r \in BOOLEAN, NEW V, NEW v \in BOOLEAN, NEW J,
           NEW rr \in BOOLEAN, NEW vv \in BOOLEAN, r => rr, v => vv,
           Prepared(q, A, R, r, V, v, J)
    PROVE  Prepared(q, A, R, rr, V, vv, J)
  BY DEF Prepared, Preceded

\* The front entry is taken: it may have been what was missing, or the last that
\* stood before the entry, or the entry itself, which had all it waits for.
LEMMA TakenPrepared ==
    ASSUME NEW S, NEW q \in Seq(S), q # <<>>, NEW A, NEW R, NEW r \in BOOLEAN,
           NEW V, NEW v \in BOOLEAN, NEW J, Prepared(q, A, R, r, V, v, J)
    PROVE  \/ Prepared(Tail(q), A, R, r \/ Head(q) \in R, V, v \/ Head(q) \in V, J)
           \/ Head(q) \in A /\ r /\ v /\ Absent(Tail(q), J)
  <1>1. PICK t : t = Tail(q)
    OBVIOUS
  <1>2. /\ \A i \in DOMAIN q : i \in Nat /\ i >= 1
        /\ 1 \in DOMAIN q /\ q[1] = Head(q)
        /\ \A i \in DOMAIN t : i + 1 \in DOMAIN q /\ i \in Nat /\ i >= 1 /\ t[i] = q[i + 1]
        /\ \A i \in DOMAIN q : i = 1 \/ (i - 1 \in DOMAIN t /\ t[i - 1] = q[i])
    BY <1>1, TakenQueue, QueueEntries
  <1>3. PICK i \in DOMAIN q : /\ q[i] \in A /\ Preceded(q, i, R, r) /\ Preceded(q, i, V, v)
                              /\ \A k \in DOMAIN q : k > i => q[k] \notin J
    BY DEF Prepared
  <1>4. CASE i = 1
    <2>1. r /\ v
      BY <1>2, <1>3, <1>4 DEF Preceded
    <2>2. Absent(t, J)
      <3>1. ASSUME NEW k \in DOMAIN t PROVE t[k] \notin J
        BY <1>2, <1>3, <1>4, <3>1
      <3> QED
        BY <3>1 DEF Absent
    <2> QED
      BY <1>1, <1>2, <1>3, <1>4, <2>1, <2>2
  <1>5. CASE i # 1
    <2>1. PICK j \in DOMAIN t : j = i - 1 /\ t[j] = q[i]
      BY <1>2, <1>5
    <2>2. ASSUME NEW T, NEW d \in BOOLEAN, Preceded(q, i, T, d)
          PROVE  Preceded(t, j, T, d \/ Head(q) \in T)
      <3>1. CASE d
        BY <3>1 DEF Preceded
      <3>2. CASE ~d
        <4>1. PICK k \in DOMAIN q : k < i /\ q[k] \in T
          BY <2>2, <3>2 DEF Preceded
        <4>2. k = 1 \/ (k - 1 \in DOMAIN t /\ t[k - 1] = q[k] /\ k - 1 < j)
          BY <1>2, <2>1, <4>1
        <4> QED
          BY <1>2, <4>1, <4>2 DEF Preceded
      <3> QED
        BY <3>1, <3>2
    <2>3. \A k \in DOMAIN t : k > j => t[k] \notin J
      BY <1>2, <1>3, <2>1
    <2>4. Prepared(t, A, R, r \/ Head(q) \in R, V, v \/ Head(q) \in V, J)
      BY <1>3, <2>1, <2>2, <2>3 DEF Prepared
    <2> QED
      BY <1>1, <2>4
  <1> QED
    BY <1>4, <1>5

\* One more entry: it is of no harm unless it is of J, and is what A names itself
\* if all that it waits for stands before it.
LEMMA GrownPrepared ==
    ASSUME NEW S, NEW q \in Seq(S), NEW e \in S, NEW A, NEW R, NEW r \in BOOLEAN,
           NEW V, NEW v \in BOOLEAN, NEW J
    PROVE  /\ Prepared(q, A, R, r, V, v, J) /\ e \notin J
                => Prepared(Append(q, e), A, R, r, V, v, J)
           /\ e \in A /\ (r \/ ~Absent(q, R)) /\ (v \/ ~Absent(q, V))
                => Prepared(Append(q, e), A, R, r, V, v, J)
  <1>1. PICK s, n : s = Append(q, e) /\ n = Len(q) + 1
    OBVIOUS
  <1>2. /\ \A i \in DOMAIN q : i \in DOMAIN s /\ s[i] = q[i] /\ i \in Nat /\ i < n
        /\ n \in DOMAIN s /\ n \in Nat /\ s[n] = e
        /\ \A i \in DOMAIN s : i \in DOMAIN q \/ i = n
    BY <1>1, GrownQueue, QueueEntries
  <1>3. ASSUME NEW i \in DOMAIN q, NEW T, NEW d \in BOOLEAN, Preceded(q, i, T, d)
        PROVE  Preceded(s, i, T, d)
    BY <1>2, <1>3 DEF Preceded
  <1>4. ASSUME Prepared(q, A, R, r, V, v, J), e \notin J PROVE Prepared(s, A, R, r, V, v, J)
    <2>1. PICK i \in DOMAIN q : /\ q[i] \in A /\ Preceded(q, i, R, r) /\ Preceded(q, i, V, v)
                                /\ \A k \in DOMAIN q : k > i => q[k] \notin J
      BY <1>4 DEF Prepared
    <2>2. \A k \in DOMAIN s : k > i => s[k] \notin J
      BY <1>2, <1>4, <2>1
    <2> QED
      BY <1>2, <1>3, <2>1, <2>2 DEF Prepared
  <1>5. ASSUME e \in A, r \/ ~Absent(q, R), v \/ ~Absent(q, V)
        PROVE  Prepared(s, A, R, r, V, v, J)
    <2>1. Preceded(s, n, R, r) /\ Preceded(s, n, V, v)
      BY <1>2, <1>5 DEF Preceded, Absent
    <2>2. \A k \in DOMAIN s : ~(k > n)
      BY <1>2
    <2> QED
      BY <1>2, <1>5, <2>1, <2>2 DEF Prepared
  <1> QED
    BY <1>1, <1>4, <1>5

=============================================================================
