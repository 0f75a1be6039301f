-------------------------- MODULE EventStreamProofs --------------------------
(***************************************************************************)
(* What TLAPS proves of EventStream, for any tasks, clients and sizes of   *)
(* queues and histories: the stream implements StreamPromise, and a task   *)
(* ends twice only with a restart or many other ends in between.           *)
(***************************************************************************)
EXTENDS EventStream, FiniteSetTheorems, SequenceTheorems, WellFoundedInduction, TLAPS

------------------------------------------------------------------------------
(* The invariant.                                                           *)

\* The events up to the n-th, one after the other.
EndsAt(s, n) == \A i \in DOMAIN s : s[i] = n - Len(s) + i
Recent(s) == EndsAt(s, Len(log))

Rising(s) == \A i, j \in DOMAIN s : i < j => s[i] < s[j]
Apart(S, T) == \A m \in S, n \in T : m < n
Pending(k) == Elements(k.wire) \cup Elements(k.replay) \cup Elements(k.queue)

\* A connection holds events the client has not seen, in their order: those on the wire, those
\* to replay, and the latest in its queue.
Ordered(k, low, high) ==
    /\ Rising(k.wire) /\ Rising(k.replay) /\ EndsAt(k.queue, high)
    /\ Apart(Elements(k.wire), Elements(k.replay) \cup Elements(k.queue))
    /\ Apart(Elements(k.replay) \cup k.replayed, Elements(k.queue))
    /\ Pending(k) \subseteq (low + 1)..high
    /\ k.replayed \subseteq 1..high
    /\ ~k.open => k = Closed

InOrder(c) ==
    /\ Ordered(conn[c], cursor[c], Len(log))
    /\ \A i \in Elements(conn[c].wire) \cup Elements(conn[c].replay) : Wants(c, log[i].task)

\* The history is the end of the log.
Typed ==
    /\ TypeOK
    /\ Len(log) <= MaxEvents
    /\ Recent(history)
    /\ \A c \in Clients : InOrder(c)

\* What an open connection does not hold is lost, or before all the client will ever see.
Complete(c) ==
    conn[c].open =>
    \A i \in Unseen(c) : Wants(c, log[i].task) =>
        \/ i \in Pending(conn[c]) \cup lost[c]
        \/ cursor[c] = 0 /\ \A j \in Pending(conn[c]) : i < j

\* Until the history is full, what is before it is lost to everyone who has not seen it.
Held ==
    Len(history) < HistorySize =>
        \A c \in Clients : \A i \in Unseen(c) : i <= Len(log) - Len(history) => i \in lost[c]

Keeping == Typed /\ Held /\ \A c \in Clients : Complete(c)

\* The tasks that end between two places of a log.
EndedIn(g, i, j) == {g[k].task : k \in {k \in i..j : g[k].terminal}}

\* Event i of the log g, seen from the memory t of ends: all tasks remembered after its own
\* have ended since; if its own is forgotten, the memory is full of such.
Since(t, g, i) ==
    \E q \in 0..Len(t) :
        /\ q = 0 => Len(t) = TerminalSize
        /\ q # 0 => t[q] = g[i].task
        /\ \A p \in (q + 1)..Len(t) : \E k \in (i + 1)..Len(g) : g[k].terminal /\ g[k].task = t[p]

Distinct(t) == \A p, q \in DOMAIN t : t[p] = t[q] => p = q

\* No restart since event i.
Standing(i) == \A r \in boots : r < i

Remembering ==
    /\ Typed
    /\ Distinct(terminals)
    /\ \A i \in DOMAIN log : log[i].terminal /\ Standing(i) => Since(terminals, log, i)
    /\ OneTerminal

------------------------------------------------------------------------------
(* Sequences.                                                               *)

LEMMA Sizes ==
    /\ QueueSize \in Nat \ {0} /\ HistorySize \in Nat \ {0} /\ TerminalSize \in Nat \ {0}
    /\ WireSize \in Nat \ {0} /\ MaxEvents \in Nat /\ MaxBreaks \in Nat
  BY StreamAssumption

\* The least-number principle.
Below == {p \in Nat \X Nat : p[1] < p[2]}

LEMMA Least == ASSUME NEW T \in SUBSET Nat, T # {} PROVE \E x \in T : \A y \in T : x <= y
  <1>1. IsWellFoundedOn(Below, Nat)
    BY NatLessThanWellFounded DEF OpToRel, Below
  <1>2. PICK x \in T : \A y \in T : ~(<<y, x>> \in Below)
    BY <1>1, WFMin
  <1>3. \A m, n \in Nat : <<m, n>> \in Below <=> m < n
    BY DEF Below
  <1>4. \A m, n \in Nat : ~(m < n) => n <= m
    OBVIOUS
  <1>5. ASSUME NEW y \in T PROVE x <= y
    <2>1. x \in Nat /\ y \in Nat /\ <<y, x>> \notin Below
      BY <1>2
    <2> QED BY <1>3, <1>4, <2>1, Zenon
  <1> QED BY <1>5

\* What holds at zero and goes on from each number to the next holds up to any bound.
LEMMA UpTo ==
    ASSUME NEW N \in Nat, NEW T, 0 \in T, \A n \in 1..N : n - 1 \in T => n \in T
    PROVE  0..N \subseteq T
  <1> DEFINE B == {n \in 0..N : n \notin T}
  <1> SUFFICES ASSUME B # {} PROVE FALSE
    OBVIOUS
  <1>1. B \in SUBSET Nat
    OBVIOUS
  <1> HIDE DEF B
  <1>2. PICK n \in B : \A m \in B : n <= m
    BY <1>1, Least
  <1>3. n \in 0..N /\ n \notin T
    BY <1>2 DEF B
  <1>4. n \in 1..N /\ n - 1 \in 0..N
    BY <1>3
  <1>5. n - 1 \notin B
    BY <1>2, <1>4, <1>1
  <1> QED BY <1>3, <1>4, <1>5 DEF B

LEMMA Appended ==
    ASSUME NEW S, NEW s \in Seq(S), NEW x \in S
    PROVE  /\ Append(s, x) \in Seq(S) /\ Len(Append(s, x)) = Len(s) + 1
           /\ Elements(Append(s, x)) = Elements(s) \cup {x}
  <1> DEFINE t == Append(s, x)
  <1>1. /\ t \in Seq(S) /\ Len(t) = Len(s) + 1 /\ t[Len(s) + 1] = x
        /\ \A i \in 1..Len(s) : t[i] = s[i]
    BY AppendProperties
  <1>2. DOMAIN s = 1..Len(s) /\ DOMAIN t = 1..(Len(s) + 1) /\ Len(s) \in Nat
    BY <1>1, LenProperties
  <1> HIDE DEF t
  <1>3. Elements(t) = Elements(s) \cup {x}
    BY <1>1, <1>2 DEF Elements
  <1> QED BY <1>1, <1>3 DEF t

LEMMA RisingAppended ==
    ASSUME NEW s \in Seq(Int), Rising(s), NEW x \in Int, \A m \in Elements(s) : m < x
    PROVE  Rising(Append(s, x))
  <1>1. DOMAIN s = 1..Len(s) /\ Len(s) \in Nat /\ DOMAIN Append(s, x) = 1..(Len(s) + 1)
    BY AppendProperties, LenProperties
  <1>2. \A i \in 1..Len(s) : Append(s, x)[i] = s[i] /\ s[i] \in Elements(s)
    BY <1>1, AppendProperties DEF Elements
  <1>3. Append(s, x)[Len(s) + 1] = x
    BY AppendProperties
  <1> QED BY <1>1, <1>2, <1>3 DEF Rising

LEMMA Headed ==
    ASSUME NEW S, NEW s \in Seq(S), s # <<>>
    PROVE  /\ Head(s) \in S /\ Head(s) \in Elements(s)
           /\ Tail(s) \in Seq(S) /\ Len(Tail(s)) = Len(s) - 1 /\ Len(s) \in Nat \ {0}
           /\ Elements(s) = {Head(s)} \cup Elements(Tail(s))
  <1>1. /\ Head(s) \in S /\ Tail(s) \in Seq(S) /\ Len(Tail(s)) = Len(s) - 1
        /\ \A i \in 1..Len(Tail(s)) : Tail(s)[i] = s[i + 1]
    BY HeadTailProperties
  <1>2. DOMAIN s = 1..Len(s) /\ Len(s) \in Nat \ {0} /\ DOMAIN Tail(s) = 1..(Len(s) - 1) /\ Head(s) = s[1]
    BY <1>1, LenProperties, EmptySeq
  <1>3. \A i \in 1..Len(s) : i = 1 \/ (i - 1 \in 1..(Len(s) - 1) /\ Tail(s)[i - 1] = s[i])
    BY <1>1, <1>2
  <1>4. \A i \in 1..(Len(s) - 1) : i + 1 \in 1..Len(s) /\ Tail(s)[i] = s[i + 1]
    BY <1>1, <1>2
  <1>5. Elements(s) = {Head(s)} \cup Elements(Tail(s))
    <2>1. ASSUME NEW x \in Elements(s) PROVE x \in {Head(s)} \cup Elements(Tail(s))
      <3>1. PICK i \in 1..Len(s) : x = s[i]
        BY <1>2, <2>1 DEF Elements
      <3>2. CASE i = 1
        BY <1>2, <3>1, <3>2
      <3>3. CASE i - 1 \in DOMAIN Tail(s) /\ Tail(s)[i - 1] = s[i]
        BY <3>1, <3>3 DEF Elements
      <3> QED BY <1>2, <1>3, <3>2, <3>3
    <2>2. ASSUME NEW x \in Elements(Tail(s)) PROVE x \in Elements(s)
      <3>1. PICK i \in 1..(Len(s) - 1) : x = Tail(s)[i]
        BY <1>2, <2>2 DEF Elements
      <3>2. i + 1 \in DOMAIN s /\ x = s[i + 1]
        BY <1>2, <1>4, <3>1
      <3> QED BY <3>2 DEF Elements
    <2>3. Head(s) \in Elements(s)
      BY <1>2 DEF Elements
    <2> QED BY <2>1, <2>2, <2>3
  <1> QED BY <1>1, <1>2, <1>5

LEMMA RisingTail ==
    ASSUME NEW s \in Seq(Int), Rising(s), s # <<>>
    PROVE  Rising(Tail(s)) /\ \A m \in Elements(Tail(s)) : Head(s) < m
  <1>1. /\ Tail(s) \in Seq(Int) /\ Len(Tail(s)) = Len(s) - 1
        /\ \A i \in 1..Len(Tail(s)) : Tail(s)[i] = s[i + 1]
    BY HeadTailProperties
  <1>2. DOMAIN s = 1..Len(s) /\ Len(s) \in Nat \ {0} /\ DOMAIN Tail(s) = 1..(Len(s) - 1) /\ Head(s) = s[1]
    BY <1>1, LenProperties, EmptySeq
  <1>3. \A i \in 1..(Len(s) - 1) : Tail(s)[i] = s[i + 1] /\ i + 1 \in 1..Len(s)
    BY <1>1, <1>2
  <1>4. Rising(Tail(s))
    BY <1>2, <1>3, SMTT(30) DEF Rising
  <1>5. \A i \in 1..(Len(s) - 1) : Head(s) < Tail(s)[i]
    BY <1>2, <1>3 DEF Rising
  <1> QED BY <1>2, <1>4, <1>5 DEF Elements

LEMMA LastOfIs ==
    ASSUME NEW S, NEW s \in Seq(S), NEW n \in Nat
    PROVE  /\ LastOf(s, n) \in Seq(S)
           /\ Len(LastOf(s, n)) = IF Len(s) <= n THEN Len(s) ELSE n
           /\ \A i \in 1..Len(LastOf(s, n)) :
                i + Len(s) - Len(LastOf(s, n)) \in 1..Len(s)
                /\ LastOf(s, n)[i] = s[i + Len(s) - Len(LastOf(s, n))]
  <1>1. Len(s) \in Nat
    BY LenProperties
  <1>2. CASE Len(s) <= n
    <2>1. LastOf(s, n) = s /\ \A i \in 1..Len(s) : i + Len(s) - Len(s) = i
      BY <1>1, <1>2 DEF LastOf
    <2> QED BY <1>1, <1>2, <2>1
  <1>3. CASE ~(Len(s) <= n)
    <2> DEFINE m == Len(s) - n + 1
               t == SubSeq(s, m, Len(s))
    <2>1. m \in 1..(Len(s) + 1) /\ Len(s) \in (m - 1)..Len(s) /\ LastOf(s, n) = t
      BY <1>1, <1>3 DEF LastOf
    <2>2. /\ t \in Seq(S) /\ Len(t) = IF m <= Len(s) THEN Len(s) - m + 1 ELSE 0
          /\ \A i \in 1..(Len(s) - m + 1) : t[i] = s[m + i - 1]
      <3> HIDE DEF m
      <3> QED BY <2>1, SubSeqProperties
    <2>3. Len(t) = n /\ \A i \in 1..n : t[i] = s[i + Len(s) - n]
      <3>1. Len(t) = n
        BY <1>1, <1>3, <2>2
      <3> HIDE DEF t
      <3>2. Len(s) - m + 1 = n /\ \A i \in 1..n : m + i - 1 = i + Len(s) - n
        BY <1>1
      <3> QED BY <2>2, <3>1, <3>2
    <2>4. \A i \in 1..n : i + Len(s) - n \in 1..Len(s)
      BY <1>1, <1>3
    <2> HIDE DEF t, m
    <2>5. LastOf(s, n) \in Seq(S) /\ Len(LastOf(s, n)) = n
      BY <2>1, <2>2, <2>3
    <2>6. \A i \in 1..n : LastOf(s, n)[i] = s[i + Len(s) - n]
      BY <2>1, <2>3
    <2> QED BY <1>3, <2>4, <2>5, <2>6
  <1> QED BY <1>2, <1>3

LEMMA EndsElements ==
    ASSUME NEW s \in Seq(Int), NEW n \in Int, EndsAt(s, n)
    PROVE  Elements(s) = (n - Len(s) + 1)..n
  <1>1. DOMAIN s = 1..Len(s) /\ Len(s) \in Nat
    BY LenProperties
  <1>2. \A i \in 1..Len(s) : s[i] = n - Len(s) + i /\ s[i] \in (n - Len(s) + 1)..n
    BY <1>1 DEF EndsAt
  <1>3. \A m \in (n - Len(s) + 1)..n : m - n + Len(s) \in 1..Len(s) /\ s[m - n + Len(s)] = m
    BY <1>1, <1>2
  <1>4. Elements(s) \subseteq (n - Len(s) + 1)..n
    BY <1>1, <1>2 DEF Elements
  <1>5. (n - Len(s) + 1)..n \subseteq Elements(s)
    BY <1>1, <1>3 DEF Elements
  <1> QED BY <1>4, <1>5

LEMMA LastEnds ==
    ASSUME NEW S, NEW s \in Seq(S), NEW n \in Nat, n + 1 \in S, EndsAt(s, n),
           NEW size \in Nat \ {0}, Len(s) <= size
    PROVE  /\ LastOf(Append(s, n + 1), size) \in Seq(S)
           /\ Len(LastOf(Append(s, n + 1), size)) = IF Len(s) = size THEN size ELSE Len(s) + 1
           /\ EndsAt(LastOf(Append(s, n + 1), size), n + 1)
  <1> DEFINE a == Append(s, n + 1)
             t == LastOf(a, size)
  <1>1. Len(s) \in Nat /\ DOMAIN s = 1..Len(s)
    BY LenProperties
  <1>2. /\ a \in Seq(S) /\ Len(a) = Len(s) + 1 /\ a[Len(s) + 1] = n + 1
        /\ \A i \in 1..Len(s) : a[i] = s[i]
    BY AppendProperties
  <1> HIDE DEF a
  <1>3. /\ t \in Seq(S) /\ Len(t) = IF Len(a) <= size THEN Len(a) ELSE size
        /\ \A i \in 1..Len(t) : i + Len(a) - Len(t) \in 1..Len(a) /\ t[i] = a[i + Len(a) - Len(t)]
    <2>1. size \in Nat
      OBVIOUS
    <2> QED BY <1>2, <2>1, LastOfIs
  <1> HIDE DEF t
  <1>4. Len(t) = IF Len(s) = size THEN size ELSE Len(s) + 1
    <2>1. Len(a) = Len(s) + 1 /\ Len(t) = IF Len(a) <= size THEN Len(a) ELSE size
      BY <1>2, <1>3, Zenon
    <2>2. CASE Len(s) = size
      BY <1>1, <2>1, <2>2
    <2>3. CASE Len(s) # size
      <3>1. Len(s) + 1 <= size
        <4>1. \A l, m \in Nat : l <= m /\ l # m => l + 1 <= m
          OBVIOUS
        <4>2. Len(s) \in Nat /\ size \in Nat /\ Len(s) <= size /\ Len(s) # size
          BY <1>1, <2>3
        <4> QED BY <4>1, <4>2, Zenon
      <3> QED BY <2>1, <2>3, <3>1
    <2> QED BY <2>2, <2>3
  <1>5. \A j \in 1..(Len(s) + 1) : a[j] = n - Len(s) + j
    <2>1. \A j \in 1..Len(s) : a[j] = n - Len(s) + j
      BY <1>1, <1>2 DEF EndsAt
    <2>2. \A j \in 1..(Len(s) + 1) : j \in 1..Len(s) \/ j = Len(s) + 1
      BY <1>1
    <2> QED BY <1>1, <1>2, <2>1, <2>2
  <1>6. DOMAIN t = 1..Len(t) /\ Len(t) \in Nat
    BY <1>3, LenProperties
  <1>7. EndsAt(t, n + 1)
    <2> SUFFICES ASSUME NEW i \in 1..Len(t) PROVE t[i] = n + 1 - Len(t) + i
      BY <1>6 DEF EndsAt
    <2>1. t[i] = n - Len(s) + (i + Len(a) - Len(t))
      BY <1>2, <1>3, <1>5
    <2> QED BY <1>1, <1>2, <1>6, <2>1
  <1> QED BY <1>3, <1>4, <1>7 DEF t, a

\* The partial results of Only.
OnlyUpTo(t, s, ids) ==
    /\ t[0] = <<>>
    /\ \A n \in 1..Len(s) : t[n] = IF s[n] \in ids THEN Append(t[n - 1], s[n]) ELSE t[n - 1]

LEMMA OnlyIs ==
    ASSUME NEW S, NEW s \in Seq(S), NEW ids
    PROVE  \E t : OnlyUpTo(t, s, ids) /\ Only(s, ids) = t[Len(s)]
  <1> DEFINE N == Len(s)
             D == 0..N
             T == {n \in D : \E t \in [D -> Seq(S)] :
                      /\ t[0] = <<>>
                      /\ \A i \in 1..n : t[i] = IF s[i] \in ids THEN Append(t[i - 1], s[i]) ELSE t[i - 1]}
  <1>1. N \in Nat /\ \A i \in 1..N : s[i] \in S
    BY LenProperties
  <1>2. 0 \in T
    <2> DEFINE z == [n \in D |-> <<>>]
    <2>1. <<>> \in Seq(S) /\ 0 \in D
      BY <1>1, EmptySeq
    <2>2. /\ z \in [D -> Seq(S)] /\ z[0] = <<>>
          /\ \A i \in 1..0 : z[i] = IF s[i] \in ids THEN Append(z[i - 1], s[i]) ELSE z[i - 1]
      BY <2>1
    <2> HIDE DEF z
    <2> QED BY <2>1, <2>2
  <1>3. ASSUME NEW n \in 1..N, n - 1 \in T PROVE n \in T
    <2>1. PICK t \in [D -> Seq(S)] :
            /\ t[0] = <<>>
            /\ \A i \in 1..(n - 1) : t[i] = IF s[i] \in ids THEN Append(t[i - 1], s[i]) ELSE t[i - 1]
      BY <1>3
    <2> DEFINE x == IF s[n] \in ids THEN Append(t[n - 1], s[n]) ELSE t[n - 1]
               r == [t EXCEPT ![n] = x]
    <2>2. n \in D /\ n - 1 \in D /\ n # 0 /\ n - 1 # n /\ 0 \in D
      BY <1>1
    <2>3. x \in Seq(S)
      <3>1. t[n - 1] \in Seq(S) /\ s[n] \in S
        BY <1>1, <2>1, <2>2
      <3> QED BY <3>1, AppendProperties
    <2> HIDE DEF x
    <2>4. r \in [D -> Seq(S)] /\ r[n] = x /\ \A i \in D : i # n => r[i] = t[i]
      BY <2>1, <2>2, <2>3
    <2> HIDE DEF r
    <2>5. ASSUME NEW i \in 1..n
          PROVE  r[i] = IF s[i] \in ids THEN Append(r[i - 1], s[i]) ELSE r[i - 1]
      <3>1. i \in D /\ i - 1 \in D /\ i - 1 # n
        BY <1>1
      <3>2. CASE i = n
        BY <2>4, <2>2, <3>1, <3>2 DEF x
      <3>3. CASE i # n
        <4>1. i \in 1..(n - 1) /\ r[i] = t[i] /\ r[i - 1] = t[i - 1]
          BY <1>1, <2>4, <3>1, <3>3
        <4> QED BY <2>1, <4>1
      <3> QED BY <3>2, <3>3
    <2>6. r[0] = <<>>
      BY <2>1, <2>2, <2>4
    <2> QED BY <2>2, <2>4, <2>5, <2>6
  <1>4. N \in T
    <2>1. 0..N \subseteq T
      <3> HIDE DEF T
      <3>1. N \in Nat
        BY <1>1
      <3> HIDE DEF N
      <3> QED BY <1>2, <1>3, <3>1, UpTo
    <2>2. N \in 0..N
      BY <1>1
    <2> HIDE DEF T, N
    <2> QED BY <2>1, <2>2
  <1>5. PICK t \in [D -> Seq(S)] :
            /\ t[0] = <<>>
            /\ \A i \in 1..N : t[i] = IF s[i] \in ids THEN Append(t[i - 1], s[i]) ELSE t[i - 1]
    BY <1>4, Zenon
  <1> DEFINE Is(u) == u = [n \in 0..Len(s) |-> IF n = 0 THEN <<>>
                              ELSE IF s[n] \in ids THEN Append(u[n - 1], s[n]) ELSE u[n - 1]]
             v == CHOOSE u : Is(u)
  <1>6. Is(t)
    <2>1. \A n \in D : t[n] = IF n = 0 THEN <<>>
                              ELSE IF s[n] \in ids THEN Append(t[n - 1], s[n]) ELSE t[n - 1]
      <3>1. \A n \in D : n = 0 \/ n \in 1..N
        BY <1>1
      <3> QED BY <1>5, <3>1
    <2> QED BY <1>5, <2>1
  <1>7. Is(v)
    <2> HIDE DEF Is
    <2> QED BY <1>6
  <1>8. Only(s, ids) = v[Len(s)]
    BY DEF Only
  <1> HIDE DEF v
  <1>9. OnlyUpTo(v, s, ids)
    <2>1. 0 \in 0..Len(s) /\ \A n \in 1..Len(s) : n \in 0..Len(s) /\ n # 0
      BY <1>1
    <2> QED BY <1>7, <2>1 DEF OnlyUpTo
  <1> QED BY <1>8, <1>9

\* What Only keeps, and that it keeps the order.
LEMMA OnlyKeeps ==
    ASSUME NEW S \in SUBSET Int, NEW s \in Seq(S), Rising(s), NEW ids
    PROVE  /\ Only(s, ids) \in Seq(S) /\ Rising(Only(s, ids))
           /\ Elements(Only(s, ids)) = Elements(s) \cap ids
  <1>1. PICK t : OnlyUpTo(t, s, ids) /\ Only(s, ids) = t[Len(s)]
    BY OnlyIs
  <1> DEFINE N == Len(s)
             First(n) == {s[i] : i \in 1..n}
             T == {n \in 0..N : t[n] \in Seq(S) /\ Rising(t[n]) /\ Elements(t[n]) = First(n) \cap ids}
  <1>2. N \in Nat /\ DOMAIN s = 1..N /\ \A i \in 1..N : s[i] \in S
    BY LenProperties
  <1>3. 0 \in T
    <2>1. t[0] = <<>> /\ t[0] \in Seq(S) /\ 0 \in 0..N
      BY <1>1, <1>2, EmptySeq DEF OnlyUpTo
    <2>2. DOMAIN t[0] = {} /\ First(0) = {}
      BY <2>1
    <2> QED BY <2>1, <2>2 DEF Rising, Elements
  <1>4. ASSUME NEW n \in 1..N, n - 1 \in T PROVE n \in T
    <2>1. PICK u : u = t[n - 1]
      OBVIOUS
    <2>2. u \in Seq(S) /\ Rising(u) /\ Elements(u) = First(n - 1) \cap ids
      BY <1>4, <2>1
    <2>3. n \in 0..N /\ s[n] \in S /\ t[n] = IF s[n] \in ids THEN Append(u, s[n]) ELSE u
      BY <1>1, <1>2, <2>1 DEF OnlyUpTo
    <2>4. First(n) = First(n - 1) \cup {s[n]}
      <3>1. \A i \in 1..n : i = n \/ i \in 1..(n - 1)
        BY <1>2
      <3>2. \A i \in 1..(n - 1) : i \in 1..n
        BY <1>2
      <3>3. n \in 1..n
        BY <1>2
      <3> QED BY <3>1, <3>2, <3>3
    <2>5. \A m \in Elements(u) : m < s[n]
      <3>1. \A i \in 1..(n - 1) : i \in 1..N /\ i < n
        BY <1>2
      <3>2. \A i \in 1..(n - 1) : s[i] < s[n]
        BY <1>2, <3>1 DEF Rising
      <3> QED BY <2>2, <3>2
    <2>6. CASE s[n] \in ids
      <3>1. t[n] = Append(u, s[n])
        BY <2>3, <2>6
      <3>2. t[n] \in Seq(S) /\ Elements(t[n]) = Elements(u) \cup {s[n]}
        BY <2>2, <2>3, <3>1, Appended
      <3>3. Rising(t[n])
        <4>1. u \in Seq(Int) /\ s[n] \in Int
          BY <2>2, <2>3, SeqMonotonic
        <4> QED BY <2>2, <2>5, <3>1, <4>1, RisingAppended
      <3>4. Elements(t[n]) = First(n) \cap ids
        <4> HIDE DEF First
        <4> QED BY <2>2, <2>4, <2>6, <3>2
      <3> QED BY <2>3, <3>2, <3>3, <3>4
    <2>7. CASE s[n] \notin ids
      <3>1. t[n] = u
        BY <2>3, <2>7
      <3>2. Elements(t[n]) = First(n) \cap ids
        <4> HIDE DEF First
        <4> QED BY <2>2, <2>4, <2>7, <3>1
      <3> QED BY <2>2, <2>3, <3>1, <3>2
    <2> QED BY <2>6, <2>7
  <1>5. N \in T
    <2>1. 0..N \subseteq T
      <3> HIDE DEF T
      <3>1. N \in Nat
        BY <1>2
      <3> HIDE DEF N
      <3> QED BY <1>3, <1>4, <3>1, UpTo
    <2>2. N \in 0..N
      BY <1>2
    <2> HIDE DEF T, N
    <2> QED BY <2>1, <2>2
  <1>6. First(N) = Elements(s)
    BY <1>2 DEF Elements
  <1> QED BY <1>1, <1>5, <1>6

------------------------------------------------------------------------------
(* What each step does to a connection.                                     *)

LEMMA Fields ==
    ASSUME NEW k \in Connection
    PROVE  /\ k.open \in BOOLEAN /\ k.replayed \in SUBSET Ids
           /\ k.replay \in Seq(Ids) /\ k.queue \in Seq(Ids) /\ k.wire \in Seq(Ids)
           /\ k.replay \in Seq(Int) /\ k.queue \in Seq(Int) /\ k.wire \in Seq(Int)
  <1>1. /\ k.open \in BOOLEAN /\ k.replayed \in SUBSET Ids
        /\ k.replay \in Seq(Ids) /\ k.queue \in Seq(Ids) /\ k.wire \in Seq(Ids)
    BY DEF Connection, IdSeq
  <1>2. Ids \subseteq Int
    BY DEF Ids
  <1> QED BY <1>1, <1>2, SeqMonotonic

LEMMA ClosedIs ==
    /\ Closed \in Connection /\ Closed.open = FALSE /\ Closed.replay = <<>> /\ Closed.replayed = {}
    /\ Closed.queue = <<>> /\ Closed.wire = <<>> /\ Pending(Closed) = {}
  <1>1. <<>> \in Seq(Ids)
    BY EmptySeq
  <1>2. Elements(<<>>) = {}
    BY DEF Elements
  <1>3. /\ Closed.open = FALSE /\ Closed.replay = <<>> /\ Closed.replayed = {}
        /\ Closed.queue = <<>> /\ Closed.wire = <<>>
    BY DEF Closed
  <1>4. Closed \in Connection
    BY <1>1 DEF Closed, Connection, IdSeq
  <1> QED BY <1>2, <1>3, <1>4 DEF Pending

LEMMA ClosedOrdered == ASSUME NEW low \in Nat, NEW high \in Nat PROVE Ordered(Closed, low, high)
  <1>1. Elements(<<>>) = {} /\ Rising(<<>>) /\ EndsAt(<<>>, high)
    BY DEF Elements, Rising, EndsAt
  <1> QED BY <1>1, ClosedIs DEF Ordered, Apart

LEMMA EndsTail ==
    ASSUME NEW s \in Seq(Int), NEW n \in Int, EndsAt(s, n), s # <<>>
    PROVE  EndsAt(Tail(s), n) /\ Head(s) = n - Len(s) + 1
  <1>1. /\ Tail(s) \in Seq(Int) /\ Len(Tail(s)) = Len(s) - 1
        /\ \A i \in 1..Len(Tail(s)) : Tail(s)[i] = s[i + 1]
    BY HeadTailProperties
  <1>2. DOMAIN s = 1..Len(s) /\ Len(s) \in Nat \ {0} /\ DOMAIN Tail(s) = 1..(Len(s) - 1) /\ Head(s) = s[1]
    BY <1>1, LenProperties, EmptySeq
  <1>3. \A i \in 1..(Len(s) - 1) : Tail(s)[i] = s[i + 1] /\ i + 1 \in 1..Len(s)
    BY <1>1, <1>2
  <1>4. \A i \in 1..Len(s) : s[i] = n - Len(s) + i
    BY <1>2 DEF EndsAt
  <1>5. \A i \in 1..(Len(s) - 1) : Tail(s)[i] = n - (Len(s) - 1) + i
    BY <1>2, <1>3, <1>4
  <1> QED BY <1>1, <1>2, <1>4, <1>5 DEF EndsAt

LEMMA ReplayStep ==
    ASSUME NEW k \in Connection, NEW s \in Connection, NEW low \in Nat, NEW high \in Nat,
           Ordered(k, low, high), k.replay # <<>>, s.open = k.open, s.replay = Tail(k.replay),
           s.replayed = k.replayed \cup {Head(k.replay)}, s.queue = k.queue,
           s.wire = Append(k.wire, Head(k.replay))
    PROVE  /\ Ordered(s, low, high) /\ Pending(s) = Pending(k) /\ k.open
           /\ Elements(s.wire) \cup Elements(s.replay) = Elements(k.wire) \cup Elements(k.replay)
  <1> DEFINE h == Head(k.replay)
  <1>1. /\ Rising(k.wire) /\ Rising(k.replay) /\ EndsAt(k.queue, high)
        /\ Apart(Elements(k.wire), Elements(k.replay) \cup Elements(k.queue))
        /\ Apart(Elements(k.replay) \cup k.replayed, Elements(k.queue))
        /\ Pending(k) \subseteq (low + 1)..high /\ k.replayed \subseteq 1..high
        /\ (~k.open => k = Closed)
    BY DEF Ordered
  <1>2. /\ h \in Ids /\ h \in Int /\ h \in Elements(k.replay)
        /\ Elements(k.replay) = {h} \cup Elements(s.replay)
    BY Fields, Headed
  <1>3. Elements(s.wire) = Elements(k.wire) \cup {h}
    BY <1>2, Fields, Appended
  <1>4. Rising(s.replay) /\ \A m \in Elements(s.replay) : h < m
    BY <1>1, Fields, RisingTail
  <1>5. Rising(s.wire)
    <2>1. \A m \in Elements(k.wire) : m < h
      BY <1>1, <1>2 DEF Apart
    <2> QED BY <1>1, <1>2, <2>1, Fields, RisingAppended
  <1>6. k.open
    BY <1>1, ClosedIs
  <1>7. Pending(s) = Pending(k)
    BY <1>2, <1>3 DEF Pending
  <1>8. Apart(Elements(s.wire), Elements(s.replay) \cup Elements(s.queue))
    <2> HIDE DEF h
    <2> QED BY <1>1, <1>2, <1>3, <1>4 DEF Apart
  <1>9. Apart(Elements(s.replay) \cup s.replayed, Elements(s.queue))
    BY <1>1, <1>2 DEF Apart
  <1>10. s.replayed \subseteq 1..high
    <2>1. h \in (low + 1)..high
      BY <1>1, <1>2 DEF Pending
    <2> QED BY <1>1, <2>1
  <1> QED BY <1>1, <1>2, <1>3, <1>4, <1>5, <1>6, <1>7, <1>8, <1>9, <1>10 DEF Ordered

LEMMA Above ==
    \A n \in Nat : \A l \in Nat : \A m \in (n - (l - 1) + 1)..n : n - l + 1 < m
  OBVIOUS

\* What has been replayed is never in the queue as well.
LEMMA LiveStep ==
    ASSUME NEW k \in Connection, NEW s \in Connection, NEW low \in Nat, NEW high \in Nat,
           Ordered(k, low, high), k.replay = <<>>, k.queue # <<>>, NEW skip \in BOOLEAN,
           s.open = k.open, s.replay = k.replay, s.replayed = k.replayed, s.queue = Tail(k.queue),
           s.wire = IF skip THEN k.wire ELSE Append(k.wire, Head(k.queue))
    PROVE  /\ Ordered(s, low, high) /\ k.open
           /\ Head(k.queue) \notin k.replayed /\ Head(k.queue) \in Pending(k)
           /\ Pending(k) = Pending(s) \cup {Head(k.queue)} /\ (skip \/ Pending(s) = Pending(k))
           /\ Elements(s.wire) = Elements(k.wire) \cup (IF skip THEN {} ELSE {Head(k.queue)})
  <1> DEFINE h == Head(k.queue)
  <1>1. /\ Rising(k.wire) /\ Rising(k.replay) /\ EndsAt(k.queue, high)
        /\ Apart(Elements(k.wire), Elements(k.replay) \cup Elements(k.queue))
        /\ Apart(Elements(k.replay) \cup k.replayed, Elements(k.queue))
        /\ Pending(k) \subseteq (low + 1)..high /\ k.replayed \subseteq 1..high
        /\ (~k.open => k = Closed)
    BY DEF Ordered
  <1>2. /\ h \in Ids /\ h \in Int /\ h \in Elements(k.queue)
        /\ Elements(k.queue) = {h} \cup Elements(s.queue)
    BY Fields, Headed
  <1>3. Elements(s.wire) = Elements(k.wire) \cup (IF skip THEN {} ELSE {h})
    BY <1>2, Fields, Appended
  <1>4. EndsAt(s.queue, high) /\ h = high - Len(k.queue) + 1
    <2>1. k.queue \in Seq(Int) /\ high \in Int
      BY Fields
    <2>2. EndsAt(Tail(k.queue), high) /\ h = high - Len(k.queue) + 1
      BY <1>1, <2>1, EndsTail
    <2> QED BY <2>2
  <1>5. Rising(s.wire)
    <2>1. \A m \in Elements(k.wire) : m < h
      BY <1>1, <1>2 DEF Apart
    <2>2. Rising(Append(k.wire, h))
      BY <1>1, <1>2, <2>1, Fields, RisingAppended
    <2> QED BY <1>1, <2>2
  <1>6. k.open
    BY <1>1, ClosedIs
  <1>7. h \notin k.replayed
    <2>1. h \in k.replayed => h < h
      BY <1>1, <1>2 DEF Apart
    <2> QED BY <1>2, <2>1
  <1>8. Elements(s.replay) = {} /\ Elements(k.replay) = {}
    BY DEF Elements
  <1>9. \A m \in Elements(s.queue) : h < m
    <2>1. Tail(k.queue) \in Seq(Int) /\ Len(Tail(k.queue)) = Len(k.queue) - 1 /\ Len(k.queue) \in Nat
      BY Fields, Headed
    <2>2. Elements(s.queue) = (high - (Len(k.queue) - 1) + 1)..high
      <3> PICK q : q = s.queue
        OBVIOUS
      <3>1. q \in Seq(Int) /\ Len(q) = Len(k.queue) - 1 /\ EndsAt(q, high) /\ high \in Int
        BY <1>4, <2>1
      <3>2. Elements(q) = (high - Len(q) + 1)..high
        BY <3>1, EndsElements
      <3> QED BY <3>1, <3>2
    <2> PICK l \in Nat : l = Len(k.queue)
      BY <2>1
    <2>3. \A m \in (high - (l - 1) + 1)..high : high - l + 1 < m
      BY Above
    <2> QED BY <1>4, <2>2, <2>3
  <1>10. Apart(Elements(s.wire), Elements(s.replay) \cup Elements(s.queue))
    <2> HIDE DEF h
    <2> QED BY <1>1, <1>2, <1>3, <1>8, <1>9 DEF Apart
  <1>11. Apart(Elements(s.replay) \cup s.replayed, Elements(s.queue))
    BY <1>1, <1>2, <1>8 DEF Apart
  <1>12. /\ Pending(k) = Pending(s) \cup {h} /\ (skip \/ Pending(s) = Pending(k)) /\ h \in Pending(k)
    <2> HIDE DEF h
    <2> QED BY <1>2, <1>3, <1>8 DEF Pending
  <1> QED BY <1>1, <1>3, <1>4, <1>5, <1>6, <1>7, <1>10, <1>11, <1>12 DEF Ordered

LEMMA ReceiveStep ==
    ASSUME NEW k \in Connection, NEW s \in Connection, NEW low \in Nat, NEW high \in Nat,
           Ordered(k, low, high), k.wire # <<>>,
           s.open = k.open, s.replay = k.replay, s.replayed = k.replayed, s.queue = k.queue,
           s.wire = Tail(k.wire)
    PROVE  /\ Head(k.wire) \in (low + 1)..high /\ Ordered(s, Head(k.wire), high) /\ k.open
           /\ Head(k.wire) \in Elements(k.wire) /\ Elements(s.wire) \subseteq Elements(k.wire)
           /\ Pending(k) = {Head(k.wire)} \cup Pending(s)
           /\ \A i \in Pending(s) : Head(k.wire) < i
  <1>1. /\ Rising(k.wire) /\ Rising(k.replay) /\ EndsAt(k.queue, high)
        /\ Apart(Elements(k.wire), Elements(k.replay) \cup Elements(k.queue))
        /\ Apart(Elements(k.replay) \cup k.replayed, Elements(k.queue))
        /\ Pending(k) \subseteq (low + 1)..high /\ k.replayed \subseteq 1..high
        /\ (~k.open => k = Closed)
    BY DEF Ordered
  <1> PICK h : h = Head(k.wire)
    OBVIOUS
  <1>2. /\ h \in Ids /\ h \in Int /\ h \in Elements(k.wire)
        /\ Elements(k.wire) = {h} \cup Elements(s.wire)
    BY Fields, Headed
  <1>3. Rising(s.wire) /\ \A m \in Elements(s.wire) : h < m
    BY <1>1, Fields, RisingTail
  <1>4. k.open
    BY <1>1, ClosedIs
  <1>5. Pending(k) = {h} \cup Pending(s) /\ h \in Pending(k)
    BY <1>2 DEF Pending
  <1>6. \A i \in Pending(s) : h < i
    BY <1>1, <1>2, <1>3 DEF Pending, Apart
  <1>7. h \in (low + 1)..high
    BY <1>1, <1>5
  <1>8. Pending(s) \subseteq (h + 1)..high
    <2>1. \A i \in Pending(s) : i \in (low + 1)..high /\ h < i
      BY <1>1, <1>5, <1>6
    <2> QED BY <1>7, <2>1
  <1>9. Apart(Elements(s.wire), Elements(s.replay) \cup Elements(s.queue))
    BY <1>1, <1>2 DEF Apart
  <1>10. Ordered(s, h, high)
    BY <1>1, <1>3, <1>4, <1>8, <1>9 DEF Ordered
  <1> QED BY <1>2, <1>4, <1>5, <1>6, <1>7, <1>10

\* A full queue holds the QueueSize events before the new one, of which it drops the first.
LEMMA PutIs ==
    ASSUME NEW q \in Seq(Ids), NEW n \in Nat, n + 1 \in Ids, EndsAt(q, n), Len(q) <= QueueSize
    PROVE  /\ Put(q, n + 1) \in Seq(Ids) /\ Len(Put(q, n + 1)) <= QueueSize
           /\ EndsAt(Put(q, n + 1), n + 1)
           /\ Elements(q) \cup {n + 1} = Elements(Put(q, n + 1)) \cup Dropped(q)
           /\ Dropped(q) \subseteq Elements(q)
           /\ \A d \in Dropped(q) : d = n - QueueSize + 1
  <1> PICK r : r = Put(q, n + 1)
    OBVIOUS
  <1>1. QueueSize \in Nat \ {0} /\ QueueSize \in Nat
    BY Sizes
  <1>2. /\ r \in Seq(Ids) /\ Len(r) = (IF Len(q) = QueueSize THEN QueueSize ELSE Len(q) + 1)
        /\ EndsAt(r, n + 1)
    BY <1>1, LastEnds DEF Put
  <1>3. q \in Seq(Int) /\ r \in Seq(Int) /\ Len(q) \in Nat /\ Len(r) \in Nat /\ n \in Int /\ n + 1 \in Int
    <2>1. Ids \subseteq Int
      BY DEF Ids
    <2>2. q \in Seq(Int) /\ r \in Seq(Int)
      BY <1>2, <2>1, SeqMonotonic
    <2>3. Len(q) \in Nat /\ Len(r) \in Nat
      BY <1>2, LenProperties
    <2> QED BY <2>2, <2>3
  <1>4. Elements(q) = (n - Len(q) + 1)..n
    BY <1>3, EndsElements
  <1>5. Elements(r) = ((n + 1) - Len(r) + 1)..(n + 1)
    BY <1>2, <1>3, EndsElements
  <1>6. CASE Len(q) = QueueSize
    <2>1. q # <<>> /\ Dropped(q) = {Head(q)}
      BY <1>1, <1>6 DEF Dropped
    <2>2. Head(q) = n - QueueSize + 1
      BY <1>3, <1>6, <2>1, EndsTail
    <2>3. Len(r) = QueueSize
      BY <1>2, <1>6
    <2>4. Elements(q) = (n - QueueSize + 1)..n /\ Elements(r) = (n - QueueSize + 2)..(n + 1)
      BY <1>1, <1>4, <1>5, <1>6, <2>3
    <2> PICK z \in Nat \ {0} : z = QueueSize
      BY <1>1
    <2>5. /\ ((n - z + 1)..n) \cup {n + 1} = ((n - z + 2)..(n + 1)) \cup {n - z + 1}
          /\ n - z + 1 \in (n - z + 1)..n
      OBVIOUS
    <2> QED BY <1>1, <1>2, <2>1, <2>2, <2>3, <2>4, <2>5
  <1>7. CASE Len(q) # QueueSize
    <2>1. Dropped(q) = {}
      BY <1>7 DEF Dropped
    <2>2. Len(r) = Len(q) + 1
      BY <1>2, <1>7
    <2> PICK z \in Nat : z = Len(q)
      BY <1>3
    <2>3. Elements(q) = (n - z + 1)..n /\ Elements(r) = (n - z + 1)..(n + 1)
      BY <1>4, <1>5, <2>2
    <2>4. ((n - z + 1)..n) \cup {n + 1} = (n - z + 1)..(n + 1)
      OBVIOUS
    <2>5. Len(r) <= QueueSize
      <3>1. \A l, m \in Nat : l <= m /\ l # m => l + 1 <= m
        OBVIOUS
      <3>2. Len(q) \in Nat /\ QueueSize \in Nat /\ Len(q) <= QueueSize /\ Len(q) # QueueSize
        BY <1>1, <1>3, <1>7
      <3> QED BY <2>2, <3>1, <3>2, Zenon
    <2> QED BY <1>2, <2>1, <2>3, <2>4, <2>5
  <1> QED BY <1>6, <1>7

LEMMA PublishStep ==
    ASSUME NEW k \in Connection, NEW s \in Connection, NEW low \in Nat, NEW high \in Nat,
           Ordered(k, low, high), k.open, low <= high, high + 1 \in Ids, Len(k.queue) <= QueueSize,
           s.open = k.open, s.replay = k.replay, s.replayed = k.replayed,
           s.queue = Put(k.queue, high + 1), s.wire = k.wire
    PROVE  /\ Ordered(s, low, high + 1) /\ Len(s.queue) <= QueueSize
           /\ Pending(k) \subseteq Pending(s) \cup Dropped(k.queue) /\ high + 1 \in Pending(s)
           /\ Pending(s) \subseteq Pending(k) \cup {high + 1}
           /\ Dropped(k.queue) \subseteq (low + 1)..high
           /\ Dropped(k.queue) # {} => high + 1 - low > QueueSize
  <1>1. /\ Rising(k.wire) /\ Rising(k.replay) /\ EndsAt(k.queue, high)
        /\ Apart(Elements(k.wire), Elements(k.replay) \cup Elements(k.queue))
        /\ Apart(Elements(k.replay) \cup k.replayed, Elements(k.queue))
        /\ Pending(k) \subseteq (low + 1)..high /\ k.replayed \subseteq 1..high
        /\ (~k.open => k = Closed)
    BY DEF Ordered
  <1> PICK n : n = high + 1
    OBVIOUS
  <1>2. /\ EndsAt(s.queue, n) /\ Len(s.queue) <= QueueSize
        /\ Elements(k.queue) \cup {n} = Elements(s.queue) \cup Dropped(k.queue)
        /\ Dropped(k.queue) \subseteq Elements(k.queue)
        /\ \A d \in Dropped(k.queue) : d = high - QueueSize + 1
    BY <1>1, Fields, PutIs
  <1>3. Elements(k.queue) \subseteq (low + 1)..high /\ n \notin (low + 1)..high
    BY <1>1 DEF Pending
  <1>4. n \in Elements(s.queue)
    BY <1>2, <1>3
  <1>5. Pending(k) \subseteq Pending(s) \cup Dropped(k.queue) /\ n \in Pending(s)
    BY <1>2, <1>4 DEF Pending
  <1>6. Pending(s) \subseteq Pending(k) \cup {n}
    BY <1>2 DEF Pending
  <1>7. (low + 1)..high \subseteq (low + 1)..n /\ n \in (low + 1)..n /\ \A m \in (low + 1)..high : m < n
    OBVIOUS
  <1>8. Pending(s) \subseteq (low + 1)..n
    BY <1>1, <1>6, <1>7
  <1>9. Elements(s.queue) \subseteq Elements(k.queue) \cup {n}
    BY <1>2
  <1>10. Elements(k.wire) \cup Elements(k.replay) \subseteq (low + 1)..high
    BY <1>1 DEF Pending
  <1>11. \A m \in k.replayed : m < n
    <2>1. \A m \in 1..high : m < high + 1
      OBVIOUS
    <2> QED BY <1>1, <2>1
  <1>12. Apart(Elements(s.wire), Elements(s.replay) \cup Elements(s.queue))
    BY <1>1, <1>7, <1>9, <1>10 DEF Apart
  <1>13. Apart(Elements(s.replay) \cup s.replayed, Elements(s.queue))
    BY <1>1, <1>7, <1>9, <1>10, <1>11 DEF Apart
  <1>14. s.replayed \subseteq 1..n
    <2>1. 1..high \subseteq 1..n
      OBVIOUS
    <2> QED BY <1>1, <2>1
  <1>15. Dropped(k.queue) # {} => n - low > QueueSize
    <2> SUFFICES ASSUME Dropped(k.queue) # {} PROVE n - low > QueueSize
      OBVIOUS
    <2>1. PICK d \in Dropped(k.queue) : d = high - QueueSize + 1 /\ d \in (low + 1)..high
      BY <1>2, <1>3
    <2> QED BY <2>1, Sizes
  <1> QED BY <1>1, <1>2, <1>3, <1>5, <1>6, <1>8, <1>12, <1>13, <1>14, <1>15 DEF Ordered

LEMMA HistoryIs ==
    ASSUME history \in Seq(Ids), Recent(history), Len(log) \in Nat
    PROVE  /\ Elements(history) = (Len(log) - Len(history) + 1)..Len(log)
           /\ Elements(history) \subseteq 1..Len(log) /\ Rising(history) /\ Len(history) \in Nat
  <1> PICK n \in Nat : n = Len(log)
    OBVIOUS
  <1>1. EndsAt(history, n)
    BY DEF Recent
  <1>2. history \in Seq(Int) /\ Len(history) \in Nat /\ DOMAIN history = 1..Len(history) /\ n \in Int
    <2>1. Ids \subseteq Int
      BY DEF Ids
    <2>2. history \in Seq(Int)
      BY <2>1, SeqMonotonic
    <2> QED BY <2>2, LenProperties
  <1>3. Elements(history) = (n - Len(history) + 1)..n
    BY <1>1, <1>2, EndsElements
  <1>4. \A i \in 1..Len(history) : history[i] \in Ids
    BY <1>2, ElementOfSeq
  <1>5. Elements(history) \subseteq 1..n
    <2>1. \A m \in Elements(history) : m \in Ids
      BY <1>2, <1>4 DEF Elements
    <2>2. \A m \in Elements(history) : m <= n
      BY <1>2, <1>3
    <2> QED BY <2>1, <2>2 DEF Ids
  <1>6. Rising(history)
    BY <1>1, <1>2 DEF EndsAt, Rising
  <1> QED BY <1>2, <1>3, <1>5, <1>6

\* What is replayed: all the client wants of the history, from its cursor on.
LEMMA ReplayIs ==
    ASSUME history \in Seq(Ids), Recent(history), Len(log) \in Nat, NEW c, cursor[c] \in 0..Len(log),
           DOMAIN log = 1..Len(log), NEW r,
           r = Only(HistoryAfter(cursor[c]), {i \in DOMAIN log : Wants(c, log[i].task)})
    PROVE  /\ r \in Seq(Ids) /\ Rising(r) /\ Elements(r) \subseteq Unseen(c)
           /\ \A i \in Elements(r) : Wants(c, log[i].task)
           /\ cursor[c] # 0 =>
                \A i \in Elements(history) \cap Unseen(c) : Wants(c, log[i].task) => i \in Elements(r)
           /\ cursor[c] = 0 => Elements(r) = {}
  <1> DEFINE W == {i \in DOMAIN log : Wants(c, log[i].task)}
  <1> PICK n \in Nat : n = Len(log)
    OBVIOUS
  <1> PICK low \in 0..n : low = cursor[c]
    OBVIOUS
  <1> PICK l \in Nat : l = Len(history)
    BY HistoryIs
  <1>1. /\ Elements(history) = (n - l + 1)..n
        /\ Elements(history) \subseteq 1..n /\ Rising(history) /\ Unseen(c) = (low + 1)..n
    BY HistoryIs DEF Unseen
  <1>2. Ids \in SUBSET Int
    BY DEF Ids
  <1> PICK h : h = HistoryAfter(low)
    OBVIOUS
  <1>3. /\ h \in Seq(Ids) /\ Rising(h)
        /\ Elements(h) = IF low = 0 THEN {} ELSE Elements(history) \cap ((low + 1)..n)
    <2>1. CASE low = 0
      <3>1. h = <<>>
        BY <2>1 DEF HistoryAfter
      <3>2. <<>> \in Seq(Ids) /\ Rising(<<>>) /\ Elements(<<>>) = {}
        BY EmptySeq DEF Rising, Elements
      <3> QED BY <2>1, <3>1, <3>2
    <2>2. CASE low # 0 /\ low \in Elements(history)
      <3>1. h = Only(history, (low + 1)..n)
        BY <2>2 DEF HistoryAfter
      <3>2. h \in Seq(Ids) /\ Rising(h) /\ Elements(h) = Elements(history) \cap ((low + 1)..n)
        BY <1>1, <1>2, <3>1, OnlyKeeps, SMTT(30)
      <3> QED BY <2>2, <3>2
    <2>3. CASE low # 0 /\ low \notin Elements(history)
      <3>1. h = history
        BY <2>3 DEF HistoryAfter
      <3>2. \A m \in (n - l + 1)..n : m \in (low + 1)..n
        BY <1>1, <2>3
      <3> QED BY <1>1, <2>3, <3>1, <3>2
    <2> QED BY <2>1, <2>2, <2>3
  <1>4. r \in Seq(Ids) /\ Rising(r) /\ Elements(r) = Elements(h) \cap W
    <2> HIDE DEF W
    <2>1. r = Only(h, W)
      BY DEF W
    <2>2. Only(h, W) \in Seq(Ids) /\ Rising(Only(h, W)) /\ Elements(Only(h, W)) = Elements(h) \cap W
      BY <1>2, <1>3, OnlyKeeps
    <2> QED BY <2>1, <2>2
  <1>5. \A i \in W : Wants(c, log[i].task)
    OBVIOUS
  <1>6. \A i \in 1..n : Wants(c, log[i].task) => i \in W
    OBVIOUS
  <1> HIDE DEF W
  <1>7. Elements(r) \subseteq Unseen(c)
    BY <1>1, <1>3, <1>4
  <1>8. low # 0 => \A i \in Elements(history) \cap Unseen(c) : Wants(c, log[i].task) => i \in Elements(r)
    BY <1>1, <1>3, <1>4, <1>6
  <1> QED BY <1>3, <1>4, <1>5, <1>7, <1>8

Opened(r) == [Closed EXCEPT !.open = TRUE, !.replay = r]

LEMMA OpenedIs ==
    ASSUME NEW r \in Seq(Ids), NEW s, s = Opened(r)
    PROVE  /\ s \in Connection /\ s.open = TRUE /\ s.replayed = {}
           /\ s.queue = <<>> /\ s.wire = <<>> /\ s.replay = r /\ Pending(s) = Elements(r)
           /\ Elements(s.wire) \cup Elements(s.replay) = Elements(r)
  <1>1. /\ s.open = TRUE /\ s.replay = r /\ s.replayed = {} /\ s.queue = <<>> /\ s.wire = <<>>
    BY DEF Closed, Opened
  <1>2. s \in Connection
    <2>1. <<>> \in Seq(Ids)
      BY EmptySeq
    <2> QED BY <2>1 DEF Closed, Opened, Connection, IdSeq
  <1>3. Elements(<<>>) = {}
    BY DEF Elements
  <1>4. Pending(s) = Elements(r)
    BY <1>1, <1>3 DEF Pending
  <1> QED BY <1>1, <1>2, <1>3, <1>4

LEMMA ConnectStep ==
    ASSUME NEW low \in Nat, NEW high \in Nat, NEW r \in Seq(Ids), Rising(r),
           Elements(r) \subseteq (low + 1)..high, NEW s, s = Opened(r)
    PROVE  Ordered(s, low, high)
  <1>1. /\ s.open = TRUE /\ s.replayed = {} /\ s.queue = <<>> /\ s.wire = <<>> /\ s.replay = r
        /\ Pending(s) = Elements(r)
    BY OpenedIs
  <1>2. Elements(<<>>) = {} /\ Rising(<<>>) /\ EndsAt(<<>>, high)
    BY DEF Elements, Rising, EndsAt
  <1> QED BY <1>1, <1>2 DEF Ordered, Apart

------------------------------------------------------------------------------
(* The steps of a client.                                                   *)

Puts(c, s) == conn' = [conn EXCEPT ![c] = s]

LEMMA TypeFields ==
    ASSUME TypeOK
    PROVE  /\ log \in Seq(Event) /\ Len(log) \in Nat /\ DOMAIN log = 1..Len(log)
           /\ history \in Seq(Ids) /\ Len(history) <= HistorySize
           /\ terminals \in Seq(Tasks) /\ Len(terminals) <= TerminalSize
           /\ conn \in [Clients -> Connection] /\ cursor \in [Clients -> 0..Len(log)]
           /\ \A c \in Clients : /\ conn[c] \in Connection /\ cursor[c] \in 0..Len(log)
                                 /\ Len(conn[c].queue) <= QueueSize /\ Len(conn[c].wire) <= WireSize
                                 /\ cursor[c] \in Nat
           /\ lost \in [Clients -> SUBSET Ids]
  <1>1. log \in Seq(Event) /\ Len(log) \in Nat /\ DOMAIN log = 1..Len(log)
    BY LenProperties DEF TypeOK
  <1> QED BY <1>1 DEF TypeOK, IdSeq

LEMMA PutAt ==
    ASSUME TypeOK, NEW c \in Clients, NEW s \in Connection, Puts(c, s)
    PROVE  /\ conn' \in [Clients -> Connection] /\ conn'[c] = s
           /\ \A d \in Clients : d # c => conn'[d] = conn[d]
  BY TypeFields DEF Puts

LEMMA SendReplayPuts ==
    ASSUME TypeOK, NEW c \in Clients, SendReplay(c)
    PROVE  \E s \in Connection :
              /\ Puts(c, s) /\ conn[c].replay # <<>>
              /\ s.open = conn[c].open /\ s.replay = Tail(conn[c].replay)
              /\ s.replayed = conn[c].replayed \cup {Head(conn[c].replay)}
              /\ s.queue = conn[c].queue /\ s.wire = Append(conn[c].wire, Head(conn[c].replay))
              /\ Len(s.wire) <= WireSize
  <1> PICK k \in Connection : k = conn[c]
    BY TypeFields
  <1> DEFINE s == [k EXCEPT !.replay = Tail(@), !.replayed = @ \cup {Head(k.replay)},
                            !.wire = Append(@, Head(k.replay))]
  <1>1. conn' = [conn EXCEPT ![c] = s] /\ k.replay # <<>> /\ Len(k.wire) < WireSize
    BY TypeFields DEF SendReplay
  <1>2. /\ s.open = k.open /\ s.replay = Tail(k.replay) /\ s.replayed = k.replayed \cup {Head(k.replay)}
        /\ s.queue = k.queue /\ s.wire = Append(k.wire, Head(k.replay))
    BY DEF Connection
  <1>3. /\ Head(k.replay) \in Ids /\ Tail(k.replay) \in Seq(Ids)
        /\ Append(k.wire, Head(k.replay)) \in Seq(Ids)
        /\ Len(Append(k.wire, Head(k.replay))) = Len(k.wire) + 1
    <2>1. Head(k.replay) \in Ids /\ Tail(k.replay) \in Seq(Ids)
      BY <1>1, Fields, Headed
    <2> QED BY <2>1, Fields, Appended
  <1>4. s \in Connection
    <2>1. k.replayed \cup {Head(k.replay)} \in SUBSET Ids
      BY <1>3, Fields
    <2> HIDE DEF Ids
    <2> QED BY <1>3, <2>1, Zenon DEF Connection, IdSeq
  <1>5. Len(s.wire) <= WireSize
    <2>1. Len(k.wire) \in Nat
      BY Fields, LenProperties
    <2> QED BY <1>1, <1>2, <1>3, <2>1, Sizes
  <1> HIDE DEF s
  <1> QED BY <1>1, <1>2, <1>4, <1>5 DEF Puts

LEMMA SendLivePuts ==
    ASSUME TypeOK, NEW c \in Clients, SendLive(c)
    PROVE  \E s \in Connection, skip \in BOOLEAN :
              /\ Puts(c, s) /\ conn[c].replay = <<>> /\ conn[c].queue # <<>>
              /\ skip <=> \/ Head(conn[c].queue) \in conn[c].replayed
                          \/ ~Wants(c, log[Head(conn[c].queue)].task)
              /\ s.open = conn[c].open /\ s.replay = conn[c].replay /\ s.replayed = conn[c].replayed
              /\ s.queue = Tail(conn[c].queue)
              /\ s.wire = IF skip THEN conn[c].wire ELSE Append(conn[c].wire, Head(conn[c].queue))
              /\ Len(s.wire) <= WireSize /\ Len(s.queue) <= QueueSize
  <1> PICK k \in Connection : k = conn[c]
    BY TypeFields
  <1> PICK id : id = Head(k.queue)
    OBVIOUS
  <1> PICK skip \in BOOLEAN : skip <=> id \in k.replayed \/ ~Wants(c, log[id].task)
    <2>1. (id \in k.replayed \/ ~Wants(c, log[id].task)) \in BOOLEAN
      OBVIOUS
    <2> QED BY <2>1, Zenon
  <1> DEFINE s == [k EXCEPT !.queue = Tail(@), !.wire = IF skip THEN @ ELSE Append(@, id)]
  <1>1. /\ conn' = [conn EXCEPT ![c] = s] /\ k.replay = <<>> /\ k.queue # <<>> /\ Len(k.wire) < WireSize
    BY TypeFields DEF SendLive
  <1>2. /\ s.open = k.open /\ s.replay = k.replay /\ s.replayed = k.replayed
        /\ s.queue = Tail(k.queue) /\ s.wire = IF skip THEN k.wire ELSE Append(k.wire, id)
    BY DEF Connection
  <1>3. /\ id \in Ids /\ Tail(k.queue) \in Seq(Ids) /\ Len(Tail(k.queue)) = Len(k.queue) - 1
        /\ Append(k.wire, id) \in Seq(Ids) /\ Len(Append(k.wire, id)) = Len(k.wire) + 1
    <2>1. id \in Ids /\ Tail(k.queue) \in Seq(Ids) /\ Len(Tail(k.queue)) = Len(k.queue) - 1
      BY <1>1, Fields, Headed
    <2> QED BY <2>1, Fields, Appended
  <1>4. s \in Connection
    <2> DEFINE w == IF skip THEN k.wire ELSE Append(k.wire, id)
    <2>1. w \in Seq(Ids)
      BY <1>3, Fields
    <2> HIDE DEF w, Ids
    <2>2. [k EXCEPT !.queue = Tail(@), !.wire = w] \in Connection
      BY <1>3, <2>1, Zenon DEF Connection, IdSeq
    <2> QED BY <2>2 DEF w
  <1>5. Len(s.wire) <= WireSize /\ Len(s.queue) <= QueueSize
    <2>1. Len(k.wire) \in Nat /\ Len(k.queue) \in Nat /\ Len(k.queue) <= QueueSize
      BY Fields, LenProperties, TypeFields
    <2>2. s.wire = k.wire \/ s.wire = Append(k.wire, id)
      BY <1>2
    <2>3. Len(s.wire) <= WireSize
      BY <1>1, <1>3, <2>1, <2>2, Sizes
    <2>4. Len(s.queue) <= QueueSize
      BY <1>2, <1>3, <2>1, Sizes
    <2> QED BY <2>3, <2>4
  <1> HIDE DEF s
  <1> QED BY <1>1, <1>2, <1>4, <1>5 DEF Puts

LEMMA ReceivePuts ==
    ASSUME TypeOK, NEW c \in Clients, Receive(c)
    PROVE  \E s \in Connection :
              /\ Puts(c, s) /\ conn[c].wire # <<>>
              /\ cursor' = [cursor EXCEPT ![c] = Head(conn[c].wire)]
              /\ s.open = conn[c].open /\ s.replay = conn[c].replay /\ s.replayed = conn[c].replayed
              /\ s.queue = conn[c].queue /\ s.wire = Tail(conn[c].wire)
              /\ Len(s.wire) <= WireSize
  <1> PICK k \in Connection : k = conn[c]
    BY TypeFields
  <1> DEFINE s == [k EXCEPT !.wire = Tail(@)]
  <1>1. conn' = [conn EXCEPT ![c] = s] /\ k.wire # <<>> /\ cursor' = [cursor EXCEPT ![c] = Head(k.wire)]
    BY TypeFields DEF Receive
  <1>2. /\ s.open = k.open /\ s.replay = k.replay /\ s.replayed = k.replayed
        /\ s.queue = k.queue /\ s.wire = Tail(k.wire)
    BY DEF Connection
  <1>3. Tail(k.wire) \in Seq(Ids) /\ Len(Tail(k.wire)) = Len(k.wire) - 1
    BY <1>1, Fields, Headed
  <1>4. s \in Connection
    <2> HIDE DEF Ids
    <2> QED BY <1>3, Zenon DEF Connection, IdSeq
  <1>5. Len(s.wire) <= WireSize
    <2>1. Len(k.wire) \in Nat /\ Len(k.wire) <= WireSize
      BY Fields, LenProperties, TypeFields
    <2> QED BY <1>2, <1>3, <2>1, Sizes
  <1> HIDE DEF s
  <1> QED BY <1>1, <1>2, <1>4, <1>5 DEF Puts

------------------------------------------------------------------------------
(* Type correctness, and the order of what each connection holds.           *)

Wanted(c, s) == \A i \in Elements(s.wire) \cup Elements(s.replay) : Wants(c, log[i].task)

LEMMA OrderStays ==
    ASSUME NEW d, InOrder(d), conn'[d] = conn[d], cursor'[d] = cursor[d], UNCHANGED log
    PROVE  InOrder(d)'
  <1> PICK k : k = conn[d]
    OBVIOUS
  <1>1. Ordered(k, cursor[d], Len(log)) /\ \A i \in Elements(k.wire) \cup Elements(k.replay) : Wants(d, log[i].task)
    BY DEF InOrder
  <1> QED BY <1>1 DEF InOrder

\* A step of one client.
LEMMA ClientTyped ==
    ASSUME Typed, NEW c \in Clients, NEW s \in Connection, Puts(c, s),
           UNCHANGED <<log, history, terminals, loop, table, missed>>, breaks' \in 0..MaxBreaks, UNCHANGED boots,
           NEW x \in 0..Len(log), cursor' = [cursor EXCEPT ![c] = x],
           lost' \in [Clients -> SUBSET Ids],
           Ordered(s, x, Len(log)), Wanted(c, s), Len(s.queue) <= QueueSize, Len(s.wire) <= WireSize
    PROVE  Typed'
  <1>1. TypeOK /\ Len(log) <= MaxEvents /\ Recent(history) /\ \A d \in Clients : InOrder(d)
    BY DEF Typed
  <1>2. /\ conn' \in [Clients -> Connection] /\ conn'[c] = s
        /\ \A d \in Clients : d # c => conn'[d] = conn[d]
    BY <1>1, PutAt
  <1>3. /\ cursor' \in [Clients -> 0..Len(log)] /\ cursor'[c] = x
        /\ \A d \in Clients : d # c => cursor'[d] = cursor[d]
    BY <1>1, TypeFields
  <1>4. ASSUME NEW d \in Clients PROVE Len(conn'[d].queue) <= QueueSize /\ Len(conn'[d].wire) <= WireSize
    BY <1>1, <1>2, TypeFields
  <1>5. TypeOK'
    BY <1>1, <1>2, <1>3, <1>4 DEF TypeOK
  <1>6. ASSUME NEW d \in Clients PROVE InOrder(d)'
    <2>1. CASE d = c
      BY <1>2, <1>3, <2>1 DEF InOrder, Wanted
    <2>2. CASE d # c
      BY <1>1, <1>2, <1>3, <2>2, OrderStays
    <2> QED BY <2>1, <2>2
  <1>7. Recent(history)'
    BY <1>1 DEF Recent
  <1> QED BY <1>1, <1>5, <1>6, <1>7 DEF Typed

LEMMA Kept ==
    ASSUME TypeOK, NEW c \in Clients
    PROVE  cursor = [cursor EXCEPT ![c] = cursor[c]] /\ breaks \in 0..MaxBreaks
  BY TypeFields DEF TypeOK

LEMMA ServeTyped == ASSUME Typed, NEW c \in Clients, Serve(c) PROVE Typed'
  <1>1. TypeOK /\ InOrder(c)
    BY DEF Typed
  <1> PICK k : k = conn[c]
    OBVIOUS
  <1> PICK low : low = cursor[c]
    OBVIOUS
  <1> PICK high : high = Len(log)
    OBVIOUS
  <1>2. /\ k \in Connection /\ low \in Nat /\ high \in Nat /\ low \in 0..high /\ Len(k.queue) <= QueueSize
        /\ Ordered(k, low, high)
        /\ \A i \in Elements(k.wire) \cup Elements(k.replay) : Wants(c, log[i].task)
    BY <1>1, TypeFields DEF InOrder
  <1>3. cursor = [cursor EXCEPT ![c] = low] /\ breaks \in 0..MaxBreaks /\ lost \in [Clients -> SUBSET Ids]
    BY <1>1, Kept, TypeFields
  <1>4. CASE SendReplay(c)
    <2>1. PICK s \in Connection :
              /\ Puts(c, s) /\ k.replay # <<>>
              /\ s.open = k.open /\ s.replay = Tail(k.replay)
              /\ s.replayed = k.replayed \cup {Head(k.replay)}
              /\ s.queue = k.queue /\ s.wire = Append(k.wire, Head(k.replay))
              /\ Len(s.wire) <= WireSize
      BY <1>1, <1>4, SendReplayPuts
    <2>2. Ordered(s, low, high) /\ Elements(s.wire) \cup Elements(s.replay) = Elements(k.wire) \cup Elements(k.replay)
      BY <1>2, <2>1, ReplayStep
    <2>3. UNCHANGED <<log, history, terminals, cursor, loop, table, breaks, boots, lost, missed>>
      BY <1>4 DEF SendReplay
    <2>4. Wanted(c, s)
      BY <1>2, <2>2 DEF Wanted
    <2>5. cursor' = [cursor EXCEPT ![c] = low]
      BY <1>3, <2>3
    <2> QED BY <1>2, <1>3, <2>1, <2>2, <2>3, <2>4, <2>5, ClientTyped
  <1>5. CASE SendLive(c)
    <2>1. PICK s \in Connection, skip \in BOOLEAN :
              /\ Puts(c, s) /\ k.replay = <<>> /\ k.queue # <<>>
              /\ skip <=> \/ Head(k.queue) \in k.replayed \/ ~Wants(c, log[Head(k.queue)].task)
              /\ s.open = k.open /\ s.replay = k.replay /\ s.replayed = k.replayed
              /\ s.queue = Tail(k.queue)
              /\ s.wire = IF skip THEN k.wire ELSE Append(k.wire, Head(k.queue))
              /\ Len(s.wire) <= WireSize /\ Len(s.queue) <= QueueSize
      BY <1>1, <1>5, SendLivePuts
    <2>2. /\ Ordered(s, low, high)
          /\ Elements(s.wire) = Elements(k.wire) \cup (IF skip THEN {} ELSE {Head(k.queue)})
      BY <1>2, <2>1, LiveStep
    <2>3. UNCHANGED <<log, history, terminals, cursor, loop, table, breaks, boots, lost, missed>>
      BY <1>5 DEF SendLive
    <2>4. Wanted(c, s)
      BY <1>2, <2>1, <2>2 DEF Wanted
    <2>5. cursor' = [cursor EXCEPT ![c] = low]
      BY <1>3, <2>3
    <2> QED BY <1>2, <1>3, <2>1, <2>2, <2>3, <2>4, <2>5, ClientTyped
  <1> QED BY <1>4, <1>5 DEF Serve

LEMMA ReceiveTyped == ASSUME Typed, NEW c \in Clients, Receive(c) PROVE Typed'
  <1>1. TypeOK /\ InOrder(c)
    BY DEF Typed
  <1> PICK k : k = conn[c]
    OBVIOUS
  <1> PICK low : low = cursor[c]
    OBVIOUS
  <1> PICK high : high = Len(log)
    OBVIOUS
  <1>2. /\ k \in Connection /\ low \in Nat /\ high \in Nat /\ low \in 0..high /\ Len(k.queue) <= QueueSize
        /\ Ordered(k, low, high)
        /\ \A i \in Elements(k.wire) \cup Elements(k.replay) : Wants(c, log[i].task)
    BY <1>1, TypeFields DEF InOrder
  <1>3. breaks \in 0..MaxBreaks /\ lost \in [Clients -> SUBSET Ids]
    BY <1>1, Kept, TypeFields
  <1>4. PICK s \in Connection :
              /\ Puts(c, s) /\ k.wire # <<>> /\ cursor' = [cursor EXCEPT ![c] = Head(k.wire)]
              /\ s.open = k.open /\ s.replay = k.replay /\ s.replayed = k.replayed
              /\ s.queue = k.queue /\ s.wire = Tail(k.wire) /\ Len(s.wire) <= WireSize
    BY <1>1, ReceivePuts
  <1> PICK x : x = Head(k.wire)
    OBVIOUS
  <1>5. x \in (low + 1)..high /\ Ordered(s, x, high) /\ Elements(s.wire) \subseteq Elements(k.wire)
    BY <1>2, <1>4, ReceiveStep
  <1>6. UNCHANGED <<log, history, terminals, loop, table, breaks, boots, lost, missed>>
    BY DEF Receive
  <1>7. Wanted(c, s)
    BY <1>2, <1>4, <1>5 DEF Wanted
  <1>8. x \in 0..high
    BY <1>2, <1>5
  <1> QED BY <1>2, <1>3, <1>4, <1>5, <1>6, <1>7, <1>8, ClientTyped

LEMMA BreakTyped == ASSUME Typed, NEW c \in Clients, Break(c) PROVE Typed'
  <1>1. TypeOK
    BY DEF Typed
  <1>2. /\ Puts(c, Closed) /\ UNCHANGED <<log, history, terminals, cursor, loop, table, boots, lost, missed>>
        /\ breaks' = breaks + 1 /\ breaks < MaxBreaks
    BY DEF Break, Puts
  <1>3. /\ cursor = [cursor EXCEPT ![c] = cursor[c]] /\ breaks \in 0..MaxBreaks
        /\ lost \in [Clients -> SUBSET Ids] /\ cursor[c] \in 0..Len(log) /\ cursor[c] \in Nat
        /\ Len(log) \in Nat
    BY <1>1, Kept, TypeFields
  <1>4. breaks' \in 0..MaxBreaks
    BY <1>2, <1>3, Sizes
  <1>5. Wanted(c, Closed)
    BY ClosedIs DEF Wanted, Elements
  <1>6. Len(Closed.queue) <= QueueSize /\ Len(Closed.wire) <= WireSize
    <2>1. Len(<<>>) = 0
      BY EmptySeq
    <2> QED BY <2>1, ClosedIs, Sizes
  <1>7. cursor' = [cursor EXCEPT ![c] = cursor[c]] /\ Closed \in Connection /\ Ordered(Closed, cursor[c], Len(log))
    BY <1>2, <1>3, ClosedIs, ClosedOrdered
  <1>8. lost' \in [Clients -> SUBSET Ids]
    BY <1>2, <1>3
  <1> QED BY <1>2, <1>3, <1>4, <1>5, <1>6, <1>7, <1>8, ClientTyped

LEMMA ConnectPuts ==
    ASSUME Typed, NEW c \in Clients, Connect(c)
    PROVE  \E s \in Connection :
              /\ Puts(c, s) /\ Ordered(s, cursor[c], Len(log)) /\ Wanted(c, s)
              /\ Len(s.queue) <= QueueSize /\ Len(s.wire) <= WireSize
              /\ cursor[c] # 0 =>
                    \A i \in Elements(history) \cap Unseen(c) : Wants(c, log[i].task) => i \in Pending(s)
              /\ cursor[c] = 0 => Pending(s) = {}
  <1>1. TypeOK /\ Recent(history)
    BY DEF Typed
  <1> PICK r : r = Only(HistoryAfter(cursor[c]), {i \in DOMAIN log : Wants(c, log[i].task)})
    OBVIOUS
  <1> PICK s : s = Opened(r)
    OBVIOUS
  <1>2. Puts(c, s)
    BY DEF Connect, Puts, Opened
  <1>3. /\ history \in Seq(Ids) /\ Len(log) \in Nat /\ cursor[c] \in 0..Len(log) /\ cursor[c] \in Nat
        /\ DOMAIN log = 1..Len(log)
    BY <1>1, TypeFields
  <1>4. /\ r \in Seq(Ids) /\ Rising(r) /\ Elements(r) \subseteq Unseen(c)
        /\ \A i \in Elements(r) : Wants(c, log[i].task)
        /\ cursor[c] # 0 =>
                \A i \in Elements(history) \cap Unseen(c) : Wants(c, log[i].task) => i \in Elements(r)
        /\ cursor[c] = 0 => Elements(r) = {}
    BY <1>1, <1>3, ReplayIs
  <1>5. /\ s \in Connection /\ Ordered(s, cursor[c], Len(log)) /\ s.open = TRUE
        /\ s.queue = <<>> /\ s.wire = <<>> /\ Pending(s) = Elements(r)
        /\ Elements(s.wire) \cup Elements(s.replay) = Elements(r)
    <2> PICK low : low = cursor[c]
      OBVIOUS
    <2> PICK high : high = Len(log)
      OBVIOUS
    <2>1. low \in Nat /\ high \in Nat /\ Elements(r) \subseteq (low + 1)..high
      BY <1>3, <1>4 DEF Unseen
    <2>2. Ordered(s, low, high)
      BY <1>4, <2>1, ConnectStep
    <2>3. /\ s \in Connection /\ s.open = TRUE
          /\ s.queue = <<>> /\ s.wire = <<>> /\ Pending(s) = Elements(r)
          /\ Elements(s.wire) \cup Elements(s.replay) = Elements(r)
      BY <1>4, OpenedIs
    <2> QED BY <2>2, <2>3
  <1>6. Wanted(c, s)
    BY <1>4, <1>5 DEF Wanted
  <1>7. Len(s.queue) <= QueueSize /\ Len(s.wire) <= WireSize
    <2>1. Len(<<>>) = 0
      BY EmptySeq
    <2> QED BY <2>1, <1>5, Sizes
  <1> QED BY <1>2, <1>4, <1>5, <1>6, <1>7

\* What a connection can no longer get is before the history.
LEMMA UnseenIds ==
    ASSUME Typed, NEW c \in Clients
    PROVE  Unseen(c) \subseteq Ids
  <1>1. TypeOK /\ Len(log) <= MaxEvents
    BY DEF Typed
  <1>2. Len(log) \in Nat /\ cursor[c] \in Nat
    BY <1>1, TypeFields
  <1> QED BY <1>1, <1>2, Sizes DEF Unseen, Ids

LEMMA ConnectTyped == ASSUME Typed, NEW c \in Clients, Connect(c) PROVE Typed'
  <1>1. TypeOK
    BY DEF Typed
  <1>2. PICK s \in Connection :
              /\ Puts(c, s) /\ Ordered(s, cursor[c], Len(log)) /\ Wanted(c, s)
              /\ Len(s.queue) <= QueueSize /\ Len(s.wire) <= WireSize
    BY ConnectPuts
  <1>3. /\ UNCHANGED <<log, history, terminals, cursor, loop, table, breaks, boots, missed>>
        /\ lost' = [lost EXCEPT ![c] = @ \cup (Unseen(c) \ Elements(history))]
    BY DEF Connect
  <1>4. /\ cursor = [cursor EXCEPT ![c] = cursor[c]] /\ breaks \in 0..MaxBreaks
        /\ lost \in [Clients -> SUBSET Ids] /\ cursor[c] \in 0..Len(log)
    BY <1>1, Kept, TypeFields
  <1>5. lost' \in [Clients -> SUBSET Ids]
    <2>1. lost[c] \cup (Unseen(c) \ Elements(history)) \in SUBSET Ids
      BY <1>4, UnseenIds
    <2> QED BY <1>3, <1>4, <2>1
  <1>6. cursor' = [cursor EXCEPT ![c] = cursor[c]] /\ breaks' \in 0..MaxBreaks
    BY <1>3, <1>4
  <1> QED BY <1>2, <1>3, <1>4, <1>5, <1>6, ClientTyped

------------------------------------------------------------------------------
(* The steps of the stream itself.                                          *)

\* What a new event does to each connection.
LEMMA PublishPuts ==
    ASSUME Typed, NEW e \in Event, Publish(e), NEW c \in Clients
    PROVE  IF conn[c].open
           THEN /\ conn'[c] \in Connection /\ conn'[c].open = conn[c].open
                /\ conn'[c].replay = conn[c].replay /\ conn'[c].replayed = conn[c].replayed
                /\ conn'[c].queue = Put(conn[c].queue, Len(log) + 1)
                /\ conn'[c].wire = conn[c].wire
                /\ lost'[c] = lost[c] \cup Dropped(conn[c].queue)
           ELSE conn'[c] = conn[c] /\ lost'[c] = lost[c]
  <1>1. TypeOK /\ InOrder(c) /\ Len(log) \in Nat /\ Len(log) < MaxEvents
    BY TypeFields DEF Typed, Publish
  <1> PICK k \in Connection : k = conn[c]
    BY <1>1, TypeFields
  <1> PICK n \in Nat : n = Len(log)
    BY <1>1
  <1> DEFINE s == [k EXCEPT !.queue = Put(@, n + 1)]
  <1>2. /\ conn'[c] = IF k.open THEN s ELSE k
        /\ lost'[c] = IF k.open THEN lost[c] \cup Dropped(k.queue) ELSE lost[c]
    BY DEF Publish
  <1>3. /\ s.open = k.open /\ s.replay = k.replay /\ s.replayed = k.replayed
        /\ s.queue = Put(k.queue, n + 1) /\ s.wire = k.wire
    BY DEF Connection
  <1>4. n + 1 \in Ids
    BY <1>1, Sizes DEF Ids
  <1>5. Put(k.queue, n + 1) \in Seq(Ids)
    <2>1. k.queue \in Seq(Ids) /\ EndsAt(k.queue, n) /\ Len(k.queue) <= QueueSize
      BY <1>1, Fields, TypeFields DEF InOrder, Ordered
    <2> QED BY <1>4, <2>1, PutIs
  <1>6. s \in Connection
    <2> HIDE DEF Ids
    <2> QED BY <1>5, Zenon DEF Connection, IdSeq
  <1> HIDE DEF s
  <1> QED BY <1>2, <1>3, <1>6

LEMMA PublishOrder ==
    ASSUME Typed, NEW e \in Event, Publish(e), NEW c \in Clients
    PROVE  /\ conn'[c] \in Connection /\ Ordered(conn'[c], cursor[c], Len(log) + 1)
           /\ Len(conn'[c].queue) <= QueueSize /\ Len(conn'[c].wire) <= WireSize
           /\ conn'[c].open = conn[c].open
           /\ conn'[c].wire = conn[c].wire /\ conn'[c].replay = conn[c].replay
           /\ Pending(conn[c]) \subseteq Pending(conn'[c]) \cup lost'[c]
           /\ Pending(conn'[c]) \subseteq Pending(conn[c]) \cup {Len(log) + 1}
           /\ conn[c].open => Len(log) + 1 \in Pending(conn'[c])
           /\ lost[c] \subseteq lost'[c] /\ lost'[c] \ lost[c] \subseteq Unseen(c)
           /\ lost'[c] # lost[c] => Len(log) + 1 - cursor[c] > QueueSize
  <1>1. TypeOK /\ InOrder(c) /\ Len(log) < MaxEvents
    BY DEF Typed, Publish
  <1> PICK k \in Connection : k = conn[c]
    BY <1>1, TypeFields
  <1> PICK s : s = conn'[c]
    OBVIOUS
  <1> PICK low \in Nat : low = cursor[c]
    BY <1>1, TypeFields
  <1> PICK high \in Nat : high = Len(log)
    BY <1>1, TypeFields
  <1>2. /\ Ordered(k, low, high) /\ low <= high /\ Len(k.queue) <= QueueSize /\ Len(k.wire) <= WireSize
        /\ Unseen(c) = (low + 1)..high
    BY <1>1, TypeFields DEF InOrder, Unseen
  <1>3. high + 1 \in Ids
    BY <1>1, Sizes DEF Ids
  <1>4. CASE k.open
    <2>1. /\ s \in Connection /\ s.open = k.open /\ s.replay = k.replay /\ s.replayed = k.replayed
          /\ s.queue = Put(k.queue, high + 1) /\ s.wire = k.wire
          /\ lost'[c] = lost[c] \cup Dropped(k.queue)
      BY <1>4, PublishPuts
    <2>2. /\ Ordered(s, low, high + 1) /\ Len(s.queue) <= QueueSize
          /\ Pending(k) \subseteq Pending(s) \cup Dropped(k.queue) /\ high + 1 \in Pending(s)
          /\ Pending(s) \subseteq Pending(k) \cup {high + 1}
          /\ Dropped(k.queue) \subseteq (low + 1)..high
          /\ Dropped(k.queue) # {} => high + 1 - low > QueueSize
      BY <1>2, <1>3, <1>4, <2>1, PublishStep
    <2>3. lost'[c] # lost[c] => Dropped(k.queue) # {}
      BY <2>1
    <2> QED BY <1>2, <2>1, <2>2, <2>3
  <1>5. CASE ~k.open
    <2>1. s = k /\ lost'[c] = lost[c]
      BY <1>5, PublishPuts
    <2>2. k = Closed /\ Pending(k) = {}
      BY <1>2, <1>5, ClosedIs DEF Ordered
    <2>3. Ordered(s, low, high + 1)
      BY <2>1, <2>2, ClosedOrdered
    <2> QED BY <1>2, <1>5, <2>1, <2>2, <2>3
  <1> QED BY <1>4, <1>5

LEMMA PutTyped ==
    ASSUME NEW q \in Seq(Ids), NEW id \in Ids
    PROVE  /\ Put(q, id) \in Seq(Ids) /\ Len(Put(q, id)) <= QueueSize
           /\ Dropped(q) \subseteq Ids
  <1>1. QueueSize \in Nat /\ QueueSize # 0
    BY Sizes
  <1>2. Append(q, id) \in Seq(Ids)
    BY AppendProperties
  <1> PICK a : a = Append(q, id)
    OBVIOUS
  <1>3. Len(a) \in Nat
    BY <1>2, LenProperties
  <1>4. LastOf(a, QueueSize) \in Seq(Ids) /\ Len(LastOf(a, QueueSize)) = IF Len(a) <= QueueSize THEN Len(a) ELSE QueueSize
    BY <1>1, <1>2, LastOfIs
  <1>5. Len(LastOf(a, QueueSize)) <= QueueSize
    BY <1>1, <1>3, <1>4
  <1>6. Dropped(q) \subseteq Ids
    <2>1. CASE Len(q) = QueueSize
      <3>1. q # <<>>
        BY <1>1, <2>1
      <3> QED BY <3>1, Headed DEF Dropped
    <2>2. CASE Len(q) # QueueSize
      BY <2>2 DEF Dropped
    <2> QED BY <2>1, <2>2
  <1> QED BY <1>4, <1>5, <1>6 DEF Put

LEMMA LoopFields ==
    ASSUME NEW k \in Loop
    PROVE  k.alive \in BOOLEAN /\ k.queue \in Seq(Ids) /\ k.event \in Ids \cup {0}
  BY DEF Loop, IdSeq

LEMMA FreshIs == Fresh \in Loop /\ Fresh.queue = <<>> /\ [Fresh EXCEPT !.alive = FALSE] \in Loop
                 /\ [Fresh EXCEPT !.alive = FALSE].queue = <<>>
  <1>1. <<>> \in Seq(Ids)
    BY EmptySeq
  <1> QED BY <1>1 DEF Fresh, Loop, IdSeq

LEMMA ElementsTyped == ASSUME NEW S, NEW s \in Seq(S) PROVE Elements(s) \subseteq S
  <1>1. DOMAIN s = 1..Len(s)
    BY LenProperties
  <1> QED BY <1>1, ElementOfSeq DEF Elements

LEMMA LoopTypes ==
    ASSUME TypeOK
    PROVE  /\ loop \in [Loops -> Loop] /\ missed \in [Loops -> SUBSET Ids]
           /\ table \in [Loops -> Seq(Ids)] /\ breaks \in 0..MaxBreaks /\ boots \subseteq 0..Len(log)
           /\ \A l \in Loops : loop[l] \in Loop /\ Len(loop[l].queue) <= QueueSize
  BY DEF TypeOK, IdSeq

LEMMA PublishLoops ==
    ASSUME TypeOK, NEW e \in Event, Publish(e)
    PROVE  /\ loop' \in [Loops -> Loop] /\ missed' \in [Loops -> SUBSET Ids]
           /\ \A l \in Loops : Len(loop'[l].queue) <= QueueSize
  <1>1. Len(log) \in Nat /\ Len(log) < MaxEvents
    BY TypeFields DEF Publish
  <1> PICK id : id = Len(log) + 1
    OBVIOUS
  <1>2. id \in Ids
    BY <1>1, Sizes DEF Ids
  <1>3. /\ loop' = [l \in Loops |-> IF loop[l].alive THEN [loop[l] EXCEPT !.queue = Put(@, id)] ELSE loop[l]]
        /\ missed' = [l \in Loops |-> IF loop[l].alive THEN missed[l] \cup Dropped(loop[l].queue)
                                      ELSE missed[l] \cup {id}]
    BY DEF Publish
  <1>4. ASSUME NEW l \in Loops
        PROVE  /\ loop'[l] \in Loop /\ missed'[l] \in SUBSET Ids /\ Len(loop'[l].queue) <= QueueSize
    <2> PICK k \in Loop : k = loop[l]
      BY LoopTypes
    <2> PICK q \in Seq(Ids) : q = Put(k.queue, id)
      BY <1>2, LoopFields, PutTyped
    <2>1. Len(q) <= QueueSize /\ Dropped(k.queue) \subseteq Ids
      BY <1>2, LoopFields, PutTyped
    <2>2. [k EXCEPT !.queue = q] \in Loop /\ [k EXCEPT !.queue = q].queue = q
      <3> HIDE DEF Ids
      <3> QED BY Zenon DEF Loop, IdSeq
    <2>3. loop'[l] = IF k.alive THEN [k EXCEPT !.queue = q] ELSE k
      BY <1>3
    <2>4. Len(k.queue) <= QueueSize /\ missed[l] \subseteq Ids
      BY LoopTypes
    <2>5. missed'[l] = IF k.alive THEN missed[l] \cup Dropped(k.queue) ELSE missed[l] \cup {id}
      BY <1>3
    <2>6. missed'[l] \in SUBSET Ids
      BY <1>2, <2>1, <2>4, <2>5
    <2> QED BY <2>1, <2>2, <2>3, <2>4, <2>6
  <1> QED BY <1>3, <1>4

LEMMA RememberTyped ==
    ASSUME TypeOK, NEW e \in Event
    PROVE  Remember(e) \in Seq(Tasks) /\ Len(Remember(e)) <= TerminalSize
  <1>1. TerminalSize \in Nat /\ terminals \in Seq(Tasks) /\ Len(terminals) <= TerminalSize
    BY Sizes, TypeFields
  <1>2. e.task \in Tasks
    BY StreamAssumption DEF Event
  <1> PICK a : a = Append(terminals, e.task)
    OBVIOUS
  <1>3. a \in Seq(Tasks) /\ Len(a) \in Nat
    BY <1>1, <1>2, Appended, LenProperties
  <1>4. /\ LastOf(a, TerminalSize) \in Seq(Tasks)
        /\ Len(LastOf(a, TerminalSize)) = IF Len(a) <= TerminalSize THEN Len(a) ELSE TerminalSize
    BY <1>1, <1>3, LastOfIs
  <1>5. Len(LastOf(a, TerminalSize)) <= TerminalSize
    BY <1>1, <1>3, <1>4
  <1> QED BY <1>1, <1>4, <1>5 DEF Remember

LEMMA PublishLog ==
    ASSUME Typed, NEW e \in Event, Publish(e)
    PROVE  /\ log' = Append(log, e) /\ log' \in Seq(Event) /\ Len(log') = Len(log) + 1
           /\ \A i \in 1..Len(log) : log'[i] = log[i]
           /\ log'[Len(log) + 1] = e /\ DOMAIN log' = 1..(Len(log) + 1) /\ Len(log') <= MaxEvents
           /\ history' \in Seq(Ids) /\ Len(history') <= HistorySize /\ Recent(history)'
           /\ Len(history') = IF Len(history) = HistorySize THEN HistorySize ELSE Len(history) + 1
  <1>1. /\ TypeOK /\ Len(log) <= MaxEvents /\ Recent(history) /\ log \in Seq(Event)
        /\ Len(log) \in Nat /\ history \in Seq(Ids) /\ Len(history) <= HistorySize
    BY TypeFields DEF Typed
  <1>2. /\ log' = Append(log, e) /\ Len(log) < MaxEvents
        /\ history' = LastOf(Append(history, Len(log) + 1), HistorySize)
    BY DEF Publish
  <1>3. /\ log' \in Seq(Event) /\ Len(log') = Len(log) + 1 /\ \A i \in 1..Len(log) : log'[i] = log[i]
        /\ log'[Len(log) + 1] = e
    BY <1>1, <1>2, AppendProperties
  <1>4. DOMAIN log' = 1..(Len(log) + 1) /\ Len(log') <= MaxEvents
    BY <1>1, <1>2, <1>3, LenProperties, Sizes
  <1> PICK n \in Nat : n = Len(log)
    BY <1>1
  <1> PICK size \in Nat \ {0} : size = HistorySize
    BY Sizes
  <1>5. n + 1 \in Ids
    BY <1>2, Sizes DEF Ids
  <1>6. /\ history' \in Seq(Ids)
        /\ Len(history') = IF Len(history) = size THEN size ELSE Len(history) + 1
        /\ EndsAt(history', n + 1)
    <2>1. EndsAt(history, n) /\ Len(history) <= size /\ history' = LastOf(Append(history, n + 1), size)
      BY <1>1, <1>2 DEF Recent
    <2> QED BY <1>1, <1>5, <2>1, LastEnds
  <1>7. Recent(history)'
    BY <1>3, <1>6 DEF Recent
  <1>8. Len(history') <= size
    <2>1. Len(history) \in Nat /\ Len(history) <= size
      BY <1>1, LenProperties
    <2>2. \A l, m \in Nat : l <= m /\ l # m => l + 1 <= m
      OBVIOUS
    <2>3. CASE Len(history) = size
      BY <1>6, <2>3
    <2>4. CASE Len(history) # size
      BY <1>6, <2>1, <2>2, <2>4
    <2> QED BY <2>3, <2>4
  <1> QED BY <1>2, <1>3, <1>4, <1>6, <1>7, <1>8

LEMMA PublishTyped == ASSUME Typed, NEW e \in Event, Publish(e) PROVE Typed'
  <1>1. TypeOK /\ \A c \in Clients : InOrder(c)
    BY DEF Typed
  <1>2. /\ log' \in Seq(Event) /\ Len(log') = Len(log) + 1
        /\ \A i \in 1..Len(log) : log'[i] = log[i]
        /\ Len(log') <= MaxEvents
        /\ history' \in Seq(Ids) /\ Len(history') <= HistorySize /\ Recent(history)'
    BY PublishLog
  <1>3. /\ loop' \in [Loops -> Loop] /\ missed' \in [Loops -> SUBSET Ids]
        /\ \A l \in Loops : Len(loop'[l].queue) <= QueueSize
    BY <1>1, PublishLoops
  <1>4. /\ terminals' = Remember(e) /\ UNCHANGED <<cursor, table, breaks, boots>>
        /\ DOMAIN conn' = Clients /\ DOMAIN lost' = Clients
        /\ conn' = [c \in Clients |-> conn'[c]] /\ lost' = [c \in Clients |-> lost'[c]]
    BY DEF Publish
  <1>5. terminals' \in Seq(Tasks) /\ Len(terminals') <= TerminalSize
    BY <1>1, <1>4, RememberTyped
  <1>6. \A c \in Clients :
           /\ conn'[c] \in Connection /\ Ordered(conn'[c], cursor[c], Len(log) + 1)
           /\ Len(conn'[c].queue) <= QueueSize /\ Len(conn'[c].wire) <= WireSize
           /\ conn'[c].wire = conn[c].wire /\ conn'[c].replay = conn[c].replay
           /\ lost'[c] \ lost[c] \subseteq Unseen(c)
    BY PublishOrder
  <1>7. conn' \in [Clients -> Connection]
    BY <1>4, <1>6
  <1>8. lost' \in [Clients -> SUBSET Ids]
    <2>1. \A c \in Clients : lost'[c] \in SUBSET Ids
      BY <1>1, <1>6, TypeFields, UnseenIds
    <2> QED BY <1>4, <2>1
  <1>9. cursor' \in [Clients -> 0..Len(log')]
    <2>1. cursor \in [Clients -> 0..Len(log)] /\ Len(log) \in Nat
      BY <1>1, TypeFields
    <2>2. 0..Len(log) \subseteq 0..(Len(log) + 1)
      BY <2>1
    <2> QED BY <1>2, <1>4, <2>1, <2>2
  <1>10. table' \in [Loops -> IdSeq] /\ breaks' \in 0..MaxBreaks
    BY <1>1, <1>4 DEF TypeOK
  <1>11. boots' \subseteq 0..Len(log')
    <2>1. boots \subseteq 0..Len(log) /\ Len(log) \in Nat
      BY <1>1, TypeFields, LoopTypes
    <2>2. 0..Len(log) \subseteq 0..(Len(log) + 1)
      BY <2>1
    <2> QED BY <1>2, <1>4, <2>1, <2>2
  <1>12. TypeOK'
    BY <1>2, <1>3, <1>5, <1>6, <1>7, <1>8, <1>9, <1>10, <1>11 DEF TypeOK, IdSeq
  <1>13. ASSUME NEW c \in Clients PROVE InOrder(c)'
    <2>1. Ordered(conn'[c], cursor'[c], Len(log'))
      BY <1>2, <1>4, <1>6
    <2>2. Elements(conn'[c].wire) \cup Elements(conn'[c].replay) = Elements(conn[c].wire) \cup Elements(conn[c].replay)
      BY <1>6
    <2>3. \A i \in Elements(conn[c].wire) \cup Elements(conn[c].replay) : i \in 1..Len(log) /\ Wants(c, log[i].task)
      <3>1. \A i \in Elements(conn[c].wire) \cup Elements(conn[c].replay) :
              i \in (cursor[c] + 1)..Len(log) /\ Wants(c, log[i].task)
        BY <1>1 DEF InOrder, Ordered, Pending
      <3>2. cursor[c] \in Nat /\ Len(log) \in Nat
        BY <1>1, TypeFields
      <3> QED BY <3>1, <3>2
    <2>4. \A i \in Elements(conn'[c].wire) \cup Elements(conn'[c].replay) : Wants(c, log'[i].task)
      BY <1>2, <2>2, <2>3
    <2> QED BY <2>1, <2>4 DEF InOrder
  <1> QED BY <1>2, <1>12, <1>13 DEF Typed

\* A step of one bridge.
LEMMA BridgeTyped ==
    ASSUME Typed, NEW l \in Loops, NEW k \in Loop, loop' = [loop EXCEPT ![l] = k],
           Len(k.queue) <= QueueSize, UNCHANGED <<log, history, terminals, conn, cursor, boots, lost>>,
           table' \in [Loops -> Seq(Ids)], missed' \in [Loops -> SUBSET Ids], breaks' \in 0..MaxBreaks
    PROVE  Typed'
  <1>1. TypeOK /\ Len(log) <= MaxEvents /\ Recent(history) /\ \A c \in Clients : InOrder(c)
    BY DEF Typed
  <1>2. /\ loop' \in [Loops -> Loop] /\ \A m \in Loops : Len(loop'[m].queue) <= QueueSize
    BY <1>1, LoopTypes
  <1>3. TypeOK'
    BY <1>1, <1>2 DEF TypeOK, IdSeq
  <1>4. \A c \in Clients : InOrder(c)'
    BY <1>1, OrderStays
  <1>5. Recent(history)'
    BY <1>1 DEF Recent
  <1> QED BY <1>1, <1>3, <1>4, <1>5 DEF Typed

LEMMA TakeTyped == ASSUME Typed, NEW l \in Loops, Take(l) PROVE Typed'
  <1>1. TypeOK
    BY DEF Typed
  <1> PICK k \in Loop : k = loop[l]
    BY <1>1, LoopTypes
  <1> PICK e : e = IF Writes(l, Head(k.queue)) THEN Head(k.queue) ELSE 0
    OBVIOUS
  <1> DEFINE s == [k EXCEPT !.queue = Tail(@), !.event = e]
  <1>2. /\ loop' = [loop EXCEPT ![l] = s] /\ k.queue # <<>>
        /\ UNCHANGED <<log, history, terminals, conn, cursor, table, breaks, boots, lost, missed>>
    BY <1>1, LoopTypes DEF Take
  <1>3. Head(k.queue) \in Ids /\ Tail(k.queue) \in Seq(Ids) /\ Len(Tail(k.queue)) = Len(k.queue) - 1
    BY <1>2, LoopFields, Headed
  <1>4. e \in Ids \cup {0}
    BY <1>3
  <1>5. s \in Loop /\ s.queue = Tail(k.queue)
    <2> HIDE DEF Ids
    <2> QED BY <1>3, <1>4, Zenon DEF Loop, IdSeq
  <1>6. Len(s.queue) <= QueueSize
    <2>1. Len(k.queue) \in Nat /\ Len(k.queue) <= QueueSize
      BY <1>1, LoopFields, LoopTypes, LenProperties
    <2> QED BY <1>3, <1>5, <2>1, Sizes
  <1> HIDE DEF s
  <1>7. /\ table' \in [Loops -> Seq(Ids)] /\ missed' \in [Loops -> SUBSET Ids] /\ breaks' \in 0..MaxBreaks
    BY <1>1, <1>2, LoopTypes
  <1> QED BY <1>2, <1>5, <1>6, <1>7, BridgeTyped

LEMMA WriteTyped == ASSUME Typed, NEW l \in Loops, Write(l) PROVE Typed'
  <1>1. TypeOK
    BY DEF Typed
  <1> PICK k \in Loop : k = loop[l]
    BY <1>1, LoopTypes
  <1> DEFINE s == [k EXCEPT !.event = 0]
  <1>2. /\ loop' = [loop EXCEPT ![l] = s] /\ k.event # 0
        /\ table' = [table EXCEPT ![l] = Append(@, k.event)]
        /\ UNCHANGED <<log, history, terminals, conn, cursor, breaks, boots, lost, missed>>
    BY <1>1, LoopTypes DEF Write
  <1>3. s \in Loop /\ s.queue = k.queue
    <2>1. 0 \in Ids \cup {0}
      OBVIOUS
    <2> HIDE DEF Ids
    <2> QED BY <2>1, Zenon DEF Loop, IdSeq
  <1>4. Len(s.queue) <= QueueSize
    BY <1>1, <1>3, LoopTypes
  <1> HIDE DEF s
  <1>5. table' \in [Loops -> Seq(Ids)]
    <2>1. table \in [Loops -> Seq(Ids)] /\ k.event \in Ids
      BY <1>1, <1>2, LoopTypes, LoopFields
    <2>2. Append(table[l], k.event) \in Seq(Ids)
      BY <2>1, AppendProperties
    <2> QED BY <1>2, <2>1, <2>2
  <1>6. missed' \in [Loops -> SUBSET Ids] /\ breaks' \in 0..MaxBreaks
    BY <1>1, <1>2, LoopTypes
  <1> QED BY <1>2, <1>3, <1>4, <1>5, <1>6, BridgeTyped

LEMMA RaiseTyped == ASSUME Typed, NEW l \in Loops, Raise(l) PROVE Typed'
  <1>1. TypeOK
    BY DEF Typed
  <1> PICK k \in Loop : k = loop[l]
    BY <1>1, LoopTypes
  <1> DEFINE s == IF l = "sync" THEN [Fresh EXCEPT !.alive = FALSE] ELSE [k EXCEPT !.event = 0]
  <1>2. /\ loop' = [loop EXCEPT ![l] = s] /\ k.event # 0 /\ breaks' = breaks + 1 /\ breaks < MaxBreaks
        /\ missed' = [missed EXCEPT ![l] = @ \cup {k.event} \cup (IF l = "sync" THEN Elements(k.queue) ELSE {})]
        /\ UNCHANGED <<log, history, terminals, conn, cursor, table, boots, lost>>
    BY <1>1, LoopTypes DEF Raise
  <1>3. s \in Loop /\ s.queue \in {<<>>, k.queue}
    <2>1. 0 \in Ids \cup {0}
      OBVIOUS
    <2>2. [k EXCEPT !.event = 0] \in Loop /\ [k EXCEPT !.event = 0].queue = k.queue
      <3> HIDE DEF Ids
      <3> QED BY <2>1, Zenon DEF Loop, IdSeq
    <2> QED BY <2>2, FreshIs
  <1>4. Len(s.queue) <= QueueSize
    <2>1. Len(<<>>) = 0
      BY EmptySeq
    <2> QED BY <1>1, <1>3, <2>1, LoopTypes, Sizes
  <1> HIDE DEF s
  <1>5. missed' \in [Loops -> SUBSET Ids]
    <2>1. missed \in [Loops -> SUBSET Ids] /\ k.event \in Ids /\ Elements(k.queue) \subseteq Ids
      BY <1>1, <1>2, LoopTypes, LoopFields, ElementsTyped
    <2>2. missed[l] \cup {k.event} \cup (IF l = "sync" THEN Elements(k.queue) ELSE {}) \in SUBSET Ids
      BY <2>1
    <2> QED BY <1>2, <2>1, <2>2
  <1>6. table' \in [Loops -> Seq(Ids)] /\ breaks' \in 0..MaxBreaks
    BY <1>1, <1>2, LoopTypes, Sizes
  <1> QED BY <1>2, <1>3, <1>4, <1>5, <1>6, BridgeTyped

LEMMA RestartTyped == ASSUME Typed, Restart PROVE Typed'
  <1>1. TypeOK /\ Len(log) <= MaxEvents
    BY DEF Typed
  <1>2. /\ breaks < MaxBreaks /\ breaks' = breaks + 1 /\ history' = <<>> /\ terminals' = <<>>
        /\ boots' = boots \cup {Len(log)}
        /\ conn' = [c \in Clients |-> Closed] /\ loop' = [l \in Loops |-> Fresh]
        /\ lost' = [c \in Clients |-> lost[c] \cup Unseen(c)]
        /\ missed' = [l \in Loops |-> missed[l] \cup Elements(loop[l].queue) \cup ({loop[l].event} \ {0})]
        /\ UNCHANGED <<log, cursor, table>>
    BY DEF Restart
  <1>3. Len(<<>>) = 0 /\ <<>> \in Seq(Ids) /\ <<>> \in Seq(Tasks)
    BY EmptySeq
  <1>4. lost' \in [Clients -> SUBSET Ids]
    <2>1. \A c \in Clients : lost[c] \cup Unseen(c) \in SUBSET Ids
      BY <1>1, TypeFields, UnseenIds
    <2> QED BY <1>2, <2>1
  <1>5. missed' \in [Loops -> SUBSET Ids]
    <2>1. ASSUME NEW l \in Loops
          PROVE  missed[l] \cup Elements(loop[l].queue) \cup ({loop[l].event} \ {0}) \in SUBSET Ids
      <3>1. missed[l] \in SUBSET Ids /\ loop[l].event \in Ids \cup {0} /\ Elements(loop[l].queue) \subseteq Ids
        BY <1>1, LoopTypes, LoopFields, ElementsTyped
      <3> QED BY <3>1
    <2> QED BY <1>2, <2>1
  <1>6. breaks' \in 0..MaxBreaks
    BY <1>1, <1>2, LoopTypes, Sizes
  <1>7. /\ conn' \in [Clients -> Connection] /\ loop' \in [Loops -> Loop]
        /\ \A c \in Clients : Len(conn'[c].queue) <= QueueSize /\ Len(conn'[c].wire) <= WireSize
        /\ \A l \in Loops : Len(loop'[l].queue) <= QueueSize
    BY <1>2, <1>3, ClosedIs, FreshIs, Sizes
  <1>8. Len(history') <= HistorySize /\ Len(terminals') <= TerminalSize
    BY <1>2, <1>3, Sizes
  <1>9. boots' \subseteq 0..Len(log')
    <2>1. boots \subseteq 0..Len(log) /\ Len(log) \in Nat
      BY <1>1, TypeFields, LoopTypes
    <2>2. Len(log) \in 0..Len(log)
      BY <2>1
    <2> QED BY <1>2, <2>1, <2>2
  <1>10. TypeOK'
    BY <1>1, <1>2, <1>3, <1>4, <1>5, <1>6, <1>7, <1>8, <1>9 DEF TypeOK, IdSeq
  <1>11. ASSUME NEW c \in Clients PROVE InOrder(c)'
    <2>1. conn'[c] = Closed /\ cursor'[c] \in Nat /\ Len(log') \in Nat /\ cursor[c] \in Nat /\ Len(log) \in Nat
      BY <1>1, <1>2, TypeFields
    <2>2. Ordered(Closed, cursor'[c], Len(log'))
      BY <2>1, ClosedOrdered
    <2>3. Elements(Closed.wire) \cup Elements(Closed.replay) = {}
      BY ClosedIs DEF Elements
    <2> QED BY <2>1, <2>2, <2>3 DEF InOrder
  <1>12. Recent(history)'
    BY <1>2 DEF Recent, EndsAt
  <1> QED BY <1>1, <1>2, <1>10, <1>11, <1>12 DEF Typed

LEMMA InitTyped == ASSUME Init PROVE Typed
  <1>1. /\ log = <<>> /\ history = <<>> /\ terminals = <<>> /\ conn = [c \in Clients |-> Closed]
        /\ cursor = [c \in Clients |-> 0] /\ loop = [l \in Loops |-> Fresh]
        /\ table = [l \in Loops |-> <<>>] /\ breaks = 0 /\ boots = {}
        /\ lost = [c \in Clients |-> {}] /\ missed = [l \in Loops |-> {}]
    BY DEF Init
  <1>2. Len(<<>>) = 0 /\ <<>> \in Seq(Ids) /\ <<>> \in Seq(Tasks) /\ <<>> \in Seq(Event)
    BY EmptySeq
  <1>3. /\ conn \in [Clients -> Connection] /\ loop \in [Loops -> Loop]
        /\ \A c \in Clients : Len(conn[c].queue) <= QueueSize /\ Len(conn[c].wire) <= WireSize
        /\ \A l \in Loops : Len(loop[l].queue) <= QueueSize
    BY <1>1, <1>2, ClosedIs, FreshIs, Sizes
  <1>4. /\ cursor \in [Clients -> 0..0] /\ table \in [Loops -> Seq(Ids)] /\ breaks \in 0..MaxBreaks
        /\ lost \in [Clients -> SUBSET Ids] /\ missed \in [Loops -> SUBSET Ids] /\ Len(log) = 0
    BY <1>1, <1>2, Sizes
  <1>5. TypeOK
    BY <1>1, <1>2, <1>3, <1>4, Sizes DEF TypeOK, IdSeq
  <1>6. ASSUME NEW c \in Clients PROVE InOrder(c)
    <2>1. conn[c] = Closed /\ cursor[c] = 0 /\ Len(log) = 0
      BY <1>1, <1>2
    <2>2. Ordered(Closed, 0, 0)
      BY ClosedOrdered
    <2>3. Elements(Closed.wire) \cup Elements(Closed.replay) = {}
      BY ClosedIs DEF Elements
    <2> QED BY <2>1, <2>2, <2>3 DEF InOrder
  <1>7. Recent(history)
    BY <1>1 DEF Recent, EndsAt
  <1> QED BY <1>2, <1>1, <1>5, <1>6, <1>7, Sizes DEF Typed

LEMMA StutterTyped == ASSUME Typed, UNCHANGED vars PROVE Typed'
  <1>1. TypeOK /\ Len(log) <= MaxEvents /\ Recent(history) /\ \A c \in Clients : InOrder(c)
    BY DEF Typed
  <1>2. UNCHANGED <<log, history, terminals, conn, cursor, loop, table, breaks, boots, lost, missed>>
    BY DEF vars
  <1>3. TypeOK'
    BY <1>1, <1>2 DEF TypeOK
  <1>4. \A c \in Clients : InOrder(c)'
    BY <1>1, <1>2, OrderStays
  <1>5. Recent(history)'
    BY <1>1, <1>2 DEF Recent
  <1> QED BY <1>1, <1>2, <1>3, <1>4, <1>5 DEF Typed

LEMMA TypedStep == Typed /\ [Next]_vars => Typed'
  <1> SUFFICES ASSUME Typed, [Next]_vars PROVE Typed'
    OBVIOUS
  <1>1. CASE \E e \in Event : Publish(e)
    BY <1>1, PublishTyped
  <1>2. CASE \E c \in Clients : Connect(c)
    BY <1>2, ConnectTyped
  <1>3. CASE \E c \in Clients : Serve(c)
    BY <1>3, ServeTyped
  <1>4. CASE \E c \in Clients : Receive(c)
    BY <1>4, ReceiveTyped
  <1>5. CASE \E c \in Clients : Break(c)
    BY <1>5, BreakTyped
  <1>6. CASE \E l \in Loops : Take(l)
    BY <1>6, TakeTyped
  <1>7. CASE \E l \in Loops : Write(l)
    BY <1>7, WriteTyped
  <1>8. CASE \E l \in Loops : Raise(l)
    BY <1>8, RaiseTyped
  <1>9. CASE Restart
    BY <1>9, RestartTyped
  <1>10. CASE UNCHANGED vars
    BY <1>10, StutterTyped
  <1> QED BY <1>1, <1>2, <1>3, <1>4, <1>5, <1>6, <1>7, <1>8, <1>9, <1>10 DEF Next

\* Every variable keeps its type: in particular histories, queues and the memory of ends keep
\* their sizes, and a cursor names an event that was published (EventBus, event_stream).
THEOREM TypeCorrect == Spec => []TypeOK
  <1>1. Init => Typed
    BY InitTyped
  <1>2. Typed => TypeOK
    BY DEF Typed
  <1> QED BY <1>1, <1>2, TypedStep, PTL DEF Spec

------------------------------------------------------------------------------
(* The ends of tasks.                                                       *)

\* The sequence u is t with x at its end and without its first d.
Moved(t, x, u, d) ==
    /\ u \in Seq(Tasks) /\ Len(u) \in Nat /\ Len(u) = Len(t) + 1 - d
    /\ d = 1 <=> Len(t) = TerminalSize
    /\ \A p \in 1..Len(u) : /\ p + d \in 1..(Len(t) + 1)
                            /\ p + d = Len(t) + 1 => u[p] = x
                            /\ p + d # Len(t) + 1 => p + d \in 1..Len(t) /\ u[p] = t[p + d]

LEMMA RememberIs ==
    ASSUME NEW t \in Seq(Tasks), Len(t) <= TerminalSize, NEW x \in Tasks, NEW u,
           u = LastOf(Append(t, x), TerminalSize)
    PROVE  \E d \in {0, 1} : Moved(t, x, u, d)
  <1> PICK a : a = Append(t, x)
    OBVIOUS
  <1> PICK z \in Nat \ {0} : z = TerminalSize
    BY Sizes
  <1> PICK n \in Nat : n = Len(t)
    BY LenProperties
  <1>1. a \in Seq(Tasks) /\ Len(a) = n + 1 /\ a[n + 1] = x /\ \A i \in 1..n : a[i] = t[i]
    BY AppendProperties
  <1>2. /\ u \in Seq(Tasks) /\ Len(u) = IF n + 1 <= z THEN n + 1 ELSE z
        /\ \A i \in 1..Len(u) : i + (n + 1) - Len(u) \in 1..(n + 1) /\ u[i] = a[i + (n + 1) - Len(u)]
    <2>1. z \in Nat /\ u = LastOf(a, z)
      OBVIOUS
    <2>2. /\ u \in Seq(Tasks) /\ Len(u) = IF Len(a) <= z THEN Len(a) ELSE z
          /\ \A i \in 1..Len(u) : i + Len(a) - Len(u) \in 1..Len(a) /\ u[i] = a[i + Len(a) - Len(u)]
      <3>1. /\ LastOf(a, z) \in Seq(Tasks)
            /\ Len(LastOf(a, z)) = IF Len(a) <= z THEN Len(a) ELSE z
            /\ \A i \in 1..Len(LastOf(a, z)) :
                  i + Len(a) - Len(LastOf(a, z)) \in 1..Len(a)
                  /\ LastOf(a, z)[i] = a[i + Len(a) - Len(LastOf(a, z))]
        BY <1>1, <2>1, LastOfIs, ZenonT(60)
      <3> QED BY <2>1, <3>1, Zenon
    <2> QED BY <1>1, <2>2
  <1> PICK l \in Nat : l = Len(u)
    BY <1>2, LenProperties
  <1> PICK d : d = n + 1 - l
    OBVIOUS
  <1>3. n <= z
    OBVIOUS
  <1>4. d \in {0, 1} /\ l = n + 1 - d /\ (d = 1 <=> n = z)
    BY <1>2, <1>3
  <1>5. ASSUME NEW p \in 1..l
        PROVE  /\ p + d \in 1..(n + 1)
               /\ p + d = n + 1 => u[p] = x
               /\ p + d # n + 1 => p + d \in 1..n /\ u[p] = t[p + d]
    <2>1. p + d = p + (n + 1) - l
      OBVIOUS
    <2>2. p + d \in 1..(n + 1) /\ u[p] = a[p + d]
      BY <1>2, <2>1
    <2>3. p + d # n + 1 => p + d \in 1..n
      BY <2>2, SMTT(30)
    <2> QED BY <1>1, <2>2, <2>3
  <1>6. Moved(t, x, u, d)
    BY <1>2, <1>4, <1>5 DEF Moved
  <1> QED BY <1>4, <1>6

\* One task more has ended.
LEMMA SinceEnds ==
    ASSUME NEW t \in Seq(Tasks), Len(t) <= TerminalSize, NEW x \in Tasks, NEW u,
           u = LastOf(Append(t, x), TerminalSize),
           NEW g, NEW h, Len(g) \in Nat, Len(h) = Len(g) + 1, \A k \in 1..Len(g) : h[k] = g[k],
           h[Len(g) + 1].terminal, h[Len(g) + 1].task = x
    PROVE  /\ \A i \in 1..Len(g) : Since(t, g, i) => Since(u, h, i)
           /\ Since(u, h, Len(g) + 1)
  <1> PICK m \in Nat : m = Len(g)
    OBVIOUS
  <1> PICK z \in Nat \ {0} : z = TerminalSize
    BY Sizes
  <1> PICK n \in Nat : n = Len(t)
    BY LenProperties
  <1> PICK d \in {0, 1} : Moved(t, x, u, d)
    BY RememberIs
  <1>1. /\ Len(u) \in Nat /\ Len(u) = n + 1 - d /\ (d = 1 <=> n = z)
        /\ \A p \in 1..Len(u) : /\ p + d \in 1..(n + 1)
                                /\ p + d = n + 1 => u[p] = x
                                /\ p + d # n + 1 => p + d \in 1..n /\ u[p] = t[p + d]
    BY DEF Moved
  <1> PICK l \in Nat : l = Len(u)
    BY <1>1
  <1>2. l = n + 1 - d /\ l \in 1..(n + 1)
    <2>1. n = z => n >= 1
      OBVIOUS
    <2> QED BY <1>1, <2>1
  <1>3. ASSUME NEW i \in 1..m, Since(t, g, i) PROVE Since(u, h, i)
    <2>1. PICK q \in 0..n :
            /\ q = 0 => n = z
            /\ q # 0 => t[q] = g[i].task
            /\ \A p \in (q + 1)..n : \E k \in (i + 1)..m : g[k].terminal /\ g[k].task = t[p]
      BY <1>3 DEF Since
    <2> DEFINE r == IF q <= d THEN 0 ELSE q - d
    <2>2. r \in 0..l /\ q <= r + d
      BY <1>2
    <2>3. r = 0 => l = z
      <3>1. CASE d = 1
        BY <1>1, <1>2, <3>1
      <3>2. CASE d = 0
        BY <1>1, <2>1, <3>2
      <3> QED BY <3>1, <3>2
    <2>4. r # 0 => u[r] = h[i].task
      <3> SUFFICES ASSUME r # 0 PROVE u[r] = h[i].task
        OBVIOUS
      <3>1. r = q - d /\ r \in 1..l /\ r + d = q /\ q # 0 /\ q \in 1..n
        BY <1>2, <2>2
      <3>2. r + d # n + 1
        BY <3>1
      <3>3. u[r] = t[r + d]
        BY <1>1, <3>1, <3>2
      <3> QED BY <2>1, <3>1, <3>3
    <2>5. ASSUME NEW p \in (r + 1)..l
          PROVE  \E k \in (i + 1)..(m + 1) : h[k].terminal /\ h[k].task = u[p]
      <3>1. p \in 1..l /\ q + 1 <= p + d
        BY <2>2
      <3>2. CASE p + d = n + 1
        <4>1. u[p] = x /\ m + 1 \in (i + 1)..(m + 1)
          BY <1>1, <3>1, <3>2
        <4> QED BY <4>1
      <3>3. CASE p + d # n + 1
        <4>1. p + d \in (q + 1)..n /\ u[p] = t[p + d]
          BY <1>1, <3>1, <3>3
        <4>2. PICK k \in (i + 1)..m : g[k].terminal /\ g[k].task = t[p + d]
          BY <2>1, <4>1
        <4>3. k \in 1..m /\ k \in (i + 1)..(m + 1)
          OBVIOUS
        <4> QED BY <4>1, <4>2, <4>3
      <3> QED BY <3>2, <3>3
    <2> HIDE DEF r
    <2> QED BY <2>2, <2>3, <2>4, <2>5 DEF Since
  <1>4. Since(u, h, m + 1)
    <2>1. l \in 1..l /\ l + d = n + 1 /\ l \in 0..l /\ l # 0
      BY <1>2
    <2>2. u[l] = x
      BY <1>1, <2>1
    <2>3. \A p \in (l + 1)..l : FALSE
      OBVIOUS
    <2> QED BY <2>1, <2>2, <2>3 DEF Since
  <1> QED BY <1>3, <1>4

LEMMA SinceGrows ==
    ASSUME NEW t, NEW g, NEW h, Len(g) \in Nat, Len(h) = Len(g) + 1, \A k \in 1..Len(g) : h[k] = g[k],
           NEW i \in 1..Len(g), Since(t, g, i)
    PROVE  Since(t, h, i)
  <1> PICK m \in Nat : m = Len(g)
    OBVIOUS
  <1>1. PICK q \in 0..Len(t) :
            /\ q = 0 => Len(t) = TerminalSize
            /\ q # 0 => t[q] = g[i].task
            /\ \A p \in (q + 1)..Len(t) : \E k \in (i + 1)..m : g[k].terminal /\ g[k].task = t[p]
    BY DEF Since
  <1>2. \A k \in (i + 1)..m : k \in (i + 1)..(m + 1) /\ h[k] = g[k]
    OBVIOUS
  <1>3. \A p \in (q + 1)..Len(t) : \E k \in (i + 1)..(m + 1) : h[k].terminal /\ h[k].task = t[p]
    BY <1>1, <1>2
  <1>4. h[i].task = g[i].task /\ Len(h) = m + 1
    OBVIOUS
  <1> QED BY <1>1, <1>3, <1>4 DEF Since

LEMMA DistinctEnds ==
    ASSUME NEW t \in Seq(Tasks), Len(t) <= TerminalSize, Distinct(t), NEW x \in Tasks,
           x \notin Elements(t), NEW u, u = LastOf(Append(t, x), TerminalSize)
    PROVE  Distinct(u)
  <1> PICK n \in Nat : n = Len(t)
    BY LenProperties
  <1> PICK d \in {0, 1} : Moved(t, x, u, d)
    BY RememberIs
  <1>1. /\ u \in Seq(Tasks) /\ Len(u) = n + 1 - d
        /\ \A p \in 1..Len(u) : /\ p + d \in 1..(n + 1)
                                /\ p + d = n + 1 => u[p] = x
                                /\ p + d # n + 1 => p + d \in 1..n /\ u[p] = t[p + d]
    BY DEF Moved
  <1>2. DOMAIN u = 1..Len(u) /\ DOMAIN t = 1..n
    BY <1>1, LenProperties
  <1>3. \A p \in 1..n : t[p] # x
    BY <1>2 DEF Elements
  <1> SUFFICES ASSUME NEW p \in 1..Len(u), NEW q \in 1..Len(u), u[p] = u[q] PROVE p = q
    BY <1>2 DEF Distinct
  <1>4. CASE p + d = n + 1 /\ q + d = n + 1
    BY <1>4
  <1>5. CASE p + d # n + 1 /\ q + d # n + 1
    <2>1. t[p + d] = t[q + d] /\ p + d \in 1..n /\ q + d \in 1..n
      BY <1>1, <1>5
    <2>2. p + d = q + d
      BY <1>2, <2>1 DEF Distinct
    <2> QED BY <2>2
  <1>6. CASE p + d = n + 1 /\ q + d # n + 1
    BY <1>1, <1>3, <1>6
  <1>7. CASE p + d # n + 1 /\ q + d = n + 1
    BY <1>1, <1>3, <1>7
  <1> QED BY <1>4, <1>5, <1>6, <1>7

\* A full memory is as many tasks as it has room for.
LEMMA ManyEnded ==
    ASSUME NEW t \in Seq(Tasks), Distinct(t), Len(t) = TerminalSize, NEW S, IsFiniteSet(S),
           \A p \in 1..Len(t) : t[p] \in S
    PROVE  Cardinality(S) >= TerminalSize
  <1>1. DOMAIN t = 1..Len(t) /\ Len(t) \in Nat /\ t \in [1..Len(t) -> S]
    <2>1. DOMAIN t = 1..Len(t) /\ Len(t) \in Nat /\ t \in [1..Len(t) -> Tasks]
      BY LenProperties
    <2> QED BY <2>1
  <1>2. t \in Injection(1..Len(t), S)
    <2>1. \A p, q \in 1..Len(t) : t[p] = t[q] => p = q
      BY <1>1 DEF Distinct
    <2> QED BY <1>1, <2>1 DEF Injection, IsInjective
  <1>3. Cardinality(1..Len(t)) <= Cardinality(S)
    BY <1>2, FS_Injection
  <1>4. Cardinality(1..Len(t)) = Len(t)
    <2> PICK n \in Nat : n = Len(t)
      BY <1>1
    <2>1. 1 \in Int /\ n \in Int
      OBVIOUS
    <2>2. Cardinality(1..n) = IF 1 > n THEN 0 ELSE n - 1 + 1
      BY <2>1, FS_Interval, Zenon
    <2> QED BY <2>2
  <1>5. Cardinality(S) \in Nat
    BY FS_CardinalityType
  <1> QED BY <1>1, <1>3, <1>4, <1>5

LEMMA EndedFinite ==
    ASSUME NEW g, NEW i \in Int, NEW j \in Int
    PROVE  IsFiniteSet(EndedIn(g, i, j))
  <1> DEFINE T == {k \in i..j : g[k].terminal}
             f == [k \in T |-> g[k].task]
  <1>1. IsFiniteSet(i..j)
    BY FS_Interval
  <1>2. IsFiniteSet(T)
    BY <1>1, FS_Subset
  <1>3. f \in Surjection(T, EndedIn(g, i, j))
    BY DEF EndedIn, Surjection
  <1> HIDE DEF f, T
  <1> QED BY <1>2, <1>3, FS_Surjection

LEMMA EndedSame ==
    ASSUME NEW g, NEW h, NEW n \in Nat, \A k \in 1..n : h[k] = g[k], NEW i \in Nat, NEW j \in Int, j <= n
    PROVE  EndedIn(h, i + 1, j) = EndedIn(g, i + 1, j)
  <1>1. \A k \in (i + 1)..j : h[k] = g[k]
    <2>1. \A k \in (i + 1)..j : k \in 1..n
      OBVIOUS
    <2> QED BY <2>1
  <1> QED BY <1>1 DEF EndedIn

LEMMA OneTerminalIs ==
    ASSUME Len(log) \in Nat, DOMAIN log = 1..Len(log)
    PROVE  OneTerminal <=>
             \A i, j \in 1..Len(log) :
                i < j /\ log[i].terminal /\ log[j] = log[i]
                => Restarted(i, j) \/ Cardinality(EndedIn(log, i + 1, j - 1)) >= TerminalSize
  BY DEF OneTerminal, EndedIn

LEMMA PublishRemembering == ASSUME Remembering, NEW e \in Event, Publish(e) PROVE Remembering'
  <1>1. /\ Typed /\ TypeOK /\ Distinct(terminals) /\ OneTerminal /\ Len(terminals) <= TerminalSize
        /\ \A i \in DOMAIN log : log[i].terminal /\ Standing(i) => Since(terminals, log, i)
        /\ terminals \in Seq(Tasks) /\ DOMAIN log = 1..Len(log) /\ boots \subseteq 0..Len(log)
    BY TypeFields, LoopTypes DEF Remembering, Typed
  <1>2. Typed'
    BY <1>1, PublishTyped
  <1> PICK n \in Nat : n = Len(log)
    BY <1>1, TypeFields
  <1> PICK h : h = log'
    OBVIOUS
  <1>3. /\ Len(h) = n + 1 /\ \A k \in 1..n : h[k] = log[k]
        /\ h[n + 1] = e /\ DOMAIN h = 1..(n + 1)
    BY <1>1, PublishLog
  <1>4. ~Duplicate(e) /\ terminals' = Remember(e) /\ boots' = boots
    BY DEF Publish
  <1>5. e.task \in Tasks /\ e.terminal \in BOOLEAN
    BY StreamAssumption DEF Event
  <1>6. Distinct(terminals')
    <2>1. CASE e.terminal
      <3>1. e.task \notin Elements(terminals) /\ terminals' = LastOf(Append(terminals, e.task), TerminalSize)
        BY <1>4, <2>1 DEF Duplicate, Remember
      <3> QED BY <1>1, <1>5, <3>1, DistinctEnds
    <2>2. CASE ~e.terminal
      BY <1>1, <1>4, <2>2 DEF Remember
    <2> QED BY <2>1, <2>2
  <1>7. ASSUME NEW i \in 1..(n + 1), h[i].terminal, Standing(i) PROVE Since(terminals', h, i)
    <2>1. CASE e.terminal
      <3>1. terminals' = LastOf(Append(terminals, e.task), TerminalSize)
        BY <1>4, <2>1 DEF Remember
      <3>2. h[n + 1].terminal /\ h[n + 1].task = e.task
        BY <1>3, <2>1
      <3> PICK u : u = terminals'
        OBVIOUS
      <3>3. /\ \A k \in 1..n : Since(terminals, log, k) => Since(u, h, k)
            /\ Since(u, h, n + 1)
        BY <1>1, <1>3, <1>5, <3>1, <3>2, SinceEnds
      <3>4. i \in 1..n => Since(terminals, log, i)
        BY <1>1, <1>3, <1>7
      <3>5. i \in 1..n \/ i = n + 1
        OBVIOUS
      <3> QED BY <3>3, <3>4, <3>5
    <2>2. CASE ~e.terminal
      <3>1. i \in 1..n
        BY <1>3, <1>7, <2>2
      <3>2. Since(terminals, log, i)
        BY <1>1, <1>3, <1>7, <3>1
      <3>3. terminals' = terminals
        BY <1>4, <2>2 DEF Remember
      <3>4. Since(terminals, h, i)
        BY <1>3, <3>1, <3>2, SinceGrows
      <3> QED BY <3>3, <3>4
    <2> QED BY <1>5, <2>1, <2>2
  <1>8. ASSUME NEW i \in 1..(n + 1), NEW j \in 1..(n + 1), i < j, h[i].terminal, h[j] = h[i], ~Restarted(i, j)
        PROVE  Cardinality(EndedIn(h, i + 1, j - 1)) >= TerminalSize
    <2>1. i \in 1..n /\ h[i] = log[i] /\ j - 1 \in Int /\ j - 1 <= n /\ i \in Nat
      BY <1>3, <1>8
    <2>2. EndedIn(h, i + 1, j - 1) = EndedIn(log, i + 1, j - 1)
      BY <1>3, <2>1, EndedSame
    <2>3. CASE j \in 1..n
      <3>1. log[j] = log[i] /\ log[i].terminal
        BY <1>3, <1>8, <2>1, <2>3
      <3>2. Restarted(i, j) \/ Cardinality(EndedIn(log, i + 1, j - 1)) >= TerminalSize
        BY <1>1, <1>8, <2>1, <2>3, <3>1, OneTerminalIs
      <3> QED BY <1>8, <2>2, <3>2
    <2>4. CASE j = n + 1
      <3>1. log[i] = e /\ e.terminal /\ e.task \notin Elements(terminals)
        BY <1>1, <1>3, <1>4, <1>8, <2>1, <2>4 DEF Duplicate
      <3>2. Standing(i)
        <4>1. \A r \in boots : r \in 0..n /\ r < n + 1
          BY <1>1
        <4>2. \A r \in boots : ~(i <= r)
          BY <1>8, <2>4, <4>1 DEF Restarted
        <4>3. ASSUME NEW r \in boots PROVE r < i
          <5>1. r \in Nat /\ ~(i <= r)
            BY <4>1, <4>2
          <5> QED BY <2>1, <5>1
        <4> QED BY <4>3 DEF Standing
      <3>3. Since(terminals, log, i)
        BY <1>1, <2>1, <3>1, <3>2
      <3>4. PICK q \in 0..Len(terminals) :
              /\ q = 0 => Len(terminals) = TerminalSize
              /\ q # 0 => terminals[q] = e.task
              /\ \A p \in (q + 1)..Len(terminals) :
                    \E k \in (i + 1)..n : log[k].terminal /\ log[k].task = terminals[p]
        BY <3>1, <3>3 DEF Since
      <3>5. DOMAIN terminals = 1..Len(terminals) /\ Len(terminals) \in Nat
        BY <1>1, LenProperties
      <3>6. q = 0
        <4>1. q # 0 => q \in DOMAIN terminals
          BY <3>5
        <4>2. q \in DOMAIN terminals => terminals[q] \in Elements(terminals)
          BY DEF Elements
        <4> QED BY <3>1, <3>4, <4>1, <4>2
      <3>7. \A p \in 1..Len(terminals) : \E k \in (i + 1)..n : log[k].terminal /\ log[k].task = terminals[p]
        BY <3>4, <3>6
      <3>8. \A p \in 1..Len(terminals) : terminals[p] \in EndedIn(log, i + 1, n)
        BY <3>7 DEF EndedIn
      <3>9. IsFiniteSet(EndedIn(log, i + 1, n))
        BY <2>1, EndedFinite
      <3>10. Cardinality(EndedIn(log, i + 1, n)) >= TerminalSize
        BY <1>1, <3>4, <3>6, <3>8, <3>9, ManyEnded
      <3> QED BY <2>2, <2>4, <3>10
    <2>5. j \in 1..n \/ j = n + 1
      OBVIOUS
    <2> QED BY <2>3, <2>4, <2>5
  <1>9. OneTerminal'
    BY <1>3, <1>4, <1>8 DEF OneTerminal, EndedIn, Restarted
  <1>10. (\A i \in DOMAIN log : log[i].terminal /\ Standing(i) => Since(terminals, log, i))'
    BY <1>3, <1>4, <1>7 DEF Standing
  <1> QED BY <1>2, <1>6, <1>9, <1>10 DEF Remembering

\* No other step publishes, and only a restart forgets.
LEMMA OtherRemembering ==
    ASSUME Remembering, Typed', UNCHANGED log,
           \/ UNCHANGED <<terminals, boots>>
           \/ boots' = boots \cup {Len(log)} /\ terminals' = <<>>
    PROVE  Remembering'
  <1>1. /\ Typed /\ TypeOK /\ Distinct(terminals) /\ OneTerminal
        /\ \A i \in DOMAIN log : log[i].terminal /\ Standing(i) => Since(terminals, log, i)
    BY DEF Remembering, Typed
  <1>2. DOMAIN log = 1..Len(log) /\ Len(log) \in Nat
    BY <1>1, TypeFields
  <1>3. Distinct(terminals')
    BY <1>1 DEF Distinct
  <1>4. boots \subseteq boots'
    OBVIOUS
  <1>5. OneTerminal'
    BY <1>1, <1>4 DEF OneTerminal, Restarted
  <1>6. (\A i \in DOMAIN log : log[i].terminal /\ Standing(i) => Since(terminals, log, i))'
    <2>1. CASE UNCHANGED <<terminals, boots>>
      BY <1>1, <2>1 DEF Standing
    <2>2. CASE boots' = boots \cup {Len(log)}
      <3>1. ASSUME NEW i \in 1..Len(log), Standing(i)' PROVE FALSE
        <4>1. Len(log) < i
          BY <2>2, <3>1 DEF Standing
        <4> QED BY <1>2, <4>1
      <3> QED BY <1>2, <3>1
    <2> QED BY <2>1, <2>2
  <1> QED BY <1>3, <1>5, <1>6 DEF Remembering

LEMMA RememberingStep == Remembering /\ [Next]_vars => Remembering'
  <1> SUFFICES ASSUME Remembering, [Next]_vars PROVE Remembering'
    OBVIOUS
  <1>1. Typed'
    BY TypedStep DEF Remembering
  <1>2. CASE \E e \in Event : Publish(e)
    BY <1>2, PublishRemembering
  <1>3. CASE ~\E e \in Event : Publish(e)
    <2>1. /\ UNCHANGED log
          /\ \/ UNCHANGED <<terminals, boots>>
             \/ boots' = boots \cup {Len(log)} /\ terminals' = <<>>
      BY <1>3 DEF Next, Connect, Serve, SendReplay, SendLive, Receive, Break, Take, Write, Raise, Restart, vars
    <2> QED BY <1>1, <2>1, OtherRemembering
  <1> QED BY <1>2, <1>3

\* A task has a second terminal event only if the process came back between the two, or
\* TerminalSize other tasks have ended between them; nothing else that breaks, before or
\* between, lets one through (EventBus._is_duplicate_terminal).
THEOREM OneEnd == Spec => []OneTerminal
  <1>1. Init => Remembering
    <2> SUFFICES ASSUME Init PROVE Remembering
      OBVIOUS
    <2>1. log = <<>> /\ terminals = <<>>
      BY DEF Init
    <2>2. Distinct(terminals) /\ OneTerminal /\ \A i \in DOMAIN log : FALSE
      BY <2>1 DEF Distinct, OneTerminal
    <2> QED BY <2>2, InitTyped DEF Remembering
  <1>2. Remembering => OneTerminal
    BY DEF Remembering
  <1> QED BY <1>1, <1>2, RememberingStep, PTL DEF Spec

------------------------------------------------------------------------------
(* What connections hold and have lost.                                     *)

LEMMA CompleteStays ==
    ASSUME NEW d, Complete(d), conn'[d] = conn[d], cursor'[d] = cursor[d], lost'[d] = lost[d],
           UNCHANGED log
    PROVE  Complete(d)'
  <1> PICK k : k = conn[d]
    OBVIOUS
  <1> PICK low : low = cursor[d]
    OBVIOUS
  <1> PICK gone : gone = lost[d]
    OBVIOUS
  <1>1. k.open => \A i \in (low + 1)..Len(log) : Wants(d, log[i].task) =>
                      i \in Pending(k) \cup gone \/ (low = 0 /\ \A j \in Pending(k) : i < j)
    BY DEF Complete, Unseen
  <1> QED BY <1>1 DEF Complete, Unseen

LEMMA HeldStays ==
    ASSUME Held, Typed, UNCHANGED <<log, history>>,
           \A c \in Clients : cursor'[c] \in Nat /\ cursor[c] <= cursor'[c] /\ lost[c] \subseteq lost'[c]
    PROVE  Held'
  <1>1. \A c \in Clients : cursor[c] \in Nat
    BY TypeFields DEF Typed
  <1>2. Len(log) \in Nat
    BY TypeFields DEF Typed
  <1> SUFFICES ASSUME Len(history) < HistorySize, NEW c \in Clients, NEW i \in Unseen(c)',
                      i <= Len(log) - Len(history)
               PROVE  i \in lost'[c]
    BY DEF Held
  <1>3. i \in Unseen(c)
    BY <1>1, <1>2 DEF Unseen
  <1> QED BY <1>3 DEF Held

\* A step of one client that changes neither what was published nor what is lost.
LEMMA ClientKeeps ==
    ASSUME Keeping, Typed', NEW c \in Clients, NEW s \in Connection, Puts(c, s),
           UNCHANGED <<log, history, lost>>, Complete(c)',
           NEW x \in Nat, cursor[c] <= x, cursor' = [cursor EXCEPT ![c] = x]
    PROVE  Keeping'
  <1>1. Typed /\ TypeOK /\ Held /\ \A d \in Clients : Complete(d)
    BY DEF Keeping, Typed
  <1>2. \A d \in Clients : d # c => conn'[d] = conn[d]
    BY <1>1, PutAt
  <1>3. cursor'[c] = x /\ \A d \in Clients : d # c => cursor'[d] = cursor[d]
    BY <1>1, TypeFields
  <1>4. \A d \in Clients : Complete(d)'
    BY <1>1, <1>2, <1>3, CompleteStays
  <1>5. \A d \in Clients : cursor'[d] \in Nat /\ cursor[d] <= cursor'[d] /\ lost[d] \subseteq lost'[d]
    <2>1. \A d \in Clients : cursor[d] \in Nat
      BY <1>1, TypeFields
    <2>2. \A n \in Nat : n <= n
      OBVIOUS
    <2> QED BY <1>3, <2>1, <2>2
  <1>6. Held'
    BY <1>1, <1>5, HeldStays
  <1> QED BY <1>4, <1>6 DEF Keeping

\* What a client may do, as the promise has it.
Sees(c) ==
    /\ cursor'[c] \in (cursor[c] + 1)..Len(log)
    /\ Wants(c, log[cursor'[c]].task)
    /\ cursor[c] # 0 => \A i \in (cursor[c] + 1)..(cursor'[c] - 1) : Wants(c, log[i].task) => i \in lost[c]
    /\ \A d \in Clients \ {c} : cursor'[d] = cursor[d]
    /\ UNCHANGED <<log, lost>>

\* What the client is sent is still unseen.
LEMMA Pended ==
    ASSUME Keeping, NEW c \in Clients
    PROVE  /\ Typed /\ TypeOK /\ Complete(c) /\ conn[c] \in Connection
           /\ cursor[c] \in Nat /\ Len(log) \in Nat /\ cursor[c] \in 0..Len(log)
           /\ Ordered(conn[c], cursor[c], Len(log))
           /\ cursor = [cursor EXCEPT ![c] = cursor[c]]
  <1>1. Typed /\ TypeOK /\ Complete(c) /\ InOrder(c)
    BY DEF Keeping, Typed
  <1> QED BY <1>1, TypeFields DEF InOrder

LEMMA SendReplayKeeps == ASSUME Keeping, NEW c \in Clients, SendReplay(c) PROVE Keeping'
  <1> PICK k : k = conn[c]
    OBVIOUS
  <1> PICK low : low = cursor[c]
    OBVIOUS
  <1> PICK high : high = Len(log)
    OBVIOUS
  <1>1. /\ Typed /\ TypeOK /\ Complete(c) /\ k \in Connection /\ low \in Nat /\ high \in Nat
        /\ Ordered(k, low, high) /\ cursor = [cursor EXCEPT ![c] = low]
    BY Pended
  <1>2. PICK s \in Connection :
              /\ Puts(c, s) /\ k.replay # <<>>
              /\ s.open = k.open /\ s.replay = Tail(k.replay)
              /\ s.replayed = k.replayed \cup {Head(k.replay)}
              /\ s.queue = k.queue /\ s.wire = Append(k.wire, Head(k.replay))
    BY <1>1, SendReplayPuts
  <1>3. Pending(s) = Pending(k)
    BY <1>1, <1>2, ReplayStep
  <1>4. UNCHANGED <<log, history, cursor, lost>>
    BY DEF SendReplay
  <1>5. conn'[c] = s
    BY <1>1, <1>2, PutAt
  <1>6. Complete(c)'
    BY <1>1, <1>2, <1>3, <1>4, <1>5 DEF Complete, Unseen
  <1>7. Typed'
    BY <1>1, ServeTyped DEF Serve
  <1>8. cursor' = [cursor EXCEPT ![c] = low] /\ low <= low
    BY <1>1, <1>4
  <1> QED BY <1>1, <1>2, <1>4, <1>6, <1>7, <1>8, ClientKeeps

LEMMA SendLiveKeeps == ASSUME Keeping, NEW c \in Clients, SendLive(c) PROVE Keeping'
  <1> PICK k : k = conn[c]
    OBVIOUS
  <1> PICK low : low = cursor[c]
    OBVIOUS
  <1> PICK high : high = Len(log)
    OBVIOUS
  <1>1. /\ Typed /\ TypeOK /\ Complete(c) /\ k \in Connection /\ low \in Nat /\ high \in Nat
        /\ Ordered(k, low, high) /\ cursor = [cursor EXCEPT ![c] = low]
    BY Pended
  <1> PICK h : h = Head(k.queue)
    OBVIOUS
  <1>2. PICK s \in Connection, skip \in BOOLEAN :
              /\ Puts(c, s) /\ k.replay = <<>> /\ k.queue # <<>>
              /\ skip <=> h \in k.replayed \/ ~Wants(c, log[h].task)
              /\ s.open = k.open /\ s.replay = k.replay /\ s.replayed = k.replayed
              /\ s.queue = Tail(k.queue)
              /\ s.wire = IF skip THEN k.wire ELSE Append(k.wire, h)
    BY <1>1, SendLivePuts
  <1>3. /\ h \notin k.replayed /\ Pending(k) = Pending(s) \cup {h} /\ (skip \/ Pending(s) = Pending(k))
    BY <1>1, <1>2, LiveStep
  <1>4. UNCHANGED <<log, history, cursor, lost>>
    BY DEF SendLive
  <1>5. conn'[c] = s
    BY <1>1, <1>2, PutAt
  <1>6. ASSUME s.open, NEW i \in (low + 1)..high, Wants(c, log[i].task)
        PROVE  i \in Pending(s) \cup lost[c] \/ (low = 0 /\ \A j \in Pending(s) : i < j)
    <2>1. i \in Pending(k) \cup lost[c] \/ (low = 0 /\ \A j \in Pending(k) : i < j)
      BY <1>1, <1>2, <1>6 DEF Complete, Unseen
    <2>2. i = h => ~skip
      BY <1>2, <1>3, <1>6
    <2> QED BY <1>3, <2>1, <2>2
  <1>7. Complete(c)'
    BY <1>4, <1>5, <1>6 DEF Complete, Unseen
  <1>8. Typed'
    BY <1>1, ServeTyped DEF Serve
  <1>9. cursor' = [cursor EXCEPT ![c] = low] /\ low <= low
    BY <1>1, <1>4
  <1> QED BY <1>1, <1>2, <1>4, <1>7, <1>8, <1>9, ClientKeeps

\* The event a client receives is the next it wants: what it passes over is lost.
LEMMA ReceiveKeeps == ASSUME Keeping, NEW c \in Clients, Receive(c) PROVE Keeping' /\ Sees(c)
  <1> PICK k : k = conn[c]
    OBVIOUS
  <1> PICK low : low = cursor[c]
    OBVIOUS
  <1> PICK high : high = Len(log)
    OBVIOUS
  <1>1. /\ Typed /\ TypeOK /\ Complete(c) /\ k \in Connection /\ low \in Nat /\ high \in Nat
        /\ Ordered(k, low, high)
    BY Pended
  <1> PICK x : x = Head(k.wire)
    OBVIOUS
  <1>2. PICK s \in Connection :
              /\ Puts(c, s) /\ k.wire # <<>> /\ cursor' = [cursor EXCEPT ![c] = x]
              /\ s.open = k.open /\ s.replay = k.replay /\ s.replayed = k.replayed
              /\ s.queue = k.queue /\ s.wire = Tail(k.wire)
    BY <1>1, ReceivePuts
  <1>3. /\ x \in (low + 1)..high /\ k.open /\ x \in Elements(k.wire)
        /\ Pending(k) = {x} \cup Pending(s) /\ \A i \in Pending(s) : x < i
    BY <1>1, <1>2, ReceiveStep
  <1>4. UNCHANGED <<log, history, lost>>
    BY DEF Receive
  <1>5. conn'[c] = s /\ cursor'[c] = x /\ \A d \in Clients \ {c} : cursor'[d] = cursor[d]
    BY <1>1, <1>2, PutAt, TypeFields
  <1>6. \A i \in (low + 1)..high : Wants(c, log[i].task) =>
            i \in Pending(k) \cup lost[c] \/ (low = 0 /\ \A j \in Pending(k) : i < j)
    BY <1>1, <1>3 DEF Complete, Unseen
  <1>7. x \in Nat /\ low < x /\ x \in Pending(k)
    BY <1>1, <1>3
  <1>8. ASSUME NEW i \in (x + 1)..high, Wants(c, log[i].task) PROVE i \in Pending(s) \cup lost[c]
    <2>1. i \in (low + 1)..high /\ i # x /\ ~(i < x)
      BY <1>1, <1>7
    <2> QED BY <1>3, <1>6, <1>7, <1>8, <2>1
  <1>9. Complete(c)'
    BY <1>4, <1>5, <1>8 DEF Complete, Unseen
  <1>10. Typed'
    BY <1>1, ReceiveTyped
  <1>11. Keeping'
    <2>1. low <= x
      BY <1>1, <1>7
    <2> QED BY <1>2, <1>4, <1>7, <1>9, <1>10, <2>1, ClientKeeps
  <1>12. ASSUME low # 0, NEW i \in (low + 1)..(x - 1), Wants(c, log[i].task) PROVE i \in lost[c]
    <2>1. i \in (low + 1)..high /\ i # x /\ ~(x < i)
      BY <1>1, <1>3, <1>7
    <2> QED BY <1>3, <1>6, <1>12, <2>1
  <1>13. Wants(c, log[x].task)
    BY <1>1, <1>3 DEF Typed, InOrder
  <1> QED BY <1>3, <1>4, <1>5, <1>11, <1>12, <1>13 DEF Sees

LEMMA BreakKeeps == ASSUME Keeping, NEW c \in Clients, Break(c) PROVE Keeping'
  <1>1. Typed /\ TypeOK /\ cursor[c] \in Nat /\ cursor = [cursor EXCEPT ![c] = cursor[c]]
    BY Pended
  <1>2. Puts(c, Closed) /\ UNCHANGED <<log, history, cursor, lost>>
    BY DEF Break, Puts
  <1>3. conn'[c] = Closed
    BY <1>1, <1>2, ClosedIs, PutAt
  <1>4. Complete(c)'
    BY <1>3, ClosedIs DEF Complete
  <1>5. Typed' /\ cursor' = [cursor EXCEPT ![c] = cursor[c]] /\ cursor[c] <= cursor[c]
    BY <1>1, <1>2, BreakTyped
  <1> QED BY <1>1, <1>2, <1>4, <1>5, ClosedIs, ClientKeeps

\* A connection that finds less than the client has yet to see means the client is further
\* behind than the history reaches.
LEMMA ConnectKeeps ==
    ASSUME Keeping, NEW c \in Clients, Connect(c)
    PROVE  /\ Keeping'
           /\ UNCHANGED <<log, cursor>> /\ \A d \in Clients \ {c} : lost'[d] = lost[d]
           /\ lost[c] \subseteq lost'[c] /\ lost'[c] \ lost[c] \subseteq Unseen(c)
           /\ lost'[c] # lost[c] => Len(log) - cursor[c] > HistorySize
  <1> PICK low : low = cursor[c]
    OBVIOUS
  <1> PICK high : high = Len(log)
    OBVIOUS
  <1>1. /\ Typed /\ TypeOK /\ low \in Nat /\ high \in Nat /\ low \in 0..high /\ Held
        /\ \A d \in Clients : Complete(d)
    BY Pended DEF Keeping
  <1>2. PICK s \in Connection :
              /\ Puts(c, s)
              /\ low # 0 => \A i \in Elements(history) \cap Unseen(c) : Wants(c, log[i].task) => i \in Pending(s)
              /\ low = 0 => Pending(s) = {}
    BY <1>1, ConnectPuts
  <1>3. /\ UNCHANGED <<log, history, cursor>>
        /\ lost' = [lost EXCEPT ![c] = @ \cup (Unseen(c) \ Elements(history))]
    BY DEF Connect
  <1>4. /\ lost'[c] = lost[c] \cup (Unseen(c) \ Elements(history))
        /\ \A d \in Clients \ {c} : lost'[d] = lost[d]
    BY <1>1, <1>3, TypeFields
  <1>5. conn'[c] = s /\ \A d \in Clients : d # c => conn'[d] = conn[d]
    BY <1>1, <1>2, PutAt
  <1>6. Unseen(c) = (low + 1)..high
    BY DEF Unseen
  <1>7. ASSUME NEW i \in (low + 1)..high, Wants(c, log[i].task)
        PROVE  i \in Pending(s) \cup lost'[c] \/ (low = 0 /\ \A j \in Pending(s) : i < j)
    BY <1>2, <1>4, <1>6, <1>7
  <1>8. Complete(c)'
    BY <1>3, <1>5, <1>7 DEF Complete, Unseen
  <1>9. ASSUME NEW d \in Clients PROVE Complete(d)'
    BY <1>1, <1>3, <1>4, <1>5, <1>8, CompleteStays
  <1>10. Held'
    <2>1. \A d \in Clients : cursor[d] \in Nat
      BY <1>1, TypeFields
    <2>2. \A n \in Nat : n <= n
      OBVIOUS
    <2>3. \A d \in Clients : cursor'[d] \in Nat /\ cursor[d] <= cursor'[d] /\ lost[d] \subseteq lost'[d]
      BY <1>3, <1>4, <2>1, <2>2
    <2> QED BY <1>1, <1>3, <2>3, HeldStays
  <1>11. Keeping'
    BY <1>1, <1>9, <1>10, ConnectTyped DEF Keeping
  <1>12. ASSUME lost'[c] # lost[c] PROVE high - low > HistorySize
    <2>1. PICK i \in (low + 1)..high : i \notin Elements(history) /\ i \notin lost[c]
      BY <1>4, <1>6, <1>12
    <2> PICK l \in Nat : l = Len(history)
      BY <1>1, TypeFields, LenProperties
    <2>2. Elements(history) = (high - l + 1)..high
      BY <1>1, TypeFields, HistoryIs DEF Typed
    <2>3. i <= high - l
      BY <1>1, <2>1, <2>2
    <2>4. ~(l < HistorySize)
      BY <1>6, <1>1, <2>1, <2>3 DEF Held
    <2> QED BY <1>1, <2>3, <2>4, Sizes
  <1> QED BY <1>3, <1>4, <1>11, <1>12

\* What a publication costs the clients, and what it does to the log.
Costs ==
    \A c \in Clients : /\ lost[c] \subseteq lost'[c] /\ lost'[c] \ lost[c] \subseteq Unseen(c)
                       /\ lost'[c] # lost[c] => Len(log') - cursor[c] > QueueSize
Extended == Len(log') = Len(log) + 1 /\ \A i \in 1..Len(log) : log'[i] = log[i]

LEMMA PublishKeeps ==
    ASSUME Keeping, NEW e \in Event, Publish(e)
    PROVE  Keeping' /\ UNCHANGED cursor /\ Extended /\ Costs
  <1> PICK n : n = Len(log)
    OBVIOUS
  <1> PICK g : g = log'
    OBVIOUS
  <1>1. Typed /\ TypeOK /\ Held /\ (\A c \in Clients : Complete(c)) /\ n \in Nat
    BY TypeFields DEF Keeping, Typed
  <1>2. /\ Len(g) = n + 1 /\ \A i \in 1..n : g[i] = log[i]
        /\ Len(history') = IF Len(history) = HistorySize THEN HistorySize ELSE Len(history) + 1
    BY <1>1, PublishLog
  <1>3. UNCHANGED cursor
    BY DEF Publish
  <1>4. ASSUME NEW c \in Clients
        PROVE  /\ conn'[c].open = conn[c].open
               /\ Pending(conn[c]) \subseteq Pending(conn'[c]) \cup lost'[c]
               /\ Pending(conn'[c]) \subseteq Pending(conn[c]) \cup {n + 1}
               /\ conn[c].open => n + 1 \in Pending(conn'[c])
               /\ lost[c] \subseteq lost'[c] /\ lost'[c] \ lost[c] \subseteq Unseen(c)
               /\ lost'[c] # lost[c] => n + 1 - cursor[c] > QueueSize
    BY <1>1, PublishOrder
  <1>5. ASSUME NEW c \in Clients, conn[c].open, NEW i \in (cursor[c] + 1)..(n + 1), Wants(c, g[i].task)
        PROVE  i \in Pending(conn'[c]) \cup lost'[c] \/ (cursor[c] = 0 /\ \A j \in Pending(conn'[c]) : i < j)
    <2> PICK low \in Nat : low = cursor[c]
      BY <1>1, TypeFields
    <2>1. CASE i = n + 1
      BY <1>4, <1>5, <2>1
    <2>2. CASE i # n + 1
      <3>1. i \in (low + 1)..n /\ i \in 1..n /\ i < n + 1
        BY <1>1, <2>2
      <3>2. Wants(c, log[i].task)
        BY <1>2, <1>5, <3>1
      <3>3. i \in Pending(conn[c]) \cup lost[c] \/ (low = 0 /\ \A j \in Pending(conn[c]) : i < j)
        BY <1>1, <1>5, <3>1, <3>2 DEF Complete, Unseen
      <3>4. CASE i \in Pending(conn[c]) \cup lost[c]
        BY <1>4, <3>4
      <3>5. CASE low = 0 /\ \A j \in Pending(conn[c]) : i < j
        BY <1>4, <3>1, <3>5
      <3> QED BY <3>3, <3>4, <3>5
    <2> QED BY <2>1, <2>2
  <1>6. ASSUME NEW c \in Clients PROVE Complete(c)'
    BY <1>2, <1>3, <1>4, <1>5 DEF Complete, Unseen
  <1>7. Held'
    <2> SUFFICES ASSUME Len(history') < HistorySize, NEW c \in Clients, NEW i \in Unseen(c)',
                        i <= Len(g) - Len(history')
                 PROVE  i \in lost'[c]
      BY DEF Held
    <2> PICK l \in Nat : l = Len(history)
      BY <1>1, TypeFields, LenProperties
    <2>1. l <= HistorySize /\ cursor[c] \in Nat
      BY <1>1, TypeFields
    <2>2. l # HistorySize /\ Len(history') = l + 1
      BY <1>2, Sizes
    <2>3. l < HistorySize
      BY <2>1, <2>2, Sizes
    <2>4. i \in (cursor[c] + 1)..(n + 1) /\ i <= n - l
      BY <1>1, <1>2, <1>3, <2>2 DEF Unseen
    <2>5. i \in Unseen(c)
      BY <1>1, <2>1, <2>4 DEF Unseen
    <2>6. i \in lost[c]
      BY <1>1, <2>3, <2>4, <2>5 DEF Held
    <2> QED BY <1>4, <2>6
  <1>8. Keeping'
    BY <1>1, <1>6, <1>7, PublishTyped DEF Keeping
  <1>9. Costs
    <2>1. ASSUME NEW c \in Clients, lost'[c] # lost[c] PROVE Len(log') - cursor[c] > QueueSize
      <3>1. n + 1 - cursor[c] > QueueSize
        BY <1>4, <2>1
      <3>2. Len(log') = n + 1
        BY <1>2
      <3>3. cursor[c] \in Nat
        BY <1>1, TypeFields
      <3>4. ASSUME NEW m \in Nat, NEW k \in Nat, m = n + 1, n + 1 - k > QueueSize PROVE m - k > QueueSize
        BY <3>4
      <3>5. n + 1 \in Nat
        BY <1>1
      <3>6. Len(log') \in Nat
        BY <3>2, <3>5
      <3> QED BY <3>1, <3>2, <3>3, <3>4, <3>6
    <2>2. \A c \in Clients : lost[c] \subseteq lost'[c] /\ lost'[c] \ lost[c] \subseteq Unseen(c)
      BY <1>4
    <2> QED BY <2>1, <2>2 DEF Costs
  <1>10. Extended
    BY <1>2 DEF Extended
  <1> QED BY <1>3, <1>8, <1>9, <1>10

LEMMA RestartKeeps ==
    ASSUME Keeping, Restart
    PROVE  /\ Keeping' /\ UNCHANGED <<log, cursor>>
           /\ \A c \in Clients : lost[c] \subseteq lost'[c] /\ lost'[c] \ lost[c] \subseteq Unseen(c)
  <1>1. Typed
    BY DEF Keeping
  <1>2. /\ history' = <<>> /\ conn' = [c \in Clients |-> Closed]
        /\ lost' = [c \in Clients |-> lost[c] \cup Unseen(c)] /\ UNCHANGED <<log, cursor>>
    BY DEF Restart
  <1>3. \A c \in Clients : conn'[c].open = FALSE
    BY <1>2, ClosedIs
  <1>4. \A c \in Clients : Complete(c)'
    BY <1>3 DEF Complete
  <1>5. Held'
    <2>1. \A c \in Clients : Unseen(c)' \subseteq lost'[c]
      BY <1>2 DEF Unseen
    <2> QED BY <2>1 DEF Held
  <1> QED BY <1>1, <1>2, <1>4, <1>5, RestartTyped DEF Keeping

LEMMA RestKeeps ==
    ASSUME Keeping, Typed', UNCHANGED <<log, history, conn, cursor, lost>>
    PROVE  Keeping'
  <1>1. Typed /\ TypeOK /\ Held /\ \A c \in Clients : Complete(c)
    BY DEF Keeping, Typed
  <1>2. \A c \in Clients : Complete(c)'
    BY <1>1, CompleteStays
  <1>3. Held'
    <2>1. \A d \in Clients : cursor[d] \in Nat
      BY <1>1, TypeFields
    <2>2. \A n \in Nat : n <= n
      OBVIOUS
    <2>3. \A d \in Clients : cursor'[d] \in Nat /\ cursor[d] <= cursor'[d] /\ lost[d] \subseteq lost'[d]
      BY <2>1, <2>2
    <2> QED BY <1>1, <2>3, HeldStays
  <1> QED BY <1>2, <1>3 DEF Keeping

------------------------------------------------------------------------------
(* The refinement.                                                          *)

\* The log of the promise: the tasks of the events.
TasksOf(g) == [i \in DOMAIN g |-> g[i].task]

LEMMA TasksOfIs ==
    ASSUME NEW g \in Seq(Event)
    PROVE  /\ Len(TasksOf(g)) = Len(g) /\ DOMAIN TasksOf(g) = 1..Len(g) /\ Len(g) \in Nat
           /\ \A i \in 1..Len(g) : TasksOf(g)[i] = g[i].task
           /\ TasksOf(g) \in Seq(Tasks)
  <1>1. DOMAIN g = 1..Len(g) /\ Len(g) \in Nat /\ \A i \in 1..Len(g) : g[i] \in Event
    BY LenProperties, ElementOfSeq
  <1>2. \A e \in Event : e.task \in Tasks
    BY StreamAssumption DEF Event
  <1>3. /\ DOMAIN TasksOf(g) = 1..Len(g) /\ \A i \in 1..Len(g) : TasksOf(g)[i] = g[i].task
        /\ TasksOf(g) \in [1..Len(g) -> Tasks]
    BY <1>1, <1>2 DEF TasksOf
  <1>4. TasksOf(g) \in Seq(Tasks)
    BY <1>1, <1>3, IsASeq
  <1>5. Len(TasksOf(g)) = Len(g)
    BY <1>1, <1>3, <1>4, LenProperties
  <1> QED BY <1>1, <1>3, <1>4, <1>5

LEMMA PromisedPublish ==
    ASSUME Typed, Typed', UNCHANGED cursor, Extended, Costs
    PROVE  Promise!Publish
  <1> USE DEF Extended, Costs
  <1>1. log \in Seq(Event) /\ log' \in Seq(Event) /\ \A c \in Clients : cursor[c] \in Nat
    BY TypeFields DEF Typed, TypeOK
  <1> PICK n \in Nat : n = Len(log)
    BY <1>1, LenProperties
  <1> PICK t : t = TasksOf(log)
    OBVIOUS
  <1> PICK u : u = TasksOf(log')
    OBVIOUS
  <1>2. /\ Len(t) = n /\ DOMAIN t = 1..n /\ t \in Seq(Tasks) /\ \A i \in 1..n : t[i] = log[i].task
        /\ Len(u) = n + 1 /\ u \in Seq(Tasks) /\ \A i \in 1..(n + 1) : u[i] = log'[i].task
    BY <1>1, TasksOfIs
  <1>3. SubSeq(u, 1, n) = t
    <2>1. \A i \in 1..n : u[i] \in Tasks /\ u[i] = t[i]
      <3>1. \A i \in 1..n : i \in 1..(n + 1)
        OBVIOUS
      <3> QED BY <1>2, <3>1, ElementOfSeq
    <2> PICK v : v = SubSeq(u, 1, n)
      OBVIOUS
    <2>2. v \in Seq(Tasks) /\ Len(v) = (IF 1 <= n THEN n - 1 + 1 ELSE 0) /\ \A i \in 1..(n - 1 + 1) : v[i] = u[1 + i - 1]
      <3>1. 1 \in Int /\ n \in Int
        OBVIOUS
      <3>2. \A i \in 1..n : u[i] \in Tasks
        BY <2>1
      <3>3. /\ SubSeq(u, 1, n) \in Seq(Tasks) /\ Len(SubSeq(u, 1, n)) = (IF 1 <= n THEN n - 1 + 1 ELSE 0)
            /\ \A i \in 1..(n - 1 + 1) : SubSeq(u, 1, n)[i] = u[1 + i - 1]
        BY <3>1, <3>2, SubSeqProperties
      <3> QED BY <3>3
    <2>3. Len(v) = n /\ \A i \in 1..n : v[i] = t[i]
      <3>1. n - 1 + 1 = n /\ \A i \in 1..n : 1 + i - 1 = i
        OBVIOUS
      <3> QED BY <2>1, <2>2, <3>1
    <2>4. v = t
      BY <1>2, <2>2, <2>3, SeqEqual
    <2> QED BY <2>4
  <1>4. \A c \in Clients : Unseen(c) = (cursor[c] + 1)..Len(t)
    BY <1>2 DEF Unseen
  <1>5. ASSUME NEW c \in Clients, lost'[c] # lost[c]
        PROVE  /\ lost[c] \subseteq lost'[c] /\ lost'[c] \ lost[c] \subseteq (cursor[c] + 1)..Len(t)
               /\ Len(u) - cursor[c] > Smaller(QueueSize, HistorySize)
    <2>1. Len(u) - cursor[c] > QueueSize
      BY <1>2, <1>5
    <2>2. Smaller(QueueSize, HistorySize) \in Nat /\ Smaller(QueueSize, HistorySize) <= QueueSize
      BY Sizes DEF Smaller
    <2>3. Len(u) - cursor[c] > Smaller(QueueSize, HistorySize)
      BY <1>1, <1>2, <2>1, <2>2, Sizes
    <2> QED BY <1>4, <2>3
  <1> QED BY <1>2, <1>3, <1>5 DEF Promise!Publish, Promise!Losing, Promise!Behind, TasksOf

\* Steps that the promise does not see.
LEMMA Unpromised == ASSUME UNCHANGED <<log, cursor, lost>> PROVE UNCHANGED Promise!promise
  BY DEF Promise!promise

LEMMA PromisedSee ==
    ASSUME Typed, NEW c \in Clients, Sees(c)
    PROVE  Promise!See(c)
  <1>1. log \in Seq(Event)
    BY DEF Typed, TypeOK
  <1> PICK t : t = TasksOf(log)
    OBVIOUS
  <1> PICK n \in Nat : n = Len(log)
    BY <1>1, LenProperties
  <1> PICK low : low = cursor[c]
    OBVIOUS
  <1>2. low \in Nat
    BY TypeFields DEF Typed
  <1>3. Len(t) = n /\ \A i \in 1..n : t[i] = log[i].task
    BY <1>1, TasksOfIs
  <1> PICK x : x = cursor'[c]
    OBVIOUS
  <1>4. x \in (low + 1)..n /\ x \in 1..n
    BY <1>2 DEF Sees
  <1>5. Wants(c, t[x])
    BY <1>3, <1>4 DEF Sees
  <1>6. ASSUME low # 0, NEW i \in (low + 1)..(x - 1), Wants(c, t[i]) PROVE i \in lost[c]
    <2>1. i \in 1..n
      BY <1>2, <1>4
    <2> QED BY <1>3, <1>6, <2>1 DEF Sees
  <1>7. UNCHANGED <<log, lost>> /\ \A d \in Clients \ {c} : cursor'[d] = cursor[d]
    BY DEF Sees
  <1> QED BY <1>3, <1>4, <1>5, <1>6, <1>7 DEF Promise!See, Promise!Behind, TasksOf

LEMMA BehindIs ==
    ASSUME Typed, NEW c \in Clients
    PROVE  /\ Promise!Behind(c) = Unseen(c)
           /\ Len([i \in DOMAIN log |-> log[i].task]) = Len(log)
  <1>1. log \in Seq(Event)
    BY DEF Typed, TypeOK
  <1>2. Len(TasksOf(log)) = Len(log)
    BY <1>1, TasksOfIs
  <1> QED BY <1>2 DEF TasksOf, Promise!Behind, Unseen

LEMMA SmallerIs == Smaller(QueueSize, HistorySize) \in Nat /\ Smaller(QueueSize, HistorySize) <= HistorySize
  BY Sizes DEF Smaller

LEMMA PromisedConnect ==
    ASSUME Keeping, NEW c \in Clients, Connect(c)
    PROVE  UNCHANGED Promise!promise \/ Promise!FallBehind(c)
  <1>1. /\ UNCHANGED <<log, cursor>> /\ \A d \in Clients \ {c} : lost'[d] = lost[d]
        /\ lost[c] \subseteq lost'[c] /\ lost'[c] \ lost[c] \subseteq Unseen(c)
        /\ lost'[c] # lost[c] => Len(log) - cursor[c] > HistorySize
    BY ConnectKeeps
  <1>2. Typed /\ Typed'
    BY ConnectKeeps DEF Keeping
  <1>3. CASE lost'[c] = lost[c]
    <2>1. \A d \in Clients : lost'[d] = lost[d]
      BY <1>1, <1>3
    <2>2. /\ lost = [d \in Clients |-> lost[d]] /\ lost' = [d \in Clients |-> lost'[d]]
      <3>1. lost \in [Clients -> SUBSET Ids] /\ lost' \in [Clients -> SUBSET Ids]
        BY <1>2 DEF Typed, TypeOK
      <3> QED BY <3>1
    <2>3. UNCHANGED lost
      BY <2>1, <2>2
    <2> QED BY <1>1, <2>3, Unpromised
  <1>4. CASE lost'[c] # lost[c]
    <2>1. cursor[c] \in Nat /\ Len(log) \in Nat
      BY <1>2, TypeFields DEF Typed
    <2>2. ASSUME NEW n \in Nat, NEW low \in Nat, NEW s \in Nat, n - low > HistorySize, s <= HistorySize
          PROVE  n - low > s
      BY <2>2, Sizes
    <2>3. Len(log) - cursor[c] > HistorySize
      BY <1>1, <1>4
    <2>4. Len(log) - cursor[c] > Smaller(QueueSize, HistorySize)
      BY <2>1, <2>2, <2>3, SmallerIs
    <2>5. Len([i \in DOMAIN log |-> log[i].task]) - cursor[c] > Smaller(QueueSize, HistorySize)
      BY <1>2, <2>4, BehindIs
    <2>6. Promise!Losing(c)
      BY <1>1, <1>2, BehindIs DEF Promise!Losing
    <2>7. UNCHANGED <<[i \in DOMAIN log |-> log[i].task], cursor>>
      BY <1>1
    <2> QED BY <1>1, <2>5, <2>6, <2>7 DEF Promise!FallBehind
  <1> QED BY <1>3, <1>4

LEMMA PromisedRestart ==
    ASSUME Keeping, Restart
    PROVE  Promise!ProcessDown
  <1>1. /\ UNCHANGED <<log, cursor>>
        /\ \A c \in Clients : lost[c] \subseteq lost'[c] /\ lost'[c] \ lost[c] \subseteq Unseen(c)
    BY RestartKeeps
  <1>2. Typed
    BY DEF Keeping
  <1>3. \A c \in Clients : Promise!Losing(c)
    BY <1>1, <1>2, BehindIs DEF Promise!Losing
  <1>4. UNCHANGED <<[i \in DOMAIN log |-> log[i].task], cursor>>
    BY <1>1
  <1> QED BY <1>3, <1>4 DEF Promise!ProcessDown

LEMMA InitKept == ASSUME Init PROVE Keeping /\ Promise!Init
  <1>1. Typed
    BY InitTyped
  <1>2. Keeping
    <2>1. log = <<>> /\ conn = [c \in Clients |-> Closed] /\ cursor = [c \in Clients |-> 0]
      BY DEF Init
    <2>2. \A c \in Clients : conn[c].open = FALSE /\ Unseen(c) = {}
      <3>1. Len(log) = 0
        BY <2>1
      <3>2. (0 + 1)..0 = {}
        OBVIOUS
      <3> QED BY <2>1, <3>1, <3>2, ClosedIs DEF Unseen
    <2> QED BY <1>1, <2>2 DEF Keeping, Held, Complete
  <1>3. Promise!Init
    BY DEF Promise!Init, Init
  <1> QED BY <1>2, <1>3

\* Each step of the stream keeps the invariant, and is a step of the promise or none.
LEMMA StreamStep == Keeping /\ [Next]_vars => Keeping' /\ [Promise!Next]_(Promise!promise)
  <1> SUFFICES ASSUME Keeping, [Next]_vars PROVE Keeping' /\ [Promise!Next]_(Promise!promise)
    OBVIOUS
  <1>1. Typed /\ Typed'
    BY TypedStep DEF Keeping
  <1>2. ASSUME NEW e \in Event, Publish(e) PROVE Keeping' /\ Promise!Next
    <2>1. Keeping' /\ UNCHANGED cursor /\ Extended /\ Costs
      BY <1>2, PublishKeeps
    <2>2. Promise!Publish
      BY <1>1, <2>1, PromisedPublish
    <2> QED BY <2>1, <2>2 DEF Promise!Next
  <1>3. ASSUME NEW c \in Clients, Connect(c) PROVE Keeping' /\ [Promise!Next]_(Promise!promise)
    <2>1. Keeping'
      BY <1>3, ConnectKeeps
    <2>2. UNCHANGED Promise!promise \/ Promise!FallBehind(c)
      BY <1>3, PromisedConnect
    <2> QED BY <2>1, <2>2 DEF Promise!Next
  <1>4. ASSUME NEW c \in Clients, SendReplay(c) PROVE Keeping' /\ UNCHANGED Promise!promise
    <2>1. UNCHANGED <<log, cursor, lost>>
      BY <1>4 DEF SendReplay
    <2> QED BY <1>4, <2>1, SendReplayKeeps, Unpromised
  <1>5. ASSUME NEW c \in Clients, SendLive(c) PROVE Keeping' /\ UNCHANGED Promise!promise
    <2>1. UNCHANGED <<log, cursor, lost>>
      BY <1>5 DEF SendLive
    <2> QED BY <1>5, <2>1, SendLiveKeeps, Unpromised
  <1>6. ASSUME NEW c \in Clients, Receive(c) PROVE Keeping' /\ Promise!Next
    <2>1. Keeping' /\ Sees(c)
      BY <1>6, ReceiveKeeps
    <2>2. Promise!See(c)
      BY <1>1, <2>1, PromisedSee
    <2> QED BY <2>1, <2>2 DEF Promise!Next
  <1>7. ASSUME NEW c \in Clients, Break(c) PROVE Keeping' /\ UNCHANGED Promise!promise
    <2>1. UNCHANGED <<log, cursor, lost>>
      BY <1>7 DEF Break
    <2> QED BY <1>7, <2>1, BreakKeeps, Unpromised
  <1>8. ASSUME NEW l \in Loops, Take(l) \/ Write(l) \/ Raise(l) PROVE Keeping' /\ UNCHANGED Promise!promise
    <2>1. UNCHANGED <<log, history, conn, cursor, lost>>
      BY <1>8 DEF Take, Write, Raise
    <2>2. UNCHANGED <<log, cursor, lost>>
      BY <2>1
    <2> QED BY <1>1, <2>1, <2>2, RestKeeps, Unpromised
  <1>9. ASSUME Restart PROVE Keeping' /\ Promise!Next
    <2>1. Keeping' /\ Promise!ProcessDown
      BY <1>9, RestartKeeps, PromisedRestart
    <2> QED BY <2>1 DEF Promise!Next
  <1>10. ASSUME UNCHANGED vars PROVE Keeping' /\ UNCHANGED Promise!promise
    <2>1. UNCHANGED <<log, history, conn, cursor, lost>>
      BY <1>10 DEF vars
    <2>2. UNCHANGED <<log, cursor, lost>>
      BY <2>1
    <2> QED BY <1>1, <2>1, <2>2, RestKeeps, Unpromised
  <1>11. CASE Next
    BY <1>2, <1>3, <1>4, <1>5, <1>6, <1>7, <1>8, <1>9, <1>11 DEF Next, Serve
  <1> QED BY <1>10, <1>11

\* For every number of tasks, clients and events, and every size of queue and history, the
\* stream implements its promise: what a client receives comes in order and never twice, and
\* only a client further behind than the smaller of queue and history, or one that a restart
\* has left behind, loses anything (event_stream, EventBus.publish, history_after).
THEOREM StreamKeepsPromise == Spec => KeepsPromise
  <1>1. Init => Keeping /\ Promise!Init
    BY InitKept
  <1> QED BY <1>1, StreamStep, PTL DEF Spec, KeepsPromise, Promise!Spec

==============================================================================
