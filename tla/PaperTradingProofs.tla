------------------------- MODULE PaperTradingProofs -------------------------
(***************************************************************************)
(* What TLAPS proves of PaperTrading, for any operations, orders, prices   *)
(* and limits: no portfolio is overdrawn, each is explained by fills of    *)
(* which no two are of one order, the limit on positions holds, and        *)
(* settled orders rest.                                                    *)
(***************************************************************************)
EXTENDS PaperTrading, FiniteSetTheorems, WellFoundedInduction, TLAPS

------------------------------------------------------------------------------
(* Orders and operations.                                                   *)

ClientState == [op : Trades \cup {"none", "close", "cancel", "pause", "recheck"}, at : Points,
                book : Books \cup {NoBook}, copy : Book, order : 0..MaxOrders, status : Status,
                todo : SUBSET (1..MaxOrders), dirty : BOOLEAN]

\* An operation that made its order itself, and has not saved it yet.
Making(k) == k.at = "quote" \/ (k.at = "save" /\ k.op \in Trades \cup {"close"})

\* An operation whose copy may still be saved.
Carries(k) == k.at = "quote" \/ (k.op \in {"close", "recheck"} /\ k.at \in {"list", "sweep", "save"})

\* What an operation holds: an order it made is unsaved, any other has been saved, and the
\* orders on its list are ones that did not trigger at once.
Sound(k) ==
    /\ k.order \in 0..made /\ k.todo \subseteq 1..made
    /\ k.at \in {"idle", "create"} => k.todo = {} /\ ~k.dirty
    /\ k.at = "create" => k.op \in Ops \ {"cancel"}
    /\ k.at = "quote" => k.op \in Trades \cup {"close"}
    /\ k.at = "list" => k.op \in {"recheck", "pause"} /\ k.todo = {}
    /\ k.dirty => k.op = "recheck"
    /\ k.todo # {} => k.op \in {"recheck", "pause"}
    /\ Carries(k) => k.book \in Books
    /\ k.at \in {"quote", "save"} => k.order # 0
    /\ Making(k) => orders[k.order].status = Unsaved
    /\ k.at = "quote" => orders[k.order].order.book = k.book
    /\ k.at = "save" => k.status # Unsaved
    /\ k.at = "save" /\ k.status = "pending" => Making(k) /\ orders[k.order].order.type # "market"
    /\ k.at = "save" /\ ~Making(k) => orders[k.order].status # Unsaved
    /\ \A n \in k.todo : /\ orders[n].status # Unsaved /\ orders[n].order.book = k.book
                         /\ orders[n].order.type # "market"

BooksTyped ==
    /\ portfolios \in [Books -> SUBSET Book]
    /\ \A b \in Books : Cardinality(portfolios[b]) <= 1
    /\ newest \in Books \cup {NoBook}
    /\ triggered \in BOOLEAN

\* Market orders trigger at once, and only they have passed the risk rules.
OrdersTyped ==
    /\ made \in 0..MaxOrders
    /\ orders \in [1..made -> Row]
    /\ \A n \in 1..made : /\ orders[n].status = "pending" => orders[n].order.type # "market"
                          /\ orders[n].order.checked => orders[n].order.type = "market"

FillsTyped == fills \subseteq Fill /\ \A f \in fills : f.order \in 1..made

ClientsTyped ==
    /\ client \in [Clients -> ClientState]
    /\ \A c \in Clients : Sound(client[c])
    /\ \A c, d \in Clients :
        Making(client[c]) /\ Making(client[d]) /\ client[c].order = client[d].order => c = d

Typed == BooksTyped /\ OrdersTyped /\ FillsTyped /\ ClientsTyped

------------------------------------------------------------------------------
(* Portfolios.                                                              *)

FillsOf(b) == {f \in fills : orders[f.order].order.book = b}

\* An order that may yet be listed as pending, or filled by the operation that made it.
Open(n) ==
    \/ orders[n].status = "pending"
    \/ \E c \in Clients : /\ Making(client[c]) /\ client[c].order = n
                          /\ client[c].at = "quote" \/ client[c].status = "pending"

\* The order that a recheck has filled on its copy and is about to save; the ones on its list
\* it has not counted.
OwnOf(k) == IF k.op = "recheck" /\ k.at = "save" THEN {k.order} ELSE {}
CopySound(k) ==
    \E S \in SUBSET FillsOf(k.book) :
        /\ Explains(k.copy, S)
        /\ \A f \in S : f.order \notin k.todo /\ (~Open(f.order) \/ f.order \in OwnOf(k))

Accounts(copy, b) ==
    \E S \in SUBSET FillsOf(b) : Explains(copy, S) /\ \A f \in S : ~Open(f.order)

Accounted ==
    /\ Typed
    /\ \A b \in Books : \A book \in portfolios[b] : Accounts(book, b)
    /\ \A c \in Clients : Carries(client[c]) => CopySound(client[c])

\* The limit on positions, of the portfolios, of the copies that may be saved, and of the
\* copy after the order at hand.
Within(b, copy) ==
    \/ Cardinality(Held(copy)) <= MaxOpen
    \/ \E f \in FillsOf(b) : ~orders[f.order].order.checked

Bounded(k) ==
    LET o == orders[k.order].order IN
    k.at = "quote" /\ o.checked /\ o.side = "buy" => Cardinality(Held(k.copy) \cup {o.symbol}) <= MaxOpen

Limiting ==
    /\ Typed
    /\ \A b \in Books : \A book \in portfolios[b] : Within(b, book)
    /\ \A c \in Clients : /\ Carries(client[c]) => Within(client[c].book, client[c].copy)
                          /\ Bounded(client[c])

------------------------------------------------------------------------------
(* Sums.                                                                    *)

Below == {p \in Nat \X Nat : p[1] < p[2]}

LEMMA Least == ASSUME NEW T \in SUBSET Nat, T # {} PROVE \E x \in T : \A y \in T : x <= y
  <1>1. IsWellFoundedOn(Below, Nat)
    BY NatLessThanWellFounded DEF OpToRel, Below
  <1>2. PICK x \in T : \A y \in T : ~(<<y, x>> \in Below)
    BY <1>1, WFMin
  <1>3. \A m, n \in Nat : <<m, n>> \in Below <=> m < n
    BY DEF Below
  <1>4. \A m, n \in Nat : ~(m < n) => n <= m
    OBVIOUS
  <1>5. ASSUME NEW y \in T PROVE x <= y
    <2>1. x \in Nat /\ y \in Nat /\ <<y, x>> \notin Below
      BY <1>2
    <2> QED BY <1>3, <1>4, <2>1, Zenon
  <1> QED BY <1>5

\* What holds at zero and goes on from each number to the next holds up to any bound.
LEMMA UpTo ==
    ASSUME NEW N \in Nat, NEW T, 0 \in T, \A n \in 1..N : n - 1 \in T => n \in T
    PROVE  0..N \subseteq T
  <1> DEFINE B == {n \in 0..N : n \notin T}
  <1> SUFFICES ASSUME B # {} PROVE FALSE
    OBVIOUS
  <1>1. B \in SUBSET Nat
    OBVIOUS
  <1> HIDE DEF B
  <1>2. PICK n \in B : \A m \in B : n <= m
    BY <1>1, Least
  <1>3. n \in 0..N /\ n \notin T
    BY <1>2 DEF B
  <1>4. n \in 1..N /\ n - 1 \in 0..N
    BY <1>3
  <1>5. n - 1 \notin B
    BY <1>2, <1>4, <1>1
  <1> QED BY <1>3, <1>4, <1>5 DEF B

\* The sum of what each order came to, as a table of partial sums.
Adds(s, amount) ==
    /\ s[0] = 0
    /\ \A n \in 1..MaxOrders : s[n] = s[n - 1] + amount[n]

LEMMA Assumed ==
    /\ MaxOrders \in Nat /\ MaxBooks \in Nat /\ MaxOpen \in Nat /\ Charge \in Nat /\ Start \in Nat
    /\ Prices \subseteq Nat \ {0} /\ Quantities \subseteq Nat \ {0}
    /\ \A p \in Prices : p - Charge \in Nat /\ p + Charge \in Nat
    /\ IsFiniteSet(Symbols)
  BY PaperAssumption

LEMMA SumIs ==
    ASSUME NEW amount \in [1..MaxOrders -> Int]
    PROVE  \E s \in [0..MaxOrders -> Int] : Adds(s, amount) /\ Sum(amount) = s[MaxOrders]
  <1> DEFINE T == {n \in 0..MaxOrders : \E s \in [0..MaxOrders -> Int] :
                      s[0] = 0 /\ \A i \in 1..n : s[i] = s[i - 1] + amount[i]}
             D == 0..MaxOrders
  <1>1. MaxOrders \in Nat
    BY Assumed
  <1>2. 0 \in T
    <2> DEFINE z == [n \in D |-> 0]
    <2>1. z \in [D -> Int] /\ z[0] = 0 /\ \A i \in 1..0 : z[i] = z[i - 1] + amount[i]
      BY <1>1
    <2>2. 0 \in 0..MaxOrders
      BY <1>1
    <2> HIDE DEF z
    <2> QED BY <2>1, <2>2
  <1>3. ASSUME NEW n \in 1..MaxOrders, n - 1 \in T
        PROVE  n \in T
    <2>1. PICK s \in [D -> Int] : s[0] = 0 /\ \A i \in 1..(n - 1) : s[i] = s[i - 1] + amount[i]
      BY <1>3
    <2> DEFINE r == [s EXCEPT ![n] = s[n - 1] + amount[n]]
    <2>2. n \in D /\ n - 1 \in D /\ n # 0 /\ s[n - 1] + amount[n] \in Int
      BY <1>1, <2>1
    <2>3. r \in [D -> Int] /\ r[n] = s[n - 1] + amount[n] /\ \A i \in D : i # n => r[i] = s[i]
      BY <2>1, <2>2
    <2> HIDE DEF r
    <2>4. ASSUME NEW i \in 1..n PROVE r[i] = r[i - 1] + amount[i]
      <3>1. i \in D /\ i - 1 \in D /\ i - 1 # n
        BY <1>1
      <3>2. CASE i = n
        BY <2>2, <2>3, <3>1, <3>2
      <3>3. CASE i # n
        BY <2>1, <2>3, <3>1, <3>3
      <3> QED BY <3>2, <3>3
    <2>5. r[0] = 0
      BY <1>1, <2>1, <2>2, <2>3
    <2> QED BY <2>2, <2>3, <2>4, <2>5
  <1>4. MaxOrders \in T
    <2>1. 0..MaxOrders \subseteq T
      <3> HIDE DEF T
      <3> QED BY <1>1, <1>2, <1>3, UpTo
    <2>2. MaxOrders \in 0..MaxOrders
      BY <1>1
    <2> HIDE DEF T
    <2> QED BY <2>1, <2>2
  <1>5. PICK s \in [D -> Int] : s[0] = 0 /\ \A i \in 1..MaxOrders : s[i] = s[i - 1] + amount[i]
    BY <1>4, Zenon
  <1> DEFINE Is(t) == t = [n \in 0..MaxOrders |-> IF n = 0 THEN 0 ELSE t[n - 1] + amount[n]]
             t == CHOOSE u : Is(u)
  <1>6. Is(s)
    <2>1. \A n \in D : s[n] = IF n = 0 THEN 0 ELSE s[n - 1] + amount[n]
      BY <1>1, <1>5
    <2> QED BY <1>5, <2>1
  <1>7. Is(t)
    <2> HIDE DEF Is
    <2> QED BY <1>6
  <1>8. Sum(amount) = t[MaxOrders]
    BY DEF Sum
  <1> HIDE DEF t
  <1>9. t[0] = 0 /\ \A n \in 1..MaxOrders : t[n] = t[n - 1] + amount[n]
    BY <1>1, <1>7
  <1>10. t \in [D -> Int]
    <2> DEFINE V == {n \in D : t[n] \in Int}
    <2>1. \A n \in 1..MaxOrders : n \in D /\ n - 1 \in D /\ amount[n] \in Int
      BY <1>1
    <2>3. 0 \in V
      BY <1>1, <1>9
    <2>4. \A n \in 1..MaxOrders : n - 1 \in V => n \in V
      BY <1>9, <2>1
    <2>2. D \subseteq V
      <3> HIDE DEF V
      <3> QED BY <1>1, <2>3, <2>4, UpTo
    <2> QED BY <1>7, <2>2
  <1> QED BY <1>8, <1>9, <1>10 DEF Adds

LEMMA SumAdds ==
    ASSUME NEW amount \in [1..MaxOrders -> Int], NEW s \in [0..MaxOrders -> Int], Adds(s, amount)
    PROVE  Sum(amount) = s[MaxOrders]
  <1>1. MaxOrders \in Nat
    BY Assumed
  <1>2. PICK t \in [0..MaxOrders -> Int] : Adds(t, amount) /\ Sum(amount) = t[MaxOrders]
    BY SumIs
  <1> DEFINE T == {n \in 0..MaxOrders : t[n] = s[n]}
  <1>3. 0 \in T /\ \A n \in 1..MaxOrders : n - 1 \in T => n \in T
    BY <1>1, <1>2 DEF Adds
  <1>4. 0..MaxOrders \subseteq T
    <2> HIDE DEF T
    <2> QED BY <1>1, <1>3, UpTo
  <1> QED BY <1>1, <1>2, <1>4

LEMMA SumOfNone ==
    ASSUME NEW amount \in [1..MaxOrders -> Int], \A n \in 1..MaxOrders : amount[n] = 0
    PROVE  Sum(amount) = 0
  <1> DEFINE z == [n \in 0..MaxOrders |-> 0]
  <1>1. MaxOrders \in Nat
    BY Assumed
  <1>2. z \in [0..MaxOrders -> Int] /\ Adds(z, amount) /\ z[MaxOrders] = 0
    BY <1>1 DEF Adds
  <1> HIDE DEF z
  <1> QED BY <1>2, SumAdds

\* One order more counts for what it came to.
LEMMA SumOfOneMore ==
    ASSUME NEW amount \in [1..MaxOrders -> Int], NEW k \in 1..MaxOrders, NEW d \in Int, amount[k] = 0
    PROVE  Sum([amount EXCEPT ![k] = d]) = Sum(amount) + d
  <1>1. MaxOrders \in Nat
    BY Assumed
  <1>2. PICK s \in [0..MaxOrders -> Int] : Adds(s, amount) /\ Sum(amount) = s[MaxOrders]
    BY SumIs
  <1> DEFINE more == [amount EXCEPT ![k] = d]
             r == [n \in 0..MaxOrders |-> IF n < k THEN s[n] ELSE s[n] + d]
  <1>3. /\ more \in [1..MaxOrders -> Int] /\ more[k] = d
        /\ \A n \in 1..MaxOrders : n # k => more[n] = amount[n]
    OBVIOUS
  <1>4. /\ r \in [0..MaxOrders -> Int] /\ r[MaxOrders] = s[MaxOrders] + d /\ r[0] = 0
    BY <1>1, <1>2 DEF Adds
  <1> HIDE DEF more
  <1>5. ASSUME NEW n \in 1..MaxOrders PROVE r[n] = r[n - 1] + more[n]
    <2>1. n \in 0..MaxOrders /\ n - 1 \in 0..MaxOrders /\ s[n] = s[n - 1] + amount[n]
      BY <1>1, <1>2 DEF Adds
    <2>2. CASE n < k
      BY <1>3, <2>1, <2>2
    <2>3. CASE n = k
      BY <1>3, <2>1, <2>3
    <2>4. CASE n > k
      BY <1>3, <2>1, <2>4
    <2> QED BY <2>2, <2>3, <2>4
  <1> HIDE DEF r
  <1>6. Sum(more) = r[MaxOrders]
    BY <1>3, <1>4, <1>5, SumAdds DEF Adds
  <1> QED BY <1>2, <1>4, <1>6 DEF more

------------------------------------------------------------------------------
(* Fills.                                                                   *)

OneOfEach(S) == \A f, g \in S : f.order = g.order => f = g

LEMMA FillTypes ==
    ASSUME NEW f \in Fill
    PROVE  f.order \in 1..MaxOrders /\ f.cash \in Int /\ f.symbol \in Symbols /\ f.units \in Int
  BY DEF Fill

LEMMA FillInIs ==
    ASSUME NEW S, OneOfEach(S), NEW g \in S, NEW n, n = g.order
    PROVE  FillIn(S, n) = g
  BY DEF FillIn, OneOfEach

LEMMA SumMore ==
    ASSUME NEW a \in [1..MaxOrders -> Int], NEW b \in [1..MaxOrders -> Int],
           NEW k \in 1..MaxOrders, a[k] = 0, \A n \in 1..MaxOrders : n # k => b[n] = a[n]
    PROVE  Sum(b) = Sum(a) + b[k]
  <1>1. b = [a EXCEPT ![k] = b[k]] /\ b[k] \in Int
    OBVIOUS
  <1> DEFINE d == b[k]
  <1>2. Sum([a EXCEPT ![k] = d]) = Sum(a) + d
    <2>1. d \in Int
      BY <1>1
    <2> HIDE DEF d
    <2> QED BY <2>1, SumOfOneMore
  <1> QED BY <1>1, <1>2

LEMMA CashAt ==
    ASSUME NEW S \in SUBSET Fill, OneOfEach(S)
    PROVE  /\ Cash(S) \in [1..MaxOrders -> Int]
           /\ \A g \in S : Cash(S)[g.order] = g.cash
           /\ \A n \in 1..MaxOrders : (\A g \in S : g.order # n) => Cash(S)[n] = 0
  <1> DEFINE has(n) == \E f \in S : f.order = n
  <1>1. ASSUME NEW n \in 1..MaxOrders, has(n) PROVE FillIn(S, n).cash \in Int
    <2>1. PICK g \in S : g.order = n
      BY <1>1
    <2>2. FillIn(S, n) = g
      BY <2>1, FillInIs
    <2> QED BY <2>2, FillTypes
  <1>2. ASSUME NEW g \in S PROVE g.order \in 1..MaxOrders /\ FillIn(S, g.order) = g
    BY FillInIs, FillTypes
  <1> QED BY <1>1, <1>2 DEF Cash

LEMMA UnitsAt ==
    ASSUME NEW S \in SUBSET Fill, OneOfEach(S), NEW s \in Symbols
    PROVE  /\ Units(S, s) \in [1..MaxOrders -> Int]
           /\ \A g \in S : Units(S, s)[g.order] = IF g.symbol = s THEN g.units ELSE 0
           /\ \A n \in 1..MaxOrders : (\A g \in S : g.order # n) => Units(S, s)[n] = 0
  <1> DEFINE has(n) == \E f \in S : f.order = n
  <1>1. ASSUME NEW n \in 1..MaxOrders, has(n) PROVE FillIn(S, n).units \in Int
    <2>1. PICK g \in S : g.order = n
      BY <1>1
    <2>2. FillIn(S, n) = g
      BY <2>1, FillInIs
    <2> QED BY <2>2, FillTypes
  <1>2. ASSUME NEW g \in S PROVE g.order \in 1..MaxOrders /\ FillIn(S, g.order) = g
    BY FillInIs, FillTypes
  <1> QED BY <1>1, <1>2 DEF Units

LEMMA ExplainsNone ==
    ASSUME NEW book, book = [Empty EXCEPT !.cash = Start]
    PROVE  Explains(book, {})
  <1>1. book.cash = Start /\ \A s \in Symbols : book.held[s] = 0
    BY DEF Empty
  <1>2. {} \in SUBSET Fill /\ OneOfEach({})
    BY DEF OneOfEach
  <1>3. Sum(Cash({})) = 0
    BY <1>2, CashAt, SumOfNone
  <1>4. ASSUME NEW s \in Symbols PROVE Sum(Units({}, s)) = 0
    BY <1>2, UnitsAt, SumOfNone
  <1>5. Start \in Nat
    BY Assumed
  <1> QED BY <1>1, <1>3, <1>4, <1>5 DEF Explains

\* A fill of an order that has not been counted yet explains what it does to a copy.
LEMMA ExplainsMore ==
    ASSUME NEW copy \in Book, NEW S \in SUBSET Fill, Explains(copy, S),
           NEW f \in Fill, \A g \in S : g.order # f.order
    PROVE  Explains(Applied(copy, f), S \cup {f})
  <1> DEFINE T == S \cup {f}
  <1>1. T \in SUBSET Fill /\ OneOfEach(S) /\ OneOfEach(T)
    BY DEF OneOfEach, Explains
  <1>2. f.order \in 1..MaxOrders /\ f.cash \in Int /\ f.symbol \in Symbols /\ f.units \in Int
    BY FillTypes
  <1>3. Sum(Cash(T)) = Sum(Cash(S)) + f.cash
    <2>1. Cash(S) \in [1..MaxOrders -> Int] /\ Cash(S)[f.order] = 0
      BY <1>1, <1>2, CashAt
    <2>2. Cash(T) \in [1..MaxOrders -> Int] /\ Cash(T)[f.order] = f.cash
      <3>1. f \in T
        OBVIOUS
      <3> HIDE DEF T
      <3> QED BY <1>1, <3>1, CashAt
    <2>3. ASSUME NEW n \in 1..MaxOrders, n # f.order PROVE Cash(T)[n] = Cash(S)[n]
      <3>1. CASE \E g \in S : g.order = n
        <4>1. PICK g \in S : g.order = n
          BY <3>1
        <4> QED BY <1>1, <4>1, CashAt
      <3>2. CASE \A g \in S : g.order # n
        BY <1>1, <2>3, <3>2, CashAt
      <3> QED BY <3>1, <3>2
    <2>4. PICK a, b : a = Cash(S) /\ b = Cash(T)
      OBVIOUS
    <2> HIDE DEF T
    <2>5. Sum(b) = Sum(a) + b[f.order]
      BY <1>2, <2>1, <2>2, <2>3, <2>4, SumMore
    <2> QED BY <2>2, <2>4, <2>5
  <1>4. ASSUME NEW s \in Symbols
        PROVE  /\ Sum(Units(T, s)) = Sum(Units(S, s)) + (IF s = f.symbol THEN f.units ELSE 0)
               /\ Sum(Units(S, s)) \in Int
    <2> DEFINE d == IF s = f.symbol THEN f.units ELSE 0
    <2>1. Units(S, s) \in [1..MaxOrders -> Int] /\ Units(S, s)[f.order] = 0
      BY <1>1, <1>2, UnitsAt
    <2>2. Units(T, s) \in [1..MaxOrders -> Int] /\ Units(T, s)[f.order] = d /\ d \in Int
      <3>1. f \in T
        OBVIOUS
      <3> HIDE DEF T
      <3> QED BY <1>1, <1>2, <3>1, UnitsAt
    <2>3. ASSUME NEW n \in 1..MaxOrders, n # f.order PROVE Units(T, s)[n] = Units(S, s)[n]
      <3>1. CASE \E g \in S : g.order = n
        <4>1. PICK g \in S : g.order = n
          BY <3>1
        <4> QED BY <1>1, <4>1, UnitsAt
      <3>2. CASE \A g \in S : g.order # n
        BY <1>1, <2>3, <3>2, UnitsAt
      <3> QED BY <3>1, <3>2
    <2>5. Sum(Units(S, s)) \in Int
      <3>1. PICK t \in [0..MaxOrders -> Int] : Sum(Units(S, s)) = t[MaxOrders]
        BY <2>1, SumIs
      <3>2. MaxOrders \in 0..MaxOrders
        BY Assumed
      <3> QED BY <3>1, <3>2
    <2>6. Sum(Units(T, s)) = Sum(Units(S, s)) + Units(T, s)[f.order]
      <3> HIDE DEF T, d
      <3> QED BY <1>2, <2>1, <2>2, <2>3, SumMore
    <2> QED BY <2>2, <2>5, <2>6
  <1>5. Sum(Cash(S)) \in Int
    <2>1. Cash(S) \in [1..MaxOrders -> Int]
      BY <1>1, CashAt
    <2>2. PICK t \in [0..MaxOrders -> Int] : Sum(Cash(S)) = t[MaxOrders]
      BY <2>1, SumIs
    <2>3. MaxOrders \in 0..MaxOrders
      BY Assumed
    <2> QED BY <2>2, <2>3
  <1> DEFINE more == Applied(copy, f)
  <1>6. more.cash = copy.cash + f.cash
    BY DEF Applied
  <1>7. \A s \in Symbols : more.held[s] = copy.held[s] + (IF s = f.symbol THEN f.units ELSE 0)
    <2>1. copy.held \in [Symbols -> Nat]
      BY DEF Book
    <2> QED BY <1>2, <2>1 DEF Applied
  <1>8. Start \in Nat /\ copy.cash = Start + Sum(Cash(S))
        /\ \A s \in Symbols : copy.held[s] = Sum(Units(S, s))
    BY Assumed DEF Explains
  <1> HIDE DEF T, more
  <1>9. more.cash = Start + Sum(Cash(T))
    BY <1>2, <1>3, <1>5, <1>6, <1>8
  <1>10. \A s \in Symbols : more.held[s] = Sum(Units(T, s))
    BY <1>4, <1>7, <1>8
  <1> QED BY <1>1, <1>9, <1>10 DEF Explains, OneOfEach, T, more

------------------------------------------------------------------------------
(* What the operations do.                                                  *)

\* Operation c comes to be in state s.
Puts(c, s) == client' = [client EXCEPT ![c] = s]

LEMMA ClientFields ==
    ASSUME NEW k \in ClientState
    PROVE  /\ k.op \in Trades \cup {"none", "close", "cancel", "pause", "recheck"} /\ k.at \in Points
           /\ k.book \in Books \cup {NoBook} /\ k.copy \in Book /\ k.order \in 0..MaxOrders
           /\ k.status \in Status /\ k.todo \subseteq 1..MaxOrders /\ k.dirty \in BOOLEAN
  BY DEF ClientState

LEMMA ClientIs ==
    ASSUME Typed, NEW c \in Clients
    PROVE  client[c] \in ClientState /\ Sound(client[c])
  BY DEF Typed, ClientsTyped

LEMMA IdleIs ==
    /\ Idle \in ClientState
    /\ Idle.op = "none" /\ Idle.at = "idle" /\ Idle.todo = {} /\ ~Idle.dirty /\ Idle.order = 0
    /\ Idle.book = NoBook /\ ~Making(Idle) /\ ~Carries(Idle)
  <1>1. Empty \in Book
    BY DEF Empty, Book
  <1>2. 0 \in 0..MaxOrders
    BY Assumed
  <1> QED BY <1>1, <1>2 DEF Idle, ClientState, Points, Status, Making, Carries, Unsaved

LEMMA PutAt ==
    ASSUME Typed, NEW c \in Clients, NEW s, Puts(c, s)
    PROVE  client'[c] = s /\ \A d \in Clients : d # c => client'[d] = client[d]
  BY DEF Puts, Typed, ClientsTyped

\* An order made for the portfolio b out of its copy.
Makes(c, b, copy) ==
    \E op \in Trades \cup {"close"}, order \in Order :
        /\ order.book = b
        /\ order.checked => order.type = "market"
        /\ order.checked /\ order.side = "buy" => Cardinality(Held(copy) \cup {order.symbol}) <= MaxOpen
        /\ NewOrder(c, op, copy, order)

\* The row of an order that was just made.
Fresh(row, b, copy) ==
    /\ row.status = Unsaved /\ row.order.book = b
    /\ row.order.checked => row.order.type = "market"
    /\ row.order.checked /\ row.order.side = "buy"
       => Cardinality(Held(copy) \cup {row.order.symbol}) <= MaxOpen

LEMMA MakesPuts ==
    ASSUME Typed, NEW c \in Clients, NEW b \in Books, NEW copy \in Book, Makes(c, b, copy),
           client[c].todo = {}, ~client[c].dirty
    PROVE  /\ made < MaxOrders /\ made' = made + 1
           /\ orders' \in [1..(made + 1) -> Row]
           /\ \A n \in 1..made : orders'[n] = orders[n]
           /\ Fresh(orders'[made + 1], b, copy)
           /\ \E s \in ClientState :
                /\ Puts(c, s)
                /\ s.at = "quote" /\ s.op \in Trades \cup {"close"} /\ s.book = b /\ s.copy = copy
                /\ s.order = made + 1 /\ s.todo = {} /\ ~s.dirty
  <1> DEFINE k == client[c]
  <1>1. PICK op \in Trades \cup {"close"}, order \in Order :
          /\ order.book = b
          /\ order.checked => order.type = "market"
          /\ order.checked /\ order.side = "buy" => Cardinality(Held(copy) \cup {order.symbol}) <= MaxOpen
          /\ NewOrder(c, op, copy, order)
    BY DEF Makes
  <1>2. made < MaxOrders /\ made' = made + 1 /\ made \in Nat /\ made + 1 \in 0..MaxOrders
    BY <1>1, Assumed DEF NewOrder, Typed, OrdersTyped
  <1>3. orders' = [o \in 1..(made + 1) |-> IF o <= made THEN orders[o]
                                           ELSE [order |-> order, status |-> Unsaved]]
    BY <1>1 DEF NewOrder
  <1>4. [order |-> order, status |-> Unsaved] \in Row
    BY DEF Row, Status
  <1>5. /\ orders' \in [1..(made + 1) -> Row]
        /\ \A n \in 1..made : orders'[n] = orders[n]
        /\ orders'[made + 1] = [order |-> order, status |-> Unsaved]
    BY <1>2, <1>3, <1>4 DEF Typed, OrdersTyped
  <1> DEFINE s == [k EXCEPT !.op = op, !.at = "quote", !.book = order.book, !.copy = copy,
                            !.order = made + 1]
  <1>6. Puts(c, s)
    BY <1>1 DEF NewOrder, Puts
  <1>7. k \in ClientState
    BY ClientIs
  <1>8. s \in ClientState /\ s.at = "quote" /\ s.op = op /\ s.book = order.book /\ s.copy = copy
        /\ s.order = made + 1 /\ s.todo = k.todo /\ s.dirty = k.dirty
    <2>1. "quote" \in Points
      BY DEF Points
    <2> HIDE DEF k
    <2> QED BY <1>1, <1>2, <1>7, <2>1, Zenon DEF ClientState
  <1>9. Fresh(orders'[made + 1], b, copy)
    BY <1>1, <1>5 DEF Fresh
  <1> HIDE DEF s
  <1> QED BY <1>1, <1>2, <1>5, <1>6, <1>8, <1>9

\* An operation that has found its portfolio and goes on without an order.
Rests(s, b, copy) ==
    /\ s.todo = {} /\ ~s.dirty /\ s.order = 0
    /\ \/ s.at = "idle" /\ s.op = "none"
       \/ s.op \in {"close", "recheck", "pause"} /\ s.at \in {"sweep", "list"} /\ s.book = b
    /\ s.at = "list" => s.op \in {"recheck", "pause"}
    /\ Carries(s) => s.copy = copy

LEMMA AnyPriceIs == AnyPrice \in Prices
  BY PaperAssumption DEF AnyPrice

LEMMA DirectMakes ==
    ASSUME NEW c, NEW op \in Trades, NEW b \in Books, NEW copy, Direct(c, op, b, copy)
    PROVE  Makes(c, b, copy)
  <1>1. PICK side \in {"buy", "sell"}, symbol \in Symbols, q \in Quantities, type \in Types, price \in Prices :
          NewOrder(c, op, copy, [book |-> b, side |-> side, symbol |-> symbol, quantity |-> q,
                                 type |-> type, price |-> price, checked |-> FALSE])
    BY DEF Direct
  <1> DEFINE order == [book |-> b, side |-> side, symbol |-> symbol, quantity |-> q,
                       type |-> type, price |-> price, checked |-> FALSE]
  <1>2. q \in Nat \ {0} /\ type \in {"market", "limit", "stop"}
    BY PaperAssumption
  <1>3. order \in Order /\ order.book = b /\ ~order.checked
    BY <1>2 DEF Order
  <1> HIDE DEF order
  <1>4. NewOrder(c, op, copy, order)
    BY <1>1 DEF order
  <1> QED BY <1>3, <1>4, Zenon DEF Makes

LEMMA ProposeMakes ==
    ASSUME NEW c, NEW op \in Trades, NEW b \in Books, NEW copy, Propose(c, op, b, copy)
    PROVE  Makes(c, b, copy)
  <1>1. PICK side \in {"buy", "sell"}, symbol \in Symbols, entry \in Prices :
          /\ Allows(copy, symbol)
          /\ \E q \in Sized(copy, entry) :
               NewOrder(c, op, copy, [book |-> b, side |-> side, symbol |-> symbol, quantity |-> q,
                                      type |-> "market", price |-> AnyPrice, checked |-> TRUE])
    BY DEF Propose
  <1>2. PICK q \in Quantities :
          NewOrder(c, op, copy, [book |-> b, side |-> side, symbol |-> symbol, quantity |-> q,
                                 type |-> "market", price |-> AnyPrice, checked |-> TRUE])
    BY <1>1 DEF Sized
  <1> DEFINE order == [book |-> b, side |-> side, symbol |-> symbol, quantity |-> q,
                       type |-> "market", price |-> AnyPrice, checked |-> TRUE]
  <1>3. q \in Nat \ {0} /\ AnyPrice \in Prices
    BY <1>1, Assumed, AnyPriceIs
  <1>4. order \in Order /\ order.book = b /\ order.type = "market" /\ order.symbol = symbol
    BY <1>3 DEF Order
  <1> HIDE DEF order
  <1>5. NewOrder(c, op, copy, order)
    BY <1>2 DEF order
  <1>6. Cardinality(Held(copy) \cup {symbol}) <= MaxOpen
    BY <1>1 DEF Allows
  <1> QED BY <1>4, <1>5, <1>6, Zenon DEF Makes

LEMMA GoesTo ==
    ASSUME NEW c, NEW op \in Ops \ {"cancel"}, NEW b \in Books, NEW copy \in Book, Goes(c, op, b, copy)
    PROVE  \/ Makes(c, b, copy)
           \/ /\ UNCHANGED <<made, orders>>
              /\ \E s \in ClientState : Puts(c, s) /\ Rests(s, b, copy)
  <1>1. CASE op \in Trades /\ Decide(c, op, b, copy)
    <2>1. CASE Direct(c, op, b, copy)
      BY <1>1, <2>1, DirectMakes
    <2>2. CASE Propose(c, op, b, copy)
      BY <1>1, <2>2, ProposeMakes
    <2>3. CASE Declined(c)
      <3>1. Rests(Idle, b, copy)
        BY IdleIs DEF Rests
      <3> QED BY <2>3, <3>1, IdleIs DEF Declined, Puts
    <2> QED BY <1>1, <2>1, <2>2, <2>3 DEF Decide
  <1>2. CASE op \notin Trades /\ ~(op \in Trades /\ Decide(c, op, b, copy))
    <2>1. op \in {"close", "recheck", "pause"}
      BY <1>2, PaperAssumption
    <2>2. UNCHANGED <<made, orders>>
      BY <1>2 DEF Goes
    <2>3. CASE op = "close"
      <3> DEFINE s == [Idle EXCEPT !.op = op, !.at = "sweep", !.book = b, !.copy = copy]
      <3>1. Puts(c, s)
        BY <1>2, <2>3 DEF Goes, Puts
      <3>2. s \in ClientState /\ s.op = "close" /\ s.at = "sweep" /\ s.book = b /\ s.copy = copy
            /\ s.todo = Idle.todo /\ s.dirty = Idle.dirty /\ s.order = Idle.order
        <4>1. "sweep" \in Points
          BY DEF Points
        <4> QED BY <2>3, <4>1, IdleIs, Zenon DEF ClientState
      <3> HIDE DEF s
      <3>3. Rests(s, b, copy)
        BY <3>2, IdleIs DEF Rests
      <3> QED BY <2>2, <3>1, <3>2, <3>3
    <2>4. CASE op = "recheck"
      <3> DEFINE s == [Idle EXCEPT !.op = op, !.at = "list", !.book = b, !.copy = copy]
      <3>1. Puts(c, s)
        BY <1>2, <2>4 DEF Goes, Puts
      <3>2. s \in ClientState /\ s.op = "recheck" /\ s.at = "list" /\ s.book = b /\ s.copy = copy
            /\ s.todo = Idle.todo /\ s.dirty = Idle.dirty /\ s.order = Idle.order
        <4>1. "list" \in Points
          BY DEF Points
        <4> QED BY <2>4, <4>1, IdleIs, Zenon DEF ClientState
      <3> HIDE DEF s
      <3>3. Rests(s, b, copy)
        BY <3>2, IdleIs DEF Rests
      <3> QED BY <2>2, <3>1, <3>2, <3>3
    <2>5. CASE op = "pause"
      <3> DEFINE s == [Idle EXCEPT !.op = op, !.at = "list", !.book = b]
      <3>1. Puts(c, s)
        BY <1>2, <2>5 DEF Goes, Puts
      <3>2. s \in ClientState /\ s.op = "pause" /\ s.at = "list" /\ s.book = b
            /\ s.todo = Idle.todo /\ s.dirty = Idle.dirty /\ s.order = Idle.order
        <4>1. "list" \in Points
          BY DEF Points
        <4> QED BY <2>5, <4>1, IdleIs, Zenon DEF ClientState
      <3> HIDE DEF s
      <3>3. Rests(s, b, copy)
        BY <3>2, IdleIs DEF Rests, Carries
      <3> QED BY <2>2, <3>1, <3>2, <3>3
    <2> QED BY <2>1, <2>3, <2>4, <2>5
  <1> QED BY <1>1, <1>2 DEF Goes

\* A quote to an order and a copy: no copy is overdrawn.
Comes(x, copy, n) ==
    /\ x.copy \in Book /\ x.status \in {"pending", "rejected", "filled"}
    /\ x.status = "pending" => orders[n].order.type # "market"
    /\ \/ x.status # "filled" /\ x.copy = copy /\ x.fill = {}
       \/ /\ x.status = "filled"
          /\ \E f \in Fill : /\ f.order = n /\ f.symbol = orders[n].order.symbol
                             /\ orders[n].order.side = "sell" => f.units <= 0
                             /\ x.copy = Applied(copy, f) /\ x.fill = {f}

LEMMA Outcomes ==
    ASSUME OrdersTyped, NEW copy \in Book, NEW n \in 1..made, NEW quote \in Prices
    PROVE  Comes(Outcome(copy, n, quote), copy, n)
  <1> DEFINE o == orders[n].order
             x == Outcome(copy, n, quote)
  <1> SUFFICES Comes(x, copy, n)
    OBVIOUS
  <1> HIDE DEF x
  <1>1. o \in Order /\ n \in 1..MaxOrders
    BY Assumed DEF OrdersTyped, Row
  <1>2. o.symbol \in Symbols /\ o.quantity \in Nat /\ o.side \in {"buy", "sell"}
    BY <1>1 DEF Order
  <1>3. CASE ~Fillable(o, quote)
    <2>1. x = [copy |-> copy, fill |-> {}, status |-> "pending"]
      BY <1>3 DEF Outcome, x
    <2>2. o.type # "market"
      BY <1>3 DEF Fillable
    <2> QED BY <2>1, <2>2 DEF Comes
  <1>4. CASE Fillable(o, quote) /\ ~Covered(copy, o, quote)
    <2>1. x = [copy |-> copy, fill |-> {}, status |-> "rejected"]
      BY <1>4 DEF Outcome, x
    <2> QED BY <2>1 DEF Comes
  <1>5. CASE Fillable(o, quote) /\ Covered(copy, o, quote)
    <2> DEFINE f == FillOf(n, o, quote)
    <2>1. x = [copy |-> Applied(copy, f), fill |-> {f}, status |-> "filled"]
      BY <1>5 DEF Outcome, x
    <2>2. copy.cash \in Nat /\ copy.held \in [Symbols -> Nat]
      BY DEF Book
    <2>3. Worth(o, quote) \in Nat
      <3>1. quote + Charge \in Nat /\ quote - Charge \in Nat
        BY Assumed
      <3>2. \A q, p \in Nat : q * p \in Nat
        OBVIOUS
      <3>3. Worth(o, quote) \in {o.quantity * (quote + Charge), o.quantity * (quote - Charge)}
        BY DEF Worth
      <3> QED BY <1>2, <3>1, <3>2, <3>3, Zenon
    <2> DEFINE w == Worth(o, quote)
    <2>4. /\ f.order = n /\ f.symbol = o.symbol
          /\ f.cash = (IF o.side = "buy" THEN -w ELSE w)
          /\ f.units = (IF o.side = "buy" THEN o.quantity ELSE -o.quantity)
      BY DEF FillOf
    <2>5. f \in Fill
      <3> HIDE DEF w
      <3> DEFINE ca == IF o.side = "buy" THEN -w ELSE w
                 un == IF o.side = "buy" THEN o.quantity ELSE -o.quantity
      <3>1. f = [order |-> n, symbol |-> o.symbol, cash |-> ca, units |-> un]
        BY DEF FillOf, w
      <3>2. ca \in Int /\ un \in Int
        BY <1>2, <2>3 DEF w
      <3> HIDE DEF ca, un, o, f
      <3> QED BY <1>1, <1>2, <3>1, <3>2 DEF Fill
    <2>6. copy.cash + f.cash \in Nat /\ copy.held[o.symbol] + f.units \in Nat
      <3> HIDE DEF f, w, o
      <3>1. CASE o.side = "buy"
        <4>1. copy.cash >= w
          BY <1>5, <3>1 DEF Covered, w
        <4> QED BY <1>2, <2>2, <2>3, <2>4, <3>1, <4>1 DEF w
      <3>2. CASE o.side = "sell"
        <4>1. copy.held[o.symbol] >= o.quantity
          BY <1>5, <3>2 DEF Covered
        <4> QED BY <1>2, <2>2, <2>3, <2>4, <3>2, <4>1 DEF w
      <3> QED BY <1>2, <3>1, <3>2
    <2>7. Applied(copy, f) \in Book
      <3> HIDE DEF f, w, o
      <3> QED BY <1>2, <2>2, <2>4, <2>6 DEF Applied, Book
    <2>8. o.side = "sell" => f.units <= 0
      BY <1>2, <2>4
    <2> HIDE DEF f
    <2> QED BY <2>1, <2>4, <2>5, <2>7, <2>8 DEF Comes
  <1> QED BY <1>3, <1>4, <1>5

\* Of two states of one operation, the same fields but for where it is and what it has at hand.
Same(s, k) == s.op = k.op /\ s.book = k.book /\ s.dirty = k.dirty

LEMMA QuotePuts ==
    ASSUME Typed, NEW c \in Clients, Quote(c)
    PROVE  LET k == client[c] IN
           /\ k.at = "quote"
           /\ UNCHANGED <<orders, made, triggered>>
           /\ \E x : /\ Comes(x, k.copy, k.order)
                     /\ IF x.status = "pending" THEN UNCHANGED <<portfolios, newest>>
                        ELSE SavePortfolio(k.book, x.copy)
                     /\ fills' = fills \cup x.fill
                     /\ \E s \in ClientState :
                          /\ Puts(c, s) /\ Same(s, k) /\ s.at = "save" /\ s.status = x.status
                          /\ s.order = k.order /\ s.todo = k.todo
                          /\ k.op = "close" => s.copy = x.copy
  <1> DEFINE k == client[c]
  <1>1. k \in ClientState /\ Sound(k) /\ OrdersTyped /\ k.at = "quote"
    BY ClientIs DEF Typed, Quote
  <1>2. k.copy \in Book /\ k.order \in 1..made
    BY <1>1, ClientFields DEF Sound, OrdersTyped
  <1>3. PICK quote \in Prices :
          LET x == Outcome(k.copy, k.order, quote) IN
          /\ IF x.status = "pending" THEN UNCHANGED <<portfolios, newest>>
             ELSE SavePortfolio(k.book, x.copy)
          /\ fills' = fills \cup x.fill
          /\ client' = [client EXCEPT ![c].at = "save", ![c].status = x.status,
                          ![c].copy = IF client[c].op = "close" THEN x.copy ELSE Empty]
    BY DEF Quote
  <1> DEFINE x == Outcome(k.copy, k.order, quote)
  <1>4. Comes(x, k.copy, k.order)
    BY <1>1, <1>2, Outcomes
  <1>5. x.copy \in Book /\ x.status \in Status
    <2> HIDE DEF x
    <2> QED BY <1>4 DEF Comes, Status
  <1> DEFINE copy == IF k.op = "close" THEN x.copy ELSE Empty
             s == [k EXCEPT !.at = "save", !.status = x.status, !.copy = copy]
  <1>6. Puts(c, s)
    <2>1. client \in [Clients -> ClientState]
      BY DEF Typed, ClientsTyped
    <2> QED BY <1>3, <2>1 DEF Puts
  <1>7. copy \in Book /\ "save" \in Points
    BY <1>5 DEF Empty, Book, Points
  <1> HIDE DEF x, copy
  <1>8. /\ s \in ClientState /\ s.at = "save" /\ s.status = x.status /\ s.copy = copy
        /\ s.op = k.op /\ s.book = k.book /\ s.dirty = k.dirty /\ s.order = k.order /\ s.todo = k.todo
    <2> HIDE DEF k
    <2> QED BY <1>1, <1>5, <1>7, Zenon DEF ClientState
  <1>9. k.op = "close" => s.copy = x.copy
    BY <1>8 DEF copy
  <1>10. /\ IF x.status = "pending" THEN UNCHANGED <<portfolios, newest>>
            ELSE SavePortfolio(k.book, x.copy)
         /\ fills' = fills \cup x.fill
         /\ UNCHANGED <<orders, made, triggered>>
    BY <1>3 DEF x, Quote
  <1> HIDE DEF s
  <1>11. Same(s, k)
    BY <1>8 DEF Same
  <1>12. \E t \in ClientState :
            /\ Puts(c, t) /\ Same(t, k) /\ t.at = "save" /\ t.status = x.status
            /\ t.order = k.order /\ t.todo = k.todo /\ (k.op = "close" => t.copy = x.copy)
    BY <1>6, <1>8, <1>9, <1>11
  <1> QED BY <1>1, <1>4, <1>10, <1>12

LEMMA SaveOrderPuts ==
    ASSUME Typed, NEW c \in Clients, SaveOrder(c)
    PROVE  LET k == client[c] IN
           /\ k.at = "save" /\ k.order \in 1..made /\ k.status \in Status
           /\ UNCHANGED <<portfolios, newest, made, triggered, fills>>
           /\ orders' \in [1..made -> Row]
           /\ orders'[k.order].order = orders[k.order].order
           /\ orders'[k.order].status = k.status
           /\ \A n \in 1..made : n # k.order => orders'[n] = orders[n]
           /\ \E s \in ClientState :
                /\ Puts(c, s)
                /\ \/ s = Idle
                   \/ /\ k.op \notin Trades \cup {"cancel"} /\ Same(s, k) /\ s.at = "sweep"
                      /\ s.order = k.order /\ s.todo = k.todo /\ s.copy = k.copy
  <1> DEFINE k == client[c]
             m == k.order
  <1>1. k \in ClientState /\ Sound(k) /\ OrdersTyped /\ k.at = "save"
    BY ClientIs DEF Typed, SaveOrder
  <1>2. m \in 1..made /\ k.status \in Status
    BY <1>1, ClientFields DEF Sound, OrdersTyped
  <1>3. orders' = [orders EXCEPT ![m].status = k.status]
        /\ UNCHANGED <<portfolios, newest, made, triggered, fills>>
    BY DEF SaveOrder
  <1>4. /\ orders' \in [1..made -> Row]
        /\ orders'[m].order = orders[m].order
        /\ orders'[m].status = k.status
        /\ \A n \in 1..made : n # m => orders'[n] = orders[n]
    <2> HIDE DEF m, k
    <2> QED BY <1>1, <1>2, <1>3, Zenon DEF OrdersTyped, Row
  <1>5. CASE k.op \in Trades \cup {"cancel"}
    <2>1. Puts(c, Idle)
      BY <1>5 DEF SaveOrder, Puts
    <2> QED BY <1>1, <1>2, <1>3, <1>4, <2>1, IdleIs
  <1>6. CASE k.op \notin Trades \cup {"cancel"}
    <2> DEFINE s == [k EXCEPT !.at = "sweep", !.status = Unsaved]
    <2>1. Puts(c, s)
      BY <1>6 DEF SaveOrder, Puts
    <2>2. "sweep" \in Points /\ Unsaved \in Status
      BY DEF Points, Status
    <2>3. /\ s \in ClientState /\ s.at = "sweep" /\ s.copy = k.copy
          /\ s.op = k.op /\ s.book = k.book /\ s.dirty = k.dirty /\ s.order = k.order /\ s.todo = k.todo
      <3> HIDE DEF k
      <3> QED BY <1>1, <2>2, Zenon DEF ClientState
    <2> HIDE DEF s
    <2>4. Same(s, k)
      BY <2>3 DEF Same
    <2> QED BY <1>1, <1>2, <1>3, <1>4, <1>6, <2>1, <2>3, <2>4
  <1> QED BY <1>5, <1>6

LEMMA ListPuts ==
    ASSUME Typed, NEW c \in Clients, List(c)
    PROVE  LET k == client[c] IN
           /\ k.at = "list"
           /\ UNCHANGED <<portfolios, newest, orders, made, triggered, fills>>
           /\ \E s \in ClientState : /\ Puts(c, s) /\ Same(s, k) /\ s.at = "sweep" /\ s.copy = k.copy
                                     /\ s.order = k.order /\ s.todo = Pending(k.book)
  <1> DEFINE k == client[c]
             s == [k EXCEPT !.at = "sweep", !.todo = Pending(k.book)]
  <1>1. k \in ClientState /\ k.at = "list"
    BY ClientIs DEF List
  <1>2. Puts(c, s)
    <2>1. client \in [Clients -> ClientState]
      BY DEF Typed, ClientsTyped
    <2> QED BY <2>1 DEF Puts, List, Listed
  <1>3. "sweep" \in Points /\ Pending(k.book) \in SUBSET (1..MaxOrders)
    <2>1. made \in 0..MaxOrders
      BY DEF Typed, OrdersTyped
    <2> QED BY <2>1, Assumed DEF Points, Pending
  <1>4. /\ s \in ClientState /\ s.at = "sweep" /\ s.copy = k.copy /\ s.todo = Pending(k.book)
        /\ s.op = k.op /\ s.book = k.book /\ s.dirty = k.dirty /\ s.order = k.order
    <2> HIDE DEF k
    <2> QED BY <1>1, <1>3, Zenon DEF ClientState
  <1> HIDE DEF s
  <1>5. Same(s, k)
    BY <1>4 DEF Same
  <1> QED BY <1>1, <1>2, <1>4, <1>5 DEF List

LEMMA RecheckPuts ==
    ASSUME Typed, NEW c \in Clients, client[c].at = "sweep", Recheck(c)
    PROVE  LET k == client[c] IN
           /\ k.op = "recheck"
           /\ UNCHANGED <<portfolios, newest, orders, made>>
           /\ \E n, x :
                /\ n \in k.todo /\ Comes(x, k.copy, n)
                /\ fills' = fills \cup x.fill
                /\ \E s \in ClientState :
                     /\ Puts(c, s) /\ s.op = k.op /\ s.book = k.book /\ s.todo = k.todo \ {n}
                     /\ s.copy = x.copy
                     /\ \/ x.status = "pending" /\ s.at = "sweep" /\ s.dirty = k.dirty /\ s.order = k.order
                        \/ x.status # "pending" /\ s.at = "save" /\ s.order = n /\ s.status = x.status
  <1> DEFINE k == client[c]
  <1>1. k \in ClientState /\ Sound(k) /\ OrdersTyped /\ k.op = "recheck" /\ k.at = "sweep"
    BY ClientIs DEF Typed, Recheck
  <1>2. k.copy \in Book /\ k.todo \subseteq 1..made /\ k.todo \in SUBSET (1..MaxOrders)
    BY <1>1, ClientFields DEF Sound
  <1>3. PICK n \in k.todo, quote \in Prices :
          LET x == Outcome(k.copy, n, quote) IN
          /\ fills' = fills \cup x.fill
          /\ client' = [client EXCEPT ![c] =
                IF x.status = "pending" THEN Passed(c, n)
                ELSE [Passed(c, n) EXCEPT !.at = "save", !.order = n, !.copy = x.copy,
                                          !.status = x.status, !.dirty = TRUE]]
    BY DEF Recheck
  <1> DEFINE x == Outcome(k.copy, n, quote)
             rest == k.todo \ {n}
  <1>4. Comes(x, k.copy, n)
    BY <1>1, <1>2, Outcomes
  <1>5. x.copy \in Book /\ x.status \in Status /\ (x.status = "pending" => x.copy = k.copy)
    <2> HIDE DEF x
    <2> QED BY <1>4 DEF Comes, Status
  <1>6. fills' = fills \cup x.fill /\ UNCHANGED <<portfolios, newest, orders, made>>
    BY <1>3 DEF Recheck
  <1>7. rest \in SUBSET (1..MaxOrders) /\ n \in 0..MaxOrders /\ "save" \in Points
    BY <1>2 DEF Points
  <1> DEFINE left == [k EXCEPT !.todo = rest]
             took == [left EXCEPT !.at = "save", !.order = n, !.copy = x.copy, !.status = x.status,
                                  !.dirty = TRUE]
             next == IF x.status = "pending" THEN left ELSE took
  <1>10. Puts(c, next)
    BY <1>3 DEF Puts, Passed
  <1>8. CASE x.status = "pending"
    <2> DEFINE s == left
    <2>1. Puts(c, s)
      <3> HIDE DEF left, took, x
      <3> QED BY <1>8, <1>10
    <2>2. /\ s \in ClientState /\ s.at = k.at /\ s.op = k.op /\ s.book = k.book /\ s.todo = rest
          /\ s.copy = k.copy /\ s.dirty = k.dirty /\ s.order = k.order
      <3> HIDE DEF k, rest
      <3> QED BY <1>1, <1>7, Zenon DEF ClientState
    <2> HIDE DEF x, s
    <2> QED BY <1>1, <1>4, <1>5, <1>6, <1>8, <2>1, <2>2
  <1>9. CASE x.status # "pending"
    <2> DEFINE s == took
    <2>1. Puts(c, s)
      <3> HIDE DEF left, took, x
      <3> QED BY <1>9, <1>10
    <2> HIDE DEF x
    <2>2. /\ s \in ClientState /\ s.at = "save" /\ s.op = k.op /\ s.book = k.book /\ s.todo = rest
          /\ s.copy = x.copy /\ s.order = n /\ s.status = x.status
      <3> HIDE DEF k, rest
      <3> QED BY <1>1, <1>5, <1>7, Zenon DEF ClientState
    <2> HIDE DEF s
    <2> QED BY <1>1, <1>4, <1>6, <1>9, <2>1, <2>2
  <1> QED BY <1>8, <1>9

LEMMA PausePuts ==
    ASSUME Typed, NEW c \in Clients, client[c].at = "sweep", Pause(c)
    PROVE  LET k == client[c] IN
           /\ k.op = "pause"
           /\ UNCHANGED <<portfolios, newest, orders, made, fills>>
           /\ \E s \in ClientState :
                /\ Puts(c, s)
                /\ \/ s = Idle
                   \/ \E n \in k.todo : /\ Same(s, k) /\ s.at = "save" /\ s.order = n
                                        /\ s.status = "cancelled" /\ s.todo = k.todo \ {n}
  <1> DEFINE k == client[c]
  <1>1. k \in ClientState /\ Sound(k) /\ OrdersTyped /\ k.op = "pause"
    BY ClientIs DEF Typed, Pause
  <1>2. k.todo \subseteq 1..made /\ k.todo \in SUBSET (1..MaxOrders)
    BY <1>1, ClientFields DEF Sound
  <1>3. PICK n \in k.todo : Check(c, n)
    BY DEF Pause
  <1> DEFINE rest == k.todo \ {n}
             left == [k EXCEPT !.todo = rest]
             took == [left EXCEPT !.at = "save", !.order = n, !.status = "cancelled"]
             next == IF orders[n].status # "pending" THEN Idle ELSE took
  <1>6. Puts(c, next)
    BY <1>3 DEF Check, Puts, Passed
  <1>4. CASE orders[n].status # "pending"
    <2>1. Puts(c, Idle)
      BY <1>4, <1>6
    <2> QED BY <1>1, <2>1, IdleIs DEF Pause
  <1>5. CASE orders[n].status = "pending"
    <2> DEFINE s == took
    <2>1. Puts(c, s)
      <3> HIDE DEF took
      <3> QED BY <1>5, <1>6
    <2>2. rest \in SUBSET (1..MaxOrders) /\ n \in 0..MaxOrders /\ "save" \in Points /\ "cancelled" \in Status
      BY <1>2 DEF Points, Status
    <2>3. /\ s \in ClientState /\ s.at = "save" /\ s.op = k.op /\ s.book = k.book /\ s.todo = rest
          /\ s.dirty = k.dirty /\ s.order = n /\ s.status = "cancelled"
      <3> HIDE DEF k, rest
      <3> QED BY <1>1, <2>2, Zenon DEF ClientState
    <2> HIDE DEF s
    <2>4. Same(s, k)
      BY <2>3 DEF Same
    <2> QED BY <1>1, <2>1, <2>3, <2>4 DEF Pause
  <1> QED BY <1>4, <1>5

LEMMA CancelPuts ==
    ASSUME Typed, NEW c \in Clients, Cancel(c)
    PROVE  /\ UNCHANGED <<portfolios, newest, orders, made, triggered, fills>>
           /\ \E n \in 1..made, s \in ClientState :
                /\ orders[n].status = "pending"
                /\ Puts(c, s) /\ s.op = "cancel" /\ s.at = "save" /\ s.order = n
                /\ s.status = "cancelled" /\ s.todo = {} /\ ~s.dirty
  <1>1. PICK n \in 1..made :
          /\ orders[n].status = "pending"
          /\ client' = [client EXCEPT ![c] = [Idle EXCEPT !.op = "cancel", !.at = "save",
                                                         !.order = n, !.status = "cancelled"]]
    BY DEF Cancel
  <1> DEFINE s == [Idle EXCEPT !.op = "cancel", !.at = "save", !.order = n, !.status = "cancelled"]
  <1>2. Puts(c, s)
    BY <1>1 DEF Puts
  <1>3. n \in 0..MaxOrders /\ "save" \in Points /\ "cancelled" \in Status
    BY Assumed DEF Points, Status, Typed, OrdersTyped
  <1>4. /\ s \in ClientState /\ s.at = "save" /\ s.op = "cancel" /\ s.order = n
        /\ s.status = "cancelled" /\ s.todo = Idle.todo /\ s.dirty = Idle.dirty
    BY <1>3, IdleIs, Zenon DEF ClientState
  <1> HIDE DEF s
  <1> QED BY <1>1, <1>2, <1>4, IdleIs DEF Cancel

LEMMA CloseMakes ==
    ASSUME Typed, NEW c \in Clients, client[c].at = "sweep", Close(c)
    PROVE  /\ client[c].book \in Books /\ client[c].copy \in Book
           /\ client[c].todo = {} /\ ~client[c].dirty
           /\ Makes(c, client[c].book, client[c].copy)
           /\ UNCHANGED <<portfolios, newest, fills>>
  <1> DEFINE k == client[c]
  <1>1. k \in ClientState /\ Sound(k) /\ k.op = "close" /\ k.at = "sweep"
    BY ClientIs DEF Close
  <1>2. k.copy \in Book /\ k.book \in Books /\ k.todo = {} /\ ~k.dirty
    BY <1>1, ClientFields DEF Sound, Carries
  <1>3. PICK s \in Held(k.copy) :
          NewOrder(c, "close", k.copy, [book |-> k.book, side |-> "sell", symbol |-> s,
                   quantity |-> k.copy.held[s], type |-> "market", price |-> AnyPrice, checked |-> TRUE])
    BY DEF Close
  <1> DEFINE order == [book |-> k.book, side |-> "sell", symbol |-> s, quantity |-> k.copy.held[s],
                       type |-> "market", price |-> AnyPrice, checked |-> TRUE]
  <1>4. s \in Symbols /\ k.copy.held[s] \in Nat \ {0}
    BY <1>2 DEF Held, Book
  <1>5. AnyPrice \in Prices
    BY AnyPriceIs
  <1>6. order \in Order /\ order.book = k.book /\ order.type = "market" /\ order.side = "sell"
    <2> HIDE DEF k
    <2> QED BY <1>2, <1>4, <1>5 DEF Order
  <1> HIDE DEF order
  <1>7. NewOrder(c, "close", k.copy, order)
    BY <1>3 DEF order
  <1>8. Makes(c, k.book, k.copy)
    BY <1>6, <1>7, Zenon DEF Makes
  <1> QED BY <1>2, <1>8 DEF Close

------------------------------------------------------------------------------
(* Types, and what an operation holds.                                      *)

\* Orders are never lost, altered or unsaved.
Kept == /\ made' \in 0..MaxOrders /\ made <= made'
        /\ \A n \in 1..made : /\ orders'[n].order = orders[n].order
                              /\ orders[n].status # Unsaved => orders'[n].status # Unsaved

LEMMA SoundStays ==
    ASSUME Typed, Kept, NEW k \in ClientState, Sound(k),
           Making(k) => orders'[k.order].status = Unsaved
    PROVE  Sound(k)'
  <1>1. made \in Nat /\ made' \in Nat /\ made <= made'
    BY Assumed DEF Typed, OrdersTyped, Kept
  <1>2. k.order \in 0..made' /\ k.todo \subseteq 1..made'
    BY <1>1 DEF Sound
  <1>3. k.at \in {"quote", "save"} => k.order \in 1..made
    BY <1>1, ClientFields DEF Sound
  <1>4. \A n \in k.todo : n \in 1..made /\ orders'[n].status # Unsaved /\ orders'[n].order = orders[n].order
    BY DEF Sound, Kept
  <1>5. k.at \in {"quote", "save"} =>
          /\ orders'[k.order].order = orders[k.order].order
          /\ orders[k.order].status # Unsaved => orders'[k.order].status # Unsaved
    BY <1>3 DEF Kept
  <1>6. \A n \in k.todo : /\ orders'[n].status # Unsaved /\ orders'[n].order.book = k.book
                          /\ orders'[n].order.type # "market"
    BY <1>4 DEF Sound
  <1> QED BY <1>2, <1>5, <1>6, Zenon DEF Sound, Making, Carries

LEMMA ClientsPut ==
    ASSUME Typed, Kept, NEW c \in Clients, NEW s \in ClientState, Puts(c, s), Sound(s)',
           \A d \in Clients : d # c /\ Making(client[d]) => /\ orders'[client[d].order].status = Unsaved
                                                            /\ Making(s) => s.order # client[d].order
    PROVE  ClientsTyped'
  <1>1. client \in [Clients -> ClientState] /\ client' \in [Clients -> ClientState]
    BY DEF Typed, ClientsTyped, Puts
  <1>2. client'[c] = s /\ \A d \in Clients : d # c => client'[d] = client[d]
    BY PutAt
  <1>3. ASSUME NEW d \in Clients PROVE Sound(client[d])'
    <2>1. CASE d = c
      BY <1>2, <2>1
    <2>2. CASE d # c
      <3> DEFINE k == client[d]
      <3>1. PICK j \in ClientState : j = k
        BY <1>1
      <3>2. Sound(j) /\ (Making(j) => orders'[j.order].status = Unsaved)
        BY <2>2, <3>1, ClientIs
      <3>3. Sound(j)'
        BY <3>2, SoundStays
      <3> QED BY <1>2, <2>2, <3>1, <3>3
    <2> QED BY <2>1, <2>2
  <1>4. ASSUME NEW d \in Clients, NEW e \in Clients,
               Making(client'[d]), Making(client'[e]), client'[d].order = client'[e].order
        PROVE  d = e
    <2>1. CASE d = c \/ e = c
      BY <1>2, <1>4, <2>1
    <2>2. CASE d # c /\ e # c
      BY <1>2, <1>4, <2>2 DEF Typed, ClientsTyped
    <2> QED BY <2>1, <2>2
  <1>5. \A d, e \in Clients :
          (Making(client[d]) /\ Making(client[e]) /\ client[d].order = client[e].order => d = e)'
    BY <1>4 DEF Making
  <1> QED BY <1>1, <1>3, <1>5, Zenon DEF ClientsTyped

LEMMA IdleSound == ASSUME Typed PROVE Sound(Idle)
  <1>1. 0 \in 0..made
    BY DEF Typed, OrdersTyped
  <1> QED BY <1>1, IdleIs, Zenon DEF Sound, Making, Carries

\* What an operation does that leaves the orders alone.
LEMMA PutTyped ==
    ASSUME Typed, UNCHANGED <<orders, made>>, NEW c \in Clients, NEW s \in ClientState, Puts(c, s),
           Sound(s), Making(s) => Making(client[c]) /\ s.order = client[c].order
    PROVE  Kept /\ OrdersTyped' /\ ClientsTyped'
  <1>1. Kept
    BY DEF Kept, Typed, OrdersTyped
  <1>2. OrdersTyped'
    BY DEF Typed, OrdersTyped
  <1>3. Sound(s)'
    BY DEF Sound
  <1>4. ASSUME NEW d \in Clients, d # c, Making(client[d])
        PROVE  /\ orders'[client[d].order].status = Unsaved
               /\ Making(s) => s.order # client[d].order
    <2>1. orders[client[d].order].status = Unsaved
      BY <1>4, ClientIs DEF Sound
    <2>2. Making(s) => s.order # client[d].order
      BY <1>4 DEF Typed, ClientsTyped
    <2> QED BY <2>1, <2>2
  <1> QED BY <1>1, <1>2, <1>3, <1>4, ClientsPut

LEMMA MakesTyped ==
    ASSUME Typed, NEW c \in Clients, NEW b \in Books, NEW copy \in Book, Makes(c, b, copy),
           client[c].todo = {}, ~client[c].dirty
    PROVE  Kept /\ OrdersTyped' /\ ClientsTyped'
  <1>1. /\ made < MaxOrders /\ made' = made + 1
        /\ orders' \in [1..(made + 1) -> Row]
        /\ \A n \in 1..made : orders'[n] = orders[n]
        /\ orders'[made + 1].status = Unsaved /\ orders'[made + 1].order.book = b
        /\ orders'[made + 1].order.checked => orders'[made + 1].order.type = "market"
    BY MakesPuts DEF Fresh
  <1>2. PICK s \in ClientState :
          /\ Puts(c, s)
          /\ s.at = "quote" /\ s.op \in Trades \cup {"close"} /\ s.book = b /\ s.copy = copy
          /\ s.order = made + 1 /\ s.todo = {} /\ ~s.dirty
    BY MakesPuts
  <1>3. made \in Nat /\ MaxOrders \in Nat /\ made <= MaxOrders
    BY Assumed DEF Typed, OrdersTyped
  <1>4. Kept
    BY <1>1, <1>3 DEF Kept
  <1>5. \A n \in 1..(made + 1) : n \in 1..made \/ n = made + 1
    BY <1>3
  <1>6. \A n \in 1..(made + 1) : /\ orders'[n].status = "pending" => orders'[n].order.type # "market"
                                 /\ orders'[n].order.checked => orders'[n].order.type = "market"
    BY <1>1, <1>5 DEF Typed, OrdersTyped, Unsaved
  <1>7. OrdersTyped'
    BY <1>1, <1>3, <1>6 DEF OrdersTyped
  <1>8. Sound(s)'
    <2>1. s.order \in 0..made' /\ s.order # 0
      BY <1>1, <1>2, <1>3
    <2>2. orders'[s.order].status = Unsaved /\ orders'[s.order].order.book = s.book
      BY <1>1, <1>2
    <2> QED BY <1>2, <2>1, <2>2 DEF Sound, Making, Carries
  <1>9. ASSUME NEW d \in Clients, d # c, Making(client[d])
        PROVE  /\ orders'[client[d].order].status = Unsaved
               /\ Making(s) => s.order # client[d].order
    <2>1. Sound(client[d]) /\ client[d] \in ClientState
      BY ClientIs
    <2>2. orders[client[d].order].status = Unsaved /\ client[d].order \in 0..made /\ client[d].order # 0
      BY <1>9, <2>1 DEF Sound, Making
    <2>3. client[d].order \in 1..made
      BY <1>3, <2>2
    <2> QED BY <1>1, <1>2, <1>3, <2>2, <2>3
  <1> QED BY <1>2, <1>4, <1>7, <1>8, <1>9, ClientsPut

LEMMA BooksPut ==
    ASSUME BooksTyped, NEW b \in Books, NEW copy \in Book, SavePortfolio(b, copy),
           triggered' \in BOOLEAN
    PROVE  BooksTyped'
  <1>1. portfolios' = [portfolios EXCEPT ![b] = {copy}] /\ newest' = b
    BY DEF SavePortfolio
  <1>2. Cardinality({copy}) = 1
    BY FS_Singleton, Zenon
  <1>3. portfolios' \in [Books -> SUBSET Book]
        /\ \A d \in Books : portfolios'[d] = IF d = b THEN {copy} ELSE portfolios[d]
    BY <1>1 DEF BooksTyped
  <1>4. ASSUME NEW d \in Books PROVE Cardinality(portfolios'[d]) <= 1
    <2>1. CASE d = b
      BY <1>2, <1>3, <2>1
    <2>2. CASE d # b
      BY <1>3, <2>2 DEF BooksTyped
    <2> QED BY <2>1, <2>2
  <1> QED BY <1>1, <1>3, <1>4 DEF BooksTyped

LEMMA FillsPut ==
    ASSUME Typed, Kept, NEW copy, NEW n \in 1..made, NEW x, Comes(x, copy, n), fills' = fills \cup x.fill
    PROVE  FillsTyped'
  <1>1. \A m \in 1..made : m \in 1..made'
    BY Assumed DEF Kept, Typed, OrdersTyped
  <1>2. \A f \in x.fill : f \in Fill /\ f.order \in 1..made
    BY DEF Comes
  <1> QED BY <1>1, <1>2 DEF Typed, FillsTyped

LEMMA FillsKept == ASSUME Typed, Kept, UNCHANGED fills PROVE FillsTyped'
  <1>1. \A m \in 1..made : m \in 1..made'
    BY Assumed DEF Kept, Typed, OrdersTyped
  <1> QED BY <1>1 DEF Typed, FillsTyped

\* The orders and the operations are as they should be after the step.
Goon == Kept /\ OrdersTyped' /\ ClientsTyped'

LEMMA RestsTyped ==
    ASSUME Typed, UNCHANGED <<orders, made>>, NEW c \in Clients, NEW b \in Books, NEW copy \in Book,
           NEW s \in ClientState, Puts(c, s), Rests(s, b, copy)
    PROVE  Goon
  <1>1. 0 \in 0..made
    BY DEF Typed, OrdersTyped
  <1>2. ~Making(s)
    BY DEF Rests, Making
  <1>3. Sound(s)
    BY <1>1, <1>2, Zenon DEF Rests, Sound, Carries
  <1> QED BY <1>2, <1>3, PutTyped DEF Goon

LEMMA GoesTyped ==
    ASSUME Typed, NEW c \in Clients, NEW op \in Ops \ {"cancel"}, NEW b \in Books, NEW copy \in Book,
           Goes(c, op, b, copy), client[c].todo = {}, ~client[c].dirty
    PROVE  Goon
  <1>1. CASE Makes(c, b, copy)
    BY <1>1, MakesTyped DEF Goon
  <1>2. CASE /\ UNCHANGED <<made, orders>>
             /\ \E s \in ClientState : Puts(c, s) /\ Rests(s, b, copy)
    BY <1>2, RestsTyped
  <1> QED BY <1>1, <1>2, GoesTo

\* What get_or_create_portfolio finds, or the portfolio it creates, and what goes on with it.
Finds(c) ==
    \/ /\ UNCHANGED <<portfolios, newest, orders, made>>
       /\ \E s \in ClientState : /\ Puts(c, s) /\ s.at = "create" /\ s.op \in Ops \ {"cancel"}
                                 /\ s.todo = {} /\ ~s.dirty /\ s.order = 0
    \/ /\ UNCHANGED <<portfolios, newest>>
       /\ \E op \in Ops \ {"cancel"}, b \in Books : \E copy \in portfolios[b] : Goes(c, op, b, copy)
    \/ \E op \in Ops \ {"cancel"}, b \in Books, copy \in Book :
          /\ copy = [Empty EXCEPT !.cash = Start]
          /\ SavePortfolio(b, copy) /\ Goes(c, op, b, copy)

LEMMA FindsIs ==
    ASSUME Typed, NEW c \in Clients, GetPortfolio(c) \/ CreatePortfolio(c)
    PROVE  /\ client[c].at \in {"idle", "create"} /\ client[c].todo = {} /\ ~client[c].dirty
           /\ UNCHANGED <<triggered, fills>>
           /\ Finds(c)
  <1> DEFINE k == client[c]
  <1>1. k \in ClientState /\ Sound(k) /\ k.at \in {"idle", "create"}
    BY ClientIs DEF GetPortfolio, CreatePortfolio
  <1>2. k.todo = {} /\ ~k.dirty
    BY <1>1 DEF Sound
  <1>3. CASE GetPortfolio(c)
    <2>1. PICK op \in Ops \ {"cancel"} :
            IF newest = NoBook
            THEN /\ client' = [client EXCEPT ![c] = [Idle EXCEPT !.op = op, !.at = "create"]]
                 /\ UNCHANGED <<made, orders>>
            ELSE \E found \in portfolios[newest] : Goes(c, op, newest, found)
      BY <1>3 DEF GetPortfolio
    <2>2. UNCHANGED <<portfolios, newest, triggered, fills>>
      BY <1>3 DEF GetPortfolio
    <2>3. CASE newest = NoBook
      <3> DEFINE s == [Idle EXCEPT !.op = op, !.at = "create"]
      <3>1. Puts(c, s)
        BY <2>1, <2>3 DEF Puts
      <3>2. "create" \in Points /\ op \in Trades \cup {"none", "close", "cancel", "pause", "recheck"}
        BY PaperAssumption DEF Points
      <3>3. s \in ClientState /\ s.at = "create" /\ s.op = op
            /\ s.todo = Idle.todo /\ s.dirty = Idle.dirty /\ s.order = Idle.order
        BY <3>2, IdleIs, Zenon DEF ClientState
      <3> HIDE DEF s
      <3> QED BY <1>1, <1>2, <2>1, <2>2, <2>3, <3>1, <3>3, IdleIs DEF Finds
    <2>4. CASE newest # NoBook
      <3>1. newest \in Books
        BY <2>4 DEF Typed, BooksTyped
      <3> QED BY <1>1, <1>2, <2>1, <2>2, <2>4, <3>1 DEF Finds
    <2> QED BY <2>3, <2>4
  <1>4. CASE CreatePortfolio(c)
    <2> DEFINE opening == [Empty EXCEPT !.cash = Start]
    <2>1. PICK b \in Books : SavePortfolio(b, opening) /\ Goes(c, k.op, b, opening)
      BY <1>4 DEF CreatePortfolio
    <2>2. opening \in Book
      BY Assumed DEF Empty, Book
    <2>3. k.op \in Ops \ {"cancel"} /\ UNCHANGED <<triggered, fills>>
      BY <1>1, <1>4 DEF Sound, CreatePortfolio
    <2> HIDE DEF k
    <2>4. \E op \in Ops \ {"cancel"}, d \in Books, copy \in Book :
            copy = opening /\ SavePortfolio(d, copy) /\ Goes(c, op, d, copy)
      <3> HIDE DEF opening
      <3> QED BY <2>1, <2>2, <2>3
    <2> QED BY <1>1, <1>2, <2>3, <2>4 DEF Finds, k
  <1> QED BY <1>3, <1>4

LEMMA FindsTyped ==
    ASSUME Typed, NEW c \in Clients, GetPortfolio(c) \/ CreatePortfolio(c)
    PROVE  Goon /\ BooksTyped' /\ UNCHANGED fills
  <1>1. /\ client[c].at \in {"idle", "create"} /\ client[c].todo = {} /\ ~client[c].dirty
        /\ UNCHANGED <<triggered, fills>>
    BY FindsIs
  <1>2. BooksTyped /\ triggered' \in BOOLEAN
    BY <1>1 DEF Typed, BooksTyped
  <1>3. CASE /\ UNCHANGED <<portfolios, newest, orders, made>>
             /\ \E s \in ClientState : /\ Puts(c, s) /\ s.at = "create" /\ s.op \in Ops \ {"cancel"}
                                       /\ s.todo = {} /\ ~s.dirty /\ s.order = 0
    <2>1. PICK s \in ClientState : /\ Puts(c, s) /\ s.at = "create" /\ s.op \in Ops \ {"cancel"}
                                   /\ s.todo = {} /\ ~s.dirty /\ s.order = 0
      BY <1>3
    <2>2. 0 \in 0..made
      BY DEF Typed, OrdersTyped
    <2>3. Sound(s) /\ ~Making(s)
      BY <2>1, <2>2, Zenon DEF Sound, Making, Carries
    <2>4. Goon
      BY <1>3, <2>1, <2>3, PutTyped DEF Goon
    <2> QED BY <1>1, <1>2, <1>3, <2>4 DEF BooksTyped
  <1>4. CASE /\ UNCHANGED <<portfolios, newest>>
             /\ \E op \in Ops \ {"cancel"}, b \in Books : \E copy \in portfolios[b] : Goes(c, op, b, copy)
    <2>1. PICK op \in Ops \ {"cancel"}, b \in Books : \E copy \in portfolios[b] : Goes(c, op, b, copy)
      BY <1>4
    <2>2. PICK copy \in Book : Goes(c, op, b, copy)
      BY <1>2, <2>1 DEF BooksTyped
    <2> QED BY <1>1, <1>2, <1>4, <2>2, GoesTyped DEF BooksTyped
  <1>5. CASE \E op \in Ops \ {"cancel"}, b \in Books, copy \in Book :
                /\ copy = [Empty EXCEPT !.cash = Start]
                /\ SavePortfolio(b, copy) /\ Goes(c, op, b, copy)
    BY <1>1, <1>2, <1>5, GoesTyped, BooksPut
  <1> QED BY <1>3, <1>4, <1>5, FindsIs DEF Finds

LEMMA QuoteTyped ==
    ASSUME Typed, NEW c \in Clients, Quote(c)
    PROVE  Goon /\ BooksTyped' /\ FillsTyped'
  <1> DEFINE k == client[c]
  <1>1. k \in ClientState /\ Sound(k) /\ k.at = "quote"
    BY QuotePuts, ClientIs
  <1>2. k.order \in 1..made /\ k.copy \in Book /\ k.book \in Books /\ Making(k)
        /\ k.op \in Trades \cup {"close"}
    BY <1>1, ClientFields DEF Sound, Typed, OrdersTyped, Making, Carries
  <1>3. UNCHANGED <<orders, made, triggered>>
    BY QuotePuts
  <1>4. PICK x : /\ Comes(x, k.copy, k.order)
                 /\ IF x.status = "pending" THEN UNCHANGED <<portfolios, newest>>
                    ELSE SavePortfolio(k.book, x.copy)
                 /\ fills' = fills \cup x.fill
                 /\ \E s \in ClientState :
                      /\ Puts(c, s) /\ Same(s, k) /\ s.at = "save" /\ s.status = x.status
                      /\ s.order = k.order /\ s.todo = k.todo
                      /\ k.op = "close" => s.copy = x.copy
    BY QuotePuts
  <1>5. PICK s \in ClientState :
          /\ Puts(c, s) /\ Same(s, k) /\ s.at = "save" /\ s.status = x.status
          /\ s.order = k.order /\ s.todo = k.todo
    BY <1>4
  <1>6. x.status # Unsaved /\ x.copy \in Book
        /\ (x.status = "pending" => orders[k.order].order.type # "market")
    BY <1>4 DEF Comes, Unsaved
  <1>7. Making(s) /\ Sound(s)
    <2>1. /\ s.op = k.op /\ s.book = k.book /\ s.dirty = k.dirty
      BY <1>5 DEF Same
    <2>2. Making(s)
      BY <1>2, <1>5, <2>1 DEF Making
    <2> HIDE DEF k
    <2> QED BY <1>1, <1>2, <1>5, <1>6, <2>1, <2>2, Zenon DEF Sound, Carries
  <1>8. Goon
    BY <1>2, <1>3, <1>5, <1>7, PutTyped DEF Goon
  <1>9. BooksTyped /\ triggered' \in BOOLEAN
    BY <1>3 DEF Typed, BooksTyped
  <1>10. BooksTyped'
    <2>1. CASE x.status = "pending"
      BY <1>3, <1>4, <1>9, <2>1 DEF BooksTyped
    <2>2. CASE x.status # "pending"
      BY <1>2, <1>4, <1>6, <1>9, <2>2, BooksPut
    <2> QED BY <2>1, <2>2
  <1>11. FillsTyped'
    BY <1>2, <1>4, <1>8, FillsPut DEF Goon
  <1> QED BY <1>8, <1>10, <1>11

LEMMA SaveOrderTyped ==
    ASSUME Typed, NEW c \in Clients, SaveOrder(c)
    PROVE  Goon
  <1> DEFINE k == client[c]
             m == k.order
  <1>1. k \in ClientState /\ Sound(k) /\ k.at = "save" /\ m \in 1..made /\ k.status \in Status
        /\ made' = made
    BY SaveOrderPuts, ClientIs
  <1>2. /\ orders' \in [1..made -> Row]
        /\ orders'[m].order = orders[m].order
        /\ orders'[m].status = k.status
        /\ \A n \in 1..made : n # m => orders'[n] = orders[n]
    BY SaveOrderPuts
  <1>3. PICK s \in ClientState :
          /\ Puts(c, s)
          /\ \/ s = Idle
             \/ /\ k.op \notin Trades \cup {"cancel"} /\ Same(s, k) /\ s.at = "sweep"
                /\ s.order = k.order /\ s.todo = k.todo /\ s.copy = k.copy
    BY SaveOrderPuts
  <1>4. k.status # Unsaved /\ (k.status = "pending" => orders[m].order.type # "market")
    BY <1>1 DEF Sound
  <1>5. Kept
    BY <1>1, <1>2, <1>4, Assumed DEF Kept, Typed, OrdersTyped
  <1>6. OrdersTyped'
    <2>1. ASSUME NEW n \in 1..made
          PROVE  /\ orders'[n].status = "pending" => orders'[n].order.type # "market"
                 /\ orders'[n].order.checked => orders'[n].order.type = "market"
      <3>1. CASE n = m
        BY <1>2, <1>4, <3>1 DEF Typed, OrdersTyped
      <3>2. CASE n # m
        BY <1>2, <3>2 DEF Typed, OrdersTyped
      <3> QED BY <3>1, <3>2
    <2> QED BY <1>1, <1>2, <2>1 DEF OrdersTyped, Typed
  <1>7. ~Making(s)
    BY <1>3, IdleIs DEF Making
  <1>8. Sound(s)
    <2>1. CASE s = Idle
      BY <2>1, IdleSound
    <2>2. CASE /\ k.op \notin Trades \cup {"cancel"} /\ Same(s, k) /\ s.at = "sweep"
               /\ s.order = k.order /\ s.todo = k.todo /\ s.copy = k.copy
      <3>1. /\ s.op = k.op /\ s.book = k.book /\ s.dirty = k.dirty
        BY <2>2 DEF Same
      <3> HIDE DEF k
      <3> QED BY <1>1, <1>7, <2>2, <3>1, Zenon DEF Sound, Carries, m
    <2> QED BY <1>3, <2>1, <2>2
  <1>9. Sound(s)'
    BY <1>5, <1>7, <1>8, SoundStays
  <1>10. ASSUME NEW d \in Clients, d # c, Making(client[d])
         PROVE  orders'[client[d].order].status = Unsaved
    <2> DEFINE j == client[d]
    <2>1. Sound(j) /\ j \in ClientState
      BY ClientIs
    <2>2. orders[j.order].status = Unsaved /\ j.order \in 1..made
      BY <1>10, <2>1, ClientFields DEF Sound, Making, Typed, OrdersTyped
    <2>3. j.order # m
      <3>1. CASE Making(k)
        BY <1>10, <3>1 DEF Typed, ClientsTyped
      <3>2. CASE ~Making(k)
        BY <1>1, <2>2, <3>2 DEF Sound
      <3> QED BY <3>1, <3>2
    <2> QED BY <1>2, <2>2, <2>3
  <1> QED BY <1>3, <1>5, <1>6, <1>7, <1>9, <1>10, ClientsPut DEF Goon

LEMMA ListTyped ==
    ASSUME Typed, NEW c \in Clients, List(c)
    PROVE  Goon
  <1> DEFINE k == client[c]
  <1>1. k \in ClientState /\ Sound(k) /\ k.at = "list" /\ UNCHANGED <<orders, made>>
    BY ListPuts, ClientIs
  <1>2. PICK s \in ClientState : /\ Puts(c, s) /\ Same(s, k) /\ s.at = "sweep" /\ s.copy = k.copy
                                 /\ s.order = k.order /\ s.todo = Pending(k.book)
    BY ListPuts
  <1>3. \A n \in Pending(k.book) : /\ n \in 1..made
                                   /\ orders[n].status # Unsaved /\ orders[n].order.book = k.book
                                   /\ orders[n].order.type # "market"
    BY DEF Pending, Unsaved, Typed, OrdersTyped
  <1>4. Sound(s) /\ ~Making(s)
    <2>1. /\ s.op = k.op /\ s.book = k.book /\ s.dirty = k.dirty
      BY <1>2 DEF Same
    <2>2. ~Making(s)
      BY <1>2 DEF Making
    <2> HIDE DEF k
    <2> QED BY <1>1, <1>2, <1>3, <2>1, <2>2, Zenon DEF Sound, Carries
  <1> QED BY <1>1, <1>2, <1>4, PutTyped DEF Goon

LEMMA RecheckTyped ==
    ASSUME Typed, NEW c \in Clients, client[c].at = "sweep", Recheck(c)
    PROVE  Goon /\ FillsTyped'
  <1> DEFINE k == client[c]
  <1>1. k \in ClientState /\ Sound(k) /\ k.at = "sweep" /\ k.op = "recheck"
        /\ UNCHANGED <<orders, made>>
    BY RecheckPuts, ClientIs
  <1>2. PICK n, x :
          /\ n \in k.todo /\ Comes(x, k.copy, n)
          /\ fills' = fills \cup x.fill
          /\ \E s \in ClientState :
               /\ Puts(c, s) /\ s.op = k.op /\ s.book = k.book /\ s.todo = k.todo \ {n}
               /\ s.copy = x.copy
               /\ \/ x.status = "pending" /\ s.at = "sweep" /\ s.dirty = k.dirty /\ s.order = k.order
                  \/ x.status # "pending" /\ s.at = "save" /\ s.order = n /\ s.status = x.status
    BY RecheckPuts
  <1>3. PICK s \in ClientState :
          /\ Puts(c, s) /\ s.op = k.op /\ s.book = k.book /\ s.todo = k.todo \ {n}
          /\ \/ x.status = "pending" /\ s.at = "sweep" /\ s.dirty = k.dirty /\ s.order = k.order
             \/ x.status # "pending" /\ s.at = "save" /\ s.order = n /\ s.status = x.status
    BY <1>2
  <1>4. /\ n \in 1..made /\ orders[n].status # Unsaved /\ k.book \in Books
        /\ x.status # Unsaved /\ n \in 0..made /\ n # 0
    BY <1>1, <1>2 DEF Sound, Carries, Comes, Unsaved
  <1>5. ~Making(s)
    BY <1>1, <1>3 DEF Making, Trades
  <1>6. Sound(s)
    <2> HIDE DEF k
    <2>1. \A m \in s.todo : m \in k.todo
      BY <1>3
    <2>2. s.todo \subseteq 1..made
      BY <1>1, <2>1 DEF Sound
    <2>3. s.op = "recheck" /\ s.book \in Books
      BY <1>1, <1>3, <1>4
    <2>4. "recheck" \notin Trades \cup {"close"}
      BY DEF Trades
    <2> QED BY <1>1, <1>3, <1>4, <1>5, <2>1, <2>2, <2>3, Zenon DEF Sound
  <1>7. Goon
    BY <1>1, <1>3, <1>5, <1>6, PutTyped DEF Goon
  <1>8. FillsTyped'
    BY <1>2, <1>4, <1>7, FillsPut DEF Goon
  <1> QED BY <1>7, <1>8

LEMMA PauseTyped ==
    ASSUME Typed, NEW c \in Clients, client[c].at = "sweep", Pause(c)
    PROVE  Goon
  <1> DEFINE k == client[c]
  <1>1. k \in ClientState /\ Sound(k) /\ k.op = "pause" /\ UNCHANGED <<orders, made>>
    BY PausePuts, ClientIs
  <1>2. PICK s \in ClientState :
          /\ Puts(c, s)
          /\ \/ s = Idle
             \/ \E n \in k.todo : /\ Same(s, k) /\ s.at = "save" /\ s.order = n
                                  /\ s.status = "cancelled" /\ s.todo = k.todo \ {n}
    BY PausePuts
  <1>3. CASE s = Idle
    BY <1>1, <1>2, <1>3, IdleIs, IdleSound, PutTyped DEF Goon
  <1>4. ASSUME NEW n \in k.todo, Same(s, k), s.at = "save", s.order = n,
               s.status = "cancelled", s.todo = k.todo \ {n}
        PROVE  Goon
    <2>1. s.op = "pause" /\ s.book = k.book /\ s.dirty = k.dirty
      BY <1>1, <1>4 DEF Same
    <2>2. ~Making(s) /\ ~Carries(s)
      BY <1>4, <2>1 DEF Making, Carries, Trades
    <2>3. /\ n \in 0..made /\ n # 0 /\ orders[n].status # Unsaved
          /\ s.status # Unsaved /\ s.status # "pending"
      BY <1>1, <1>4 DEF Sound, Unsaved
    <2>4. ~s.dirty
      BY <1>1, <2>1 DEF Sound
    <2>5. Sound(s)
      <3> HIDE DEF k
      <3>1. \A m \in s.todo : m \in k.todo
        BY <1>4
      <3>2. s.todo \subseteq 1..made
        BY <1>1, <3>1 DEF Sound
      <3>3. s.at = "save" /\ s.order = n /\ s.op = "pause"
        BY <1>4, <2>1
      <3> QED BY <1>1, <2>1, <2>2, <2>3, <2>4, <3>1, <3>2, <3>3, Zenon DEF Sound
    <2> QED BY <1>1, <1>2, <2>2, <2>5, PutTyped DEF Goon
  <1> QED BY <1>2, <1>3, <1>4

LEMMA CancelTyped ==
    ASSUME Typed, NEW c \in Clients, Cancel(c)
    PROVE  Goon
  <1>1. PICK n \in 1..made, s \in ClientState :
          /\ orders[n].status = "pending"
          /\ Puts(c, s) /\ s.op = "cancel" /\ s.at = "save" /\ s.order = n
          /\ s.status = "cancelled" /\ s.todo = {} /\ ~s.dirty
    BY CancelPuts
  <1>2. UNCHANGED <<orders, made>>
    BY CancelPuts
  <1>3. ~Making(s) /\ ~Carries(s)
    BY <1>1 DEF Making, Carries, Trades
  <1>4. n \in 0..made /\ n # 0 /\ orders[n].status # Unsaved /\ s.status # Unsaved /\ s.status # "pending"
    BY <1>1 DEF Unsaved
  <1>5. Sound(s)
    BY <1>1, <1>3, <1>4, Zenon DEF Sound
  <1> QED BY <1>1, <1>2, <1>3, <1>5, PutTyped DEF Goon

LEMMA FinishTyped ==
    ASSUME Typed, NEW c \in Clients, client[c].at = "sweep", Finish(c), UNCHANGED triggered
    PROVE  Goon /\ BooksTyped' /\ FillsTyped'
  <1> DEFINE k == client[c]
  <1>1. k \in ClientState /\ Sound(k) /\ UNCHANGED <<orders, made, fills>>
    BY ClientIs DEF Finish
  <1>2. Puts(c, Idle)
    BY DEF Finish, Puts
  <1>3. Goon
    BY <1>1, <1>2, IdleIs, IdleSound, PutTyped DEF Goon
  <1>4. BooksTyped /\ triggered' \in BOOLEAN
    BY DEF Typed, BooksTyped
  <1>5. CASE k.dirty
    <2>1. k.book \in Books /\ k.copy \in Book
      BY <1>1, <1>5, ClientFields DEF Sound, Carries
    <2> QED BY <1>1, <1>3, <1>4, <1>5, <2>1, BooksPut, FillsKept DEF Finish, Goon
  <1>6. CASE ~k.dirty
    BY <1>1, <1>3, <1>4, <1>6, FillsKept DEF Finish, Goon, BooksTyped
  <1> QED BY <1>5, <1>6

LEMMA CloseTyped ==
    ASSUME Typed, NEW c \in Clients, client[c].at = "sweep", Close(c)
    PROVE  Goon
  <1>1. client[c].book \in Books /\ client[c].copy \in Book
        /\ Makes(c, client[c].book, client[c].copy)
        /\ client[c].todo = {} /\ ~client[c].dirty
    BY CloseMakes
  <1> DEFINE b == client[c].book
             copy == client[c].copy
  <1>2. b \in Books /\ copy \in Book /\ Makes(c, b, copy)
    BY <1>1
  <1> HIDE DEF b, copy
  <1> QED BY <1>1, <1>2, MakesTyped DEF Goon

LEMMA RestartTyped ==
    ASSUME Typed, Restart
    PROVE  Goon
  <1>1. client' = [c \in Clients |-> Idle] /\ UNCHANGED <<orders, made>>
    BY DEF Restart
  <1>2. Kept /\ OrdersTyped'
    BY <1>1 DEF Kept, Typed, OrdersTyped
  <1>3. client' \in [Clients -> ClientState] /\ \A c \in Clients : client'[c] = Idle
    BY <1>1, IdleIs
  <1>4. Sound(Idle)'
    BY <1>2, IdleIs, IdleSound, SoundStays
  <1>5. ~Making(Idle)
    BY IdleIs
  <1>6. \A c, d \in Clients :
          (Making(client[c]) /\ Making(client[d]) /\ client[c].order = client[d].order => c = d)'
    BY <1>3, <1>5 DEF Making
  <1>7. \A c \in Clients : Sound(client[c])'
    BY <1>3, <1>4
  <1> QED BY <1>2, <1>3, <1>6, <1>7, Zenon DEF Goon, ClientsTyped

\* The steps, one by one.
Steps(c) ==
    \/ GetPortfolio(c) \/ CreatePortfolio(c)
    \/ Quote(c) \/ SaveOrder(c) \/ List(c) \/ Cancel(c)
    \/ client[c].at = "sweep" /\ Close(c) /\ UNCHANGED triggered
    \/ client[c].at = "sweep" /\ Recheck(c) /\ UNCHANGED triggered
    \/ client[c].at = "sweep" /\ Pause(c) /\ UNCHANGED triggered
    \/ client[c].at = "sweep" /\ Finish(c) /\ UNCHANGED triggered

LEMMA NextSteps ==
    ASSUME [Next]_vars
    PROVE  (\E c \in Clients : Steps(c)) \/ StaleData \/ Restart \/ UNCHANGED vars
  BY Zenon DEF Next, Sweep, Steps

LEMMA Stays ==
    ASSUME Typed, UNCHANGED <<portfolios, newest, orders, made, client, fills>>, triggered' \in BOOLEAN
    PROVE  Typed' /\ Kept
  <1>1. BooksTyped' /\ OrdersTyped' /\ FillsTyped' /\ Kept
    BY DEF Typed, BooksTyped, OrdersTyped, FillsTyped, Kept
  <1>2. ASSUME NEW k PROVE Sound(k) => Sound(k)'
    BY DEF Sound
  <1>3. \A c \in Clients : Sound(client[c])'
    BY <1>2 DEF Typed, ClientsTyped, Sound
  <1>4. ClientsTyped'
    BY <1>3, Zenon DEF Typed, ClientsTyped, Making
  <1> QED BY <1>1, <1>4 DEF Typed

LEMMA StepTyped ==
    ASSUME Typed, [Next]_vars
    PROVE  Typed' /\ Kept
  <1> DEFINE Done == Goon /\ BooksTyped' /\ FillsTyped'
  <1>1. Done => Typed' /\ Kept
    BY DEF Goon, Typed
  <1>2. ASSUME Goon, UNCHANGED <<portfolios, newest, fills>>, triggered' \in BOOLEAN PROVE Done
    BY <1>2, FillsKept DEF Goon, Typed, BooksTyped
  <1>3. triggered \in BOOLEAN
    BY DEF Typed, BooksTyped
  <1>4. ASSUME NEW c \in Clients, Steps(c) PROVE Done
    <2>1. CASE GetPortfolio(c) \/ CreatePortfolio(c)
      BY <2>1, FindsTyped, FillsKept DEF Goon
    <2>2. CASE Quote(c)
      BY <2>2, QuoteTyped
    <2>3. CASE SaveOrder(c)
      BY <1>2, <1>3, <2>3, SaveOrderTyped DEF SaveOrder
    <2>4. CASE List(c)
      BY <1>2, <1>3, <2>4, ListTyped DEF List
    <2>5. CASE Cancel(c)
      BY <1>2, <1>3, <2>5, CancelTyped DEF Cancel
    <2>6. CASE client[c].at = "sweep" /\ Close(c) /\ UNCHANGED triggered
      BY <1>2, <1>3, <2>6, CloseTyped DEF Close
    <2>7. CASE client[c].at = "sweep" /\ Recheck(c) /\ UNCHANGED triggered
      BY <1>3, <2>7, RecheckTyped DEF Recheck, Typed, BooksTyped
    <2>8. CASE client[c].at = "sweep" /\ Pause(c) /\ UNCHANGED triggered
      BY <1>2, <1>3, <2>8, PauseTyped DEF Pause
    <2>9. CASE client[c].at = "sweep" /\ Finish(c) /\ UNCHANGED triggered
      BY <2>9, FinishTyped
    <2> QED BY <1>4, <2>1, <2>2, <2>3, <2>4, <2>5, <2>6, <2>7, <2>8, <2>9 DEF Steps
  <1>5. CASE StaleData
    BY <1>5, Stays DEF StaleData
  <1>6. CASE Restart
    BY <1>2, <1>1, <1>6, RestartTyped DEF Restart
  <1>7. CASE UNCHANGED vars
    BY <1>3, <1>7, Stays DEF vars
  <1> HIDE DEF Done
  <1> QED BY <1>1, <1>4, <1>5, <1>6, <1>7, NextSteps

LEMMA Initially ==
    ASSUME Init
    PROVE  Typed
  <1>1. BooksTyped
    <2>1. portfolios = [b \in Books |-> {}] /\ newest = NoBook /\ triggered = FALSE
      BY DEF Init
    <2>2. \A b \in Books : Cardinality(portfolios[b]) <= 1
      BY <2>1, FS_EmptySet
    <2>3. portfolios \in [Books -> SUBSET Book]
      BY <2>1
    <2> QED BY <2>1, <2>2, <2>3 DEF BooksTyped
  <1>2. OrdersTyped
    <2>1. made = 0 /\ orders = <<>> /\ 1..0 = {}
      BY DEF Init
    <2>2. orders \in [1..made -> Row]
      BY <2>1
    <2> QED BY <2>1, <2>2, Assumed DEF OrdersTyped
  <1>3. FillsTyped
    BY DEF Init, FillsTyped
  <1>4. ClientsTyped
    <2>1. client \in [Clients -> ClientState] /\ \A c \in Clients : client[c] = Idle
      BY IdleIs DEF Init
    <2>2. 0 \in 0..made
      BY <1>2 DEF OrdersTyped
    <2>3. Sound(Idle)
      BY <2>2, IdleIs, Zenon DEF Sound
    <2> QED BY <2>1, <2>3, IdleIs DEF ClientsTyped
  <1> QED BY <1>1, <1>2, <1>3, <1>4 DEF Typed

LEMMA AlwaysTyped == Spec => []Typed
  <1>1. Init => Typed
    BY Initially
  <1>2. Typed /\ [Next]_vars => Typed'
    BY StepTyped
  <1> QED BY <1>1, <1>2, PTL DEF Spec

\* No portfolio and no copy of one is ever overdrawn, and orders and operations are what they
\* should be, whatever is asked for at once.
THEOREM TypeCorrect == Spec => []TypeOK
  <1>1. Typed => TypeOK
    <2> SUFFICES ASSUME Typed PROVE TypeOK
      OBVIOUS
    <2>1. \A b \in Books : portfolios[b] \subseteq Book /\ Cardinality(portfolios[b]) <= 1
      BY DEF Typed, BooksTyped
    <2>2. DOMAIN orders = 1..made /\ (\A o \in 1..made : orders[o] \in Row) /\ made \in 0..MaxOrders
      BY DEF Typed, OrdersTyped
    <2>3. ASSUME NEW c \in Clients
          PROVE  /\ client[c].at \in Points
                 /\ client[c].copy \in Book
                 /\ client[c].order \in 0..made
                 /\ client[c].todo \subseteq 1..made
      BY ClientIs, ClientFields DEF Sound
    <2> QED BY <2>1, <2>2, <2>3 DEF Typed, BooksTyped, FillsTyped, TypeOK
  <1> QED BY <1>1, AlwaysTyped, PTL

------------------------------------------------------------------------------
(* Portfolios are explained by fills counted once.                          *)

\* An order that is closed stays so.
Shut == \A n \in 1..made : ~Open(n) => ~Open(n)'

LEMMA ShutBy ==
    ASSUME Typed, NEW c \in Clients, NEW s, Puts(c, s),
           \A n \in 1..made : orders'[n].status = "pending" => Open(n),
           Making(s) /\ s.order \in 1..made => Open(s.order)
    PROVE  Shut
  <1> SUFFICES ASSUME NEW n \in 1..made, ~Open(n), Open(n)' PROVE FALSE
    BY Zenon DEF Shut
  <1>1. orders'[n].status # "pending"
    OBVIOUS
  <1>2. PICK d \in Clients : /\ Making(client'[d]) /\ client'[d].order = n
                             /\ client'[d].at = "quote" \/ client'[d].status = "pending"
    BY <1>1, Zenon DEF Open, Making
  <1>3. CASE d = c
    BY <1>2, <1>3, PutAt
  <1>4. CASE d # c
    <2>1. client'[d] = client[d]
      BY <1>4, PutAt
    <2> QED BY <1>2, <2>1 DEF Open
  <1> QED BY <1>3, <1>4

LEMMA FillsMore ==
    ASSUME Typed, Kept, fills \subseteq fills', NEW b
    PROVE  FillsOf(b) \subseteq FillsOf(b)'
  <1> SUFFICES ASSUME NEW f \in FillsOf(b) PROVE f \in FillsOf(b)'
    OBVIOUS
  <1>1. f \in fills /\ orders[f.order].order.book = b /\ f.order \in 1..made
    BY DEF FillsOf, Typed, FillsTyped
  <1>2. orders'[f.order].order.book = b /\ f \in fills'
    BY <1>1 DEF Kept
  <1> QED BY <1>2 DEF FillsOf

LEMMA FillsClosed ==
    ASSUME Typed, Shut, NEW f \in fills, ~Open(f.order)
    PROVE  ~Open(f.order)'
  <1>1. PICK n \in 1..made : n = f.order
    BY DEF Typed, FillsTyped
  <1>2. ~Open(n)'
    BY <1>1 DEF Shut
  <1> QED BY <1>1, <1>2

LEMMA AccountsStays ==
    ASSUME Typed, Kept, Shut, fills \subseteq fills', NEW copy, NEW b, Accounts(copy, b)
    PROVE  Accounts(copy, b)'
  <1>1. PICK S \in SUBSET FillsOf(b) : Explains(copy, S) /\ \A f \in S : ~Open(f.order)
    BY DEF Accounts
  <1>2. S \in SUBSET (FillsOf(b)') /\ \A f \in S : f \in fills
    BY FillsMore DEF FillsOf
  <1>3. \A f \in S : ~Open(f.order)'
    BY <1>1, <1>2, FillsClosed
  <1>4. Explains(copy, S)'
    BY <1>1 DEF Explains
  <1> QED BY <1>2, <1>3, <1>4 DEF Accounts

LEMMA CopyStays ==
    ASSUME Typed, Kept, Shut, fills \subseteq fills', NEW k, CopySound(k)
    PROVE  CopySound(k)'
  <1>1. PICK S \in SUBSET FillsOf(k.book) :
          /\ Explains(k.copy, S)
          /\ \A f \in S : f.order \notin k.todo /\ (~Open(f.order) \/ f.order \in OwnOf(k))
    BY DEF CopySound
  <1>2. S \in SUBSET (FillsOf(k.book)') /\ \A f \in S : f \in fills
    BY FillsMore DEF FillsOf
  <1>3. \A f \in S : ~Open(f.order)' \/ f.order \in OwnOf(k)
    BY <1>1, <1>2, FillsClosed
  <1>4. Explains(k.copy, S)'
    BY <1>1 DEF Explains
  <1> QED BY <1>1, <1>2, <1>3, <1>4 DEF CopySound, OwnOf

\* What an operation has counted of a copy it found, while it is about no order it rechecks.
LEMMA CopyAccounts ==
    ASSUME NEW k, CopySound(k), OwnOf(k) = {}
    PROVE  Accounts(k.copy, k.book)
  BY DEF CopySound, Accounts

LEMMA AccountsCopy ==
    ASSUME NEW k, Accounts(k.copy, k.book)', k.todo = {}
    PROVE  CopySound(k)'
  BY DEF CopySound, Accounts

LEMMA AccountedBy ==
    ASSUME Accounted, Typed', Kept, Shut, fills \subseteq fills',
           NEW c \in Clients, NEW s, Puts(c, s), Carries(s) => CopySound(s)',
           \/ UNCHANGED portfolios
           \/ \E b \in Books, copy \in Book : SavePortfolio(b, copy) /\ Accounts(copy, b)'
    PROVE  Accounted'
  <1> USE DEF Accounted
  <1>1. ASSUME NEW d \in Clients PROVE (Carries(client[d]) => CopySound(client[d]))'
    <2>1. CASE d = c
      <3>1. client'[d] = s
        BY <2>1, PutAt
      <3> QED BY <3>1 DEF Carries, CopySound, OwnOf
    <2>2. CASE d # c
      <3>1. client'[d] = client[d]
        BY <2>2, PutAt
      <3>2. PICK k : k = client[d]
        OBVIOUS
      <3>3. Carries(k) => CopySound(k)'
        BY <3>2, CopyStays
      <3> QED BY <3>1, <3>2, <3>3 DEF Carries, CopySound, OwnOf
    <2> QED BY <2>1, <2>2
  <1>2. ASSUME NEW b \in Books, NEW book \in portfolios[b] PROVE Accounts(book, b)'
    BY <1>2, AccountsStays
  <1>3. ASSUME NEW b \in Books, NEW book \in portfolios'[b] PROVE Accounts(book, b)'
    <2>1. CASE UNCHANGED portfolios
      BY <1>2, <2>1
    <2>2. ASSUME NEW d \in Books, NEW copy \in Book, SavePortfolio(d, copy), Accounts(copy, d)'
          PROVE  Accounts(book, b)'
      <3>1. portfolios'[b] = IF b = d THEN {copy} ELSE portfolios[b]
        BY <2>2 DEF SavePortfolio, Typed, BooksTyped
      <3>2. CASE b = d
        BY <2>2, <3>1, <3>2
      <3>3. CASE b # d
        BY <1>2, <3>1, <3>3
      <3> QED BY <3>2, <3>3
    <2> QED BY <2>1, <2>2
  <1> QED BY <1>1, <1>3

\* A fill more explains the copy that it was applied to.
LEMMA FillMore ==
    ASSUME Typed, Kept, NEW copy \in Book, NEW n \in 1..made, NEW x, Comes(x, copy, n),
           fills' = fills \cup x.fill, NEW b, orders[n].order.book = b,
           NEW S \in SUBSET FillsOf(b), Explains(copy, S), \A f \in S : f.order # n
    PROVE  \E T \in SUBSET (FillsOf(b)') :
              /\ Explains(x.copy, T)
              /\ \A f \in T : f \in S \/ (f.order = n /\ x.status = "filled")
  <1>1. fills \subseteq fills' /\ S \in SUBSET (FillsOf(b)') /\ S \in SUBSET Fill
    <2>1. fills \subseteq fills'
      OBVIOUS
    <2>2. S \in SUBSET (FillsOf(b)')
      BY <2>1, FillsMore
    <2>3. S \in SUBSET Fill
      BY DEF FillsOf, Typed, FillsTyped
    <2> QED BY <2>1, <2>2, <2>3
  <1>2. CASE x.copy = copy
    BY <1>1, <1>2
  <1>3. ASSUME NEW f \in Fill, f.order = n, x.copy = Applied(copy, f), x.fill = {f}, x.status = "filled"
        PROVE  \E T \in SUBSET (FillsOf(b)') :
                  /\ Explains(x.copy, T)
                  /\ \A g \in T : g \in S \/ (g.order = n /\ x.status = "filled")
    <2>1. Explains(Applied(copy, f), S \cup {f})
      BY <1>1, <1>3, ExplainsMore
    <2>2. f \in FillsOf(b)'
      BY <1>3 DEF FillsOf, Kept
    <2>3. S \cup {f} \in SUBSET (FillsOf(b)')
      BY <1>1, <2>2
    <2> QED BY <1>3, <2>1, <2>3
  <1> QED BY <1>2, <1>3 DEF Comes

LEMMA MakesShut ==
    ASSUME Typed, NEW c \in Clients, NEW b \in Books, NEW copy \in Book, Makes(c, b, copy),
           client[c].todo = {}, ~client[c].dirty
    PROVE  Kept /\ Shut
  <1>1. /\ made' = made + 1 /\ \A n \in 1..made : orders'[n] = orders[n]
    BY MakesPuts
  <1>2. PICK s \in ClientState : Puts(c, s) /\ s.order = made + 1
    BY MakesPuts
  <1>3. s.order \notin 1..made
    BY <1>2 DEF Typed, OrdersTyped
  <1>4. \A n \in 1..made : orders'[n].status = "pending" => Open(n)
    BY <1>1 DEF Open
  <1> QED BY <1>2, <1>3, <1>4, MakesTyped, ShutBy

\* A step that leaves the orders alone, by an operation that makes none.
LEMMA PutShut ==
    ASSUME Typed, UNCHANGED orders, NEW c \in Clients, NEW s, Puts(c, s),
           Making(s) => Making(client[c]) /\ s.order = client[c].order
                        /\ (client[c].at = "quote" \/ client[c].status = "pending")
    PROVE  Shut
  <1>1. \A n \in 1..made : orders'[n].status = "pending" => Open(n)
    BY DEF Open
  <1>2. Making(s) => Open(s.order)
    BY DEF Open
  <1> QED BY <1>1, <1>2, ShutBy

LEMMA GoesAccounted ==
    ASSUME Accounted, Typed', NEW c \in Clients, NEW op \in Ops \ {"cancel"},
           NEW b \in Books, NEW copy \in Book,
           Goes(c, op, b, copy), client[c].todo = {}, ~client[c].dirty,
           UNCHANGED fills, Accounts(copy, b),
           UNCHANGED portfolios \/ SavePortfolio(b, copy)
    PROVE  Accounted'
  <1>1. Typed /\ fills \subseteq fills'
    BY DEF Accounted
  <1>2. CASE Makes(c, b, copy)
    <2>1. Kept /\ Shut
      BY <1>1, <1>2, MakesShut
    <2>2. PICK s \in ClientState : Puts(c, s) /\ s.book = b /\ s.copy = copy /\ s.todo = {}
      BY <1>1, <1>2, MakesPuts
    <2>3. Accounts(copy, b)'
      BY <1>1, <2>1, AccountsStays
    <2>4. CopySound(s)'
      BY <2>2, <2>3, AccountsCopy
    <2> QED BY <1>1, <2>1, <2>2, <2>3, <2>4, AccountedBy
  <1>3. CASE /\ UNCHANGED <<made, orders>>
             /\ \E s \in ClientState : Puts(c, s) /\ Rests(s, b, copy)
    <2>1. PICK s \in ClientState : Puts(c, s) /\ Rests(s, b, copy)
      BY <1>3
    <2>2. Kept
      BY <1>1, <1>3, <2>1, RestsTyped DEF Goon
    <2>3. ~Making(s)
      BY <2>1 DEF Rests, Making
    <2>4. Shut
      BY <1>1, <1>3, <2>1, <2>3, PutShut
    <2>5. Accounts(copy, b)'
      BY <1>1, <2>2, <2>4, AccountsStays
    <2>6. Carries(s) => s.copy = copy /\ s.book = b /\ s.todo = {}
      BY <2>1 DEF Rests, Carries
    <2>7. Carries(s) => CopySound(s)'
      BY <2>5, <2>6, AccountsCopy
    <2> QED BY <1>1, <2>1, <2>2, <2>4, <2>5, <2>7, AccountedBy
  <1> QED BY <1>2, <1>3, GoesTo

LEMMA OpeningAccounts ==
    ASSUME NEW copy, copy = [Empty EXCEPT !.cash = Start], NEW b
    PROVE  Accounts(copy, b)
  <1>1. {} \in SUBSET FillsOf(b) /\ Explains(copy, {})
    BY ExplainsNone
  <1> QED BY <1>1 DEF Accounts

LEMMA FindsAccounted ==
    ASSUME Accounted, Typed', Kept, NEW c \in Clients, GetPortfolio(c) \/ CreatePortfolio(c)
    PROVE  Accounted'
  <1>1. /\ client[c].todo = {} /\ ~client[c].dirty
        /\ UNCHANGED <<triggered, fills>> /\ Typed
    BY FindsIs DEF Accounted
  <1>2. CASE /\ UNCHANGED <<portfolios, newest, orders, made>>
             /\ \E s \in ClientState : /\ Puts(c, s) /\ s.at = "create" /\ s.op \in Ops \ {"cancel"}
                                       /\ s.todo = {} /\ ~s.dirty /\ s.order = 0
    <2>1. PICK s \in ClientState : Puts(c, s) /\ s.at = "create"
      BY <1>2
    <2>2. ~Making(s) /\ ~Carries(s)
      BY <2>1 DEF Making, Carries
    <2> QED BY <1>1, <1>2, <2>1, <2>2, PutShut, AccountedBy
  <1>3. CASE /\ UNCHANGED <<portfolios, newest>>
             /\ \E op \in Ops \ {"cancel"}, b \in Books : \E copy \in portfolios[b] : Goes(c, op, b, copy)
    <2>1. PICK op \in Ops \ {"cancel"}, b \in Books : \E copy \in portfolios[b] : Goes(c, op, b, copy)
      BY <1>3
    <2>2. PICK copy \in portfolios[b] : Goes(c, op, b, copy)
      BY <2>1
    <2>3. copy \in Book /\ Accounts(copy, b)
      BY <1>1 DEF Accounted, Typed, BooksTyped
    <2> QED BY <1>1, <1>3, <2>2, <2>3, GoesAccounted
  <1>4. CASE \E op \in Ops \ {"cancel"}, b \in Books, copy \in Book :
                /\ copy = [Empty EXCEPT !.cash = Start]
                /\ SavePortfolio(b, copy) /\ Goes(c, op, b, copy)
    BY <1>1, <1>4, OpeningAccounts, GoesAccounted
  <1> QED BY <1>1, <1>2, <1>3, <1>4, FindsIs DEF Finds, Accounted

LEMMA QuoteAccounted ==
    ASSUME Accounted, Typed', Kept, NEW c \in Clients, Quote(c)
    PROVE  Accounted'
  <1>0. PICK k : k = client[c]
    OBVIOUS
  <1>1. Typed /\ k \in ClientState /\ Sound(k) /\ k.at = "quote" /\ UNCHANGED <<orders, made>>
    BY <1>0, QuotePuts, ClientIs DEF Accounted
  <1>2. k.order \in 1..made /\ k.copy \in Book /\ k.book \in Books /\ Making(k) /\ Carries(k)
        /\ k.op \in Trades \cup {"close"} /\ orders[k.order].order.book = k.book
    BY <1>1, ClientFields DEF Sound, Typed, OrdersTyped, Making, Carries
  <1>3. PICK x : /\ Comes(x, k.copy, k.order)
                 /\ IF x.status = "pending" THEN UNCHANGED <<portfolios, newest>>
                    ELSE SavePortfolio(k.book, x.copy)
                 /\ fills' = fills \cup x.fill
                 /\ \E s \in ClientState :
                      /\ Puts(c, s) /\ Same(s, k) /\ s.at = "save" /\ s.status = x.status
                      /\ s.order = k.order /\ s.todo = k.todo
                      /\ k.op = "close" => s.copy = x.copy
    BY <1>0, <1>1, QuotePuts
  <1>4. PICK s \in ClientState :
          /\ Puts(c, s) /\ Same(s, k) /\ s.at = "save" /\ s.status = x.status
          /\ s.order = k.order /\ s.todo = k.todo
          /\ k.op = "close" => s.copy = x.copy
    BY <1>3
  <1>5. Shut
    BY <1>0, <1>1, <1>2, <1>4, PutShut
  <1>6. Open(k.order)
    BY <1>0, <1>1, <1>2 DEF Open
  <1>7. k.todo = {} /\ OwnOf(k) = {}
    <2>1. k.op \notin {"recheck", "pause"}
      BY <1>2 DEF Trades
    <2> QED BY <1>1, <2>1 DEF Sound, OwnOf
  <1>8. CopySound(k)
    BY <1>0, <1>2 DEF Accounted
  <1>9. PICK S \in SUBSET FillsOf(k.book) : Explains(k.copy, S) /\ \A f \in S : ~Open(f.order)
    BY <1>7, <1>8, CopyAccounts DEF Accounts
  <1>10. \A f \in S : f.order # k.order /\ f \in fills
    BY <1>6, <1>9 DEF FillsOf
  <1>11. PICK T \in SUBSET (FillsOf(k.book)') :
           /\ Explains(x.copy, T)
           /\ \A f \in T : f \in S \/ (f.order = k.order /\ x.status = "filled")
    <2>1. PICK b, n, copy : b = k.book /\ n = k.order /\ copy = k.copy
      OBVIOUS
    <2>2. /\ copy \in Book /\ n \in 1..made /\ Comes(x, copy, n)
          /\ orders[n].order.book = b /\ S \in SUBSET FillsOf(b)
          /\ Explains(copy, S) /\ \A f \in S : f.order # n
      BY <1>1, <1>2, <1>3, <1>9, <1>10, <2>1
    <2>3. fills' = fills \cup x.fill /\ Typed
      BY <1>1, <1>3
    <2>4. \E T \in SUBSET (FillsOf(b)') :
             /\ Explains(x.copy, T)
             /\ \A f \in T : f \in S \/ (f.order = n /\ x.status = "filled")
      BY <2>2, <2>3, FillMore, SMTT(60)
    <2> QED BY <2>1, <2>4
  <1>12. x.status = "filled" => ~Open(k.order)'
    <2> SUFFICES ASSUME x.status = "filled", Open(k.order)' PROVE FALSE
      BY Zenon
    <2>0. PICK m : m = k.order
      OBVIOUS
    <2>1. orders'[m].status = Unsaved
      BY <1>1, <1>2, <2>0 DEF Sound
    <2>2. PICK d \in Clients : /\ Making(client'[d]) /\ client'[d].order = m
                               /\ client'[d].at = "quote" \/ client'[d].status = "pending"
      BY <2>0, <2>1 DEF Open, Making, Unsaved
    <2>3. d # c
      BY <1>1, <1>4, <2>2, PutAt
    <2> QED BY <1>0, <1>1, <1>2, <1>4, <2>0, <2>2, <2>3, PutAt DEF Typed, ClientsTyped
  <1>13. \A f \in T : ~Open(f.order)'
    BY <1>1, <1>5, <1>9, <1>10, <1>11, <1>12, FillsClosed
  <1>14. Explains(x.copy, T)'
    BY <1>11 DEF Explains
  <1>15. Accounts(x.copy, k.book)'
    BY <1>11, <1>13, <1>14 DEF Accounts
  <1>16. Carries(s) => CopySound(s)'
    <2> SUFFICES ASSUME Carries(s) PROVE CopySound(s)'
      OBVIOUS
    <2>1. s.op = k.op /\ s.book = k.book
      BY <1>4 DEF Same
    <2>2. k.op = "close"
      BY <1>2, <1>4, <2>1 DEF Carries, Trades
    <2>3. Accounts(s.copy, s.book)' /\ s.todo = {}
      BY <1>4, <1>7, <1>15, <2>1, <2>2
    <2> QED BY <2>3, AccountsCopy
  <1>17. x.copy \in Book /\ fills \subseteq fills'
    BY <1>3 DEF Comes
  <1>18. UNCHANGED portfolios \/ \E b \in Books, copy \in Book : SavePortfolio(b, copy) /\ Accounts(copy, b)'
    <2> QED BY <1>2, <1>3, <1>15, <1>17
  <1> QED BY <1>4, <1>5, <1>16, <1>17, <1>18, AccountedBy

LEMMA SaveOrderAccounted ==
    ASSUME Accounted, Typed', Kept, NEW c \in Clients, SaveOrder(c)
    PROVE  Accounted'
  <1>0. PICK k, m : k = client[c] /\ m = k.order
    OBVIOUS
  <1>1. Typed /\ k \in ClientState /\ Sound(k) /\ k.at = "save" /\ m \in 1..made
        /\ UNCHANGED <<portfolios, made, fills>>
    BY <1>0, SaveOrderPuts, ClientIs DEF Accounted
  <1>2. /\ orders'[m].status = k.status
        /\ \A n \in 1..made : n # m => orders'[n] = orders[n]
    BY <1>0, <1>1, SaveOrderPuts
  <1>3. PICK s \in ClientState :
          /\ Puts(c, s)
          /\ \/ s = Idle
             \/ /\ k.op \notin Trades \cup {"cancel"} /\ Same(s, k) /\ s.at = "sweep"
                /\ s.order = k.order /\ s.todo = k.todo /\ s.copy = k.copy
    BY <1>0, <1>1, SaveOrderPuts
  <1>4. Shut
    <2>1. ~Making(s)
      BY <1>3, IdleIs DEF Making
    <2>2. \A n \in 1..made : orders'[n].status = "pending" => Open(n)
      <3>1. k.status = "pending" => Making(k)
        BY <1>1 DEF Sound
      <3> QED BY <1>0, <1>2, <3>1 DEF Open
    <2> QED BY <1>1, <1>3, <2>1, <2>2, ShutBy
  <1>5. Carries(s) => CopySound(s)'
    <2> SUFFICES ASSUME Carries(s) PROVE CopySound(s)'
      OBVIOUS
    <2>1. Same(s, k) /\ s.at = "sweep" /\ s.todo = k.todo /\ s.copy = k.copy
      BY <1>3, IdleIs
    <2>2. s.op = k.op /\ s.book = k.book /\ k.op \in {"close", "recheck"}
      BY <2>1 DEF Same, Carries
    <2>3. CopySound(k)
      BY <1>0, <1>1, <2>2 DEF Accounted, Carries
    <2>4. PICK S \in SUBSET FillsOf(k.book) :
            /\ Explains(k.copy, S)
            /\ \A f \in S : f.order \notin k.todo /\ (~Open(f.order) \/ f.order \in OwnOf(k))
      BY <2>3 DEF CopySound
    <2>5. S \in SUBSET (FillsOf(k.book)') /\ \A f \in S : f \in fills
      BY <1>1, FillsMore DEF FillsOf
    <2>6. ASSUME NEW f \in S PROVE ~Open(f.order)'
      <3>1. CASE ~Open(f.order)
        BY <1>1, <1>4, <2>5, <3>1, FillsClosed
      <3>2. CASE f.order \in OwnOf(k)
        <4>1. k.op = "recheck" /\ f.order = m
          BY <1>0, <3>2 DEF OwnOf
        <4>2. ~Making(k) /\ k.status # "pending" /\ orders[m].status # Unsaved
          BY <1>0, <1>1, <4>1 DEF Making, Trades, Sound
        <4>3. \A d \in Clients : ~(Making(client[d]) /\ client[d].order = m)
          BY <1>1, <4>2, ClientIs DEF Sound
        <4>4. \A d \in Clients : ~(Making(client'[d]) /\ client'[d].order = m)
          <5> SUFFICES ASSUME NEW d \in Clients, Making(client'[d]), client'[d].order = m PROVE FALSE
            OBVIOUS
          <5>1. d # c
            BY <1>1, <1>3, <2>1, PutAt DEF Making
          <5> QED BY <1>1, <1>3, <4>3, <5>1, PutAt
        <4>5. ~Open(m)'
          BY <1>2, <4>2, <4>4 DEF Open, Making
        <4> QED BY <4>1, <4>5
      <3> QED BY <2>4, <3>1, <3>2
    <2>7. Explains(s.copy, S)'
      BY <2>1, <2>4 DEF Explains
    <2> QED BY <2>1, <2>2, <2>4, <2>5, <2>6, <2>7 DEF CopySound
  <1> QED BY <1>1, <1>3, <1>4, <1>5, AccountedBy

LEMMA ListAccounted ==
    ASSUME Accounted, Typed', Kept, NEW c \in Clients, List(c)
    PROVE  Accounted'
  <1>0. PICK k : k = client[c]
    OBVIOUS
  <1>1. Typed /\ Sound(k) /\ k.at = "list" /\ UNCHANGED <<portfolios, orders, made, fills>>
    BY <1>0, ListPuts, ClientIs DEF Accounted
  <1>2. PICK s \in ClientState : /\ Puts(c, s) /\ Same(s, k) /\ s.at = "sweep" /\ s.copy = k.copy
                                 /\ s.order = k.order /\ s.todo = Pending(k.book)
    BY <1>0, <1>1, ListPuts
  <1>3. ~Making(s)
    BY <1>2 DEF Making
  <1>4. Shut
    BY <1>1, <1>2, <1>3, PutShut
  <1>5. Carries(s) => CopySound(s)'
    <2> SUFFICES ASSUME Carries(s) PROVE CopySound(s)'
      OBVIOUS
    <2>1. s.op = k.op /\ s.book = k.book /\ k.op \in {"close", "recheck"}
      BY <1>2 DEF Same, Carries
    <2>2. CopySound(k) /\ OwnOf(k) = {}
      BY <1>0, <1>1, <2>1 DEF Accounted, Carries, OwnOf
    <2>3. PICK S \in SUBSET FillsOf(k.book) : Explains(k.copy, S) /\ \A f \in S : ~Open(f.order)
      BY <2>2, CopyAccounts DEF Accounts
    <2>4. S \in SUBSET (FillsOf(k.book)') /\ \A f \in S : f \in fills
      BY <1>1, FillsMore DEF FillsOf
    <2>5. \A f \in S : ~Open(f.order)'
      BY <1>1, <1>4, <2>3, <2>4, FillsClosed
    <2>6. \A f \in S : f.order \notin s.todo
      BY <1>2, <2>3 DEF Pending, Open
    <2>7. Explains(s.copy, S)'
      BY <1>2, <2>3 DEF Explains
    <2> QED BY <2>1, <2>4, <2>5, <2>6, <2>7 DEF CopySound
  <1> QED BY <1>1, <1>2, <1>4, <1>5, AccountedBy

LEMMA RecheckAccounted ==
    ASSUME Accounted, Typed', Kept, NEW c \in Clients, client[c].at = "sweep", Recheck(c)
    PROVE  Accounted'
  <1>0. PICK k : k = client[c]
    OBVIOUS
  <1>1. Typed /\ k \in ClientState /\ Sound(k) /\ k.at = "sweep" /\ k.op = "recheck"
        /\ UNCHANGED <<portfolios, orders, made>>
    BY <1>0, RecheckPuts, ClientIs DEF Accounted
  <1>2. PICK n, x :
          /\ n \in k.todo /\ Comes(x, k.copy, n)
          /\ fills' = fills \cup x.fill
          /\ \E s \in ClientState :
               /\ Puts(c, s) /\ s.op = k.op /\ s.book = k.book /\ s.todo = k.todo \ {n}
               /\ s.copy = x.copy
               /\ \/ x.status = "pending" /\ s.at = "sweep" /\ s.dirty = k.dirty /\ s.order = k.order
                  \/ x.status # "pending" /\ s.at = "save" /\ s.order = n /\ s.status = x.status
    BY <1>0, <1>1, RecheckPuts
  <1>3. PICK s \in ClientState :
          /\ Puts(c, s) /\ s.op = k.op /\ s.book = k.book /\ s.todo = k.todo \ {n}
          /\ s.copy = x.copy
          /\ \/ x.status = "pending" /\ s.at = "sweep" /\ s.dirty = k.dirty /\ s.order = k.order
             \/ x.status # "pending" /\ s.at = "save" /\ s.order = n /\ s.status = x.status
    BY <1>2
  <1>4. n \in 1..made /\ orders[n].order.book = k.book /\ k.copy \in Book
    BY <1>1, <1>2, ClientFields DEF Sound
  <1>5. ~Making(s)
    BY <1>1, <1>3 DEF Making, Trades
  <1>6. Shut
    BY <1>1, <1>3, <1>5, PutShut
  <1>7. CopySound(k) /\ OwnOf(k) = {}
    BY <1>0, <1>1 DEF Accounted, Carries, OwnOf
  <1>8. PICK S \in SUBSET FillsOf(k.book) :
          /\ Explains(k.copy, S)
          /\ \A f \in S : f.order \notin k.todo /\ ~Open(f.order)
    BY <1>7 DEF CopySound
  <1>9. \A f \in S : f.order # n /\ f \in fills
    BY <1>2, <1>8 DEF FillsOf
  <1>10. PICK T \in SUBSET (FillsOf(k.book)') :
           /\ Explains(x.copy, T)
           /\ \A f \in T : f \in S \/ (f.order = n /\ x.status = "filled")
    <2>1. PICK b, copy : b = k.book /\ copy = k.copy
      OBVIOUS
    <2>2. /\ copy \in Book /\ Comes(x, copy, n) /\ orders[n].order.book = b
          /\ S \in SUBSET FillsOf(b) /\ Explains(copy, S) /\ \A f \in S : f.order # n
      BY <1>2, <1>4, <1>8, <1>9, <2>1
    <2>3. fills' = fills \cup x.fill /\ Typed /\ n \in 1..made
      BY <1>1, <1>2, <1>4
    <2>4. \E T \in SUBSET (FillsOf(b)') :
             /\ Explains(x.copy, T)
             /\ \A f \in T : f \in S \/ (f.order = n /\ x.status = "filled")
      BY <2>2, <2>3, FillMore, SMTT(60)
    <2> QED BY <2>1, <2>4
  <1>11. \A f \in T : f.order \notin s.todo
    BY <1>3, <1>8, <1>10
  <1>12. fills \subseteq fills'
    BY <1>2
  <1>13. ASSUME NEW f \in T PROVE ~Open(f.order)' \/ f.order \in OwnOf(s)
    <2>1. CASE f \in S
      BY <1>1, <1>6, <1>8, <1>9, <2>1, FillsClosed
    <2>2. CASE f.order = n /\ x.status = "filled"
      BY <1>1, <1>3, <2>2 DEF OwnOf
    <2> QED BY <1>10, <2>1, <2>2
  <1>14. Explains(s.copy, T)'
    BY <1>3, <1>10 DEF Explains
  <1>15. CopySound(s)'
    <2>1. s.book = k.book
      BY <1>3
    <2> QED BY <1>10, <1>11, <1>13, <1>14, <2>1 DEF CopySound, OwnOf
  <1> QED BY <1>1, <1>3, <1>6, <1>12, <1>15, AccountedBy

LEMMA IdleAccounted ==
    ASSUME Accounted, Typed', Kept, NEW c \in Clients, NEW s, Puts(c, s), ~Carries(s), ~Making(s),
           UNCHANGED <<portfolios, orders, fills>>
    PROVE  Accounted'
  <1>1. Typed /\ Shut
    BY PutShut DEF Accounted
  <1> QED BY <1>1, AccountedBy

LEMMA PauseAccounted ==
    ASSUME Accounted, Typed', Kept, NEW c \in Clients, client[c].at = "sweep", Pause(c)
    PROVE  Accounted'
  <1>1. Typed /\ UNCHANGED <<portfolios, orders, fills>>
    BY PausePuts DEF Accounted
  <1>2. PICK s \in ClientState : Puts(c, s) /\ (s = Idle \/ (s.op = "pause" /\ s.at = "save"))
    BY <1>1, PausePuts DEF Same
  <1>3. ~Carries(s) /\ ~Making(s)
    BY <1>2, IdleIs DEF Carries, Making, Trades
  <1> QED BY <1>1, <1>2, <1>3, IdleAccounted

LEMMA CancelAccounted ==
    ASSUME Accounted, Typed', Kept, NEW c \in Clients, Cancel(c)
    PROVE  Accounted'
  <1>1. Typed /\ UNCHANGED <<portfolios, orders, fills>>
    BY CancelPuts DEF Accounted
  <1>2. PICK s \in ClientState : Puts(c, s) /\ s.op = "cancel" /\ s.at = "save"
    BY <1>1, CancelPuts
  <1>3. ~Carries(s) /\ ~Making(s)
    BY <1>2 DEF Carries, Making, Trades
  <1> QED BY <1>1, <1>2, <1>3, IdleAccounted

LEMMA FinishAccounted ==
    ASSUME Accounted, Typed', Kept, NEW c \in Clients, client[c].at = "sweep", Finish(c)
    PROVE  Accounted'
  <1>0. PICK k : k = client[c]
    OBVIOUS
  <1>1. Typed /\ k \in ClientState /\ Sound(k) /\ k.at = "sweep" /\ UNCHANGED <<orders, made, fills>>
    BY <1>0, ClientIs DEF Finish, Accounted
  <1>2. Puts(c, Idle)
    BY DEF Finish, Puts
  <1>3. CASE ~k.dirty
    BY <1>0, <1>1, <1>2, <1>3, IdleIs, IdleAccounted DEF Finish
  <1>4. CASE k.dirty
    <2>1. SavePortfolio(k.book, k.copy)
      BY <1>0, <1>4 DEF Finish
    <2>2. k.op = "recheck" /\ Carries(k) /\ k.book \in Books /\ k.copy \in Book
      BY <1>1, <1>4, ClientFields DEF Sound, Carries
    <2>3. CopySound(k) /\ OwnOf(k) = {}
      BY <1>0, <1>1, <2>2 DEF Accounted, OwnOf
    <2>4. Shut
      BY <1>1, <1>2, IdleIs, PutShut
    <2>5. fills \subseteq fills'
      BY <1>1
    <2>6. PICK copy, b : copy = k.copy /\ b = k.book
      OBVIOUS
    <2>7. Accounts(copy, b)
      BY <2>3, <2>6, CopyAccounts
    <2>8. Accounts(copy, b)'
      BY <1>1, <2>4, <2>5, <2>7, AccountsStays
    <2>9. \E d \in Books, book \in Book : SavePortfolio(d, book) /\ Accounts(book, d)'
      BY <2>1, <2>2, <2>6, <2>8
    <2> QED BY <1>2, <2>4, <2>5, <2>9, IdleIs, AccountedBy
  <1> QED BY <1>3, <1>4

LEMMA CloseAccounted ==
    ASSUME Accounted, Typed', Kept, NEW c \in Clients, client[c].at = "sweep", Close(c)
    PROVE  Accounted'
  <1>0. PICK k, b, copy : k = client[c] /\ b = k.book /\ copy = k.copy
    OBVIOUS
  <1>1. /\ Typed /\ b \in Books /\ copy \in Book /\ Makes(c, b, copy)
        /\ client[c].todo = {} /\ ~client[c].dirty
        /\ UNCHANGED <<portfolios, newest, fills>>
    BY <1>0, CloseMakes DEF Accounted
  <1>2. k.op = "close" /\ k.at = "sweep"
    BY <1>0 DEF Close
  <1>3. Accounts(copy, b)
    <2>1. CopySound(k) /\ OwnOf(k) = {}
      BY <1>0, <1>2 DEF Accounted, Carries, OwnOf
    <2> QED BY <1>0, <2>1, CopyAccounts
  <1>4. Shut
    BY <1>1, MakesShut
  <1>5. PICK s \in ClientState : Puts(c, s) /\ s.book = b /\ s.copy = copy /\ s.todo = {}
    BY <1>1, MakesPuts
  <1>6. fills \subseteq fills'
    BY <1>1
  <1>7. Accounts(copy, b)'
    BY <1>1, <1>3, <1>4, <1>6, AccountsStays
  <1>8. CopySound(s)'
    BY <1>5, <1>7, AccountsCopy
  <1> QED BY <1>1, <1>4, <1>5, <1>6, <1>8, AccountedBy

LEMMA StaysAccounted ==
    ASSUME Accounted, Typed', Kept,
           \/ UNCHANGED <<portfolios, orders, client, fills>>
           \/ UNCHANGED <<portfolios, orders, fills>> /\ client' = [c \in Clients |-> Idle]
    PROVE  Accounted'
  <1>1. Typed /\ client \in [Clients -> ClientState]
    BY DEF Accounted, Typed, ClientsTyped
  <1>2. \A c \in Clients : client'[c] = client[c] \/ client'[c] = Idle
    OBVIOUS
  <1>3. Shut
    <2> SUFFICES ASSUME NEW n \in 1..made, ~Open(n), Open(n)' PROVE FALSE
      BY Zenon DEF Shut
    <2>1. orders'[n].status # "pending"
      BY DEF Open
    <2>2. PICK d \in Clients : /\ Making(client'[d]) /\ client'[d].order = n
                               /\ client'[d].at = "quote" \/ client'[d].status = "pending"
      BY <2>1, Zenon DEF Open, Making
    <2>3. client'[d] = client[d]
      BY <1>2, <2>2, IdleIs
    <2> QED BY <2>2, <2>3 DEF Open
  <1>4. fills \subseteq fills' /\ portfolios' = portfolios
    OBVIOUS
  <1>5. ASSUME NEW b \in Books, NEW book \in portfolios'[b] PROVE Accounts(book, b)'
    <2>1. Accounts(book, b)
      BY <1>4, <1>5 DEF Accounted
    <2> QED BY <1>1, <1>3, <1>4, <2>1, AccountsStays
  <1>6. ASSUME NEW d \in Clients PROVE (Carries(client[d]) => CopySound(client[d]))'
    <2>1. PICK k : k = client'[d]
      OBVIOUS
    <2>2. Carries(k) => CopySound(k)
      BY <1>2, <2>1, IdleIs DEF Accounted
    <2>3. Carries(k) => CopySound(k)'
      BY <1>1, <1>3, <1>4, <2>2, CopyStays
    <2> QED BY <2>1, <2>3 DEF Carries, CopySound, OwnOf
  <1> QED BY <1>5, <1>6 DEF Accounted

LEMMA StepAccounted ==
    ASSUME Accounted, [Next]_vars
    PROVE  Accounted'
  <1>1. Typed' /\ Kept
    BY StepTyped DEF Accounted
  <1>2. ASSUME NEW c \in Clients, Steps(c) PROVE Accounted'
    <2>1. CASE GetPortfolio(c) \/ CreatePortfolio(c)
      BY <1>1, <2>1, FindsAccounted
    <2>2. CASE Quote(c)
      BY <1>1, <2>2, QuoteAccounted
    <2>3. CASE SaveOrder(c)
      BY <1>1, <2>3, SaveOrderAccounted
    <2>4. CASE List(c)
      BY <1>1, <2>4, ListAccounted
    <2>5. CASE Cancel(c)
      BY <1>1, <2>5, CancelAccounted
    <2>6. CASE client[c].at = "sweep" /\ Close(c) /\ UNCHANGED triggered
      BY <1>1, <2>6, CloseAccounted
    <2>7. CASE client[c].at = "sweep" /\ Recheck(c) /\ UNCHANGED triggered
      BY <1>1, <2>7, RecheckAccounted
    <2>8. CASE client[c].at = "sweep" /\ Pause(c) /\ UNCHANGED triggered
      BY <1>1, <2>8, PauseAccounted
    <2>9. CASE client[c].at = "sweep" /\ Finish(c) /\ UNCHANGED triggered
      BY <1>1, <2>9, FinishAccounted
    <2> QED BY <1>2, <2>1, <2>2, <2>3, <2>4, <2>5, <2>6, <2>7, <2>8, <2>9 DEF Steps
  <1>3. CASE StaleData
    BY <1>1, <1>3, StaysAccounted DEF StaleData
  <1>4. CASE Restart
    BY <1>1, <1>4, StaysAccounted DEF Restart
  <1>5. CASE UNCHANGED vars
    BY <1>1, <1>5, StaysAccounted DEF vars
  <1> QED BY <1>2, <1>3, <1>4, <1>5, NextSteps

\* Every portfolio is what it started with and the fills of some of its orders, each counted
\* once, however copies are saved over one another.
THEOREM BooksSound == Spec => []SoundBooks
  <1>1. Init => Accounted
    <2> SUFFICES ASSUME Init PROVE Accounted
      OBVIOUS
    <2>1. \A b \in Books : portfolios[b] = {}
      BY DEF Init
    <2>2. \A c \in Clients : ~Carries(client[c])
      BY IdleIs DEF Init
    <2> QED BY <2>1, <2>2, Initially DEF Accounted
  <1>2. Accounted /\ [Next]_vars => Accounted'
    BY StepAccounted
  <1>3. Accounted => SoundBooks
    <2> SUFFICES ASSUME Accounted, NEW b \in Books, NEW book \in portfolios[b]
                 PROVE  \E S \in SUBSET {f \in fills : orders[f.order].order.book = b} : Explains(book, S)
      BY DEF SoundBooks
    <2>1. Accounts(book, b)
      BY DEF Accounted
    <2> QED BY <2>1 DEF Accounts, FillsOf
  <1> QED BY <1>1, <1>2, <1>3, PTL DEF Spec

------------------------------------------------------------------------------
(* Settled orders.                                                          *)

Resting(n) ==
    Settled(n) => /\ orders'[n].status # "pending"
                  /\ (\A c \in Clients : ~Knows(c, n)) =>
                        orders'[n] = orders[n] /\ \A c \in Clients : ~Knows(c, n)'

\* What an operation knows of an order that is settled it learned before.
LEMMA RestingBy ==
    ASSUME Typed, NEW c \in Clients, NEW s, Puts(c, s), NEW n \in 1..made, orders'[n] = orders[n],
           n \in s.todo \/ (s.at = "save" /\ s.order = n) => Knows(c, n) \/ ~Settled(n)
    PROVE  Resting(n)
  <1> SUFFICES ASSUME Settled(n)
               PROVE  /\ orders'[n].status # "pending"
                      /\ (\A d \in Clients : ~Knows(d, n)) =>
                            orders'[n] = orders[n] /\ \A d \in Clients : ~Knows(d, n)'
    BY Zenon DEF Resting
  <1>1. orders'[n].status # "pending"
    BY DEF Settled
  <1>2. ASSUME \A d \in Clients : ~Knows(d, n), NEW d \in Clients PROVE ~Knows(d, n)'
    <2>1. CASE d = c
      BY <1>2, <2>1, PutAt DEF Knows
    <2>2. CASE d # c
      BY <1>2, <2>2, PutAt DEF Knows
    <2> QED BY <2>1, <2>2
  <1> QED BY <1>1, <1>2

LEMMA MakesResting ==
    ASSUME Typed, NEW c \in Clients, NEW b \in Books, NEW copy \in Book, Makes(c, b, copy),
           client[c].todo = {}, ~client[c].dirty, NEW n \in 1..made
    PROVE  Resting(n)
  <1>1. orders'[n] = orders[n]
    BY MakesPuts
  <1>2. PICK s \in ClientState : Puts(c, s) /\ s.at = "quote" /\ s.todo = {}
    BY MakesPuts
  <1> QED BY <1>1, <1>2, RestingBy

LEMMA GoesResting ==
    ASSUME Typed, NEW c \in Clients, NEW op \in Ops \ {"cancel"}, NEW b \in Books, NEW copy \in Book,
           Goes(c, op, b, copy), client[c].todo = {}, ~client[c].dirty, NEW n \in 1..made
    PROVE  Resting(n)
  <1>1. CASE Makes(c, b, copy)
    BY <1>1, MakesResting
  <1>2. CASE /\ UNCHANGED <<made, orders>>
             /\ \E s \in ClientState : Puts(c, s) /\ Rests(s, b, copy)
    <2>1. PICK s \in ClientState : Puts(c, s) /\ s.at # "save" /\ s.todo = {}
      BY <1>2 DEF Rests
    <2> QED BY <1>2, <2>1, RestingBy
  <1> QED BY <1>1, <1>2, GoesTo

LEMMA FindsResting ==
    ASSUME Typed, NEW c \in Clients, GetPortfolio(c) \/ CreatePortfolio(c), NEW n \in 1..made
    PROVE  Resting(n)
  <1>1. client[c].todo = {} /\ ~client[c].dirty /\ Finds(c)
    BY FindsIs
  <1>2. CASE /\ UNCHANGED <<portfolios, newest, orders, made>>
             /\ \E s \in ClientState : /\ Puts(c, s) /\ s.at = "create" /\ s.op \in Ops \ {"cancel"}
                                       /\ s.todo = {} /\ ~s.dirty /\ s.order = 0
    BY <1>2, RestingBy
  <1>3. ASSUME NEW op \in Ops \ {"cancel"}, NEW b \in Books, NEW copy \in portfolios[b], Goes(c, op, b, copy)
        PROVE  Resting(n)
    <2>1. copy \in Book
      BY DEF Typed, BooksTyped
    <2> QED BY <1>1, <1>3, <2>1, GoesResting
  <1> QED BY <1>1, <1>2, <1>3, GoesResting DEF Finds

LEMMA StepResting ==
    ASSUME Typed, NEW c \in Clients, Steps(c), NEW n \in 1..made
    PROVE  Resting(n)
  <1>0. PICK k : k = client[c]
    OBVIOUS
  <1>1. k \in ClientState /\ Sound(k)
    BY <1>0, ClientIs
  <1>2. n \in k.todo \/ (k.at = "save" /\ k.order = n) => Knows(c, n)
    BY <1>0 DEF Knows
  <1>3. CASE GetPortfolio(c) \/ CreatePortfolio(c)
    BY <1>3, FindsResting
  <1>4. CASE Quote(c)
    <2>1. k.at = "quote" /\ orders' = orders
      BY <1>0, <1>4, QuotePuts
    <2>2. PICK s : Puts(c, s) /\ s.order = k.order /\ s.todo = k.todo
      BY <1>0, <1>4, QuotePuts
    <2>3. n = k.order => ~Settled(n)
      BY <1>1, <2>1 DEF Sound, Making, Settled, Unsaved
    <2> QED BY <1>2, <2>1, <2>2, <2>3, RestingBy
  <1>5. CASE SaveOrder(c)
    <2>1. /\ k.at = "save" /\ orders'[k.order].status = k.status
          /\ \A m \in 1..made : m # k.order => orders'[m] = orders[m]
      BY <1>0, <1>5, SaveOrderPuts
    <2>2. PICK s \in ClientState : Puts(c, s) /\ (s = Idle \/ (s.at = "sweep" /\ s.todo = k.todo))
      BY <1>0, <1>5, SaveOrderPuts
    <2>3. n \in s.todo \/ (s.at = "save" /\ s.order = n) => Knows(c, n)
      BY <1>2, <2>2, IdleIs
    <2>4. CASE n # k.order
      BY <2>1, <2>2, <2>3, <2>4, RestingBy
    <2>5. CASE n = k.order
      <3>1. Knows(c, n)
        BY <1>2, <2>1, <2>5
      <3>2. Settled(n) => orders'[n].status # "pending"
        BY <1>1, <2>1, <2>5 DEF Sound, Settled, Unsaved
      <3> QED BY <3>1, <3>2 DEF Resting
    <2> QED BY <2>4, <2>5
  <1>6. CASE List(c)
    <2>1. orders' = orders
      BY <1>6, ListPuts
    <2>2. PICK s : Puts(c, s) /\ s.at = "sweep" /\ s.todo = Pending(k.book)
      BY <1>0, <1>6, ListPuts
    <2>3. n \in s.todo => ~Settled(n)
      BY <2>2 DEF Pending, Settled
    <2> QED BY <2>1, <2>2, <2>3, RestingBy
  <1>7. CASE Cancel(c)
    <2>1. orders' = orders
      BY <1>7, CancelPuts
    <2>2. PICK m, s : m \in 1..made /\ orders[m].status = "pending" /\ Puts(c, s) /\ s.order = m /\ s.todo = {}
      BY <1>7, CancelPuts
    <2>3. n = m => ~Settled(n)
      BY <2>2 DEF Settled
    <2> QED BY <2>1, <2>2, <2>3, RestingBy
  <1>8. CASE client[c].at = "sweep" /\ Close(c) /\ UNCHANGED triggered
    <2>1. PICK b, copy : b = k.book /\ copy = k.copy
      OBVIOUS
    <2>2. /\ b \in Books /\ copy \in Book /\ Makes(c, b, copy) /\ client[c].todo = {} /\ ~client[c].dirty
      BY <1>0, <1>8, <2>1, CloseMakes
    <2> QED BY <2>2, MakesResting
  <1>9. CASE client[c].at = "sweep" /\ Recheck(c) /\ UNCHANGED triggered
    <2>1. orders' = orders
      BY <1>9, RecheckPuts
    <2>2. PICK m, s : m \in k.todo /\ Puts(c, s) /\ s.todo = k.todo \ {m} /\ (s.at = "sweep" \/ s.order = m)
      BY <1>0, <1>9, RecheckPuts
    <2> QED BY <1>2, <2>1, <2>2, RestingBy
  <1>10. CASE client[c].at = "sweep" /\ Pause(c) /\ UNCHANGED triggered
    <2>1. orders' = orders
      BY <1>10, PausePuts
    <2>2. PICK s \in ClientState :
            Puts(c, s) /\ (s = Idle \/ \E m \in k.todo : s.order = m /\ s.todo = k.todo \ {m})
      BY <1>0, <1>10, PausePuts
    <2>3. n \in s.todo \/ (s.at = "save" /\ s.order = n) => n \in k.todo
      BY <2>2, IdleIs
    <2> QED BY <1>2, <2>1, <2>2, <2>3, RestingBy
  <1>11. CASE client[c].at = "sweep" /\ Finish(c) /\ UNCHANGED triggered
    BY <1>11, IdleIs, RestingBy DEF Finish, Puts
  <1> QED BY <1>3, <1>4, <1>5, <1>6, <1>7, <1>8, <1>9, <1>10, <1>11 DEF Steps

\* A settled order never comes to be pending again, and rests once nobody is left who read it
\* while it was pending.
THEOREM OrdersRest == Spec => SettledRests
  <1>1. Typed /\ [Next]_vars => [\A n \in 1..made : Settled(n) =>
          /\ orders'[n].status # "pending"
          /\ (\A c \in Clients : ~Knows(c, n)) =>
                orders'[n] = orders[n] /\ \A c \in Clients : ~Knows(c, n)']_vars
    <2> SUFFICES ASSUME Typed, [Next]_vars, NEW n \in 1..made
                 PROVE  Resting(n) \/ UNCHANGED vars
      BY Zenon DEF Resting
    <2>1. CASE StaleData
      BY <2>1 DEF StaleData, Resting, Settled, Knows
    <2>2. CASE Restart
      <3>1. \A c \in Clients : client'[c] = Idle
        BY <2>2 DEF Restart
      <3> QED BY <2>2, <3>1, IdleIs DEF Restart, Resting, Settled, Knows
    <2> QED BY <2>1, <2>2, StepResting, NextSteps
  <1> QED BY <1>1, AlwaysTyped, PTL DEF Spec, SettledRests

------------------------------------------------------------------------------
(* The limit on positions.                                                  *)

LEMMA HeldIs ==
    ASSUME NEW copy
    PROVE  IsFiniteSet(Held(copy)) /\ \A s \in Symbols : IsFiniteSet(Held(copy) \cup {s})
  <1>1. Held(copy) \subseteq Symbols
    BY DEF Held
  <1>2. IsFiniteSet(Symbols)
    BY Assumed
  <1>3. \A s \in Symbols : Held(copy) \cup {s} \subseteq Symbols
    BY <1>1
  <1> QED BY <1>1, <1>2, <1>3, FS_Subset

LEMMA FewerHeld ==
    ASSUME NEW S, IsFiniteSet(S), Cardinality(S) <= MaxOpen, NEW T \in SUBSET S
    PROVE  Cardinality(T) <= MaxOpen
  <1>1. IsFiniteSet(T) /\ Cardinality(T) <= Cardinality(S)
    BY FS_Subset
  <1>2. Cardinality(T) \in Nat /\ Cardinality(S) \in Nat /\ MaxOpen \in Nat
    BY <1>1, FS_CardinalityType, Assumed
  <1> QED BY <1>1, <1>2

LEMMA WithinStays ==
    ASSUME Typed, Kept, fills \subseteq fills', NEW b, NEW copy, Within(b, copy)
    PROVE  Within(b, copy)'
  <1>1. CASE Cardinality(Held(copy)) <= MaxOpen
    BY <1>1 DEF Within, Held
  <1>2. ASSUME NEW f \in FillsOf(b), ~orders[f.order].order.checked
        PROVE  Within(b, copy)'
    <2>1. f \in FillsOf(b)'
      BY FillsMore
    <2>2. f.order \in 1..made
      BY DEF FillsOf, Typed, FillsTyped
    <2>3. ~orders'[f.order].order.checked
      BY <1>2, <2>2 DEF Kept
    <2> QED BY <2>1, <2>3 DEF Within
  <1> QED BY <1>1, <1>2 DEF Within

\* A fill keeps within the limit: one that opens a position was bounded beforehand, one that
\* passed the rules by is the exception that stays on record.
LEMMA FillWithin ==
    ASSUME Typed, Kept, NEW copy \in Book, NEW n \in 1..made, NEW x, Comes(x, copy, n),
           fills' = fills \cup x.fill, NEW b, orders[n].order.book = b, Within(b, copy),
           orders[n].order.checked /\ orders[n].order.side = "buy"
              => Cardinality(Held(copy) \cup {orders[n].order.symbol}) <= MaxOpen
    PROVE  Within(b, x.copy)'
  <1> DEFINE o == orders[n].order
  <1>0. o.side \in {"buy", "sell"} /\ o.symbol \in Symbols
    BY DEF Typed, OrdersTyped, Row, Order
  <1>1. fills \subseteq fills'
    OBVIOUS
  <1>2. Within(b, copy)'
    BY <1>1, WithinStays
  <1>3. CASE x.copy = copy
    BY <1>2, <1>3 DEF Within, Held
  <1>4. ASSUME NEW f \in Fill, f.order = n, f.symbol = o.symbol, o.side = "sell" => f.units <= 0,
               x.copy = Applied(copy, f), x.fill = {f}
        PROVE  Within(b, x.copy)'
    <2>1. f.units \in Int /\ f.symbol \in Symbols
      BY FillTypes
    <2>2. copy.held \in [Symbols -> Nat]
      BY DEF Book
    <2>3. \A s \in Symbols : x.copy.held[s] = copy.held[s] + (IF s = f.symbol THEN f.units ELSE 0)
      BY <1>4, <2>1, <2>2 DEF Applied
    <2>4. CASE ~o.checked
      <3>1. f \in FillsOf(b)' /\ ~orders'[f.order].order.checked
        BY <1>4, <2>4 DEF FillsOf, Kept
      <3> QED BY <3>1 DEF Within
    <2>5. CASE o.checked /\ o.side = "buy"
      <3>1. Held(x.copy) \subseteq Held(copy) \cup {o.symbol}
        BY <1>4, <2>2, <2>3 DEF Held
      <3>2. Cardinality(Held(x.copy)) <= MaxOpen
        BY <1>0, <2>5, <3>1, HeldIs, FewerHeld
      <3> QED BY <3>2 DEF Within, Held
    <2>6. CASE o.side = "sell"
      <3>1. Held(x.copy) \subseteq Held(copy)
        BY <1>4, <2>1, <2>2, <2>3, <2>6 DEF Held
      <3>2. CASE Cardinality(Held(copy)) <= MaxOpen
        <4>1. Cardinality(Held(x.copy)) <= MaxOpen
          BY <3>1, <3>2, HeldIs, FewerHeld
        <4> QED BY <4>1 DEF Within, Held
      <3>3. CASE ~(Cardinality(Held(copy)) <= MaxOpen)
        BY <1>2, <3>3 DEF Within, Held
      <3> QED BY <3>2, <3>3
    <2> QED BY <1>0, <2>4, <2>5, <2>6
  <1> QED BY <1>3, <1>4 DEF Comes

LEMMA BoundedStays ==
    ASSUME Typed, Kept, NEW k, Sound(k), Bounded(k)
    PROVE  Bounded(k)'
  <1>1. k.at = "quote" => k.order \in 1..made
    BY DEF Sound, Typed, OrdersTyped
  <1>2. k.at = "quote" => orders'[k.order].order = orders[k.order].order
    BY <1>1 DEF Kept
  <1> QED BY <1>2 DEF Bounded, Held

LEMMA LimitingBy ==
    ASSUME Limiting, Typed', Kept, fills \subseteq fills',
           NEW c \in Clients, NEW s, Puts(c, s), Carries(s) => Within(s.book, s.copy)', Bounded(s)',
           \/ UNCHANGED portfolios
           \/ \E b \in Books, copy \in Book : SavePortfolio(b, copy) /\ Within(b, copy)'
    PROVE  Limiting'
  <1> USE DEF Limiting
  <1>1. ASSUME NEW d \in Clients
        PROVE  (Carries(client[d]) => Within(client[d].book, client[d].copy))' /\ Bounded(client[d])'
    <2>1. CASE d = c
      <3>1. client'[d] = s
        BY <2>1, PutAt
      <3> QED BY <3>1 DEF Carries, Within, FillsOf, Held, Bounded
    <2>2. CASE d # c
      <3>1. client'[d] = client[d]
        BY <2>2, PutAt
      <3>2. PICK k : k = client[d]
        OBVIOUS
      <3>3. Carries(k) => Within(k.book, k.copy)'
        <4>1. PICK b, copy : b = k.book /\ copy = k.copy
          OBVIOUS
        <4>2. Carries(k) => Within(b, copy)'
          BY <3>2, <4>1, WithinStays
        <4> QED BY <4>1, <4>2
      <3>4. Bounded(k)'
        BY <3>2, ClientIs, BoundedStays
      <3> QED BY <3>1, <3>2, <3>3, <3>4 DEF Carries, Within, FillsOf, Held, Bounded
    <2> QED BY <2>1, <2>2
  <1>2. ASSUME NEW b \in Books, NEW book \in portfolios[b] PROVE Within(b, book)'
    BY <1>2, WithinStays
  <1>3. ASSUME NEW b \in Books, NEW book \in portfolios'[b] PROVE Within(b, book)'
    <2>1. CASE UNCHANGED portfolios
      BY <1>2, <2>1
    <2>2. ASSUME NEW d \in Books, NEW copy \in Book, SavePortfolio(d, copy), Within(d, copy)'
          PROVE  Within(b, book)'
      <3>1. portfolios'[b] = IF b = d THEN {copy} ELSE portfolios[b]
        BY <2>2 DEF SavePortfolio, Typed, BooksTyped
      <3>2. CASE b = d
        BY <2>2, <3>1, <3>2
      <3>3. CASE b # d
        BY <1>2, <3>1, <3>3
      <3> QED BY <3>2, <3>3
    <2> QED BY <2>1, <2>2
  <1> QED BY <1>1, <1>3

LEMMA MakesLimiting ==
    ASSUME Limiting, Typed', Kept, NEW c \in Clients, NEW b \in Books, NEW copy \in Book,
           Makes(c, b, copy), client[c].todo = {}, ~client[c].dirty, UNCHANGED fills,
           Within(b, copy), UNCHANGED portfolios \/ SavePortfolio(b, copy)
    PROVE  Limiting'
  <1>1. Typed /\ fills \subseteq fills'
    BY DEF Limiting
  <1>2. Fresh(orders'[made + 1], b, copy)
    BY <1>1, MakesPuts
  <1>3. PICK s \in ClientState : Puts(c, s) /\ s.book = b /\ s.copy = copy /\ s.order = made + 1
    BY <1>1, MakesPuts
  <1>4. Within(b, copy)'
    BY <1>1, WithinStays
  <1>5. Within(s.book, s.copy)'
    BY <1>3, <1>4
  <1>6. Bounded(s)'
    BY <1>2, <1>3 DEF Bounded, Fresh, Held
  <1> QED BY <1>1, <1>3, <1>4, <1>5, <1>6, LimitingBy

LEMMA GoesLimiting ==
    ASSUME Limiting, Typed', Kept, NEW c \in Clients, NEW op \in Ops \ {"cancel"},
           NEW b \in Books, NEW copy \in Book,
           Goes(c, op, b, copy), client[c].todo = {}, ~client[c].dirty,
           UNCHANGED fills, Within(b, copy),
           UNCHANGED portfolios \/ SavePortfolio(b, copy)
    PROVE  Limiting'
  <1>1. Typed /\ fills \subseteq fills'
    BY DEF Limiting
  <1>2. CASE Makes(c, b, copy)
    BY <1>2, MakesLimiting
  <1>3. CASE /\ UNCHANGED <<made, orders>>
             /\ \E s \in ClientState : Puts(c, s) /\ Rests(s, b, copy)
    <2>1. PICK s \in ClientState : Puts(c, s) /\ Rests(s, b, copy)
      BY <1>3
    <2>2. Within(b, copy)'
      BY <1>1, WithinStays
    <2>3. Carries(s) => s.book = b /\ s.copy = copy
      BY <2>1 DEF Rests, Carries
    <2>4. Carries(s) => Within(s.book, s.copy)'
      BY <2>2, <2>3
    <2>5. Bounded(s)'
      BY <2>1 DEF Bounded, Rests
    <2> QED BY <1>1, <2>1, <2>2, <2>4, <2>5, LimitingBy
  <1> QED BY <1>2, <1>3, GoesTo

LEMMA OpeningWithin ==
    ASSUME NEW copy, copy = [Empty EXCEPT !.cash = Start], NEW b
    PROVE  Within(b, copy)
  <1>1. Held(copy) = {}
    BY DEF Held, Empty
  <1>2. Cardinality(Held(copy)) = 0
    BY <1>1, FS_EmptySet, Zenon
  <1>3. Cardinality(Held(copy)) <= MaxOpen
    BY <1>2, Assumed
  <1> QED BY <1>3 DEF Within

LEMMA FindsLimiting ==
    ASSUME Limiting, Typed', Kept, NEW c \in Clients, GetPortfolio(c) \/ CreatePortfolio(c)
    PROVE  Limiting'
  <1>1. /\ client[c].todo = {} /\ ~client[c].dirty
        /\ UNCHANGED <<triggered, fills>> /\ Typed /\ Finds(c) /\ fills \subseteq fills'
    BY FindsIs DEF Limiting
  <1>2. CASE /\ UNCHANGED <<portfolios, newest, orders, made>>
             /\ \E s \in ClientState : /\ Puts(c, s) /\ s.at = "create" /\ s.op \in Ops \ {"cancel"}
                                       /\ s.todo = {} /\ ~s.dirty /\ s.order = 0
    <2>1. PICK s \in ClientState : Puts(c, s) /\ s.at = "create"
      BY <1>2
    <2>2. ~Carries(s) /\ Bounded(s)'
      BY <2>1 DEF Carries, Bounded
    <2> QED BY <1>1, <1>2, <2>1, <2>2, LimitingBy
  <1>3. ASSUME NEW op \in Ops \ {"cancel"}, NEW b \in Books, NEW copy \in portfolios[b], Goes(c, op, b, copy),
               UNCHANGED portfolios
        PROVE  Limiting'
    <2>1. copy \in Book /\ Within(b, copy)
      BY <1>1 DEF Limiting, Typed, BooksTyped
    <2> QED BY <1>1, <1>3, <2>1, GoesLimiting
  <1>4. ASSUME NEW op \in Ops \ {"cancel"}, NEW b \in Books, NEW copy \in Book,
               copy = [Empty EXCEPT !.cash = Start], SavePortfolio(b, copy), Goes(c, op, b, copy)
        PROVE  Limiting'
    BY <1>1, <1>4, OpeningWithin, GoesLimiting
  <1> QED BY <1>1, <1>2, <1>3, <1>4 DEF Finds

LEMMA QuoteLimiting ==
    ASSUME Limiting, Typed', Kept, NEW c \in Clients, Quote(c)
    PROVE  Limiting'
  <1>0. PICK k, n, b, copy : k = client[c] /\ n = k.order /\ b = k.book /\ copy = k.copy
    OBVIOUS
  <1>1. Typed /\ k \in ClientState /\ Sound(k) /\ k.at = "quote" /\ UNCHANGED <<orders, made>>
    BY <1>0, QuotePuts, ClientIs DEF Limiting
  <1>2. n \in 1..made /\ copy \in Book /\ b \in Books /\ orders[n].order.book = b /\ Carries(k)
    BY <1>0, <1>1, ClientFields DEF Sound, Typed, OrdersTyped, Carries
  <1>3. PICK x : /\ Comes(x, copy, n)
                 /\ IF x.status = "pending" THEN UNCHANGED <<portfolios, newest>>
                    ELSE SavePortfolio(b, x.copy)
                 /\ fills' = fills \cup x.fill
                 /\ \E s \in ClientState : /\ Puts(c, s) /\ Same(s, k) /\ s.at = "save"
                                           /\ k.op = "close" => s.copy = x.copy
    BY <1>0, <1>1, QuotePuts
  <1>4. PICK s \in ClientState : /\ Puts(c, s) /\ Same(s, k) /\ s.at = "save"
                                 /\ k.op = "close" => s.copy = x.copy
    BY <1>3
  <1>5. Within(b, copy) /\ Bounded(k)
    BY <1>0, <1>2 DEF Limiting
  <1>6. orders[n].order.checked /\ orders[n].order.side = "buy"
            => Cardinality(Held(copy) \cup {orders[n].order.symbol}) <= MaxOpen
    BY <1>0, <1>1, <1>5 DEF Bounded
  <1>7. Within(b, x.copy)'
    BY <1>1, <1>2, <1>3, <1>5, <1>6, FillWithin
  <1>8. Carries(s) => Within(s.book, s.copy)'
    <2>1. s.book = b /\ s.op = k.op /\ k.op # "recheck"
      BY <1>0, <1>1, <1>4 DEF Same, Sound, Trades
    <2>2. Carries(s) => s.copy = x.copy
      BY <1>4, <2>1 DEF Carries
    <2> QED BY <1>7, <2>1, <2>2
  <1>9. Bounded(s)' /\ fills \subseteq fills' /\ x.copy \in Book
    BY <1>3, <1>4 DEF Bounded, Comes
  <1>10. UNCHANGED portfolios \/ \E d \in Books, book \in Book : SavePortfolio(d, book) /\ Within(d, book)'
    BY <1>2, <1>3, <1>7, <1>9
  <1> QED BY <1>4, <1>8, <1>9, <1>10, LimitingBy

LEMMA RecheckLimiting ==
    ASSUME Limiting, Typed', Kept, NEW c \in Clients, client[c].at = "sweep", Recheck(c)
    PROVE  Limiting'
  <1>0. PICK k, b, copy : k = client[c] /\ b = k.book /\ copy = k.copy
    OBVIOUS
  <1>1. Typed /\ k \in ClientState /\ Sound(k) /\ k.at = "sweep" /\ k.op = "recheck"
        /\ UNCHANGED <<portfolios, orders, made>>
    BY <1>0, RecheckPuts, ClientIs DEF Limiting
  <1>2. PICK n, x :
          /\ n \in k.todo /\ Comes(x, copy, n)
          /\ fills' = fills \cup x.fill
          /\ \E s \in ClientState : /\ Puts(c, s) /\ s.book = k.book /\ s.copy = x.copy
                                    /\ s.at \in {"sweep", "save"}
    BY <1>0, <1>1, RecheckPuts
  <1>3. PICK s \in ClientState : Puts(c, s) /\ s.book = k.book /\ s.copy = x.copy /\ s.at \in {"sweep", "save"}
    BY <1>2
  <1>4. n \in 1..made /\ orders[n].order.book = b /\ copy \in Book /\ orders[n].order.type # "market"
    BY <1>0, <1>1, <1>2, ClientFields DEF Sound
  <1>5. ~orders[n].order.checked /\ Within(b, copy)
    BY <1>0, <1>1, <1>4 DEF Limiting, Typed, OrdersTyped, Carries
  <1>6. Within(b, x.copy)'
    BY <1>1, <1>2, <1>4, <1>5, FillWithin
  <1>7. Within(s.book, s.copy)' /\ Bounded(s)' /\ fills \subseteq fills'
    BY <1>0, <1>2, <1>3, <1>6 DEF Bounded
  <1> QED BY <1>1, <1>3, <1>7, LimitingBy

LEMMA SimpleLimiting ==
    ASSUME Limiting, Typed', Kept, NEW c \in Clients, NEW s, Puts(c, s),
           ~Carries(s), s.at # "quote", UNCHANGED <<portfolios, fills>>
    PROVE  Limiting'
  <1>1. Bounded(s)' /\ fills \subseteq fills'
    BY DEF Bounded
  <1> QED BY <1>1, LimitingBy

LEMMA StaysLimiting ==
    ASSUME Limiting, Typed', Kept, UNCHANGED <<portfolios, fills>>,
           \A c \in Clients : client'[c] = client[c] \/ client'[c] = Idle
    PROVE  Limiting'
  <1>1. Typed /\ fills \subseteq fills'
    BY DEF Limiting
  <1>2. ASSUME NEW b \in Books, NEW book \in portfolios'[b] PROVE Within(b, book)'
    BY <1>1, <1>2, WithinStays DEF Limiting
  <1>3. ASSUME NEW d \in Clients
        PROVE  (Carries(client[d]) => Within(client[d].book, client[d].copy))' /\ Bounded(client[d])'
    <2>1. PICK k, b, copy : k = client'[d] /\ b = k.book /\ copy = k.copy
      OBVIOUS
    <2>2. /\ Carries(k) => Within(b, copy)
          /\ Sound(k) /\ Bounded(k)
      <3>1. CASE k = client[d]
        BY <1>1, <2>1, <3>1, ClientIs DEF Limiting
      <3>2. CASE k = Idle
        BY <1>1, <3>2, IdleIs, IdleSound DEF Bounded
      <3> QED BY <2>1, <3>1, <3>2
    <2>3. Carries(k) => Within(b, copy)'
      BY <1>1, <2>2, WithinStays
    <2>4. Bounded(k)'
      BY <1>1, <2>2, BoundedStays
    <2> QED BY <2>1, <2>3, <2>4 DEF Carries, Within, FillsOf, Held, Bounded
  <1> QED BY <1>2, <1>3 DEF Limiting

LEMMA FinishLimiting ==
    ASSUME Limiting, Typed', Kept, NEW c \in Clients, client[c].at = "sweep", Finish(c)
    PROVE  Limiting'
  <1>0. PICK k, b, copy : k = client[c] /\ b = k.book /\ copy = k.copy
    OBVIOUS
  <1>1. Typed /\ k \in ClientState /\ Sound(k) /\ k.at = "sweep" /\ fills \subseteq fills' /\ UNCHANGED fills
    BY <1>0, ClientIs DEF Finish, Limiting
  <1>2. Puts(c, Idle)
    BY DEF Finish, Puts
  <1>3. CASE ~k.dirty
    BY <1>0, <1>1, <1>2, <1>3, IdleIs, SimpleLimiting DEF Finish
  <1>4. CASE k.dirty
    <2>1. SavePortfolio(b, copy) /\ Carries(k) /\ b \in Books /\ copy \in Book
      BY <1>0, <1>1, <1>4, ClientFields DEF Finish, Sound, Carries
    <2>2. Within(b, copy)'
      BY <1>0, <1>1, <2>1, WithinStays DEF Limiting
    <2>3. Bounded(Idle)' /\ ~Carries(Idle)
      BY IdleIs DEF Bounded
    <2> QED BY <1>1, <1>2, <2>1, <2>2, <2>3, LimitingBy
  <1> QED BY <1>3, <1>4

LEMMA CopyLimiting ==
    ASSUME Limiting, Typed', Kept, NEW c \in Clients, NEW s, Puts(c, s), s.at = "sweep",
           Carries(s) => Carries(client[c]) /\ s.book = client[c].book /\ s.copy = client[c].copy,
           UNCHANGED <<portfolios, fills>>
    PROVE  Limiting'
  <1>0. PICK b, copy : b = s.book /\ copy = s.copy
    OBVIOUS
  <1>1. Typed /\ fills \subseteq fills'
    BY DEF Limiting
  <1>2. Carries(s) => Within(b, copy)
    BY <1>0 DEF Limiting
  <1>3. Carries(s) => Within(b, copy)'
    BY <1>1, <1>2, WithinStays
  <1>4. Bounded(s)'
    BY DEF Bounded
  <1> QED BY <1>0, <1>1, <1>3, <1>4, LimitingBy

LEMMA StepLimiting ==
    ASSUME Limiting, [Next]_vars
    PROVE  Limiting'
  <1>1. Typed' /\ Kept /\ Typed
    BY StepTyped DEF Limiting
  <1>2. ASSUME NEW c \in Clients, Steps(c) PROVE Limiting'
    <2>0. PICK k, b, copy : k = client[c] /\ b = k.book /\ copy = k.copy
      OBVIOUS
    <2>1. CASE GetPortfolio(c) \/ CreatePortfolio(c)
      BY <1>1, <2>1, FindsLimiting
    <2>2. CASE Quote(c)
      BY <1>1, <2>2, QuoteLimiting
    <2>3. CASE SaveOrder(c)
      <3>1. k.at = "save" /\ UNCHANGED <<portfolios, fills>>
        BY <1>1, <2>0, <2>3, SaveOrderPuts
      <3>2. PICK s \in ClientState :
              /\ Puts(c, s)
              /\ s = Idle \/ (Same(s, k) /\ s.at = "sweep" /\ s.copy = k.copy)
        BY <1>1, <2>0, <2>3, SaveOrderPuts
      <3>3. CASE s = Idle
        BY <1>1, <3>1, <3>2, <3>3, IdleIs, SimpleLimiting
      <3>4. CASE Same(s, k) /\ s.at = "sweep" /\ s.copy = k.copy
        <4>1. Carries(s) => Carries(k) /\ s.book = k.book /\ s.copy = k.copy
          BY <3>1, <3>4 DEF Carries, Same
        <4> QED BY <1>1, <2>0, <3>1, <3>2, <3>4, <4>1, CopyLimiting
      <3> QED BY <3>2, <3>3, <3>4
    <2>4. CASE List(c)
      <3>1. k.at = "list" /\ UNCHANGED <<portfolios, fills>>
        BY <1>1, <2>0, <2>4, ListPuts
      <3>2. PICK s \in ClientState : Puts(c, s) /\ Same(s, k) /\ s.at = "sweep" /\ s.copy = k.copy
        BY <1>1, <2>0, <2>4, ListPuts
      <3>3. Carries(s) => Carries(k) /\ s.book = k.book /\ s.copy = k.copy
        BY <3>1, <3>2 DEF Carries, Same
      <3> QED BY <1>1, <2>0, <3>1, <3>2, <3>3, CopyLimiting
    <2>5. CASE Cancel(c)
      <3>1. UNCHANGED <<portfolios, fills>>
        BY <1>1, <2>5, CancelPuts
      <3>2. PICK s \in ClientState : Puts(c, s) /\ s.op = "cancel" /\ s.at = "save"
        BY <1>1, <2>5, CancelPuts
      <3>3. ~Carries(s)
        BY <3>2 DEF Carries
      <3> QED BY <1>1, <3>1, <3>2, <3>3, SimpleLimiting
    <2>6. CASE client[c].at = "sweep" /\ Close(c) /\ UNCHANGED triggered
      <3>1. /\ b \in Books /\ copy \in Book /\ Makes(c, b, copy)
            /\ client[c].todo = {} /\ ~client[c].dirty
            /\ UNCHANGED <<portfolios, newest, fills>>
        BY <1>1, <2>0, <2>6, CloseMakes
      <3>2. k.op = "close" /\ k.at = "sweep"
        BY <2>0, <2>6 DEF Close
      <3>3. Within(b, copy)
        BY <2>0, <3>2 DEF Limiting, Carries
      <3> QED BY <1>1, <3>1, <3>3, MakesLimiting
    <2>7. CASE client[c].at = "sweep" /\ Recheck(c) /\ UNCHANGED triggered
      BY <1>1, <2>7, RecheckLimiting
    <2>8. CASE client[c].at = "sweep" /\ Pause(c) /\ UNCHANGED triggered
      <3>1. UNCHANGED <<portfolios, fills>>
        BY <1>1, <2>8, PausePuts
      <3>2. PICK s \in ClientState : Puts(c, s) /\ (s = Idle \/ (s.op = "pause" /\ s.at = "save"))
        BY <1>1, <2>8, PausePuts DEF Same
      <3>3. ~Carries(s) /\ s.at # "quote"
        BY <3>2, IdleIs DEF Carries
      <3> QED BY <1>1, <3>1, <3>2, <3>3, SimpleLimiting
    <2>9. CASE client[c].at = "sweep" /\ Finish(c) /\ UNCHANGED triggered
      BY <1>1, <2>9, FinishLimiting
    <2> QED BY <1>2, <2>1, <2>2, <2>3, <2>4, <2>5, <2>6, <2>7, <2>8, <2>9 DEF Steps
  <1>3. CASE StaleData
    BY <1>1, <1>3, StaysLimiting DEF StaleData
  <1>4. CASE Restart
    BY <1>1, <1>4, StaysLimiting DEF Restart
  <1>5. CASE UNCHANGED vars
    BY <1>1, <1>5, StaysLimiting DEF vars
  <1> QED BY <1>2, <1>3, <1>4, <1>5, NextSteps

\* No portfolio has more positions than the risk rules allow unless an order that passes them
\* by was filled, proposals that overlap or not.
THEOREM PositionsLimited == Spec => []PositionLimit
  <1>1. Init => Limiting
    <2> SUFFICES ASSUME Init PROVE Limiting
      OBVIOUS
    <2>1. \A b \in Books : portfolios[b] = {}
      BY DEF Init
    <2>2. \A c \in Clients : ~Carries(client[c]) /\ client[c].at # "quote"
      BY IdleIs DEF Init
    <2> QED BY <2>1, <2>2, Initially DEF Limiting, Bounded
  <1>2. Limiting /\ [Next]_vars => Limiting'
    BY StepLimiting
  <1>3. Limiting => PositionLimit
    BY DEF Limiting, PositionLimit, Within, FillsOf
  <1> QED BY <1>1, <1>2, <1>3, PTL DEF Spec
==============================================================================
