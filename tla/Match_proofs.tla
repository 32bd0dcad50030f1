------------------------------ MODULE Match_proofs ------------------------------
(***************************************************************************)
(* What the search for the longest match finds, in any data and with any   *)
(* window, hash and cache.                                                 *)
(***************************************************************************)
EXTENDS Match, FiniteSetTheorems, WellFoundedInduction, TLAPS

-----------------------------------------------------------------------------
(* Numbers, and recursion over them.                                       *)

\* A set of natural numbers that is not empty has a least element.
LEMMA LeastNumber ==
    ASSUME NEW T \in SUBSET Nat, T # {}
    PROVE  \E n \in T : \A m \in T : n <= m
<1> DEFINE F == {0 .. n - 1 : n \in T}
<1>1. IsWellFoundedOn(StrictSubsetOrdering(Nat), FiniteSubsetsOf(Nat))
  BY FS_StrictSubsetOrderingWellFounded
<1>2. F \subseteq FiniteSubsetsOf(Nat)
  <2> SUFFICES ASSUME NEW n \in T PROVE 0 .. n - 1 \in FiniteSubsetsOf(Nat)
    OBVIOUS
  <2>1. IsFiniteSet(0 .. n - 1) /\ 0 .. n - 1 \subseteq Nat
    BY FS_Interval
  <2>2. QED
    BY <2>1 DEF FiniteSubsetsOf
<1>3. PICK X \in F : \A Y \in F : ~ (<<Y, X>> \in StrictSubsetOrdering(Nat))
  <2>1. F # {}
    OBVIOUS
  <2> HIDE DEF F
  <2>2. QED
    BY <1>1, <1>2, <2>1, WFMin
<1>4. PICK n \in T : X = 0 .. n - 1
  BY <1>3
<1>5. ASSUME NEW m \in T PROVE n <= m
  <2> SUFFICES ASSUME m < n PROVE FALSE
    OBVIOUS
  <2>1. 0 .. m - 1 \in SUBSET Nat /\ 0 .. n - 1 \in SUBSET Nat /\ 0 .. m - 1 \subseteq 0 .. n - 1
    OBVIOUS
  <2>2. m \in 0 .. n - 1 /\ m \notin 0 .. m - 1
    OBVIOUS
  <2>3. <<0 .. m - 1, X>> \in StrictSubsetOrdering(Nat)
    BY <1>4, <2>1, <2>2 DEF StrictSubsetOrdering
  <2>4. QED
    BY <1>3, <2>3
<1>6. QED
  BY <1>5

\* What holds of a number and of the number after each it holds of, holds of
\* all from that one on.
LEMMA Induction ==
    ASSUME NEW S, NEW a \in Nat, a \in S,
           \A n \in Nat : n >= a /\ n \in S => n + 1 \in S
    PROVE  \A n \in Nat : n >= a => n \in S
<1> DEFINE T == {n \in Nat : n >= a /\ n \notin S}
<1> SUFFICES ASSUME T # {} PROVE FALSE
  OBVIOUS
<1>1. PICK n \in T : \A m \in T : n <= m
  <2>1. T \in SUBSET Nat
    OBVIOUS
  <2> HIDE DEF T
  <2>2. QED
    BY <2>1, LeastNumber
<1>2. n # a /\ n - 1 \in Nat /\ n - 1 >= a /\ ~ (n <= n - 1)
  OBVIOUS
<1>3. n - 1 \in S
  BY <1>1, <1>2
<1>4. (n - 1) + 1 \in S
  BY <1>2, <1>3
<1>5. QED
  BY <1>4

\* f has a given value at 0 and follows from its last value up to N.
Solves(f, N, base, step) ==
    /\ f = [i \in 0 .. N |-> f[i]]
    /\ f[0] = base
    /\ \A i \in 1 .. N : f[i] = step[<<i, f[i - 1]>>]

\* There is such a function for every N.
LEMMA Solvable ==
    ASSUME NEW base, NEW step
    PROVE  \A N \in Nat : \E f : Solves(f, N, base, step)
<1> DEFINE S == {n \in Nat : \E f : Solves(f, n, base, step)}
<1>1. 0 \in S
  <2>1. Solves([i \in 0 .. 0 |-> base], 0, base, step)
    BY DEF Solves
  <2>2. QED
    BY <2>1
<1>2. ASSUME NEW m \in Nat, m \in S PROVE m + 1 \in S
  <2>1. PICK f : Solves(f, m, base, step)
    BY <1>2
  <2> DEFINE n == m + 1
             g == [i \in 0 .. n |-> IF i = n THEN step[<<n, f[m]>>] ELSE f[i]]
  <2>2. g[0] = base
    BY <2>1 DEF Solves
  <2>3. ASSUME NEW i \in 1 .. n PROVE g[i] = step[<<i, g[i - 1]>>]
    <3>1. g[i - 1] = f[i - 1]
      OBVIOUS
    <3>2. CASE i = n
      BY <3>1, <3>2
    <3>3. CASE i # n
      <4>1. i \in 1 .. m
        BY <3>3
      <4>2. f[i] = step[<<i, f[i - 1]>>]
        BY <2>1, <4>1 DEF Solves
      <4>3. g[i] = f[i]
        BY <3>3
      <4>4. QED
        BY <3>1, <4>2, <4>3
    <3>4. QED
      BY <3>2, <3>3
  <2>4. Solves(g, n, base, step)
    BY <2>2, <2>3 DEF Solves
  <2>5. QED
    BY <2>4
<1> HIDE DEF S
<1>3. \A n \in Nat : n >= 0 => n \in S
  BY <1>1, <1>2, Induction
<1>4. QED
  BY <1>3 DEF S

\* Two of them agree where both are defined.
LEMMA Agreeing ==
    ASSUME NEW base, NEW step, NEW M \in Nat, NEW N \in Nat, NEW f, NEW g, M <= N,
           Solves(f, M, base, step), Solves(g, N, base, step)
    PROVE  \A i \in 0 .. M : f[i] = g[i]
<1> DEFINE S == {n \in Nat : n <= M => f[n] = g[n]}
<1>1. 0 \in S
  BY DEF Solves
<1>2. ASSUME NEW n \in Nat, n \in S PROVE n + 1 \in S
  <2> SUFFICES ASSUME n + 1 <= M PROVE f[n + 1] = g[n + 1]
    OBVIOUS
  <2>1. f[n] = g[n] /\ n + 1 \in 1 .. M /\ n + 1 \in 1 .. N /\ (n + 1) - 1 = n
    BY <1>2
  <2>2. QED
    BY <2>1 DEF Solves
<1> HIDE DEF S
<1>3. \A n \in Nat : n >= 0 => n \in S
  BY <1>1, <1>2, Induction
<1>4. QED
  BY <1>3 DEF S

\* f has a given value at 0 and every other one follows from the one before.
Maps(S, step) == \A n \in Nat, x \in S : step[<<n, x>>] \in S
Follows(f, S, base, step) ==
    /\ f \in [Nat -> S]
    /\ f[0] = base
    /\ \A n \in Nat \ {0} : f[n] = step[<<n, f[n - 1]>>]

\* There is such a function.
LEMMA Recursion ==
    ASSUME NEW S, NEW base, NEW step, base \in S, Maps(S, step)
    PROVE  \E f : Follows(f, S, base, step)
<1> DEFINE g(n) == CHOOSE f : Solves(f, n, base, step)
           f == [n \in Nat |-> g(n)[n]]
<1>1. \A n \in Nat : Solves(g(n), n, base, step)
  <2> SUFFICES ASSUME NEW n \in Nat PROVE Solves(g(n), n, base, step)
    OBVIOUS
  <2>1. \E h : Solves(h, n, base, step)
    BY Solvable
  <2>2. QED
    BY <2>1
<1> HIDE DEF g
<1>2. f[0] = base
  BY <1>1 DEF Solves
<1>3. ASSUME NEW n \in Nat \ {0} PROVE f[n] = step[<<n, f[n - 1]>>]
  <2>1. n \in 1 .. n /\ n - 1 \in Nat /\ n - 1 <= n /\ n - 1 \in 0 .. (n - 1)
    OBVIOUS
  <2>2. g(n)[n] = step[<<n, g(n)[n - 1]>>]
    BY <1>1, <2>1 DEF Solves
  <2>3. g(n - 1)[n - 1] = g(n)[n - 1]
    <3>1. Solves(g(n - 1), n - 1, base, step) /\ Solves(g(n), n, base, step)
      BY <1>1, <2>1
    <3>2. QED
      BY <2>1, <3>1, Agreeing
  <2>4. QED
    BY <2>1, <2>2, <2>3
<1> DEFINE R == {n \in Nat : f[n] \in S}
<1>4. \A n \in Nat : n >= 0 => n \in R
  <2>1. 0 \in R
    BY <1>2
  <2>2. ASSUME NEW n \in Nat, n \in R PROVE n + 1 \in R
    <3>1. f[n] \in S /\ n + 1 \in Nat \ {0} /\ (n + 1) - 1 = n
      BY <2>2
    <3> HIDE DEF f
    <3>2. f[n + 1] = step[<<n + 1, f[n]>>]
      BY <1>3, <3>1
    <3>3. f[n + 1] \in S
      BY <3>1, <3>2 DEF Maps
    <3>4. QED
      BY <3>3
  <2> HIDE DEF R
  <2>3. QED
    BY <2>1, <2>2, Induction
<1>5. \A n \in Nat : f[n] \in S
  BY <1>4
<1>6. f \in [Nat -> S]
  BY <1>5
<1>7. QED
  <2> HIDE DEF f
  <2>1. QED
    BY <1>2, <1>3, <1>6 DEF Follows

-----------------------------------------------------------------------------
(* Positions modulo the window.                                            *)

Slots == 0 .. WINDOW - 1

\* The constants are numbers, and the window is longer than the longest match.
LEMMA Sizes ==
    /\ WINDOW \in Nat /\ MAX_MATCH \in Nat /\ MAX_MATCH > 3 /\ WINDOW > MAX_MATCH
    /\ HASH_SIZE \in Nat \ {0} /\ SAME_SIZE \in Nat \ {0} /\ SAME_SIZE <= HASH_SIZE
    /\ CACHE_LENGTH \in Nat \ {0} /\ MAX_CHAIN_HITS \in Nat \ {0}
    /\ 0 \in Byte /\ 0 \in HashValues /\ HashValues \subseteq Nat
BY MatchAssumption, StoreAssumption DEF HashValues

\* What / and % do with numbers that are not negative.
LEMMA Division ==
    ASSUME NEW a \in Nat, NEW b \in Nat \ {0}
    PROVE  /\ a \div b \in Nat
           /\ a % b \in 0 .. b - 1
           /\ a = b * (a \div b) + (a % b)
OBVIOUS

\* Multiples of b that are less than b apart are the same.
LEMMA Multiples ==
    ASSUME NEW b \in Nat \ {0}, NEW x \in Nat, NEW y \in Nat, x < y
    PROVE  b * y >= b * x + b
<1>1. PICK d \in Nat : y = x + 1 + d
  <2>1. y - x - 1 \in Nat /\ y = x + 1 + (y - x - 1)
    OBVIOUS
  <2>2. QED
    BY <2>1
<1>2. b * y = b * x + b + b * d
  BY <1>1
<1>3. b * d \in Nat /\ b * x \in Nat
  OBVIOUS
<1>4. QED
  BY <1>2, <1>3

\* Numbers of one slot that are less than a window apart are the same.
LEMMA SameSlot ==
    ASSUME NEW m \in Nat, NEW n \in Nat, m <= n, n < m + WINDOW, m % WINDOW = n % WINDOW
    PROVE  m = n
<1> DEFINE x == m \div WINDOW
           y == n \div WINDOW
           r == m % WINDOW
<1>1. /\ WINDOW \in Nat \ {0} /\ x \in Nat /\ y \in Nat /\ r \in 0 .. WINDOW - 1
      /\ m = WINDOW * x + r /\ n = WINDOW * y + r
  BY Sizes, Division
<1> HIDE DEF x, y, r
<1>2. WINDOW * x \in Nat /\ WINDOW * y \in Nat
  BY <1>1
<1>3. ~ (x < y)
  <2> SUFFICES ASSUME x < y PROVE FALSE
    OBVIOUS
  <2>1. WINDOW * y >= WINDOW * x + WINDOW
    BY <1>1, Multiples
  <2>2. QED
    BY <1>1, <1>2, <2>1
<1>4. ~ (y < x)
  <2> SUFFICES ASSUME y < x PROVE FALSE
    OBVIOUS
  <2>1. WINDOW * x >= WINDOW * y + WINDOW
    BY <1>1, Multiples
  <2>2. QED
    BY <1>1, <1>2, <2>1
<1>5. x = y
  BY <1>1, <1>3, <1>4
<1>6. QED
  BY <1>1, <1>5

\* The slot of a number is that of the multiple it follows by less than a
\* window.
LEMMA SlotIs ==
    ASSUME NEW q \in Nat, NEW r \in Slots
    PROVE  (WINDOW * q + r) % WINDOW = r
<1> DEFINE a == WINDOW * q + r
<1>1. WINDOW \in Nat \ {0} /\ r \in 0 .. WINDOW - 1 /\ WINDOW * q \in Nat /\ a \in Nat
  BY Sizes DEF Slots
<1>2. a \div WINDOW \in Nat /\ a % WINDOW \in 0 .. WINDOW - 1
      /\ a = WINDOW * (a \div WINDOW) + (a % WINDOW)
  BY <1>1, Division
<1> DEFINE y == a \div WINDOW
           s == a % WINDOW
<1>3. y \in Nat /\ s \in 0 .. WINDOW - 1 /\ WINDOW * q + r = WINDOW * y + s /\ WINDOW * y \in Nat
  BY <1>1, <1>2
<1> HIDE DEF y, s
<1>4. ~ (q < y)
  <2> SUFFICES ASSUME q < y PROVE FALSE
    OBVIOUS
  <2>1. WINDOW * y >= WINDOW * q + WINDOW
    BY <1>1, <1>3, Multiples
  <2>2. QED
    BY <1>1, <1>3, <2>1
<1>5. ~ (y < q)
  <2> SUFFICES ASSUME y < q PROVE FALSE
    OBVIOUS
  <2>1. WINDOW * q >= WINDOW * y + WINDOW
    BY <1>1, <1>3, Multiples
  <2>2. QED
    BY <1>1, <1>3, <2>1
<1>6. y = q
  BY <1>3, <1>4, <1>5
<1>7. s = r
  BY <1>1, <1>3, <1>6
<1>8. QED
  BY <1>7 DEF s, a

\* A position has the same slot a window later.
LEMMA NextWindow ==
    ASSUME NEW n \in Nat
    PROVE  n % WINDOW \in Slots /\ (n + WINDOW) % WINDOW = n % WINDOW
<1> DEFINE x == n \div WINDOW
           r == n % WINDOW
<1>1. WINDOW \in Nat \ {0} /\ x \in Nat /\ r \in 0 .. WINDOW - 1 /\ n = WINDOW * x + r
  <2>1. WINDOW \in Nat \ {0}
    BY Sizes
  <2>2. QED
    BY <2>1, Division
<1> HIDE DEF x, r
<1>2. n + WINDOW = WINDOW * (x + 1) + r
  BY <1>1
<1>3. (WINDOW * (x + 1) + r) % WINDOW = r
  <2>1. x + 1 \in Nat /\ r \in Slots
    BY <1>1 DEF Slots
  <2>2. QED
    BY <2>1, SlotIs
<1>4. QED
  BY <1>1, <1>2, <1>3 DEF r, Slots

\* Back is how far the slot p is before that of position n, at most a window.
LEMMA BackSlot ==
    ASSUME NEW n \in Nat, NEW p \in Slots
    PROVE  /\ Back(n % WINDOW, p) \in 1 .. WINDOW
           /\ (n + WINDOW - Back(n % WINDOW, p)) % WINDOW = p
<1> DEFINE x == n \div WINDOW
           r == n % WINDOW
           b == Back(r, p)
<1>1. WINDOW \in Nat \ {0} /\ x \in Nat /\ r \in 0 .. WINDOW - 1 /\ n = WINDOW * x + r
      /\ p \in 0 .. WINDOW - 1
  <2>1. WINDOW \in Nat \ {0} /\ p \in 0 .. WINDOW - 1
    BY Sizes DEF Slots
  <2>2. QED
    BY <2>1, Division
<1> HIDE DEF x, r
<1>2. b \in 1 .. WINDOW
  BY <1>1 DEF Back
<1>3. CASE p < r
  <2>1. b = r - p
    BY <1>3 DEF Back
  <2>2. n + WINDOW - b = WINDOW * (x + 1) + p
    <3>1. WINDOW * (x + 1) = WINDOW * x + WINDOW
      BY <1>1
    <3>2. WINDOW * x \in Nat
      BY <1>1
    <3> HIDE DEF b
    <3>3. QED
      BY <1>1, <2>1, <3>1, <3>2
  <2>3. (WINDOW * (x + 1) + p) % WINDOW = p
    BY <1>1, SlotIs
  <2>4. QED
    BY <1>2, <2>2, <2>3 DEF r
<1>4. CASE ~ (p < r)
  <2>1. b = WINDOW - p + r
    BY <1>4 DEF Back
  <2>2. n + WINDOW - b = WINDOW * x + p
    <3>1. WINDOW * x \in Nat
      BY <1>1
    <3> HIDE DEF b
    <3>2. QED
      BY <1>1, <2>1, <3>1
  <2>3. (WINDOW * x + p) % WINDOW = p
    BY <1>1, SlotIs
  <2>4. QED
    BY <1>2, <2>2, <2>3 DEF r
<1>5. QED
  BY <1>3, <1>4

-----------------------------------------------------------------------------
(* The hash of the positions before upto, from position from on.           *)

TableType == [val : HashValues, head : [HashValues -> Slots \union {-1}],
              prev : [Slots -> Slots], hashval : [Slots -> HashValues \union {-1}]]
HashType == [first : TableType, second : TableType, same : [Slots -> Nat]]

\* The chains lead through slots of those positions.
Recorded(s, from, upto) == \E q \in from .. upto - 1 : s = q % WINDOW
Linking(t, from, upto) ==
    /\ \A v \in HashValues : t.head[v] = -1 \/ Recorded(t.head[v], from, upto)
    /\ \A s \in Slots : t.prev[s] = s \/ Recorded(t.prev[s], from, upto)

\* The n bytes after position q are equal to the one at q.
EqualRun(array, q, n, end) ==
    /\ n \in Nat /\ q + n + 1 <= end
    /\ \A k \in 0 .. n : array[q + k + 1] = array[q + 1]
RunsKnown(array, from, upto, end, h) ==
    \A q \in from .. upto - 1 : q + WINDOW >= upto => EqualRun(array, q, h.same[q % WINDOW], end)

\* The hash value is one of the last bytes that were hashed.
OfTwo(array, upto, end, h) ==
    upto + 2 <= end =>
      \E v \in HashValues :
        h.first.val = UpdateHashValue(UpdateHashValue(v, array[upto + 1]), array[upto + 2])
OfThree(array, upto, end, h) ==
    upto + 2 <= end =>
      \E v \in HashValues :
        h.first.val = UpdateHashValue(UpdateHashValue(UpdateHashValue(v, array[upto]),
                                                      array[upto + 1]), array[upto + 2])

\* The last position heads the chain of its hash value.
Latest(upto, h) ==
    /\ h.first.head[h.first.val] = (upto - 1) % WINDOW
    /\ h.first.hashval[(upto - 1) % WINDOW] = h.first.val

HashInv(array, from, upto, end, h) ==
    /\ h \in HashType
    /\ Linking(h.first, from, upto) /\ Linking(h.second, from, upto)
    /\ RunsKnown(array, from, upto, end, h)
    /\ OfTwo(array, upto, end, h)
    /\ upto = from => \A s \in Slots : h.same[s] = 0
    /\ upto > from => Latest(upto, h) /\ OfThree(array, upto, end, h)

\* Min of a set of natural numbers is its least element.
LEMMA LeastElement ==
    ASSUME NEW T \in SUBSET Nat, T # {}
    PROVE  Min(T) \in T /\ \A y \in T : Min(T) <= y
BY LeastNumber DEF Min

\* Linking a position into a table keeps its type and what the chains lead
\* through; the position heads its chain, and if the position before heads the
\* chain of the same value, it is the next in it.
LEMMA LinkedTable ==
    ASSUME NEW t \in TableType, NEW from \in Nat, NEW upto \in Nat, from <= upto,
           NEW v \in HashValues, Linking(t, from, upto)
    PROVE  LET new == Linked(t, upto % WINDOW, v)
           IN  /\ new \in TableType
               /\ Linking(new, from, upto + 1)
               /\ new.val = v
               /\ new.head[v] = upto % WINDOW
               /\ new.hashval[upto % WINDOW] = v
               /\ (t.head[v] \in Slots /\ t.hashval[t.head[v]] = v)
                     => new.prev[upto % WINDOW] = t.head[v]
<1> DEFINE s == upto % WINDOW
           new == Linked(t, s, v)
           hashval == [t.hashval EXCEPT ![s] = v]
           last == t.head[v]
           at == IF last = -1 THEN 0 ELSE last
           link == IF last # -1 /\ hashval[at] = v THEN last ELSE s
<1>1. s \in Slots
  BY NextWindow
<1>2. /\ t.val \in HashValues /\ t.head \in [HashValues -> Slots \union {-1}]
      /\ t.prev \in [Slots -> Slots] /\ t.hashval \in [Slots -> HashValues \union {-1}]
  BY DEF TableType
<1>3. new = [val |-> v, hashval |-> hashval, head |-> [t.head EXCEPT ![v] = s],
             prev |-> [t.prev EXCEPT ![s] = link]]
  BY DEF Linked
<1>4. last \in Slots \union {-1}
  BY <1>2
<1>5. link \in Slots
  BY <1>1, <1>4
<1>6. hashval \in [Slots -> HashValues \union {-1}] /\ hashval[s] = v
  BY <1>1, <1>2
<1>7. link = s \/ (link = last /\ last # -1)
  OBVIOUS
<1>8. last \in Slots /\ t.hashval[last] = v => link = last
  <2> SUFFICES ASSUME last \in Slots, t.hashval[last] = v PROVE link = last
    OBVIOUS
  <2>1. last # -1
    BY DEF Slots
  <2>2. hashval[last] = v
    BY <1>2
  <2>3. QED
    BY <2>1, <2>2
<1> HIDE DEF hashval, link, last, at, new, s
<1>9. new \in TableType
  BY <1>1, <1>2, <1>3, <1>5, <1>6 DEF TableType
<1>10. /\ new.val = v /\ new.head[v] = s /\ new.hashval[s] = v /\ new.prev[s] = link
       /\ \A w \in HashValues : w # v => new.head[w] = t.head[w]
       /\ \A p \in Slots : p # s => new.prev[p] = t.prev[p]
  BY <1>1, <1>2, <1>3, <1>6
<1>11. \A p : Recorded(p, from, upto) => Recorded(p, from, upto + 1)
  BY DEF Recorded
<1>12. Recorded(s, from, upto + 1)
  BY DEF Recorded, s
<1>13. last # -1 => Recorded(last, from, upto)
  BY DEF Linking, last
<1>14. Linking(new, from, upto + 1)
  <2>1. ASSUME NEW w \in HashValues
        PROVE  new.head[w] = -1 \/ Recorded(new.head[w], from, upto + 1)
    BY <1>10, <1>11, <1>12 DEF Linking
  <2>2. ASSUME NEW p \in Slots
        PROVE  new.prev[p] = p \/ Recorded(new.prev[p], from, upto + 1)
    BY <1>7, <1>10, <1>11, <1>13 DEF Linking
  <2>3. QED
    BY <2>1, <2>2 DEF Linking
<1>15. QED
  BY <1>8, <1>9, <1>10, <1>14 DEF last, new, s

\* The run at pos that UpdateHash finds is one: it starts from what it knows of
\* the position before.
LEMMA AmountIsRun ==
    ASSUME NEW array \in Seq(Byte), NEW end \in Nat, NEW pos \in Nat, pos < end,
           NEW known \in Nat, EqualRun(array, pos, known, end)
    PROVE  LET amount == Min({n \in known .. known + end :
                                n >= MAX_SAME \/ pos + n + 1 >= end \/ array[pos + 1] # array[pos + n + 2]})
           IN  EqualRun(array, pos, amount, end)
<1> DEFINE T == {n \in known .. known + end :
                   n >= MAX_SAME \/ pos + n + 1 >= end \/ array[pos + 1] # array[pos + n + 2]}
           amount == Min(T)
<1>1. amount \in T /\ \A y \in T : amount <= y
  <2>1. T \in SUBSET Nat
    OBVIOUS
  <2>2. known + end \in T
    OBVIOUS
  <2> HIDE DEF T
  <2>3. QED
    BY <2>1, <2>2, LeastElement
<1>2. amount \in Nat /\ amount >= known /\ amount <= known + end
  BY <1>1
<1>3. ASSUME NEW n \in Nat, n >= known, n < amount
      PROVE  pos + n + 1 < end /\ array[pos + 1] = array[pos + n + 2]
  <2>1. n \notin T
    <3> HIDE DEF T, amount
    <3>1. ~ (amount <= n)
      BY <1>2, <1>3
    <3>2. QED
      BY <1>1, <3>1
  <2>2. n \in known .. known + end
    <3> HIDE DEF T, amount
    <3>1. QED
      BY <1>2, <1>3
  <2>3. QED
    BY <2>1, <2>2
<1> HIDE DEF T, amount
<1>4. pos + amount + 1 <= end
  <2>1. CASE amount = known
    BY <2>1 DEF EqualRun
  <2>2. CASE amount # known
    <3>1. amount - 1 \in Nat /\ amount - 1 >= known /\ amount - 1 < amount
      BY <1>2, <2>2
    <3>2. pos + (amount - 1) + 1 < end
      BY <1>3, <3>1
    <3>3. QED
      BY <1>2, <3>2
  <2>3. QED
    BY <2>1, <2>2
<1>5. ASSUME NEW k \in 0 .. amount PROVE array[pos + k + 1] = array[pos + 1]
  <2>1. CASE k <= known
    BY <2>1, <1>2 DEF EqualRun
  <2>2. CASE k > known
    <3>1. k - 1 \in Nat /\ k - 1 >= known /\ k - 1 < amount /\ pos + (k - 1) + 2 = pos + k + 1
      BY <1>2, <2>2
    <3>2. QED
      BY <1>3, <3>1
  <2>3. QED
    BY <1>2, <2>1, <2>2
<1>6. QED
  BY <1>2, <1>4, <1>5 DEF EqualRun, T, amount

\* What UpdateHash knows of the run at a position from the one before.
LEMMA KnownRun ==
    ASSUME NEW array \in Seq(Byte), NEW end \in Nat, NEW from \in Nat, NEW pos \in Nat,
           from <= pos, pos < end, NEW h, HashInv(array, from, pos, end, h)
    PROVE  LET before == h.same[(pos + WINDOW - 1) % WINDOW]
               known == IF before > 1 THEN before - 1 ELSE 0
           IN  known \in Nat /\ EqualRun(array, pos, known, end)
<1> DEFINE before == h.same[(pos + WINDOW - 1) % WINDOW]
           known == IF before > 1 THEN before - 1 ELSE 0
<1>1. WINDOW \in Nat /\ WINDOW > 1
  BY Sizes
<1>2. (pos + WINDOW - 1) % WINDOW \in Slots
  <2>1. pos + WINDOW - 1 \in Nat
    BY <1>1
  <2>2. QED
    BY <2>1, NextWindow
<1>3. before \in Nat
  BY <1>2 DEF HashInv, HashType
<1>4. CASE before <= 1
  BY <1>3, <1>4 DEF EqualRun
<1>5. CASE before > 1
  <2>1. pos # from
    BY <1>2, <1>5 DEF HashInv
  <2>2. pos - 1 \in Nat /\ pos - 1 \in from .. pos - 1 /\ pos - 1 + WINDOW >= pos
        /\ pos + WINDOW - 1 = (pos - 1) + WINDOW
    BY <1>1, <2>1
  <2>3. before = h.same[(pos - 1) % WINDOW]
    BY <2>2, NextWindow
  <2>4. EqualRun(array, pos - 1, before, end)
    BY <2>2, <2>3 DEF HashInv, RunsKnown
  <2> HIDE DEF before
  <2>5. known = before - 1 /\ known \in Nat /\ pos + known + 1 <= end
    BY <1>3, <1>5, <2>2, <2>4 DEF EqualRun
  <2>6. ASSUME NEW k \in 0 .. known PROVE array[pos + k + 1] = array[pos + 1]
    <3>1. k + 1 \in 0 .. before /\ 1 \in 0 .. before
          /\ (pos - 1) + (k + 1) + 1 = pos + k + 1 /\ (pos - 1) + 1 + 1 = pos + 1
      BY <1>3, <1>5, <2>5
    <3>2. array[(pos - 1) + (k + 1) + 1] = array[(pos - 1) + 1]
          /\ array[(pos - 1) + 1 + 1] = array[(pos - 1) + 1]
      BY <2>4, <3>1 DEF EqualRun
    <3>3. QED
      BY <3>1, <3>2
  <2>7. QED
    BY <2>5, <2>6 DEF EqualRun, before
<1>6. QED
  BY <1>3, <1>4, <1>5

\* A hash value has one of a byte more.
LEMMA NextValue ==
    ASSUME NEW array \in Seq(Byte), NEW pos \in Nat, pos < Len(array),
           NEW val \in HashValues
    PROVE  UpdateHashValue(val, IF pos + MIN_MATCH <= Len(array)
                                THEN array[pos + MIN_MATCH] ELSE 0) \in HashValues
<1>1. (IF pos + MIN_MATCH <= Len(array) THEN array[pos + MIN_MATCH] ELSE 0) \in Byte
  <2>1. CASE pos + MIN_MATCH <= Len(array)
    <3>1. pos + MIN_MATCH \in 1 .. Len(array)
      BY <2>1 DEF MIN_MATCH
    <3>2. QED
      BY <2>1, <3>1
  <2>2. CASE ~ (pos + MIN_MATCH <= Len(array))
    BY <2>2, Sizes
  <2>3. QED
    BY <2>1, <2>2
<1>2. QED
  BY <1>1, MatchAssumption

\* UpdateHash keeps HashInv.
LEMMA UpdateHashKeeps ==
    ASSUME NEW array \in Seq(Byte), NEW from \in Nat, NEW pos \in Nat,
           from <= pos, pos < Len(array), NEW h, HashInv(array, from, pos, Len(array), h)
    PROVE  HashInv(array, from, pos + 1, Len(array), UpdateHash(array, pos, Len(array), h))
<1> DEFINE end == Len(array)
           hpos == pos % WINDOW
           val == UpdateHashValue(h.first.val, IF pos + MIN_MATCH <= end
                                               THEN array[pos + MIN_MATCH] ELSE 0)
           before == h.same[(pos + WINDOW - 1) % WINDOW]
           known == IF before > 1 THEN before - 1 ELSE 0
           amount == Min({n \in known .. known + end :
                            n >= MAX_SAME \/ pos + n + 1 >= end \/ array[pos + 1] # array[pos + n + 2]})
           second == XorOf((amount - MIN_MATCH) % SAME_SIZE, val)
           new == UpdateHash(array, pos, end, h)
<1>1. new = [first |-> Linked(h.first, hpos, val), second |-> Linked(h.second, hpos, second),
             same |-> [h.same EXCEPT ![hpos] = amount]]
  BY DEF UpdateHash
<1>2. h.first \in TableType /\ h.second \in TableType /\ h.same \in [Slots -> Nat]
  BY DEF HashInv, HashType
<1>3. h.first.val \in HashValues
  BY <1>2 DEF TableType
<1>4. val \in HashValues
  BY <1>3, NextValue
<1>5. known \in Nat /\ EqualRun(array, pos, known, end)
  BY KnownRun
<1>6. EqualRun(array, pos, amount, end)
  <2> HIDE DEF known
  <2>1. QED
    BY <1>5, AmountIsRun
<1>7. amount \in Nat
  BY <1>6 DEF EqualRun
<1> HIDE DEF amount, known, before, val
<1>8. second \in HashValues
  <2>1. (amount - MIN_MATCH) % SAME_SIZE \in 0 .. SAME_SIZE - 1
    <3>1. amount - MIN_MATCH \in Int
      BY <1>7 DEF MIN_MATCH
    <3>2. SAME_SIZE \in Nat \ {0}
      BY Sizes
    <3>3. QED
      BY <3>1, <3>2
  <2>2. (amount - MIN_MATCH) % SAME_SIZE \in HashValues
    <3>1. 0 .. SAME_SIZE - 1 \subseteq HashValues
      BY Sizes DEF HashValues
    <3>2. QED
      BY <2>1, <3>1
  <2>3. QED
    BY <1>4, <2>2, MatchAssumption
<1> HIDE DEF second
<1>9. hpos \in Slots
  BY NextWindow
<1>10. /\ Linked(h.first, hpos, val) \in TableType
       /\ Linking(Linked(h.first, hpos, val), from, pos + 1)
       /\ Linked(h.first, hpos, val).val = val
       /\ Linked(h.first, hpos, val).head[val] = hpos
       /\ Linked(h.first, hpos, val).hashval[hpos] = val
  BY <1>2, <1>4, LinkedTable DEF HashInv
<1>11. /\ Linked(h.second, hpos, second) \in TableType
       /\ Linking(Linked(h.second, hpos, second), from, pos + 1)
  BY <1>2, <1>8, LinkedTable DEF HashInv
<1>12. /\ new.first = Linked(h.first, hpos, val) /\ new.second = Linked(h.second, hpos, second)
       /\ new.same = [h.same EXCEPT ![hpos] = amount]
  BY <1>1
<1> DEFINE first == Linked(h.first, hpos, val)
<1>13. new \in HashType
  <2>1. [h.same EXCEPT ![hpos] = amount] \in [Slots -> Nat]
    BY <1>2, <1>7
  <2>2. QED
    BY <1>1, <1>10, <1>11, <2>1 DEF HashType
<1>14. RunsKnown(array, from, pos + 1, end, new)
  <2> SUFFICES ASSUME NEW q \in from .. pos, q + WINDOW >= pos + 1
               PROVE  EqualRun(array, q, new.same[q % WINDOW], end)
    BY DEF RunsKnown
  <2>1. CASE q = pos
    BY <1>2, <1>6, <1>9, <1>12, <2>1
  <2>2. CASE q # pos
    <3>1. q \in Nat /\ q \in from .. pos - 1 /\ q + WINDOW >= pos /\ q <= pos /\ pos < q + WINDOW
      BY <2>2, Sizes
    <3>2. q % WINDOW # hpos /\ q % WINDOW \in Slots
      BY <2>2, <3>1, SameSlot, NextWindow
    <3>3. new.same[q % WINDOW] = h.same[q % WINDOW]
      BY <1>2, <1>12, <3>2
    <3>4. EqualRun(array, q, h.same[q % WINDOW], end)
      BY <3>1 DEF HashInv, RunsKnown
    <3>5. QED
      BY <3>3, <3>4
  <2>3. QED
    BY <2>1, <2>2
<1>15. ASSUME pos + 3 <= end
       PROVE  \E v \in HashValues :
                val = UpdateHashValue(UpdateHashValue(UpdateHashValue(v, array[pos + 1]),
                                                      array[pos + 2]), array[pos + 3])
  <2>1. pos + 2 <= end /\ pos + MIN_MATCH = pos + 3
    BY <1>15 DEF MIN_MATCH
  <2>2. PICK v \in HashValues :
          h.first.val = UpdateHashValue(UpdateHashValue(v, array[pos + 1]), array[pos + 2])
    BY <2>1 DEF HashInv, OfTwo
  <2>3. val = UpdateHashValue(h.first.val, array[pos + 3])
    BY <1>15, <2>1 DEF val
  <2>4. QED
    BY <2>2, <2>3
<1>16. OfThree(array, pos + 1, end, new)
  <2>1. pos + 1 + 2 = pos + 3 /\ pos + 1 + 1 = pos + 2
    OBVIOUS
  <2>2. new.first.val = val
    BY <1>10, <1>12
  <2>3. QED
    BY <1>15, <2>1, <2>2 DEF OfThree
<1>17. OfTwo(array, pos + 1, end, new)
  <2> SUFFICES ASSUME pos + 1 + 2 <= end
               PROVE  \E w \in HashValues :
                        new.first.val = UpdateHashValue(UpdateHashValue(w, array[pos + 1 + 1]),
                                                        array[pos + 1 + 2])
    BY DEF OfTwo
  <2>1. pos + 3 <= end /\ pos + 1 + 2 = pos + 3 /\ pos + 1 + 1 = pos + 2
        /\ pos + 1 \in 1 .. Len(array)
    OBVIOUS
  <2>2. PICK v \in HashValues :
          val = UpdateHashValue(UpdateHashValue(UpdateHashValue(v, array[pos + 1]),
                                                array[pos + 2]), array[pos + 3])
    BY <1>15, <2>1
  <2>3. array[pos + 1] \in Byte
    BY <2>1
  <2>4. UpdateHashValue(v, array[pos + 1]) \in HashValues
    BY <2>3, MatchAssumption
  <2>5. new.first.val = val
    BY <1>10, <1>12
  <2>6. QED
    BY <2>1, <2>2, <2>4, <2>5
<1>18. Latest(pos + 1, new)
  <2>1. pos + 1 - 1 = pos
    OBVIOUS
  <2>2. QED
    BY <1>10, <1>12, <2>1 DEF Latest
<1>19. QED
  <2>1. pos + 1 # from
    OBVIOUS
  <2> HIDE DEF new
  <2>2. QED
    BY <1>10, <1>11, <1>12, <1>13, <1>14, <1>16, <1>17, <1>18, <2>1 DEF HashInv, new

\* UpdateHash makes a hash of a hash, wherever the position is.
LEMMA UpdateHashType ==
    ASSUME NEW array \in Seq(Byte), NEW pos \in Nat, NEW h \in HashType
    PROVE  UpdateHash(array, pos, Len(array), h) \in HashType
<1> DEFINE end == Len(array)
           hpos == pos % WINDOW
           val == UpdateHashValue(h.first.val, IF pos + MIN_MATCH <= end
                                               THEN array[pos + MIN_MATCH] ELSE 0)
           before == h.same[(pos + WINDOW - 1) % WINDOW]
           known == IF before > 1 THEN before - 1 ELSE 0
           T == {n \in known .. known + end :
                   n >= MAX_SAME \/ pos + n + 1 >= end \/ array[pos + 1] # array[pos + n + 2]}
           amount == Min(T)
           second == XorOf((amount - MIN_MATCH) % SAME_SIZE, val)
<1>1. UpdateHash(array, pos, end, h)
        = [first |-> Linked(h.first, hpos, val), second |-> Linked(h.second, hpos, second),
           same |-> [h.same EXCEPT ![hpos] = amount]]
  BY DEF UpdateHash
<1>2. h.first \in TableType /\ h.second \in TableType /\ h.same \in [Slots -> Nat]
  BY DEF HashType
<1>3. val \in HashValues
  <2>1. h.first.val \in HashValues
    BY <1>2 DEF TableType
  <2>2. (IF pos + MIN_MATCH <= end THEN array[pos + MIN_MATCH] ELSE 0) \in Byte
    <3>1. pos + MIN_MATCH <= end => pos + MIN_MATCH \in 1 .. Len(array)
      BY DEF MIN_MATCH
    <3>2. QED
      BY <3>1, Sizes
  <2>3. QED
    BY <2>1, <2>2, MatchAssumption
<1>4. known \in Nat
  <2>1. pos + WINDOW - 1 \in Nat
    BY Sizes
  <2>2. before \in Nat
    BY <1>2, <2>1, NextWindow
  <2> HIDE DEF before
  <2>3. QED
    BY <2>2
<1> HIDE DEF val, known
<1>5. amount \in Nat
  <2>1. T \in SUBSET Nat
    BY <1>4
  <2>2. known + end \in T
    BY <1>4
  <2> HIDE DEF T
  <2>3. QED
    BY <2>1, <2>2, LeastElement
<1> HIDE DEF amount, T
<1>6. second \in HashValues
  <2>1. (amount - MIN_MATCH) % SAME_SIZE \in 0 .. SAME_SIZE - 1
    <3>1. amount - MIN_MATCH \in Int
      BY <1>5 DEF MIN_MATCH
    <3>2. SAME_SIZE \in Nat \ {0}
      BY Sizes
    <3>3. QED
      BY <3>1, <3>2
  <2>2. 0 .. SAME_SIZE - 1 \subseteq HashValues
    BY Sizes DEF HashValues
  <2>3. QED
    BY <1>3, <2>1, <2>2, MatchAssumption
<1> HIDE DEF second
<1>7. hpos \in Slots
  BY NextWindow
<1>8. ASSUME NEW t \in TableType, NEW v \in HashValues PROVE Linked(t, hpos, v) \in TableType
  <2> DEFINE hashval == [t.hashval EXCEPT ![hpos] = v]
             last == t.head[v]
             link == IF last # -1 /\ hashval[IF last = -1 THEN 0 ELSE last] = v THEN last ELSE hpos
  <2>1. /\ t.val \in HashValues /\ t.head \in [HashValues -> Slots \union {-1}]
        /\ t.prev \in [Slots -> Slots] /\ t.hashval \in [Slots -> HashValues \union {-1}]
    BY DEF TableType
  <2>2. link \in Slots
    BY <1>7, <2>1
  <2>3. hashval \in [Slots -> HashValues \union {-1}]
    BY <2>1
  <2>4. Linked(t, hpos, v) = [val |-> v, hashval |-> hashval, head |-> [t.head EXCEPT ![v] = hpos],
                              prev |-> [t.prev EXCEPT ![hpos] = link]]
    BY DEF Linked
  <2> HIDE DEF hashval, link, hpos
  <2>5. QED
    BY <1>7, <2>1, <2>2, <2>3, <2>4 DEF TableType
<1>9. Linked(h.first, hpos, val) \in TableType /\ Linked(h.second, hpos, second) \in TableType
  BY <1>2, <1>3, <1>6, <1>8
<1>10. [h.same EXCEPT ![hpos] = amount] \in [Slots -> Nat]
  BY <1>2, <1>5
<1>11. QED
  BY <1>1, <1>9, <1>10 DEF HashType

\* The hashes of all positions from one on: the first is given, the others
\* follow by UpdateHash.
LEMMA HashesFollow ==
    ASSUME NEW array \in Seq(Byte), NEW from \in Nat, NEW h \in HashType
    PROVE  /\ Hashes(array, from, Len(array), h) \in [Nat -> HashType]
           /\ \A pos \in Nat : pos <= from => Hashes(array, from, Len(array), h)[pos] = h
           /\ \A pos \in Nat : pos >= from =>
                Hashes(array, from, Len(array), h)[pos + 1]
                  = UpdateHash(array, pos, Len(array), Hashes(array, from, Len(array), h)[pos])
<1> DEFINE end == Len(array)
           step == [q \in Nat \X HashType |-> IF q[1] <= from THEN h
                                              ELSE UpdateHash(array, q[1] - 1, end, q[2])]
<1>1. \A n \in Nat, x \in HashType : n > from => UpdateHash(array, n - 1, end, x) \in HashType
  <2> SUFFICES ASSUME NEW n \in Nat, NEW x \in HashType, n > from
               PROVE  UpdateHash(array, n - 1, end, x) \in HashType
    OBVIOUS
  <2>1. n - 1 \in Nat
    OBVIOUS
  <2>2. QED
    BY <2>1, UpdateHashType
<1>2. \A n \in Nat, x \in HashType :
        step[<<n, x>>] = IF n <= from THEN h ELSE UpdateHash(array, n - 1, end, x)
  OBVIOUS
<1> HIDE DEF step
<1>3. PICK f : Follows(f, HashType, h, step)
  <2>1. Maps(HashType, step)
    <3> SUFFICES ASSUME NEW n \in Nat, NEW x \in HashType PROVE step[<<n, x>>] \in HashType
      BY DEF Maps
    <3>1. CASE n <= from
      BY <1>2, <3>1
    <3>2. CASE n > from
      BY <1>1, <1>2, <3>2
    <3>3. QED
      BY <3>1, <3>2
  <2>2. QED
    BY <2>1, Recursion
<1>4. f = [pos \in Nat |-> IF pos <= from THEN h ELSE UpdateHash(array, pos - 1, end, f[pos - 1])]
  <2>1. \A n \in Nat : f[n] = IF n <= from THEN h ELSE UpdateHash(array, n - 1, end, f[n - 1])
    <3> SUFFICES ASSUME NEW n \in Nat
                 PROVE  f[n] = IF n <= from THEN h ELSE UpdateHash(array, n - 1, end, f[n - 1])
      OBVIOUS
    <3>1. CASE n = 0
      BY <1>3, <3>1 DEF Follows
    <3>2. CASE n # 0
      <4>1. n - 1 \in Nat /\ f[n - 1] \in HashType /\ f[n] = step[<<n, f[n - 1]>>]
        BY <1>3, <3>2 DEF Follows
      <4>2. QED
        BY <1>2, <4>1
    <3>3. QED
      BY <3>1, <3>2
  <2>2. f = [n \in Nat |-> f[n]]
    BY <1>3 DEF Follows
  <2>3. QED
    BY <2>1, <2>2
<1> DEFINE g == Hashes(array, from, end, h)
<1>5. g = [pos \in Nat |-> IF pos <= from THEN h ELSE UpdateHash(array, pos - 1, end, g[pos - 1])]
  <2> HIDE DEF end
  <2>1. QED
    BY <1>4 DEF Hashes
<1> HIDE DEF g
<1>6. \A pos \in Nat : pos <= from => g[pos] = h
  BY <1>5
<1>7. \A pos \in Nat : pos >= from => g[pos + 1] = UpdateHash(array, pos, end, g[pos])
  <2> SUFFICES ASSUME NEW pos \in Nat, pos >= from
               PROVE  g[pos + 1] = UpdateHash(array, pos, end, g[pos])
    OBVIOUS
  <2>1. pos + 1 \in Nat /\ ~ (pos + 1 <= from) /\ (pos + 1) - 1 = pos
    OBVIOUS
  <2>2. g[pos + 1] = UpdateHash(array, (pos + 1) - 1, end, g[(pos + 1) - 1])
    BY <1>5, <2>1
  <2>3. QED
    BY <2>1, <2>2
<1>8. \A n \in Nat : n >= 0 => n \in {m \in Nat : g[m] \in HashType}
  <2> DEFINE S == {m \in Nat : g[m] \in HashType}
  <2>1. 0 \in S
    BY <1>6
  <2>2. ASSUME NEW n \in Nat, n \in S PROVE n + 1 \in S
    <3>1. CASE n + 1 <= from
      BY <1>6, <3>1
    <3>2. CASE ~ (n + 1 <= from)
      BY <1>7, <2>2, <3>2, UpdateHashType
    <3>3. QED
      BY <3>1, <3>2
  <2> HIDE DEF S
  <2>3. \A n \in Nat : n >= 0 => n \in S
    BY <2>1, <2>2, Induction
  <2>4. QED
    BY <2>3 DEF S
<1>9. g \in [Nat -> HashType]
  <2>1. \A n \in Nat : g[n] \in HashType
    BY <1>8
  <2>2. QED
    BY <1>5, <2>1
<1>10. QED
  BY <1>6, <1>7, <1>9 DEF g

\* The hash that starts at position from, before position pos.
HashBefore(array, from, pos) ==
    Hashes(array, from, Len(array), WarmupHash(array, from, Len(array), InitHash))[pos]

\* The hash before the first position.
LEMMA WarmHash ==
    ASSUME NEW array \in Seq(Byte), NEW from \in Nat, from < Len(array)
    PROVE  HashInv(array, from, from, Len(array), WarmupHash(array, from, Len(array), InitHash))
<1> DEFINE end == Len(array)
           one == UpdateHashValue(0, array[from + 1])
           val == IF from + 1 < end THEN UpdateHashValue(one, array[from + 2]) ELSE one
           h == WarmupHash(array, from, end, InitHash)
<1>1. array[from + 1] \in Byte /\ (from + 1 < end => array[from + 2] \in Byte)
  OBVIOUS
<1>2. one \in HashValues /\ val \in HashValues
  BY <1>1, Sizes, MatchAssumption
<1>3. EmptyTable \in TableType
  <2>1. /\ [v \in 0 .. HASH_SIZE - 1 |-> -1] \in [HashValues -> Slots \union {-1}]
        /\ [i \in 0 .. WINDOW - 1 |-> i] \in [Slots -> Slots]
        /\ [i \in 0 .. WINDOW - 1 |-> -1] \in [Slots -> HashValues \union {-1}]
    BY DEF HashValues, Slots
  <2>2. QED
    BY <2>1, Sizes DEF EmptyTable, TableType
<1>4. InitHash \in HashType
  <2>1. [i \in 0 .. WINDOW - 1 |-> 0] \in [Slots -> Nat]
    BY DEF Slots
  <2>2. QED
    BY <1>3, <2>1 DEF InitHash, HashType
<1>5. h = [InitHash EXCEPT !.first.val = val]
  <2>1. InitHash.first.val = 0
    BY DEF InitHash, EmptyTable
  <2>2. QED
    BY <2>1 DEF WarmupHash
<1> HIDE DEF val, h
<1>6. h = [first |-> [EmptyTable EXCEPT !.val = val], second |-> EmptyTable, same |-> InitHash.same]
  BY <1>5 DEF InitHash
<1>7. [EmptyTable EXCEPT !.val = val] \in TableType
  BY <1>2, <1>3 DEF TableType
<1>8. h \in HashType
  BY <1>3, <1>4, <1>6, <1>7 DEF HashType
<1>9. Linking(h.first, from, from) /\ Linking(h.second, from, from)
  <2>1. /\ h.first.head = EmptyTable.head /\ h.second.head = EmptyTable.head
        /\ h.first.prev = EmptyTable.prev /\ h.second.prev = EmptyTable.prev
    BY <1>6 DEF EmptyTable
  <2>2. /\ \A v \in HashValues : EmptyTable.head[v] = -1
        /\ \A s \in Slots : EmptyTable.prev[s] = s
    BY DEF EmptyTable, HashValues, Slots
  <2>3. QED
    BY <2>1, <2>2 DEF Linking
<1>10. \A s \in Slots : h.same[s] = 0
  BY <1>6 DEF InitHash, Slots
<1>11. h.first.val = val
  BY <1>6 DEF EmptyTable
<1>12. OfTwo(array, from, end, h)
  <2> SUFFICES ASSUME from + 2 <= end
               PROVE  \E v \in HashValues :
                        h.first.val = UpdateHashValue(UpdateHashValue(v, array[from + 1]),
                                                      array[from + 2])
    BY DEF OfTwo
  <2>1. h.first.val = UpdateHashValue(UpdateHashValue(0, array[from + 1]), array[from + 2])
    BY <1>11 DEF val
  <2>2. QED
    BY <2>1, Sizes
<1>13. RunsKnown(array, from, from, end, h)
  BY DEF RunsKnown
<1>14. QED
  BY <1>8, <1>9, <1>10, <1>12, <1>13 DEF HashInv, h

\* HashBefore has HashInv, and follows by UpdateHash.
LEMMA HashBeforeFacts ==
    ASSUME NEW array \in Seq(Byte), NEW from \in Nat, from < Len(array)
    PROVE  /\ \A pos \in from .. Len(array) :
                HashInv(array, from, pos, Len(array), HashBefore(array, from, pos))
           /\ \A pos \in Nat : pos >= from =>
                HashBefore(array, from, pos + 1)
                  = UpdateHash(array, pos, Len(array), HashBefore(array, from, pos))
           /\ \A pos \in Nat : HashBefore(array, from, pos) \in HashType
           /\ HashBefore(array, from, from)
                = WarmupHash(array, from, Len(array), InitHash)
<1> DEFINE end == Len(array)
           warm == WarmupHash(array, from, end, InitHash)
           H(pos) == HashBefore(array, from, pos)
<1>1. HashInv(array, from, from, end, warm)
  BY WarmHash
<1>2. warm \in HashType
  BY <1>1 DEF HashInv
<1> HIDE DEF warm
<1>3. /\ \A pos \in Nat : H(pos) \in HashType
      /\ H(from) = warm
      /\ \A pos \in Nat : pos >= from => H(pos + 1) = UpdateHash(array, pos, end, H(pos))
  <2> DEFINE g == Hashes(array, from, end, warm)
  <2>1. /\ g \in [Nat -> HashType]
        /\ \A pos \in Nat : pos <= from => g[pos] = warm
        /\ \A pos \in Nat : pos >= from => g[pos + 1] = UpdateHash(array, pos, end, g[pos])
    BY <1>2, HashesFollow
  <2>2. \A pos : H(pos) = g[pos]
    BY DEF HashBefore, warm
  <2> HIDE DEF g, H
  <2>3. \A pos \in Nat : H(pos) \in HashType
    BY <2>1, <2>2
  <2>4. H(from) = warm
    <3>1. g[from] = warm
      BY <2>1
    <3>2. H(from) = g[from]
      BY <2>2
    <3>3. QED
      BY <3>1, <3>2
  <2>5. QED
    BY <2>1, <2>2, <2>3, <2>4
<1> DEFINE S == {pos \in Nat : pos <= end => HashInv(array, from, pos, end, H(pos))}
<1> HIDE DEF H
<1>4. from \in S
  BY <1>1, <1>3
<1>5. ASSUME NEW pos \in Nat, pos >= from, pos \in S PROVE pos + 1 \in S
  <2> SUFFICES ASSUME pos + 1 <= end PROVE HashInv(array, from, pos + 1, end, H(pos + 1))
    OBVIOUS
  <2>1. HashInv(array, from, pos, end, H(pos)) /\ pos < end
    BY <1>5
  <2>2. HashInv(array, from, pos + 1, end, UpdateHash(array, pos, end, H(pos)))
    BY <1>5, <2>1, UpdateHashKeeps
  <2>3. QED
    BY <1>3, <1>5, <2>2
<1> HIDE DEF S
<1>6. \A pos \in Nat : pos >= from => pos \in S
  BY <1>4, <1>5, Induction
<1>7. \A pos \in from .. end : HashInv(array, from, pos, end, H(pos))
  BY <1>6 DEF S
<1>8. QED
  BY <1>3, <1>7 DEF H, warm

\* From one hash of HashBefore on, Updated goes to the others.
LEMMA UpdatedFrom ==
    ASSUME NEW array \in Seq(Byte), NEW from \in Nat, from < Len(array),
           NEW mid \in Nat, from <= mid, NEW to \in Nat, mid <= to
    PROVE  Updated(array, mid, to, Len(array), HashBefore(array, from, mid))
             = HashBefore(array, from, to)
<1> DEFINE end == Len(array)
           h == HashBefore(array, from, mid)
           g == Hashes(array, mid, end, h)
           S == {pos \in Nat : g[pos] = HashBefore(array, from, pos)}
<1>1. h \in HashType
  BY HashBeforeFacts
<1> HIDE DEF h
<1>2. /\ \A pos \in Nat : pos <= mid => g[pos] = h
      /\ \A pos \in Nat : pos >= mid => g[pos + 1] = UpdateHash(array, pos, end, g[pos])
  BY <1>1, HashesFollow, ZenonT(20)
<1> HIDE DEF g
<1>3. mid \in S
  BY <1>2 DEF h
<1>4. ASSUME NEW pos \in Nat, pos >= mid, pos \in S PROVE pos + 1 \in S
  <2>1. g[pos] = HashBefore(array, from, pos) /\ pos >= from
    BY <1>4
  <2>2. g[pos + 1] = UpdateHash(array, pos, end, HashBefore(array, from, pos))
    BY <1>2, <1>4, <2>1
  <2>3. HashBefore(array, from, pos + 1)
          = UpdateHash(array, pos, end, HashBefore(array, from, pos))
    BY <2>1, HashBeforeFacts
  <2>4. QED
    BY <2>2, <2>3
<1> HIDE DEF S
<1>5. \A pos \in Nat : pos >= mid => pos \in S
  BY <1>3, <1>4, Induction
<1>6. g[to] = HashBefore(array, from, to)
  BY <1>5 DEF S
<1>7. QED
  BY <1>6 DEF Updated, g, h

\* StartHash is HashBefore of the window before.
LEMMA StartHashIs ==
    ASSUME NEW array \in Seq(Byte), NEW start \in Nat, start < Len(array)
    PROVE  /\ WindowStart(start) \in 0 .. start
           /\ StartHash(array, start, Len(array)) = HashBefore(array, WindowStart(start), start)
<1>1. WindowStart(start) \in 0 .. start
  BY Sizes DEF WindowStart
<1>2. StartHash(array, start, Len(array))
        = Updated(array, WindowStart(start), start, Len(array),
                  WarmupHash(array, WindowStart(start), Len(array), InitHash))
  BY DEF StartHash
<1>3. WarmupHash(array, WindowStart(start), Len(array), InitHash)
        = HashBefore(array, WindowStart(start), WindowStart(start))
  BY <1>1, HashBeforeFacts
<1>4. QED
  BY <1>1, <1>2, <1>3, UpdatedFrom

-----------------------------------------------------------------------------
(* Matches, and the walk that finds them.                                  *)

\* The n bytes at pos are those dist before.
Agree(array, pos, dist, n) == \A k \in 0 .. n - 1 : array[pos + k + 1] = array[pos - dist + k + 1]
IsMatch(array, pos, dist, n) ==
    /\ dist \in 1 .. WINDOW - 1 /\ dist <= pos /\ pos + n <= Len(array)
    /\ Agree(array, pos, dist, n)

\* What MatchLength does not compare is equal: two runs of bytes that are equal.
LEMMA SkippedAgree ==
    ASSUME NEW array \in Seq(Byte), NEW from \in Nat, NEW pos \in Nat, pos < Len(array), NEW h,
           HashInv(array, from, pos + 1, Len(array), h),
           NEW dist \in 1 .. WINDOW - 1, pos - dist >= from, NEW limit \in Nat
    PROVE  LET same0 == h.same[pos % WINDOW]
               same1 == h.same[(pos - dist) % WINDOW]
               skip == IF same0 > 2 /\ array[pos + 1] = array[pos - dist + 1]
                       THEN Min({same0, same1, limit}) ELSE 0
           IN  skip \in 0 .. limit /\ Agree(array, pos, dist, skip)
<1> DEFINE same0 == h.same[pos % WINDOW]
           same1 == h.same[(pos - dist) % WINDOW]
           skip == IF same0 > 2 /\ array[pos + 1] = array[pos - dist + 1]
                   THEN Min({same0, same1, limit}) ELSE 0
<1>1. EqualRun(array, pos, same0, Len(array)) /\ EqualRun(array, pos - dist, same1, Len(array))
  <2>1. /\ pos \in from .. (pos + 1) - 1 /\ pos + WINDOW >= pos + 1
        /\ pos - dist \in from .. (pos + 1) - 1 /\ (pos - dist) + WINDOW >= pos + 1
    BY Sizes
  <2>2. QED
    BY <2>1 DEF HashInv, RunsKnown
<1>2. same0 \in Nat /\ same1 \in Nat
  BY <1>1 DEF EqualRun
<1> HIDE DEF same0, same1
<1>3. CASE same0 > 2 /\ array[pos + 1] = array[pos - dist + 1]
  <2>1. skip = Min({same0, same1, limit})
    BY <1>3
  <2>2. skip \in {same0, same1, limit} /\ \A y \in {same0, same1, limit} : skip <= y
    <3>1. {same0, same1, limit} \in SUBSET Nat /\ {same0, same1, limit} # {}
      BY <1>2
    <3>2. QED
      BY <2>1, <3>1, LeastElement
  <2> HIDE DEF skip
  <2>3. skip \in Nat /\ skip <= same0 /\ skip <= same1 /\ skip <= limit
    BY <1>2, <2>2
  <2>4. ASSUME NEW k \in 0 .. skip - 1 PROVE array[pos + k + 1] = array[pos - dist + k + 1]
    <3>1. k \in 0 .. same0 /\ k \in 0 .. same1
      BY <1>2, <2>3
    <3>2. array[pos + k + 1] = array[pos + 1]
      BY <1>1, <3>1 DEF EqualRun
    <3>3. array[(pos - dist) + k + 1] = array[(pos - dist) + 1]
      BY <1>1, <3>1 DEF EqualRun
    <3>4. QED
      BY <1>3, <3>2, <3>3
  <2>5. skip \in 0 .. limit /\ Agree(array, pos, dist, skip)
    BY <2>3, <2>4 DEF Agree
  <2>6. QED
    BY <2>5 DEF skip, same0, same1
<1>4. CASE ~ (same0 > 2 /\ array[pos + 1] = array[pos - dist + 1])
  <2>1. skip = 0
    BY <1>4
  <2> HIDE DEF skip
  <2>2. skip \in 0 .. limit /\ Agree(array, pos, dist, skip)
    BY <2>1 DEF Agree
  <2>3. QED
    BY <2>2 DEF skip, same0, same1
<1>5. QED
  BY <1>3, <1>4

\* MatchLength is how many bytes agree, at most limit.
LEMMA MatchLengthIs ==
    ASSUME NEW array \in Seq(Byte), NEW from \in Nat, NEW pos \in Nat, pos < Len(array), NEW h,
           HashInv(array, from, pos + 1, Len(array), h),
           NEW dist \in 1 .. WINDOW - 1, pos - dist >= from, NEW limit \in Nat
    PROVE  LET r == MatchLength(array, h, pos, dist, limit)
           IN  /\ r \in 0 .. limit
               /\ Agree(array, pos, dist, r)
               /\ r < limit => array[pos + r + 1] # array[pos - dist + r + 1]
<1> DEFINE same0 == h.same[pos % WINDOW]
           same1 == h.same[(pos - dist) % WINDOW]
           skip == IF same0 > 2 /\ array[pos + 1] = array[pos - dist + 1]
                   THEN Min({same0, same1, limit}) ELSE 0
           differ == {n \in skip .. limit - 1 : array[pos + n + 1] # array[pos - dist + n + 1]}
           r == MatchLength(array, h, pos, dist, limit)
<1>1. skip \in 0 .. limit /\ Agree(array, pos, dist, skip)
  BY SkippedAgree
<1>2. r = IF differ = {} THEN limit ELSE Min(differ)
  BY DEF MatchLength
<1> HIDE DEF skip, r
<1>3. CASE differ = {}
  <2>1. \A n \in skip .. limit - 1 : array[pos + n + 1] = array[pos - dist + n + 1]
    BY <1>3
  <2>2. r = limit
    BY <1>2, <1>3
  <2> HIDE DEF differ
  <2>3. Agree(array, pos, dist, limit)
    <3> SUFFICES ASSUME NEW k \in 0 .. limit - 1
                 PROVE  array[pos + k + 1] = array[pos - dist + k + 1]
      BY DEF Agree
    <3>1. k \in 0 .. skip - 1 \/ k \in skip .. limit - 1
      BY <1>1
    <3>2. QED
      BY <1>1, <2>1, <3>1 DEF Agree
  <2>4. QED
    BY <2>2, <2>3 DEF r
<1>4. CASE differ # {}
  <2>1. r \in differ /\ \A y \in differ : r <= y
    <3>1. differ \in SUBSET Nat
      BY <1>1
    <3> HIDE DEF differ
    <3>2. QED
      BY <1>2, <1>4, <3>1, LeastElement
  <2>2. r \in skip .. limit - 1 /\ array[pos + r + 1] # array[pos - dist + r + 1]
    BY <2>1
  <2>3. ASSUME NEW k \in skip .. limit - 1, k < r PROVE array[pos + k + 1] = array[pos - dist + k + 1]
    <3>1. k \notin differ
      BY <1>1, <2>1, <2>2, <2>3
    <3>2. QED
      BY <3>1
  <2> HIDE DEF differ
  <2>4. Agree(array, pos, dist, r)
    <3> SUFFICES ASSUME NEW k \in 0 .. r - 1
                 PROVE  array[pos + k + 1] = array[pos - dist + k + 1]
      BY DEF Agree
    <3>1. k \in 0 .. skip - 1 \/ (k \in skip .. limit - 1 /\ k < r)
      BY <1>1, <2>2
    <3>2. QED
      BY <1>1, <2>3, <3>1 DEF Agree
  <2>5. QED
    BY <1>1, <2>2, <2>4 DEF r
<1>5. QED
  BY <1>3, <1>4

\* The bytes that agree within a smaller limit are as many, or all.
LEMMA MatchLengthWithin ==
    ASSUME NEW array \in Seq(Byte), NEW from \in Nat, NEW pos \in Nat, pos < Len(array), NEW h,
           HashInv(array, from, pos + 1, Len(array), h),
           NEW dist \in 1 .. WINDOW - 1, pos - dist >= from,
           NEW limit \in Nat, NEW most \in Nat, limit <= most
    PROVE  MatchLength(array, h, pos, dist, limit)
             = MinOf(MatchLength(array, h, pos, dist, most), limit)
<1> DEFINE l == MatchLength(array, h, pos, dist, limit)
           m == MatchLength(array, h, pos, dist, most)
<1>1. /\ l \in 0 .. limit /\ Agree(array, pos, dist, l)
      /\ l < limit => array[pos + l + 1] # array[pos - dist + l + 1]
  BY MatchLengthIs
<1>2. /\ m \in 0 .. most /\ Agree(array, pos, dist, m)
      /\ m < most => array[pos + m + 1] # array[pos - dist + m + 1]
  BY MatchLengthIs
<1> HIDE DEF l, m
<1>3. ~ (l < limit /\ l < m)
  <2> SUFFICES ASSUME l < limit, l < m PROVE FALSE
    OBVIOUS
  <2>1. l \in 0 .. m - 1
    BY <1>1, <1>2
  <2>2. QED
    BY <1>1, <1>2, <2>1 DEF Agree
<1>4. ~ (m < l)
  <2> SUFFICES ASSUME m < l PROVE FALSE
    OBVIOUS
  <2>1. m \in 0 .. l - 1 /\ m < most
    BY <1>1, <1>2
  <2>2. QED
    BY <1>1, <1>2, <2>1 DEF Agree
<1>5. l = MinOf(m, limit)
  BY <1>1, <1>2, <1>3, <1>4 DEF MinOf
<1>6. QED
  BY <1>5 DEF l, m

\* A position h is the hash of, and a limit of the search there.
Searching(array, from, pos, h, limit) ==
    /\ array \in Seq(Byte) /\ from \in Nat /\ pos \in from .. Len(array) - 1
    /\ HashInv(array, from, pos + 1, Len(array), h)
    /\ limit \in Nat /\ limit <= MAX_MATCH /\ pos + limit <= Len(array)

\* What the walk has found is a match of each length up to the longest one.
FoundType == [length : Nat, dist : Nat, sublen : [MIN_MATCH .. MAX_MATCH -> Nat]]
IsFound(array, pos, limit, f) ==
    /\ f \in FoundType
    /\ f.length >= 1
    /\ f.length >= 2 => f.length <= limit /\ IsMatch(array, pos, f.dist, f.length)
    /\ f.length >= 3 => f.dist = f.sublen[f.length]
    /\ \A k \in MIN_MATCH .. f.length : IsMatch(array, pos, f.sublen[k], k)

\* The walk is at the slot of the position that is dist before pos.
WalkType == [p : Slots, dist : Nat \ {0}, second : BOOLEAN, going : BOOLEAN, found : FoundType]
OnChain(from, pos, w) ==
    w.going /\ w.dist < WINDOW => w.dist <= pos - from /\ (pos - w.dist) % WINDOW = w.p
WalkInv(array, from, pos, limit, w) ==
    w \in WalkType /\ OnChain(from, pos, w) /\ IsFound(array, pos, limit, w.found)

\* One step back along a chain, within a window, ends at a position that was
\* hashed.
LEMMA StepBack ==
    ASSUME NEW from \in Nat, NEW pos \in Nat, NEW d \in Nat, d <= pos - from, NEW next \in Slots,
           Recorded(next, from, pos + 1), d + Back((pos - d) % WINDOW, next) < WINDOW
    PROVE  LET e == d + Back((pos - d) % WINDOW, next)
           IN  e <= pos - from /\ (pos - e) % WINDOW = next
<1> DEFINE q == pos - d
           b == Back(q % WINDOW, next)
<1>1. q \in Nat /\ q >= from /\ pos = q + d
  OBVIOUS
<1>2. WINDOW \in Nat \ {0}
  BY Sizes
<1> HIDE DEF q
<1>3. b \in 1 .. WINDOW /\ (q + WINDOW - b) % WINDOW = next
  BY <1>1, BackSlot
<1>4. d + b < WINDOW
  BY DEF q
<1> HIDE DEF b
<1>5. PICK r \in from .. (pos + 1) - 1 : next = r % WINDOW
  BY DEF Recorded
<1>6. r \in Nat /\ r >= from /\ r <= pos
  BY <1>5
<1>7. (r + WINDOW) % WINDOW = next
  BY <1>5, <1>6, NextWindow
<1>8. ~ (q - b < from)
  <2> SUFFICES ASSUME q - b < from PROVE FALSE
    OBVIOUS
  <2> DEFINE m == q + WINDOW - b
             n == r + WINDOW
  <2>1. m \in Nat /\ n \in Nat /\ m < n /\ n < m + WINDOW
    BY <1>1, <1>2, <1>3, <1>4, <1>6
  <2>2. m % WINDOW = n % WINDOW
    BY <1>3, <1>7
  <2> HIDE DEF m, n
  <2>3. m = n
    BY <2>1, <2>2, SameSlot
  <2>4. QED
    BY <2>1, <2>3
<1>9. q - b \in Nat
  BY <1>1, <1>3, <1>8
<1>10. (q - b) % WINDOW = next
  <2>1. ((q - b) + WINDOW) % WINDOW = (q - b) % WINDOW
    BY <1>9, NextWindow
  <2>2. (q - b) + WINDOW = q + WINDOW - b
    BY <1>1, <1>2, <1>3
  <2>3. QED
    BY <1>3, <2>1, <2>2
<1>11. d + b <= pos - from /\ pos - (d + b) = q - b
  BY <1>1, <1>3, <1>8
<1>12. QED
  BY <1>10, <1>11 DEF b, q

\* The start of a match is one.
LEMMA ShorterMatch ==
    ASSUME NEW array \in Seq(Byte), NEW pos \in Nat, NEW dist, NEW length \in Nat, NEW k \in Nat,
           k <= length, IsMatch(array, pos, dist, length)
    PROVE  IsMatch(array, pos, dist, k)
<1>1. Len(array) \in Nat
  OBVIOUS
<1>2. pos + k <= Len(array)
  BY <1>1 DEF IsMatch
<1>3. Agree(array, pos, dist, k)
  <2>1. 0 .. k - 1 \subseteq 0 .. length - 1
    OBVIOUS
  <2>2. QED
    BY <2>1 DEF Agree, IsMatch
<1>4. QED
  BY <1>2, <1>3 DEF IsMatch

\* A longer match is found next.
LEMMA LongerIsFound ==
    ASSUME NEW array \in Seq(Byte), NEW pos \in Nat, NEW limit \in Nat, limit <= MAX_MATCH,
           NEW f, IsFound(array, pos, limit, f),
           NEW length \in Nat, length > f.length, length <= limit,
           NEW dist, IsMatch(array, pos, dist, length)
    PROVE  IsFound(array, pos, limit, Longer(f, length, dist))
<1> DEFINE sublen == [k \in MIN_MATCH .. MAX_MATCH |->
                        IF f.length < k /\ k <= length THEN dist ELSE f.sublen[k]]
           new == Longer(f, length, dist)
<1>1. new = [length |-> length, dist |-> dist, sublen |-> sublen]
  BY DEF Longer
<1>2. /\ f.length \in Nat \ {0} /\ f.sublen \in [MIN_MATCH .. MAX_MATCH -> Nat]
      /\ \A k \in MIN_MATCH .. f.length : IsMatch(array, pos, f.sublen[k], k)
  BY DEF IsFound, FoundType
<1>3. dist \in Nat
  BY Sizes DEF IsMatch
<1>4. sublen \in [MIN_MATCH .. MAX_MATCH -> Nat]
  BY <1>2, <1>3
<1>5. new \in FoundType /\ new.length = length /\ new.dist = dist /\ new.sublen = sublen
  BY <1>1, <1>3, <1>4 DEF FoundType
<1>6. MAX_MATCH \in Nat
  BY Sizes
<1>7. ASSUME NEW k \in MIN_MATCH .. length PROVE IsMatch(array, pos, sublen[k], k)
  <2>1. k \in MIN_MATCH .. MAX_MATCH /\ k \in Nat
    BY <1>6 DEF MIN_MATCH
  <2>2. sublen[k] = IF f.length < k /\ k <= length THEN dist ELSE f.sublen[k]
    BY <2>1
  <2>3. CASE f.length < k
    <3>1. sublen[k] = dist
      BY <2>2, <2>3 DEF MIN_MATCH
    <3> HIDE DEF sublen
    <3>2. k <= length
      BY DEF MIN_MATCH
    <3>3. IsMatch(array, pos, dist, k)
      BY <2>1, <3>2, ShorterMatch
    <3>4. QED
      BY <3>1, <3>3
  <2>4. CASE ~ (f.length < k)
    <3>1. sublen[k] = f.sublen[k] /\ k \in MIN_MATCH .. f.length
      BY <1>2, <2>2, <2>4 DEF MIN_MATCH
    <3>2. QED
      BY <1>2, <3>1
  <2>5. QED
    BY <2>3, <2>4
<1>8. length >= 3 => sublen[length] = dist
  BY <1>6 DEF MIN_MATCH
<1> HIDE DEF sublen, new
<1>9. length >= 1
  BY <1>2
<1>10. QED
  BY <1>5, <1>7, <1>8, <1>9 DEF IsFound, new

\* Hit keeps WalkInv.
LEMMA HitKeeps ==
    ASSUME NEW array, NEW from, NEW pos, NEW h, NEW limit, Searching(array, from, pos, h, limit),
           NEW w, WalkInv(array, from, pos, limit, w), w.going, w.dist < WINDOW
    PROVE  WalkInv(array, from, pos, limit, Hit(array, h, pos, Len(array), limit, w))
<1> DEFINE size == Len(array)
           best == w.found.length
           compared == \/ pos + best >= size
                       \/ array[pos + best + 1] = array[pos - w.dist + best + 1]
           length == MatchLength(array, h, pos, w.dist, limit)
           current == IF compared THEN length ELSE 0
           found == IF current > best THEN Longer(w.found, current, w.dist) ELSE w.found
           second == \/ w.second
                     \/ found.length >= h.same[pos % WINDOW] /\ h.second.val = h.second.hashval[w.p]
           table == IF second THEN h.second ELSE h.first
           p == table.prev[w.p]
           b == Back(w.p, p)
           going == ~(current > best /\ current >= limit) /\ p # w.p
           new == Hit(array, h, pos, size, limit, w)
<1>1. new = [p |-> p, dist |-> w.dist + b, second |-> second, found |-> found, going |-> going]
  BY DEF Hit
<1>2. /\ array \in Seq(Byte) /\ from \in Nat /\ pos \in Nat /\ pos < size /\ from <= pos /\ size \in Nat
      /\ HashInv(array, from, pos + 1, size, h) /\ limit \in Nat /\ limit <= MAX_MATCH
      /\ pos + limit <= size
  BY DEF Searching
<1>3. /\ w \in WalkType /\ w.dist <= pos - from /\ (pos - w.dist) % WINDOW = w.p
      /\ IsFound(array, pos, limit, w.found)
  BY DEF WalkInv, OnChain
<1>4. /\ w.p \in Slots /\ w.dist \in Nat \ {0} /\ w.second \in BOOLEAN
      /\ w.found \in FoundType /\ best \in Nat \ {0}
  BY <1>3 DEF WalkType, IsFound, FoundType
<1>5. WINDOW \in Nat
  BY Sizes
<1>6. w.dist \in 1 .. WINDOW - 1 /\ pos - w.dist >= from
  <2> DEFINE d == w.dist
  <2>1. d \in Nat \ {0} /\ d < WINDOW /\ d <= pos - from /\ pos \in Nat /\ from \in Nat
    BY <1>2, <1>3, <1>4
  <2> HIDE DEF d
  <2>2. d \in 1 .. WINDOW - 1 /\ pos - d >= from
    BY <1>5, <2>1
  <2>3. QED
    BY <2>2 DEF d
<1> HIDE DEF size
<1>7. length \in 0 .. limit /\ Agree(array, pos, w.dist, length)
  <2>1. length \in 0 .. limit
    BY <1>2, <1>6, MatchLengthIs DEF size
  <2>2. Agree(array, pos, w.dist, length)
    BY <1>2, <1>6, MatchLengthIs DEF size
  <2>3. QED
    BY <2>1, <2>2
<1> HIDE DEF length, compared
<1>8. current \in 0 .. limit /\ (current > best => current = length)
  BY <1>2, <1>4, <1>7
<1> HIDE DEF current
<1>9. IsFound(array, pos, limit, found)
  <2>1. CASE current > best
    <3>1. IsMatch(array, pos, w.dist, current)
      <4>1. w.dist <= pos /\ pos + current <= Len(array)
        BY <1>2, <1>4, <1>6, <1>8 DEF size
      <4>2. QED
        BY <1>6, <1>7, <1>8, <2>1, <4>1 DEF IsMatch
    <3>2. IsFound(array, pos, limit, Longer(w.found, current, w.dist))
      BY <1>2, <1>3, <1>8, <2>1, <3>1, LongerIsFound
    <3>3. QED
      BY <2>1, <3>2
  <2>2. CASE ~ (current > best)
    BY <1>3, <2>2
  <2>3. QED
    BY <2>1, <2>2
<1> HIDE DEF found
<1>10. second \in BOOLEAN /\ going \in BOOLEAN
  BY <1>4
<1>11. table \in TableType /\ Linking(table, from, pos + 1)
  BY <1>2 DEF HashInv, HashType
<1> HIDE DEF second, table
<1>12. p \in Slots /\ (p = w.p \/ Recorded(p, from, pos + 1))
  BY <1>4, <1>11 DEF TableType, Linking
<1> HIDE DEF p
<1>13. b \in 1 .. WINDOW
  <2>1. pos - w.dist \in Nat
    BY <1>2, <1>4, <1>6
  <2>2. Back((pos - w.dist) % WINDOW, p) \in 1 .. WINDOW
    BY <1>12, <2>1, BackSlot
  <2>3. QED
    BY <1>3, <2>2
<1>14. ASSUME going, w.dist + b < WINDOW
       PROVE  w.dist + b <= pos - from /\ (pos - (w.dist + b)) % WINDOW = p
  <2>1. Recorded(p, from, pos + 1)
    BY <1>12, <1>14
  <2>2. b = Back((pos - w.dist) % WINDOW, p)
    BY <1>3
  <2> HIDE DEF b
  <2>3. /\ from \in Nat /\ pos \in Nat /\ w.dist \in Nat /\ w.dist <= pos - from /\ p \in Slots
        /\ w.dist + Back((pos - w.dist) % WINDOW, p) < WINDOW
    BY <1>2, <1>3, <1>4, <1>12, <1>14, <2>2
  <2>4. LET e == w.dist + Back((pos - w.dist) % WINDOW, p)
        IN  e <= pos - from /\ (pos - e) % WINDOW = p
    BY <2>1, <2>3, StepBack
  <2>5. QED
    BY <2>2, <2>4
<1> HIDE DEF b, going, new
<1>15. w.dist + b \in Nat \ {0}
  BY <1>4, <1>13, <1>5
<1>16. found \in FoundType
  BY <1>9 DEF IsFound
<1>17. new \in WalkType
  BY <1>1, <1>10, <1>12, <1>15, <1>16 DEF WalkType
<1>18. OnChain(from, pos, new)
  BY <1>1, <1>14 DEF OnChain
<1>19. IsFound(array, pos, limit, new.found)
  BY <1>1, <1>9
<1>20. QED
  BY <1>17, <1>18, <1>19 DEF WalkInv, new, size

\* The walk starts with nothing found, at the position that the chain of the
\* last one names.
StartOfWalk(h) ==
    LET pp == h.first.head[h.first.val]
        p == h.first.prev[pp]
    IN  WalkFrom(p, Back(pp, p))
LEMMA StartKeeps ==
    ASSUME NEW array, NEW from, NEW pos, NEW h, NEW limit, Searching(array, from, pos, h, limit)
    PROVE  WalkInv(array, from, pos, limit, StartOfWalk(h))
<1> DEFINE pp == h.first.head[h.first.val]
           p == h.first.prev[pp]
           b == Back(pp, p)
           none == [length |-> 1, dist |-> 0, sublen |-> NoSublen]
           new == StartOfWalk(h)
<1>1. new = [p |-> p, dist |-> b, second |-> FALSE, going |-> TRUE, found |-> none]
  BY DEF StartOfWalk, WalkFrom
<1>2. /\ from \in Nat /\ pos \in Nat /\ from <= pos /\ HashInv(array, from, pos + 1, Len(array), h)
  BY DEF Searching
<1>3. pp = pos % WINDOW
  <2>1. pos + 1 > from /\ (pos + 1) - 1 = pos
    BY <1>2
  <2>2. Latest(pos + 1, h)
    BY <1>2, <2>1 DEF HashInv
  <2>3. QED
    BY <2>1, <2>2 DEF Latest
<1>4. pp \in Slots
  BY <1>2, <1>3, NextWindow
<1> HIDE DEF pp
<1>5. p \in Slots /\ (p = pp \/ Recorded(p, from, pos + 1))
  BY <1>2, <1>4 DEF HashInv, HashType, TableType, Linking
<1> HIDE DEF p
<1>6. WINDOW \in Nat
  BY Sizes
<1>7. b \in 1 .. WINDOW
  <2>1. Back(pos % WINDOW, p) \in 1 .. WINDOW
    BY <1>2, <1>5, BackSlot
  <2>2. QED
    BY <1>3, <2>1
<1>8. ASSUME b < WINDOW PROVE b <= pos - from /\ (pos - b) % WINDOW = p
  <2>1. p # pp
    <3> SUFFICES ASSUME p = pp PROVE FALSE
      OBVIOUS
    <3>1. b = WINDOW
      BY <1>4, <1>6 DEF Back, Slots
    <3>2. QED
      BY <1>6, <1>8, <3>1
  <2>2. Recorded(p, from, pos + 1)
    BY <1>5, <2>1
  <2>3. pos - 0 = pos /\ 0 + b = b
    BY <1>2, <1>6, <1>7
  <2>4. b = Back((pos - 0) % WINDOW, p)
    BY <1>3, <2>3
  <2> HIDE DEF b
  <2>5. 0 \in Nat /\ 0 <= pos - from /\ 0 + Back((pos - 0) % WINDOW, p) < WINDOW
    BY <1>2, <1>8, <2>3, <2>4
  <2>6. LET e == 0 + Back((pos - 0) % WINDOW, p)
        IN  e <= pos - from /\ (pos - e) % WINDOW = p
    BY <1>2, <1>5, <2>2, <2>5, StepBack
  <2>7. QED
    BY <2>3, <2>4, <2>6
<1> HIDE DEF b, new
<1>9. NoSublen \in [MIN_MATCH .. MAX_MATCH -> Nat]
  BY DEF NoSublen
<1>10. none \in FoundType
  BY <1>9 DEF FoundType
<1>11. IsFound(array, pos, limit, none)
  <2>1. MIN_MATCH .. 1 = {}
    BY DEF MIN_MATCH
  <2>2. none.length = 1
    OBVIOUS
  <2> HIDE DEF none
  <2>3. QED
    BY <1>10, <2>1, <2>2 DEF IsFound
<1>12. new \in WalkType
  <2>1. b \in Nat \ {0}
    BY <1>6, <1>7
  <2> HIDE DEF none
  <2>2. QED
    BY <1>1, <1>5, <1>10, <2>1 DEF WalkType
<1>13. OnChain(from, pos, new)
  BY <1>1, <1>8 DEF OnChain
<1>14. IsFound(array, pos, limit, new.found)
  BY <1>1, <1>11
<1>15. QED
  BY <1>12, <1>13, <1>14 DEF WalkInv, new

\* The walk goes from hit to hit, and keeps WalkInv.
LEMMA WalksFollow ==
    ASSUME NEW array, NEW from, NEW pos, NEW h, NEW limit, Searching(array, from, pos, h, limit)
    PROVE  /\ Walks(array, h, pos, Len(array), limit)[0] = StartOfWalk(h)
           /\ \A n \in Nat :
                Walks(array, h, pos, Len(array), limit)[n + 1]
                  = Walked(array, h, pos, Len(array), limit,
                           Walks(array, h, pos, Len(array), limit)[n])
           /\ \A n \in Nat :
                WalkInv(array, from, pos, limit, Walks(array, h, pos, Len(array), limit)[n])
<1> DEFINE S == {w \in WalkType : WalkInv(array, from, pos, limit, w)}
           start == StartOfWalk(h)
           Step(w) == Walked(array, h, pos, Len(array), limit, w)
           step == [q \in Nat \X S |-> Step(q[2])]
           g == Walks(array, h, pos, Len(array), limit)
<1>1. start \in S
  BY StartKeeps DEF WalkInv
<1>2. \A w \in S : Step(w) \in S
  <2> SUFFICES ASSUME NEW w \in S PROVE Step(w) \in S
    OBVIOUS
  <2>1. WalkInv(array, from, pos, limit, w)
    OBVIOUS
  <2>2. WalkInv(array, from, pos, limit, Step(w))
    <3>1. CASE w.going /\ w.dist < WINDOW
      <4>1. WalkInv(array, from, pos, limit, Hit(array, h, pos, Len(array), limit, w))
        BY <2>1, <3>1, HitKeeps
      <4>2. QED
        BY <3>1, <4>1 DEF Walked
    <3>2. CASE ~ (w.going /\ w.dist < WINDOW)
      BY <2>1, <3>2 DEF Walked
    <3>3. QED
      BY <3>1, <3>2
  <2> HIDE DEF Step
  <2>3. QED
    BY <2>2 DEF WalkInv
<1> HIDE DEF Step, start
<1>3. \A n \in Nat, w \in S : step[<<n, w>>] = Step(w)
  <2> HIDE DEF S
  <2>1. QED
    OBVIOUS
<1> HIDE DEF step, S
<1>4. PICK f : Follows(f, S, start, step)
  <2>1. Maps(S, step)
    BY <1>2, <1>3 DEF Maps
  <2>2. QED
    BY <1>1, <2>1, Recursion
<1>5. f = [hits \in Nat |-> IF hits = 0 THEN start ELSE Step(f[hits - 1])]
  <2>1. \A n \in Nat : f[n] = IF n = 0 THEN start ELSE Step(f[n - 1])
    <3> SUFFICES ASSUME NEW n \in Nat PROVE f[n] = IF n = 0 THEN start ELSE Step(f[n - 1])
      OBVIOUS
    <3>1. CASE n = 0
      BY <1>4, <3>1 DEF Follows
    <3>2. CASE n # 0
      <4>1. n - 1 \in Nat /\ f[n - 1] \in S /\ f[n] = step[<<n, f[n - 1]>>]
        BY <1>4, <3>2 DEF Follows
      <4>2. QED
        BY <1>3, <3>2, <4>1
    <3>3. QED
      BY <3>1, <3>2
  <2>2. f = [n \in Nat |-> f[n]]
    BY <1>4 DEF Follows
  <2>3. QED
    BY <2>1, <2>2
<1>6. g = [hits \in Nat |-> IF hits = 0 THEN start ELSE Step(g[hits - 1])]
  BY <1>5 DEF Walks, Step, start, StartOfWalk
<1> HIDE DEF g
<1>7. g[0] = start
  BY <1>6
<1>8. ASSUME NEW n \in Nat PROVE g[n + 1] = Step(g[n])
  <2>1. n + 1 \in Nat /\ n + 1 # 0 /\ (n + 1) - 1 = n
    OBVIOUS
  <2>2. g[n + 1] = Step(g[(n + 1) - 1])
    BY <1>6, <2>1
  <2>3. QED
    BY <2>1, <2>2
<1> DEFINE R == {n \in Nat : g[n] \in S}
<1>9. \A n \in Nat : n >= 0 => n \in R
  <2>1. 0 \in R
    BY <1>1, <1>7
  <2>2. ASSUME NEW n \in Nat, n \in R PROVE n + 1 \in R
    BY <1>2, <1>8, <2>2
  <2> HIDE DEF R
  <2>3. QED
    BY <2>1, <2>2, Induction
<1>10. \A n \in Nat : WalkInv(array, from, pos, limit, g[n])
  <2>1. \A n \in Nat : g[n] \in S
    BY <1>9
  <2>2. QED
    BY <2>1 DEF S
<1>11. QED
  BY <1>7, <1>8, <1>10 DEF g, Step, start

\* What the walk finds is a match of each length up to the longest one.
LEMMA WalkFinds ==
    ASSUME NEW array, NEW from, NEW pos, NEW h, NEW limit, Searching(array, from, pos, h, limit)
    PROVE  IsFound(array, pos, limit, Walk(array, h, pos, Len(array), limit))
<1>1. \A n \in Nat : WalkInv(array, from, pos, limit, Walks(array, h, pos, Len(array), limit)[n])
  BY WalksFollow
<1>2. MAX_CHAIN_HITS \in Nat
  BY Sizes
<1>3. WalkInv(array, from, pos, limit, Walks(array, h, pos, Len(array), limit)[MAX_CHAIN_HITS])
  BY <1>1, <1>2
<1>4. QED
  BY <1>3 DEF WalkInv, Walk

\* Two walks with different limits are the same until a match reaches the
\* smaller one: there the first ends, with a match the second keeps as that of
\* this length.
Alike(few, w, v) ==
    \/ w = v /\ w.found.length < few
    \/ /\ w.found.length = few /\ ~ w.going /\ v.found.length >= few
       /\ w.found.dist = v.found.sublen[few]
       /\ \A k \in MIN_MATCH .. few : w.found.sublen[k] = v.found.sublen[k]

\* A hit that finds nothing longer keeps what was found, another one adds the
\* lengths above it.
LEMMA HitFound ==
    ASSUME NEW array, NEW h, NEW pos, NEW size, NEW limit, NEW w
    PROVE  LET best == w.found.length
               compared == \/ pos + best >= size
                           \/ array[pos + best + 1] = array[pos - w.dist + best + 1]
               current == IF compared THEN MatchLength(array, h, pos, w.dist, limit) ELSE 0
           IN  /\ Hit(array, h, pos, size, limit, w).found
                    = IF current > best THEN Longer(w.found, current, w.dist) ELSE w.found
               /\ current > best /\ current >= limit => ~ Hit(array, h, pos, size, limit, w).going
BY DEF Hit

LEMMA AlikeKept ==
    ASSUME NEW array, NEW from, NEW pos, NEW h, NEW most, Searching(array, from, pos, h, most),
           NEW few \in Nat, few >= MIN_MATCH, few <= most,
           NEW w, NEW v, Alike(few, w, v), WalkInv(array, from, pos, most, v)
    PROVE  Alike(few, Walked(array, h, pos, Len(array), few, w),
                      Walked(array, h, pos, Len(array), most, v))
<1> DEFINE size == Len(array)
           best == v.found.length
           compared == \/ pos + best >= size
                       \/ array[pos + best + 1] = array[pos - v.dist + best + 1]
           mf == MatchLength(array, h, pos, v.dist, few)
           mm == MatchLength(array, h, pos, v.dist, most)
           cf == IF compared THEN mf ELSE 0
           cm == IF compared THEN mm ELSE 0
           new == Hit(array, h, pos, size, most, v)
           short == Hit(array, h, pos, size, few, v)
<1>1. /\ array \in Seq(Byte) /\ from \in Nat /\ pos \in Nat /\ pos < size /\ from <= pos
      /\ HashInv(array, from, pos + 1, size, h) /\ most \in Nat /\ most <= MAX_MATCH
  BY DEF Searching
<1>2. /\ v \in WalkType /\ v.found \in FoundType /\ best \in Nat \ {0} /\ v.dist \in Nat \ {0}
      /\ v.found.sublen \in [MIN_MATCH .. MAX_MATCH -> Nat]
  BY DEF WalkInv, WalkType, IsFound, FoundType
<1>3. few \in MIN_MATCH .. MAX_MATCH /\ MIN_MATCH .. few \subseteq MIN_MATCH .. MAX_MATCH
      /\ MAX_MATCH \in Nat
  BY <1>1, Sizes DEF MIN_MATCH
<1>4. /\ new.found = IF cm > best THEN Longer(v.found, cm, v.dist) ELSE v.found
      /\ short.found = IF cf > best THEN Longer(v.found, cf, v.dist) ELSE v.found
      /\ cf > best /\ cf >= few => ~ short.going
  BY HitFound
<1>5. ASSUME v.going, v.dist < WINDOW
      PROVE  mm \in Nat /\ mf = MinOf(mm, few)
  <2>1. v.dist <= pos - from
    BY <1>5 DEF WalkInv, OnChain
  <2>2. v.dist \in 1 .. WINDOW - 1 /\ pos - v.dist >= from
    BY <1>1, <1>2, <1>5, <2>1, Sizes
  <2>3. mf = MinOf(mm, few)
    BY <1>1, <2>2, MatchLengthWithin
  <2>4. mm \in 0 .. most
    BY <1>1, <2>2, MatchLengthIs
  <2>5. QED
    BY <2>3, <2>4
<1>6. ASSUME NEW n \in Nat, n > best
      PROVE  /\ Longer(v.found, n, v.dist).length = n
             /\ Longer(v.found, n, v.dist).dist = v.dist
             /\ \A k \in MIN_MATCH .. few :
                  Longer(v.found, n, v.dist).sublen[k]
                    = IF best < k /\ k <= n THEN v.dist ELSE v.found.sublen[k]
  BY <1>3 DEF Longer
<1>7. CASE w = v /\ best < few /\ v.going /\ v.dist < WINDOW
  <2>1. mm \in Nat /\ mf = MinOf(mm, few)
    BY <1>5, <1>7
  <2>2. /\ Walked(array, h, pos, Len(array), few, w) = short
        /\ Walked(array, h, pos, Len(array), most, v) = new
    BY <1>7 DEF Walked
  <2>3. CASE compared /\ mm >= few
    <3> HIDE DEF compared, mm, mf, new, short
    <3>1. mf = few /\ cf = few /\ cm = mm
      BY <2>1, <2>3 DEF MinOf
    <3> HIDE DEF cf, cm
    <3>2. cf > best /\ cm > best
      BY <1>2, <1>7, <2>1, <2>3, <3>1
    <3>3. /\ new.found = Longer(v.found, mm, v.dist)
          /\ short.found = Longer(v.found, few, v.dist) /\ ~ short.going
      BY <1>4, <3>1, <3>2
    <3>4. /\ short.found.length = few /\ short.found.dist = v.dist /\ new.found.length = mm
          /\ \A k \in MIN_MATCH .. few :
               /\ short.found.sublen[k] = IF best < k /\ k <= few THEN v.dist ELSE v.found.sublen[k]
               /\ new.found.sublen[k] = IF best < k /\ k <= mm THEN v.dist ELSE v.found.sublen[k]
      BY <1>6, <2>1, <3>1, <3>2, <3>3
    <3>5. \A k \in MIN_MATCH .. few : short.found.sublen[k] = new.found.sublen[k]
      BY <1>3, <2>1, <2>3, <3>4 DEF MIN_MATCH
    <3>6. new.found.sublen[few] = v.dist
      BY <1>3, <1>7, <2>1, <2>3, <3>4 DEF MIN_MATCH
    <3>7. QED
      BY <2>2, <2>3, <3>3, <3>4, <3>5, <3>6 DEF Alike
  <2>4. CASE ~ (compared /\ mm >= few)
    <3>1. cf = cm /\ (cm > best => cm < few)
      <4> HIDE DEF compared, mm, mf
      <4>1. QED
        BY <1>2, <2>1, <2>4 DEF MinOf
    <3>2. cm \in Nat /\ (cm > best /\ cm >= few <=> cm > best /\ cm >= most)
      <4> HIDE DEF compared, mm, mf
      <4>1. cm \in Nat
        BY <2>1
      <4> HIDE DEF cf, cm
      <4>2. QED
        BY <1>1, <1>2, <3>1, <4>1
    <3>3. short = new
      <4> DEFINE found == IF cm > best THEN Longer(v.found, cm, v.dist) ELSE v.found
                 second == \/ v.second
                           \/ found.length >= h.same[pos % WINDOW]
                              /\ h.second.val = h.second.hashval[v.p]
                 p == (IF second THEN h.second ELSE h.first).prev[v.p]
      <4>1. new = [p |-> p, dist |-> v.dist + Back(v.p, p), second |-> second, found |-> found,
                   going |-> ~(cm > best /\ cm >= most) /\ p # v.p]
        BY DEF Hit
      <4>2. short = [p |-> p, dist |-> v.dist + Back(v.p, p), second |-> second, found |-> found,
                     going |-> ~(cm > best /\ cm >= few) /\ p # v.p]
        <5>1. cf = cm
          BY <3>1
        <5> DEFINE foundf == IF cf > best THEN Longer(v.found, cf, v.dist) ELSE v.found
                   secondf == \/ v.second
                              \/ foundf.length >= h.same[pos % WINDOW]
                                 /\ h.second.val = h.second.hashval[v.p]
                   pf == (IF secondf THEN h.second ELSE h.first).prev[v.p]
        <5>2. short = [p |-> pf, dist |-> v.dist + Back(v.p, pf), second |-> secondf,
                       found |-> foundf, going |-> ~(cf > best /\ cf >= few) /\ pf # v.p]
          BY DEF Hit
        <5> HIDE DEF cf, cm, short
        <5>3. QED
          BY <5>1, <5>2
      <4> HIDE DEF p, second, found, cf, cm, new, short
      <4>3. QED
        BY <3>2, <4>1, <4>2
    <3> HIDE DEF cf, cm, new, short, compared, mm, mf
    <3>4. new.found.length < few
      <4>1. CASE cm > best
        BY <1>4, <1>6, <3>1, <3>2, <4>1
      <4>2. CASE ~ (cm > best)
        BY <1>4, <1>7, <4>2
      <4>3. QED
        BY <4>1, <4>2
    <3>5. QED
      BY <2>2, <3>3, <3>4 DEF Alike
  <2>5. QED
    BY <2>3, <2>4
<1>8. CASE w = v /\ best < few /\ ~ (v.going /\ v.dist < WINDOW)
  BY <1>8 DEF Walked, Alike
<1>9. CASE /\ w.found.length = few /\ ~ w.going /\ best >= few
           /\ w.found.dist = v.found.sublen[few]
           /\ \A k \in MIN_MATCH .. few : w.found.sublen[k] = v.found.sublen[k]
  <2>1. Walked(array, h, pos, Len(array), few, w) = w
    BY <1>9 DEF Walked
  <2>2. CASE v.going /\ v.dist < WINDOW
    <3>1. Walked(array, h, pos, Len(array), most, v) = new
      BY <2>2 DEF Walked
    <3> HIDE DEF new
    <3>2. new.found.length >= few /\ \A k \in MIN_MATCH .. few : new.found.sublen[k] = v.found.sublen[k]
      <4>1. CASE cm > best
        <5>1. cm \in Nat
          <6>1. mm \in Nat
            BY <1>5, <2>2
          <6> HIDE DEF mm, compared
          <6>2. QED
            BY <6>1
        <5>2. new.found = Longer(v.found, cm, v.dist)
          BY <1>4, <4>1
        <5> HIDE DEF cm
        <5>3. new.found.length = cm
              /\ \A k \in MIN_MATCH .. few :
                   new.found.sublen[k] = IF best < k /\ k <= cm THEN v.dist ELSE v.found.sublen[k]
          BY <1>6, <4>1, <5>1, <5>2
        <5>4. \A k \in MIN_MATCH .. few : ~ (best < k)
          BY <1>2, <1>9 DEF MIN_MATCH
        <5>5. cm >= few
          BY <1>2, <1>9, <4>1, <5>1
        <5>6. QED
          BY <5>3, <5>4, <5>5
      <4>2. CASE ~ (cm > best)
        <5>1. new.found = v.found
          BY <1>4, <4>2
        <5>2. QED
          BY <1>9, <5>1
      <4>3. QED
        BY <4>1, <4>2
    <3>3. few \in MIN_MATCH .. few
      BY DEF MIN_MATCH
    <3>4. QED
      BY <1>9, <2>1, <3>1, <3>2, <3>3 DEF Alike
  <2>3. CASE ~ (v.going /\ v.dist < WINDOW)
    BY <1>9, <2>1, <2>3 DEF Walked, Alike
  <2>4. QED
    BY <2>2, <2>3
<1>10. QED
  BY <1>7, <1>8, <1>9 DEF Alike

\* With a limit below the longest match, the walk finds the match of that
\* length, and those below it; with another limit it finds the same.
AtLimit(few, found, full) ==
    IF full.length < few THEN found = full
    ELSE /\ found.length = few /\ found.dist = full.sublen[few]
         /\ \A k \in MIN_MATCH .. few : found.sublen[k] = full.sublen[k]
LEMMA WalkAtLimit ==
    ASSUME NEW array, NEW from, NEW pos, NEW h, NEW most, Searching(array, from, pos, h, most),
           NEW few \in Nat, few >= MIN_MATCH, few <= most
    PROVE  AtLimit(few, Walk(array, h, pos, Len(array), few), Walk(array, h, pos, Len(array), most))
<1> DEFINE f == Walks(array, h, pos, Len(array), few)
           m == Walks(array, h, pos, Len(array), most)
           S == {n \in Nat : Alike(few, f[n], m[n])}
<1>1. Searching(array, from, pos, h, few)
  <2>1. few <= MAX_MATCH /\ pos + few <= Len(array)
    <3>1. MAX_MATCH \in Nat
      BY Sizes
    <3>2. most \in Nat /\ most <= MAX_MATCH /\ pos + most <= Len(array) /\ pos \in Nat
          /\ Len(array) \in Nat
      BY DEF Searching
    <3>3. QED
      BY <3>1, <3>2
  <2>2. QED
    BY <2>1 DEF Searching
<1>2. /\ f[0] = StartOfWalk(h)
      /\ \A n \in Nat : f[n + 1] = Walked(array, h, pos, Len(array), few, f[n])
  BY <1>1, WalksFollow
<1>3. /\ m[0] = StartOfWalk(h)
      /\ \A n \in Nat : m[n + 1] = Walked(array, h, pos, Len(array), most, m[n])
      /\ \A n \in Nat : WalkInv(array, from, pos, most, m[n])
  BY WalksFollow
<1>4. Walk(array, h, pos, Len(array), few) = f[MAX_CHAIN_HITS].found
      /\ Walk(array, h, pos, Len(array), most) = m[MAX_CHAIN_HITS].found
  BY DEF Walk
<1> HIDE DEF f, m
<1>5. 0 \in S
  <2>1. StartOfWalk(h).found.length < few
    BY DEF StartOfWalk, WalkFrom, MIN_MATCH
  <2>2. QED
    BY <1>2, <1>3, <2>1 DEF Alike
<1>6. ASSUME NEW n \in Nat, n \in S PROVE n + 1 \in S
  <2>1. Alike(few, f[n], m[n])
    BY <1>6
  <2>2. Alike(few, Walked(array, h, pos, Len(array), few, f[n]),
                   Walked(array, h, pos, Len(array), most, m[n]))
    BY <1>3, <2>1, AlikeKept
  <2>3. QED
    BY <1>2, <1>3, <2>2
<1> HIDE DEF S
<1>7. \A n \in Nat : n >= 0 => n \in S
  BY <1>5, <1>6, Induction
<1>8. MAX_CHAIN_HITS \in Nat /\ MAX_CHAIN_HITS >= 0
  BY Sizes
<1>9. MAX_CHAIN_HITS \in S
  BY <1>7, <1>8
<1>10. Alike(few, f[MAX_CHAIN_HITS], m[MAX_CHAIN_HITS])
  BY <1>9 DEF S
<1>11. m[MAX_CHAIN_HITS].found.length \in Nat
  BY <1>3, <1>8 DEF WalkInv, IsFound, FoundType
<1>12. QED
  BY <1>4, <1>10, <1>11 DEF Alike, AtLimit

-----------------------------------------------------------------------------
(* The longest match at a position, and that of a long run.                *)

\* What a search for the longest match finds, without a cache.
Full(array, from, pos) ==
    Walk(array, HashBefore(array, from, pos + 1), pos, Len(array), MinOf(MAX_MATCH, Len(array) - pos))

LEMMA FullSearch ==
    ASSUME NEW array \in Seq(Byte), NEW from \in Nat, NEW pos \in from .. Len(array) - 1
    PROVE  Searching(array, from, pos, HashBefore(array, from, pos + 1),
                     MinOf(MAX_MATCH, Len(array) - pos))
<1>1. /\ pos \in Nat /\ pos >= from /\ pos < Len(array) /\ from < Len(array) /\ Len(array) \in Nat
      /\ pos + 1 \in from .. Len(array)
  OBVIOUS
<1>2. HashInv(array, from, pos + 1, Len(array), HashBefore(array, from, pos + 1))
  BY <1>1, HashBeforeFacts
<1>3. /\ MinOf(MAX_MATCH, Len(array) - pos) \in Nat
      /\ MinOf(MAX_MATCH, Len(array) - pos) <= MAX_MATCH
      /\ pos + MinOf(MAX_MATCH, Len(array) - pos) <= Len(array)
  BY <1>1, Sizes DEF MinOf
<1>4. QED
  BY <1>1, <1>2, <1>3 DEF Searching

LEMMA FullFinds ==
    ASSUME NEW array \in Seq(Byte), NEW from \in Nat, NEW pos \in from .. Len(array) - 1
    PROVE  IsFound(array, pos, MinOf(MAX_MATCH, Len(array) - pos), Full(array, from, pos))
BY FullSearch, WalkFinds DEF Full

\* A search with a smaller limit finds the same.
LEMMA FullAtLimit ==
    ASSUME NEW array \in Seq(Byte), NEW from \in Nat, NEW pos \in from .. Len(array) - 1,
           NEW few \in Nat, few >= MIN_MATCH, few <= MAX_MATCH, few <= Len(array) - pos
    PROVE  AtLimit(few, Walk(array, HashBefore(array, from, pos + 1), pos, Len(array), few),
                   Full(array, from, pos))
<1> DEFINE most == MinOf(MAX_MATCH, Len(array) - pos)
<1>1. Searching(array, from, pos, HashBefore(array, from, pos + 1), most)
  BY FullSearch
<1>2. few <= most
  BY DEF MinOf
<1>3. Full(array, from, pos) = Walk(array, HashBefore(array, from, pos + 1), pos, Len(array), most)
  BY DEF Full
<1> HIDE DEF most
<1>4. QED
  BY <1>1, <1>2, <1>3, WalkAtLimit

\* In a run of equal bytes every position has the hash value of the one before,
\* which is therefore the next in its chain.
LEMMA ChainOfRun ==
    ASSUME NEW array \in Seq(Byte), NEW from \in Nat, NEW pos \in Nat, pos > from,
           pos + MAX_MATCH <= Len(array),
           \A k \in 0 .. MAX_MATCH - 1 : array[pos + k + 1] = array[pos]
    PROVE  HashBefore(array, from, pos + 1).first.prev[pos % WINDOW] = (pos - 1) % WINDOW
<1> DEFINE end == Len(array)
           h == HashBefore(array, from, pos)
           new == HashBefore(array, from, pos + 1)
           v == UpdateHashValue(h.first.val,
                                IF pos + MIN_MATCH <= end THEN array[pos + MIN_MATCH] ELSE 0)
           s == (pos - 1) % WINDOW
<1>1. /\ MAX_MATCH \in Nat /\ MAX_MATCH > 3 /\ end \in Nat
      /\ pos \in from .. end /\ pos + 1 \in from .. end /\ from < end /\ pos - 1 \in Nat
  BY Sizes
<1>2. HashInv(array, from, pos, end, h) /\ HashInv(array, from, pos + 1, end, new)
  BY <1>1, HashBeforeFacts
<1>3. new = UpdateHash(array, pos, end, h)
  BY <1>1, HashBeforeFacts
<1>4. h.first \in TableType /\ Linking(h.first, from, pos) /\ v \in HashValues
      /\ new.first = Linked(h.first, pos % WINDOW, v)
  <2>1. h.first \in TableType /\ Linking(h.first, from, pos)
    BY <1>2 DEF HashInv, HashType
  <2>2. v \in HashValues
    <3>1. h.first.val \in HashValues
      BY <2>1 DEF TableType
    <3>2. (IF pos + MIN_MATCH <= end THEN array[pos + MIN_MATCH] ELSE 0) \in Byte
      BY <1>1, Sizes DEF MIN_MATCH
    <3>3. QED
      BY <3>1, <3>2, MatchAssumption
  <2>3. new.first = Linked(h.first, pos % WINDOW, v)
    BY <1>3 DEF UpdateHash
  <2>4. QED
    BY <2>1, <2>2, <2>3
<1> HIDE DEF v, new, h
<1>5. /\ new.first.val = v
      /\ h.first.head[v] \in Slots /\ h.first.hashval[h.first.head[v]] = v
           => new.first.prev[pos % WINDOW] = h.first.head[v]
  <2>1. LET n == Linked(h.first, pos % WINDOW, v)
        IN  /\ n.val = v
            /\ (h.first.head[v] \in Slots /\ h.first.hashval[h.first.head[v]] = v)
                  => n.prev[pos % WINDOW] = h.first.head[v]
    BY <1>1, <1>4, LinkedTable
  <2>2. QED
    BY <1>4, <2>1
<1>6. h.first.val = v
  <2>1. array[pos + 1] = array[pos] /\ array[pos + 2] = array[pos] /\ array[pos + 3] = array[pos]
        /\ array[pos] \in Byte
    <3>1. 0 \in 0 .. MAX_MATCH - 1 /\ 1 \in 0 .. MAX_MATCH - 1 /\ 2 \in 0 .. MAX_MATCH - 1
      BY <1>1
    <3>2. array[pos + 0 + 1] = array[pos] /\ array[pos + 1 + 1] = array[pos]
          /\ array[pos + 2 + 1] = array[pos]
      BY <3>1
    <3>3. array[pos] \in Byte
      BY <1>1
    <3>4. QED
      BY <3>2, <3>3
  <2>2. \E w \in HashValues :
          h.first.val = UpdateHashValue(UpdateHashValue(UpdateHashValue(w, array[pos]), array[pos + 1]),
                                        array[pos + 2])
    <3>1. OfThree(array, pos, end, h)
      BY <1>1, <1>2 DEF HashInv
    <3>2. QED
      BY <1>1, <3>1 DEF OfThree
  <2>3. \E w \in HashValues :
          new.first.val = UpdateHashValue(UpdateHashValue(UpdateHashValue(w, array[pos + 1]),
                                                          array[pos + 2]), array[pos + 3])
    <3>1. OfThree(array, pos + 1, end, new)
      BY <1>1, <1>2 DEF HashInv
    <3>2. (pos + 1) + 2 <= end /\ (pos + 1) + 1 = pos + 2 /\ (pos + 1) + 2 = pos + 3
      BY <1>1
    <3>3. QED
      BY <3>1, <3>2 DEF OfThree
  <2> DEFINE b == array[pos]
  <2>4. PICK w1 \in HashValues : h.first.val = UpdateHashValue(UpdateHashValue(UpdateHashValue(w1, b), b), b)
    BY <2>1, <2>2
  <2>5. PICK w2 \in HashValues : new.first.val = UpdateHashValue(UpdateHashValue(UpdateHashValue(w2, b), b), b)
    BY <2>1, <2>3
  <2>6. b \in Byte
    BY <2>1
  <2> HIDE DEF b
  <2>7. UpdateHashValue(UpdateHashValue(UpdateHashValue(w1, b), b), b)
          = UpdateHashValue(UpdateHashValue(UpdateHashValue(w2, b), b), b)
    BY <2>6, MatchAssumption
  <2>8. QED
    BY <1>5, <2>4, <2>5, <2>7
<1>7. h.first.head[v] = s /\ h.first.hashval[s] = v
  BY <1>1, <1>2, <1>6 DEF HashInv, Latest
<1>8. s \in Slots
  BY <1>1, NextWindow
<1>9. QED
  BY <1>5, <1>7, <1>8 DEF new

\* There the match with the byte before is as long as a match may be.
LEMMA MatchOfRun ==
    ASSUME NEW array \in Seq(Byte), NEW from \in Nat, NEW pos \in Nat, pos > from,
           pos + MAX_MATCH <= Len(array),
           \A k \in 0 .. MAX_MATCH - 1 : array[pos + k + 1] = array[pos]
    PROVE  Full(array, from, pos).length = MAX_MATCH /\ Full(array, from, pos).dist = 1
<1> DEFINE size == Len(array)
           h == HashBefore(array, from, pos + 1)
           m == Walks(array, h, pos, size, MAX_MATCH)
           start == StartOfWalk(h)
           S == {n \in Nat : m[n].found.length = MAX_MATCH /\ m[n].found.dist = 1 /\ ~ m[n].going}
<1>1. /\ MAX_MATCH \in Nat /\ MAX_MATCH > 3 /\ size \in Nat /\ WINDOW \in Nat /\ WINDOW > MAX_MATCH
      /\ pos \in from .. size - 1 /\ pos - 1 \in Nat
  BY Sizes
<1>2. MinOf(MAX_MATCH, size - pos) = MAX_MATCH
  BY <1>1 DEF MinOf
<1>3. Searching(array, from, pos, h, MAX_MATCH)
  BY <1>1, <1>2, FullSearch
<1>4. Full(array, from, pos) = m[MAX_CHAIN_HITS].found
  BY <1>2 DEF Full, Walk
<1> HIDE DEF h
<1>5. /\ m[0] = start
      /\ \A n \in Nat : m[n + 1] = Walked(array, h, pos, size, MAX_MATCH, m[n])
  BY <1>3, WalksFollow
<1>6. HashInv(array, from, pos + 1, size, h)
  BY <1>3 DEF Searching
<1>7. h.first.prev[pos % WINDOW] = (pos - 1) % WINDOW
  BY ChainOfRun DEF h
<1> HIDE DEF m, h, start, size
<1>8. h.first.head[h.first.val] = pos % WINDOW
  <2>1. pos + 1 > from /\ (pos + 1) - 1 = pos
    BY <1>1
  <2>2. Latest(pos + 1, h)
    BY <1>6, <2>1 DEF HashInv
  <2>3. QED
    BY <2>1, <2>2 DEF Latest
<1>9. Back(pos % WINDOW, (pos - 1) % WINDOW) = 1
  <2> DEFINE b == Back(pos % WINDOW, (pos - 1) % WINDOW)
  <2>1. (pos - 1) % WINDOW \in Slots /\ ((pos - 1) + WINDOW) % WINDOW = (pos - 1) % WINDOW
    BY <1>1, NextWindow
  <2>2. b \in 1 .. WINDOW /\ (pos + WINDOW - b) % WINDOW = (pos - 1) % WINDOW
    BY <2>1, BackSlot
  <2> HIDE DEF b
  <2> DEFINE x == pos + WINDOW - b
             y == (pos - 1) + WINDOW
  <2>3. x \in Nat /\ y \in Nat /\ x <= y /\ y < x + WINDOW /\ y - x = b - 1
    BY <1>1, <2>2
  <2>4. x % WINDOW = y % WINDOW
    BY <2>1, <2>2
  <2> HIDE DEF x, y
  <2>5. x = y
    BY <2>3, <2>4, SameSlot
  <2>6. b = 1
    BY <2>2, <2>3, <2>5
  <2>7. QED
    BY <2>6 DEF b
<1>10. /\ start.dist = 1 /\ start.going /\ start.found.length = 1
  BY <1>7, <1>8, <1>9 DEF start, StartOfWalk, WalkFrom
<1>11. MatchLength(array, h, pos, 1, MAX_MATCH) = MAX_MATCH
  <2> DEFINE r == MatchLength(array, h, pos, 1, MAX_MATCH)
  <2>1. 1 \in 1 .. WINDOW - 1 /\ pos - 1 >= from /\ pos < size
    BY <1>1
  <2>2. r \in 0 .. MAX_MATCH
        /\ (r < MAX_MATCH => array[pos + r + 1] # array[pos - 1 + r + 1])
    BY <1>1, <1>6, <2>1, MatchLengthIs DEF size
  <2> HIDE DEF r
  <2>3. ~ (r < MAX_MATCH)
    <3> SUFFICES ASSUME r < MAX_MATCH PROVE FALSE
      OBVIOUS
    <3>1. array[pos + r + 1] = array[pos]
      <4>1. r \in 0 .. MAX_MATCH - 1
        BY <1>1, <2>2
      <4>2. QED
        BY <4>1
    <3>2. array[pos - 1 + r + 1] = array[pos]
      <4>1. CASE r = 0
        <5>1. pos - 1 + r + 1 = pos
          BY <4>1
        <5>2. QED
          BY <5>1
      <4>2. CASE r # 0
        <5>1. r - 1 \in 0 .. MAX_MATCH - 1 /\ pos - 1 + r + 1 = pos + (r - 1) + 1
          BY <1>1, <2>2, <4>2
        <5>2. QED
          BY <5>1
      <4>3. QED
        BY <4>1, <4>2
    <3>3. QED
      BY <2>2, <3>1, <3>2
  <2>4. QED
    BY <1>1, <2>2, <2>3 DEF r
<1>12. 1 \in S
  <2>1. m[1] = Hit(array, h, pos, size, MAX_MATCH, start)
    <3>1. m[0 + 1] = Walked(array, h, pos, size, MAX_MATCH, m[0])
      BY <1>5
    <3>2. Walked(array, h, pos, size, MAX_MATCH, start) = Hit(array, h, pos, size, MAX_MATCH, start)
      BY <1>1, <1>10 DEF Walked
    <3>3. 0 + 1 = 1
      OBVIOUS
    <3>4. QED
      BY <1>5, <3>1, <3>2, <3>3
  <2> DEFINE best == start.found.length
             compared == \/ pos + best >= size
                         \/ array[pos + best + 1] = array[pos - start.dist + best + 1]
             current == IF compared THEN MatchLength(array, h, pos, start.dist, MAX_MATCH) ELSE 0
             new == Hit(array, h, pos, size, MAX_MATCH, start)
  <2>2. array[pos + 1 + 1] = array[pos] /\ array[pos - 1 + 1 + 1] = array[pos]
    <3>1. 0 \in 0 .. MAX_MATCH - 1 /\ 1 \in 0 .. MAX_MATCH - 1 /\ pos - 1 + 1 + 1 = pos + 0 + 1
      BY <1>1
    <3>2. QED
      BY <3>1
  <2>3. current = MAX_MATCH /\ best = 1
    BY <1>10, <1>11, <2>2
  <2>4. /\ new.found = IF current > best THEN Longer(start.found, current, start.dist) ELSE start.found
        /\ current > best /\ current >= MAX_MATCH => ~ new.going
    BY HitFound
  <2> HIDE DEF current, best, new
  <2>5. new.found = Longer(start.found, MAX_MATCH, start.dist) /\ ~ new.going
    BY <1>1, <2>3, <2>4
  <2>6. new.found.length = MAX_MATCH /\ new.found.dist = 1
    BY <1>10, <2>5 DEF Longer
  <2>7. QED
    BY <2>1, <2>5, <2>6 DEF new
<1>13. ASSUME NEW n \in Nat, n >= 1, n \in S PROVE n + 1 \in S
  <2>1. m[n + 1] = m[n]
    BY <1>5, <1>13 DEF Walked
  <2>2. QED
    BY <1>13, <2>1
<1> HIDE DEF S
<1>14. \A n \in Nat : n >= 1 => n \in S
  BY <1>12, <1>13, Induction
<1>15. MAX_CHAIN_HITS \in Nat /\ MAX_CHAIN_HITS >= 1
  BY Sizes
<1>16. MAX_CHAIN_HITS \in S
  BY <1>14, <1>15
<1>17. QED
  BY <1>4, <1>16 DEF S

-----------------------------------------------------------------------------
(* What the cache keeps of the distances.                                  *)

Rank(S, k) == Cardinality({i \in S : i <= k})

\* The elements of a finite set of numbers are numbered by their ranks.
LEMMA Ranks ==
    ASSUME NEW S \in SUBSET Nat, IsFiniteSet(S)
    PROVE  /\ Cardinality(S) \in Nat
           /\ \A k \in S : Rank(S, k) \in 1 .. Cardinality(S)
           /\ \A k, m \in S : k < m => Rank(S, k) < Rank(S, m)
           /\ \A j \in 1 .. Cardinality(S) : \E k \in S : Rank(S, k) = j
<1> DEFINE Below(k) == {i \in S : i <= k}
           n == Cardinality(S)
<1>1. n \in Nat /\ \A k : IsFiniteSet(Below(k)) /\ Cardinality(Below(k)) \in Nat
                          /\ Cardinality(Below(k)) <= n
  <2>1. n \in Nat
    BY FS_CardinalityType
  <2>2. ASSUME NEW k
        PROVE  IsFiniteSet(Below(k)) /\ Cardinality(Below(k)) \in Nat /\ Cardinality(Below(k)) <= n
    <3>1. Below(k) \in SUBSET S
      OBVIOUS
    <3> HIDE DEF Below
    <3>2. IsFiniteSet(Below(k)) /\ Cardinality(Below(k)) <= n
      BY <3>1, FS_Subset
    <3>3. QED
      BY <3>2, FS_CardinalityType
  <2>3. QED
    BY <2>1, <2>2
<1>2. \A k : Rank(S, k) = Cardinality(Below(k))
  BY DEF Rank
<1> HIDE DEF n
<1>3. ASSUME NEW k \in S PROVE Rank(S, k) \in 1 .. n
  <2>1. k \in Below(k)
    OBVIOUS
  <2> HIDE DEF Below
  <2>2. Cardinality(Below(k)) # 0
    BY <1>1, <2>1, FS_EmptySet
  <2>3. QED
    BY <1>1, <1>2, <2>2
<1>4. ASSUME NEW k \in S, NEW m \in S, k < m PROVE Rank(S, k) < Rank(S, m)
  <2>1. Below(k) \in SUBSET Below(m) /\ m \in Below(m) /\ m \notin Below(k)
    <3>1. \A i \in S : i \in Nat
      OBVIOUS
    <3>2. \A i \in S : i <= k => i <= m
      BY <1>4, <3>1
    <3>3. m <= m /\ ~ (m <= k)
      BY <1>4, <3>1
    <3>4. QED
      BY <3>2, <3>3
  <2> HIDE DEF Below
  <2>2. /\ Cardinality(Below(k)) <= Cardinality(Below(m))
        /\ Cardinality(Below(k)) # Cardinality(Below(m))
    BY <1>1, <2>1, FS_Subset
  <2>3. QED
    BY <1>1, <1>2, <2>2
<1> HIDE DEF Below
<1> DEFINE f == [k \in S |-> Rank(S, k)]
<1>5. f \in Injection(S, 1 .. n)
  <2>1. f \in [S -> 1 .. n]
    BY <1>3
  <2>2. \A a, b \in S : f[a] = f[b] => a = b
    <3> SUFFICES ASSUME NEW a \in S, NEW b \in S, Rank(S, a) = Rank(S, b) PROVE a = b
      OBVIOUS
    <3>1. a \in Nat /\ b \in Nat /\ Rank(S, a) \in Nat
      BY <1>3
    <3>2. ~ (a < b) /\ ~ (b < a)
      BY <1>4, <3>1
    <3>3. QED
      BY <3>1, <3>2
  <2>3. QED
    BY <2>1, <2>2 DEF Injection, IsInjective
<1>6. f \in Surjection(S, 1 .. n)
  <2>1. IsFiniteSet(1 .. n) /\ Cardinality(1 .. n) = n
    BY <1>1, FS_Interval
  <2>2. Cardinality(S) = Cardinality(1 .. n)
    BY <2>1 DEF n
  <2> HIDE DEF f
  <2>3. QED
    BY <1>5, <2>1, <2>2, FS_Injection
<1>7. \A j \in 1 .. n : \E k \in S : Rank(S, k) = j
  BY <1>6 DEF Surjection
<1>8. QED
  BY <1>1, <1>3, <1>4, <1>7 DEF n

\* Equal neighbours from a on to b are all equal.
LEMMA Constant ==
    ASSUME NEW f, NEW a \in Nat, NEW b \in Nat, a <= b,
           \A i \in a .. b - 1 : f[i] = f[i + 1]
    PROVE  f[a] = f[b]
<1> DEFINE S == {n \in Nat : n <= b => f[n] = f[a]}
<1>1. a \in S
  OBVIOUS
<1>2. ASSUME NEW n \in Nat, n >= a, n \in S PROVE n + 1 \in S
  BY <1>2
<1> HIDE DEF S
<1>3. b \in S
  BY <1>1, <1>2, Induction
<1>4. QED
  BY <1>3 DEF S

\* The pairs of an entry give every length they know the distance of sublen.
Restores(e, sublen, length) ==
    /\ MaxCachedSublen(e) \in MIN_MATCH .. length
    /\ \A n \in Nat, k \in MIN_MATCH .. MAX_MATCH :
         n >= MIN_MATCH /\ k <= MaxCachedSublen(e) => CacheToSublen(e, n)[k] = sublen[k]

\* The distances an entry was stored with are restored.
LEMMA CacheOfSublen ==
    ASSUME NEW sublen \in [MIN_MATCH .. MAX_MATCH -> Nat], NEW length \in MIN_MATCH .. MAX_MATCH,
           \A k \in MIN_MATCH .. length : sublen[k] # 0,
           NEW e, e.sublen = SublenToCache(sublen, length)
    PROVE  Restores(e, sublen, length)
<1> DEFINE steps == {k \in MIN_MATCH .. length : k = length \/ sublen[k] # sublen[k + 1]}
           Nth(j) == CHOOSE k \in steps : Cardinality({i \in steps : i <= k}) = j
           count == Cardinality(steps)
           c == CACHE_LENGTH
           last == IF c <= count THEN Nth(c) ELSE length
<1>1. /\ c \in Nat \ {0} /\ MAX_MATCH \in Nat /\ length \in Nat /\ length <= MAX_MATCH
      /\ MIN_MATCH = 3 /\ length >= 3
  BY Sizes DEF MIN_MATCH
<1>2. /\ count \in Nat
      /\ \A k \in steps : Rank(steps, k) \in 1 .. count
      /\ \A k, m \in steps : k < m => Rank(steps, k) < Rank(steps, m)
      /\ \A j \in 1 .. count : \E k \in steps : Rank(steps, k) = j
  <2>1. steps \in SUBSET Nat /\ \A s \in steps : s <= length
    BY <1>1
  <2> HIDE DEF steps
  <2>2. IsFiniteSet(steps)
    BY <1>1, <2>1, FS_BoundedSetOfNaturals
  <2>3. QED
    BY <2>1, <2>2, Ranks
<1>3. length \in steps /\ \A k \in steps : k \in 3 .. length
  BY <1>1
<1>4. \A k \in 3 .. length - 1 : k \notin steps => sublen[k] = sublen[k + 1]
  BY <1>1
<1>5. \A j \in 1 .. count : Nth(j) \in steps /\ Rank(steps, Nth(j)) = j
  <2> HIDE DEF steps
  <2>1. QED
    BY <1>2 DEF Rank
<1>6. \A j \in 1 .. c :
        e.sublen[j] = CASE j <= count -> [length |-> Nth(j), dist |-> sublen[Nth(j)]]
                        [] j > count /\ j = c /\ steps # {} -> [length |-> length, dist |-> 0]
                        [] OTHER -> NoEntry.sublen[j]
  BY DEF SublenToCache
<1> HIDE DEF steps, Nth, count, c
<1>7. \A j \in 1 .. count : Nth(j) \in 3 .. length
  BY <1>3, <1>5
<1>8. \A j \in 1 .. c : j <= count =>
        e.sublen[j].length = Nth(j) /\ e.sublen[j].dist = sublen[Nth(j)]
  <2> SUFFICES ASSUME NEW j \in 1 .. c, j <= count
               PROVE  e.sublen[j].length = Nth(j) /\ e.sublen[j].dist = sublen[Nth(j)]
    OBVIOUS
  <2>1. ~ (j > count)
    BY <1>1, <1>2
  <2>2. e.sublen[j] = [length |-> Nth(j), dist |-> sublen[Nth(j)]]
    BY <1>6, <2>1
  <2>3. QED
    BY <2>2
<1>9. \A j \in 1 .. c : j > count /\ j = c => e.sublen[j].length = length
  <2> SUFFICES ASSUME NEW j \in 1 .. c, j > count, j = c
               PROVE  e.sublen[j] = [length |-> length, dist |-> 0]
    OBVIOUS
  <2>1. ~ (j <= count) /\ steps # {}
    BY <1>1, <1>2, <1>3
  <2>2. QED
    BY <1>6, <2>1
<1>10. count >= 1 /\ Rank(steps, length) = count /\ Nth(count) = length
  <2>1. Rank(steps, length) \in 1 .. count
    BY <1>2, <1>3
  <2>2. count \in 1 .. count
    BY <1>2, <2>1
  <2>3. Nth(count) \in steps /\ Rank(steps, Nth(count)) = count /\ Nth(count) \in 3 .. length
    BY <1>5, <1>7, <2>2
  <2>4. ~ (Nth(count) < length)
    <3> SUFFICES ASSUME Nth(count) < length PROVE FALSE
      OBVIOUS
    <3>1. Rank(steps, Nth(count)) < Rank(steps, length)
      BY <1>2, <1>3, <2>3
    <3>2. QED
      BY <1>2, <2>1, <2>3, <3>1
  <2>5. Nth(count) = length
    BY <1>1, <2>3, <2>4
  <2>6. QED
    BY <1>2, <2>1, <2>3, <2>5
<1>11. e.sublen[1].dist # 0
  <2>1. 1 \in 1 .. c /\ 1 \in 1 .. count
    BY <1>1, <1>2, <1>10
  <2>2. e.sublen[1].dist = sublen[Nth(1)] /\ Nth(1) \in 3 .. length
    BY <1>7, <1>8, <2>1
  <2>3. QED
    BY <1>1, <2>2
<1>12. MaxCachedSublen(e) = last
  <2>1. MaxCachedSublen(e) = e.sublen[c].length
    BY <1>11 DEF MaxCachedSublen, c
  <2>2. c \in 1 .. c
    BY <1>1
  <2>3. QED
    BY <1>1, <1>2, <1>8, <1>9, <2>1, <2>2
<1>13. last \in 3 .. length
  <2>1. CASE c <= count
    BY <1>1, <1>2, <1>7, <2>1
  <2>2. CASE ~ (c <= count)
    BY <1>1, <2>2
  <2>3. QED
    BY <2>1, <2>2
<1>14. ASSUME NEW k \in 3 .. last
       PROVE  e.sublen[Min({j \in 1 .. c : e.sublen[j].length >= k})].dist = sublen[k]
  <2> DEFINE T == {j \in 1 .. c : e.sublen[j].length >= k}
             t == Min(T)
             top == IF c <= count THEN c ELSE count
  <2>1. k \in 3 .. length /\ k \in Nat
    BY <1>1, <1>13
  <2>2. top \in 1 .. c /\ top \in 1 .. count /\ Nth(top) = last
    <3>1. CASE c <= count
      BY <1>1, <1>2, <3>1
    <3>2. CASE ~ (c <= count)
      BY <1>1, <1>2, <1>10, <3>2
    <3>3. QED
      BY <3>1, <3>2
  <2>3. e.sublen[top].length = last
    BY <1>8, <2>2
  <2>4. top \in T
    BY <1>13, <2>1, <2>2, <2>3
  <2> HIDE DEF top
  <2>5. t \in T /\ \A y \in T : t <= y
    <3>1. T \in SUBSET Nat /\ T # {}
      BY <1>1, <2>4
    <3> HIDE DEF T
    <3>2. QED
      BY <3>1, LeastElement
  <2>6. t \in 1 .. c /\ t \in 1 .. count /\ t <= top /\ e.sublen[t].length >= k
    BY <1>1, <1>2, <2>2, <2>4, <2>5
  <2>7. ASSUME NEW j \in 1 .. c, j < t PROVE ~ (e.sublen[j].length >= k)
    BY <2>5, <2>6, <2>7
  <2> HIDE DEF T, t
  <2>8. /\ e.sublen[t].length = Nth(t) /\ e.sublen[t].dist = sublen[Nth(t)]
        /\ Nth(t) \in 3 .. length /\ Nth(t) >= k
    BY <1>7, <1>8, <2>6
  <2>9. ASSUME NEW i \in k .. Nth(t) - 1 PROVE sublen[i] = sublen[i + 1]
    <3>1. i \in 3 .. length - 1 /\ i \in Nat /\ i < Nth(t)
      BY <1>1, <2>1, <2>8
    <3> SUFFICES ASSUME i \in steps PROVE FALSE
      BY <1>4, <3>1
    <3> DEFINE j == Rank(steps, i)
    <3>2. Nth(t) \in steps /\ Rank(steps, Nth(t)) = t
      BY <1>5, <2>6
    <3>3. j < t
      BY <1>2, <3>1, <3>2
    <3>4. j \in 1 .. count
      BY <1>2
    <3> HIDE DEF j
    <3>5. Nth(j) \in steps /\ Rank(steps, Nth(j)) = j /\ Nth(j) \in 3 .. length
      BY <1>5, <1>7, <3>4
    <3>6. Nth(j) = i
      <4>1. ~ (Nth(j) < i) /\ ~ (i < Nth(j))
        BY <1>2, <3>4, <3>5 DEF j
      <4>2. QED
        BY <3>1, <3>5, <4>1
    <3>7. j \in 1 .. c
      BY <1>1, <1>2, <2>6, <3>3, <3>4
    <3>8. e.sublen[j].length = i
      BY <1>8, <3>4, <3>6, <3>7
    <3>9. QED
      BY <2>1, <2>7, <3>1, <3>3, <3>7, <3>8
  <2>10. sublen[k] = sublen[Nth(t)]
    <3>1. Nth(t) \in Nat /\ k <= Nth(t)
      BY <2>1, <2>8
    <3>2. QED
      BY <2>1, <2>9, <3>1, Constant
  <2>11. QED
    BY <2>8, <2>10 DEF t, T
<1> HIDE DEF last
<1>15. ASSUME NEW n \in Nat, NEW k \in MIN_MATCH .. MAX_MATCH,
              n >= MIN_MATCH, k <= MaxCachedSublen(e)
       PROVE  CacheToSublen(e, n)[k] = sublen[k]
  <2>1. CacheToSublen(e, n)[k] = e.sublen[Min({j \in 1 .. CACHE_LENGTH : e.sublen[j].length >= k})].dist
    BY <1>15 DEF CacheToSublen
  <2>2. k \in 3 .. last
    BY <1>1, <1>12, <1>13, <1>15
  <2>3. QED
    BY <1>14, <2>1, <2>2 DEF c
<1>16. QED
  BY <1>1, <1>12, <1>13, <1>15 DEF Restores

\* What the longest match is: none, or one as long as the limit and the data
\* allow, with its distance that of its length.
LEMMA FullIs ==
    ASSUME NEW array \in Seq(Byte), NEW from \in Nat, NEW pos \in from .. Len(array) - 1
    PROVE  LET full == Full(array, from, pos)
           IN  /\ full.length \in Nat /\ full.dist \in Nat
               /\ full.sublen \in [MIN_MATCH .. MAX_MATCH -> Nat]
               /\ full.length >= MIN_MATCH =>
                    /\ full.length <= MAX_MATCH /\ pos + full.length <= Len(array)
                    /\ full.dist = full.sublen[full.length]
                    /\ full.dist # 0
               /\ \A k \in MIN_MATCH .. full.length :
                    IsMatch(array, pos, full.sublen[k], k) /\ full.sublen[k] # 0
<1> DEFINE full == Full(array, from, pos)
           most == MinOf(MAX_MATCH, Len(array) - pos)
<1>1. IsFound(array, pos, most, full)
  BY FullFinds
<1>2. most <= MAX_MATCH /\ most <= Len(array) - pos /\ most \in Nat
  BY Sizes DEF MinOf
<1> HIDE DEF full, most
<1>3. /\ full.length \in Nat /\ full.dist \in Nat /\ full.sublen \in [MIN_MATCH .. MAX_MATCH -> Nat]
  BY <1>1 DEF IsFound, FoundType
<1>4. \A k \in MIN_MATCH .. full.length : IsMatch(array, pos, full.sublen[k], k) /\ full.sublen[k] # 0
  BY <1>1 DEF IsFound, IsMatch
<1>5. ASSUME full.length >= MIN_MATCH
      PROVE  /\ full.length <= MAX_MATCH /\ pos + full.length <= Len(array)
             /\ full.dist = full.sublen[full.length]
             /\ full.dist # 0
  <2>1. MIN_MATCH = 3 /\ full.length >= 2 /\ full.length >= 3 /\ full.length \in MIN_MATCH .. full.length
    BY <1>3, <1>5 DEF MIN_MATCH
  <2>2. full.length <= most /\ full.dist = full.sublen[full.length]
    BY <1>1, <2>1 DEF IsFound
  <2>3. MAX_MATCH \in Nat
    BY Sizes
  <2>4. full.length <= MAX_MATCH /\ pos + full.length <= Len(array)
    BY <1>2, <1>3, <2>2, <2>3
  <2>5. QED
    BY <1>4, <2>1, <2>2, <2>4
<1>6. QED
  BY <1>3, <1>4, <1>5 DEF full

\* The cache holds nothing for a position, or what a search would find there.
EntryOf(array, from, pos, e) ==
    LET full == Full(array, from, pos)
    IN  \/ e = NoEntry
        \/ full.length < MIN_MATCH /\ e.length = 0 /\ e.sublen = NoEntry.sublen
        \/ /\ full.length >= MIN_MATCH /\ e.length = full.length /\ e.dist = full.dist
           /\ e.sublen = SublenToCache(full.sublen, full.length)
CacheInv(array, from, start, lmc) ==
    \/ lmc = NoCache
    \/ /\ lmc = [k \in 0 .. Len(array) - start - 1 |-> lmc[k]]
       /\ \A k \in 0 .. Len(array) - start - 1 : EntryOf(array, from, start + k, lmc[k])

\* The same match, as far as anyone looks: the lengths under MIN_MATCH are all
\* no match.
SameMatch(a, b) ==
    \/ a.length < MIN_MATCH /\ b.length < MIN_MATCH
    \/ a.length = b.length /\ a.dist = b.dist
Agreed(found, full) ==
    /\ found.length \in Nat /\ SameMatch(found, full)
    /\ \A k \in MIN_MATCH .. full.length : found.sublen[k] = full.sublen[k]

\* An entry that is there answers with the longest match, unless its pairs do
\* not reach to it.
LEMMA EntryAnswers ==
    ASSUME NEW array \in Seq(Byte), NEW from \in Nat, NEW pos \in from .. Len(array) - 1,
           NEW e, EntryOf(array, from, pos, e)
    PROVE  LET full == Full(array, from, pos)
           IN  \/ e = NoEntry /\ ~ Available(e)
               \/ /\ full.length < MIN_MATCH /\ e.length = 0 /\ Available(e)
                  /\ MaxCachedSublen(e) = 0
               \/ /\ full.length >= MIN_MATCH /\ e.length = full.length /\ e.dist = full.dist
                  /\ Available(e)
                  /\ MaxCachedSublen(e) \in MIN_MATCH .. full.length
                  /\ \A n \in Nat, k \in MIN_MATCH .. MAX_MATCH :
                       n >= MIN_MATCH /\ k <= MaxCachedSublen(e) =>
                         CacheToSublen(e, n)[k] = full.sublen[k]
<1> DEFINE full == Full(array, from, pos)
<1>1. /\ full.length \in Nat /\ full.dist \in Nat /\ full.sublen \in [MIN_MATCH .. MAX_MATCH -> Nat]
      /\ full.length >= MIN_MATCH =>
           full.length <= MAX_MATCH /\ full.dist # 0
      /\ \A k \in MIN_MATCH .. full.length : full.sublen[k] # 0
  BY FullIs
<1>2. \/ e = NoEntry
      \/ full.length < MIN_MATCH /\ e.length = 0 /\ e.sublen = NoEntry.sublen
      \/ /\ full.length >= MIN_MATCH /\ e.length = full.length /\ e.dist = full.dist
         /\ e.sublen = SublenToCache(full.sublen, full.length)
  BY DEF EntryOf
<1> HIDE DEF full
<1>3. 1 \in 1 .. CACHE_LENGTH
  BY Sizes
<1>4. CASE e = NoEntry
  <2>1. ~ Available(e)
    BY <1>4 DEF Available, NoEntry
  <2>2. QED
    BY <1>4, <2>1
<1>5. CASE full.length < MIN_MATCH /\ e.length = 0 /\ e.sublen = NoEntry.sublen
  <2>1. Available(e)
    BY <1>5 DEF Available
  <2>2. NoEntry.sublen[1].dist = 0
    BY <1>3 DEF NoEntry
  <2>3. MaxCachedSublen(e) = 0
    BY <1>5, <2>2 DEF MaxCachedSublen
  <2>4. QED
    BY <1>5, <2>1, <2>3 DEF full
<1>6. CASE /\ full.length >= MIN_MATCH /\ e.length = full.length /\ e.dist = full.dist
           /\ e.sublen = SublenToCache(full.sublen, full.length)
  <2>1. Available(e)
    BY <1>1, <1>6 DEF Available
  <2>2. full.length \in MIN_MATCH .. MAX_MATCH
    BY <1>1, <1>6, Sizes DEF MIN_MATCH
  <2>3. /\ MaxCachedSublen(e) \in MIN_MATCH .. full.length
        /\ \A n \in Nat, k \in MIN_MATCH .. MAX_MATCH :
             n >= MIN_MATCH /\ k <= MaxCachedSublen(e) => CacheToSublen(e, n)[k] = full.sublen[k]
    <3> DEFINE sublen == full.sublen
               length == full.length
    <3>1. /\ sublen \in [MIN_MATCH .. MAX_MATCH -> Nat] /\ length \in MIN_MATCH .. MAX_MATCH
          /\ \A k \in MIN_MATCH .. length : sublen[k] # 0
          /\ e.sublen = SublenToCache(sublen, length)
      BY <1>1, <1>6, <2>2
    <3> HIDE DEF sublen, length
    <3>2. Restores(e, sublen, length)
      BY <3>1, CacheOfSublen
    <3>3. QED
      BY <3>2 DEF Restores, sublen, length
  <2>4. QED
    BY <1>6, <2>1, <2>3 DEF full
<1>7. QED
  BY <1>2, <1>4, <1>5, <1>6

\* The cache answers for a position of the block.
LEMMA EntryIs ==
    ASSUME NEW array, NEW from, NEW start \in Nat, NEW lmc, CacheInv(array, from, start, lmc),
           NEW lmcpos \in 0 .. Len(array) - start - 1
    PROVE  EntryOf(array, from, start + lmcpos, Entry(lmc, lmcpos))
<1>1. CASE lmc = NoCache
  BY <1>1 DEF Entry, EntryOf
<1>2. CASE lmc # NoCache
  BY <1>2 DEF Entry, CacheInv
<1>3. QED
  BY <1>1, <1>2

\* Storing what was found keeps the cache.
LEMMA StoreKeeps ==
    ASSUME NEW array \in Seq(Byte), NEW from \in Nat, NEW start \in Nat, from <= start,
           NEW lmc, CacheInv(array, from, start, lmc),
           NEW lmcpos \in 0 .. Len(array) - start - 1, NEW limit, NEW sub
    PROVE  CacheInv(array, from, start,
                    StoreInLongestMatchCache(lmc, lmcpos, limit, sub, Full(array, from, start + lmcpos)))
<1> DEFINE full == Full(array, from, start + lmcpos)
           short == full.length < MIN_MATCH
           e == lmc[lmcpos]
           entry == [length |-> IF short THEN 0 ELSE full.length, dist |-> IF short THEN 0 ELSE full.dist,
                     sublen |-> IF short THEN e.sublen ELSE SublenToCache(full.sublen, full.length)]
           new == StoreInLongestMatchCache(lmc, lmcpos, limit, sub, full)
           D == 0 .. Len(array) - start - 1
<1>0. full.length \in Nat
  <2>1. start + lmcpos \in from .. Len(array) - 1
    OBVIOUS
  <2>2. QED
    BY <2>1, FullIs
<1>1. CASE lmc = NoCache \/ limit # MAX_MATCH \/ ~ sub \/ Available(e)
  <2>1. new = lmc
    BY <1>1 DEF StoreInLongestMatchCache
  <2>2. QED
    BY <2>1
<1>2. CASE ~ (lmc = NoCache \/ limit # MAX_MATCH \/ ~ sub \/ Available(e))
  <2>1. new = [lmc EXCEPT ![lmcpos] = entry]
    BY <1>2 DEF StoreInLongestMatchCache
  <2>2. lmc = [k \in D |-> lmc[k]] /\ \A k \in D : EntryOf(array, from, start + k, lmc[k])
    BY <1>2 DEF CacheInv
  <2>3. short => e.sublen = NoEntry.sublen
    <3>1. EntryOf(array, from, start + lmcpos, e)
      BY <2>2
    <3>2. ~ (e.length = 0)
      BY <1>2 DEF Available
    <3>3. full.length \in Nat
      BY <1>0
    <3> HIDE DEF full
    <3>4. e = NoEntry \/ e.sublen = NoEntry.sublen \/ full.length >= MIN_MATCH
      BY <3>1, <3>2 DEF EntryOf, full
    <3>5. QED
      BY <3>3, <3>4 DEF MIN_MATCH
  <2>4. EntryOf(array, from, start + lmcpos, entry)
    <3> HIDE DEF full, e
    <3>1. CASE short
      <4>1. entry.length = 0 /\ entry.sublen = NoEntry.sublen
        BY <2>3, <3>1
      <4> HIDE DEF entry
      <4>2. QED
        BY <3>1, <4>1 DEF EntryOf, full
    <3>2. CASE ~ short /\ full.length >= MIN_MATCH
      <4>1. entry.length = full.length /\ entry.dist = full.dist
            /\ entry.sublen = SublenToCache(full.sublen, full.length)
        BY <3>2
      <4> HIDE DEF entry
      <4>2. QED
        BY <3>2, <4>1 DEF EntryOf, full
    <3>3. QED
      BY <1>0, <3>1, <3>2 DEF MIN_MATCH, full
  <2> HIDE DEF entry, new, full
  <2>5. new = [k \in D |-> new[k]]
    BY <2>1, <2>2
  <2>6. \A k \in D : new[k] = IF k = lmcpos THEN entry ELSE lmc[k]
    BY <2>1, <2>2
  <2>7. \A k \in D : EntryOf(array, from, start + k, new[k])
    BY <2>2, <2>4, <2>6
  <2>8. QED
    BY <2>5, <2>7 DEF CacheInv, new, full
<1>3. QED
  BY <1>1, <1>2

\* A search at any length, with the hash of the position.
Search(array, from, pos, lmc, lmcpos, limit, sub) ==
    FindLongestMatch(array, HashBefore(array, from, pos + 1), lmc, lmcpos, pos, Len(array), limit, sub)

\* The search of the forward pass and of the greedy parse: it finds the longest
\* match, with or without a cache, and keeps the cache.
THEOREM LongestFound ==
    ASSUME NEW array \in Seq(Byte), NEW from \in Nat, NEW start \in Nat, from <= start,
           NEW lmc, CacheInv(array, from, start, lmc),
           NEW lmcpos \in 0 .. Len(array) - start - 1
    PROVE  LET result == Search(array, from, start + lmcpos, lmc, lmcpos, MAX_MATCH, TRUE)
           IN  /\ Agreed(result.found, Full(array, from, start + lmcpos))
               /\ CacheInv(array, from, start, result.lmc)
<1> DEFINE pos == start + lmcpos
           full == Full(array, from, pos)
           e == Entry(lmc, lmcpos)
           got == TryGetFromLongestMatchCache(lmc, lmcpos, MAX_MATCH, TRUE)
           most == MinOf(got.limit, Len(array) - pos)
           walk == Walk(array, HashBefore(array, from, pos + 1), pos, Len(array), most)
           result == Search(array, from, pos, lmc, lmcpos, MAX_MATCH, TRUE)
<1>1. pos \in from .. Len(array) - 1 /\ Len(array) \in Nat /\ MAX_MATCH \in Nat /\ MIN_MATCH = 3
      /\ MAX_MATCH > 3
  BY Sizes DEF MIN_MATCH
<1>2. EntryOf(array, from, pos, e)
  BY EntryIs
<1>3. /\ full.length \in Nat
      /\ full.length >= 3 =>
           full.length <= MAX_MATCH /\ pos + full.length <= Len(array)
           /\ full.dist = full.sublen[full.length]
  BY <1>1, FullIs
<1>4. /\ got.hit => result.found = got.found /\ result.lmc = lmc
      /\ ~ got.hit /\ Len(array) - pos < MIN_MATCH => result.found.length = 0 /\ result.lmc = lmc
      /\ ~ got.hit /\ ~ (Len(array) - pos < MIN_MATCH) =>
           /\ result.found = walk
           /\ result.lmc = StoreInLongestMatchCache(lmc, lmcpos, most, TRUE, walk)
  BY DEF Search, FindLongestMatch
<1>5. /\ got.hit <=> Available(e) /\ e.length <= MaxCachedSublen(e)
      /\ got.limit = IF Available(e) THEN e.length ELSE MAX_MATCH
      /\ got.found.length = MinOf(e.length, MAX_MATCH)
      /\ got.found.sublen = CacheToSublen(e, MinOf(e.length, MAX_MATCH))
      /\ got.found.dist = IF MinOf(e.length, MAX_MATCH) < MIN_MATCH THEN 0
                          ELSE CacheToSublen(e, MinOf(e.length, MAX_MATCH))[MinOf(e.length, MAX_MATCH)]
  BY DEF TryGetFromLongestMatchCache
<1>6. full = Walk(array, HashBefore(array, from, pos + 1), pos, Len(array),
                  MinOf(MAX_MATCH, Len(array) - pos))
  BY DEF Full
<1>7. CacheInv(array, from, start, StoreInLongestMatchCache(lmc, lmcpos, most, TRUE, full))
  BY StoreKeeps
<1> HIDE DEF got, result
<1>8. CASE e = NoEntry /\ ~ Available(e)
  <2>1. ~ got.hit /\ got.limit = MAX_MATCH
    BY <1>5, <1>8
  <2>2. CASE Len(array) - pos < MIN_MATCH
    <3>1. result.found.length = 0 /\ result.lmc = lmc
      BY <1>4, <2>1, <2>2
    <3>2. full.length < 3
      BY <1>1, <1>3, <2>2
    <3> HIDE DEF full
    <3>3. Agreed(result.found, full)
      BY <1>1, <1>3, <3>1, <3>2 DEF Agreed, SameMatch
    <3>4. QED
      BY <3>1, <3>3 DEF full, result
  <2>3. CASE ~ (Len(array) - pos < MIN_MATCH)
    <3>1. walk = full
      BY <1>6, <2>1
    <3>2. result.found = full
          /\ result.lmc = StoreInLongestMatchCache(lmc, lmcpos, most, TRUE, full)
      BY <1>4, <2>1, <2>3, <3>1
    <3> HIDE DEF full, most
    <3>3. Agreed(result.found, full)
      BY <1>3, <3>2 DEF Agreed, SameMatch
    <3>4. QED
      BY <1>7, <3>2, <3>3 DEF full, result
  <2>4. QED
    BY <2>2, <2>3
<1>9. CASE full.length < MIN_MATCH /\ e.length = 0 /\ Available(e) /\ MaxCachedSublen(e) = 0
  <2>1. got.hit /\ got.found.length = 0
    <3>1. MinOf(0, MAX_MATCH) = 0
      BY <1>1 DEF MinOf
    <3>2. 0 <= 0
      OBVIOUS
    <3>3. QED
      BY <1>5, <1>9, <3>1, <3>2
  <2>2. result.found.length = 0 /\ result.lmc = lmc
    BY <1>4, <2>1
  <2> HIDE DEF full
  <2>3. Agreed(result.found, full)
    BY <1>1, <1>3, <1>9, <2>2 DEF Agreed, SameMatch
  <2>4. QED
    BY <2>2, <2>3 DEF full, result
<1>10. CASE /\ full.length >= MIN_MATCH /\ e.length = full.length /\ e.dist = full.dist
            /\ Available(e)
            /\ MaxCachedSublen(e) \in MIN_MATCH .. full.length
            /\ \A n \in Nat, k \in MIN_MATCH .. MAX_MATCH :
                 n >= MIN_MATCH /\ k <= MaxCachedSublen(e) =>
                   CacheToSublen(e, n)[k] = full.sublen[k]
  <2>1. CASE e.length <= MaxCachedSublen(e)
    <3> HIDE DEF full, e
    <3>1. got.hit /\ MinOf(e.length, MAX_MATCH) = full.length
      BY <1>1, <1>3, <1>5, <1>10, <2>1 DEF MinOf
    <3>2. MaxCachedSublen(e) = full.length
      BY <1>1, <1>3, <1>10, <2>1
    <3>3. \A k \in MIN_MATCH .. full.length : CacheToSublen(e, full.length)[k] = full.sublen[k]
      BY <1>1, <1>3, <1>10, <3>2
    <3>4. /\ got.found.length = full.length
          /\ got.found.sublen = CacheToSublen(e, full.length)
          /\ got.found.dist = CacheToSublen(e, full.length)[full.length]
      BY <1>1, <1>3, <1>5, <1>10, <3>1
    <3>5. result.found = got.found /\ result.lmc = lmc
      BY <1>4, <3>1
    <3>6. full.length \in MIN_MATCH .. full.length
      BY <1>1, <1>3, <1>10
    <3>7. Agreed(result.found, full)
      BY <1>1, <1>3, <1>10, <3>3, <3>4, <3>5, <3>6 DEF Agreed, SameMatch
    <3>8. QED
      BY <3>5, <3>7 DEF full, result
  <2>2. CASE ~ (e.length <= MaxCachedSublen(e))
    <3>1. ~ got.hit /\ got.limit = full.length
      BY <1>5, <1>10, <2>2
    <3>2. most = full.length /\ ~ (Len(array) - pos < MIN_MATCH)
      <4> DEFINE n == full.length
                 room == Len(array) - pos
      <4>1. n >= 3 /\ n \in Nat /\ got.limit = n
        BY <1>1, <1>3, <1>10, <3>1
      <4>2. pos + n <= Len(array)
        BY <1>3, <4>1
      <4>3. n <= room /\ room \in Nat
        <5> HIDE DEF n, pos
        <5>1. QED
          BY <1>1, <4>1, <4>2
      <4> HIDE DEF n, room
      <4>4. MinOf(n, room) = n /\ ~ (room < 3)
        BY <4>1, <4>3 DEF MinOf
      <4>5. QED
        BY <1>1, <4>1, <4>4 DEF n, room
    <3>3. AtLimit(full.length, walk, full)
      <4> DEFINE n == full.length
      <4>1. n \in Nat /\ n >= MIN_MATCH /\ n <= MAX_MATCH /\ n <= Len(array) - pos
        <5> HIDE DEF full
        <5>1. QED
          BY <1>1, <1>3, <1>10
      <4> HIDE DEF n
      <4>2. AtLimit(n, Walk(array, HashBefore(array, from, pos + 1), pos, Len(array), n),
                    Full(array, from, pos))
        BY <1>1, <4>1, FullAtLimit
      <4>3. n = full.length
        BY DEF n
      <4>4. QED
        BY <3>2, <4>2, <4>3
    <3>4. result.found = walk
          /\ result.lmc = StoreInLongestMatchCache(lmc, lmcpos, most, TRUE, walk)
      BY <1>4, <3>1, <3>2
    <3>5. result.lmc = lmc
      <4>1. lmc = NoCache \/ Available(lmc[lmcpos])
        BY <1>10 DEF Entry
      <4>2. QED
        BY <3>4, <4>1 DEF StoreInLongestMatchCache
    <3> HIDE DEF full, walk
    <3>6. /\ result.found.length = full.length /\ result.found.dist = full.dist
          /\ \A k \in MIN_MATCH .. full.length : result.found.sublen[k] = full.sublen[k]
      BY <1>1, <1>3, <1>10, <3>3, <3>4 DEF AtLimit
    <3>7. Agreed(result.found, full)
      BY <1>3, <3>6 DEF Agreed, SameMatch
    <3>8. QED
      BY <3>5, <3>7 DEF full, result
  <2>3. QED
    BY <2>1, <2>2
<1>11. \/ e = NoEntry /\ ~ Available(e)
       \/ full.length < MIN_MATCH /\ e.length = 0 /\ Available(e) /\ MaxCachedSublen(e) = 0
       \/ /\ full.length >= MIN_MATCH /\ e.length = full.length /\ e.dist = full.dist
          /\ Available(e)
          /\ MaxCachedSublen(e) \in MIN_MATCH .. full.length
          /\ \A n \in Nat, k \in MIN_MATCH .. MAX_MATCH :
               n >= MIN_MATCH /\ k <= MaxCachedSublen(e) =>
                 CacheToSublen(e, n)[k] = full.sublen[k]
  <2> HIDE DEF e, pos
  <2>1. QED
    BY <1>1, <1>2, EntryAnswers
<1>12. QED
  BY <1>8, <1>9, <1>10, <1>11

\* The search of FollowPath: it finds the length it asks for, at the distance of
\* the first search, or the longest match if that is shorter.
THEOREM LengthFound ==
    ASSUME NEW array \in Seq(Byte), NEW from \in Nat, NEW start \in Nat, from <= start,
           NEW lmc, CacheInv(array, from, start, lmc),
           NEW lmcpos \in 0 .. Len(array) - start - 1,
           NEW limit \in MIN_MATCH .. MAX_MATCH
    PROVE  LET full == Full(array, from, start + lmcpos)
               result == Search(array, from, start + lmcpos, lmc, lmcpos, limit, FALSE)
           IN  /\ IF full.length < limit THEN SameMatch(result.found, full)
                  ELSE result.found.length = limit /\ result.found.dist = full.sublen[limit]
               /\ CacheInv(array, from, start, result.lmc)
<1> DEFINE pos == start + lmcpos
           full == Full(array, from, pos)
           e == Entry(lmc, lmcpos)
           got == TryGetFromLongestMatchCache(lmc, lmcpos, limit, FALSE)
           most == MinOf(got.limit, Len(array) - pos)
           walk == Walk(array, HashBefore(array, from, pos + 1), pos, Len(array), most)
           result == Search(array, from, pos, lmc, lmcpos, limit, FALSE)
           Right(found) == IF full.length < limit THEN SameMatch(found, full)
                           ELSE found.length = limit /\ found.dist = full.sublen[limit]
<1>1. pos \in from .. Len(array) - 1 /\ Len(array) \in Nat /\ MAX_MATCH \in Nat /\ MIN_MATCH = 3
      /\ MAX_MATCH > 3 /\ limit \in Nat /\ limit >= 3 /\ limit <= MAX_MATCH /\ pos \in Nat
  BY Sizes DEF MIN_MATCH
<1>2. EntryOf(array, from, pos, e)
  BY EntryIs
<1>3. /\ full.length \in Nat
      /\ full.length >= 3 =>
           full.length <= MAX_MATCH /\ pos + full.length <= Len(array)
           /\ full.dist = full.sublen[full.length]
  BY <1>1, FullIs
<1>4. /\ got.hit => result.found = got.found /\ result.lmc = lmc
      /\ ~ got.hit /\ Len(array) - pos < MIN_MATCH => result.found.length = 0 /\ result.lmc = lmc
      /\ ~ got.hit /\ ~ (Len(array) - pos < MIN_MATCH) =>
           /\ result.found = walk
           /\ result.lmc = StoreInLongestMatchCache(lmc, lmcpos, most, FALSE, walk)
  BY DEF Search, FindLongestMatch
<1>5. /\ got.hit <=> Available(e) /\ (limit = MAX_MATCH \/ e.length <= limit)
      /\ ~ got.hit => got.limit = limit
      /\ got.found.length = MinOf(e.length, limit)
      /\ got.found.dist = e.dist
  <2> DEFINE sub == FALSE
             ok == /\ Available(e)
                   /\ \/ limit = MAX_MATCH \/ e.length <= limit
                      \/ sub /\ MaxCachedSublen(e) >= limit
  <2>1. /\ got.hit <=> ok /\ (~ sub \/ e.length <= MaxCachedSublen(e))
        /\ got.limit = IF ok THEN e.length ELSE limit
        /\ got.found.length = MinOf(e.length, limit)
        /\ got.found.dist = IF ~ sub THEN e.dist
                            ELSE IF MinOf(e.length, limit) < MIN_MATCH THEN 0
                            ELSE CacheToSublen(e, MinOf(e.length, limit))[MinOf(e.length, limit)]
    BY DEF TryGetFromLongestMatchCache
  <2>2. ok <=> Available(e) /\ (limit = MAX_MATCH \/ e.length <= limit)
    OBVIOUS
  <2> HIDE DEF got, e, ok
  <2>3. QED
    BY <2>1, <2>2
<1>6. full = Walk(array, HashBefore(array, from, pos + 1), pos, Len(array),
                  MinOf(MAX_MATCH, Len(array) - pos))
  BY DEF Full
<1>7. StoreInLongestMatchCache(lmc, lmcpos, most, FALSE, walk) = lmc
  BY DEF StoreInLongestMatchCache
<1> HIDE DEF got, result
<1>8. CASE ~ got.hit
  <2>1. result.lmc = lmc
    BY <1>4, <1>7, <1>8
  <2>2. CASE Len(array) - pos < MIN_MATCH
    <3>1. result.found.length = 0
      BY <1>4, <1>8, <2>2
    <3> HIDE DEF full
    <3>2. full.length < 3 /\ full.length < limit
      BY <1>1, <1>3, <2>2
    <3>3. Right(result.found)
      BY <1>1, <3>1, <3>2 DEF SameMatch
    <3>4. QED
      BY <2>1, <3>3 DEF full, result
  <2>3. CASE ~ (Len(array) - pos < MIN_MATCH) /\ limit <= Len(array) - pos
    <3>1. most = limit
      BY <1>1, <1>5, <1>8, <2>3 DEF MinOf
    <3>2. AtLimit(limit, walk, full)
      <4>1. AtLimit(limit, Walk(array, HashBefore(array, from, pos + 1), pos, Len(array), limit),
                    Full(array, from, pos))
        BY <1>1, <2>3, FullAtLimit
      <4>2. QED
        BY <3>1, <4>1
    <3>3. result.found = walk
      BY <1>4, <1>8, <2>3
    <3> HIDE DEF full, walk
    <3>4. Right(result.found)
      BY <3>2, <3>3 DEF AtLimit, SameMatch
    <3>5. QED
      BY <2>1, <3>4 DEF full, result
  <2>4. CASE ~ (Len(array) - pos < MIN_MATCH) /\ ~ (limit <= Len(array) - pos)
    <3>1. most = Len(array) - pos /\ MinOf(MAX_MATCH, Len(array) - pos) = Len(array) - pos
      BY <1>1, <1>5, <1>8, <2>4 DEF MinOf
    <3>2. walk = full
      BY <1>6, <3>1
    <3>3. result.found = full
      BY <1>4, <1>8, <2>4, <3>2
    <3> HIDE DEF full, walk
    <3>4. full.length < limit
      <4> DEFINE n == full.length
      <4>1. n \in Nat /\ (n >= 3 => pos + n <= Len(array))
        BY <1>3
      <4> HIDE DEF n, pos
      <4>2. n < limit
        BY <1>1, <2>4, <4>1
      <4>3. QED
        BY <4>2 DEF n
    <3>5. Right(result.found)
      BY <3>3, <3>4 DEF SameMatch
    <3>6. QED
      BY <2>1, <3>5 DEF full, result
  <2>5. QED
    BY <2>2, <2>3, <2>4
<1>9. CASE got.hit /\ full.length < MIN_MATCH /\ e.length = 0
  <2>1. result.found = got.found /\ result.lmc = lmc
    BY <1>4, <1>9
  <2> HIDE DEF full
  <2>2. result.found.length = 0
    <3>1. MinOf(0, limit) = 0
      BY <1>1 DEF MinOf
    <3>2. QED
      BY <1>5, <1>9, <2>1, <3>1
  <2>3. Right(result.found)
    BY <1>1, <1>3, <1>9, <2>2 DEF SameMatch
  <2>4. QED
    BY <2>1, <2>3 DEF full, result
<1>10. CASE got.hit /\ full.length >= MIN_MATCH /\ e.length = full.length /\ e.dist = full.dist
  <2>1. result.found = got.found /\ result.lmc = lmc
    BY <1>4, <1>10
  <2> HIDE DEF full, e
  <2>2. full.length <= limit
    BY <1>1, <1>3, <1>5, <1>10
  <2>3. result.found.length = full.length /\ result.found.dist = full.dist
    BY <1>1, <1>3, <1>5, <1>10, <2>1, <2>2 DEF MinOf
  <2>4. Right(result.found)
    BY <1>1, <1>3, <1>10, <2>2, <2>3 DEF SameMatch
  <2>5. QED
    BY <2>1, <2>4 DEF full, result
<1>11. got.hit =>
         \/ full.length < MIN_MATCH /\ e.length = 0
         \/ full.length >= MIN_MATCH /\ e.length = full.length /\ e.dist = full.dist
  <2>1. \/ e = NoEntry /\ ~ Available(e)
        \/ full.length < MIN_MATCH /\ e.length = 0
        \/ full.length >= MIN_MATCH /\ e.length = full.length /\ e.dist = full.dist
    BY <1>1, <1>2, EntryAnswers
  <2>2. QED
    BY <1>5, <2>1
<1>12. QED
  BY <1>8, <1>9, <1>10, <1>11
=============================================================================
