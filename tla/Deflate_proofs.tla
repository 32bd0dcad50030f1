----------------------------- MODULE Deflate_proofs -----------------------------
(***************************************************************************)
(* The cumulative histograms of a store count what the commands are, and   *)
(* splitting gives blocks that have commands and comes to an end, whatever *)
(* the parses find and whatever a block costs.  The pool of the boundary   *)
(* package-merge algorithm suffices, and its garbage collection keeps the  *)
(* chains, for any histogram and limit.  The facts about numbers and       *)
(* recursion are those of Match_proofs.                                    *)
(***************************************************************************)
EXTENDS Deflate, Codes, Match_proofs, SequenceTheorems

-----------------------------------------------------------------------------
(* Counting. *)

\* Tabulated changes nothing.
LEMMA TabulatedSame == \A f : Tabulated(f) = f
BY DEF Tabulated

\* How many of P are from a to b.
CountIn(P, a, b) == Cardinality(P \cap (a .. b))

\* Those up to b are those up to a and those after.
LEMMA CountsAdd ==
    ASSUME NEW P, NEW a \in Nat, NEW b \in Nat, a <= b
    PROVE  /\ CountIn(P, 1, a) \in Nat /\ CountIn(P, 1, b) \in Nat
           /\ CountIn(P, a + 1, b) \in Nat
           /\ CountIn(P, 1, b) = CountIn(P, 1, a) + CountIn(P, a + 1, b)
<1> DEFINE A == P \cap (1 .. a)
           B == P \cap (a + 1 .. b)
           C == P \cap (1 .. b)
<1>1. IsFiniteSet(1 .. b)
  BY FS_Interval
<1>2. A \subseteq 1 .. b /\ B \subseteq 1 .. b /\ C \subseteq 1 .. b
  OBVIOUS
<1>3. A \cup B = C /\ A \cap B = {}
  OBVIOUS
<1> HIDE DEF A, B, C
<1>4. IsFiniteSet(A) /\ IsFiniteSet(B) /\ IsFiniteSet(C)
  BY <1>1, <1>2, FS_Subset
<1>5. Cardinality(A) \in Nat /\ Cardinality(B) \in Nat /\ Cardinality(C) \in Nat
  BY <1>4, FS_CardinalityType
<1>6. Cardinality(C) = Cardinality(A) + Cardinality(B)
  <2>1. Cardinality(A \cup B) = Cardinality(A) + Cardinality(B) - Cardinality(A \cap B)
    BY <1>4, FS_Union
  <2>2. Cardinality(A \cap B) = 0
    BY <1>3, FS_EmptySet
  <2>3. Cardinality(C) = Cardinality(A) + Cardinality(B) - 0
    BY <1>3, <2>1, <2>2, Zenon
  <2>4. QED
    BY <1>5, <2>3
<1>7. QED
  BY <1>5, <1>6 DEF A, B, C, CountIn

\* The histograms h of the chunks of n commands, where places[s] are those of
\* the commands with symbol s: there are as many as the commands fill, and each
\* counts the commands up to the end of its chunk.
Tallies(h, chunk, symbols, places, n) ==
    /\ h \in Seq([symbols -> Nat])
    /\ n <= Len(h) * chunk /\ Len(h) * chunk < n + chunk
    /\ \A k \in DOMAIN h, s \in symbols :
         h[k][s] = Cardinality(places[s] \cap (1 .. MinOf(n, k * chunk)))

Opened(hists, n, chunk, symbols) ==
    CASE n % chunk # 0 -> hists
      [] n = 0 -> <<[s \in symbols |-> 0]>>
      [] OTHER -> Append(hists, Last(hists))

\* A chunk is opened when the ones there are full, its histogram starts as the
\* one before ends.
LEMMA ChunkOpened ==
    ASSUME NEW h, NEW chunk \in Nat \ {0}, NEW symbols, NEW places, NEW n \in Nat,
           \A s \in symbols : places[s] \subseteq 1 .. n,
           Tallies(h, chunk, symbols, places, n)
    PROVE  /\ Tallies(Opened(h, n, chunk, symbols), chunk, symbols, places, n + 1)
           /\ Len(Opened(h, n, chunk, symbols)) > 0
<1> DEFINE H == [symbols -> Nat]
           L == Len(h)
           o == Opened(h, n, chunk, symbols)
<1>1. h \in Seq(H) /\ L \in Nat /\ DOMAIN h = 1 .. L
      /\ n <= L * chunk /\ L * chunk < n + chunk
  BY DEF Tallies
<1>2. \A m \in Nat, s \in symbols : m >= n => places[s] \cap (1 .. m) = places[s] \cap (1 .. n)
  OBVIOUS
<1>3. ASSUME NEW k \in DOMAIN h, NEW s \in symbols
      PROVE  h[k][s] = Cardinality(places[s] \cap (1 .. MinOf(n + 1, k * chunk)))
  <2>1. k * chunk \in Nat
    BY <1>1
  <2>2. h[k][s] = Cardinality(places[s] \cap (1 .. MinOf(n, k * chunk)))
    BY DEF Tallies
  <2>3. places[s] \cap (1 .. MinOf(n + 1, k * chunk)) = places[s] \cap (1 .. MinOf(n, k * chunk))
    <3>1. CASE k * chunk <= n
      <4>1. MinOf(n + 1, k * chunk) = MinOf(n, k * chunk)
        BY <2>1, <3>1 DEF MinOf
      <4>2. QED
        BY <4>1
    <3>2. CASE ~ (k * chunk <= n)
      <4>1. MinOf(n + 1, k * chunk) = n + 1 /\ MinOf(n, k * chunk) = n
        BY <2>1, <3>2 DEF MinOf
      <4>2. QED
        BY <1>2, <4>1
    <3>3. QED
      BY <3>1, <3>2
  <2>4. QED
    BY <2>2, <2>3
<1>4. n = chunk * (n \div chunk) + (n % chunk) /\ n \div chunk \in Nat
      /\ n % chunk \in 0 .. chunk - 1
  BY Division
<1>5. CASE n % chunk # 0
  <2>1. o = h
    BY <1>5 DEF Opened
  <2>2. n # L * chunk
    <3> SUFFICES ASSUME n = chunk * L PROVE FALSE
      BY <1>1
    <3> DEFINE q == n \div chunk
               r == n % chunk
    <3>1. n = chunk * q + r /\ q \in Nat /\ r \in 1 .. chunk - 1
      BY <1>4, <1>5
    <3> HIDE DEF q, r
    <3>2. chunk * q \in Nat /\ chunk * L \in Nat
      BY <1>1, <3>1
    <3>3. ~ (q < L)
      <4> SUFFICES ASSUME q < L PROVE FALSE
        OBVIOUS
      <4>1. chunk * L >= chunk * q + chunk
        BY <1>1, <3>1, Multiples
      <4>2. QED
        BY <3>1, <3>2, <4>1
    <3>4. ~ (L < q)
      <4> SUFFICES ASSUME L < q PROVE FALSE
        OBVIOUS
      <4>1. chunk * q >= chunk * L + chunk
        BY <1>1, <3>1, Multiples
      <4>2. QED
        BY <3>1, <3>2, <4>1
    <3>5. q = L
      <4> HIDE DEF L
      <4>1. QED
        BY <1>1, <3>1, <3>3, <3>4
    <3>6. QED
      BY <3>1, <3>2, <3>5
  <2>3. n + 1 <= L * chunk /\ L * chunk < n + 1 + chunk
    <3>1. L * chunk \in Nat
      BY <1>1
    <3>2. QED
      BY <1>1, <2>2, <3>1
  <2>4. L > 0
    <3> SUFFICES ASSUME L = 0 PROVE FALSE
      BY <1>1
    <3>1. QED
      BY <2>3
  <2>5. Tallies(h, chunk, symbols, places, n + 1)
    BY <1>1, <1>3, <2>3 DEF Tallies
  <2>6. QED
    BY <2>1, <2>4, <2>5
<1>6. CASE n % chunk = 0 /\ n = 0
  <2> DEFINE z == [s \in symbols |-> 0]
  <2>1. o = <<z>> /\ z \in H
    BY <1>6 DEF Opened
  <2>2. <<z>> \in Seq(H) /\ Len(<<z>>) = 1 /\ DOMAIN <<z>> = 1 .. 1 /\ <<z>>[1] = z
    BY <2>1
  <2>3. ASSUME NEW s \in symbols
        PROVE  Cardinality(places[s] \cap (1 .. MinOf(n + 1, 1 * chunk))) = 0
    <3>1. places[s] = {}
      BY <1>6
    <3>2. places[s] \cap (1 .. MinOf(n + 1, 1 * chunk)) = {}
      BY <3>1
    <3>3. QED
      BY <3>2, FS_EmptySet
  <2>4. Tallies(<<z>>, chunk, symbols, places, n + 1)
    <3>1. \A s \in symbols : z[s] = 0
      OBVIOUS
    <3> HIDE DEF z
    <3>2. n + 1 <= 1 * chunk /\ 1 * chunk < n + 1 + chunk
      BY <1>6
    <3>3. ASSUME NEW k \in DOMAIN <<z>>, NEW s \in symbols
          PROVE  <<z>>[k][s] = Cardinality(places[s] \cap (1 .. MinOf(n + 1, k * chunk)))
      <4>1. k = 1 /\ <<z>>[k][s] = 0
        BY <2>2, <3>1
      <4>2. QED
        BY <2>3, <4>1
    <3>4. QED
      BY <2>2, <3>2, <3>3 DEF Tallies
  <2>5. QED
    BY <2>1, <2>2, <2>4
<1>7. CASE n % chunk = 0 /\ n # 0
  <2> DEFINE q == n \div chunk
  <2>1. n = chunk * q /\ q \in Nat
    BY <1>4, <1>7
  <2> HIDE DEF q
  <2>2. n = L * chunk
    <3>1. chunk * L \in Nat /\ chunk * q \in Nat /\ L * chunk = chunk * L
      BY <1>1, <2>1
    <3>2. ~ (q < L)
      <4> SUFFICES ASSUME q < L PROVE FALSE
        OBVIOUS
      <4>1. chunk * L >= chunk * q + chunk
        BY <1>1, <2>1, Multiples
      <4>2. QED
        BY <1>1, <2>1, <3>1, <4>1
    <3>3. ~ (L < q)
      <4> SUFFICES ASSUME L < q PROVE FALSE
        OBVIOUS
      <4>1. chunk * q >= chunk * L + chunk
        BY <1>1, <2>1, Multiples
      <4>2. QED
        BY <1>1, <2>1, <3>1, <4>1
    <3>4. q = L
      <4> HIDE DEF L
      <4>1. QED
        BY <1>1, <2>1, <3>2, <3>3
    <3>5. QED
      BY <2>1, <3>1, <3>4
  <2>3. L > 0
    BY <1>1, <1>7, <2>2
  <2>4. Last(h) = h[L] /\ h[L] \in H
    BY <1>1, <2>3 DEF Last
  <2>5. o = Append(h, h[L])
    BY <1>7, <2>4 DEF Opened
  <2>6. /\ o \in Seq(H) /\ Len(o) = L + 1 /\ DOMAIN o = 1 .. L + 1
        /\ \A k \in 1 .. L : o[k] = h[k]
        /\ o[L + 1] = h[L]
    <3> HIDE DEF H, L, o
    <3>1. Len(h) = L
      BY DEF L
    <3>2. QED
      BY <1>1, <2>4, <2>5, <3>1
  <2>7. n + 1 <= (L + 1) * chunk /\ (L + 1) * chunk < n + 1 + chunk
    <3>1. (L + 1) * chunk = n + chunk
      BY <1>1, <2>2
    <3>2. QED
      BY <3>1
  <2>8. ASSUME NEW k \in DOMAIN o, NEW s \in symbols
        PROVE  o[k][s] = Cardinality(places[s] \cap (1 .. MinOf(n + 1, k * chunk)))
    <3>1. CASE k \in 1 .. L
      BY <1>1, <1>3, <2>6, <3>1
    <3>2. CASE k \notin 1 .. L
      <4>1. k = L + 1
        BY <1>1, <2>6, <3>2
      <4>2. o[k][s] = h[L][s]
        BY <2>6, <4>1
      <4>3. h[L][s] = Cardinality(places[s] \cap (1 .. MinOf(n, L * chunk)))
        BY <1>1, <2>3, SMTT(30) DEF Tallies
      <4>4. MinOf(n, L * chunk) = n
        BY <2>2 DEF MinOf
      <4>5. MinOf(n + 1, k * chunk) = n + 1
        <5>1. k * chunk = n + chunk
          BY <1>1, <2>2, <4>1
        <5>2. QED
          BY <5>1 DEF MinOf
      <4>6. places[s] \cap (1 .. n + 1) = places[s] \cap (1 .. n)
        BY <1>2
      <4>7. QED
        BY <4>2, <4>3, <4>4, <4>5, <4>6
    <3>3. QED
      BY <3>1, <3>2
  <2>9. Tallies(o, chunk, symbols, places, n + 1)
    <3> HIDE DEF o
    <3>1. QED
      BY <2>6, <2>7, <2>8 DEF Tallies
  <2>10. Len(o) > 0
    BY <1>1, <2>6
  <2>11. QED
    BY <2>9, <2>10
<1>8. QED
  BY <1>5, <1>6, <1>7

\* The places of the symbols, with a command more that has symbol s.
PlacedIn(symbols, places, m, s) ==
    [t \in symbols |-> IF t = s THEN places[t] \cup {m} ELSE places[t]]

\* The symbol of the last command is counted in the last chunk.
LEMMA SymbolCounted ==
    ASSUME NEW h, NEW chunk \in Nat \ {0}, NEW symbols, NEW places, NEW n \in Nat, NEW s,
           \A t \in symbols : places[t] \subseteq 1 .. n,
           Tallies(h, chunk, symbols, places, n + 1), Len(h) > 0
    PROVE  Tallies([h EXCEPT ![Len(h)][s] = @ + 1], chunk, symbols,
                   PlacedIn(symbols, places, n + 1, s), n + 1)
<1> DEFINE H == [symbols -> Nat]
           L == Len(h)
           g == [h EXCEPT ![L][s] = @ + 1]
           new == PlacedIn(symbols, places, n + 1, s)
<1>1. h \in Seq(H) /\ L \in Nat \ {0} /\ DOMAIN h = 1 .. L
      /\ n + 1 <= L * chunk /\ L * chunk < (n + 1) + chunk
  BY DEF Tallies
<1>2. /\ g = [k \in 1 .. L |-> IF k = L THEN [h[L] EXCEPT ![s] = @ + 1] ELSE h[k]]
      /\ h[L] \in H
  <2> HIDE DEF L, H
  <2>1. h = [k \in 1 .. L |-> h[k]] /\ h[L] \in H
    BY <1>1
  <2>2. QED
    BY <1>1, <2>1
<1>3. [h[L] EXCEPT ![s] = @ + 1] = [t \in symbols |-> IF t = s THEN h[L][t] + 1 ELSE h[L][t]]
  BY <1>2
<1>4. g \in Seq(H) /\ Len(g) = L /\ DOMAIN g = 1 .. L
  <2>1. [h[L] EXCEPT ![s] = @ + 1] \in H
    <3>1. \A t \in symbols : h[L][t] \in Nat
      BY <1>2
    <3>2. [t \in symbols |-> IF t = s THEN h[L][t] + 1 ELSE h[L][t]] \in H
      BY <3>1
    <3>3. QED
      BY <1>3, <3>2
  <2>2. \A k \in 1 .. L : g[k] \in H
    BY <1>1, <1>2, <2>1
  <2>3. DOMAIN g = 1 .. L /\ g = [k \in 1 .. L |-> g[k]]
    BY <1>2
  <2> HIDE DEF g, H
  <2>4. g \in Seq(H)
    BY <1>1, <2>2, <2>3
  <2>5. QED
    BY <1>1, <2>3, <2>4
<1>5. ASSUME NEW k \in DOMAIN g, NEW t \in symbols
      PROVE  g[k][t] = Cardinality(new[t] \cap (1 .. MinOf(n + 1, k * chunk)))
  <2>1. k \in 1 .. L /\ k * chunk \in Nat
    BY <1>1, <1>4
  <2>2. h[k][t] = Cardinality(places[t] \cap (1 .. MinOf(n + 1, k * chunk)))
    BY <1>1, <2>1 DEF Tallies
  <2>3. CASE k = L
    <3>1. MinOf(n + 1, k * chunk) = n + 1
      BY <1>1, <2>1, <2>3 DEF MinOf
    <3>2. CASE t = s
      <4>1. g[k][t] = h[L][t] + 1
        BY <1>2, <1>3, <2>1, <2>3, <3>2
      <4>2. new[t] \cap (1 .. n + 1) = places[t] \cup {n + 1}
        BY <3>2 DEF PlacedIn
      <4>3. places[t] \cap (1 .. n + 1) = places[t] /\ n + 1 \notin places[t]
        OBVIOUS
      <4>4. IsFiniteSet(places[t])
        <5>1. IsFiniteSet(1 .. n)
          BY FS_Interval
        <5>2. QED
          BY <5>1, FS_Subset
      <4>5. Cardinality(places[t] \cup {n + 1}) = Cardinality(places[t]) + 1
        BY <4>3, <4>4, FS_AddElement
      <4>6. QED
        BY <2>2, <2>3, <3>1, <4>1, <4>2, <4>3, <4>5
    <3>3. CASE t # s
      <4>1. g[k][t] = h[k][t]
        BY <1>2, <1>3, <2>1, <2>3, <3>3
      <4>2. new[t] = places[t]
        BY <3>3 DEF PlacedIn
      <4>3. QED
        BY <2>2, <4>1, <4>2
    <3>4. QED
      BY <3>2, <3>3
  <2>4. CASE k # L
    <3>1. g[k] = h[k]
      BY <1>2, <2>1, <2>4
    <3>2. k * chunk <= n
      <4>1. chunk * L >= chunk * k + chunk
        <5>1. k \in Nat /\ L \in Nat /\ k < L
          BY <1>1, <2>1, <2>4
        <5> HIDE DEF L
        <5>2. QED
          BY <5>1, Multiples
      <4>2. chunk * L = L * chunk /\ chunk * k = k * chunk /\ L * chunk \in Nat
        BY <1>1, <2>1
      <4>3. QED
        BY <1>1, <2>1, <4>1, <4>2
    <3>3. MinOf(n + 1, k * chunk) = k * chunk
      BY <2>1, <3>2 DEF MinOf
    <3>4. new[t] \cap (1 .. k * chunk) = places[t] \cap (1 .. k * chunk)
      <4>1. n + 1 \notin 1 .. k * chunk
        BY <2>1, <3>2
      <4>2. new[t] = places[t] \/ new[t] = places[t] \cup {n + 1}
        BY DEF PlacedIn
      <4>3. QED
        BY <4>1, <4>2
    <3>5. QED
      BY <2>2, <3>1, <3>3, <3>4
  <2>5. QED
    BY <2>3, <2>4
<1>6. QED
  <2> HIDE DEF g, new
  <2>1. Tallies(g, chunk, symbols, new, n + 1)
    BY <1>1, <1>4, <1>5 DEF Tallies
  <2>2. QED
    BY <2>1 DEF g, new

-----------------------------------------------------------------------------
(* Stores. *)

LLPlaces(c) == [s \in LLSymbols |-> {i \in 1 .. Len(c) : LLSymbol(c[i]) = s}]
DPlaces(c) ==
    [s \in DSymbols |-> {i \in 1 .. Len(c) : c[i].dist # 0 /\ DistSymbol(c[i].dist) = s}]

\* The stores with commands out of C.  The histograms of a store are cumulative
\* if they tally its commands.
Stores(C) == [commands : Seq(C), ll : Seq([LLSymbols -> Nat]), d : Seq([DSymbols -> Nat])]
Cumulative(st) ==
    /\ Tallies(st.ll, ChunkLL, LLSymbols, LLPlaces(st.commands), Len(st.commands))
    /\ Tallies(st.d, ChunkD, DSymbols, DPlaces(st.commands), Len(st.commands))

\* The chunks have commands.
LEMMA Chunks == ChunkLL \in Nat \ {0} /\ ChunkD \in Nat \ {0}
BY StoreAssumption

\* No histograms are those of no commands.
LEMMA EmptyCumulative == \A C : EmptyStore \in Stores(C) /\ Cumulative(EmptyStore)
<1>1. \A chunk \in Nat \ {0} : \A symbols, places : Tallies(<<>>, chunk, symbols, places, 0)
  BY DEF Tallies
<1>2. QED
  BY <1>1, Chunks DEF EmptyStore, Stores, Cumulative

\* A command goes to the end of the store and is counted.
LEMMA StoreCounts ==
    ASSUME NEW C, NEW c \in C, NEW st \in Stores(C), Cumulative(st)
    PROVE  /\ ZopfliStoreLitLenDist(c, st) \in Stores(C)
           /\ Cumulative(ZopfliStoreLitLenDist(c, st))
           /\ ZopfliStoreLitLenDist(c, st).commands = Append(st.commands, c)
<1> DEFINE cs == st.commands
           n == Len(cs)
           new == Append(cs, c)
           lo == Opened(st.ll, n, ChunkLL, LLSymbols)
           do == Opened(st.d, n, ChunkD, DSymbols)
           ls == LLSymbol(c)
           ds == DistSymbol(c.dist)
           ln == [lo EXCEPT ![Len(lo)][ls] = @ + 1]
           dn == IF c.dist = 0 THEN do ELSE [do EXCEPT ![Len(do)][ds] = @ + 1]
           r == [commands |-> new, ll |-> ln, d |-> dn]
<1>1. ZopfliStoreLitLenDist(c, st) = r
  BY DEF ZopfliStoreLitLenDist, Opened
<1>2. /\ cs \in Seq(C) /\ n \in Nat /\ new \in Seq(C) /\ Len(new) = n + 1
      /\ new[n + 1] = c /\ \A i \in 1 .. n : new[i] = cs[i]
  BY DEF Stores
<1>3. /\ \A s \in LLSymbols : LLPlaces(cs)[s] \subseteq 1 .. n
      /\ \A s \in DSymbols : DPlaces(cs)[s] \subseteq 1 .. n
  BY DEF LLPlaces, DPlaces
<1>4. LLPlaces(new) = PlacedIn(LLSymbols, LLPlaces(cs), n + 1, ls)
  <2> HIDE DEF cs, n, new, ls
  <2>1. ls = LLSymbol(c) /\ Len(cs) = n
    BY DEF ls, n
  <2>2. ASSUME NEW s \in LLSymbols
        PROVE  {i \in 1 .. Len(new) : LLSymbol(new[i]) = s}
                 = IF s = ls THEN {i \in 1 .. n : LLSymbol(cs[i]) = s} \cup {n + 1}
                   ELSE {i \in 1 .. n : LLSymbol(cs[i]) = s}
    BY <1>2, <2>1
  <2>3. QED
    BY <2>1, <2>2 DEF LLPlaces, PlacedIn
<1>5. DPlaces(new) = IF c.dist = 0 THEN DPlaces(cs)
                     ELSE PlacedIn(DSymbols, DPlaces(cs), n + 1, ds)
  <2> HIDE DEF cs, n, new, ds
  <2>1. ds = DistSymbol(c.dist) /\ Len(cs) = n
    BY DEF ds, n
  <2> DEFINE Has(q, i, s) == q[i].dist # 0 /\ DistSymbol(q[i].dist) = s
  <2>2. \A s : /\ \A i \in 1 .. n : Has(new, i, s) <=> Has(cs, i, s)
               /\ Has(new, n + 1, s) <=> c.dist # 0 /\ ds = s
    BY <1>2, <2>1
  <2> HIDE DEF Has
  <2>3. ASSUME NEW s \in DSymbols
        PROVE  {i \in 1 .. Len(new) : Has(new, i, s)}
                 = IF c.dist # 0 /\ s = ds THEN {i \in 1 .. n : Has(cs, i, s)} \cup {n + 1}
                   ELSE {i \in 1 .. n : Has(cs, i, s)}
    <3>1. 1 .. Len(new) = (1 .. n) \cup {n + 1}
      BY <1>2
    <3>2. \A i \in 1 .. n : Has(new, i, s) <=> Has(cs, i, s)
      BY <2>2
    <3>3. Has(new, n + 1, s) <=> c.dist # 0 /\ ds = s
      BY <2>2
    <3>4. QED
      BY <3>1, <3>2, <3>3
  <2>4. /\ DPlaces(new) = [s \in DSymbols |-> {i \in 1 .. Len(new) : Has(new, i, s)}]
        /\ DPlaces(cs) = [s \in DSymbols |-> {i \in 1 .. n : Has(cs, i, s)}]
    BY <2>1 DEF DPlaces, Has
  <2>5. QED
    BY <2>3, <2>4 DEF PlacedIn
<1>6. /\ Tallies(lo, ChunkLL, LLSymbols, LLPlaces(cs), n + 1) /\ Len(lo) > 0
      /\ Tallies(do, ChunkD, DSymbols, DPlaces(cs), n + 1) /\ Len(do) > 0
  <2>1. /\ Tallies(st.ll, ChunkLL, LLSymbols, LLPlaces(cs), n)
        /\ Tallies(st.d, ChunkD, DSymbols, DPlaces(cs), n)
    BY DEF Cumulative
  <2> HIDE DEF cs, n
  <2>2. QED
    BY <1>2, <1>3, <2>1, Chunks, ChunkOpened
<1>7. Tallies(ln, ChunkLL, LLSymbols, LLPlaces(new), n + 1)
  <2> HIDE DEF cs, n, lo, new, ls
  <2>1. Tallies([lo EXCEPT ![Len(lo)][ls] = @ + 1], ChunkLL, LLSymbols,
                PlacedIn(LLSymbols, LLPlaces(cs), n + 1, ls), n + 1)
    BY <1>2, <1>3, <1>6, Chunks, SymbolCounted
  <2>2. QED
    BY <1>4, <2>1
<1>8. Tallies(dn, ChunkD, DSymbols, DPlaces(new), n + 1)
  <2> HIDE DEF cs, n, do, new, ds
  <2>1. CASE c.dist = 0
    BY <1>5, <1>6, <2>1
  <2>2. CASE c.dist # 0
    <3>1. Tallies([do EXCEPT ![Len(do)][ds] = @ + 1], ChunkD, DSymbols,
                  PlacedIn(DSymbols, DPlaces(cs), n + 1, ds), n + 1)
      BY <1>2, <1>3, <1>6, Chunks, SymbolCounted
    <3>2. QED
      BY <1>5, <2>2, <3>1
  <2>3. QED
    BY <2>1, <2>2
<1>9. ln \in Seq([LLSymbols -> Nat]) /\ dn \in Seq([DSymbols -> Nat])
  <2> HIDE DEF ln, dn
  <2>1. QED
    BY <1>7, <1>8 DEF Tallies
<1>10. QED
  <2> HIDE DEF n, new, ln, dn
  <2>1. r \in Stores(C) /\ Cumulative(r) /\ r.commands = new
    BY <1>2, <1>7, <1>8, <1>9 DEF Stores, Cumulative
  <2>2. QED
    BY <1>1, <2>1 DEF new

\* The commands of one store go to the end of another one, and are counted.
Follow(st, target, commands, n) ==
    /\ Len(st.commands) = Len(target.commands) + n
    /\ \A i \in 1 .. Len(target.commands) : st.commands[i] = target.commands[i]
    /\ \A i \in 1 .. n : st.commands[Len(target.commands) + i] = commands[i]

LEMMA AppendCounts ==
    ASSUME NEW C, NEW store, NEW target \in Stores(C), Cumulative(target),
           \A n \in Nat : store.commands[n] \in C, Len(store.commands) \in Nat
    PROVE  /\ ZopfliAppendLZ77Store(store, target) \in Stores(C)
           /\ Cumulative(ZopfliAppendLZ77Store(store, target))
           /\ Follow(ZopfliAppendLZ77Store(store, target), target, store.commands,
                     Len(store.commands))
<1> DEFINE S == {st \in Stores(C) : Cumulative(st)}
           Step(n, st) == ZopfliStoreLitLenDist(store.commands[n], st)
           step == [q \in Nat \X S |-> Step(q[1], q[2])]
           g == CHOOSE a : a = [n \in Nat |-> IF n = 0 THEN target ELSE Step(n, a[n - 1])]
           q == Len(target.commands)
<1>1. ASSUME NEW n \in Nat, NEW st \in S
      PROVE  Step(n, st) \in S /\ Step(n, st).commands = Append(st.commands, store.commands[n])
  <2>1. store.commands[n] \in C /\ st \in Stores(C) /\ Cumulative(st)
    OBVIOUS
  <2>2. QED
    BY <2>1, StoreCounts
<1>2. target \in S
  OBVIOUS
<1>3. ZopfliAppendLZ77Store(store, target) = g[Len(store.commands)]
  BY DEF ZopfliAppendLZ77Store
<1> HIDE DEF Step
<1>4. \A n \in Nat, st \in S : step[<<n, st>>] = Step(n, st)
  <2> HIDE DEF S
  <2>1. QED
    OBVIOUS
<1>5. \A st \in S : st.commands \in Seq(C)
  BY DEF Stores
<1> HIDE DEF step, S
<1>6. PICK f : Follows(f, S, target, step)
  <2>1. Maps(S, step)
    BY <1>1, <1>4 DEF Maps
  <2>2. QED
    BY <1>2, <2>1, Recursion
<1>7. f = [n \in Nat |-> IF n = 0 THEN target ELSE Step(n, f[n - 1])]
  <2>1. ASSUME NEW n \in Nat PROVE f[n] = IF n = 0 THEN target ELSE Step(n, f[n - 1])
    <3>1. CASE n = 0
      BY <1>6, <3>1 DEF Follows
    <3>2. CASE n # 0
      <4>1. n - 1 \in Nat /\ f[n - 1] \in S /\ f[n] = step[<<n, f[n - 1]>>]
        BY <1>6, <3>2 DEF Follows
      <4>2. QED
        BY <1>4, <3>2, <4>1
    <3>3. QED
      BY <3>1, <3>2
  <2>2. f = [n \in Nat |-> f[n]]
    BY <1>6 DEF Follows
  <2>3. QED
    BY <2>1, <2>2
<1>8. g = [n \in Nat |-> IF n = 0 THEN target ELSE Step(n, g[n - 1])]
  BY <1>7
<1> HIDE DEF g
<1>9. \A n \in Nat : g[0] = target /\ g[n + 1] = Step(n + 1, g[n])
  <2> SUFFICES ASSUME NEW n \in Nat PROVE g[0] = target /\ g[n + 1] = Step(n + 1, g[n])
    OBVIOUS
  <2>1. n + 1 \in Nat /\ n + 1 # 0 /\ (n + 1) - 1 = n
    OBVIOUS
  <2>2. g[n + 1] = Step(n + 1, g[(n + 1) - 1])
    BY <1>8, <2>1
  <2>3. QED
    BY <1>8, <2>1, <2>2
<1> DEFINE R == {n \in Nat : g[n] \in S /\ Follow(g[n], target, store.commands, n)}
<1>10. \A n \in Nat : n >= 0 => n \in R
  <2>1. 0 \in R
    <3>1. target.commands \in Seq(C)
      BY <1>2, <1>5
    <3>2. g[0] = target /\ Follow(target, target, store.commands, 0)
      BY <1>9, <3>1 DEF Follow
    <3>3. QED
      BY <1>2, <3>2
  <2>2. ASSUME NEW n \in Nat, n \in R PROVE n + 1 \in R
    <3> DEFINE st == g[n]
               cs == st.commands
    <3>1. st \in S /\ Follow(st, target, store.commands, n) /\ cs \in Seq(C) /\ q \in Nat
      BY <1>2, <1>5, <2>2
    <3>2. /\ g[n + 1] \in S
          /\ g[n + 1].commands = Append(cs, store.commands[n + 1])
      <4>1. n + 1 \in Nat /\ g[n + 1] = Step(n + 1, st)
        BY <1>9, SMTT(30)
      <4> HIDE DEF st
      <4>2. QED
        BY <1>1, <3>1, <4>1
    <3> HIDE DEF st, cs
    <3>3. Len(cs) = q + n
      BY <3>1 DEF Follow, cs
    <3> DEFINE new == Append(cs, store.commands[n + 1])
    <3>4. /\ Len(new) = q + (n + 1)
          /\ new[q + (n + 1)] = store.commands[n + 1]
          /\ \A i \in 1 .. q + n : new[i] = cs[i]
      <4> HIDE DEF q
      <4>1. QED
        BY <3>1, <3>3
    <3>5. \A i \in 1 .. q : cs[i] = target.commands[i]
      BY <3>1 DEF Follow, cs
    <3>6. \A i \in 1 .. n : cs[q + i] = store.commands[i]
      BY <3>1 DEF Follow, cs
    <3> HIDE DEF new
    <3>7. \A i \in 1 .. q : new[i] = target.commands[i]
      <4> HIDE DEF q
      <4>1. \A i \in 1 .. q : i \in 1 .. q + n
        BY <3>1
      <4>2. QED
        BY <3>4, <3>5, <4>1
    <3>8. \A i \in 1 .. n + 1 : new[q + i] = store.commands[i]
      <4> HIDE DEF q
      <4>1. \A i \in 1 .. n : q + i \in 1 .. q + n
        BY <3>1
      <4>2. QED
        BY <3>4, <3>6, <4>1
    <3>9. Follow(g[n + 1], target, store.commands, n + 1)
      BY <3>2, <3>4, <3>7, <3>8 DEF Follow, new, q
    <3>10. QED
      BY <3>2, <3>9
  <2> HIDE DEF R
  <2>3. QED
    BY <2>1, <2>2, Induction
<1>11. QED
  <2>1. \A n \in Nat : g[n] \in S /\ Follow(g[n], target, store.commands, n)
    BY <1>10
  <2>2. QED
    BY <1>3, <2>1 DEF S

\* The store of a sequence of commands has them and counts them.
LEMMA StoredCounts ==
    ASSUME NEW C, NEW commands \in Seq(C)
    PROVE  /\ Stored(commands).commands = commands
           /\ Cumulative(Stored(commands)) /\ \E D : Stored(commands) \in Stores(D)
<1> DEFINE D == C \cup {commands[n] : n \in Nat}
           s == [commands |-> commands]
           r == Stored(commands)
<1>1. EmptyStore \in Stores(D) /\ Cumulative(EmptyStore) /\ EmptyStore.commands = <<>>
  BY EmptyCumulative DEF EmptyStore
<1>2. s.commands = commands /\ \A n \in Nat : s.commands[n] \in D
  OBVIOUS
<1> HIDE DEF s, D
<1>3. r \in Stores(D) /\ Cumulative(r) /\ Follow(r, EmptyStore, commands, Len(commands))
  <2>1. Len(s.commands) \in Nat
    BY <1>2
  <2>2. r = ZopfliAppendLZ77Store(s, EmptyStore)
    BY DEF Stored, s
  <2> HIDE DEF r
  <2>3. QED
    BY <1>1, <1>2, <2>1, <2>2, AppendCounts
<1>4. r.commands = commands
  <2>1. r.commands \in Seq(D)
    BY <1>3 DEF Stores
  <2>2. Len(r.commands) = Len(commands) /\ \A i \in 1 .. Len(commands) : r.commands[i] = commands[i]
    BY <1>1, <1>3 DEF Follow
  <2>3. QED
    BY <2>1, <2>2, SeqEqual
<1>5. QED
  BY <1>3, <1>4

-----------------------------------------------------------------------------
(* The histogram of a range. *)

\* The histogram of the chunk of a place less what is counted after the place.
LessRest(h, places, chunk, s, lpos) ==
    h[lpos \div chunk + 1][s] - CountIn(places[s], lpos + 2, chunk * (lpos \div chunk) + chunk)

\* The histogram of a chunk less what is counted after a place is what is
\* counted up to it.
LEMMA CountedUpTo ==
    ASSUME NEW h, NEW chunk \in Nat \ {0}, NEW symbols, NEW places, NEW n \in Nat,
           NEW s \in symbols, NEW lpos \in 0 .. n - 1, places[s] \subseteq 1 .. n,
           Tallies(h, chunk, symbols, places, n)
    PROVE  LessRest(h, places, chunk, s, lpos) = CountIn(places[s], 1, lpos + 1)
<1> DEFINE q == lpos \div chunk
           r == lpos % chunk
           end == chunk * q + chunk
           P == places[s]
           L == Len(h)
<1>1. lpos = chunk * q + r /\ q \in Nat /\ r \in 0 .. chunk - 1 /\ lpos \in Nat
  <2>1. lpos \in Nat
    OBVIOUS
  <2>2. QED
    BY <2>1, Division
<1>2. L \in Nat /\ DOMAIN h = 1 .. L /\ n <= L * chunk
  BY DEF Tallies
<1> HIDE DEF q, r, L
<1>3. chunk * q \in Nat /\ chunk * L \in Nat /\ chunk * L = L * chunk
  BY <1>1, <1>2
<1>4. end \in Nat /\ lpos + 1 <= end /\ (q + 1) * chunk = end
  BY <1>1, <1>3
<1>5. q + 1 \in DOMAIN h
  <2>1. q < L
    <3> SUFFICES ASSUME ~ (q < L) PROVE FALSE
      OBVIOUS
    <3>1. chunk * q >= chunk * L
      <4>1. CASE q = L
        BY <1>3, <4>1
      <4>2. CASE L < q
        <5>1. chunk * q >= chunk * L + chunk
          BY <1>1, <1>2, <4>2, Multiples
        <5>2. QED
          BY <1>3, <5>1
      <4>3. QED
        BY <1>1, <1>2, <4>1, <4>2
    <3>2. QED
      BY <1>1, <1>2, <1>3, <3>1
  <2>2. QED
    BY <1>1, <1>2, <2>1
<1>6. h[q + 1][s] = CountIn(P, 1, MinOf(n, end))
  BY <1>4, <1>5 DEF Tallies, CountIn
<1>7. CountIn(P, 1, MinOf(n, end)) = CountIn(P, 1, end)
  <2> HIDE DEF P, end
  <2>1. P \subseteq 1 .. n
    BY DEF P
  <2>2. CASE n < end
    <3>1. MinOf(n, end) = n
      BY <2>2 DEF MinOf
    <3>2. P \cap (1 .. n) = P \cap (1 .. end)
      BY <1>4, <2>1, <2>2
    <3>3. QED
      BY <3>1, <3>2 DEF CountIn
  <2>3. CASE ~ (n < end)
    BY <2>3 DEF MinOf
  <2>4. QED
    BY <2>2, <2>3
<1>8. /\ CountIn(P, 1, end) \in Nat /\ CountIn(P, 1, lpos + 1) \in Nat
      /\ CountIn(P, (lpos + 1) + 1, end) \in Nat
      /\ CountIn(P, 1, end) =
           CountIn(P, 1, lpos + 1) + CountIn(P, (lpos + 1) + 1, end)
  <2> HIDE DEF P, end
  <2>1. lpos + 1 \in Nat
    BY <1>1
  <2>2. QED
    BY <1>4, <2>1, CountsAdd
<1>9. (lpos + 1) + 1 = lpos + 2
  BY <1>1
<1>10. h[q + 1][s] - CountIn(P, lpos + 2, end) = CountIn(P, 1, lpos + 1)
  <2> DEFINE a == CountIn(P, 1, end)
             b == CountIn(P, lpos + 2, end)
             c == CountIn(P, 1, lpos + 1)
  <2>1. a \in Nat /\ b \in Nat /\ c \in Nat /\ a = c + b /\ h[q + 1][s] = a
    BY <1>6, <1>7, <1>8, <1>9
  <2> HIDE DEF a, b, c
  <2>2. h[q + 1][s] - b = c
    BY <2>1
  <2>3. QED
    BY <2>2 DEF b, c
<1>12. QED
  BY <1>10 DEF q, LessRest

\* What HistogramAt gives counts the commands up to a place.
LEMMA HistogramAtCounts ==
    ASSUME NEW C, NEW st \in Stores(C), Cumulative(st), NEW lpos \in 0 .. Len(st.commands) - 1
    PROVE  HistogramAt(st, lpos) =
             [ll |-> [s \in LLSymbols |-> CountIn(LLPlaces(st.commands)[s], 1, lpos + 1)],
              d |-> [s \in DSymbols |-> CountIn(DPlaces(st.commands)[s], 1, lpos + 1)]]
<1> DEFINE cs == st.commands
           n == Len(cs)
           End(chunk) == chunk * (lpos \div chunk) + chunk
           After(chunk) == {i \in (lpos + 2) .. (chunk * (lpos \div chunk) + chunk) : i <= n}
<1>1. cs \in Seq(C) /\ n \in Nat
  BY DEF Stores
<1>2. /\ Tallies(st.ll, ChunkLL, LLSymbols, LLPlaces(cs), n)
      /\ Tallies(st.d, ChunkD, DSymbols, DPlaces(cs), n)
  BY DEF Cumulative
<1>3. ASSUME NEW s \in LLSymbols
      PROVE  st.ll[lpos \div ChunkLL + 1][s]
               - Cardinality({i \in After(ChunkLL) : LLSymbol(cs[i]) = s})
               = CountIn(LLPlaces(cs)[s], 1, lpos + 1)
  <2>1. LLPlaces(cs)[s] = {i \in 1 .. n : LLSymbol(cs[i]) = s}
    BY DEF LLPlaces
  <2>2. {i \in After(ChunkLL) : LLSymbol(cs[i]) = s} = LLPlaces(cs)[s] \cap (lpos + 2 .. End(ChunkLL))
    <3> HIDE DEF cs, n
    <3>1. End(ChunkLL) \in Nat
      <4>1. lpos \in Nat
        BY <1>1
      <4>2. lpos \div ChunkLL \in Nat
        BY <4>1, Chunks, Division
      <4>3. QED
        BY <4>2, Chunks
    <3> HIDE DEF End
    <3>2. After(ChunkLL) = {i \in (lpos + 2) .. End(ChunkLL) : i <= n}
      BY DEF End
    <3> HIDE DEF After
    <3>3. QED
      BY <1>1, <2>1, <3>1, <3>2
  <2>3. LLPlaces(cs)[s] \subseteq 1 .. n
    BY <2>1
  <2> HIDE DEF After, cs, n
  <2>4. lpos \in 0 .. n - 1
    BY DEF n, cs
  <2>5. st.ll[lpos \div ChunkLL + 1][s]
          - CountIn(LLPlaces(cs)[s], lpos + 2, ChunkLL * (lpos \div ChunkLL) + ChunkLL)
          = CountIn(LLPlaces(cs)[s], 1, lpos + 1)
    <3> DEFINE P == LLPlaces(cs)
               h == st.ll
    <3>1. P[s] \subseteq 1 .. n /\ Tallies(h, ChunkLL, LLSymbols, P, n) /\ s \in LLSymbols
      BY <1>2, <2>3
    <3>2. ChunkLL \in Nat \ {0} /\ n \in Nat /\ lpos \in 0 .. n - 1
      BY <1>1, <2>4, Chunks
    <3> HIDE DEF P, h
    <3>3. LessRest(h, P, ChunkLL, s, lpos) = CountIn(P[s], 1, lpos + 1)
      BY <3>1, <3>2, CountedUpTo
    <3>4. QED
      BY <3>3 DEF P, h, LessRest
  <2>6. QED
    BY <2>2, <2>5 DEF CountIn, End
<1>4. ASSUME NEW s \in DSymbols
      PROVE  st.d[lpos \div ChunkD + 1][s]
               - Cardinality({i \in After(ChunkD) : cs[i].dist # 0 /\ DistSymbol(cs[i].dist) = s})
               = CountIn(DPlaces(cs)[s], 1, lpos + 1)
  <2>1. DPlaces(cs)[s] = {i \in 1 .. n : cs[i].dist # 0 /\ DistSymbol(cs[i].dist) = s}
    BY DEF DPlaces
  <2>2. {i \in After(ChunkD) : cs[i].dist # 0 /\ DistSymbol(cs[i].dist) = s}
          = DPlaces(cs)[s] \cap (lpos + 2 .. End(ChunkD))
    <3> HIDE DEF cs, n
    <3>1. End(ChunkD) \in Nat
      <4>1. lpos \in Nat
        BY <1>1
      <4>2. lpos \div ChunkD \in Nat
        BY <4>1, Chunks, Division
      <4>3. QED
        BY <4>2, Chunks
    <3> HIDE DEF End
    <3>2. After(ChunkD) = {i \in (lpos + 2) .. End(ChunkD) : i <= n}
      BY DEF End
    <3> HIDE DEF After
    <3>3. QED
      BY <1>1, <2>1, <3>1, <3>2
  <2>3. DPlaces(cs)[s] \subseteq 1 .. n
    BY <2>1
  <2> HIDE DEF After, cs, n
  <2>4. lpos \in 0 .. n - 1
    BY DEF n, cs
  <2>5. st.d[lpos \div ChunkD + 1][s]
          - CountIn(DPlaces(cs)[s], lpos + 2, ChunkD * (lpos \div ChunkD) + ChunkD)
          = CountIn(DPlaces(cs)[s], 1, lpos + 1)
    <3> DEFINE P == DPlaces(cs)
               h == st.d
    <3>1. P[s] \subseteq 1 .. n /\ Tallies(h, ChunkD, DSymbols, P, n) /\ s \in DSymbols
      BY <1>2, <2>3
    <3>2. ChunkD \in Nat \ {0} /\ n \in Nat /\ lpos \in 0 .. n - 1
      BY <1>1, <2>4, Chunks
    <3> HIDE DEF P, h
    <3>3. LessRest(h, P, ChunkD, s, lpos) = CountIn(P[s], 1, lpos + 1)
      BY <3>1, <3>2, CountedUpTo
    <3>4. QED
      BY <3>3 DEF P, h, LessRest
  <2>6. QED
    BY <2>2, <2>5 DEF CountIn, End
<1>5. HistogramAt(st, lpos) =
        [ll |-> [s \in LLSymbols |-> st.ll[lpos \div ChunkLL + 1][s]
                   - Cardinality({i \in After(ChunkLL) : LLSymbol(cs[i]) = s})],
         d |-> [s \in DSymbols |-> st.d[lpos \div ChunkD + 1][s]
                   - Cardinality({i \in After(ChunkD) :
                                    cs[i].dist # 0 /\ DistSymbol(cs[i].dist) = s})]]
  BY DEF HistogramAt
<1>6. QED
  <2> HIDE DEF After
  <2>1. QED
    BY <1>3, <1>4, <1>5

\* The histogram of a range is what counting gives.
LEMMA RangeCounts ==
    ASSUME NEW C, NEW st \in Stores(C), Cumulative(st),
           NEW lend \in 1 .. Len(st.commands), NEW lstart \in 0 .. lend - 1
    PROVE  ZopfliLZ77GetHistogram(st, lstart, lend) = Counted(st, lstart, lend)
<1> DEFINE cs == st.commands
           n == Len(cs)
           LLUp(m) == [s \in LLSymbols |-> CountIn(LLPlaces(cs)[s], 1, m)]
           DUp(m) == [s \in DSymbols |-> CountIn(DPlaces(cs)[s], 1, m)]
           LLIn == [s \in LLSymbols |-> CountIn(LLPlaces(cs)[s], lstart + 1, lend)]
           DIn == [s \in DSymbols |-> CountIn(DPlaces(cs)[s], lstart + 1, lend)]
<1>1. n \in Nat /\ lend \in 1 .. n /\ lstart \in Nat /\ lend \in Nat /\ lstart < lend
  <2>1. cs \in Seq(C)
    BY DEF Stores
  <2>2. QED
    BY <2>1
<1>2. Counted(st, lstart, lend) = [ll |-> LLIn, d |-> DIn]
  <2>1. ASSUME NEW s \in LLSymbols
        PROVE  {i \in lstart + 1 .. lend : LLSymbol(cs[i]) = s}
                 = LLPlaces(cs)[s] \cap (lstart + 1 .. lend)
    <3>1. LLPlaces(cs)[s] = {i \in 1 .. n : LLSymbol(cs[i]) = s}
      BY DEF LLPlaces
    <3> HIDE DEF cs, n
    <3>2. QED
      BY <1>1, <3>1
  <2>2. ASSUME NEW s \in DSymbols
        PROVE  {i \in lstart + 1 .. lend : cs[i].dist # 0 /\ DistSymbol(cs[i].dist) = s}
                 = DPlaces(cs)[s] \cap (lstart + 1 .. lend)
    <3>1. DPlaces(cs)[s] = {i \in 1 .. n : cs[i].dist # 0 /\ DistSymbol(cs[i].dist) = s}
      BY DEF DPlaces
    <3> HIDE DEF cs, n
    <3>2. QED
      BY <1>1, <3>1
  <2>3. Counted(st, lstart, lend) =
          [ll |-> [s \in LLSymbols |->
                     Cardinality({i \in lstart + 1 .. lend : LLSymbol(cs[i]) = s})],
           d |-> [s \in DSymbols |->
                    Cardinality({i \in lstart + 1 .. lend :
                                   cs[i].dist # 0 /\ DistSymbol(cs[i].dist) = s})]]
    BY TabulatedSame DEF Counted
  <2>4. QED
    BY <2>1, <2>2, <2>3 DEF CountIn
<1>3. CASE IsShort(lstart, lend)
  BY <1>3 DEF ZopfliLZ77GetHistogram
<1>4. CASE ~ IsShort(lstart, lend)
  <2>1. HistogramAt(st, lend - 1) = [ll |-> LLUp(lend), d |-> DUp(lend)]
    <3>1. lend - 1 \in 0 .. n - 1 /\ (lend - 1) + 1 = lend
      BY <1>1
    <3>2. QED
      BY <3>1, HistogramAtCounts
  <2>2. CASE lstart = 0
    <3>1. ZopfliLZ77GetHistogram(st, lstart, lend) = HistogramAt(st, lend - 1)
      BY <1>4, <2>2 DEF ZopfliLZ77GetHistogram
    <3>2. 1 .. lend = lstart + 1 .. lend
      BY <1>1, <2>2
    <3>3. LLUp(lend) = LLIn /\ DUp(lend) = DIn
      BY <3>2
    <3>4. QED
      BY <1>2, <2>1, <3>1, <3>3
  <2>3. CASE lstart # 0
    <3>1. HistogramAt(st, lstart - 1) = [ll |-> LLUp(lstart), d |-> DUp(lstart)]
      <4>1. lstart - 1 \in 0 .. n - 1 /\ (lstart - 1) + 1 = lstart
        BY <1>1, <2>3
      <4>2. QED
        BY <4>1, HistogramAtCounts
    <3>2. ZopfliLZ77GetHistogram(st, lstart, lend) =
            [ll |-> [s \in LLSymbols |-> HistogramAt(st, lend - 1).ll[s]
                                           - HistogramAt(st, lstart - 1).ll[s]],
             d |-> [s \in DSymbols |-> HistogramAt(st, lend - 1).d[s]
                                         - HistogramAt(st, lstart - 1).d[s]]]
      BY <1>4, <2>3, TabulatedSame DEF ZopfliLZ77GetHistogram
    <3>3. ASSUME NEW P
          PROVE  CountIn(P, 1, lend) - CountIn(P, 1, lstart)
                   = CountIn(P, lstart + 1, lend)
      <4>1. lstart <= lend
        BY <1>1
      <4> DEFINE a == CountIn(P, 1, lend)
                 b == CountIn(P, lstart + 1, lend)
                 c == CountIn(P, 1, lstart)
      <4> HIDE DEF a, b, c
      <4>2. a \in Nat /\ b \in Nat /\ c \in Nat /\ a = c + b
        BY <1>1, <4>1, CountsAdd DEF a, b, c
      <4>3. a - c = b
        BY <4>2
      <4>4. QED
        BY <4>3 DEF a, b, c
    <3>4. \A s \in LLSymbols : LLUp(lend)[s] - LLUp(lstart)[s] = LLIn[s]
      BY <3>3
    <3>5. \A s \in DSymbols : DUp(lend)[s] - DUp(lstart)[s] = DIn[s]
      BY <3>3
    <3> DEFINE LLEnd == LLUp(lend)
               LLStart == LLUp(lstart)
               DEnd == DUp(lend)
               DStart == DUp(lstart)
    <3>6. LLIn = [s \in LLSymbols |-> LLIn[s]] /\ DIn = [s \in DSymbols |-> DIn[s]]
      OBVIOUS
    <3>7. /\ HistogramAt(st, lend - 1) = [ll |-> LLEnd, d |-> DEnd]
          /\ HistogramAt(st, lstart - 1) = [ll |-> LLStart, d |-> DStart]
      BY <2>1, <3>1
    <3> HIDE DEF LLEnd, LLStart, DEnd, DStart, LLIn, DIn
    <3>8. /\ HistogramAt(st, lend - 1).ll = LLEnd /\ HistogramAt(st, lend - 1).d = DEnd
          /\ HistogramAt(st, lstart - 1).ll = LLStart /\ HistogramAt(st, lstart - 1).d = DStart
      BY <3>7
    <3>9. /\ \A s \in LLSymbols : LLEnd[s] - LLStart[s] = LLIn[s]
          /\ \A s \in DSymbols : DEnd[s] - DStart[s] = DIn[s]
      BY <3>4, <3>5 DEF LLEnd, LLStart, DEnd, DStart
    <3>10. ZopfliLZ77GetHistogram(st, lstart, lend) =
             [ll |-> [s \in LLSymbols |-> LLIn[s]], d |-> [s \in DSymbols |-> DIn[s]]]
      BY <3>2, <3>8, <3>9
    <3>11. QED
      BY <1>2, <3>6, <3>10
  <2>4. QED
    BY <2>2, <2>3
<1>5. QED
  BY <1>3, <1>4

-----------------------------------------------------------------------------
(* The search for the place to split. *)

\* The first best of some indices is one of them, whatever is compared.
LEMMA FirstBestWithin ==
    ASSUME NEW f, NEW first \in Nat, NEW last \in Nat, first <= last
    PROVE  FirstBest(f, first, last) \in first .. last
<1> DEFINE Step(i, best) == IF i <= first THEN first ELSE Better(f, best, i)
           step == [q \in Nat \X Nat |-> Step(q[1], q[2])]
           g == CHOOSE a : a = [i \in Nat |-> Step(i, a[i - 1])]
<1>1. FirstBest(f, first, last) = g[last]
  BY DEF FirstBest
<1>2. \A i \in Nat, best \in Nat :
        /\ Step(i, best) \in Nat
        /\ i <= first => Step(i, best) = first
        /\ i > first => Step(i, best) = best \/ Step(i, best) = i
  BY DEF Better
<1> HIDE DEF Step
<1>3. PICK h : Follows(h, Nat, first, step)
  <2>1. Maps(Nat, step)
    BY <1>2 DEF Maps
  <2> HIDE DEF step
  <2>2. QED
    BY <2>1, Recursion
<1>4. h = [i \in Nat |-> Step(i, h[i - 1])]
  <2>1. ASSUME NEW i \in Nat PROVE h[i] = Step(i, h[i - 1])
    <3>1. CASE i = 0
      <4>1. h[0] = first
        BY <1>3 DEF Follows
      <4>2. QED
        BY <3>1, <4>1 DEF Step
    <3>2. CASE i # 0
      <4>1. i - 1 \in Nat /\ h[i - 1] \in Nat /\ h[i] = step[<<i, h[i - 1]>>]
        BY <1>3, <3>2, SMTT(30) DEF Follows
      <4>2. QED
        BY <4>1
    <3>3. QED
      BY <3>1, <3>2
  <2>2. h = [i \in Nat |-> h[i]]
    BY <1>3 DEF Follows
  <2>3. QED
    BY <2>1, <2>2
<1>5. g = [i \in Nat |-> Step(i, g[i - 1])]
  BY <1>4
<1> HIDE DEF g, step
<1> DEFINE R == {i \in Nat : g[i] \in Nat /\ g[i] >= first /\ (g[i] = first \/ g[i] <= i)}
<1>6. \A i \in Nat : i >= 0 => i \in R
  <2>1. 0 \in R
    <3>1. g[0] = first
      BY <1>5 DEF Step
    <3>2. QED
      BY <3>1
  <2>2. ASSUME NEW i \in Nat, i \in R PROVE i + 1 \in R
    <3>1. g[i] \in Nat /\ g[i] >= first /\ (g[i] = first \/ g[i] <= i)
      BY <2>2
    <3>2. g[i + 1] = Step(i + 1, g[i])
      <4>1. i + 1 \in Nat /\ (i + 1) - 1 = i
        OBVIOUS
      <4>2. g[i + 1] = Step(i + 1, g[(i + 1) - 1])
        BY <1>5, <4>1
      <4>3. QED
        BY <4>1, <4>2
    <3>3. CASE i + 1 <= first
      <4>1. g[i + 1] = first
        BY <1>2, <3>1, <3>2, <3>3
      <4>2. QED
        BY <4>1
    <3>4. CASE i + 1 > first
      <4>1. g[i + 1] = g[i] \/ g[i + 1] = i + 1
        <5>1. i + 1 \in Nat
          OBVIOUS
        <5>2. QED
          BY <1>2, <3>1, <3>2, <3>4, <5>1
      <4>2. QED
        BY <3>1, <3>4, <4>1
    <3>5. QED
      BY <3>3, <3>4
  <2> HIDE DEF R
  <2>3. QED
    BY <2>1, <2>2, Induction
<1>7. g[last] \in Nat /\ g[last] >= first /\ (g[last] = first \/ g[last] <= last)
  BY <1>6
<1>8. QED
  BY <1>1, <1>7

\* The state of a search between a and z: it looks at places between them and
\* the one it found is before z.
Narrowings(cost, a, z) ==
    {s \in [start : Nat, end : Nat, pos : Nat, over : BOOLEAN,
            lastbest : {<<>>} \cup {<<cost[x]>> : x \in Nat}] :
       a <= s.start /\ s.start <= s.end /\ s.end <= z /\ a <= s.pos /\ s.pos < z}

\* From s to t there are fewer places left, or the search is over.
Shrinks(s, t) ==
    /\ s.over => t.over
    /\ ~ t.over => t.start < t.end /\ t.end - t.start < s.end - s.start

\* The places that are tried are in order.
LEMMA PlacesInOrder ==
    ASSUME NEW w \in Nat, w > NUM
    PROVE  LET q == w \div (NUM + 1) IN
           /\ q \in Nat \ {0}
           /\ \A i \in 1 .. NUM : /\ i * q \in Nat /\ 0 < i * q /\ i * q < w
                                  /\ (i - 1) * q \in Nat /\ (i - 1) * q < i * q
                                  /\ (i + 1) * q \in Nat /\ i * q <= (i + 1) * q
<1> DEFINE q == w \div (NUM + 1)
           r == w % (NUM + 1)
<1>1. NUM \in Nat \ {0} /\ NUM + 1 \in Nat \ {0}
  BY DeflateAssumption
<1>2. q \in Nat /\ r \in 0 .. (NUM + 1) - 1 /\ w = (NUM + 1) * q + r
  BY <1>1, Division
<1> HIDE DEF q, r
<1>3. q # 0
  <2> SUFFICES ASSUME q = 0 PROVE FALSE
    OBVIOUS
  <2>1. w = r
    BY <1>1, <1>2
  <2>2. QED
    BY <1>1, <1>2, <2>1
<1>4. ASSUME NEW i \in 1 .. NUM
      PROVE  /\ i * q \in Nat /\ 0 < i * q /\ i * q < w
             /\ (i - 1) * q \in Nat /\ (i - 1) * q < i * q
             /\ (i + 1) * q \in Nat /\ i * q <= (i + 1) * q
  <2>1. i \in Nat /\ i - 1 \in Nat /\ i + 1 \in Nat /\ i <= NUM
    BY <1>1
  <2>2. /\ i * q = q * i /\ (i - 1) * q = q * (i - 1) /\ (i + 1) * q = q * (i + 1)
        /\ (NUM + 1) * q = q * (NUM + 1)
        /\ q * i \in Nat /\ q * (i - 1) \in Nat /\ q * (i + 1) \in Nat /\ q * (NUM + 1) \in Nat
    BY <1>1, <1>2, <2>1
  <2>3. q * i >= q * (i - 1) + q
    BY <1>2, <1>3, <2>1, Multiples
  <2>4. q * (i + 1) >= q * i + q
    BY <1>2, <1>3, <2>1, Multiples
  <2>5. q * (NUM + 1) >= q * i + q
    BY <1>1, <1>2, <1>3, <2>1, Multiples
  <2>6. q * i < w
    BY <1>1, <1>2, <1>3, <2>2, <2>5
  <2>7. QED
    BY <1>2, <1>3, <2>2, <2>3, <2>4, <2>6
<1>5. QED
  BY <1>2, <1>3, <1>4 DEF q

\* A round of the search stays between a and z, and is the last one or leaves
\* fewer places.
LEMMA NarrowKeeps ==
    ASSUME NEW cost, NEW a \in Nat, NEW z \in Nat, NEW s \in Narrowings(cost, a, z)
    PROVE  /\ Narrow(cost, s) \in Narrowings(cost, a, z)
           /\ Shrinks(s, Narrow(cost, s))
<1> DEFINE w == s.end - s.start
           q == w \div (NUM + 1)
           p == [i \in 0 .. (NUM + 1) |-> CASE i = 0 -> s.start
                                            [] i = NUM + 1 -> s.end
                                            [] OTHER -> s.start + i * q]
           v == Tabulated([i \in 1 .. NUM |-> cost[p[i]]])
           i == FirstBest(v, 1, NUM)
           stop == s.over \/ w <= NUM \/ (s.lastbest # <<>> /\ v[i] > s.lastbest[1])
           next == [start |-> p[i - 1], end |-> p[i + 1], pos |-> p[i], lastbest |-> <<v[i]>>,
                    over |-> FALSE]
<1>1. Narrow(cost, s) = IF stop THEN [s EXCEPT !.over = TRUE] ELSE next
  BY DEF Narrow
<1>2. /\ s \in [start : Nat, end : Nat, pos : Nat, over : BOOLEAN,
                lastbest : {<<>>} \cup {<<cost[x]>> : x \in Nat}]
      /\ a <= s.start /\ s.start <= s.end /\ s.end <= z /\ a <= s.pos /\ s.pos < z
  BY DEF Narrowings
<1>3. CASE stop
  <2>1. Narrow(cost, s) = [s EXCEPT !.over = TRUE]
    BY <1>1, <1>3
  <2>2. Narrow(cost, s).over
    BY <1>2, <2>1
  <2>3. Narrow(cost, s) \in Narrowings(cost, a, z)
    BY <1>2, <2>1 DEF Narrowings
  <2>4. QED
    BY <2>2, <2>3 DEF Shrinks
<1>4. CASE ~ stop
  <2>1. NUM \in Nat \ {0} /\ NUM > 1 /\ i \in 1 .. NUM
    <3>1. NUM \in Nat /\ 1 <= NUM /\ NUM > 1
      BY DeflateAssumption
    <3> HIDE DEF v
    <3>2. QED
      BY <3>1, FirstBestWithin
  <2>2. w \in Nat /\ w > NUM /\ s.start \in Nat /\ s.end \in Nat /\ s.end = s.start + w
    <3>1. s.start \in Nat /\ s.end \in Nat /\ s.start <= s.end
      BY <1>2
    <3>2. ~ (w <= NUM)
      BY <1>4
    <3> HIDE DEF i, v, p, stop, next
    <3>3. QED
      BY <2>1, <3>1, <3>2
  <2> HIDE DEF w
  <2>3. /\ q \in Nat
        /\ i * q \in Nat /\ i * q < w
        /\ (i - 1) * q \in Nat /\ (i - 1) * q < i * q
        /\ (i + 1) * q \in Nat /\ i * q <= (i + 1) * q
    <3> HIDE DEF i
    <3>1. QED
      BY <2>1, <2>2, PlacesInOrder
  <2> HIDE DEF q, i
  <2>4. p[i] = s.start + i * q
    BY <2>1
  <2>5. /\ p[i - 1] \in Nat /\ s.start <= p[i - 1] /\ p[i - 1] <= s.start + i * q
        /\ i = NUM => s.start < p[i - 1] /\ p[i - 1] < s.end
    <3>1. CASE i = 1
      <4>1. p[i - 1] = s.start /\ i # NUM
        BY <2>1, <3>1
      <4>2. QED
        BY <2>2, <2>3, <4>1
    <3>2. CASE i # 1
      <4>1. p[i - 1] = s.start + (i - 1) * q
        BY <2>1, <3>2
      <4>2. (i - 1) * q \in Nat /\ 0 < (i - 1) * q
        <5>1. i - 1 \in 1 .. NUM
          BY <2>1, <3>2
        <5>2. QED
          BY <2>2, <5>1, PlacesInOrder DEF q
      <4>3. QED
        BY <2>2, <2>3, <4>1, <4>2
    <3>3. QED
      BY <3>1, <3>2
  <2>6. /\ p[i + 1] \in Nat /\ s.start + i * q <= p[i + 1] /\ p[i + 1] <= s.end
        /\ i = NUM => s.start + i * q < p[i + 1]
        /\ i # NUM => s.start + i * q < p[i + 1] /\ p[i + 1] < s.end
    <3>1. CASE i = NUM
      <4>1. p[i + 1] = s.end
        BY <2>1, <3>1
      <4>2. QED
        BY <2>2, <2>3, <3>1, <4>1
    <3>2. CASE i # NUM
      <4>1. p[i + 1] = s.start + (i + 1) * q
        BY <2>1, <3>2
      <4>2. (i + 1) * q < w /\ i * q < (i + 1) * q
        <5>1. i + 1 \in 1 .. NUM
          BY <2>1, <3>2
        <5>2. (i + 1) * q < w /\ ((i + 1) - 1) * q < (i + 1) * q
          BY <2>2, <5>1, PlacesInOrder DEF q
        <5>3. (i + 1) - 1 = i
          BY <2>1
        <5>4. QED
          BY <5>2, <5>3
      <4>3. QED
        BY <2>2, <2>3, <4>1, <4>2
    <3>3. QED
      BY <3>1, <3>2
  <2>7. v[i] = cost[p[i]] /\ p[i] \in Nat
    <3>1. v = [j \in 1 .. NUM |-> cost[p[j]]]
      BY TabulatedSame
    <3>2. p[i] \in Nat
      BY <2>2, <2>3, <2>4
    <3> HIDE DEF p, v
    <3>3. QED
      BY <2>1, <3>1, <3>2
  <2> HIDE DEF p, v
  <2>8. next \in [start : Nat, end : Nat, pos : Nat, over : BOOLEAN,
                  lastbest : {<<>>} \cup {<<cost[x]>> : x \in Nat}]
    BY <2>5, <2>6, <2>7
  <2>9. a <= p[i - 1] /\ p[i - 1] <= p[i + 1] /\ p[i + 1] <= z /\ a <= p[i] /\ p[i] < z
    BY <1>2, <2>2, <2>3, <2>4, <2>5, <2>6
  <2>10. next \in Narrowings(cost, a, z)
    BY <2>8, <2>9 DEF Narrowings
  <2>11. Narrow(cost, s) = next
    BY <1>1, <1>4
  <2>12. ~ s.over
    BY <1>4
  <2>13. p[i - 1] < p[i + 1] /\ p[i + 1] - p[i - 1] < s.end - s.start
    BY <2>1, <2>2, <2>3, <2>5, <2>6
  <2> HIDE DEF i
  <2>14. next.start = p[i - 1] /\ next.end = p[i + 1]
    OBVIOUS
  <2> HIDE DEF next, stop
  <2>15. QED
    BY <2>10, <2>11, <2>12, <2>13, <2>14 DEF Shrinks
<1>5. QED
  BY <1>3, <1>4

\* The whole search does, and it is over after as many rounds as there are places.
LEMMA NarrowedKeeps ==
    ASSUME NEW cost, NEW a \in Nat, NEW z \in Nat, a < z
    PROVE  Narrowed(cost, a, z) \in Narrowings(cost, a, z) /\ Narrowed(cost, a, z).over
<1> DEFINE S == Narrowings(cost, a, z)
           base == [start |-> a, end |-> z, pos |-> a, lastbest |-> <<>>, over |-> FALSE]
           Step(s) == Narrow(cost, s)
           step == [q \in Nat \X S |-> Step(q[2])]
           g == CHOOSE f : f = [n \in Nat |-> IF n = 0 THEN base ELSE Step(f[n - 1])]
<1>1. base \in S
  BY DEF Narrowings
<1>2. \A s \in S : Step(s) \in S /\ Shrinks(s, Step(s))
  BY NarrowKeeps
<1>3. Narrowed(cost, a, z) = g[z - a]
  BY DEF Narrowed
<1>4. \A s \in S : s.start \in Nat /\ s.end \in Nat /\ s.over \in BOOLEAN
  BY DEF Narrowings
<1>5. base.start = a /\ base.end = z
  OBVIOUS
<1> HIDE DEF S, Step, base
<1>6. \A n \in Nat, s \in S : step[<<n, s>>] = Step(s)
  OBVIOUS
<1> HIDE DEF step
<1>7. PICK f : Follows(f, S, base, step)
  <2>1. Maps(S, step)
    BY <1>2, <1>6 DEF Maps
  <2>2. QED
    BY <1>1, <2>1, Recursion
<1>8. f = [n \in Nat |-> IF n = 0 THEN base ELSE Step(f[n - 1])]
  <2>1. ASSUME NEW n \in Nat PROVE f[n] = IF n = 0 THEN base ELSE Step(f[n - 1])
    <3>1. CASE n = 0
      BY <1>7, <3>1 DEF Follows
    <3>2. CASE n # 0
      <4>1. n - 1 \in Nat /\ f[n - 1] \in S /\ f[n] = step[<<n, f[n - 1]>>]
        BY <1>7, <3>2 DEF Follows
      <4>2. QED
        BY <1>6, <3>2, <4>1
    <3>3. QED
      BY <3>1, <3>2
  <2>2. f = [n \in Nat |-> f[n]]
    BY <1>7 DEF Follows
  <2>3. QED
    BY <2>1, <2>2
<1>9. g = [n \in Nat |-> IF n = 0 THEN base ELSE Step(g[n - 1])]
  BY <1>8
<1> HIDE DEF g
<1> DEFINE Left(t) == t.end - t.start
           R == {n \in Nat : g[n] \in S /\ (g[n].over \/ (0 < Left(g[n]) /\ Left(g[n]) + n <= z - a))}
<1>10. \A n \in Nat : n >= 0 => n \in R
  <2>1. 0 \in R
    <3>1. g[0] = base /\ Left(base) = z - a
      BY <1>9, <1>5
    <3>2. QED
      BY <1>1, <3>1
  <2>2. ASSUME NEW n \in Nat, n \in R PROVE n + 1 \in R
    <3> DEFINE s == g[n]
               t == g[n + 1]
    <3>1. n + 1 \in Nat /\ n + 1 # 0 /\ (n + 1) - 1 = n /\ s \in S
          /\ (s.over \/ (0 < Left(s) /\ Left(s) + n <= z - a))
      BY <2>2
    <3>2. t = Step(s)
      <4>1. g[n + 1] = Step(g[(n + 1) - 1])
        BY <1>9, <3>1
      <4>2. QED
        BY <3>1, <4>1
    <3> HIDE DEF s, t
    <3>3. t \in S /\ Shrinks(s, t)
      BY <1>2, <3>1, <3>2
    <3>4. /\ s.start \in Nat /\ s.end \in Nat /\ s.over \in BOOLEAN
          /\ t.start \in Nat /\ t.end \in Nat /\ t.over \in BOOLEAN
      BY <1>4, <3>1, <3>3
    <3>5. t.over \/ (0 < Left(t) /\ Left(t) + (n + 1) <= z - a)
      <4>1. CASE t.over
        BY <4>1
      <4>2. CASE ~ t.over
        <5>1. ~ s.over /\ t.start < t.end /\ t.end - t.start < s.end - s.start
          BY <3>3, <4>2 DEF Shrinks
        <5>2. Left(s) + n <= z - a
          BY <3>1, <5>1
        <5>3. 0 < Left(t) /\ Left(t) + (n + 1) <= z - a
          BY <3>4, <5>1, <5>2
        <5> HIDE DEF Left
        <5>4. QED
          BY <5>3
      <4>3. QED
        BY <4>1, <4>2
    <3>6. QED
      BY <3>1, <3>3, <3>5 DEF t
  <2> HIDE DEF R
  <2>3. QED
    BY <2>1, <2>2, Induction
<1>11. z - a \in Nat /\ z - a >= 0
  OBVIOUS
<1> DEFINE e == g[z - a]
<1>12. e \in S /\ (e.over \/ (0 < Left(e) /\ Left(e) + (z - a) <= z - a))
  BY <1>10, <1>11
<1> HIDE DEF e
<1>13. e.over
  BY <1>12, <1>4
<1>14. QED
  BY <1>3, <1>12, <1>13 DEF S, e

\* The place that is found is one of those searched.
LEMMA MinimumWithin ==
    ASSUME NEW cost, NEW start \in Nat, NEW end \in Nat, start < end
    PROVE  /\ FindMinimum(cost, start, end)[1] \in Nat
           /\ start <= FindMinimum(cost, start, end)[1]
           /\ FindMinimum(cost, start, end)[1] < end
<1>1. CASE end - start < FewPositions
  <2>1. FindMinimum(cost, start, end)[1] = FirstBest(cost, start, end - 1)
    BY <1>1 DEF FindMinimum, FewTried
  <2>2. FirstBest(cost, start, end - 1) \in start .. end - 1
    <3>1. end - 1 \in Nat /\ start <= end - 1
      OBVIOUS
    <3>2. QED
      BY <3>1, FirstBestWithin
  <2>3. QED
    BY <2>1, <2>2
<1>2. CASE ~ (end - start < FewPositions)
  <2>1. FindMinimum(cost, start, end)[1] = Narrowed(cost, start, end).pos
    BY <1>2 DEF FindMinimum, ManyTried
  <2>2. Narrowed(cost, start, end) \in Narrowings(cost, start, end)
    BY NarrowedKeeps
  <2>3. QED
    BY <2>1, <2>2 DEF Narrowings
<1>3. QED
  BY <1>1, <1>2

-----------------------------------------------------------------------------
(* The points. *)

Rising(ps) == \A i, j \in DOMAIN ps : i < j => ps[i] < ps[j]

\* A point that is not there yet comes where it belongs.
LEMMA AddSortedRises ==
    ASSUME NEW ps \in Seq(Nat), Rising(ps), NEW value \in Nat,
           \A i \in DOMAIN ps : ps[i] # value
    PROVE  /\ AddSorted(value, ps) \in Seq(Nat)
           /\ Len(AddSorted(value, ps)) = Len(ps) + 1
           /\ Rising(AddSorted(value, ps))
           /\ \A i \in DOMAIN AddSorted(value, ps) :
                \/ AddSorted(value, ps)[i] = value
                \/ \E j \in DOMAIN ps : AddSorted(value, ps)[i] = ps[j]
<1> DEFINE n == Len(ps)
           T == {i \in 1 .. (n + 1) : i = n + 1 \/ ps[i] > value}
           at == Min(T)
           r == [i \in 1 .. (n + 1) |-> CASE i < at -> ps[i] [] i = at -> value [] OTHER -> ps[i - 1]]
<1>1. AddSorted(value, ps) = r
  BY DEF AddSorted
<1>2. n \in Nat /\ DOMAIN ps = 1 .. n /\ \A i \in 1 .. n : ps[i] \in Nat
  OBVIOUS
<1>3. at \in T /\ \A y \in T : at <= y
  <2>1. T \in SUBSET Nat /\ n + 1 \in T
    BY <1>2
  <2> HIDE DEF T
  <2>2. QED
    BY <2>1, LeastElement
<1>4. /\ at \in 1 .. n + 1
      /\ \A i \in 1 .. n : i < at => ps[i] < value
      /\ \A i \in 1 .. n : i >= at => ps[i] > value
  <2>1. at \in 1 .. n + 1 /\ (at = n + 1 \/ ps[at] > value)
    BY <1>3
  <2>2. ASSUME NEW i \in 1 .. n, i < at PROVE ps[i] < value
    <3>1. i \notin T
      <4> HIDE DEF T, at
      <4>1. QED
        BY <1>3, <2>1, <2>2
    <3>2. ~ (ps[i] > value)
      BY <1>2, <3>1
    <3>3. QED
      BY <1>2, <3>2
  <2>3. ASSUME NEW i \in 1 .. n, i >= at PROVE ps[i] > value
    <3> HIDE DEF T, at
    <3>1. ps[at] > value /\ at \in 1 .. n
      BY <1>2, <2>1, <2>3
    <3>2. CASE i = at
      BY <3>1, <3>2
    <3>3. CASE i # at
      <4>1. ps[at] < ps[i]
        BY <1>2, <2>3, <3>1, <3>3 DEF Rising
      <4>2. QED
        BY <1>2, <3>1, <4>1
    <3>4. QED
      BY <3>2, <3>3
  <2>4. QED
    BY <2>1, <2>2, <2>3
<1> HIDE DEF T, at
<1>5. ASSUME NEW i \in 1 .. n + 1
      PROVE  \/ i < at /\ i \in 1 .. n /\ r[i] = ps[i]
             \/ i = at /\ r[i] = value
             \/ i > at /\ i - 1 \in 1 .. n /\ i - 1 >= at /\ r[i] = ps[i - 1]
  <2>1. CASE i < at
    BY <1>2, <1>4, <2>1
  <2>2. CASE i = at
    BY <1>2, <1>4, <2>2
  <2>3. CASE i > at
    BY <1>2, <1>4, <2>3
  <2>4. QED
    BY <1>2, <1>4, <2>1, <2>2, <2>3
<1>6. DOMAIN r = 1 .. n + 1
  OBVIOUS
<1> HIDE DEF r
<1>7. \A i \in 1 .. n + 1 : r[i] \in Nat
  BY <1>2, <1>5
<1>8. r \in Seq(Nat) /\ Len(r) = n + 1
  <2>1. r = [i \in 1 .. n + 1 |-> r[i]]
    BY <1>6 DEF r
  <2>2. n + 1 \in Nat
    BY <1>2
  <2> HIDE DEF n
  <2>3. QED
    BY <1>6, <1>7, <2>1, <2>2
<1>9. ASSUME NEW i \in 1 .. n + 1, NEW j \in 1 .. n + 1, i < j PROVE r[i] < r[j]
  <2>1. \A k, l \in 1 .. n : k < l => ps[k] < ps[l]
    BY <1>2 DEF Rising
  <2>2. CASE i < at /\ j < at
    <3>1. r[i] = ps[i] /\ r[j] = ps[j] /\ i \in 1 .. n /\ j \in 1 .. n
      BY <1>4, <1>5, <2>2
    <3>2. QED
      BY <1>9, <2>1, <3>1
  <2>3. CASE i < at /\ j >= at
    <3>1. r[i] = ps[i] /\ i \in 1 .. n /\ ps[i] < value
      BY <1>4, <1>5, <2>3
    <3>2. r[j] = value \/ r[j] > value
      BY <1>4, <1>5, <2>3
    <3>3. QED
      BY <1>2, <1>7, <3>1, <3>2
  <2>4. CASE i >= at
    <3>1. j > at /\ j - 1 \in 1 .. n /\ j - 1 >= at /\ r[j] = ps[j - 1] /\ ps[j - 1] > value
      BY <1>4, <1>5, <1>9, <2>4
    <3>2. CASE i = at
      <4>1. r[i] = value
        BY <1>4, <1>5, <3>2
      <4>2. QED
        BY <1>2, <3>1, <4>1
    <3>3. CASE i # at
      <4>1. r[i] = ps[i - 1] /\ i - 1 \in 1 .. n
        BY <1>4, <1>5, <2>4, <3>3
      <4>2. i - 1 < j - 1
        BY <1>9
      <4>3. QED
        BY <2>1, <3>1, <4>1, <4>2
    <3>4. QED
      BY <3>2, <3>3
  <2>5. QED
    BY <1>4, <2>2, <2>3, <2>4
<1>10. \A i \in DOMAIN r : r[i] = value \/ \E j \in DOMAIN ps : r[i] = ps[j]
  BY <1>2, <1>5, <1>6
<1>11. Rising(r)
  BY <1>6, <1>9 DEF Rising
<1>12. QED
  BY <1>1, <1>8, <1>10, <1>11

\* The points split size commands.
Splits(ps, size) ==
    /\ ps \in Seq(Nat) /\ Rising(ps)
    /\ \A i \in DOMAIN ps : 1 < ps[i] /\ ps[i] < size

\* There is no point inside of a block.
Whole(ps, first, last) == \A i \in DOMAIN ps : ps[i] <= first \/ ps[i] >= last

\* The block that is split next is one between two points that was not given up.
LEMMA LargestIsOpen ==
    ASSUME NEW size \in Nat, NEW done, NEW ps, Splits(ps, size),
           FindLargestSplittableBlock(size, done, ps) # <<>>
    PROVE  LET next == FindLargestSplittableBlock(size, done, ps)
           IN  /\ next[1] \in Nat /\ next[2] \in Nat /\ next[1] < next[2] /\ next[2] <= size
               /\ next[1] \notin done
               /\ Whole(ps, next[1], next[2])
<1> DEFINE n == Len(ps)
           first(i) == IF i = 0 THEN 0 ELSE ps[i]
           last(i) == IF i = n THEN size - 1 ELSE ps[i + 1]
           blocks == [i \in 0 .. n |-> <<IF i = 0 THEN 0 ELSE ps[i],
                                         IF i = n THEN size - 1 ELSE ps[i + 1]>>]
           open == {i \in 0 .. n : blocks[i][1] \notin done /\ blocks[i][2] > blocks[i][1]}
           Longest(i) == \A j \in open : blocks[j][2] - blocks[j][1] <= blocks[i][2] - blocks[i][1]
           best == {i \in open : Longest(i)}
<1>1. /\ ps \in Seq(Nat) /\ n \in Nat /\ DOMAIN ps = 1 .. n
      /\ \A i \in 1 .. n : ps[i] \in Nat /\ 1 < ps[i] /\ ps[i] < size
      /\ \A i, j \in 1 .. n : i < j => ps[i] < ps[j]
  BY DEF Splits, Rising
<1>2. FindLargestSplittableBlock(size, done, ps) = IF open = {} THEN <<>> ELSE blocks[Min(best)]
  BY DEF FindLargestSplittableBlock
<1>3. open # {}
  BY <1>2
<1>4. \A i \in 0 .. n : blocks[i][1] = first(i) /\ blocks[i][2] = last(i)
  OBVIOUS
<1> HIDE DEF n
<1>5. \A i \in 0 .. n : first(i) \in Nat /\ last(i) \in Int /\ last(i) <= size
  <2>1. ASSUME NEW i \in 0 .. n PROVE first(i) \in Nat /\ last(i) \in Int /\ last(i) <= size
    <3>1. first(i) \in Nat
      BY <1>1
    <3>2. CASE i = n
      BY <3>1, <3>2
    <3>3. CASE i # n
      <4>1. i + 1 \in 1 .. n
        BY <1>1, <3>3
      <4>2. QED
        BY <1>1, <3>1, <3>3, <4>1
    <3>4. QED
      BY <3>2, <3>3
  <2>2. QED
    BY <2>1
<1>6. \A i \in open : i \in 0 .. n /\ first(i) \notin done /\ first(i) < last(i)
  BY <1>4, <1>5
<1> HIDE DEF blocks, open, first, last
<1>7. best # {}
  <2> DEFINE T == {size - (last(i) - first(i)) : i \in open}
  <2>1. T \in SUBSET Nat
    BY <1>5, <1>6
  <2>2. T # {}
    BY <1>3
  <2>3. PICK t \in T : \A m \in T : t <= m
    <3> HIDE DEF T
    <3>1. QED
      BY <2>1, <2>2, LeastNumber
  <2>4. PICK i \in open : t = size - (last(i) - first(i))
    BY <2>3
  <2>5. ASSUME NEW j \in open PROVE last(j) - first(j) <= last(i) - first(i)
    <3>1. size - (last(i) - first(i)) <= size - (last(j) - first(j))
      BY <2>3, <2>4
    <3>2. /\ first(i) \in Nat /\ last(i) \in Int /\ first(j) \in Nat /\ last(j) \in Int
      BY <1>5, <1>6
    <3>3. QED
      BY <3>1, <3>2
  <2>6. Longest(i)
    BY <1>4, <1>6, <2>5
  <2>7. QED
    BY <2>6
<1> DEFINE b == Min(best)
<1>8. b \in best
  <2>1. best \in SUBSET Nat
    <3>1. open \subseteq 0 .. n
      BY <1>6
    <3>2. best \subseteq open
      OBVIOUS
    <3> HIDE DEF best
    <3>3. QED
      BY <1>1, <3>1, <3>2
  <2> HIDE DEF best
  <2>2. QED
    BY <1>7, <2>1, LeastElement
<1>9. b \in open
  BY <1>8
<1> HIDE DEF best, b
<1>10. FindLargestSplittableBlock(size, done, ps) = blocks[b]
  BY <1>2, <1>3 DEF b
<1>11. b \in 0 .. n /\ first(b) \notin done /\ first(b) < last(b)
       /\ first(b) \in Nat /\ last(b) \in Nat /\ last(b) <= size
  BY <1>5, <1>6, <1>9
<1>12. Whole(ps, first(b), last(b))
  <2> SUFFICES ASSUME NEW i \in 1 .. n PROVE ps[i] <= first(b) \/ ps[i] >= last(b)
    BY <1>1 DEF Whole
  <2>1. CASE i <= b
    <3>1. first(b) = ps[b] /\ b \in 1 .. n
      BY <1>1, <1>11, <2>1 DEF first
    <3>2. ps[i] <= ps[b]
      BY <1>1, <2>1, <3>1, SMTT(30)
    <3>3. QED
      BY <3>1, <3>2
  <2>2. CASE ~ (i <= b)
    <3>1. last(b) = ps[b + 1] /\ b + 1 \in 1 .. n /\ b + 1 <= i
      BY <1>1, <1>11, <2>2 DEF last
    <3>2. ps[b + 1] <= ps[i]
      BY <1>1, <3>1
    <3>3. QED
      BY <1>1, <3>1, <3>2
  <2>3. QED
    BY <2>1, <2>2
<1>13. QED
  BY <1>4, <1>10, <1>11, <1>12

\* The state of a split: its points, and the block that is split next.
SplitOk(s, size, most) ==
    /\ s \in [points : Seq(Nat), done : SUBSET (0 .. (size - 1)),
               lstart : Nat, lend : Nat, over : BOOLEAN]
    /\ Splits(s.points, size)
    /\ most > 0 => Len(s.points) < most
    /\ ~ s.over => /\ s.lstart + 1 < s.lend /\ s.lend <= size
                   /\ s.lstart \notin s.done
                   /\ Whole(s.points, s.lstart, s.lend)

\* The attempts so far, each of which added a point or gave a block up.
Rounds(s) == Len(s.points) + Cardinality(s.done)

\* One attempt more, or the end.
Advances(s, t) == t.over \/ Rounds(t) = Rounds(s) + 1

\* It is so at the start.
LEMMA StartSplitOk ==
    ASSUME NEW store, Len(store.commands) \in Nat, NEW most \in Nat
    PROVE  SplitOk(StartSplit(store), Len(store.commands), most)
<1> DEFINE s == StartSplit(store)
<1>1. /\ s.points = <<>> /\ s.done = {} /\ s.lstart = 0 /\ s.lend = Len(store.commands)
      /\ s.over = (Len(store.commands) < MinSplit)
      /\ s \in [points : Seq(Nat), done : SUBSET (0 .. (Len(store.commands) - 1)),
                 lstart : Nat, lend : Nat, over : BOOLEAN]
  BY DEF StartSplit
<1>2. Splits(<<>>, Len(store.commands)) /\ Len(<<>>) = 0
      /\ Whole(<<>>, s.lstart, s.lend)
  BY DEF Splits, Rising, Whole
<1>3. ~ s.over => s.lstart + 1 < s.lend
  <2>1. MinSplit \in Nat /\ MinSplit > 2
    BY DeflateAssumption
  <2> HIDE DEF s
  <2>2. QED
    BY <1>1, <2>1
<1>4. QED
  <2> HIDE DEF s
  <2>1. SplitOk(s, Len(store.commands), most)
    BY <1>1, <1>2, <1>3 DEF SplitOk
  <2>2. QED
    BY <2>1 DEF s

\* A round of the splitting keeps it and is one attempt more.
LEMMA SplitKeeps ==
    ASSUME NEW store, Len(store.commands) \in Nat, NEW s, maxblocks \in Nat,
           SplitOk(s, Len(store.commands), maxblocks), ~ s.over
    PROVE  /\ SplitOk(SplitOnce(store, s), Len(store.commands), maxblocks)
           /\ Advances(s, SplitOnce(store, s))
<1> DEFINE size == Len(store.commands)
           Type == [points : Seq(Nat), done : SUBSET (0 .. (size - 1)),
                    lstart : Nat, lend : Nat, over : BOOLEAN]
           cost == [i \in (s.lstart + 1) .. s.lend |-> SplitCost(store, s.lstart, s.lend, i)]
           found == FindMinimum(cost, s.lstart + 1, s.lend)
           t == Tried(s, found, EstimateCost(store, s.lstart, s.lend))
           full == maxblocks > 0 /\ Len(s.points) + 1 >= maxblocks
<1>1. SplitOnce(store, s) = IF full THEN [s EXCEPT !.over = TRUE] ELSE Continued(size, t)
  BY DEF SplitOnce
<1> HIDE DEF cost
<1>2. /\ s \in Type /\ Splits(s.points, size)
      /\ maxblocks > 0 => Len(s.points) < maxblocks
      /\ s.lstart + 1 < s.lend /\ s.lend <= size
      /\ s.lstart \notin s.done /\ Whole(s.points, s.lstart, s.lend)
  BY DEF SplitOk
<1>3. CASE full
  <2>1. SplitOnce(store, s) = [s EXCEPT !.over = TRUE]
    BY <1>1, <1>3
  <2> DEFINE r == [s EXCEPT !.over = TRUE]
  <2>2. r \in Type /\ r.points = s.points /\ r.over
    BY <1>2
  <2> HIDE DEF r
  <2>3. SplitOk(r, size, maxblocks) /\ Advances(s, r)
    BY <1>2, <2>2 DEF SplitOk, Advances
  <2>4. QED
    BY <2>1, <2>3 DEF r
<1>4. CASE ~ full
  <2>1. /\ t \in Type /\ Splits(t.points, size)
        /\ maxblocks > 0 => Len(t.points) < maxblocks
        /\ Rounds(t) = Rounds(s) + 1
    <3>1. found[1] \in Nat /\ s.lstart + 1 <= found[1] /\ found[1] < s.lend
      <4>1. s.lstart + 1 \in Nat /\ s.lend \in Nat
        BY <1>2
      <4>2. QED
        BY <1>2, <4>1, MinimumWithin
    <3> HIDE DEF found
    <3>2. CASE t = [s EXCEPT !.done = @ \cup {s.lstart}]
      <4> HIDE DEF t
      <4> DEFINE done == s.done \cup {s.lstart}
      <4>1. s.lstart \in 0 .. (size - 1)
        BY <1>2
      <4>2. t \in Type /\ t.points = s.points /\ t.done = done
        BY <1>2, <3>2, <4>1
      <4>3. IsFiniteSet(s.done)
        <5>1. s.done \in SUBSET (0 .. (size - 1))
          BY <1>2
        <5>2. IsFiniteSet(0 .. (size - 1))
          BY FS_Interval
        <5>3. QED
          BY <5>1, <5>2, FS_Subset
      <4>4. Cardinality(done) = Cardinality(s.done) + 1 /\ Cardinality(s.done) \in Nat
        BY <1>2, <4>3, FS_AddElement, FS_CardinalityType
      <4>5. Len(s.points) \in Nat
        BY <1>2
      <4>6. Rounds(t) = Rounds(s) + 1
        BY <4>2, <4>4, <4>5 DEF Rounds
      <4>7. QED
        BY <1>2, <4>2, <4>6
    <3>3. CASE t = [s EXCEPT !.points = AddSorted(found[1], @)]
               /\ found[1] # s.lstart + 1
      <4> DEFINE value == found[1]
                 ps == s.points
                 new == AddSorted(value, ps)
      <4>1. value \in Nat /\ s.lstart \in Nat /\ s.lend \in Nat /\ s.lstart + 1 < value
            /\ value < s.lend
        BY <1>2, <3>1, <3>3
      <4>2. ps \in Seq(Nat) /\ Rising(ps) /\ \A i \in DOMAIN ps : 1 < ps[i] /\ ps[i] < size
        BY <1>2 DEF Splits
      <4>3. \A i \in DOMAIN ps : ps[i] # value
        <5>1. \A i \in DOMAIN ps : ps[i] \in Nat /\ (ps[i] <= s.lstart \/ ps[i] >= s.lend)
          BY <1>2, <4>2 DEF Whole
        <5> HIDE DEF value, ps
        <5>2. QED
          BY <4>1, <5>1
      <4>4. t = [s EXCEPT !.points = new]
        BY <3>3
      <4> HIDE DEF value, t
      <4>5. /\ new \in Seq(Nat) /\ Len(new) = Len(ps) + 1 /\ Rising(new)
            /\ \A i \in DOMAIN new : new[i] = value \/ \E j \in DOMAIN ps : new[i] = ps[j]
        <5> HIDE DEF ps
        <5>1. QED
          BY <4>1, <4>2, <4>3, AddSortedRises
      <4> HIDE DEF new
      <4>6. t \in Type /\ t.points = new /\ t.done = s.done
        BY <1>2, <4>4, <4>5
      <4>7. \A i \in DOMAIN new : 1 < new[i] /\ new[i] < size
        <5>1. 1 < value /\ value < size
          BY <1>2, <4>1
        <5> HIDE DEF ps
        <5>2. QED
          BY <4>2, <4>5, <5>1
      <4>8. Splits(new, size)
        BY <4>5, <4>7 DEF Splits
      <4>9. maxblocks > 0 => Len(new) < maxblocks
        <5>1. Len(ps) \in Nat /\ (maxblocks > 0 => ~ (Len(ps) + 1 >= maxblocks))
          BY <1>4, <4>2
        <5>2. QED
          BY <4>5, <5>1
      <4>10. Rounds(t) = Rounds(s) + 1
        <5>1. Len(ps) \in Nat
          BY <4>2
        <5>2. Cardinality(s.done) \in Nat
          <6>1. s.done \in SUBSET (0 .. (size - 1))
            BY <1>2
          <6>2. IsFiniteSet(0 .. (size - 1))
            BY FS_Interval
          <6>3. QED
            BY <6>1, <6>2, FS_Subset, FS_CardinalityType
        <5>3. Rounds(t) = Len(new) + Cardinality(s.done)
          BY <4>6 DEF Rounds
        <5>4. Rounds(s) = Len(ps) + Cardinality(s.done)
          BY DEF Rounds
        <5> HIDE DEF ps
        <5>5. QED
          BY <4>5, <5>1, <5>2, <5>3, <5>4
      <4>11. QED
        BY <4>6, <4>8, <4>9, <4>10
    <3>4. \/ t = [s EXCEPT !.done = @ \cup {s.lstart}]
          \/ t = [s EXCEPT !.points = AddSorted(found[1], @)] /\ found[1] # s.lstart + 1
      BY DEF Tried
    <3>5. QED
      BY <3>2, <3>3, <3>4
  <2> HIDE DEF t
  <2> DEFINE next == FindLargestSplittableBlock(size, t.done, t.points)
             r == Continued(size, t)
  <2>2. SplitOnce(store, s) = r
    BY <1>1, <1>4
  <2>3. CASE next = <<>>
    <3>1. r = [t EXCEPT !.over = TRUE]
      BY <2>3 DEF Continued
    <3> HIDE DEF r
    <3>2. r \in Type /\ r.points = t.points /\ r.over
      BY <2>1, <3>1
    <3>3. SplitOk(r, size, maxblocks) /\ Advances(s, r)
      BY <2>1, <3>2 DEF SplitOk, Advances
    <3>4. QED
      BY <2>2, <3>3
  <2>4. CASE next # <<>>
    <3>1. r = [t EXCEPT !.lstart = next[1], !.lend = next[2], !.over = next[2] - next[1] < MinSplit]
      BY <2>4 DEF Continued
    <3>2. /\ next[1] \in Nat /\ next[2] \in Nat /\ next[1] < next[2] /\ next[2] <= size
          /\ next[1] \notin t.done
          /\ Whole(t.points, next[1], next[2])
      BY <2>1, <2>4, LargestIsOpen
    <3> HIDE DEF r, next
    <3>3. /\ r \in Type /\ r.points = t.points /\ r.done = t.done
          /\ r.lstart = next[1] /\ r.lend = next[2]
          /\ r.over = (next[2] - next[1] < MinSplit)
      <4> DEFINE small == next[2] - next[1] < MinSplit
      <4>1. small \in BOOLEAN
        OBVIOUS
      <4>2. r = [t EXCEPT !.lstart = next[1], !.lend = next[2], !.over = small]
        BY <3>1
      <4> HIDE DEF small
      <4>3. /\ r \in Type /\ r.points = t.points /\ r.done = t.done
            /\ r.lstart = next[1] /\ r.lend = next[2] /\ r.over = small
        BY <2>1, <3>2, <4>1, <4>2
      <4>4. QED
        BY <4>3 DEF small
    <3>4. ~ r.over => r.lstart + 1 < r.lend
      <4>1. MinSplit \in Nat /\ MinSplit > 2
        BY DeflateAssumption
      <4>2. QED
        BY <3>2, <3>3, <4>1
    <3>5. SplitOk(r, size, maxblocks)
      BY <2>1, <3>2, <3>3, <3>4 DEF SplitOk
    <3>6. Advances(s, r)
      BY <2>1, <3>3 DEF Advances, Rounds
    <3>7. QED
      BY <2>2, <3>5, <3>6
  <2>5. QED
    BY <2>3, <2>4
<1>5. QED
  BY <1>3, <1>4

-----------------------------------------------------------------------------
(* The invariant. *)

\* The store counts its commands.
Counts(st) == (\E C : st \in Stores(C)) /\ Cumulative(st)

\* The points lead from one position of the part to a later one.
InOrder(ps, first, last) ==
    /\ \A i \in DOMAIN ps : ps[i] \in first .. last
    /\ \A i \in DOMAIN ps, j \in DOMAIN ps : j < i => ps[j] <= ps[i]

DeflateInv ==
    /\ data \in Inputs /\ maxblocks \in Nat
    /\ from \in Nat /\ from <= Len(data)
    /\ Counts(lz77)
    /\ stage = "split" =>
         InOrder([i \in DOMAIN lz77.commands |-> lz77.commands[i].pos], from, PartEnd)
    /\ stage \in {"split", "resplit"} => SplitOk(split, Len(lz77.commands), maxblocks)
    /\ stage = "squeeze" => /\ bytepoints \in Seq(Nat) /\ InOrder(bytepoints, from, PartEnd)
                            /\ points \in Seq(Nat) /\ Len(points) <= Len(bytepoints)

\* The commands of a store are a sequence.
LEMMA StoreLength ==
    ASSUME NEW st, Counts(st)
    PROVE  Len(st.commands) \in Nat /\ DOMAIN st.commands = 1 .. Len(st.commands)
<1>1. PICK C : st \in Stores(C)
  BY DEF Counts
<1>2. st.commands \in Seq(C)
  BY <1>1 DEF Stores
<1>3. QED
  BY <1>2

\* Points are commands of their own, and so are the blocks given up.
LEMMA RoundsBounded ==
    ASSUME NEW size \in Nat, NEW most, NEW s, SplitOk(s, size, most)
    PROVE  Rounds(s) <= 2 * size
<1> DEFINE ps == s.points
           n == Len(ps)
<1>1. Cardinality(s.done) \in Nat /\ Cardinality(s.done) <= size
  <2>1. s.done \in SUBSET (0 .. (size - 1))
    BY DEF SplitOk
  <2>2. IsFiniteSet(0 .. (size - 1)) /\ Cardinality(0 .. (size - 1)) = size
    BY FS_Interval
  <2>3. QED
    BY <2>1, <2>2, FS_Subset, FS_CardinalityType
<1>2. /\ ps \in Seq(Nat) /\ \A i \in DOMAIN ps : ps[i] \in Nat /\ 1 < ps[i] /\ ps[i] < size
      /\ \A i, j \in DOMAIN ps : i < j => ps[i] < ps[j]
  BY DEF SplitOk, Splits, Rising
<1> HIDE DEF ps
<1>3. n \in Nat /\ DOMAIN ps = 1 .. n /\ ps = [i \in 1 .. n |-> ps[i]]
  BY <1>2
<1>4. ps \in [1 .. n -> 1 .. size]
  BY <1>2, <1>3
<1>5. ASSUME NEW i \in 1 .. n, NEW j \in 1 .. n, ps[i] = ps[j] PROVE i = j
  <2>1. ~ (i < j) /\ ~ (j < i)
    BY <1>2, <1>3, <1>5
  <2>2. QED
    BY <2>1
<1>6. ps \in Injection(1 .. n, 1 .. size)
  <2> HIDE DEF n
  <2>1. QED
    BY <1>4, <1>5 DEF Injection, IsInjective
<1>7. n <= size
  <2>1. IsFiniteSet(1 .. size) /\ Cardinality(1 .. size) = size /\ Cardinality(1 .. n) = n
    BY <1>3, FS_Interval
  <2>2. QED
    BY <1>6, <2>1, FS_Injection
<1>8. Rounds(s) = n + Cardinality(s.done)
  BY DEF Rounds, ps
<1> HIDE DEF n
<1>9. QED
  BY <1>1, <1>3, <1>7, <1>8

\* A part ends within the data, not before it starts.
LEMMA PartFacts ==
    ASSUME DeflateInv
    PROVE  PartEnd \in Nat /\ from <= PartEnd /\ PartEnd <= Len(data) /\ Len(data) \in Nat
<1>1. data \in Seq(Byte) /\ MASTER \in Nat /\ from \in Nat /\ from <= Len(data)
  BY DeflateAssumption DEF DeflateInv
<1>2. Len(data) \in Nat
  BY <1>1
<1>3. QED
  BY <1>1, <1>2 DEF PartEnd, MinOf

\* What a parse of some bytes gives can be stored and counted, at positions in
\* order.
LEMMA ParseFacts ==
    ASSUME DeflateInv, NEW start \in Nat, NEW end \in Nat, start <= end, end <= Len(data),
           NEW commands \in Parses(data, start, end)
    PROVE  /\ Counts(Stored(commands)) /\ Stored(commands).commands = commands
           /\ Len(commands) \in Nat
           /\ InOrder([i \in DOMAIN commands |-> commands[i].pos], start, end)
<1> DEFINE C == [litlen : Nat, dist : Nat, pos : start .. (end - 1)]
<1>1. /\ commands \in Seq(C)
      /\ \A i \in 1 .. Len(commands) : \A j \in 1 .. (i - 1) : commands[j].pos < commands[i].pos
  <2>1. data \in Inputs /\ start \in 0 .. Len(data) /\ end \in start .. Len(data)
    <3>1. Len(data) \in Nat
      BY PartFacts
    <3>2. QED
      BY <3>1 DEF DeflateInv
  <2>2. QED
    BY <2>1, ParseAssumption
<1>2. Counts(Stored(commands)) /\ Stored(commands).commands = commands
  <2> HIDE DEF C
  <2>1. QED
    BY <1>1, StoredCounts DEF Counts
<1>3. \A i \in 1 .. Len(commands) : commands[i].pos \in start .. (end - 1)
  <2>1. \A c \in C : c.pos \in start .. (end - 1)
    OBVIOUS
  <2>2. \A i \in 1 .. Len(commands) : commands[i] \in C
    <3> HIDE DEF C
    <3>1. QED
      BY <1>1
  <2> HIDE DEF C
  <2>3. QED
    BY <2>1, <2>2
<1>4. Len(commands) \in Nat /\ DOMAIN commands = 1 .. Len(commands)
  <2> HIDE DEF C
  <2>1. QED
    BY <1>1
<1> DEFINE ps == [i \in DOMAIN commands |-> commands[i].pos]
<1>5. DOMAIN ps = 1 .. Len(commands)
  BY <1>4
<1>6. \A i \in 1 .. Len(commands) : ps[i] = commands[i].pos
  BY <1>4
<1> HIDE DEF ps, C
<1>7. \A i \in DOMAIN ps : ps[i] \in start .. end
  BY <1>3, <1>5, <1>6
<1>8. ASSUME NEW i \in 1 .. Len(commands), NEW j \in 1 .. Len(commands), j < i
      PROVE  ps[j] <= ps[i]
  <2>1. j \in 1 .. (i - 1)
    BY <1>4, <1>8
  <2>2. commands[j].pos < commands[i].pos
    BY <1>1, <2>1
  <2>3. QED
    BY <1>3, <1>6, <2>2
<1>9. InOrder(ps, start, end)
  BY <1>5, <1>7, <1>8 DEF InOrder
<1>10. QED
  BY <1>2, <1>4, <1>9 DEF ps

LEMMA InvInit == Init => DeflateInv
<1> SUFFICES ASSUME Init PROVE DeflateInv
  OBVIOUS
<1>1. data \in Inputs /\ maxblocks \in Nat /\ from = 0 /\ stage = "part" /\ lz77 = EmptyStore
  BY DeflateAssumption DEF Init
<1>2. Len(data) \in Nat
  BY <1>1, DeflateAssumption
<1>3. Counts(EmptyStore)
  BY EmptyCumulative DEF Counts
<1>4. QED
  BY <1>1, <1>2, <1>3 DEF DeflateInv

\* While the part stays the same, so does where it ends.
LEMMA SamePart == ASSUME UNCHANGED <<data, from>> PROVE PartEnd' = PartEnd
BY DEF PartEnd

\* Every step keeps the invariant.
LEMMA DeflateStep == DeflateInv /\ [Next]_vars => DeflateInv'
<1> SUFFICES ASSUME DeflateInv, [Next]_vars PROVE DeflateInv'
  OBVIOUS
<1>1. /\ data \in Inputs /\ maxblocks \in Nat
      /\ from \in Nat /\ from <= Len(data) /\ Counts(lz77)
  BY DEF DeflateInv
<1>2. PartEnd \in Nat /\ from <= PartEnd /\ PartEnd <= Len(data) /\ Len(data) \in Nat
  BY PartFacts
<1>3. CASE StartPart
  <2>1. PICK commands \in Parses(data, from, PartEnd) : lz77' = Stored(commands)
    BY <1>3 DEF StartPart
  <2>2. /\ split' = StartSplit(lz77') /\ stage' = "split"
        /\ UNCHANGED <<data, maxblocks, from>>
    BY <1>3 DEF StartPart
  <2>3. /\ Counts(lz77') /\ lz77'.commands = commands /\ Len(commands) \in Nat
        /\ InOrder([i \in DOMAIN commands |-> commands[i].pos], from, PartEnd)
    BY <1>1, <1>2, <2>1, ParseFacts
  <2>4. SplitOk(split', Len(lz77'.commands), maxblocks)
    BY <1>1, <2>2, <2>3, StartSplitOk
  <2>5. PartEnd' = PartEnd
    BY <2>2, SamePart
  <2>6. QED
    BY <1>1, <2>2, <2>3, <2>4, <2>5 DEF DeflateInv
<1>4. CASE SplitStep
  <2>1. /\ stage \in {"split", "resplit"} /\ ~ split.over /\ split' = SplitOnce(lz77, split)
        /\ UNCHANGED <<data, maxblocks, stage, from, lz77, bytepoints, points>>
    BY <1>4 DEF SplitStep
  <2>2. SplitOk(split, Len(lz77.commands), maxblocks)
    BY <2>1 DEF DeflateInv
  <2>3. SplitOk(split', Len(lz77.commands), maxblocks)
    BY <1>1, <2>1, <2>2, SplitKeeps, StoreLength
  <2>4. PartEnd' = PartEnd
    BY <2>1, SamePart
  <2>5. QED
    BY <2>1, <2>3, <2>4 DEF DeflateInv
<1>5. CASE ConvertPoints
  <2> DEFINE ps == split.points
             cs == lz77.commands
             new == [i \in DOMAIN ps |-> cs[ps[i] + 1].pos]
             at == [i \in DOMAIN cs |-> cs[i].pos]
  <2>1. /\ stage = "split" /\ bytepoints' = new
        /\ lz77' = EmptyStore /\ points' = <<>> /\ stage' = "squeeze"
        /\ UNCHANGED <<data, maxblocks, from>>
    BY <1>5 DEF ConvertPoints
  <2>2. /\ Splits(ps, Len(cs)) /\ InOrder(at, from, PartEnd)
        /\ Len(cs) \in Nat /\ DOMAIN cs = 1 .. Len(cs)
    BY <1>1, <2>1, StoreLength DEF DeflateInv, SplitOk
  <2>3. /\ ps \in Seq(Nat) /\ \A i \in DOMAIN ps : ps[i] \in Nat /\ 1 < ps[i] /\ ps[i] < Len(cs)
        /\ \A i, j \in DOMAIN ps : i < j => ps[i] < ps[j]
    BY <2>2 DEF Splits, Rising
  <2> HIDE DEF ps, cs
  <2>4. \A i \in DOMAIN ps : ps[i] + 1 \in DOMAIN at /\ new[i] = at[ps[i] + 1]
    BY <2>2, <2>3
  <2>5. /\ \A k \in DOMAIN at : at[k] \in from .. PartEnd
        /\ \A k \in DOMAIN at, l \in DOMAIN at : l < k => at[l] <= at[k]
    BY <2>2 DEF InOrder
  <2>6. DOMAIN new = DOMAIN ps /\ new = [i \in 1 .. Len(ps) |-> new[i]] /\ DOMAIN ps = 1 .. Len(ps)
        /\ Len(ps) \in Nat
    BY <2>3
  <2> HIDE DEF at, new
  <2>7. \A i \in DOMAIN ps : new[i] \in from .. PartEnd /\ new[i] \in Nat
    BY <1>1, <1>2, <2>4, <2>5
  <2>8. ASSUME NEW i \in DOMAIN ps, NEW j \in DOMAIN ps, j < i PROVE new[j] <= new[i]
    <3>1. ps[j] + 1 < ps[i] + 1
      BY <2>3, <2>8
    <3>2. QED
      BY <2>4, <2>5, <3>1
  <2>9. new \in Seq(Nat) /\ InOrder(new, from, PartEnd)
    BY <2>6, <2>7, <2>8 DEF InOrder
  <2>10. Len(new) \in Nat /\ Len(<<>>) = 0 /\ <<>> \in Seq(Nat)
    BY <2>9
  <2>11. Counts(EmptyStore)
    BY EmptyCumulative DEF Counts
  <2>12. PartEnd' = PartEnd
    BY <2>1, SamePart
  <2>13. QED
    BY <1>1, <2>1, <2>9, <2>10, <2>11, <2>12 DEF DeflateInv
<1>6. CASE Squeeze
  <2> DEFINE k == Len(points) + 1
             range == AtPoint(bytepoints, k, from, PartEnd)
             last == k > Len(bytepoints)
  <2>1. /\ stage = "squeeze" /\ UNCHANGED <<data, maxblocks, from, bytepoints, block, out>>
        /\ \E commands \in Parses(data, range[1], range[2]) :
             /\ lz77' = ZopfliAppendLZ77Store(Stored(commands), lz77)
             /\ points' = IF last THEN points ELSE Append(points, Len(lz77'.commands))
             /\ stage' = CASE ~last -> "squeeze"
                           [] last /\ Len(points) > 1 -> "resplit"
                           [] OTHER -> "emit"
             /\ split' = IF stage' = "resplit" THEN StartSplit(lz77') ELSE split
    BY <1>6 DEF Squeeze
  <2>2. PICK commands \in Parses(data, range[1], range[2]) :
             /\ lz77' = ZopfliAppendLZ77Store(Stored(commands), lz77)
             /\ points' = IF last THEN points ELSE Append(points, Len(lz77'.commands))
             /\ stage' = CASE ~last -> "squeeze"
                           [] last /\ Len(points) > 1 -> "resplit"
                           [] OTHER -> "emit"
             /\ split' = IF stage' = "resplit" THEN StartSplit(lz77') ELSE split
    BY <2>1
  <2>3. /\ bytepoints \in Seq(Nat) /\ InOrder(bytepoints, from, PartEnd)
        /\ points \in Seq(Nat) /\ Len(points) <= Len(bytepoints)
    BY <2>1 DEF DeflateInv
  <2>4. /\ k \in Nat /\ k >= 1 /\ k <= Len(bytepoints) + 1 /\ Len(bytepoints) \in Nat
        /\ DOMAIN bytepoints = 1 .. Len(bytepoints)
    BY <2>3
  <2>5. range[1] \in Nat /\ range[2] \in Nat /\ range[1] <= range[2] /\ range[2] <= Len(data)
    <3> DEFINE first == IF k = 1 THEN from ELSE bytepoints[k - 1]
               end == IF k = Len(bytepoints) + 1 THEN PartEnd ELSE bytepoints[k]
    <3>1. range[1] = first /\ range[2] = end
      BY DEF AtPoint
    <3>2. /\ \A i \in 1 .. Len(bytepoints) : bytepoints[i] \in from .. PartEnd
          /\ \A i, j \in 1 .. Len(bytepoints) : j < i => bytepoints[j] <= bytepoints[i]
      BY <2>3, <2>4 DEF InOrder
    <3> HIDE DEF k
    <3>3. first \in from .. PartEnd /\ (k # 1 => k - 1 \in 1 .. Len(bytepoints))
      BY <1>1, <1>2, <2>4, <3>2
    <3>4. end \in from .. PartEnd
          /\ (k # Len(bytepoints) + 1 => k \in 1 .. Len(bytepoints))
      BY <1>1, <1>2, <2>4, <3>2
    <3>5. first <= end
      <4>1. CASE k = 1 \/ k = Len(bytepoints) + 1
        BY <1>1, <1>2, <3>3, <3>4, <4>1
      <4>2. CASE k # 1 /\ k # Len(bytepoints) + 1
        <5>1. k - 1 < k
          BY <2>4
        <5>2. QED
          BY <3>2, <3>3, <3>4, <4>2, <5>1
      <4>3. QED
        BY <4>1, <4>2
    <3> HIDE DEF first, end, range
    <3>6. QED
      BY <1>1, <1>2, <3>1, <3>3, <3>4, <3>5
  <2>6. Counts(Stored(commands)) /\ Stored(commands).commands = commands /\ Len(commands) \in Nat
    <3> HIDE DEF range
    <3>1. QED
      BY <2>2, <2>5, ParseFacts
  <2>7. Counts(lz77')
    <3>1. PICK C : lz77 \in Stores(C)
      BY <1>1 DEF Counts
    <3> DEFINE D == C \cup {commands[n] : n \in Nat}
               st == Stored(commands)
    <3>2. lz77 \in Stores(D) /\ \A n \in Nat : st.commands[n] \in D
      <4>1. lz77.commands \in Seq(C)
        BY <3>1 DEF Stores
      <4>2. lz77.commands \in Seq(D)
        BY <4>1
      <4>3. lz77 = [commands |-> lz77.commands, ll |-> lz77.ll, d |-> lz77.d]
            /\ lz77.ll \in Seq([LLSymbols -> Nat]) /\ lz77.d \in Seq([DSymbols -> Nat])
        BY <3>1 DEF Stores
      <4>4. \A n \in Nat : st.commands[n] \in D
        BY <2>6
      <4> HIDE DEF D, st
      <4>5. lz77 \in Stores(D)
        BY <4>2, <4>3 DEF Stores
      <4>6. QED
        BY <4>4, <4>5
    <3>3. Len(st.commands) \in Nat /\ Cumulative(lz77)
      BY <1>1, <2>6 DEF Counts
    <3>4. lz77' = ZopfliAppendLZ77Store(st, lz77)
      BY <2>2
    <3> HIDE DEF D, st
    <3>5. lz77' \in Stores(D) /\ Cumulative(lz77')
      BY <3>2, <3>3, <3>4, AppendCounts
    <3>6. QED
      BY <3>5 DEF Counts
  <2>8. Len(lz77'.commands) \in Nat
    BY <2>7, StoreLength
  <2>9. stage' = "resplit" => SplitOk(split', Len(lz77'.commands), maxblocks)
    BY <1>1, <2>2, <2>8, StartSplitOk
  <2>10. stage' # "split" /\ (stage' = "squeeze" => ~ last)
    <3> HIDE DEF last
    <3>1. QED
      BY <2>2
  <2>11. stage' = "squeeze" => points' \in Seq(Nat) /\ Len(points') <= Len(bytepoints)
    <3> SUFFICES ASSUME stage' = "squeeze"
                 PROVE  points' \in Seq(Nat) /\ Len(points') <= Len(bytepoints)
      OBVIOUS
    <3>1. points' = Append(points, Len(lz77'.commands)) /\ k <= Len(bytepoints)
      BY <2>2, <2>4, <2>10
    <3> DEFINE size == Len(lz77'.commands)
    <3>2. size \in Nat
      BY <2>8
    <3> HIDE DEF size
    <3>3. Append(points, size) \in Seq(Nat) /\ Len(Append(points, size)) = k
      BY <2>3, <3>2
    <3>4. QED
      BY <3>1, <3>3 DEF size
  <2>12. PartEnd' = PartEnd
    BY <2>1, SamePart
  <2> HIDE DEF range, last, k
  <2>13. QED
    BY <1>1, <2>1, <2>3, <2>7, <2>9, <2>10, <2>11, <2>12 DEF DeflateInv
<1>7. CASE ChooseSplit
  <2>1. stage' = "emit" /\ UNCHANGED <<data, maxblocks, from, lz77>>
    BY <1>7 DEF ChooseSplit
  <2>2. QED
    BY <1>1, <2>1 DEF DeflateInv
<1>8. CASE EmitBlock
  <2>1. /\ stage' \in {"emit", "part", "trailer"} /\ from' \in {from, PartEnd}
        /\ UNCHANGED <<data, maxblocks, lz77>>
    BY <1>8 DEF EmitBlock
  <2>2. from' \in Nat /\ from' <= Len(data)
    BY <1>1, <1>2, <2>1
  <2>3. QED
    BY <1>1, <2>1, <2>2 DEF DeflateInv
<1>9. CASE Trailer
  <2>1. stage' = "end" /\ UNCHANGED <<data, maxblocks, from, lz77>>
    BY <1>9 DEF Trailer
  <2>2. QED
    BY <1>1, <2>1 DEF DeflateInv
<1>10. CASE UNCHANGED vars
  <2>1. PartEnd' = PartEnd
    BY <1>10, SamePart DEF vars
  <2>2. QED
    BY <1>10, <2>1 DEF vars, DeflateInv
<1>11. QED
  BY <1>3, <1>4, <1>5, <1>6, <1>7, <1>8, <1>9, <1>10 DEF Next

\* DeflateInv holds in every run.
LEMMA DeflateInvariant == Spec => []DeflateInv
<1>1. Init => DeflateInv
  BY InvInit
<1>2. DeflateInv /\ [Next]_vars => DeflateInv'
  BY DeflateStep
<1>3. QED
  BY <1>1, <1>2, PTL DEF Spec

-----------------------------------------------------------------------------
\* The histogram of any range of the commands of a part, from the cumulative
\* ones of its chunks as ZopfliLZ77GetHistogram computes it, is what counting
\* the commands gives, in every store of a part, those put together by
\* ZopfliAppendLZ77Store included: what a block costs is computed from it.
THEOREM HistogramsAreCounts == Spec => []HistogramsMatch
<1>1. DeflateInv => HistogramsMatch
  <2> SUFFICES ASSUME DeflateInv,
                      NEW lend \in 1 .. Len(lz77.commands), NEW lstart \in 0 .. (lend - 1)
               PROVE  ZopfliLZ77GetHistogram(lz77, lstart, lend) = Counted(lz77, lstart, lend)
    BY DEF HistogramsMatch
  <2>1. Counts(lz77)
    BY DEF DeflateInv
  <2>2. PICK C : lz77 \in Stores(C)
    BY <2>1 DEF Counts
  <2>3. QED
    BY <2>1, <2>2, RangeCounts DEF Counts
<1>2. QED
  BY <1>1, DeflateInvariant, PTL

\* Splitting, whatever blocks cost: ZopfliBlockSplitLZ77 gives points in order
\* that leave no block empty and at most the blocks asked for, and every round
\* splits a block that has commands and was not given up.
THEOREM SplittingIsSound == Spec => []SplitPointsSound
<1>1. DeflateInv => SplitPointsSound
  <2> SUFFICES ASSUME DeflateInv, stage \in {"split", "resplit"}
               PROVE  LET ps == split.points
                          size == Len(lz77.commands)
                      IN  /\ \A i \in DOMAIN ps : 1 < ps[i] /\ ps[i] < size
                                                  /\ (i > 1 => ps[i - 1] < ps[i])
                          /\ maxblocks > 0 => Len(ps) < maxblocks
                          /\ ~split.over => /\ split.lstart + 1 < split.lend
                                            /\ split.lstart \notin split.done
    BY DEF SplitPointsSound
  <2> DEFINE ps == split.points
             size == Len(lz77.commands)
  <2>1. /\ Splits(ps, size)
        /\ maxblocks > 0 => Len(ps) < maxblocks
        /\ ~split.over => split.lstart + 1 < split.lend /\ split.lstart \notin split.done
    BY DEF DeflateInv, SplitOk
  <2>2. ASSUME NEW i \in DOMAIN ps
        PROVE  1 < ps[i] /\ ps[i] < size /\ (i > 1 => ps[i - 1] < ps[i])
    <3>1. ps \in Seq(Nat) /\ 1 < ps[i] /\ ps[i] < size
      BY <2>1 DEF Splits
    <3>2. ASSUME i > 1 PROVE ps[i - 1] < ps[i]
      <4> HIDE DEF ps
      <4>1. i - 1 \in DOMAIN ps /\ i - 1 < i
        BY <3>1, <3>2
      <4>2. QED
        BY <2>1, <4>1 DEF Splits, Rising
    <3>3. QED
      BY <3>1, <3>2
  <2>3. QED
    BY <2>1, <2>2
<1>2. QED
  BY <1>1, DeflateInvariant, PTL

\* The search of FindMinimum comes to an end whatever the places cost: it is
\* over within as many rounds as there are places between start and end, which
\* is as many as Narrowed gives it; the loop of the code has no such bound.
THEOREM SearchEnds ==
    \A cost : \A start, end \in Nat : start < end => Narrowed(cost, start, end).over
BY NarrowedKeeps

\* Splitting comes to an end whatever blocks cost: every round of
\* ZopfliBlockSplitLZ77 adds a point, gives a block up or is the last one, and
\* there is a bound to points and blocks given up.
THEOREM SplittingEnds ==
    Spec => [][SplitStep => /\ Advances(split, split')
                            /\ Rounds(split') <= 2 * Len(lz77.commands)]_vars
<1>1. DeflateInv /\ SplitStep => /\ Advances(split, split')
                                /\ Rounds(split') <= 2 * Len(lz77.commands)
  <2> SUFFICES ASSUME DeflateInv, SplitStep
               PROVE  Advances(split, split') /\ Rounds(split') <= 2 * Len(lz77.commands)
    OBVIOUS
  <2>1. stage \in {"split", "resplit"} /\ ~ split.over /\ split' = SplitOnce(lz77, split)
    BY DEF SplitStep
  <2>2. /\ SplitOk(split, Len(lz77.commands), maxblocks) /\ maxblocks \in Nat
        /\ Len(lz77.commands) \in Nat
    BY <2>1, StoreLength DEF DeflateInv
  <2>3. SplitOk(split', Len(lz77.commands), maxblocks) /\ Advances(split, split')
    BY <2>1, <2>2, SplitKeeps
  <2>4. QED
    BY <2>2, <2>3, RoundsBounded
<1>2. QED
  BY <1>1, DeflateInvariant, PTL

-----------------------------------------------------------------------------
(* Codes: the leaves. *)

\* At least two leaves, the lightest first.
LeavesOk(ls) ==
    /\ ls \in Seq([weight : Nat, symbol : Nat]) /\ Len(ls) >= 2
    /\ \A k \in 1 .. Len(ls) : ls[k].weight > 0
    /\ \A k, l \in 1 .. Len(ls) : k < l => ls[k].weight <= ls[l].weight

\* The rank of a symbol is one more than that of the symbols before it.
LEMMA RanksDiffer ==
    ASSUME NEW h, NEW used, IsFiniteSet(used), used \subseteq Nat, \A i \in used : h[i] \in Nat,
           NEW i \in used, NEW j \in used, Lighter(h, j, i)
    PROVE  /\ Cardinality({k \in used : Lighter(h, k, j)}) \in Nat
           /\ Cardinality({k \in used : Lighter(h, k, i)}) \in Nat
           /\ Cardinality({k \in used : Lighter(h, k, i)}) <= Cardinality(used) - 1
           /\ Cardinality({k \in used : Lighter(h, k, j)}) < Cardinality({k \in used : Lighter(h, k, i)})
<1> DEFINE B(x) == {k \in used : Lighter(h, k, x)}
<1>1. \A x \in used : x \in Nat /\ h[x] \in Nat
  OBVIOUS
<1>2. B(j) \subseteq B(i) /\ j \in B(i) /\ j \notin B(j) /\ i \notin B(i)
  <2>1. ASSUME NEW k \in used, Lighter(h, k, j) PROVE Lighter(h, k, i)
    <3>1. k \in Nat /\ i \in Nat /\ j \in Nat /\ h[k] \in Nat /\ h[i] \in Nat /\ h[j] \in Nat
      BY <1>1
    <3>2. QED
      BY <2>1, <3>1 DEF Lighter
  <2>2. \A x \in used : ~ Lighter(h, x, x)
    BY <1>1 DEF Lighter
  <2>3. QED
    BY <2>1, <2>2
<1>3. B(i) \subseteq used \ {i} /\ B(j) \subseteq used \ {j} /\ B(j) \cup {j} \subseteq B(i)
  BY <1>2
<1> HIDE DEF B
<1>4. IsFiniteSet(used \ {i}) /\ Cardinality(used \ {i}) = Cardinality(used) - 1
  BY FS_RemoveElement
<1>5. IsFiniteSet(B(i)) /\ Cardinality(B(i)) <= Cardinality(used) - 1
  BY <1>3, <1>4, FS_Subset
<1>6. IsFiniteSet(B(j))
  BY <1>2, <1>5, FS_Subset
<1>7. Cardinality(B(j) \cup {j}) = Cardinality(B(j)) + 1
  BY <1>2, <1>6, FS_AddElement
<1>8. Cardinality(B(j) \cup {j}) <= Cardinality(B(i))
  BY <1>3, <1>5, FS_Subset
<1>9. Cardinality(B(i)) \in Nat /\ Cardinality(B(j)) \in Nat
  BY <1>5, <1>6, FS_CardinalityType
<1>10. QED
  BY <1>5, <1>7, <1>8, <1>9 DEF B

\* Every used symbol has a leaf, with its frequency as the weight.
LeavesOf(ls, h) ==
    /\ \A k \in 1 .. Len(ls) : ls[k].symbol \in DOMAIN h /\ ls[k].weight = h[ls[k].symbol]
    /\ \A i \in DOMAIN h : h[i] > 0 => \E k \in 1 .. Len(ls) : ls[k].symbol = i

\* The leaves are the used symbols in the order of their weights.
LEMMA LeavesSorted ==
    ASSUME NEW h \in Histograms, Len(Leaves(h)) >= 2
    PROVE  LeavesOk(Leaves(h)) /\ LeavesOf(Leaves(h), h)
<1> DEFINE used == {i \in DOMAIN h : h[i] > 0}
           n == Cardinality(used)
           B(i) == {j \in used : Lighter(h, j, i)}
           ranks == [i \in used |-> Cardinality(B(i)) + 1]
           ranked == AntiFunction(ranks)
           ls == [k \in 1 .. n |-> [weight |-> h[ranked[k]], symbol |-> ranked[k]]]
<1>1. Leaves(h) = ls
  BY DEF Leaves, Tabulated
<1>2. /\ IsFiniteSet(used) /\ used \subseteq Nat
      /\ \A i \in used : h[i] \in Nat /\ h[i] > 0
  <2>1. IsFiniteSet(DOMAIN h) /\ DOMAIN h \subseteq Nat /\ h \in [DOMAIN h -> Nat]
    BY CodesAssumption
  <2>2. QED
    BY <2>1, FS_Subset
<1> HIDE DEF used
<1>3. n \in Nat
  BY <1>2, FS_CardinalityType
<1>4. \A i, j \in used : i # j => Lighter(h, i, j) \/ Lighter(h, j, i)
  BY <1>2 DEF Lighter
<1>5. \A i, j \in used : Lighter(h, j, i) => /\ Cardinality(B(j)) \in Nat
                                             /\ Cardinality(B(i)) \in Nat
                                             /\ Cardinality(B(i)) <= n - 1
                                             /\ Cardinality(B(j)) < Cardinality(B(i))
  BY <1>2, RanksDiffer
<1>6. ASSUME NEW i \in used PROVE Cardinality(B(i)) \in Nat /\ Cardinality(B(i)) <= n - 1
  <2>1. B(i) \subseteq used \ {i}
    BY <1>2 DEF Lighter
  <2>2. IsFiniteSet(used \ {i}) /\ Cardinality(used \ {i}) = n - 1
    BY <1>2, FS_RemoveElement
  <2> HIDE DEF B
  <2>3. QED
    BY <2>1, <2>2, FS_Subset, FS_CardinalityType
<1> HIDE DEF B, n
<1>7. ranks \in [used -> 1 .. n]
  BY <1>3, <1>6
<1>8. \A i \in used : ranks[i] = Cardinality(B(i)) + 1
  OBVIOUS
<1>9. \A i, j \in used : Lighter(h, j, i) => ranks[j] < ranks[i]
  BY <1>5, <1>8
<1> HIDE DEF ranks
<1>10. \A i, j \in used : i # j => ranks[i] # ranks[j]
  BY <1>4, <1>7, <1>9
<1>11. ranks \in Injection(used, 1 .. n)
  BY <1>7, <1>10 DEF Injection, IsInjective
<1>12. ranks \in Surjection(used, 1 .. n)
  <2>1. IsFiniteSet(1 .. n) /\ Cardinality(1 .. n) = n
    BY <1>3, FS_Interval
  <2>2. QED
    BY <1>11, <2>1, FS_Injection DEF n
<1>13. DOMAIN ranks = used /\ 1 .. n \subseteq Range(ranks)
  BY <1>7, <1>12 DEF Surjection, Range
<1>14. \A k \in 1 .. n : ranked[k] \in used /\ ranks[ranked[k]] = k
  <2> SUFFICES ASSUME NEW k \in 1 .. n PROVE ranked[k] \in used /\ ranks[ranked[k]] = k
    OBVIOUS
  <2>1. ranked[k] = CHOOSE i \in used : k \in Range(ranks) => ranks[i] = k
    BY <1>13 DEF AntiFunction, Inverse
  <2>2. \E i \in used : ranks[i] = k
    BY <1>13 DEF Range
  <2>3. QED
    BY <1>13, <2>1, <2>2
<1> HIDE DEF ranked
<1>15. DOMAIN ls = 1 .. n /\ \A k \in 1 .. n : ls[k] = [weight |-> h[ranked[k]], symbol |-> ranked[k]]
  OBVIOUS
<1>16. ls \in Seq([weight : Nat, symbol : Nat]) /\ Len(ls) = n
  <2> DEFINE L == [weight : Nat, symbol : Nat]
  <2>1. \A k \in 1 .. n : ls[k] \in L
    BY <1>2, <1>14, <1>15
  <2>2. ls = [k \in 1 .. n |-> ls[k]]
    OBVIOUS
  <2> HIDE DEF ls, L
  <2>3. ls \in [1 .. n -> L]
    BY <2>1, <2>2
  <2>4. ls \in Seq(L) /\ Len(ls) = n
    BY <1>3, <2>3
  <2>5. QED
    BY <2>4 DEF L
<1>20. LeavesOf(ls, h)
  <2>1. ASSUME NEW k \in 1 .. n
        PROVE  ls[k].symbol \in DOMAIN h /\ ls[k].weight = h[ls[k].symbol]
    <3>1. ranked[k] \in DOMAIN h
      BY <1>14 DEF used
    <3>2. ls[k].symbol = ranked[k] /\ ls[k].weight = h[ranked[k]]
      BY <1>15
    <3>3. QED
      BY <3>1, <3>2
  <2>2. ASSUME NEW i \in used PROVE \E k \in 1 .. n : ls[k].symbol = i
    <3> DEFINE k == ranks[i]
    <3>1. k \in 1 .. n
      BY <1>7
    <3>2. ranked[k] \in used /\ ranks[ranked[k]] = ranks[i]
      BY <1>14, <3>1
    <3>3. ranked[k] = i
      BY <1>10, <3>2
    <3> HIDE DEF k
    <3>4. ls[k].symbol = i
      BY <1>15, <3>1, <3>3
    <3>5. QED
      BY <3>1, <3>4
  <2>3. \A i \in DOMAIN h : h[i] > 0 => i \in used
    BY DEF used
  <2> HIDE DEF ls
  <2>4. QED
    BY <1>16, <2>1, <2>2, <2>3 DEF LeavesOf
<1> HIDE DEF ls
<1>17. \A k \in 1 .. n : ls[k].weight \in Nat /\ ls[k].weight > 0
  <2> SUFFICES ASSUME NEW k \in 1 .. n PROVE ls[k].weight \in Nat /\ ls[k].weight > 0
    OBVIOUS
  <2> DEFINE a == ranked[k]
  <2>1. a \in used /\ ls[k].weight = h[a]
    BY <1>14, <1>15
  <2> HIDE DEF a
  <2>2. QED
    BY <1>2, <2>1
<1>18. ASSUME NEW k \in 1 .. n, NEW l \in 1 .. n, k < l PROVE ls[k].weight <= ls[l].weight
  <2> DEFINE a == ranked[k]
             b == ranked[l]
  <2>1. a \in used /\ b \in used /\ ~ (ranks[b] < ranks[a])
    BY <1>14, <1>18
  <2>2. ls[k].weight = h[a] /\ ls[l].weight = h[b]
    BY <1>15
  <2> HIDE DEF a, b
  <2>3. ~ (h[b] < h[a])
    BY <1>9, <2>1 DEF Lighter
  <2>4. h[a] \in Nat /\ h[b] \in Nat
    BY <1>2, <2>1
  <2>5. h[a] <= h[b]
    BY <2>3, <2>4
  <2>6. QED
    BY <2>2, <2>5
<1>19. QED
  BY <1>1, <1>16, <1>17, <1>18, <1>20 DEF LeavesOk

-----------------------------------------------------------------------------
(* Codes: chains. *)

Nodes == [weight : Nat, tail : Nat, count : Nat, inuse : BOOLEAN]

\* c are the nodes from n on, at most d of them, all in use, with fewer leaves
\* the later.
Path(p, n, c, d) ==
    /\ c \in Seq(Nat) /\ Len(c) >= 1 /\ Len(c) <= d
    /\ c[1] = n
    /\ \A k \in 1 .. Len(c) : /\ c[k] \in 1 .. Len(p)
                              /\ p[c[k]].inuse
                              /\ p[c[k]].tail = IF k = Len(c) THEN 0 ELSE c[k + 1]
                              /\ k < Len(c) => p[c[k + 1]].count <= p[c[k]].count
Chained(p, n, d) == \E c : Path(p, n, c, d)

\* A walk along a path meets its nodes and comes to the end.
LEMMA ChainIs ==
    ASSUME NEW s, Len(s.lists) \in Nat, NEW n, NEW c, NEW d \in Nat, Path(s.pool, n, c, d),
           d <= Len(s.lists)
    PROVE  /\ Chain(s, n) = {c[k] : k \in 1 .. Len(c)}
           /\ Traversed(s, n).node = 0
<1> DEFINE p == s.pool
           N == Len(s.lists)
           m == Len(c)
           base == [node |-> n, met |-> {}]
           W == CHOOSE f : f = [i \in Nat |-> IF i = 0 THEN base ELSE Onward(p, f[i - 1])]
           g == [i \in Nat |-> [node |-> IF i < m THEN c[i + 1] ELSE 0,
                                met |-> {c[k] : k \in {j \in 1 .. m : j <= i}}]]
<1>1. /\ m \in Nat /\ m >= 1 /\ m <= N /\ N \in Nat /\ c[1] = n
      /\ \A k \in 1 .. m : /\ c[k] \in Nat /\ c[k] # 0
                           /\ p[c[k]].tail = IF k = m THEN 0 ELSE c[k + 1]
  BY DEF Path
<1>2. Traversed(s, n) = W[N] /\ Chain(s, n) = W[N].met
  BY DEF Traversed, Chain
<1> HIDE DEF p, N, m
<1>3. g[0] = base
  <2>1. {j \in 1 .. m : j <= 0} = {}
    OBVIOUS
  <2>2. g[0] = [node |-> IF 0 < m THEN c[0 + 1] ELSE 0, met |-> {c[k] : k \in {j \in 1 .. m : j <= 0}}]
    OBVIOUS
  <2>3. {c[k] : k \in {j \in 1 .. m : j <= 0}} = {}
    BY <2>1
  <2>4. 0 < m /\ c[0 + 1] = n
    BY <1>1
  <2> HIDE DEF g
  <2>5. QED
    BY <2>2, <2>3, <2>4
<1>4. ASSUME NEW i \in Nat \ {0} PROVE g[i] = Onward(p, g[i - 1])
  <2> DEFINE w == g[i - 1]
             A == {j \in 1 .. m : j <= i - 1}
             B == {j \in 1 .. m : j <= i}
  <2>1. i - 1 \in Nat /\ (i - 1) + 1 = i
    OBVIOUS
  <2>2. w.node = (IF i - 1 < m THEN c[i] ELSE 0) /\ w.met = {c[k] : k \in A}
    BY <2>1
  <2>3. g[i] = [node |-> IF i < m THEN c[i + 1] ELSE 0, met |-> {c[k] : k \in B}]
    OBVIOUS
  <2>4. CASE i <= m
    <3>1. w.node = c[i] /\ c[i] # 0 /\ i \in 1 .. m
      BY <1>1, <2>2, <2>4
    <3>2. B = A \cup {i}
      BY <2>4, <1>1
    <3> HIDE DEF A, B, w, g
    <3>3. p[w.node].tail = IF i < m THEN c[i + 1] ELSE 0
      <4>1. p[c[i]].tail = IF i = m THEN 0 ELSE c[i + 1]
        BY <1>1, <3>1
      <4>2. i = m \/ i < m
        BY <1>1, <2>4
      <4>3. ~ (i = m /\ i < m)
        BY <1>1
      <4>4. QED
        BY <3>1, <4>1, <4>2, <4>3
    <3>4. {c[k] : k \in B} = w.met \cup {w.node}
      BY <2>2, <3>1, <3>2
    <3>5. Onward(p, w) = [node |-> p[w.node].tail, met |-> w.met \cup {w.node}]
      BY <3>1 DEF Onward
    <3>6. QED
      BY <2>3, <3>3, <3>4, <3>5 DEF w
  <2>5. CASE ~ (i <= m)
    <3>1. w.node = 0 /\ B = A
      BY <1>1, <2>2, <2>5
    <3>2. w = [node |-> 0, met |-> {c[k] : k \in A}]
      <4>1. w = [node |-> IF i - 1 < m THEN c[(i - 1) + 1] ELSE 0, met |-> {c[k] : k \in A}]
        BY <2>1
      <4>2. ~ (i - 1 < m)
        BY <1>1, <2>5
      <4>3. QED
        BY <4>1, <4>2
    <3>3. g[i] = w
      <4>1. ~ (i < m)
        BY <1>1, <2>5
      <4> HIDE DEF A, B, w, g
      <4>2. QED
        BY <2>3, <3>1, <3>2, <4>1
    <3>4. QED
      BY <3>1, <3>3 DEF Onward
  <2>6. QED
    BY <2>4, <2>5
<1>5. g = [i \in Nat |-> IF i = 0 THEN base ELSE Onward(p, g[i - 1])]
  <2>1. \A i \in Nat : g[i] = IF i = 0 THEN base ELSE Onward(p, g[i - 1])
    BY <1>3, <1>4
  <2>2. g = [i \in Nat |-> g[i]]
    OBVIOUS
  <2> HIDE DEF g
  <2>3. QED
    BY <2>1, <2>2
<1>6. g[N].node = 0 /\ g[N].met = {c[k] : k \in 1 .. m}
  <2>1. {j \in 1 .. m : j <= N} = 1 .. m
    BY <1>1
  <2>2. QED
    BY <1>1, <2>1
<1> HIDE DEF g, base
<1>7. W = [i \in Nat |-> IF i = 0 THEN base ELSE Onward(p, W[i - 1])]
  BY <1>5
<1> HIDE DEF W
<1>8. \A i \in Nat : i >= 0 => i \in {j \in Nat : W[j] = g[j]}
  <2> DEFINE S == {j \in Nat : W[j] = g[j]}
  <2>1. 0 \in S
    BY <1>3, <1>7
  <2>2. ASSUME NEW i \in Nat, i \in S PROVE i + 1 \in S
    <3>1. i + 1 \in Nat /\ i + 1 # 0 /\ (i + 1) - 1 = i /\ W[i] = g[i]
      BY <2>2
    <3>2. W[i + 1] = Onward(p, W[i])
      BY <1>7, <3>1
    <3>3. g[i + 1] = Onward(p, g[i])
      BY <1>4, <3>1
    <3>4. QED
      BY <3>1, <3>2, <3>3
  <2> HIDE DEF S
  <2>3. \A i \in Nat : i >= 0 => i \in S
    BY <2>1, <2>2, Induction
  <2>4. QED
    BY <2>3 DEF S
<1>9. W[N] = g[N]
  BY <1>1, <1>8
<1>10. QED
  BY <1>2, <1>6, <1>9 DEF m

\* A path stays while its nodes do.
LEMMA PathKept ==
    ASSUME NEW p, NEW q, NEW n, NEW c, NEW d, Path(p, n, c, d),
           \A k \in 1 .. Len(c) : c[k] \in 1 .. Len(q) /\ q[c[k]] = p[c[k]]
    PROVE  Path(q, n, c, d)
<1>1. Len(c) \in Nat
  BY DEF Path
<1>2. ASSUME NEW k \in 1 .. Len(c), k < Len(c) PROVE q[c[k + 1]] = p[c[k + 1]]
  BY <1>1, <1>2
<1>3. QED
  BY <1>1, <1>2 DEF Path

\* A node before a path makes a longer one.
LEMMA PathLonger ==
    ASSUME NEW p, NEW f \in 1 .. Len(p), Len(p) \in Nat, NEW t, NEW d \in Nat, NEW c, Path(p, t, c, d),
           p[f].inuse, p[f].tail = t, p[t].count <= p[f].count
    PROVE  Chained(p, f, d + 1)
<1> DEFINE m == Len(c)
           e == <<f>> \o c
<1>1. /\ c \in Seq(Nat) /\ m \in Nat /\ m >= 1 /\ m <= d /\ c[1] = t /\ f \in Nat
      /\ \A k \in 1 .. m : /\ c[k] \in 1 .. Len(p) /\ p[c[k]].inuse
                           /\ p[c[k]].tail = IF k = m THEN 0 ELSE c[k + 1]
                           /\ k < m => p[c[k + 1]].count <= p[c[k]].count
  BY SMTT(30) DEF Path
<1> HIDE DEF m
<1>2. /\ e \in Seq(Nat) /\ Len(e) = m + 1 /\ e[1] = f
      /\ \A k \in 2 .. (m + 1) : e[k] = c[k - 1]
  BY <1>1 DEF m
<1> HIDE DEF e
<1>3. ASSUME NEW k \in 1 .. (m + 1)
      PROVE  /\ e[k] \in 1 .. Len(p) /\ p[e[k]].inuse
             /\ p[e[k]].tail = IF k = m + 1 THEN 0 ELSE e[k + 1]
             /\ k < m + 1 => p[e[k + 1]].count <= p[e[k]].count
  <2>1. CASE k = 1
    <3>1. e[2] = t /\ e[1] = f /\ k # m + 1
      BY <1>1, <1>2, <2>1
    <3>2. QED
      BY <2>1, <3>1
  <2>2. CASE k # 1
    <3>1. k - 1 \in 1 .. m /\ e[k] = c[k - 1]
      <4>1. k \in 2 .. (m + 1) /\ k - 1 \in 1 .. m
        BY <1>1, <2>2
      <4>2. QED
        BY <1>2, <4>1
    <3>2. CASE k = m + 1
      <4>1. k - 1 = m /\ ~ (k < m + 1)
        BY <1>1, <3>2
      <4>2. QED
        BY <1>1, <3>1, <3>2, <4>1
    <3>3. CASE k # m + 1
      <4>1. e[k + 1] = c[k] /\ (k - 1) + 1 = k /\ k - 1 < m
        <5>1. k + 1 \in 2 .. (m + 1) /\ (k + 1) - 1 = k /\ (k - 1) + 1 = k /\ k - 1 < m
          BY <1>1, <2>2, <3>3
        <5>2. e[k + 1] = c[(k + 1) - 1]
          BY <1>2, <5>1
        <5>3. QED
          BY <5>1, <5>2
      <4>2. QED
        BY <1>1, <3>1, <3>3, <4>1
    <3>4. QED
      BY <3>2, <3>3
  <2>3. QED
    BY <2>1, <2>2
<1>4. Path(p, f, e, d + 1)
  BY <1>1, <1>2, <1>3 DEF Path
<1>5. QED
  BY <1>4 DEF Chained

\* What is behind the first node of a path is the end or a path.
LEMMA PathShorter ==
    ASSUME NEW p, NEW n, NEW d \in Nat, NEW c, Path(p, n, c, d)
    PROVE  \/ p[n].tail = 0
           \/ /\ p[n].tail \in 1 .. Len(p) /\ d > 1
              /\ p[p[n].tail].count <= p[n].count
              /\ Path(p, p[n].tail, Tail(c), d - 1)
              /\ \A k \in 1 .. Len(Tail(c)) : Tail(c)[k] = c[k + 1] /\ k + 1 \in 1 .. Len(c)
<1> DEFINE m == Len(c)
           e == Tail(c)
           t == p[n].tail
<1>1. /\ c \in Seq(Nat) /\ m \in Nat /\ m >= 1 /\ m <= d /\ c[1] = n
      /\ \A k \in 1 .. m : /\ c[k] \in 1 .. Len(p) /\ p[c[k]].inuse
                           /\ p[c[k]].tail = IF k = m THEN 0 ELSE c[k + 1]
                           /\ k < m => p[c[k + 1]].count <= p[c[k]].count
  BY SMTT(30) DEF Path
<1> HIDE DEF m
<1>2. CASE m = 1
  BY <1>1, <1>2
<1>3. CASE m # 1
  <2>1. t = c[2] /\ 2 \in 1 .. m /\ p[c[2]].count <= p[n].count
    <3>1. 1 \in 1 .. m /\ 1 < m /\ 1 + 1 = 2
      BY <1>1, <1>3
    <3>2. QED
      BY <1>1, <1>3, <3>1
  <2>2. e \in Seq(Nat) /\ Len(e) = m - 1 /\ \A k \in 1 .. (m - 1) : e[k] = c[k + 1]
    BY <1>1, <1>3 DEF m
  <2> HIDE DEF e, t
  <2>3. ASSUME NEW k \in 1 .. (m - 1)
        PROVE  /\ e[k] \in 1 .. Len(p) /\ p[e[k]].inuse
               /\ p[e[k]].tail = IF k = m - 1 THEN 0 ELSE e[k + 1]
               /\ k < m - 1 => p[e[k + 1]].count <= p[e[k]].count
    <3>1. k + 1 \in 1 .. m /\ e[k] = c[k + 1]
      BY <1>1, <2>2
    <3>2. CASE k = m - 1
      <4>1. k + 1 = m /\ ~ (k < m - 1)
        BY <1>1, <3>2
      <4>2. QED
        BY <1>1, <3>1, <3>2, <4>1
    <3>3. CASE k # m - 1
      <4>1. k + 1 \in 1 .. (m - 1) /\ k + 1 < m /\ k + 1 # m
        BY <1>1, <3>3
      <4>2. e[k + 1] = c[(k + 1) + 1]
        BY <2>2, <4>1
      <4>3. QED
        BY <1>1, <3>1, <3>3, <4>1, <4>2
    <3>4. QED
      BY <3>2, <3>3
  <2>4. Path(p, t, e, d - 1)
    <3>1. 1 \in 1 .. (m - 1) /\ e[1] = c[1 + 1]
      BY <1>1, <1>3, <2>2
    <3>2. e[1] = t
      BY <2>1, <3>1
    <3>3. m - 1 >= 1 /\ m - 1 <= d - 1
      BY <1>1, <1>3
    <3>4. QED
      BY <2>2, <2>3, <3>2, <3>3 DEF Path
  <2>5. \A k \in 1 .. Len(e) : e[k] = c[k + 1] /\ k + 1 \in 1 .. m
    BY <1>1, <2>2
  <2>6. QED
    BY <1>1, <1>3, <2>1, <2>4, <2>5 DEF t, e, m
<1>4. QED
  BY <1>2, <1>3

-----------------------------------------------------------------------------
(* Codes: the pool. *)

Pair == [first : Nat, second : Nat]
States(bits) ==
    [pool : Seq(Nodes), size : Nat, next : Nat \ {0}, full : BOOLEAN, lists : Seq(Pair),
     calls : Seq([index : 1 .. bits, final : BOOLEAN])]

\* The chains of a list of low index are short.
Chains(s) ==
    \A i \in 1 .. Len(s.lists) : /\ Chained(s.pool, s.lists[i].first, i)
                                 /\ Chained(s.pool, s.lists[i].second, i)

PoolOk(s, bits) ==
    /\ bits \in Nat \ {0} /\ s \in States(bits)
    /\ ~ s.full /\ s.size = PoolSize(bits) /\ Len(s.pool) <= s.size
    /\ Len(s.lists) = bits /\ Chains(s)

\* The components of a state.
LEMMA StateFacts ==
    ASSUME NEW bits, NEW s \in States(bits)
    PROVE  /\ s.pool \in Seq(Nodes) /\ s.size \in Nat /\ s.next \in Nat \ {0} /\ s.full \in BOOLEAN
           /\ s.lists \in Seq(Pair) /\ s.calls \in Seq([index : 1 .. bits, final : BOOLEAN])
           /\ Len(s.pool) \in Nat /\ DOMAIN s.pool = 1 .. Len(s.pool)
           /\ Len(s.lists) \in Nat /\ DOMAIN s.lists = 1 .. Len(s.lists)
<1>1. /\ s.pool \in Seq(Nodes) /\ s.size \in Nat /\ s.next \in Nat \ {0} /\ s.full \in BOOLEAN
      /\ s.lists \in Seq(Pair) /\ s.calls \in Seq([index : 1 .. bits, final : BOOLEAN])
  BY DEF States
<1>2. QED
  BY <1>1

\* A collection marks the nodes of the paths, which are in use already.
LEMMA LiveNodes ==
    ASSUME NEW bits, NEW s, PoolOk(s, bits)
    PROVE  /\ \A i \in 1 .. bits : \A n, c :
                n \in {s.lists[i].first, s.lists[i].second} /\ Path(s.pool, n, c, i) =>
                  \A j \in 1 .. Len(c) : c[j] \in Live(s)
           /\ \A k \in Live(s) : /\ k \in 1 .. Len(s.pool) /\ s.pool[k].inuse
                                 /\ \E i \in 1 .. bits, b \in 1 .. 2, j \in 1 .. bits : \E c :
                                      /\ Path(s.pool, IF b = 1 THEN s.lists[i].first
                                                      ELSE s.lists[i].second, c, i)
                                      /\ j <= Len(c) /\ c[j] = k
<1>1. /\ bits \in Nat /\ Len(s.lists) = bits /\ DOMAIN s.lists = 1 .. bits
      /\ \A i \in 1 .. bits : /\ Chained(s.pool, s.lists[i].first, i)
                              /\ Chained(s.pool, s.lists[i].second, i)
  BY StateFacts DEF PoolOk, Chains
<1>2. ASSUME NEW i \in 1 .. bits, NEW n, NEW c, Path(s.pool, n, c, i)
      PROVE  Chain(s, n) = {c[k] : k \in 1 .. Len(c)}
  <2>1. i \in Nat /\ i <= Len(s.lists)
    BY <1>1
  <2>2. QED
    BY <1>1, <1>2, <2>1, ChainIs
<1>3. ASSUME NEW i \in 1 .. bits, NEW n, NEW c, n \in {s.lists[i].first, s.lists[i].second},
             Path(s.pool, n, c, i), NEW j \in 1 .. Len(c)
      PROVE  c[j] \in Live(s)
  <2>1. c[j] \in Chain(s, n)
    BY <1>2, <1>3
  <2>2. n \in Roots(s.lists)
    BY <1>1, <1>3 DEF Roots
  <2>3. QED
    BY <2>1, <2>2 DEF Live
<1>4. ASSUME NEW k \in Live(s)
      PROVE  /\ k \in 1 .. Len(s.pool) /\ s.pool[k].inuse
             /\ \E i \in 1 .. bits, b \in 1 .. 2, j \in 1 .. bits : \E c :
                  /\ Path(s.pool, IF b = 1 THEN s.lists[i].first ELSE s.lists[i].second, c, i)
                  /\ j <= Len(c) /\ c[j] = k
  <2>1. PICK n \in Roots(s.lists) : k \in Chain(s, n)
    BY DEF Live
  <2>2. PICK i \in 1 .. bits : n \in {s.lists[i].first, s.lists[i].second}
    BY <1>1, <2>1 DEF Roots
  <2>3. PICK b \in 1 .. 2 : n = IF b = 1 THEN s.lists[i].first ELSE s.lists[i].second
    <3>1. 1 \in 1 .. 2 /\ 2 \in 1 .. 2 /\ 2 # 1
      OBVIOUS
    <3>2. QED
      BY <2>2, <3>1
  <2>4. PICK c : Path(s.pool, n, c, i)
    BY <1>1, <2>2 DEF Chained
  <2>5. PICK j \in 1 .. Len(c) : c[j] = k
    BY <1>2, <2>1, <2>4
  <2>6. /\ k \in 1 .. Len(s.pool) /\ s.pool[k].inuse
        /\ Len(c) \in Nat /\ Len(c) <= i
    BY <2>4, <2>5 DEF Path
  <2>7. j \in 1 .. bits /\ j <= Len(c)
    BY <1>1, <2>6
  <2>8. QED
    BY <2>3, <2>4, <2>5, <2>6, <2>7
<1>5. QED
  BY <1>3, <1>4

\* Two chains of at most bits nodes in each of bits lists are less than the pool.
LEMMA LiveIsLess ==
    ASSUME NEW bits, NEW s, PoolOk(s, bits)
    PROVE  /\ IsFiniteSet(Live(s)) /\ Cardinality(Live(s)) \in Nat
           /\ Cardinality(Live(s)) < PoolSize(bits)
<1> DEFINE B == 1 .. bits
           X == (B \X B) \X (1 .. 2)
           At(x, k) == \E c : /\ Path(s.pool, IF x[2] = 1 THEN s.lists[x[1][1]].first
                                              ELSE s.lists[x[1][1]].second, c, x[1][1])
                              /\ x[1][2] <= Len(c) /\ c[x[1][2]] = k
           at == [k \in Live(s) |-> CHOOSE x \in X : At(x, k)]
<1>1. bits \in Nat /\ bits > 0
  BY DEF PoolOk
<1>2. \A k \in Live(s) : \E x \in X : At(x, k)
  <2> SUFFICES ASSUME NEW k \in Live(s) PROVE \E x \in X : At(x, k)
    OBVIOUS
  <2>1. PICK i \in B, b \in 1 .. 2, j \in B : \E c :
               /\ Path(s.pool, IF b = 1 THEN s.lists[i].first ELSE s.lists[i].second, c, i)
               /\ j <= Len(c) /\ c[j] = k
    BY LiveNodes
  <2> DEFINE x == <<<<i, j>>, b>>
  <2>2. x \in X /\ x[2] = b /\ x[1][1] = i /\ x[1][2] = j
    OBVIOUS
  <2> HIDE DEF x, X
  <2>3. At(x, k)
    BY <2>1, <2>2
  <2>4. QED
    BY <2>2, <2>3
<1>3. \A x \in X : \A k, l : At(x, k) /\ At(x, l) => k = l
  <2> SUFFICES ASSUME NEW x \in X, NEW k, NEW l, At(x, k), At(x, l) PROVE k = l
    OBVIOUS
  <2> DEFINE n == IF x[2] = 1 THEN s.lists[x[1][1]].first ELSE s.lists[x[1][1]].second
             i == x[1][1]
             j == x[1][2]
  <2>1. i \in B /\ j \in B /\ n \in {s.lists[i].first, s.lists[i].second}
    OBVIOUS
  <2> HIDE DEF n, i, j, X, B
  <2>2. PICK c : Path(s.pool, n, c, i) /\ j <= Len(c) /\ c[j] = k
    BY DEF n, i, j
  <2>3. PICK e : Path(s.pool, n, e, i) /\ j <= Len(e) /\ e[j] = l
    BY DEF n, i, j
  <2>4. c[j] = e[j]
    <3> DEFINE S == {m \in Nat : m <= j => c[m] = e[m]}
    <3>1. j \in Nat /\ j >= 1
      BY <1>1, <2>1 DEF B
    <3>2. /\ Len(c) \in Nat /\ Len(e) \in Nat /\ c[1] = e[1]
          /\ \A m \in 1 .. Len(c) : m # Len(c) => s.pool[c[m]].tail = c[m + 1]
          /\ \A m \in 1 .. Len(e) : m # Len(e) => s.pool[e[m]].tail = e[m + 1]
      <4>1. /\ Len(c) \in Nat /\ c[1] = n
            /\ \A m \in 1 .. Len(c) : m # Len(c) => s.pool[c[m]].tail = c[m + 1]
        BY <2>2, SMTT(30) DEF Path
      <4>2. /\ Len(e) \in Nat /\ e[1] = n
            /\ \A m \in 1 .. Len(e) : m # Len(e) => s.pool[e[m]].tail = e[m + 1]
        BY <2>3 DEF Path
      <4>3. QED
        BY <4>1, <4>2
    <3>3. 1 \in S
      BY <3>2
    <3>4. ASSUME NEW m \in Nat, m >= 1, m \in S PROVE m + 1 \in S
      <4> SUFFICES ASSUME m + 1 <= j PROVE c[m + 1] = e[m + 1]
        OBVIOUS
      <4>1. m <= j /\ m \in 1 .. Len(c) /\ m # Len(c) /\ m \in 1 .. Len(e) /\ m # Len(e)
        BY <2>2, <2>3, <3>1, <3>2, <3>4
      <4>2. c[m] = e[m]
        BY <3>4, <4>1
      <4>3. s.pool[c[m]].tail = c[m + 1] /\ s.pool[e[m]].tail = e[m + 1]
        BY <3>2, <4>1
      <4>4. QED
        BY <4>2, <4>3
    <3> HIDE DEF S
    <3>5. \A m \in Nat : m >= 1 => m \in S
      BY <3>3, <3>4, Induction
    <3>6. QED
      BY <3>1, <3>5 DEF S
  <2>5. QED
    BY <2>2, <2>3, <2>4
<1> HIDE DEF At
<1>4. \A k \in Live(s) : at[k] \in X /\ At(at[k], k)
  <2> HIDE DEF X
  <2>1. QED
    BY <1>2
<1>5. at \in Injection(Live(s), X)
  <2> HIDE DEF X
  <2>1. at \in [Live(s) -> X]
    BY <1>4
  <2>2. \A k, l \in Live(s) : at[k] = at[l] => k = l
    BY <1>3, <1>4
  <2> HIDE DEF at
  <2>3. QED
    BY <2>1, <2>2 DEF Injection, IsInjective
<1>6. IsFiniteSet(X) /\ Cardinality(X) = (bits * bits) * 2
  <2>1. IsFiniteSet(B) /\ Cardinality(B) = bits
    BY <1>1, FS_Interval
  <2>2. IsFiniteSet(1 .. 2) /\ Cardinality(1 .. 2) = 2
    <3>1. 1 \in Int /\ 2 \in Int /\ ~ (1 > 2) /\ 2 - 1 + 1 = 2
      OBVIOUS
    <3>2. QED
      BY <3>1, FS_Interval
  <2> HIDE DEF B
  <2>3. IsFiniteSet(B \X B) /\ Cardinality(B \X B) = bits * bits
    BY <2>1, FS_Product
  <2>4. QED
    BY <2>2, <2>3, FS_Product
<1>7. (bits * bits) * 2 < PoolSize(bits)
  <2>1. PoolSize(bits) = 2 * bits * (bits + 1)
    BY DEF PoolSize
  <2>2. QED
    BY <1>1, <2>1
<1> HIDE DEF X, at
<1>8. IsFiniteSet(Live(s)) /\ Cardinality(Live(s)) <= (bits * bits) * 2
  BY <1>5, <1>6, FS_Injection
<1>9. Cardinality(Live(s)) \in Nat /\ (bits * bits) * 2 \in Nat /\ PoolSize(bits) \in Nat
  BY <1>1, <1>8, FS_CardinalityType DEF PoolSize
<1>10. QED
  BY <1>7, <1>8, <1>9

\* t has a node at next - 1 that s can do without, and the rest of s.
Found(s, t, bits) ==
    /\ t \in States(bits) /\ ~ t.full
    /\ t.size = s.size /\ t.lists = s.lists /\ t.calls = s.calls
    /\ Len(t.pool) <= t.size
    /\ t.next - 1 \in 1 .. Len(t.pool) /\ t.next - 1 \notin Live(s)
    /\ \A k \in Live(s) : k \in 1 .. Len(t.pool) /\ t.pool[k] = s.pool[k]

\* A free node of a pool that keeps what is live is found.
LEMMA FirstFound ==
    ASSUME NEW bits, NEW s, PoolOk(s, bits), NEW start \in Nat \ {0}, NEW pool \in Seq(Nodes),
           Len(pool) <= s.size,
           \A k \in Live(s) : k \in 1 .. Len(pool) /\ pool[k] = s.pool[k],
           Free(pool, start) # {}
    PROVE  Found(s, FirstOf(Free(pool, start), [s EXCEPT !.pool = pool]), bits)
<1> DEFINE free == Free(pool, start)
           f == Min(free)
           u == [s EXCEPT !.pool = pool]
           t == FirstOf(free, u)
<1>1. Len(pool) \in Nat /\ s \in States(bits) /\ ~ s.full
  BY DEF PoolOk
<1>2. f \in free /\ free \in SUBSET Nat
  <2>1. free \in SUBSET Nat /\ free # {}
    BY <1>1 DEF Free
  <2> HIDE DEF free
  <2>2. QED
    BY <2>1, LeastElement
<1>3. f \in 1 .. Len(pool) /\ ~ pool[f].inuse
  <2> HIDE DEF f
  <2>1. QED
    BY <1>1, <1>2 DEF Free
<1>4. f \notin Live(s)
  <2>1. \A k \in Live(s) : s.pool[k].inuse
    BY LiveNodes
  <2> HIDE DEF f
  <2>2. QED
    BY <1>3, <2>1
<1>5. t = [u EXCEPT !.next = f + 1]
  BY DEF FirstOf
<1> HIDE DEF f, free, t
<1>6. /\ t \in States(bits) /\ ~ t.full /\ t.size = s.size /\ t.lists = s.lists /\ t.calls = s.calls
      /\ t.pool = pool /\ t.next = f + 1
  <2>1. u \in States(bits) /\ u.full = s.full /\ u.size = s.size /\ u.lists = s.lists
        /\ u.calls = s.calls /\ u.pool = pool
    BY <1>1 DEF States
  <2> HIDE DEF u
  <2>2. f + 1 \in Nat \ {0}
    BY <1>1, <1>3
  <2>3. QED
    BY <1>1, <1>5, <2>1, <2>2 DEF States
<1>7. t.next - 1 = f
  BY <1>1, <1>3, <1>6
<1>8. QED
  BY <1>3, <1>4, <1>6, <1>7 DEF Found, t, free

\* GetFreeNode finds a node that is in no chain.
LEMMA FreeNodeFound ==
    ASSUME NEW bits, NEW s, PoolOk(s, bits)
    PROVE  Found(s, GetFreeNode(s), bits)
<1> DEFINE ahead == Free(s.pool, s.next)
           unused == Len(s.pool) + 1
<1>1. /\ s.pool \in Seq(Nodes) /\ s.size \in Nat /\ s.next \in Nat \ {0}
      /\ Len(s.pool) \in Nat /\ DOMAIN s.pool = 1 .. Len(s.pool)
      /\ bits \in Nat /\ s \in States(bits) /\ ~ s.full /\ s.size = PoolSize(bits)
      /\ Len(s.pool) <= s.size
  BY StateFacts DEF PoolOk
<1>2. \A k \in Live(s) : k \in 1 .. Len(s.pool) /\ s.pool[k].inuse
  BY LiveNodes
<1>3. CASE ahead # {}
  <2>1. GetFreeNode(s) = FirstOf(ahead, s)
    BY <1>3 DEF GetFreeNode
  <2>2. s = [s EXCEPT !.pool = s.pool]
    BY <1>1 DEF States
  <2>3. Found(s, FirstOf(ahead, [s EXCEPT !.pool = s.pool]), bits)
    BY <1>1, <1>2, <1>3, FirstFound
  <2>4. QED
    BY <2>1, <2>2, <2>3
<1>4. CASE ahead = {} /\ unused <= s.size
  <2> DEFINE q == Append(s.pool, Node(0, 0, 0))
             t == [s EXCEPT !.pool = q, !.next = unused + 1]
  <2>1. GetFreeNode(s) = t
    BY <1>4 DEF GetFreeNode
  <2>2. Node(0, 0, 0) \in Nodes
    BY DEF Node, Nodes
  <2>3. /\ q \in Seq(Nodes) /\ Len(q) = unused
        /\ \A k \in 1 .. Len(s.pool) : k \in 1 .. unused /\ q[k] = s.pool[k]
    BY <1>1, <2>2
  <2>4. unused \in Nat /\ unused \in 1 .. unused /\ unused \notin 1 .. Len(s.pool)
        /\ unused + 1 \in Nat \ {0} /\ (unused + 1) - 1 = unused
    BY <1>1
  <2> HIDE DEF q, unused
  <2>5. /\ t \in States(bits) /\ ~ t.full /\ t.size = s.size /\ t.lists = s.lists
        /\ t.calls = s.calls /\ t.pool = q /\ t.next = unused + 1
    BY <1>1, <2>3, <2>4 DEF States
  <2> HIDE DEF t
  <2>6. Found(s, t, bits)
    BY <1>2, <1>4, <2>3, <2>4, <2>5 DEF Found
  <2>7. QED
    BY <2>1, <2>6
<1>5. CASE ahead = {} /\ ~ (unused <= s.size)
  <2> DEFINE q == Swept(s.pool, Live(s))
             free == Free(q, 1)
  <2>1. GetFreeNode(s) = FirstOf(free, [s EXCEPT !.pool = q])
    BY <1>5 DEF GetFreeNode, Collected
  <2>2. q = [i \in 1 .. Len(s.pool) |-> [s.pool[i] EXCEPT !.inuse = i \in Live(s)]]
    BY <1>1 DEF Swept
  <2>3. \A i \in 1 .. Len(s.pool) : /\ q[i] \in Nodes /\ q[i].inuse = (i \in Live(s))
                                    /\ s.pool[i].inuse /\ i \in Live(s) => q[i] = s.pool[i]
    <3> SUFFICES ASSUME NEW i \in 1 .. Len(s.pool)
                 PROVE  /\ q[i] \in Nodes /\ q[i].inuse = (i \in Live(s))
                        /\ s.pool[i].inuse /\ i \in Live(s) => q[i] = s.pool[i]
      OBVIOUS
    <3> DEFINE live == i \in Live(s)
               n == s.pool[i]
    <3>1. q[i] = [n EXCEPT !.inuse = live] /\ n \in Nodes /\ live \in BOOLEAN
      BY <1>1, <2>2
    <3> HIDE DEF live, n, q
    <3>2. q[i] \in Nodes /\ q[i].inuse = live
      BY <3>1 DEF Nodes
    <3>3. ASSUME n.inuse, live PROVE q[i] = n
      <4>1. n = [weight |-> n.weight, tail |-> n.tail, count |-> n.count, inuse |-> n.inuse]
        BY <3>1 DEF Nodes
      <4>2. n.inuse = TRUE /\ live = TRUE
        BY <3>1, <3>3 DEF Nodes
      <4>3. QED
        BY <3>1, <4>1, <4>2
    <3>4. QED
      BY <3>2, <3>3 DEF live, n
  <2> HIDE DEF q
  <2>4. q \in Seq(Nodes) /\ Len(q) = Len(s.pool)
    <3>1. q \in [1 .. Len(s.pool) -> Nodes]
      BY <2>2, <2>3
    <3>2. QED
      BY <1>1, <3>1
  <2>5. free # {}
    <3> SUFFICES ASSUME free = {} PROVE FALSE
      OBVIOUS
    <3>1. \A i \in 1 .. Len(s.pool) : q[i].inuse
      BY <2>4 DEF Free
    <3>2. 1 .. Len(s.pool) \subseteq Live(s)
      BY <2>3, <3>1
    <3>3. IsFiniteSet(Live(s)) /\ Cardinality(Live(s)) \in Nat
          /\ Cardinality(Live(s)) < PoolSize(bits)
      BY LiveIsLess
    <3>4. Cardinality(1 .. Len(s.pool)) <= Cardinality(Live(s))
      BY <3>2, <3>3, FS_Subset
    <3>5. Cardinality(1 .. Len(s.pool)) = Len(s.pool)
      <4> DEFINE m == Len(s.pool)
      <4>1. m \in Int /\ 1 \in Int /\ m = IF 1 > m THEN 0 ELSE m - 1 + 1
        BY <1>1
      <4> HIDE DEF m
      <4>2. Cardinality(1 .. m) = m
        BY <4>1, FS_Interval
      <4>3. QED
        BY <4>2 DEF m
    <3>6. Len(s.pool) >= s.size
      BY <1>1, <1>5
    <3>7. QED
      BY <1>1, <3>3, <3>4, <3>5, <3>6
  <2>6. \A k \in Live(s) : k \in 1 .. Len(q) /\ q[k] = s.pool[k]
    BY <1>2, <2>3, <2>4
  <2>7. Found(s, FirstOf(free, [s EXCEPT !.pool = q]), bits)
    BY <1>1, <2>4, <2>5, <2>6, FirstFound
  <2>8. QED
    BY <2>1, <2>7
<1>6. QED
  BY <1>3, <1>4, <1>5

-----------------------------------------------------------------------------
(* The lists. *)

Sum(p, pair) == p[pair.first].weight + p[pair.second].weight

\* The chain found last is not the lighter one, and it counts the leaves that
\* are not heavier.
Sandwiched(w, n, ls) ==
    /\ n \in 1 .. Len(ls) /\ ls[n].weight <= w
    /\ n < Len(ls) => w <= ls[n + 1].weight
WeightsOk(p, pair, ls) ==
    /\ p[pair.first].weight > 0 /\ p[pair.first].weight <= p[pair.second].weight
    /\ Sandwiched(p[pair.second].weight, p[pair.second].count, ls)

\* The next package of the list below would not be lighter.
ListsOk(s, ls, bits) ==
    /\ \A i \in 1 .. bits : WeightsOk(s.pool, s.lists[i], ls)
    /\ \A i \in 2 .. bits : s.pool[s.lists[i].second].weight <= Sum(s.pool, s.lists[i - 1])

\* The heads of the chains are live.
LEMMA HeadsLive ==
    ASSUME NEW bits, NEW s, PoolOk(s, bits), NEW i \in 1 .. bits,
           NEW n \in {s.lists[i].first, s.lists[i].second}
    PROVE  /\ n \in Live(s) /\ n \in 1 .. Len(s.pool) /\ s.pool[n] \in Nodes
           /\ \E c : Path(s.pool, n, c, i) /\ \A j \in 1 .. Len(c) : c[j] \in Live(s)
<1>1. bits \in Nat /\ Len(s.lists) = bits /\ s.pool \in Seq(Nodes)
  BY StateFacts DEF PoolOk
<1>2. PICK c : Path(s.pool, n, c, i)
  BY <1>1 DEF PoolOk, Chains, Chained
<1>3. \A j \in 1 .. Len(c) : c[j] \in Live(s)
  BY <1>2, LiveNodes
<1>4. Len(c) \in Nat /\ 1 \in 1 .. Len(c) /\ c[1] = n
  BY <1>2 DEF Path
<1>5. n \in Live(s)
  BY <1>3, <1>4
<1>6. n \in 1 .. Len(s.pool)
  BY <1>5, LiveNodes
<1>7. QED
  BY <1>1, <1>2, <1>3, <1>5, <1>6

\* The components of the state after a node was placed.
LEMMA PlacedIs ==
    ASSUME NEW bits \in Nat, NEW t \in States(bits), ~ t.full, NEW index \in 1 .. bits,
           Len(t.lists) = bits, NEW node \in Nodes, t.next - 1 \in 1 .. Len(t.pool)
    PROVE  LET u == Placed(t, index, node)
               f == t.next - 1
           IN  /\ u \in States(bits) /\ ~ u.full /\ u.size = t.size /\ u.calls = t.calls
               /\ Len(u.pool) = Len(t.pool) /\ Len(u.lists) = bits
               /\ u.pool[f] = node /\ \A k \in 1 .. Len(t.pool) : k # f => u.pool[k] = t.pool[k]
               /\ u.lists[index] = [first |-> t.lists[index].second, second |-> f]
               /\ \A i \in 1 .. bits : i # index => u.lists[i] = t.lists[i]
<1> DEFINE u == Placed(t, index, node)
           f == t.next - 1
           p == [t.pool EXCEPT ![f] = node]
           pair == [first |-> t.lists[index].second, second |-> f]
           l == [t.lists EXCEPT ![index] = pair]
<1>1. /\ t.pool \in Seq(Nodes) /\ Len(t.pool) \in Nat /\ DOMAIN t.pool = 1 .. Len(t.pool)
      /\ t.lists \in Seq(Pair) /\ DOMAIN t.lists = 1 .. bits
  BY StateFacts
<1>2. u = [t EXCEPT !.pool = p, !.lists = l]
  <2>1. u = [t EXCEPT !.pool[f] = node,
                      !.lists[index] = [first |-> @.second, second |-> f]]
    BY DEF Placed
  <2>2. QED
    BY <2>1
<1>3. f \in Nat
  BY <1>1
<1> HIDE DEF f
<1>4. pair \in Pair
  <2>1. t.lists[index] \in Pair
    <3> HIDE DEF Pair
    <3>1. QED
      BY <1>1
  <2>2. QED
    BY <1>3, <2>1 DEF Pair
<1>5. p \in Seq(Nodes) /\ Len(p) = Len(t.pool)
      /\ p[f] = node /\ \A k \in 1 .. Len(t.pool) : k # f => p[k] = t.pool[k]
  <2>1. f \in 1 .. Len(t.pool)
    BY DEF f
  <2>2. QED
    BY <1>1, <2>1
<1> HIDE DEF pair
<1>6. l \in Seq(Pair) /\ Len(l) = bits
      /\ l[index] = pair /\ \A i \in 1 .. bits : i # index => l[i] = t.lists[i]
  <2> HIDE DEF Pair
  <2>1. QED
    BY <1>1, <1>4
<1> HIDE DEF p, l, u
<1>7. u \in States(bits) /\ u.full = t.full /\ u.size = t.size /\ u.calls = t.calls
      /\ u.pool = p /\ u.lists = l
  BY <1>2, <1>5, <1>6 DEF States
<1>8. QED
  BY <1>5, <1>6, <1>7 DEF u, f, pair

\* A node that ends a chain which is not the lighter one keeps all this.
LEMMA PlacedKeeps ==
    ASSUME NEW bits, NEW s, PoolOk(s, bits), NEW ls, ListsOk(s, ls, bits),
           NEW t, Found(s, t, bits), NEW index \in 1 .. bits, NEW node \in Nodes, node.inuse,
           \/ node.tail = 0
           \/ \E c : /\ Path(s.pool, node.tail, c, index - 1)
                     /\ \A j \in 1 .. Len(c) : c[j] \in Live(s)
                     /\ s.pool[node.tail].count <= node.count,
           Sandwiched(node.weight, node.count, ls),
           s.pool[s.lists[index].second].weight <= node.weight,
           index > 1 => node.weight <= Sum(s.pool, s.lists[index - 1])
    PROVE  LET u == Placed(t, index, node)
           IN  PoolOk(u, bits) /\ ListsOk(u, ls, bits)
<1> DEFINE u == Placed(t, index, node)
           f == t.next - 1
<1>1. /\ bits \in Nat \ {0} /\ Len(s.lists) = bits /\ s.pool \in Seq(Nodes)
      /\ s.size = PoolSize(bits)
  BY StateFacts DEF PoolOk
<1>2. /\ t \in States(bits) /\ ~ t.full
      /\ t.size = s.size /\ t.lists = s.lists /\ t.calls = s.calls
      /\ Len(t.pool) <= t.size
      /\ f \in 1 .. Len(t.pool) /\ f \notin Live(s)
      /\ \A k \in Live(s) : k \in 1 .. Len(t.pool) /\ t.pool[k] = s.pool[k]
  BY DEF Found
<1>3. /\ u \in States(bits) /\ ~ u.full /\ u.size = t.size
      /\ Len(u.pool) = Len(t.pool) /\ Len(u.lists) = bits
      /\ u.pool[f] = node /\ \A k \in 1 .. Len(t.pool) : k # f => u.pool[k] = t.pool[k]
      /\ u.lists[index] = [first |-> t.lists[index].second, second |-> f]
      /\ \A i \in 1 .. bits : i # index => u.lists[i] = t.lists[i]
  BY <1>1, <1>2, PlacedIs
<1> HIDE DEF u, f
<1>4. \A k \in Live(s) : k \in 1 .. Len(u.pool) /\ u.pool[k] = s.pool[k]
  BY <1>2, <1>3
<1>5. \A i \in 1 .. bits : /\ s.lists[i].first \in Live(s) /\ s.lists[i].second \in Live(s)
                           /\ s.pool[s.lists[i].first] \in Nodes
                           /\ s.pool[s.lists[i].second] \in Nodes
  BY HeadsLive
<1>6. /\ u.lists[index].first = s.lists[index].second /\ u.lists[index].second = f
      /\ \A i \in 1 .. bits : i # index => u.lists[i] = s.lists[i]
  BY <1>2, <1>3
<1>7. ASSUME NEW i \in 1 .. bits, NEW n \in {s.lists[i].first, s.lists[i].second}
      PROVE  Chained(u.pool, n, i)
  <2>1. PICK c : Path(s.pool, n, c, i) /\ \A j \in 1 .. Len(c) : c[j] \in Live(s)
    BY HeadsLive
  <2>2. Path(u.pool, n, c, i)
    BY <1>4, <2>1, PathKept
  <2>3. QED
    BY <2>2 DEF Chained
<1>8. Chained(u.pool, f, index)
  <2>1. f \in 1 .. Len(u.pool) /\ Len(u.pool) \in Nat /\ f \in Nat
    BY <1>2, <1>3, StateFacts
  <2>2. CASE node.tail = 0
    <3>1. Path(u.pool, f, <<f>>, index)
      <4>1. <<f>> \in Seq(Nat) /\ Len(<<f>>) = 1 /\ <<f>>[1] = f /\ 1 <= index
        BY <1>1, <2>1
      <4>2. \A k \in 1 .. 1 : k = 1
        OBVIOUS
      <4>3. QED
        BY <1>3, <2>1, <2>2, <4>1, <4>2 DEF Path
    <3>2. QED
      BY <3>1 DEF Chained
  <2>3. CASE \E c : /\ Path(s.pool, node.tail, c, index - 1)
                    /\ \A j \in 1 .. Len(c) : c[j] \in Live(s)
                    /\ s.pool[node.tail].count <= node.count
    <3>1. PICK c : /\ Path(s.pool, node.tail, c, index - 1)
                   /\ \A j \in 1 .. Len(c) : c[j] \in Live(s)
                   /\ s.pool[node.tail].count <= node.count
      BY <2>3
    <3>2. Path(u.pool, node.tail, c, index - 1)
      BY <1>4, <3>1, PathKept
    <3>3. u.pool[node.tail] = s.pool[node.tail]
      <4>1. Len(c) \in Nat /\ 1 \in 1 .. Len(c) /\ c[1] = node.tail
        BY <3>1 DEF Path
      <4>2. QED
        BY <1>4, <3>1, <4>1
    <3>4. index - 1 \in Nat /\ (index - 1) + 1 = index
      BY <1>1
    <3>5. Chained(u.pool, f, (index - 1) + 1)
      BY <1>3, <2>1, <3>1, <3>2, <3>3, <3>4, PathLonger
    <3>6. QED
      BY <3>4, <3>5
  <2>4. QED
    BY <2>2, <2>3
<1>9. Chains(u)
  <2> SUFFICES ASSUME NEW i \in 1 .. bits
               PROVE  Chained(u.pool, u.lists[i].first, i) /\ Chained(u.pool, u.lists[i].second, i)
    BY <1>3 DEF Chains
  <2>1. CASE i = index
    BY <1>6, <1>7, <1>8, <2>1
  <2>2. CASE i # index
    BY <1>6, <1>7, <2>2
  <2>3. QED
    BY <2>1, <2>2
<1>10. PoolOk(u, bits)
  BY <1>1, <1>2, <1>3, <1>9 DEF PoolOk
<1>11. ASSUME NEW i \in 1 .. bits PROVE WeightsOk(u.pool, u.lists[i], ls)
  <2>1. WeightsOk(s.pool, s.lists[i], ls)
    BY DEF ListsOk
  <2>2. CASE i # index
    BY <1>4, <1>5, <1>6, <2>1, <2>2 DEF WeightsOk
  <2>3. CASE i = index
    <3>1. u.pool[u.lists[i].first] = s.pool[s.lists[i].second] /\ u.pool[u.lists[i].second] = node
      BY <1>3, <1>4, <1>5, <1>6, <2>3, SMTT(30)
    <3>2. s.pool[s.lists[i].second].weight > 0
      <4>1. s.pool[s.lists[i].first].weight \in Nat /\ s.pool[s.lists[i].second].weight \in Nat
        BY <1>5 DEF Nodes
      <4>2. QED
        BY <2>1, <4>1 DEF WeightsOk
    <3>3. QED
      BY <2>3, <3>1, <3>2 DEF WeightsOk
  <2>4. QED
    BY <2>2, <2>3
<1>12. ASSUME NEW i \in 2 .. bits
       PROVE  u.pool[u.lists[i].second].weight <= Sum(u.pool, u.lists[i - 1])
  <2>1. i \in 1 .. bits /\ i - 1 \in 1 .. bits /\ i - 1 # i /\ i > 1
    BY <1>1
  <2>2. s.pool[s.lists[i].second].weight <= Sum(s.pool, s.lists[i - 1])
    BY DEF ListsOk
  <2>3. CASE i = index
    <3>1. u.pool[u.lists[i].second] = node
      BY <1>3, <1>6, <2>3
    <3>2. u.lists[i - 1] = s.lists[i - 1]
      BY <1>6, <2>1, <2>3
    <3>3. Sum(u.pool, u.lists[i - 1]) = Sum(s.pool, s.lists[i - 1])
      BY <1>4, <1>5, <2>1, <3>2 DEF Sum
    <3>4. QED
      BY <2>1, <2>3, <3>1, <3>3
  <2>4. CASE i # index
    <3>1. u.pool[u.lists[i].second] = s.pool[s.lists[i].second]
      BY <1>4, <1>5, <1>6, <2>1, <2>4
    <3>2. CASE i - 1 # index
      <4>1. Sum(u.pool, u.lists[i - 1]) = Sum(s.pool, s.lists[i - 1])
        BY <1>4, <1>5, <1>6, <2>1, <3>2 DEF Sum
      <4>2. QED
        BY <2>2, <3>1, <4>1
    <3>3. CASE i - 1 = index
      <4> DEFINE a == s.pool[s.lists[i - 1].first].weight
                 b == s.pool[s.lists[i - 1].second].weight
                 w == s.pool[s.lists[i].second].weight
      <4>1. a \in Nat /\ b \in Nat /\ w \in Nat /\ node.weight \in Nat
        BY <1>5, <2>1 DEF Nodes
      <4>2. a <= b
        BY <2>1 DEF ListsOk, WeightsOk
      <4>3. b <= node.weight
        BY <3>3
      <4>4. w <= a + b
        BY <2>2 DEF Sum
      <4>5. Sum(u.pool, u.lists[i - 1]) = b + node.weight
        <5>1. u.pool[u.lists[i - 1].first] = s.pool[s.lists[i - 1].second]
              /\ u.pool[u.lists[i - 1].second] = node
          BY <1>3, <1>4, <1>5, <1>6, <2>1, <3>3
        <5>2. QED
          BY <5>1 DEF Sum
      <4> HIDE DEF a, b
      <4>6. w <= b + node.weight
        BY <4>1, <4>2, <4>3, <4>4
      <4>7. QED
        BY <3>1, <4>5, <4>6
    <3>4. QED
      BY <3>2, <3>3
  <2>5. QED
    BY <2>3, <2>4
<1>13. ListsOk(u, ls, bits)
  BY <1>11, <1>12 DEF ListsOk
<1>14. QED
  BY <1>10, <1>13 DEF u

\* A leaf, or package, of list index as BoundaryPM makes it.
LeafOf(s, ls, index) ==
    LET old == s.pool[s.lists[index].second]
    IN  Node(ls[old.count + 1].weight, IF index = 1 THEN 0 ELSE old.tail, old.count + 1)
PackageOf(s, index) ==
    Node(Sum(s.pool, s.lists[index - 1]), s.lists[index - 1].second,
         s.pool[s.lists[index].second].count)

\* The weights of the leaves.
LEMMA LeafWeights ==
    ASSUME NEW ls, LeavesOk(ls)
    PROVE  /\ Len(ls) \in Nat
           /\ \A k \in 1 .. Len(ls) : ls[k].weight \in Nat
           /\ \A k, l \in 1 .. Len(ls) : k < l => ls[k].weight <= ls[l].weight
<1> DEFINE L == [weight : Nat, symbol : Nat]
<1>1. ls \in Seq(L)
  BY DEF LeavesOk
<1>2. \A x \in L : x.weight \in Nat
  OBVIOUS
<1> HIDE DEF L
<1>3. Len(ls) \in Nat /\ \A k \in 1 .. Len(ls) : ls[k] \in L
  BY <1>1
<1>4. \A k, l \in 1 .. Len(ls) : k < l => ls[k].weight <= ls[l].weight
  BY <1>3 DEF LeavesOk
<1>5. QED
  BY <1>2, <1>3, <1>4

\* The next leaf keeps the pool and the lists if it is lighter than the package.
LEMMA LeafKeeps ==
    ASSUME NEW bits, NEW s, PoolOk(s, bits), NEW ls, LeavesOk(ls), ListsOk(s, ls, bits),
           NEW index \in 1 .. bits,
           s.pool[s.lists[index].second].count < Len(ls),
           index > 1 => Sum(s.pool, s.lists[index - 1])
                          > ls[s.pool[s.lists[index].second].count + 1].weight
    PROVE  LET u == Placed(GetFreeNode(s), index, LeafOf(s, ls, index))
           IN  PoolOk(u, bits) /\ ListsOk(u, ls, bits)
<1> DEFINE n == s.lists[index].second
           old == s.pool[n]
           next == ls[old.count + 1]
           node == LeafOf(s, ls, index)
<1>1. bits \in Nat /\ index \in Nat /\ index >= 1
  BY DEF PoolOk
<1>2. n \in Live(s) /\ old \in Nodes
      /\ \E c : Path(s.pool, n, c, index) /\ \A j \in 1 .. Len(c) : c[j] \in Live(s)
  BY HeadsLive
<1>3. Sandwiched(old.weight, old.count, ls)
  BY DEF ListsOk, WeightsOk
<1>4. /\ Len(ls) \in Nat
      /\ \A k \in 1 .. Len(ls) : ls[k].weight \in Nat
      /\ \A k, l \in 1 .. Len(ls) : k < l => ls[k].weight <= ls[l].weight
  BY LeafWeights
<1>5. /\ node.weight = next.weight /\ node.count = old.count + 1 /\ node.inuse
      /\ node.tail = IF index = 1 THEN 0 ELSE old.tail
      /\ node = [weight |-> node.weight, tail |-> node.tail, count |-> node.count, inuse |-> TRUE]
  BY DEF LeafOf, Node
<1>6. old.count \in Nat /\ old.weight \in Nat /\ old.tail \in Nat
  BY <1>2 DEF Nodes
<1>7. old.count + 1 \in 1 .. Len(ls) /\ next.weight \in Nat /\ old.weight <= next.weight
  <2>1. old.count < Len(ls)
    OBVIOUS
  <2> HIDE DEF old
  <2>2. old.count + 1 \in 1 .. Len(ls)
    BY <1>4, <1>6, <2>1
  <2>3. QED
    BY <1>3, <1>4, <2>1, <2>2 DEF Sandwiched
<1>8. index > 1 => Sum(s.pool, s.lists[index - 1]) > next.weight
  OBVIOUS
<1> HIDE DEF old, next, node
<1>9. node \in Nodes
  <2>1. node.weight \in Nat /\ node.count \in Nat /\ node.tail \in Nat
    <3>1. node.tail = 0 \/ node.tail = old.tail
      BY <1>5
    <3>2. QED
      BY <1>5, <1>6, <1>7, <3>1
  <2>2. QED
    BY <1>5, <2>1 DEF Nodes
<1>10. Sandwiched(node.weight, node.count, ls)
  <2>1. ASSUME node.count < Len(ls) PROVE node.weight <= ls[node.count + 1].weight
    <3>1. node.count \in 1 .. Len(ls) /\ node.count + 1 \in 1 .. Len(ls)
          /\ node.count < node.count + 1 /\ node.weight = ls[node.count].weight
      BY <1>4, <1>5, <1>7, <2>1 DEF next
    <3>2. QED
      BY <1>4, <3>1
  <2>2. node.count \in 1 .. Len(ls) /\ ls[node.count].weight <= node.weight
    BY <1>5, <1>7 DEF next
  <2>3. QED
    BY <2>1, <2>2 DEF Sandwiched
<1>11. \/ node.tail = 0
       \/ \E c : /\ Path(s.pool, node.tail, c, index - 1)
                 /\ \A j \in 1 .. Len(c) : c[j] \in Live(s)
                 /\ s.pool[node.tail].count <= node.count
  <2>1. CASE index = 1
    BY <1>5, <2>1
  <2>2. CASE index # 1
    <3>1. PICK c : Path(s.pool, n, c, index) /\ \A j \in 1 .. Len(c) : c[j] \in Live(s)
      BY <1>2
    <3>2. \/ old.tail = 0
          \/ /\ s.pool[old.tail].count <= old.count
             /\ Path(s.pool, old.tail, Tail(c), index - 1)
             /\ \A k \in 1 .. Len(Tail(c)) : Tail(c)[k] = c[k + 1] /\ k + 1 \in 1 .. Len(c)
      BY <1>1, <3>1, PathShorter DEF old
    <3>3. node.tail = old.tail
      BY <1>5, <2>2
    <3>4. CASE old.tail = 0
      BY <3>3, <3>4
    <3>5. CASE old.tail # 0
      <4>1. Path(s.pool, node.tail, Tail(c), index - 1)
        BY <3>2, <3>3, <3>5
      <4>2. \A j \in 1 .. Len(Tail(c)) : Tail(c)[j] \in Live(s)
        BY <3>1, <3>2, <3>5
      <4>3. s.pool[node.tail].count <= node.count
        <5>1. Len(Tail(c)) >= 1 /\ 1 \in 1 .. Len(Tail(c)) /\ Tail(c)[1] = old.tail
          BY <3>2, <3>5 DEF Path
        <5>2. old.tail \in 1 .. Len(s.pool)
          BY <3>2, <3>5 DEF Path
        <5>3. s.pool[old.tail].count \in Nat
          <6>1. s.pool \in Seq(Nodes)
            BY StateFacts DEF PoolOk
          <6>2. s.pool[old.tail] \in Nodes
            BY <5>2, <6>1
          <6>3. QED
            BY <6>2 DEF Nodes
        <5>4. QED
          BY <1>5, <1>6, <3>2, <3>3, <3>5, <5>3
      <4>4. QED
        BY <4>1, <4>2, <4>3
    <3>6. QED
      BY <3>4, <3>5
  <2>3. QED
    BY <2>1, <2>2
<1>12. index > 1 => node.weight <= Sum(s.pool, s.lists[index - 1])
  <2> SUFFICES ASSUME index > 1 PROVE node.weight <= Sum(s.pool, s.lists[index - 1])
    OBVIOUS
  <2>1. index - 1 \in 1 .. bits
    BY <1>1
  <2>2. Sum(s.pool, s.lists[index - 1]) \in Nat
    <3>1. /\ s.pool[s.lists[index - 1].first] \in Nodes
          /\ s.pool[s.lists[index - 1].second] \in Nodes
      BY <2>1, HeadsLive
    <3>2. /\ s.pool[s.lists[index - 1].first].weight \in Nat
          /\ s.pool[s.lists[index - 1].second].weight \in Nat
      BY <3>1 DEF Nodes
    <3>3. QED
      BY <3>2 DEF Sum
  <2>3. QED
    BY <1>5, <1>7, <1>8, <2>2
<1>13. Found(s, GetFreeNode(s), bits)
  BY FreeNodeFound
<1>14. s.pool[s.lists[index].second].weight <= node.weight
  BY <1>5, <1>7 DEF old
<1>15. QED
  <2> DEFINE t == GetFreeNode(s)
  <2> HIDE DEF t
  <2>1. Found(s, t, bits) => PoolOk(Placed(t, index, node), bits) /\ ListsOk(Placed(t, index, node), ls, bits)
    BY <1>5, <1>9, <1>10, <1>11, <1>12, <1>14, PlacedKeeps
  <2>2. QED
    BY <1>13, <2>1 DEF t, node

\* So does the package, if it is not heavier than the next leaf.
LEMMA PackageKeeps ==
    ASSUME NEW bits, NEW s, PoolOk(s, bits), NEW ls, LeavesOk(ls), ListsOk(s, ls, bits),
           NEW index \in 2 .. bits,
           s.pool[s.lists[index].second].count < Len(ls) =>
             Sum(s.pool, s.lists[index - 1]) <= ls[s.pool[s.lists[index].second].count + 1].weight
    PROVE  LET u == Placed(GetFreeNode(s), index, PackageOf(s, index))
           IN  PoolOk(u, bits) /\ ListsOk(u, ls, bits)
<1> DEFINE n == s.lists[index].second
           old == s.pool[n]
           m == s.lists[index - 1].second
           last == s.pool[m]
           first == s.pool[s.lists[index - 1].first]
           sum == Sum(s.pool, s.lists[index - 1])
           node == PackageOf(s, index)
<1>1. bits \in Nat /\ index \in 1 .. bits /\ index \in Nat /\ index > 1 /\ index - 1 \in 1 .. bits
  BY DEF PoolOk
<1>2. /\ old \in Nodes /\ last \in Nodes /\ first \in Nodes
      /\ \E c : Path(s.pool, m, c, index - 1) /\ \A j \in 1 .. Len(c) : c[j] \in Live(s)
      /\ m \in 1 .. Len(s.pool)
  BY <1>1, HeadsLive
<1>3. /\ Sandwiched(old.weight, old.count, ls) /\ Sandwiched(last.weight, last.count, ls)
      /\ first.weight > 0
      /\ old.weight <= sum
  BY <1>1 DEF ListsOk, WeightsOk
<1>4. /\ Len(ls) \in Nat
      /\ \A k \in 1 .. Len(ls) : ls[k].weight \in Nat
      /\ \A k, l \in 1 .. Len(ls) : k < l => ls[k].weight <= ls[l].weight
  BY LeafWeights
<1>5. /\ node.weight = sum /\ node.count = old.count /\ node.inuse /\ node.tail = m
      /\ node = [weight |-> node.weight, tail |-> node.tail, count |-> node.count, inuse |-> TRUE]
  BY DEF PackageOf, Node
<1>6. sum = first.weight + last.weight
  BY DEF Sum
<1>7. old.count < Len(ls) => sum <= ls[old.count + 1].weight
  OBVIOUS
<1> HIDE DEF old, last, first, sum, node
<1>8. /\ old.count \in Nat /\ old.weight \in Nat /\ last.count \in Nat /\ last.weight \in Nat
      /\ first.weight \in Nat
  BY <1>2 DEF Nodes
<1>9. sum \in Nat /\ last.weight < sum
  BY <1>3, <1>6, <1>8
<1>10. node \in Nodes
  <2>1. m \in Nat
    BY <1>2
  <2> HIDE DEF m
  <2>2. QED
    BY <1>5, <1>8, <1>9, <2>1 DEF Nodes
<1>11. Sandwiched(node.weight, node.count, ls)
  <2>1. old.count \in 1 .. Len(ls) /\ ls[old.count].weight <= old.weight
    BY <1>3 DEF Sandwiched
  <2>2. ls[old.count].weight <= sum
    BY <1>3, <1>4, <1>8, <1>9, <2>1
  <2>3. QED
    BY <1>5, <1>7, <2>1, <2>2 DEF Sandwiched
<1>12. last.count <= old.count
  <2> SUFFICES ASSUME ~ (last.count <= old.count) PROVE FALSE
    OBVIOUS
  <2>1. last.count \in 1 .. Len(ls) /\ ls[last.count].weight <= last.weight
    BY <1>3 DEF Sandwiched
  <2>2. old.count < Len(ls) /\ old.count + 1 \in 1 .. Len(ls)
        /\ (old.count + 1 = last.count \/ old.count + 1 < last.count)
    BY <1>4, <1>8, <2>1
  <2>3. ls[old.count + 1].weight <= ls[last.count].weight
    <3>1. CASE old.count + 1 = last.count
      BY <1>4, <2>1, <3>1
    <3>2. CASE old.count + 1 < last.count
      BY <1>4, <2>1, <2>2, <3>2
    <3>3. QED
      BY <2>2, <3>1, <3>2
  <2>4. sum <= ls[old.count + 1].weight
    BY <1>7, <2>2
  <2>5. ls[old.count + 1].weight \in Nat /\ ls[last.count].weight \in Nat
    BY <1>4, <2>1, <2>2
  <2>6. QED
    BY <1>8, <1>9, <2>1, <2>3, <2>4, <2>5
<1>13. \E c : /\ Path(s.pool, node.tail, c, index - 1)
              /\ \A j \in 1 .. Len(c) : c[j] \in Live(s)
              /\ s.pool[node.tail].count <= node.count
  <2>1. s.pool[node.tail].count <= node.count
    BY <1>5, <1>12 DEF last
  <2>2. QED
    BY <1>2, <1>5, <2>1
<1>14. s.pool[s.lists[index].second].weight <= node.weight
  BY <1>3, <1>5 DEF old
<1>15. index > 1 => node.weight <= Sum(s.pool, s.lists[index - 1])
  <2>1. sum <= sum
    BY <1>9
  <2>2. QED
    BY <1>5, <2>1 DEF sum
<1>16. QED
  <2> DEFINE t == GetFreeNode(s)
  <2>1. Found(s, t, bits)
    BY FreeNodeFound
  <2> HIDE DEF t
  <2>2. PoolOk(Placed(t, index, node), bits) /\ ListsOk(Placed(t, index, node), ls, bits)
    BY <1>1, <1>5, <1>10, <1>11, <1>13, <1>14, <1>15, <2>1, PlacedKeeps
  <2>3. QED
    BY <2>2 DEF t, node


\* The lists start with the two lightest leaves, each of them a chain.
LEMMA InitOk ==
    ASSUME NEW bits \in Nat \ {0}, NEW ls, LeavesOk(ls)
    PROVE  LET s == InitLists(ls, bits)
           IN  PoolOk(s, bits) /\ ListsOk(s, ls, bits)
<1> DEFINE s == InitLists(ls, bits)
           p == [i \in 1 .. 2 |-> Node(ls[i].weight, 0, i)]
           pair == [first |-> 1, second |-> 2]
           lists == [i \in 1 .. bits |-> pair]
<1>1. /\ s.pool = p /\ s.lists = lists /\ s.size = PoolSize(bits) /\ s.next = 3
      /\ s.full = FALSE /\ s.calls = <<>>
      /\ s = [pool |-> s.pool, size |-> s.size, next |-> s.next, full |-> s.full,
              lists |-> s.lists, calls |-> s.calls]
  BY DEF InitLists
<1>2. /\ Len(ls) \in Nat /\ Len(ls) >= 2
      /\ ls[1].weight \in Nat /\ ls[2].weight \in Nat
      /\ ls[1].weight > 0 /\ ls[1].weight <= ls[2].weight
      /\ Sandwiched(ls[2].weight, 2, ls)
  <2>1. Len(ls) \in Nat /\ Len(ls) >= 2
    BY LeafWeights DEF LeavesOk
  <2>2. 1 \in 1 .. Len(ls) /\ 2 \in 1 .. Len(ls) /\ (2 < Len(ls) => 2 + 1 \in 1 .. Len(ls))
    BY <2>1
  <2>3. /\ ls[1].weight \in Nat /\ ls[2].weight \in Nat
        /\ ls[1].weight > 0 /\ ls[1].weight <= ls[2].weight
        /\ 2 < Len(ls) => ls[2].weight <= ls[2 + 1].weight
    BY <2>2, LeafWeights, SMTT(30) DEF LeavesOk
  <2>4. ls[2].weight <= ls[2].weight
    BY <2>3
  <2>5. QED
    BY <2>1, <2>2, <2>3, <2>4 DEF Sandwiched
<1>3. /\ \A i \in 1 .. 2 : /\ p[i] \in Nodes /\ p[i].inuse /\ p[i].tail = 0
                           /\ p[i].weight = ls[i].weight /\ p[i].count = i
      /\ p \in Seq(Nodes) /\ Len(p) = 2
  <2>1. ASSUME NEW i \in 1 .. 2
        PROVE  /\ p[i] \in Nodes /\ p[i].inuse /\ p[i].tail = 0
               /\ p[i].weight = ls[i].weight /\ p[i].count = i
    <3>1. p[i] = [weight |-> ls[i].weight, tail |-> 0, count |-> i, inuse |-> TRUE]
      BY DEF Node
    <3>2. ls[i].weight \in Nat /\ i \in Nat
      BY <1>2
    <3> HIDE DEF p
    <3>3. p[i].inuse
      BY <3>1
    <3>4. p[i] \in Nodes
      BY <3>1, <3>2 DEF Nodes
    <3>5. p[i].tail = 0 /\ p[i].weight = ls[i].weight /\ p[i].count = i
      BY <3>1
    <3>6. QED
      BY <3>3, <3>4, <3>5
  <2>2. p = [i \in 1 .. 2 |-> p[i]]
    OBVIOUS
  <2> HIDE DEF p
  <2>3. p \in [1 .. 2 -> Nodes]
    <3> HIDE DEF Nodes
    <3>1. QED
      BY <2>1, <2>2
  <2>4. p \in Seq(Nodes) /\ Len(p) = 2
    <3> DEFINE n == 2
    <3>1. n \in Nat /\ p \in [1 .. n -> Nodes]
      BY <2>3
    <3> HIDE DEF n
    <3>2. p \in Seq(Nodes) /\ Len(p) = n
      BY <3>1
    <3>3. QED
      BY <3>2 DEF n
  <2>5. QED
    BY <2>1, <2>4
<1>4. pair \in Pair /\ pair.first = 1 /\ pair.second = 2
  BY DEF Pair
<1> HIDE DEF pair
<1>5. lists \in Seq(Pair) /\ Len(lists) = bits /\ \A i \in 1 .. bits : lists[i] = pair
  <2> HIDE DEF Pair
  <2>1. lists \in [1 .. bits -> Pair]
    BY <1>4
  <2>2. QED
    BY <2>1
<1> HIDE DEF p, lists
<1>6. ASSUME NEW i \in 1 .. bits, NEW n \in 1 .. 2 PROVE Chained(p, n, i)
  <2> DEFINE c == <<n>>
  <2>1. c \in Seq(Nat) /\ Len(c) = 1 /\ c[1] = n
    OBVIOUS
  <2> HIDE DEF c
  <2>2. n \in 1 .. Len(p) /\ p[n].inuse /\ p[n].tail = 0
    BY <1>3
  <2>3. Path(p, n, c, i)
    BY <2>1, <2>2 DEF Path
  <2>4. QED
    BY <2>3 DEF Chained
<1>7. PoolSize(bits) \in Nat /\ 2 <= PoolSize(bits)
  <2>1. bits * (bits + 1) >= 1
    OBVIOUS
  <2>2. PoolSize(bits) = 2 * (bits * (bits + 1)) /\ bits * (bits + 1) \in Nat
    BY DEF PoolSize
  <2>3. QED
    BY <2>1, <2>2
<1>8. s \in States(bits)
  <2>1. s.calls \in Seq([index : 1 .. bits, final : BOOLEAN])
    BY <1>1
  <2>2. s.next \in Nat \ {0} /\ s.full \in BOOLEAN /\ s.size \in Nat
    <3> HIDE DEF s
    <3>1. s.full \in BOOLEAN
      BY <1>1, Zenon
    <3>2. QED
      BY <1>1, <1>7, <3>1
  <2>3. s.pool \in Seq(Nodes) /\ s.lists \in Seq(Pair)
    BY <1>1, <1>3, <1>5
  <2> HIDE DEF s
  <2>4. QED
    BY <1>1, <2>1, <2>2, <2>3 DEF States
<1> HIDE DEF s
<1>9. Chains(s)
  BY <1>1, <1>4, <1>5, <1>6 DEF Chains
<1>10. PoolOk(s, bits)
  BY <1>1, <1>3, <1>5, <1>7, <1>8, <1>9 DEF PoolOk
<1>11. \A i \in 1 .. bits : /\ s.pool[s.lists[i].first].weight = ls[1].weight
                            /\ s.pool[s.lists[i].second].weight = ls[2].weight
                            /\ s.pool[s.lists[i].second].count = 2
  BY <1>1, <1>3, <1>4, <1>5
<1>12. \A i \in 1 .. bits : WeightsOk(s.pool, s.lists[i], ls)
  BY <1>2, <1>11 DEF WeightsOk
<1>13. ASSUME NEW i \in 2 .. bits
       PROVE  s.pool[s.lists[i].second].weight <= Sum(s.pool, s.lists[i - 1])
  <2>1. i \in 1 .. bits /\ i - 1 \in 1 .. bits
    OBVIOUS
  <2>2. /\ s.pool[s.lists[i].second].weight = ls[2].weight
        /\ Sum(s.pool, s.lists[i - 1]) = ls[1].weight + ls[2].weight
    BY <1>11, <2>1 DEF Sum
  <2>3. ls[2].weight <= ls[1].weight + ls[2].weight
    BY <1>2
  <2>4. QED
    BY <2>2, <2>3
<1>14. QED
  BY <1>10, <1>12, <1>13 DEF ListsOk, s

\* Other calls that are still to be made change nothing of this.
LEMMA CallsChange ==
    ASSUME NEW bits, NEW s, PoolOk(s, bits), NEW ls, ListsOk(s, ls, bits),
           NEW calls \in Seq([index : 1 .. bits, final : BOOLEAN]),
           NEW t, t = [s EXCEPT !.calls = calls]
    PROVE  /\ PoolOk(t, bits) /\ ListsOk(t, ls, bits)
           /\ t.pool = s.pool /\ t.lists = s.lists /\ t.calls = calls
<1> DEFINE C == Seq([index : 1 .. bits, final : BOOLEAN])
<1>1. /\ s \in States(bits) /\ ~ s.full /\ s.size = PoolSize(bits) /\ Len(s.pool) <= s.size
      /\ bits \in Nat \ {0} /\ Len(s.lists) = bits /\ Chains(s)
  BY DEF PoolOk
<1>2. /\ t \in States(bits) /\ t.full = s.full /\ t.size = s.size /\ t.pool = s.pool
      /\ t.lists = s.lists /\ t.calls = calls
  <2>1. calls \in C
    OBVIOUS
  <2>2. States(bits) = [pool : Seq(Nodes), size : Nat, next : Nat \ {0}, full : BOOLEAN,
                        lists : Seq(Pair), calls : C]
    BY DEF States
  <2> HIDE DEF C
  <2>3. s \in States(bits)
    BY <1>1
  <2>4. t \in States(bits)
    BY <2>1, <2>2, <2>3
  <2>5. t.full = s.full /\ t.size = s.size /\ t.pool = s.pool /\ t.lists = s.lists
        /\ t.calls = calls
    BY <2>2, <2>3
  <2>6. QED
    BY <2>4, <2>5
<1>3. Chains(t)
  BY <1>1, <1>2 DEF Chains
<1>4. ListsOk(t, ls, bits)
  BY <1>2 DEF ListsOk
<1>5. QED
  BY <1>1, <1>2, <1>3, <1>4 DEF PoolOk

\* A call of BoundaryPM keeps the pool and the lists.
LEMMA CallKeeps ==
    ASSUME NEW bits, NEW s, PoolOk(s, bits), NEW ls, LeavesOk(ls), ListsOk(s, ls, bits),
           s.calls # <<>>
    PROVE  LET u == BoundaryPM(s, ls)
           IN  PoolOk(u, bits) /\ ListsOk(u, ls, bits)
<1> DEFINE C == [index : 1 .. bits, final : BOOLEAN]
           index == Head(s.calls).index
           final == Head(s.calls).final
           called == [s EXCEPT !.calls = Tail(s.calls)]
           more == <<Call(index - 1, FALSE), Call(index - 1, FALSE)>> \o Tail(s.calls)
           again == [s EXCEPT !.calls = more]
           old == s.pool[s.lists[index].second]
           sum == Sum(s.pool, s.lists[index - 1])
           OK(u) == PoolOk(u, bits) /\ ListsOk(u, ls, bits)
<1>1. /\ index \in 1 .. bits /\ final \in BOOLEAN /\ Tail(s.calls) \in Seq(C)
      /\ index > 1 => more \in Seq(C)
  <2>1. s.calls \in Seq(C) /\ bits \in Nat
    BY StateFacts DEF PoolOk
  <2> DEFINE D == C
  <2>2. \A x \in D : x.index \in 1 .. bits /\ x.final \in BOOLEAN
    OBVIOUS
  <2>3. ASSUME NEW k \in 1 .. bits PROVE Call(k, FALSE) \in D
    BY DEF Call
  <2>4. s.calls \in Seq(D)
    BY <2>1
  <2> HIDE DEF D
  <2>5. Head(s.calls) \in D /\ Tail(s.calls) \in Seq(D)
    BY <2>4
  <2>6. index \in 1 .. bits /\ final \in BOOLEAN
    BY <2>2, <2>5
  <2> HIDE DEF index
  <2>7. ASSUME index > 1 PROVE more \in Seq(D)
    <3>1. index - 1 \in 1 .. bits
      BY <2>1, <2>6, <2>7
    <3> DEFINE x == Call(index - 1, FALSE)
    <3>2. x \in D
      BY <2>3, <3>1
    <3> HIDE DEF x
    <3>3. <<x, x>> \in Seq(D)
      BY <3>2
    <3>4. <<x, x>> \o Tail(s.calls) \in Seq(D)
      BY <2>5, <3>3
    <3>5. QED
      BY <3>4 DEF x
  <2>8. QED
    BY <2>5, <2>6, <2>7 DEF D
<1>2. bits \in Nat
  BY DEF PoolOk
<1>3. \/ index = 1
      \/ index > 1 /\ index \in 2 .. bits
  BY <1>1, <1>2
<1>4. BoundaryPM(s, ls) =
        CASE index = 1 /\ old.count >= Len(ls) -> called
          [] index = 1 /\ old.count < Len(ls) ->
               Placed(GetFreeNode(called), index, LeafOf(s, ls, index))
          [] index > 1 /\ old.count < Len(ls) /\ sum > ls[old.count + 1].weight ->
               Placed(GetFreeNode(called), index, LeafOf(s, ls, index))
          [] OTHER -> Placed(GetFreeNode(IF final THEN called ELSE again), index, PackageOf(s, index))
  BY DEF BoundaryPM, LeafOf, PackageOf, Sum
<1>5. OK(called) /\ called.pool = s.pool /\ called.lists = s.lists
  <2> DEFINE calls == Tail(s.calls)
  <2>1. calls \in Seq([index : 1 .. bits, final : BOOLEAN])
    BY <1>1
  <2>2. called = [s EXCEPT !.calls = calls]
    OBVIOUS
  <2> HIDE DEF calls, called
  <2>3. QED
    BY <2>1, <2>2, CallsChange
<1>6. index > 1 => OK(again) /\ again.pool = s.pool /\ again.lists = s.lists
  <2>1. index > 1 => more \in Seq([index : 1 .. bits, final : BOOLEAN])
    BY <1>1
  <2>2. again = [s EXCEPT !.calls = more]
    OBVIOUS
  <2> HIDE DEF again, more, index
  <2>3. QED
    BY <2>1, <2>2, CallsChange
<1> HIDE DEF called, again, index, final
<1>7. LeafOf(called, ls, index) = LeafOf(s, ls, index)
  BY <1>5 DEF LeafOf
<1>8. /\ old.count \in Nat /\ Len(ls) \in Nat
      /\ index > 1 => sum \in Nat
      /\ \A k \in 1 .. Len(ls) : ls[k].weight \in Nat
  <2>1. old \in Nodes
    BY <1>1, HeadsLive
  <2>2. ASSUME index > 1 PROVE sum \in Nat
    <3>1. index - 1 \in 1 .. bits
      BY <1>1, <1>2, <2>2
    <3>2. /\ s.pool[s.lists[index - 1].first] \in Nodes
          /\ s.pool[s.lists[index - 1].second] \in Nodes
      BY <3>1, HeadsLive
    <3>3. /\ s.pool[s.lists[index - 1].first].weight \in Nat
          /\ s.pool[s.lists[index - 1].second].weight \in Nat
      BY <3>2 DEF Nodes
    <3>4. QED
      BY <3>3 DEF Sum
  <2>3. QED
    BY <2>1, <2>2, LeafWeights DEF Nodes
<1>9. ASSUME old.count < Len(ls), index > 1 => sum > ls[old.count + 1].weight
      PROVE  OK(Placed(GetFreeNode(called), index, LeafOf(s, ls, index)))
  <2>1. /\ called.pool[called.lists[index].second].count < Len(ls)
        /\ index > 1 => Sum(called.pool, called.lists[index - 1])
             > ls[called.pool[called.lists[index].second].count + 1].weight
    BY <1>5, <1>9
  <2>2. QED
    BY <1>1, <1>5, <1>7, <2>1, LeafKeeps
<1>10. ASSUME NEW t \in {called, again}, index > 1,
              ~ (old.count < Len(ls) /\ sum > ls[old.count + 1].weight)
       PROVE  OK(Placed(GetFreeNode(t), index, PackageOf(s, index)))
  <2>1. OK(t) /\ t.pool = s.pool /\ t.lists = s.lists
    BY <1>5, <1>6, <1>10
  <2>2. PackageOf(t, index) = PackageOf(s, index)
    BY <2>1 DEF PackageOf
  <2>3. old.count < Len(ls) => sum <= ls[old.count + 1].weight
    <3> HIDE DEF old, sum
    <3>1. old.count < Len(ls) => ls[old.count + 1].weight \in Nat
      <4>1. old.count < Len(ls) => old.count + 1 \in 1 .. Len(ls)
        BY <1>8
      <4>2. QED
        BY <1>8, <4>1
    <3>2. QED
      BY <1>8, <1>10, <3>1
  <2>4. t.pool[t.lists[index].second].count < Len(ls) =>
          Sum(t.pool, t.lists[index - 1]) <= ls[t.pool[t.lists[index].second].count + 1].weight
    BY <2>1, <2>3
  <2>5. index \in 2 .. bits
    BY <1>3, <1>10
  <2>6. QED
    BY <2>1, <2>2, <2>4, <2>5, PackageKeeps
<1> HIDE DEF old, sum, OK
<1>11. CASE index = 1 /\ old.count >= Len(ls)
  <2>1. ~ (old.count < Len(ls)) /\ ~ (index > 1)
    BY <1>8, <1>11
  <2>2. BoundaryPM(s, ls) = called
    BY <1>4, <1>11, <2>1
  <2>3. QED
    BY <1>5, <2>2 DEF OK
<1>12. CASE index = 1 /\ old.count < Len(ls)
  <2>1. BoundaryPM(s, ls) = Placed(GetFreeNode(called), index, LeafOf(s, ls, index))
    BY <1>4, <1>8, <1>12
  <2>2. QED
    BY <1>9, <1>12, <2>1 DEF OK
<1>13. CASE index > 1 /\ old.count < Len(ls) /\ sum > ls[old.count + 1].weight
  <2>1. BoundaryPM(s, ls) = Placed(GetFreeNode(called), index, LeafOf(s, ls, index))
    BY <1>3, <1>4, <1>13
  <2>2. QED
    BY <1>9, <1>13, <2>1 DEF OK
<1>14. CASE index > 1 /\ ~ (old.count < Len(ls) /\ sum > ls[old.count + 1].weight)
  <2>1. PICK t \in {called, again} :
               BoundaryPM(s, ls) = Placed(GetFreeNode(t), index, PackageOf(s, index))
    BY <1>3, <1>4, <1>14
  <2>2. QED
    BY <1>10, <1>14, <2>1 DEF OK
<1>15. old.count >= Len(ls) \/ old.count < Len(ls)
  BY <1>8
<1>16. QED
  BY <1>3, <1>11, <1>12, <1>13, <1>14, <1>15

-----------------------------------------------------------------------------
(* Codes: the invariant. *)

CodesInv ==
    /\ freq \in Histograms /\ LeavesOk(leaves) /\ LeavesOf(leaves, freq) /\ runs \in Nat
    /\ PoolOk(pm, maxbits) /\ ListsOk(pm, leaves, maxbits)

\* The lists keep their chains, from the first run on.
THEOREM CodesInvariant == CodesSpec => []CodesInv
<1>1. CodesInit => CodesInv
  <2> SUFFICES ASSUME CodesInit PROVE CodesInv
    OBVIOUS
  <2>1. freq \in Histograms /\ maxbits \in Nat \ {0} /\ Len(leaves) \in 2 .. 2 ^ maxbits
        /\ runs = 0 /\ pm = InitLists(leaves, maxbits)
    BY CodesAssumption DEF CodesInit
  <2>2. Len(leaves) >= 2
    BY <2>1
  <2>3. LeavesOk(leaves) /\ LeavesOf(leaves, freq)
    BY <2>1, <2>2, LeavesSorted DEF leaves
  <2>4. QED
    BY <2>1, <2>3, InitOk DEF CodesInv
<1>2. CodesInv /\ [CodesNext]_codesVars => CodesInv'
  <2> SUFFICES ASSUME CodesInv, [CodesNext]_codesVars PROVE CodesInv'
    OBVIOUS
  <2>1. CASE Run
    <3>1. /\ pm' = [pm EXCEPT !.calls = <<Call(maxbits, runs = numBoundaryPMRuns - 1)>>]
          /\ runs' = runs + 1 /\ freq' = freq /\ maxbits' = maxbits
      BY <2>1 DEF Run
    <3> DEFINE C == [index : 1 .. maxbits, final : BOOLEAN]
               x == Call(maxbits, runs = numBoundaryPMRuns - 1)
    <3>2. x \in C
      <4>1. maxbits \in 1 .. maxbits
        BY DEF CodesInv, PoolOk
      <4>2. (runs = numBoundaryPMRuns - 1) \in BOOLEAN
        OBVIOUS
      <4>3. QED
        BY <4>1, <4>2 DEF Call
    <3> HIDE DEF x, C
    <3>3. <<x>> \in Seq(C)
      BY <3>2
    <3>4. PoolOk(pm', maxbits) /\ ListsOk(pm', leaves, maxbits)
      BY <3>1, <3>3, CallsChange DEF CodesInv, x, C
    <3>5. leaves' = leaves
      BY <3>1 DEF leaves
    <3>6. QED
      BY <3>1, <3>4, <3>5 DEF CodesInv
  <2>2. CASE StepPM
    <3>1. /\ pm.calls # <<>> /\ pm' = BoundaryPM(pm, leaves)
          /\ freq' = freq /\ maxbits' = maxbits /\ runs' = runs
      BY <2>2 DEF StepPM
    <3>2. PoolOk(pm', maxbits) /\ ListsOk(pm', leaves, maxbits)
      BY <3>1, CallKeeps DEF CodesInv
    <3>3. leaves' = leaves
      BY <3>1 DEF leaves
    <3>4. QED
      BY <3>1, <3>2, <3>3 DEF CodesInv
  <2>3. CASE UNCHANGED codesVars
    BY <2>3 DEF codesVars, CodesInv, leaves
  <2>4. QED
    BY <2>1, <2>2, <2>3 DEF CodesNext
<1>3. QED
  BY <1>1, <1>2, PTL DEF CodesSpec

\* The chains of every list come to an end, and no collection takes a node of
\* theirs; the pool never runs out of nodes.
THEOREM ChainsAreKept == CodesSpec => []ChainsKept
<1>1. CodesInv => ChainsKept
  <2> SUFFICES ASSUME CodesInv PROVE ChainsKept
    OBVIOUS
  <2>1. /\ maxbits \in Nat /\ ~ pm.full /\ Len(pm.lists) = maxbits
        /\ DOMAIN pm.lists = 1 .. maxbits /\ Chains(pm)
    BY StateFacts DEF CodesInv, PoolOk
  <2>2. ASSUME NEW i \in 1 .. maxbits, NEW n, n \in {pm.lists[i].first, pm.lists[i].second}
        PROVE  /\ Traversed(pm, n).node = 0
               /\ \A k \in Chain(pm, n) :
                    /\ pm.pool[k].inuse
                    /\ pm.pool[k].tail # 0 => pm.pool[pm.pool[k].tail].count <= pm.pool[k].count
    <3>1. PICK c : Path(pm.pool, n, c, i)
      BY <2>1, <2>2 DEF Chains, Chained
    <3>2. i \in Nat /\ i <= Len(pm.lists)
      BY <2>1
    <3>3. Chain(pm, n) = {c[k] : k \in 1 .. Len(c)} /\ Traversed(pm, n).node = 0
      BY <2>1, <3>1, <3>2, ChainIs
    <3>4. ASSUME NEW j \in 1 .. Len(c)
          PROVE  /\ pm.pool[c[j]].inuse
                 /\ pm.pool[c[j]].tail # 0 =>
                      pm.pool[pm.pool[c[j]].tail].count <= pm.pool[c[j]].count
      <4>1. Len(c) \in Nat
        BY <3>1 DEF Path
      <4>2. /\ pm.pool[c[j]].inuse
            /\ pm.pool[c[j]].tail = IF j = Len(c) THEN 0 ELSE c[j + 1]
            /\ j < Len(c) => pm.pool[c[j + 1]].count <= pm.pool[c[j]].count
        BY <3>1 DEF Path
      <4>3. j = Len(c) \/ j < Len(c)
        BY <4>1
      <4>4. QED
        BY <4>2, <4>3
    <3>5. QED
      BY <3>3, <3>4
  <2>3. \A i \in 1 .. maxbits :
          pm.pool[pm.lists[i].first].weight <= pm.pool[pm.lists[i].second].weight
    BY DEF CodesInv, ListsOk, WeightsOk
  <2>4. QED
    BY <2>1, <2>2, <2>3 DEF ChainsKept
<1>2. QED
  BY <1>1, CodesInvariant, PTL

\* As many of a sequence's values as it is long, or less.
LEMMA FewValues ==
    ASSUME NEW c, Len(c) \in Nat, NEW f
    PROVE  LET V == {f[c[k]] : k \in 1 .. Len(c)}
           IN  IsFiniteSet(V) /\ Cardinality(V) <= Len(c)
<1> DEFINE V == {f[c[k]] : k \in 1 .. Len(c)}
           n == Len(c)
           g == [k \in 1 .. n |-> f[c[k]]]
<1>1. IsFiniteSet(1 .. n) /\ Cardinality(1 .. n) = n
  <2>1. 1 \in Int /\ n \in Int
    OBVIOUS
  <2>2. /\ IsFiniteSet(1 .. n)
        /\ Cardinality(1 .. n) = IF 1 > n THEN 0 ELSE n - 1 + 1
    BY <2>1, FS_Interval, Zenon
  <2>3. n \in Nat
    OBVIOUS
  <2> HIDE DEF n
  <2>4. QED
    BY <2>2, <2>3
<1>2. g \in Surjection(1 .. n, V)
  BY DEF Surjection
<1> HIDE DEF V, g
<1>3. IsFiniteSet(V) /\ Cardinality(V) <= Cardinality(1 .. n)
  BY <1>1, <1>2, FS_Surjection
<1>4. QED
  BY <1>1, <1>3 DEF V

\* What ZopfliLengthLimitedCodeLengths would give for the lists as they are: no
\* length is longer than the limit, which deflate could not transmit, and a
\* symbol that is more frequent than another has no longer code.
LengthsFit ==
    LET lengths == ExtractBitLengths(pm, maxbits, leaves, freq)
    IN  \A i \in DOMAIN freq :
          /\ lengths[i] \in 0 .. maxbits
          /\ freq[i] = 0 => lengths[i] = 0
          /\ \A j \in DOMAIN freq : freq[j] > 0 /\ freq[i] > freq[j] => lengths[i] <= lengths[j]

\* The lengths fit, after any number of runs: the last list's chain has at most
\* maxbits nodes, and a node that counts a leaf counts the lighter ones.
THEOREM LengthsWithinLimit == CodesSpec => []LengthsFit
<1>1. CodesInv => LengthsFit
  <2> SUFFICES ASSUME CodesInv PROVE LengthsFit
    OBVIOUS
  <2> DEFINE n == pm.lists[maxbits].second
             chain == Chain(pm, n)
             pair == [x \in Nat |-> <<x, pm.pool[x].count>>]
             counts == {<<x, pm.pool[x].count>> : x \in chain}
             Place(i) == CHOOSE k \in DOMAIN leaves : leaves[k].symbol = i
             Above(rank) == {x \in counts : x[2] >= rank}
             Length(rank) == Cardinality(Above(rank))
             lengths == [i \in DOMAIN freq |-> IF freq[i] = 0 THEN 0 ELSE Length(Place(i))]
  <2>1. /\ maxbits \in Nat /\ maxbits \in 1 .. maxbits /\ ~ pm.full /\ Len(pm.lists) = maxbits
        /\ Chains(pm) /\ pm.pool \in Seq(Nodes)
    <3>1. /\ maxbits \in Nat \ {0} /\ ~ pm.full /\ Len(pm.lists) = maxbits /\ Chains(pm)
          /\ pm \in States(maxbits)
      BY DEF CodesInv, PoolOk
    <3>2. pm.pool \in Seq(Nodes)
      BY <3>1, StateFacts
    <3>3. maxbits \in 1 .. maxbits
      BY <3>1
    <3>4. QED
      BY <3>1, <3>2, <3>3
  <2>2. /\ Len(leaves) \in Nat /\ DOMAIN leaves = 1 .. Len(leaves)
        /\ \A k \in 1 .. Len(leaves) : leaves[k].weight \in Nat
        /\ \A k, l \in 1 .. Len(leaves) : k < l => leaves[k].weight <= leaves[l].weight
    <3> DEFINE L == [weight : Nat, symbol : Nat]
    <3>1. leaves \in Seq(L)
      BY DEF CodesInv, LeavesOk
    <3> HIDE DEF L
    <3>2. DOMAIN leaves = 1 .. Len(leaves)
      BY <3>1
    <3>3. QED
      BY <3>2, LeafWeights DEF CodesInv
  <2>3. PICK c : Path(pm.pool, n, c, maxbits)
    BY <2>1 DEF Chains, Chained
  <2>4. /\ Len(c) \in Nat /\ Len(c) <= maxbits
        /\ \A k \in 1 .. Len(c) : c[k] \in Nat /\ pm.pool[c[k]].count \in Nat
    <3>1. Len(c) \in Nat /\ Len(c) <= maxbits /\ \A k \in 1 .. Len(c) : c[k] \in 1 .. Len(pm.pool)
      BY <2>3 DEF Path
    <3>2. \A k \in 1 .. Len(c) : pm.pool[c[k]] \in Nodes
      BY <2>1, <3>1
    <3>3. \A x \in Nodes : x.count \in Nat
      BY DEF Nodes
    <3>4. QED
      BY <3>1, <3>2, <3>3
  <2>5. chain = {c[k] : k \in 1 .. Len(c)}
    BY <2>1, <2>3, ChainIs, SMTT(30)
  <2> HIDE DEF n, chain
  <2>6. counts = {pair[c[k]] : k \in 1 .. Len(c)} /\ \A x \in counts : x[2] \in Nat
    <3>1. \A k \in 1 .. Len(c) : pair[c[k]] = <<c[k], pm.pool[c[k]].count>>
      BY <2>4
    <3>2. counts = {<<c[k], pm.pool[c[k]].count>> : k \in 1 .. Len(c)}
      BY <2>5
    <3> HIDE DEF pair
    <3>3. counts = {pair[c[k]] : k \in 1 .. Len(c)}
      <4> HIDE DEF counts
      <4>1. QED
        BY <3>1, <3>2
    <3>4. \A x \in counts : x[2] \in Nat
      <4>1. ASSUME NEW k \in 1 .. Len(c) PROVE <<c[k], pm.pool[c[k]].count>>[2] \in Nat
        BY <2>4
      <4> HIDE DEF counts
      <4>2. QED
        BY <3>2, <4>1
    <3>5. QED
      BY <3>3, <3>4
  <2> HIDE DEF pair
  <2>7. IsFiniteSet(counts) /\ Cardinality(counts) <= Len(c)
    <3>1. /\ IsFiniteSet({pair[c[k]] : k \in 1 .. Len(c)})
          /\ Cardinality({pair[c[k]] : k \in 1 .. Len(c)}) <= Len(c)
      BY <2>4, FewValues
    <3>2. QED
      BY <2>6, <3>1
  <2> HIDE DEF counts
  <2>8. ASSUME NEW r PROVE IsFiniteSet(Above(r)) /\ Length(r) \in 0 .. maxbits
    <3>1. Above(r) \subseteq counts
      OBVIOUS
    <3> HIDE DEF Above
    <3>2. IsFiniteSet(Above(r)) /\ Length(r) <= Cardinality(counts) /\ Length(r) \in Nat
      BY <2>7, <3>1, FS_Subset, FS_CardinalityType
    <3>3. Cardinality(counts) \in Nat
      BY <2>7, FS_CardinalityType
    <3> HIDE DEF Length
    <3>4. QED
      BY <2>1, <2>4, <2>7, <3>2, <3>3
  <2>9. ASSUME NEW r \in Nat, NEW q \in Nat, q <= r PROVE Length(r) <= Length(q)
    <3>1. Above(r) \subseteq Above(q)
      BY <2>6, <2>9
    <3> HIDE DEF Above
    <3>2. QED
      BY <2>8, <3>1, FS_Subset
  <2>10. ASSUME NEW i \in DOMAIN freq, freq[i] > 0
         PROVE  Place(i) \in 1 .. Len(leaves) /\ leaves[Place(i)].weight = freq[i]
    <3>1. \E k \in DOMAIN leaves : leaves[k].symbol = i
      BY <2>2, <2>10 DEF CodesInv, LeavesOf
    <3>2. Place(i) \in DOMAIN leaves /\ leaves[Place(i)].symbol = i
      BY <3>1
    <3> HIDE DEF Place
    <3>3. QED
      BY <2>2, <3>2 DEF CodesInv, LeavesOf
  <2>11. ASSUME NEW i \in DOMAIN freq, NEW j \in DOMAIN freq, freq[j] > 0, freq[i] > freq[j],
                freq[i] > 0
         PROVE  Place(j) <= Place(i)
    <3> HIDE DEF Place
    <3>1. ~ (leaves[Place(i)].weight <= leaves[Place(j)].weight)
      <4>1. /\ leaves[Place(i)].weight = freq[i] /\ leaves[Place(j)].weight = freq[j]
            /\ leaves[Place(i)].weight \in Nat /\ leaves[Place(j)].weight \in Nat
        BY <2>2, <2>10, <2>11
      <4>2. QED
        BY <2>11, <4>1
    <3>2. ~ (Place(i) < Place(j))
      BY <2>2, <2>10, <2>11, <3>1
    <3>3. QED
      BY <2>2, <2>10, <2>11, <3>2
  <2>12. ExtractBitLengths(pm, maxbits, leaves, freq) = lengths
    BY <2>1 DEF ExtractBitLengths, Tabulated, chain, n, counts
  <2> HIDE DEF Above, Length, Place
  <2>13. \A i \in DOMAIN freq : /\ freq[i] \in Nat
                                 /\ lengths[i] = IF freq[i] = 0 THEN 0 ELSE Length(Place(i))
    BY CodesAssumption DEF CodesInv
  <2> HIDE DEF lengths
  <2>14. ASSUME NEW i \in DOMAIN freq
         PROVE  lengths[i] \in 0 .. maxbits /\ (freq[i] = 0 => lengths[i] = 0)
    BY <2>1, <2>8, <2>13
  <2>15. ASSUME NEW i \in DOMAIN freq, NEW j \in DOMAIN freq, freq[j] > 0, freq[i] > freq[j]
         PROVE  lengths[i] <= lengths[j]
    <3>1. freq[i] > 0 /\ freq[i] # 0 /\ freq[j] # 0
      BY <2>13, <2>15
    <3>2. Place(j) <= Place(i) /\ Place(i) \in Nat /\ Place(j) \in Nat
      BY <2>2, <2>10, <2>11, <2>15, <3>1
    <3>3. Length(Place(i)) <= Length(Place(j))
      BY <2>9, <3>2
    <3>4. QED
      BY <2>13, <3>1, <3>3
  <2>16. QED
    BY <2>12, <2>14, <2>15 DEF LengthsFit
<1>2. QED
  BY <1>1, CodesInvariant, PTL

================================================================================
