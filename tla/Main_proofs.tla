---------------------------- MODULE Main_proofs ----------------------------
(***************************************************************************)
(* DecryptBlock undoes EncryptBlock: for every block and key, every table  *)
(* and word size.  Encrypter and decrypter both come to the keys and seeds *)
(* of Stream, and CryptoInv says so of every word they have passed.        *)
(*                                                                         *)
(* The table and the hash of the code are defined by recursion over the    *)
(* numbers, Stream by one over the words; Recursion shows that such a      *)
(* definition defines something and Values what it may yield, so that the  *)
(* table is one of words, and so is every key.                             *)
(*                                                                         *)
(* Then main itself, for any number of runs, any arguments, archives and   *)
(* words: MainInv and CryptoInv are inductive.  What a run writes is an    *)
(* archive only when its header is there, and by then both tables are, as  *)
(* EncryptBlock makes them (Encrypted); this is what the reader decrypts.  *)
(***************************************************************************)
EXTENDS Main, FiniteSetTheorems, WellFoundedInduction, TLAPS

-----------------------------------------------------------------------------
(* Sets of numbers and recursion over them.                                *)

\* A set of natural numbers that is not empty has a least element.
LEMMA LeastNumber ==
    ASSUME NEW T \in SUBSET Nat, T # {}
    PROVE  \E n \in T : \A m \in T : n <= m
<1> DEFINE F == {0 .. n - 1 : n \in T}
<1>1. IsWellFoundedOn(StrictSubsetOrdering(Nat), FiniteSubsetsOf(Nat))
  BY FS_StrictSubsetOrderingWellFounded
<1>2. F \subseteq FiniteSubsetsOf(Nat)
  <2> SUFFICES ASSUME NEW n \in T PROVE 0 .. n - 1 \in FiniteSubsetsOf(Nat)
    OBVIOUS
  <2>1. IsFiniteSet(0 .. n - 1) /\ 0 .. n - 1 \subseteq Nat
    BY FS_Interval
  <2>2. QED
    BY <2>1 DEF FiniteSubsetsOf
<1>3. PICK X \in F : \A Y \in F : ~ (<<Y, X>> \in StrictSubsetOrdering(Nat))
  <2>1. F # {}
    OBVIOUS
  <2> HIDE DEF F
  <2>2. QED
    BY <1>1, <1>2, <2>1, WFMin
<1>4. PICK n \in T : X = 0 .. n - 1
  BY <1>3
<1>5. ASSUME NEW m \in T PROVE n <= m
  <2> SUFFICES ASSUME m < n PROVE FALSE
    OBVIOUS
  <2>1. 0 .. m - 1 \in SUBSET Nat /\ 0 .. n - 1 \in SUBSET Nat /\ 0 .. m - 1 \subseteq 0 .. n - 1
    OBVIOUS
  <2>2. m \in 0 .. n - 1 /\ m \notin 0 .. m - 1
    OBVIOUS
  <2>3. <<0 .. m - 1, X>> \in StrictSubsetOrdering(Nat)
    BY <1>4, <2>1, <2>2 DEF StrictSubsetOrdering
  <2>4. QED
    BY <1>3, <2>3
<1>6. QED
  BY <1>5

\* Induction over 0 .. N: what holds of 0 and of the number after each it holds
\* of, holds of all of them.
LEMMA Values ==
    ASSUME NEW S, NEW N \in Nat, NEW f,
           f[0] \in S,
           \A i \in 1 .. N : f[i - 1] \in S => f[i] \in S
    PROVE  \A i \in 0 .. N : f[i] \in S
<1> DEFINE T == {i \in 0 .. N : f[i] \notin S}
<1> SUFFICES ASSUME T # {} PROVE FALSE
  OBVIOUS
<1>1. PICK n \in T : \A m \in T : n <= m
  <2>1. T \in SUBSET Nat
    OBVIOUS
  <2> HIDE DEF T
  <2>2. QED
    BY <2>1, LeastNumber
<1>2. n \in 1 .. N /\ n - 1 \in 0 .. N /\ ~ (n <= n - 1)
  OBVIOUS
<1>3. f[n - 1] \in S
  BY <1>1, <1>2
<1>4. QED
  BY <1>2, <1>3

\* f has a given value at 0 and follows from its last value everywhere else.
Solves(f, N, base, step) ==
    /\ f = [i \in 0 .. N |-> f[i]]
    /\ f[0] = base
    /\ \A i \in 1 .. N : f[i] = step[<<i, f[i - 1]>>]

\* There is such a function, whatever is demanded of it.
LEMMA Recursion ==
    ASSUME NEW N \in Nat, NEW base, NEW step
    PROVE  \E f : Solves(f, N, base, step)
<1> DEFINE T == {n \in 0 .. N : ~ \E f : Solves(f, n, base, step)}
<1>1. SUFFICES ASSUME T # {} PROVE FALSE
  <2>1. N \in 0 .. N
    OBVIOUS
  <2>2. N \notin T => \E f : Solves(f, N, base, step)
    BY <2>1
  <2>3. QED
    BY <2>2
<1>2. PICK n \in T : \A m \in T : n <= m
  <2>1. T \in SUBSET Nat
    OBVIOUS
  <2> HIDE DEF T
  <2>2. QED
    BY <1>1, <2>1, LeastNumber
<1>3. n # 0
  <2>1. Solves([i \in 0 .. 0 |-> base], 0, base, step)
    BY DEF Solves
  <2>2. QED
    BY <2>1
<1>4. n \in 1 .. N /\ n - 1 \in 0 .. N /\ ~ (n <= n - 1)
  BY <1>3
<1>5. PICK f : Solves(f, n - 1, base, step)
  BY <1>2, <1>4
<1> DEFINE g == [i \in 0 .. n |-> IF i = n THEN step[<<n, f[n - 1]>>] ELSE f[i]]
<1>6. Solves(g, n, base, step)
  <2>1. g[0] = base
    BY <1>4, <1>5 DEF Solves
  <2>2. ASSUME NEW i \in 1 .. n PROVE g[i] = step[<<i, g[i - 1]>>]
    <3>1. g[i - 1] = f[i - 1]
      BY <1>4
    <3>2. CASE i = n
      BY <1>4, <3>1, <3>2
    <3>3. CASE i # n
      <4>1. i \in 1 .. n - 1
        BY <1>4, <3>3
      <4>2. f[i] = step[<<i, f[i - 1]>>]
        BY <1>5, <4>1 DEF Solves
      <4>3. g[i] = f[i]
        BY <1>4, <3>3
      <4>4. QED
        BY <3>1, <4>2, <4>3
    <3>4. QED
      BY <3>2, <3>3
  <2>3. QED
    BY <2>1, <2>2 DEF Solves
<1>7. QED
  BY <1>6

-----------------------------------------------------------------------------
(* The operators of the module.                                            *)

\* The constants are numbers.
LEMMA CryptoFacts ==
    /\ Word \in Nat \ {0} /\ Rows \in Nat \ {0} /\ HighFactor \in Nat
    /\ LowDivisor \in Nat \ {0} /\ Increment \in Words /\ Spread \in Nat
    /\ InitSeed \in Words /\ HashSeed \in Words
    /\ Half \in Nat /\ Half * Half = Word
    /\ \A n \in Nat : n % Word \in Words
    /\ Words \subseteq Nat
<1>1. /\ Word \in Nat \ {0} /\ Rows \in Nat \ {0} /\ HighFactor \in Nat
      /\ LowDivisor \in Nat \ {0} /\ Increment \in Words /\ Spread \in Nat
      /\ InitSeed \in Words /\ HashSeed \in Words
      /\ Half \in Nat /\ Half * Half = Word
  BY CryptoAssumption
<1>2. \A n \in Nat : n % Word \in Words
  BY <1>1 DEF Words
<1>3. Words \subseteq Nat
  BY <1>1 DEF Words
<1>4. QED
  BY <1>1, <1>2, <1>3

\* What is computed from words is a word.
LEMMA WordArithmetic ==
  ASSUME NEW k \in Words, NEW s \in Words, NEW w \in Words
  PROVE  /\ Seeded(k, s) \in Words
         /\ Pad(k, s) \in Words
         /\ NextKey(k) \in Words
         /\ NextSeed(k, s, w) \in Words
<1>1. /\ Word \in Nat \ {0} /\ Rows \in Nat \ {0} /\ HighFactor \in Nat
      /\ LowDivisor \in Nat \ {0} /\ Increment \in Words /\ Spread \in Nat
  BY CryptoAssumption
<1>2. \A n \in Nat : n % Word \in Words
  BY <1>1 DEF Words
<1>3. /\ k \in Nat /\ s \in Nat /\ w \in Nat /\ Word - 1 - k \in Nat /\ Increment \in Nat
  BY <1>1 DEF Words
<1>4. Seeded(k, s) \in Words
  <2> DEFINE r == k % Rows
  <2>1. r \in 0 .. Rows - 1
    BY <1>1, <1>3
  <2>2. CryptTable[4 * Rows + r] \in Nat
    <3> HIDE DEF r
    <3>1. 4 * Rows + r \in 0 .. 5 * Rows - 1
      BY <1>1, <2>1
    <3>2. QED
      BY <3>1, CryptoAssumption DEF Words
  <2>3. s + CryptTable[4 * Rows + r] \in Nat
    BY <2>2, <1>3
  <2>4. QED
    BY <2>3, <1>2 DEF Seeded
<1>5. Seeded(k, s) \in Nat
  BY <1>4 DEF Words
<1>6. Pad(k, s) \in Words
  <2>1. k + Seeded(k, s) \in Nat
    BY <1>3, <1>5
  <2>2. QED
    BY <2>1, <1>2 DEF Pad
<1>7. NextKey(k) \in Words
  <2>1. (Word - 1 - k) * HighFactor \in Nat
    BY <1>1, <1>3
  <2>2. ((Word - 1 - k) * HighFactor + Increment) % Word \in Words
    BY <2>1, <1>2, <1>3
  <2>3. k \div LowDivisor \in Nat /\ k \div LowDivisor <= k
    BY <1>1, <1>3
  <2>4. k \div LowDivisor \in Words
    BY <2>3, <1>1 DEF Words
  <2>5. QED
    BY <2>2, <2>4, CryptoAssumption DEF NextKey
<1>8. NextSeed(k, s, w) \in Words
  <2>1. Spread * Seeded(k, s) \in Nat
    BY <1>1, <1>5
  <2>2. w + Seeded(k, s) + Spread * Seeded(k, s) + 3 \in Nat
    BY <2>1, <1>3, <1>5
  <2>3. QED
    BY <2>2, <1>2 DEF NextSeed
<1>9. QED
  BY <1>4, <1>6, <1>7, <1>8

\* Stream has the key it is given and the first seed, and every word turns the
\* key and seed it meets into the next ones.
LEMMA StreamFacts ==
    ASSUME NEW p \in Seq(Words), NEW k \in Words
    PROVE  /\ \A i \in 0 .. Len(p) : Stream(p, k)[i] \in [key : Words, seed : Words]
           /\ Stream(p, k)[0] = [key |-> k, seed |-> InitSeed]
           /\ \A i \in 1 .. Len(p) :
                 Stream(p, k)[i] =
                    [key  |-> NextKey(Stream(p, k)[i - 1].key),
                     seed |-> NextSeed(Stream(p, k)[i - 1].key, Stream(p, k)[i - 1].seed, p[i])]
<1> DEFINE S == [key : Words, seed : Words]
           N == Len(p)
           base == [key |-> k, seed |-> InitSeed]
           Next2(s, w) == [key |-> NextKey(s.key), seed |-> NextSeed(s.key, s.seed, w)]
           step == [q \in (1 .. N) \X S |-> Next2(q[2], p[q[1]])]
<1>1. base \in S
  BY CryptoFacts
<1>2. \A i \in 1 .. N, s \in S : Next2(s, p[i]) \in S
  <2> SUFFICES ASSUME NEW i \in 1 .. N, NEW s \in S PROVE Next2(s, p[i]) \in S
    OBVIOUS
  <2>1. s.key \in Words /\ s.seed \in Words /\ p[i] \in Words
    OBVIOUS
  <2>2. QED
    BY <2>1, WordArithmetic
<1>3. PICK f : Solves(f, N, base, step)
  <2>1. N \in Nat
    OBVIOUS
  <2> HIDE DEF N, base, step
  <2>2. QED
    BY <2>1, Recursion
<1> HIDE DEF base, Next2
<1>4. \A i \in 1 .. N, s \in S : step[<<i, s>>] = Next2(s, p[i])
  OBVIOUS
<1> HIDE DEF step, S, N
<1>5. N \in Nat
  BY DEF N
<1>6. \A i \in 0 .. N : f[i] \in S
  <2>1. ASSUME NEW i \in 1 .. N, f[i - 1] \in S PROVE f[i] \in S
    <3>1. f[i] = step[<<i, f[i - 1]>>]
      BY <1>3, <2>1 DEF Solves
    <3>2. step[<<i, f[i - 1]>>] = Next2(f[i - 1], p[i]) /\ Next2(f[i - 1], p[i]) \in S
      BY <1>2, <1>4, <2>1
    <3>3. QED
      BY <3>1, <3>2
  <2>2. f[0] \in S
    BY <1>1, <1>3 DEF Solves
  <2>3. QED
    BY <1>5, <2>1, <2>2, Values
<1>7. f = [i \in 0 .. N |-> IF i = 0 THEN base ELSE Next2(f[i - 1], p[i])]
  <2>1. \A i \in 0 .. N : f[i] = IF i = 0 THEN base ELSE Next2(f[i - 1], p[i])
    <3> SUFFICES ASSUME NEW i \in 0 .. N
                 PROVE  f[i] = IF i = 0 THEN base ELSE Next2(f[i - 1], p[i])
      OBVIOUS
    <3>1. i # 0 => i \in 1 .. N /\ i - 1 \in 0 .. N
      BY <1>5
    <3>2. QED
      BY <1>3, <1>4, <1>6, <3>1 DEF Solves
  <2>2. QED
    BY <1>3, <2>1 DEF Solves
<1> DEFINE g == Stream(p, k)
<1>8. g = [i \in 0 .. N |-> IF i = 0 THEN base ELSE Next2(g[i - 1], p[i])]
  BY <1>7 DEF Stream, N, base, Next2
<1> HIDE DEF g
<1>9. g[0] = base
  BY <1>5, <1>8
<1>10. \A i \in 1 .. N : g[i] = Next2(g[i - 1], p[i])
  BY <1>5, <1>8
<1>11. \A i \in 0 .. N : g[i] \in S
  <2>1. \A i \in 1 .. N : g[i - 1] \in S => g[i] \in S
    BY <1>2, <1>10
  <2>2. QED
    BY <1>1, <1>5, <1>9, <2>1, Values
<1>12. QED
  BY <1>9, <1>10, <1>11 DEF g, base, Next2, S, N

\* An encrypted block has as many words as the block, and what each is made of.
LEMMA EncryptedFacts ==
    ASSUME NEW p \in Seq(Words), NEW k \in Words
    PROVE  /\ Encrypted(p, k) \in Seq(Words)
           /\ Len(Encrypted(p, k)) = Len(p)
           /\ \A i \in 1 .. Len(p) :
                 Encrypted(p, k)[i] =
                    XorOf(p[i], Pad(Stream(p, k)[i - 1].key, Stream(p, k)[i - 1].seed))
<1> DEFINE e(i) == XorOf(p[i], Pad(Stream(p, k)[i - 1].key, Stream(p, k)[i - 1].seed))
<1>1. ASSUME NEW i \in 1 .. Len(p) PROVE e(i) \in Words
  <2>1. Stream(p, k)[i - 1] \in [key : Words, seed : Words]
    <3>1. i - 1 \in 0 .. Len(p)
      OBVIOUS
    <3>2. QED
      BY <3>1, StreamFacts
  <2>2. Pad(Stream(p, k)[i - 1].key, Stream(p, k)[i - 1].seed) \in Words
    BY <2>1, WordArithmetic
  <2>3. p[i] \in Words
    OBVIOUS
  <2>4. QED
    BY <2>2, <2>3, CryptoAssumption
<1>2. Encrypted(p, k) = [i \in 1 .. Len(p) |-> e(i)]
  BY DEF Encrypted
<1> HIDE DEF e
<1>3. Encrypted(p, k) \in [1 .. Len(p) -> Words]
  BY <1>1, <1>2
<1>4. Encrypted(p, k) \in Seq(Words) /\ Len(Encrypted(p, k)) = Len(p)
  BY <1>3
<1>5. QED
  BY <1>2, <1>4 DEF e

\* What a character makes of two words are two words.
LEMMA HashArithmetic ==
    ASSUME NEW type \in 0 .. 4, NEW c \in 0 .. Rows - 1, NEW one \in Words, NEW two \in Words
    PROVE  Hashed(type, c, one, two) \in Words \X Words
<1>1. one \in Nat /\ two \in Nat /\ c \in Nat /\ Rows \in Nat
  BY CryptoFacts
<1>2. type * Rows + c \in 0 .. 5 * Rows - 1
  <2>1. type \in {0, 1, 2, 3, 4}
    OBVIOUS
  <2>2. QED
    BY <1>1, <2>1
<1>3. (one + two) % Word \in Words
  <2>1. one + two \in Nat
    BY <1>1
  <2>2. QED
    BY <2>1, CryptoFacts
<1>4. CryptTable[type * Rows + c] \in Words
  BY <1>2, CryptoAssumption
<1>5. Mixed(type, c, one, two) \in Words
  BY <1>3, <1>4, CryptoAssumption DEF Mixed
<1>6. c + Mixed(type, c, one, two) + two + Spread * two + 3 \in Nat
  <2>1. Spread * two \in Nat
    BY <1>1, CryptoFacts
  <2>2. Mixed(type, c, one, two) \in Nat
    BY <1>5, CryptoFacts
  <2>3. QED
    BY <1>1, <2>1, <2>2
<1>7. (c + Mixed(type, c, one, two) + two + Spread * two + 3) % Word \in Words
  BY <1>6, CryptoFacts
<1>8. QED
  BY <1>5, <1>7 DEF Hashed

\* The keys of the tables are words: hash makes one of any path.
LEMMA HashIsWord ==
    ASSUME NEW path \in Seq(0 .. Rows - 1), NEW type \in 0 .. 4
    PROVE  hash(path, type) \in Words
<1> DEFINE S == Words \X Words
           N == Len(path)
           base == <<HashSeed, InitSeed>>
           step == [q \in (1 .. N) \X S |-> Hashed(type, path[q[1]], q[2][1], q[2][2])]
<1>1. base \in S
  BY CryptoFacts
<1>2. \A i \in 1 .. N, s \in S : Hashed(type, path[i], s[1], s[2]) \in S
  <2> SUFFICES ASSUME NEW i \in 1 .. N, NEW s \in S
               PROVE  Hashed(type, path[i], s[1], s[2]) \in S
    OBVIOUS
  <2>1. s[1] \in Words /\ s[2] \in Words
    OBVIOUS
  <2>2. path[i] \in 0 .. Rows - 1
    <3>1. \A T : \A q \in Seq(T) : \A j \in 1 .. Len(q) : q[j] \in T
      OBVIOUS
    <3>2. QED
      BY <3>1, Zenon
  <2>3. QED
    BY <2>1, <2>2, HashArithmetic
<1>3. PICK f : Solves(f, N, base, step)
  <2>1. N \in Nat
    OBVIOUS
  <2> HIDE DEF N, base, step
  <2>2. QED
    BY <2>1, Recursion
<1> HIDE DEF base
<1>4. \A i \in 1 .. N, s \in S : step[<<i, s>>] = Hashed(type, path[i], s[1], s[2])
  OBVIOUS
<1> HIDE DEF step, S, N
<1>5. N \in Nat
  BY DEF N
<1>6. \A i \in 0 .. N : f[i] \in S
  <2>1. ASSUME NEW i \in 1 .. N, f[i - 1] \in S PROVE f[i] \in S
    <3>1. f[i] = step[<<i, f[i - 1]>>]
      BY <1>3 DEF Solves
    <3>2. PICK s \in S : s = f[i - 1]
      BY <2>1
    <3>3. step[<<i, s>>] = Hashed(type, path[i], s[1], s[2])
      BY <1>4
    <3>4. Hashed(type, path[i], s[1], s[2]) \in S
      BY <1>2
    <3>5. QED
      BY <3>1, <3>2, <3>3, <3>4
  <2>2. QED
    BY <1>1, <1>3, <1>5, <2>1, Values DEF Solves
<1>7. f = [i \in 0 .. N |-> IF i = 0 THEN base ELSE Hashed(type, path[i], f[i - 1][1], f[i - 1][2])]
  <2>1. \A i \in 0 .. N : f[i] = IF i = 0 THEN base ELSE Hashed(type, path[i], f[i - 1][1], f[i - 1][2])
    <3> SUFFICES ASSUME NEW i \in 0 .. N
                 PROVE  f[i] = IF i = 0 THEN base ELSE Hashed(type, path[i], f[i - 1][1], f[i - 1][2])
      OBVIOUS
    <3>1. i # 0 => i \in 1 .. N /\ i - 1 \in 0 .. N
      BY <1>5
    <3>2. QED
      BY <1>3, <1>4, <1>6, <3>1 DEF Solves
  <2>2. QED
    BY <1>3, <2>1 DEF Solves
<1> DEFINE g == CHOOSE g : g = [i \in 0 .. N |->
                                    IF i = 0 THEN base ELSE Hashed(type, path[i], g[i - 1][1], g[i - 1][2])]
<1>8. hash(path, type) = g[N][1]
  BY DEF hash, g, N, base
<1>9. g = [i \in 0 .. N |-> IF i = 0 THEN base ELSE Hashed(type, path[i], g[i - 1][1], g[i - 1][2])]
  BY <1>7
<1> HIDE DEF g
<1>10. \A i \in 0 .. N : g[i] \in S
  <2>1. g[0] \in S
    BY <1>1, <1>5, <1>9
  <2>2. \A i \in 1 .. N : g[i - 1] \in S => g[i] \in S
    BY <1>2, <1>5, <1>9
  <2>3. QED
    BY <1>5, <2>1, <2>2, Values
<1>11. g[N] \in S
  BY <1>5, <1>10
<1>12. QED
  BY <1>8, <1>11 DEF S

\* What is drawn for the table is a number, however many draws there are.
LEMMA DrawnFacts == \A n \in 0 .. 10 * Rows : Drawn[n] \in Nat
<1> DEFINE N == 10 * Rows
           step == [q \in (1 .. N) \X Nat |-> NextDraw(q[2])]
<1>1. N \in Nat
  BY CryptoFacts
<1>2. FirstSeed \in Nat /\ \A s \in Nat : NextDraw(s) \in Nat
  BY DEF FirstSeed, NextDraw
<1>3. PICK f : Solves(f, N, FirstSeed, step)
  <2> HIDE DEF N, step
  <2>1. QED
    BY <1>1, Recursion
<1> HIDE DEF N
<1>4. \A i \in 1 .. N, s \in Nat : step[<<i, s>>] = NextDraw(s)
  OBVIOUS
<1> HIDE DEF step
<1>5. \A i \in 0 .. N : f[i] \in Nat
  <2>1. ASSUME NEW i \in 1 .. N, f[i - 1] \in Nat PROVE f[i] \in Nat
    BY <1>2, <1>3, <1>4, <2>1 DEF Solves
  <2>2. f[0] \in Nat
    BY <1>2, <1>3 DEF Solves
  <2>3. QED
    BY <1>1, <2>1, <2>2, Values
<1>6. f = [i \in 0 .. N |-> IF i = 0 THEN FirstSeed ELSE NextDraw(f[i - 1])]
  <2>1. \A i \in 0 .. N : f[i] = IF i = 0 THEN FirstSeed ELSE NextDraw(f[i - 1])
    <3> SUFFICES ASSUME NEW i \in 0 .. N
                 PROVE  f[i] = IF i = 0 THEN FirstSeed ELSE NextDraw(f[i - 1])
      OBVIOUS
    <3>1. i # 0 => i \in 1 .. N /\ i - 1 \in 0 .. N
      BY <1>1
    <3>2. QED
      BY <1>3, <1>4, <1>5, <3>1 DEF Solves
  <2>2. QED
    BY <1>3, <2>1 DEF Solves
<1>7. Drawn = [i \in 0 .. N |-> IF i = 0 THEN FirstSeed ELSE NextDraw(Drawn[i - 1])]
  BY <1>6 DEF Drawn, N
<1>8. Drawn[0] \in Nat
  BY <1>1, <1>2, <1>7
<1>9. \A i \in 1 .. N : Drawn[i - 1] \in Nat => Drawn[i] \in Nat
  <2>1. \A i \in 1 .. N : Drawn[i] = NextDraw(Drawn[i - 1])
    BY <1>1, <1>7
  <2>2. QED
    BY <1>2, <2>1
<1>10. \A i \in 0 .. N : Drawn[i] \in Nat
  BY <1>1, <1>8, <1>9, Values
<1>11. QED
  BY <1>10 DEF N

\* PrepareCryptTable fills the table with words: it is a table as the proofs
\* assume it to be, for every number of rows.
THEOREM TableOfWords == PrepareCryptTable \in [0 .. 5 * Rows - 1 -> Words]
<1> DEFINE n(i) == 2 * (5 * (i % Rows) + i \div Rows)
           e(i) == (Drawn[n(i) + 1] % Half) * Half + (Drawn[n(i) + 2] % Half)
<1>1. Rows \in Nat /\ Rows > 0 /\ Half \in Nat /\ Half > 0 /\ Words = 0 .. Half * Half - 1
  <2>1. Half # 0
    BY CryptoFacts
  <2>2. QED
    BY <2>1, CryptoFacts DEF Words
<1>2. ASSUME NEW i \in 0 .. 5 * Rows - 1 PROVE e(i) \in Words
  <2>1. i % Rows \in 0 .. Rows - 1 /\ i \div Rows \in Nat /\ i = (i \div Rows) * Rows + (i % Rows)
    BY <1>1
  <2>2. i \div Rows <= 4
    <3> DEFINE d == i \div Rows
    <3>1. d \in Nat /\ d * Rows <= i
      BY <1>1, <2>1
    <3> HIDE DEF d
    <3> SUFFICES ASSUME d >= 5 PROVE FALSE
      BY <3>1 DEF d
    <3>2. d * Rows >= 5 * Rows
      BY <1>1, <3>1
    <3>3. QED
      BY <1>1, <3>1, <3>2
  <2>3. n(i) + 1 \in 0 .. 10 * Rows /\ n(i) + 2 \in 0 .. 10 * Rows
    BY <1>1, <2>1, <2>2
  <2>4. Drawn[n(i) + 1] \in Nat /\ Drawn[n(i) + 2] \in Nat
    BY <2>3, DrawnFacts
  <2> DEFINE a == Drawn[n(i) + 1] % Half
             b == Drawn[n(i) + 2] % Half
  <2>5. a \in 0 .. Half - 1 /\ b \in 0 .. Half - 1
    <3> HIDE DEF n
    <3>1. QED
      BY <1>1, <2>4
  <2> HIDE DEF a, b
  <2>6. a * Half \in Nat /\ a * Half <= (Half - 1) * Half
    BY <1>1, <2>5
  <2>7. a * Half + b \in 0 .. Half * Half - 1
    BY <1>1, <2>5, <2>6
  <2>8. QED
    BY <1>1, <2>7 DEF a, b
<1>3. PrepareCryptTable = [i \in 0 .. 5 * Rows - 1 |-> e(i)]
  BY DEF PrepareCryptTable
<1> HIDE DEF e
<1>4. QED
  BY <1>2, <1>3

-----------------------------------------------------------------------------
(* The loops.                                                              *)

\* The invariant holds before the first block.
LEMMA InvInit == CryptoInit => CryptoInv
<1> SUFFICES ASSUME CryptoInit PROVE CryptoInv
  OBVIOUS
<1>1. InitSeed \in Words
  BY CryptoFacts
<1>2. CryptoTypeOK
  BY <1>1 DEF CryptoInit, CryptoTypeOK
<1>3. StreamOK
  <2>1. Stream(plain, start)[0] = [key |-> start, seed |-> InitSeed]
    BY <1>2, StreamFacts DEF CryptoTypeOK
  <2>2. QED
    BY <2>1 DEF CryptoInit, StreamOK
<1>4. WordsOK
  BY DEF CryptoInit, WordsOK
<1>5. QED
  BY <1>2, <1>3, <1>4 DEF CryptoInv

\* EncryptBlock may be called with any block and any key.
LEMMA EncryptBegins ==
  ASSUME NEW b \in Seq(Words), NEW k \in Words, BeginEncrypt(b, k)
  PROVE  CryptoInv'
<1>1. /\ mode' = "encrypt" /\ block' = b /\ at' = 1 /\ key' = k /\ seed' = InitSeed
      /\ start' = k /\ plain' = b
  BY DEF BeginEncrypt, Begin
<1>2. CryptoTypeOK'
  BY <1>1, CryptoFacts DEF CryptoTypeOK
<1>3. Stream(b, k)[0] = [key |-> k, seed |-> InitSeed]
  BY StreamFacts
<1>4. StreamOK'
  BY <1>1, <1>3 DEF StreamOK
<1>5. WordsOK'
  BY <1>1 DEF WordsOK
<1>6. QED
  BY <1>2, <1>4, <1>5 DEF CryptoInv

\* DecryptBlock is called with what EncryptBlock has made, and the same key.
LEMMA DecryptBegins ==
  ASSUME NEW p \in Seq(Words), NEW k \in Words, BeginDecrypt(Encrypted(p, k), k, p)
  PROVE  CryptoInv'
<1>1. /\ mode' = "decrypt" /\ block' = Encrypted(p, k) /\ at' = 1 /\ key' = k
      /\ seed' = InitSeed /\ start' = k /\ plain' = p
  BY DEF BeginDecrypt, Begin
<1>2. Encrypted(p, k) \in Seq(Words) /\ Len(Encrypted(p, k)) = Len(p)
  BY EncryptedFacts
<1>3. CryptoTypeOK'
  BY <1>1, <1>2, CryptoFacts DEF CryptoTypeOK
<1>4. Stream(p, k)[0] = [key |-> k, seed |-> InitSeed]
  BY StreamFacts
<1>5. StreamOK'
  BY <1>1, <1>4 DEF StreamOK
<1>6. WordsOK'
  BY <1>1 DEF WordsOK
<1>7. QED
  BY <1>3, <1>5, <1>6 DEF CryptoInv

\* The word a loop is at, its key and its seed.
LEMMA AtWord ==
  ASSUME CryptoInv, ~Finished
  PROVE  /\ at \in 1 .. Len(block) /\ at + 1 \in 1 .. Len(block) + 1
         /\ block[at] \in Words /\ plain[at] \in Words
         /\ Encrypted(plain, start)[at] = XorOf(plain[at], Pad(key, seed))
         /\ Pad(key, seed) \in Words
         /\ NextKey(key) \in Words
         /\ NextSeed(key, seed, plain[at]) \in Words
         /\ Stream(plain, start)[at] =
               [key |-> NextKey(key), seed |-> NextSeed(key, seed, plain[at])]
<1>1. /\ at \in 1 .. Len(block) /\ at + 1 \in 1 .. Len(block) + 1
      /\ block \in Seq(Words) /\ plain \in Seq(Words) /\ Len(plain) = Len(block)
      /\ key \in Words /\ seed \in Words /\ start \in Words
  BY DEF CryptoInv, CryptoTypeOK, Finished
<1>2. plain[at] \in Words /\ block[at] \in Words
  BY <1>1
<1>3. Stream(plain, start)[at - 1].key = key /\ Stream(plain, start)[at - 1].seed = seed
  BY DEF CryptoInv, StreamOK
<1>4. Encrypted(plain, start)[at] = XorOf(plain[at], Pad(key, seed))
  <2>1. Encrypted(plain, start)[at] =
           XorOf(plain[at], Pad(Stream(plain, start)[at - 1].key, Stream(plain, start)[at - 1].seed))
    BY <1>1, EncryptedFacts
  <2>2. QED
    BY <1>3, <2>1
<1>5. Stream(plain, start)[at] =
         [key |-> NextKey(key), seed |-> NextSeed(key, seed, plain[at])]
  <2>1. Stream(plain, start)[at] =
           [key  |-> NextKey(Stream(plain, start)[at - 1].key),
            seed |-> NextSeed(Stream(plain, start)[at - 1].key, Stream(plain, start)[at - 1].seed,
                              plain[at])]
    BY <1>1, StreamFacts
  <2>2. QED
    BY <1>3, <2>1
<1>6. Pad(key, seed) \in Words /\ NextKey(key) \in Words /\ NextSeed(key, seed, plain[at]) \in Words
  BY <1>1, <1>2, WordArithmetic
<1>7. QED
  BY <1>1, <1>2, <1>4, <1>5, <1>6

\* The loop passes a word: it puts the right one there, and its key and seed
\* have followed the word in the clear.
LEMMA WordPassed ==
  ASSUME CryptoInv, ~Finished,
         NEW w \in Words,
         w = IF mode = "encrypt" THEN Encrypted(plain, start)[at] ELSE plain[at],
         block' = [block EXCEPT ![at] = w],
         key' = NextKey(key), seed' = NextSeed(key, seed, plain[at]), at' = at + 1,
         UNCHANGED <<mode, plain, start>>
  PROVE  CryptoInv'
<1>1. /\ at \in 1 .. Len(block) /\ at + 1 \in 1 .. Len(block) + 1
      /\ key' \in Words /\ seed' \in Words
      /\ Stream(plain, start)[at] = [key |-> key', seed |-> seed']
  BY AtWord
<1>2. /\ block \in Seq(Words) /\ mode' = mode /\ plain' = plain /\ start' = start
      /\ mode \in {"encrypt", "decrypt"}
  BY DEF CryptoInv, CryptoTypeOK
<1>3. block' \in Seq(Words) /\ Len(block') = Len(block)
  BY <1>1, <1>2
<1>4. CryptoTypeOK'
  BY <1>1, <1>2, <1>3 DEF CryptoInv, CryptoTypeOK
<1>5. StreamOK'
  <2>1. at' - 1 = at
    BY <1>1
  <2>2. QED
    BY <1>1, <1>2, <2>1 DEF StreamOK
<1>6. WordsOK'
  <2>1. SUFFICES ASSUME NEW i \in 1 .. Len(block)
                 PROVE  block'[i] = IF (i < at + 1) <=> (mode = "encrypt")
                                    THEN Encrypted(plain, start)[i] ELSE plain[i]
    BY <1>2, <1>3 DEF WordsOK
  <2>2. CASE i = at
    BY <1>1, <1>2, <2>2
  <2>3. CASE i # at
    <3>1. block'[i] = block[i]
      BY <1>2, <2>3
    <3>2. i < at + 1 <=> i < at
      BY <1>1, <2>3
    <3>3. QED
      BY <3>1, <3>2 DEF CryptoInv, WordsOK
  <2>4. QED
    BY <2>2, <2>3
<1>7. QED
  BY <1>4, <1>5, <1>6 DEF CryptoInv

LEMMA EncryptSteps ==
  ASSUME CryptoInv, EncryptWord
  PROVE  CryptoInv'
<1>1. /\ mode = "encrypt" /\ ~Finished /\ at' = at + 1
      /\ block' = [block EXCEPT ![at] = XorOf(block[at], Pad(key, seed))]
      /\ key' = NextKey(key) /\ seed' = NextSeed(key, seed, block[at])
      /\ UNCHANGED <<mode, plain, start>>
  BY DEF EncryptWord
<1>2. /\ at \in 1 .. Len(block) /\ plain[at] \in Words /\ Pad(key, seed) \in Words
      /\ Encrypted(plain, start)[at] = XorOf(plain[at], Pad(key, seed))
  BY <1>1, AtWord
<1>3. block[at] = plain[at]
  <2>1. ~ (at < at)
    BY <1>2
  <2>2. QED
    BY <1>1, <1>2, <2>1 DEF CryptoInv, WordsOK
<1>4. Encrypted(plain, start)[at] \in Words
  BY <1>2, CryptoAssumption
<1>5. QED
  BY <1>1, <1>2, <1>3, <1>4, WordPassed

LEMMA DecryptSteps ==
  ASSUME CryptoInv, DecryptWord
  PROVE  CryptoInv'
<1>1. /\ mode = "decrypt" /\ ~Finished /\ at' = at + 1
      /\ block' = [block EXCEPT ![at] = XorOf(block[at], Pad(key, seed))]
      /\ key' = NextKey(key) /\ seed' = NextSeed(key, seed, block'[at])
      /\ UNCHANGED <<mode, plain, start>>
  BY DEF DecryptWord
<1>2. /\ at \in 1 .. Len(block) /\ plain[at] \in Words /\ Pad(key, seed) \in Words
      /\ Encrypted(plain, start)[at] = XorOf(plain[at], Pad(key, seed))
      /\ block \in Seq(Words)
  BY <1>1, AtWord DEF CryptoInv, CryptoTypeOK
<1>3. block[at] = Encrypted(plain, start)[at]
  <2>1. ~ (at < at)
    BY <1>2
  <2>2. QED
    BY <1>1, <1>2, <2>1 DEF CryptoInv, WordsOK
<1>4. XorOf(block[at], Pad(key, seed)) = plain[at]
  BY <1>2, <1>3, CryptoAssumption
<1>5. block' = [block EXCEPT ![at] = plain[at]] /\ block'[at] = plain[at]
  BY <1>1, <1>2, <1>4
<1>6. QED
  BY <1>1, <1>2, <1>5, WordPassed

LEMMA InvStutters ==
  ASSUME CryptoInv, UNCHANGED cryptoVars
  PROVE  CryptoInv'
<1>1. /\ mode' = mode /\ block' = block /\ at' = at /\ key' = key /\ seed' = seed
      /\ plain' = plain /\ start' = start
  BY DEF cryptoVars
<1>2. QED
  BY <1>1 DEF CryptoInv, CryptoTypeOK, StreamOK, WordsOK

\* What the loops have made of a block when they have passed its last word.
LEMMA LoopEnds ==
  ASSUME CryptoInv, Finished
  PROVE  block = IF mode = "encrypt" THEN Encrypted(plain, start) ELSE plain
<1>1. /\ block \in Seq(Words) /\ plain \in Seq(Words) /\ Len(plain) = Len(block)
      /\ start \in Words /\ at = Len(block) + 1
      /\ mode \in {"encrypt", "decrypt"}
  BY DEF CryptoInv, CryptoTypeOK, Finished
<1>2. Encrypted(plain, start) \in Seq(Words) /\ Len(Encrypted(plain, start)) = Len(block)
  BY <1>1, EncryptedFacts
<1>3. \A i \in 1 .. Len(block) :
         block[i] = IF mode = "encrypt" THEN Encrypted(plain, start)[i] ELSE plain[i]
  BY <1>1 DEF CryptoInv, WordsOK
<1>4. CASE mode = "encrypt"
  BY <1>1, <1>2, <1>3, <1>4
<1>5. CASE mode # "encrypt"
  BY <1>1, <1>3, <1>5
<1>6. QED
  BY <1>4, <1>5

LEMMA InvRestores == CryptoInv => BlockRestored
<1> SUFFICES ASSUME CryptoInv, mode = "decrypt"
             PROVE  Len(block) = Len(plain) /\ \A i \in 1 .. at - 1 : block[i] = plain[i]
  BY DEF BlockRestored
<1>1. Len(block) = Len(plain) /\ at \in 1 .. Len(block) + 1 /\ Len(block) \in Nat
  BY DEF CryptoInv, CryptoTypeOK
<1>2. ASSUME NEW i \in 1 .. at - 1 PROVE block[i] = plain[i]
  <2>1. i \in 1 .. Len(block) /\ i < at
    BY <1>1
  <2>2. QED
    BY <2>1 DEF CryptoInv, WordsOK
<1>3. QED
  BY <1>1, <1>2

-----------------------------------------------------------------------------
\* DecryptBlock restores, word for word, what EncryptBlock was given, for every
\* block, key and table.
THEOREM DecryptUndoesEncrypt == CryptoSpec => []BlockRestored
<1>1. CryptoInit => CryptoInv
  BY InvInit
<1>2. CryptoInv /\ [CryptoNext]_cryptoVars => CryptoInv'
  <2> SUFFICES ASSUME CryptoInv, [CryptoNext]_cryptoVars PROVE CryptoInv'
    OBVIOUS
  <2>1. ASSUME NEW b \in Blocks, NEW k \in Words, BeginEncrypt(b, k) PROVE CryptoInv'
    BY <2>1, EncryptBegins, CryptoAssumption
  <2>2. ASSUME mode = "encrypt", Finished, BeginDecrypt(block, start, plain) PROVE CryptoInv'
    <3>1. block = Encrypted(plain, start) /\ plain \in Seq(Words) /\ start \in Words
      BY <2>2, LoopEnds DEF CryptoInv, CryptoTypeOK
    <3>2. PICK p \in Seq(Words), k \in Words : p = plain /\ k = start
      BY <3>1
    <3>3. BeginDecrypt(Encrypted(p, k), k, p)
      BY <2>2, <3>1, <3>2
    <3>4. QED
      BY <3>3, DecryptBegins
  <2>3. QED
    BY <2>1, <2>2, EncryptSteps, DecryptSteps, InvStutters DEF CryptoNext
<1>3. CryptoInv => BlockRestored
  BY InvRestores
<1>4. QED
  BY <1>1, <1>2, <1>3, PTL DEF CryptoSpec

-----------------------------------------------------------------------------
(* Numbers and sequences.                                                  *)

\* Min of a set of natural numbers is its least element.
LEMMA LeastElement ==
    ASSUME NEW T \in SUBSET Nat, T # {}
    PROVE  Min(T) \in T /\ \A y \in T : Min(T) <= y
BY LeastNumber DEF Min

\* The lesser of two numbers.
LEMMA MinOfTwo == \A a, b \in Nat : a <= b => Min({a, b}) = a
<1> SUFFICES ASSUME NEW a \in Nat, NEW b \in Nat, a <= b PROVE Min({a, b}) = a
  OBVIOUS
<1>1. Min({a, b}) \in {a, b} /\ \A y \in {a, b} : Min({a, b}) <= y
  BY LeastElement
<1>2. QED
  BY <1>1

\* How many entries of e words are in a table of n of them.
LEMMA Entries == \A e \in Nat \ {0}, n \in Nat : e * n \in Nat /\ (e * n) \div e = n
<1> SUFFICES ASSUME NEW e \in Nat \ {0}, NEW n \in Nat PROVE e * n \in Nat /\ (e * n) \div e = n
  OBVIOUS
<1>1. QED
  OBVIOUS

\* The parts of three sequences one behind the other.
LEMMA Parts ==
    ASSUME NEW S, NEW a \in Seq(S), NEW b \in Seq(S), NEW c \in Seq(S)
    PROVE  /\ SubSeq(a \o b \o c, Len(a) + 1, Len(a) + Len(b)) = b
           /\ SubSeq(a \o b \o c, Len(a) + Len(b) + 1, Len(a) + Len(b) + Len(c)) = c
           /\ Len(a \o b \o c) = Len(a) + Len(b) + Len(c)
           /\ a \o b \o c \in Seq(S)
<1> DEFINE w == a \o b \o c
<1>1. w \in Seq(S) /\ Len(w) = Len(a) + Len(b) + Len(c)
  OBVIOUS
<1>2. \A i \in 1 .. Len(b) : w[Len(a) + i] = b[i]
  OBVIOUS
<1>3. \A i \in 1 .. Len(c) : w[Len(a) + Len(b) + i] = c[i]
  OBVIOUS
<1> HIDE DEF w
<1>4. SubSeq(w, Len(a) + 1, Len(a) + Len(b)) = b
  BY <1>1, <1>2
<1>5. SubSeq(w, Len(a) + Len(b) + 1, Len(a) + Len(b) + Len(c)) = c
  BY <1>1, <1>3
<1>6. QED
  BY <1>1, <1>4, <1>5 DEF w

\* nextPowerOf2 yields a number: doubling gets beyond every n.
LEMMA PowerFacts == \A n \in Nat : NextPowerOf2(n) \in Nat
<1> SUFFICES ASSUME NEW n \in Nat PROVE NextPowerOf2(n) \in Nat
  OBVIOUS
<1> DEFINE step == [q \in (1 .. n) \X Nat |-> 2 * q[2]]
<1>1. PICK f : Solves(f, n, 1, step)
  <2> HIDE DEF step
  <2>1. QED
    BY Recursion
<1>2. \A i \in 1 .. n, s \in Nat : step[<<i, s>>] = 2 * s
  OBVIOUS
<1> HIDE DEF step
<1>3. \A i \in 0 .. n : f[i] \in Nat
  <2>1. ASSUME NEW i \in 1 .. n, f[i - 1] \in Nat PROVE f[i] \in Nat
    <3>1. f[i] = 2 * f[i - 1]
      BY <1>1, <1>2, <2>1 DEF Solves
    <3>2. QED
      BY <2>1, <3>1
  <2>2. f[0] \in Nat
    BY <1>1 DEF Solves
  <2>3. QED
    BY <2>1, <2>2, Values
<1>4. f = [i \in 0 .. n |-> IF i = 0 THEN 1 ELSE 2 * f[i - 1]]
  <2>1. \A i \in 0 .. n : f[i] = IF i = 0 THEN 1 ELSE 2 * f[i - 1]
    <3> SUFFICES ASSUME NEW i \in 0 .. n PROVE f[i] = IF i = 0 THEN 1 ELSE 2 * f[i - 1]
      OBVIOUS
    <3>1. i # 0 => i \in 1 .. n /\ i - 1 \in 0 .. n
      OBVIOUS
    <3>2. QED
      BY <1>1, <1>2, <1>3, <3>1 DEF Solves
  <2>2. QED
    BY <1>1, <2>1 DEF Solves
<1> DEFINE power == CHOOSE power : power = [i \in 0 .. n |-> IF i = 0 THEN 1 ELSE 2 * power[i - 1]]
<1>5. NextPowerOf2(n) = IF n = 0 THEN 0 ELSE power[Min({e \in 0 .. n : power[e] >= n})]
  BY DEF NextPowerOf2
<1>6. power = [i \in 0 .. n |-> IF i = 0 THEN 1 ELSE 2 * power[i - 1]]
  BY <1>4
<1> HIDE DEF power
<1> DEFINE Above == {m \in Nat \X Nat : m[1] > m[2]}
           pairs == [i \in 0 .. n |-> <<power[i], i>>]
<1>7. \A i \in 0 .. n : pairs[i] \in Above
  <2>1. pairs[0] \in Above
    BY <1>6
  <2>2. ASSUME NEW i \in 1 .. n, pairs[i - 1] \in Above PROVE pairs[i] \in Above
    <3>1. i - 1 \in 0 .. n /\ power[i - 1] \in Nat /\ power[i - 1] > i - 1
      BY <2>2
    <3>2. power[i] = 2 * power[i - 1]
      BY <1>6
    <3>3. QED
      BY <3>1, <3>2
  <2> HIDE DEF pairs, Above
  <2>3. QED
    BY <2>1, <2>2, Values
<1>8. \A i \in 0 .. n : power[i] \in Nat /\ power[i] > i
  BY <1>7
<1> DEFINE T == {e \in 0 .. n : power[e] >= n}
<1>9. n \in T /\ T \in SUBSET Nat
  BY <1>8
<1>10. Min(T) \in T
  <2> HIDE DEF T
  <2>1. QED
    BY <1>9, LeastElement
<1>11. power[Min(T)] \in Nat
  BY <1>8, <1>10
<1>12. QED
  BY <1>5, <1>11

\* The keys of the tables are words.
LEMMA KeyFacts == \A t \in Tables : KeyOf(t) \in Words
<1> SUFFICES ASSUME NEW t \in Tables PROVE KeyOf(t) \in Words
  OBVIOUS
<1> DEFINE name == IF t = "ht" THEN HashTableName ELSE BlockTableName
<1>1. name \in Seq(0 .. Rows - 1)
  BY MainAssumption
<1>2. TableKey \in 0 .. 4
  BY DEF TableKey
<1> HIDE DEF name
<1>3. hash(name, TableKey) \in Words
  BY <1>1, <1>2, HashIsWord
<1>4. QED
  BY <1>3 DEF KeyOf, name

-----------------------------------------------------------------------------
(* Files.                                                                  *)

Pieces == {"data", "hole", "magic"}

\* How many times b goes into a.
LEMMA Quotients ==
    ASSUME NEW a \in Nat, NEW b \in Nat \ {0}
    PROVE  a \div b \in Nat /\ (a < b => a \div b = 0)
OBVIOUS

\* Numbers of pieces, and the first pieces, which are those of the sequence.
LEMMA PieceFacts ==
    ASSUME NEW f \in Files
    PROVE  /\ f.pieces \in Seq(Pieces)
           /\ Len(f.pieces) \in Nat /\ NumPieces(f) \in Nat /\ Len(f.pieces) <= NumPieces(f)
           /\ \A k \in 1 .. Len(f.pieces) : Piece(f, k) = f.pieces[k]
           /\ \A k \in 1 .. NumPieces(f) : Piece(f, k) \in Pieces
<1>1. f.pieces \in Seq(Pieces) /\ f.words \in Seq(Words)
  BY DEF Files, Pieces
<1>2. PICK n \in Nat, m \in Nat : n = Len(f.pieces) /\ m = Len(f.words)
  BY <1>1
<1>3. PieceWords \in Nat \ {0}
  BY MainAssumption DEF HeaderWords
<1>4. (HeaderWords + m - 1) \div PieceWords \in Nat
  <2>1. HeaderWords + m - 1 \in Nat
    BY DEF HeaderWords
  <2>2. QED
    BY <1>3, <2>1, Quotients
<1>5. NumPieces(f) = n + (HeaderWords + m - 1) \div PieceWords
  BY <1>2 DEF NumPieces
<1>6. PICK q \in Nat : q = (HeaderWords + m - 1) \div PieceWords
  BY <1>4
<1>7. NumPieces(f) \in Nat /\ n <= NumPieces(f)
  BY <1>5, <1>6
<1>8. \A k \in 1 .. n : Piece(f, k) = f.pieces[k]
  BY <1>2 DEF Piece
<1>9. ASSUME NEW k \in 1 .. NumPieces(f) PROVE Piece(f, k) \in Pieces
  <2>1. CASE k <= n
    <3>1. k \in 1 .. Len(f.pieces)
      BY <1>2, <1>7, <2>1
    <3>2. QED
      BY <1>1, <1>2, <1>8, <3>1
  <2>2. CASE ~ (k <= n)
    BY <1>2, <2>2 DEF Piece, Pieces
  <2>3. QED
    BY <2>1, <2>2
<1>10. QED
  BY <1>1, <1>2, <1>7, <1>8, <1>9

\* FindHeader yields the first piece with the magic number, or -1.
LEMMA FindHeaderFacts ==
    ASSUME NEW f \in Files
    PROVE  \/ /\ FindHeader(f) = -1
              /\ \A i \in 1 .. NumPieces(f) : Piece(f, i) # "magic"
           \/ /\ FindHeader(f) \in 0 .. NumPieces(f) - 1
              /\ FindHeader(f) # -1
              /\ Piece(f, FindHeader(f) + 1) = "magic"
              /\ \A i \in 1 .. FindHeader(f) : Piece(f, i) # "magic"
<1> DEFINE n == NumPieces(f)
           T == {o \in 0 .. n - 1 : Piece(f, o + 1) = "magic"}
<1>1. FindHeader(f) = IF T = {} THEN -1 ELSE Min(T)
  BY DEF FindHeader
<1>2. n \in Nat
  BY PieceFacts
<1> HIDE DEF n
<1>3. CASE T = {}
  <2>1. \A i \in 1 .. n : i - 1 \in 0 .. n - 1 /\ (i - 1) + 1 = i
    BY <1>2
  <2>2. \A i \in 1 .. n : Piece(f, i) # "magic"
    BY <1>3, <2>1
  <2>3. QED
    BY <1>1, <1>3, <2>2 DEF n
<1>4. CASE T # {}
  <2>1. T \in SUBSET Nat
    BY <1>2
  <2>2. Min(T) \in T /\ \A y \in T : Min(T) <= y
    <3> HIDE DEF T
    <3>1. QED
      BY <1>4, <2>1, LeastElement
  <2>3. PICK o \in 0 .. n - 1 : o = Min(T)
    BY <2>2
  <2>4. Piece(f, o + 1) = "magic"
    BY <2>2, <2>3
  <2>5. ASSUME NEW i \in 1 .. o PROVE Piece(f, i) # "magic"
    <3>1. i - 1 \in 0 .. n - 1 /\ (i - 1) + 1 = i /\ ~ (o <= i - 1)
      BY <1>2
    <3>2. i - 1 \notin T
      <4> HIDE DEF T
      <4>1. QED
        BY <2>2, <2>3, <3>1
    <3>3. QED
      BY <3>1, <3>2
  <2>6. FindHeader(f) = o /\ o # -1
    BY <1>1, <1>4, <2>3
  <2>7. QED
    BY <2>4, <2>5, <2>6 DEF n
<1>5. QED
  BY <1>3, <1>4

\* A piece with the magic number is where the archive begins, if there is none
\* in front of it.
LEMMA HeaderFound ==
    ASSUME NEW f \in Files, NEW o \in 0 .. NumPieces(f) - 1,
           Piece(f, o + 1) = "magic",
           \A i \in 1 .. o : Piece(f, i) # "magic"
    PROVE  FindHeader(f) = o
<1>0. NumPieces(f) \in Nat
  BY PieceFacts
<1>1. o + 1 \in 1 .. NumPieces(f)
  BY <1>0
<1>2. FindHeader(f) # -1
  BY <1>1, FindHeaderFacts
<1>3. PICK h \in 0 .. NumPieces(f) - 1 : h = FindHeader(f)
  BY <1>2, FindHeaderFacts
<1>4. Piece(f, h + 1) = "magic" /\ \A i \in 1 .. h : Piece(f, i) # "magic"
  BY <1>2, <1>3, FindHeaderFacts
<1>5. CASE h < o
  <2>1. h + 1 \in 1 .. o
    BY <1>0, <1>5
  <2>2. QED
    BY <1>4, <2>1
<1>6. CASE o < h
  <2>1. o + 1 \in 1 .. h
    BY <1>0, <1>6
  <2>2. QED
    BY <1>4, <2>1
<1>7. QED
  BY <1>0, <1>3, <1>5, <1>6

\* Without a header only data behind its place are taken for one; an archive is
\* found by its header.
LEMMA HeaderOrStray ==
    ASSUME NEW f \in Files
    PROVE  /\ Stray(f) => FindHeader(f) # -1
           /\ Headless(f) /\ FindHeader(f) # -1 => Stray(f)
           /\ WellWritten(f) => ~Headless(f) /\ ~Stray(f) /\ FindHeader(f) # -1
<1>1. PICK n \in Nat : n = Len(f.pieces)
  BY PieceFacts
<1>2. Stray(f) => FindHeader(f) # -1
  BY <1>1 DEF Stray
<1>3. ASSUME FindHeader(f) # -1, ~Stray(f)
      PROVE  FindHeader(f) + 1 \in 1 .. Len(f.pieces) /\ f.pieces[FindHeader(f) + 1] = "magic"
  <2>1. PICK h \in Nat : h = FindHeader(f) /\ Piece(f, h + 1) = "magic"
    <3>1. FindHeader(f) \in 0 .. NumPieces(f) - 1 /\ Piece(f, FindHeader(f) + 1) = "magic"
      BY <1>3, FindHeaderFacts
    <3>2. QED
      BY <3>1
  <2>2. h < n
    BY <1>1, <1>3, <2>1 DEF Stray
  <2>3. h + 1 \in 1 .. n
    BY <2>2
  <2>4. QED
    BY <1>1, <2>1, <2>3, PieceFacts
<1>4. Headless(f) /\ FindHeader(f) # -1 => Stray(f)
  BY <1>3 DEF Headless
<1>5. ASSUME WellWritten(f) PROVE ~Headless(f) /\ ~Stray(f) /\ FindHeader(f) # -1
  <2>1. PICK o \in Nat : o = FindHeader(f) /\ o < n
    BY <1>1, <1>5 DEF WellWritten, Meanings
  <2>2. ~Stray(f) /\ FindHeader(f) # -1
    BY <1>1, <2>1 DEF Stray
  <2>3. QED
    BY <1>3, <2>2 DEF Headless
<1>6. QED
  BY <1>2, <1>4, <1>5

\* What is written to a file leaves it a file.
LEMMA FileUpdates ==
    ASSUME NEW f \in Files
    PROVE  /\ f.pieces \in Seq(Pieces) /\ f.words \in Seq(Words)
           /\ \A q \in Seq(Pieces) :
                 /\ [f EXCEPT !.pieces = q] \in Files
                 /\ [f EXCEPT !.pieces = q].pieces = q
                 /\ [f EXCEPT !.pieces = q].words = f.words
                 /\ [f EXCEPT !.pieces = q].header = f.header
           /\ \A w \in Seq(Words) :
                 /\ [f EXCEPT !.words = w] \in Files
                 /\ [f EXCEPT !.words = w].pieces = f.pieces
                 /\ [f EXCEPT !.words = w].words = w
                 /\ [f EXCEPT !.words = w].header = f.header
           /\ \A h \in Headers :
                 /\ [f EXCEPT !.header = h] \in Files
                 /\ [f EXCEPT !.header = h].pieces = f.pieces
                 /\ [f EXCEPT !.header = h].words = f.words
                 /\ [f EXCEPT !.header = h].header = h
           /\ \A m \in Meanings :
                 /\ [f EXCEPT !.meant = m] \in Files
                 /\ [f EXCEPT !.meant = m].pieces = f.pieces
                 /\ [f EXCEPT !.meant = m].words = f.words
                 /\ [f EXCEPT !.meant = m].header = f.header
                 /\ [f EXCEPT !.meant = m].meant = m
           /\ \A b \in BOOLEAN :
                 /\ [f EXCEPT !.named = b] \in Files
                 /\ [f EXCEPT !.named = b].pieces = f.pieces
                 /\ [f EXCEPT !.named = b].words = f.words
                 /\ [f EXCEPT !.named = b].header = f.header
<1> USE DEF Files, Pieces
<1>1. f.pieces \in Seq(Pieces) /\ f.words \in Seq(Words)
  OBVIOUS
<1>2. ASSUME NEW q \in Seq(Pieces)
      PROVE  /\ [f EXCEPT !.pieces = q] \in Files
             /\ [f EXCEPT !.pieces = q].pieces = q
             /\ [f EXCEPT !.pieces = q].words = f.words
             /\ [f EXCEPT !.pieces = q].header = f.header
  OBVIOUS
<1>3. ASSUME NEW w \in Seq(Words)
      PROVE  /\ [f EXCEPT !.words = w] \in Files
             /\ [f EXCEPT !.words = w].pieces = f.pieces
             /\ [f EXCEPT !.words = w].words = w
             /\ [f EXCEPT !.words = w].header = f.header
  OBVIOUS
<1>4. ASSUME NEW h \in Headers
      PROVE  /\ [f EXCEPT !.header = h] \in Files
             /\ [f EXCEPT !.header = h].pieces = f.pieces
             /\ [f EXCEPT !.header = h].words = f.words
             /\ [f EXCEPT !.header = h].header = h
  OBVIOUS
<1>5. ASSUME NEW m \in Meanings
      PROVE  /\ [f EXCEPT !.meant = m] \in Files
             /\ [f EXCEPT !.meant = m].pieces = f.pieces
             /\ [f EXCEPT !.meant = m].words = f.words
             /\ [f EXCEPT !.meant = m].header = f.header
             /\ [f EXCEPT !.meant = m].meant = m
  OBVIOUS
<1>6. ASSUME NEW b \in BOOLEAN
      PROVE  /\ [f EXCEPT !.named = b] \in Files
             /\ [f EXCEPT !.named = b].pieces = f.pieces
             /\ [f EXCEPT !.named = b].words = f.words
             /\ [f EXCEPT !.named = b].header = f.header
  OBVIOUS
<1>7. QED
  BY <1>1, <1>2, <1>3, <1>4, <1>5, <1>6

\* An empty file, or one whose pieces do not have the magic number.
LEMMA BlankFacts ==
    /\ Blank \in Files /\ Blank.words = <<>> /\ Blank.header = NoHeader
    /\ Headless(Blank) /\ FindHeader(Blank) = -1
    /\ \A q \in Seq(Pieces) :
          (\A i \in 1 .. Len(q) : q[i] # "magic") =>
              /\ [Blank EXCEPT !.pieces = q] \in Files
              /\ [Blank EXCEPT !.pieces = q].pieces = q
              /\ Headless([Blank EXCEPT !.pieces = q])
<1>1. Blank \in Files /\ Blank.words = <<>> /\ Blank.pieces = <<>> /\ Blank.header = NoHeader
  BY DEF Blank, Files
<1>2. ASSUME NEW q \in Seq(Pieces), \A i \in 1 .. Len(q) : q[i] # "magic"
      PROVE  /\ [Blank EXCEPT !.pieces = q] \in Files
             /\ [Blank EXCEPT !.pieces = q].pieces = q
             /\ Headless([Blank EXCEPT !.pieces = q])
  <2>1. /\ [Blank EXCEPT !.pieces = q] \in Files
        /\ [Blank EXCEPT !.pieces = q].pieces = q
        /\ [Blank EXCEPT !.pieces = q].header = NoHeader
    BY <1>1, FileUpdates
  <2>2. QED
    BY <1>2, <2>1 DEF Headless
<1>3. Headless(Blank)
  BY <1>1 DEF Headless
<1>4. FindHeader(Blank) = -1
  <2>1. 7 \div PieceWords = 0
    <3>1. PieceWords \in Nat \ {0} /\ 7 < PieceWords
      BY MainAssumption DEF HeaderWords
    <3>2. QED
      BY <3>1, Quotients
  <2>2. NumPieces(Blank) = 0
    BY <1>1, <2>1 DEF NumPieces, HeaderWords
  <2>3. QED
    BY <1>1, <2>2, FindHeaderFacts
<1>5. QED
  BY <1>1, <1>2, <1>3, <1>4

\* What is left of an unfinished file has no header either.
LEMMA ReachedFacts ==
    ASSUME NEW f \in Files, Headless(f), NEW g \in Reached(f)
    PROVE  g \in Files /\ Headless(g)
<1>1. f.pieces \in Seq(Pieces) /\ f.words \in Seq(Words)
  BY FileUpdates
<1>2. CASE \E n \in 0 .. Len(f.words) : g = [f EXCEPT !.words = SubSeq(f.words, 1, n)]
  <2>1. PICK n \in 0 .. Len(f.words) : g = [f EXCEPT !.words = SubSeq(f.words, 1, n)]
    BY <1>2
  <2>2. PICK w \in Seq(Words) : w = SubSeq(f.words, 1, n)
    <3>1. SubSeq(f.words, 1, n) \in Seq(Words)
      BY <1>1
    <3>2. QED
      BY <3>1
  <2>3. g \in Files /\ g.pieces = f.pieces /\ g.header = f.header
    BY <2>1, <2>2, FileUpdates
  <2>4. QED
    BY <2>3 DEF Headless
<1>3. CASE \E n \in 0 .. Len(f.pieces) : g = [Blank EXCEPT !.pieces = SubSeq(f.pieces, 1, n)]
  <2>1. PICK n \in 0 .. Len(f.pieces) : g = [Blank EXCEPT !.pieces = SubSeq(f.pieces, 1, n)]
    BY <1>3
  <2>2. PICK q \in Seq(Pieces) : /\ q = SubSeq(f.pieces, 1, n)
                                 /\ \A i \in 1 .. Len(q) : q[i] # "magic"
    <3>1. SubSeq(f.pieces, 1, n) \in Seq(Pieces) /\ Len(SubSeq(f.pieces, 1, n)) = n
      BY <1>1
    <3>2. \A i \in 1 .. n : SubSeq(f.pieces, 1, n)[i] = f.pieces[i] /\ i \in 1 .. Len(f.pieces)
      BY <1>1
    <3>3. QED
      BY <3>1, <3>2 DEF Headless
  <2>3. QED
    BY <2>1, <2>2, BlankFacts
<1>4. QED
  BY <1>2, <1>3 DEF Reached

-----------------------------------------------------------------------------
(* The steps.                                                              *)

IInv == MainInv /\ CryptoInv

\* The constants.
LEMMA MainFacts ==
    /\ Archive \in Paths /\ Commands \subseteq Seq(Paths)
    /\ EntryWords \in Nat \ {0} /\ MaxEntries \in Nat /\ MaxRuns \in Nat
    /\ Shifts \subseteq 0 .. 15 /\ SizeWord \in Nat /\ SizeWord > 2
    /\ NoFile \notin Files /\ Atoi \in [Paths -> Int]
    /\ 0 \in Words /\ Blocks \subseteq Seq(Words) /\ Strays \subseteq Headers
<1>1. 0 \in Words
  BY CryptoFacts DEF Words
<1>2. QED
  BY <1>1, MainAssumption, CryptoAssumption

\* The options begin legal, and what is legal keeps them so.
LEMMA OptionFacts ==
    /\ Defaults \in Options
    /\ \A s \in 0 .. 15 : [Defaults EXCEPT !.shift = s] \in Options
    /\ \A o \in Options :
          /\ [o EXCEPT !.cache = TRUE] \in Options
          /\ \A a \in Paths : [o EXCEPT !.listfile = a] \in Options
          /\ \A s \in 0 .. 15 : [o EXCEPT !.shift = s] \in Options
          /\ \A n \in 1 .. SizeWord - 1 : [o EXCEPT !.threads = n] \in Options
          /\ \A n \in Nat \ {0} :
                /\ [o EXCEPT !.numiterations = n] \in Options
                /\ [o EXCEPT !.blocksplittingmax = n] \in Options
<1>1. 2 \in 1 .. SizeWord - 1
  BY MainFacts
<1>2. Defaults \in Options
  BY <1>1 DEF Defaults, Options
<1>3. ASSUME NEW o \in Options
      PROVE  /\ [o EXCEPT !.cache = TRUE] \in Options
             /\ \A a \in Paths : [o EXCEPT !.listfile = a] \in Options
             /\ \A s \in 0 .. 15 : [o EXCEPT !.shift = s] \in Options
             /\ \A n \in 1 .. SizeWord - 1 : [o EXCEPT !.threads = n] \in Options
             /\ \A n \in Nat \ {0} :
                   /\ [o EXCEPT !.numiterations = n] \in Options
                   /\ [o EXCEPT !.blocksplittingmax = n] \in Options
  BY DEF Options
<1>4. QED
  BY <1>2, <1>3

\* The tables mkmpq has filled, as many entries as it says.
LEMMA TablesFilled ==
    ASSUME NEW m \in Nat, NEW n \in Nat,
           NEW ts \in [ht : {b \in Blocks : Len(b) = EntryWords * m},
                       bt : {b \in Blocks : Len(b) = EntryWords * n}]
    PROVE  /\ ts \in [Tables -> Seq(Words)]
           /\ \A t \in Tables : Len(ts[t]) = EntryWords * (Len(ts[t]) \div EntryWords)
<1>1. /\ ts["ht"] \in Seq(Words) /\ Len(ts["ht"]) = EntryWords * m
      /\ ts["bt"] \in Seq(Words) /\ Len(ts["bt"]) = EntryWords * n
  BY MainFacts
<1>2. ts \in [Tables -> Seq(Words)]
  <2>1. ts = [t \in {"ht", "bt"} |-> ts[t]]
    OBVIOUS
  <2>2. QED
    BY <1>1, <2>1 DEF Tables
<1>3. (EntryWords * m) \div EntryWords = m /\ (EntryWords * n) \div EntryWords = n
  BY MainFacts, Entries
<1>4. ASSUME NEW t \in Tables PROVE Len(ts[t]) = EntryWords * (Len(ts[t]) \div EntryWords)
  <2>1. t = "ht" \/ t = "bt"
    BY DEF Tables
  <2>2. QED
    BY <1>1, <1>3, <2>1
<1>5. QED
  BY <1>2, <1>4

\* Pieces without the magic number, and the one the header is to come to.
LEMMA HoleFacts ==
    ASSUME NEW q \in Seq(Pieces), \A i \in 1 .. Len(q) : q[i] # "magic"
    PROVE  /\ q \o <<"hole">> \in Seq(Pieces)
           /\ Len(q \o <<"hole">>) = Len(q) + 1
           /\ \A i \in 1 .. Len(q) + 1 : (q \o <<"hole">>)[i] # "magic"
<1>1. "hole" \in Pieces
  BY DEF Pieces
<1>2. q \o <<"hole">> \in Seq(Pieces) /\ Len(q \o <<"hole">>) = Len(q) + 1
  BY <1>1
<1>3. ASSUME NEW i \in 1 .. Len(q) + 1 PROVE (q \o <<"hole">>)[i] # "magic"
  <2>1. CASE i = Len(q) + 1
    BY <2>1
  <2>2. CASE i # Len(q) + 1
    BY <2>2
  <2>3. QED
    BY <2>1, <2>2
<1>4. QED
  BY <1>2, <1>3

\* The invariant holds when the World Editor has packed the first archive.
LEMMA MainInit == Init => IInv
<1> SUFFICES ASSUME Init PROVE IInv
  OBVIOUS
<1>1. PICK lead \in Leads, n \in 0 .. MaxEntries, files \in Blocks,
           shift \in Shifts, named \in BOOLEAN :
         /\ Len(files) = n
         /\ named => n > 0
         /\ opt = [Defaults EXCEPT !.shift = shift]
         /\ bytesWritten = HeaderWords + n
         /\ offset = Len(lead)
         /\ \E m \in {NextPowerOf2(k) : k \in n .. MaxEntries} :
               /\ m # 0
               /\ tbl \in [ht : {b \in Blocks : Len(b) = EntryWords * m},
                           bt : {b \in Blocks : Len(b) = EntryWords * n}]
         /\ disk = [p \in Paths |->
                       IF p # Archive THEN NoFile
                       ELSE [Blank EXCEPT !.pieces = lead \o <<"hole">>,
                                          !.words = files, !.named = named]]
  BY Zenon DEF Init
<1>2. /\ pc = "seal" /\ args = <<Archive, Archive>> /\ hd = NoHeader /\ table = "ht"
      /\ before = disk /\ runs = 0
  BY DEF Init
<1>3. n \in Nat /\ bytesWritten \in Nat /\ bytesWritten = HeaderWords + Len(files)
         /\ files \in Seq(Words)
  <2>1. MaxEntries \in Nat /\ HeaderWords = 8
    BY MainFacts DEF HeaderWords
  <2>2. n \in Nat
    BY <2>1
  <2>3. bytesWritten = HeaderWords + n /\ Len(files) = n
    BY <1>1
  <2>4. files \in Seq(Words)
    BY MainFacts
  <2>5. QED
    BY <2>1, <2>2, <2>3, <2>4
<1>4. /\ tbl \in [Tables -> Seq(Words)]
      /\ \A t \in Tables : Len(tbl[t]) = EntryWords * (Len(tbl[t]) \div EntryWords)
  <2>1. PICK k \in n .. MaxEntries :
           tbl \in [ht : {b \in Blocks : Len(b) = EntryWords * NextPowerOf2(k)},
                    bt : {b \in Blocks : Len(b) = EntryWords * n}]
    BY <1>1
  <2>2. NextPowerOf2(k) \in Nat
    BY <1>3, MainFacts, PowerFacts
  <2>3. QED
    BY <1>3, <2>1, <2>2, TablesFilled
<1>5. lead \in Seq(Pieces) /\ (\A i \in 1 .. Len(lead) : lead[i] # "magic")
  BY MainAssumption DEF Pieces
<1> DEFINE q == lead \o <<"hole">>
           w == files
           f == [Blank EXCEPT !.pieces = q, !.words = w, !.named = named]
<1>6. q \in Seq(Pieces) /\ Len(q) = offset + 1 /\ \A i \in 1 .. Len(q) : q[i] # "magic"
  BY <1>1, <1>5, HoleFacts
<1>7. w \in Seq(Words)
  BY <1>3
<1>8. disk = [p \in Paths |-> IF p # Archive THEN NoFile ELSE f]
  BY <1>1
<1> HIDE DEF q, w
<1>9. f \in Files /\ f.pieces = q /\ f.words = w /\ f.header = NoHeader
  <2> DEFINE f1 == [Blank EXCEPT !.pieces = q]
             f2 == [f1 EXCEPT !.words = w]
  <2>1. f1 \in Files /\ f1.pieces = q /\ f1.header = NoHeader
    BY <1>6, BlankFacts, FileUpdates
  <2> HIDE DEF f1
  <2>2. f2 \in Files /\ f2.pieces = q /\ f2.words = w /\ f2.header = NoHeader
    BY <1>7, <2>1, FileUpdates
  <2> HIDE DEF f2
  <2>3. [f2 EXCEPT !.named = named] \in Files /\ [f2 EXCEPT !.named = named].pieces = q
           /\ [f2 EXCEPT !.named = named].words = w
           /\ [f2 EXCEPT !.named = named].header = NoHeader
    BY <2>2, FileUpdates
  <2>4. f = [f2 EXCEPT !.named = named]
    BY DEF f1, f2, Blank
  <2>5. QED
    BY <2>3, <2>4
<1> HIDE DEF f
<1>10. Headless(f)
  BY <1>6, <1>9 DEF Headless
<1>11. Len(args) = 2 /\ Out = Archive /\ In = Archive /\ args \in Seq(Paths)
  BY <1>2, MainFacts DEF Out, In
<1>12. disk[Out] = f
  BY <1>8, <1>11, MainFacts
<1>13. MainTypeOK
  <2>1. opt \in Options
    <3>1. opt = [Defaults EXCEPT !.shift = shift] /\ shift \in 0 .. 15
      BY <1>1, MainFacts
    <3>2. QED
      BY <3>1, OptionFacts
  <2>2. disk \in [Paths -> Files \union {NoFile}]
    BY <1>8, <1>9
  <2>3. offset \in Nat
    BY <1>1, <1>5
  <2>4. QED
    BY <1>2, <1>3, <1>4, <1>11, <2>1, <2>2, <2>3, MainFacts DEF MainTypeOK, Tables
<1>14. DiskInv
  BY <1>8, <1>10, MainFacts DEF DiskInv
<1>15. ReaderInv
  BY <1>2 DEF ReaderInv
<1>16. WriterInv
  <2>1. Stored("ht") = <<>> /\ Stored("bt") = <<>>
    BY <1>2 DEF Stored
  <2>2. disk[Out].words = files \o <<>> \o <<>>
    BY <1>3, <1>7, <1>9, <1>12 DEF w
  <2>3. QED
    BY <1>2, <1>3, <1>4, <1>6, <1>9, <1>10, <1>12, <2>1, <2>2 DEF WriterInv, Size
<1>17. BeforeInv
  BY <1>2 DEF BeforeInv
<1>18. CryptoInv
  BY InvInit DEF Init
<1>19. QED
  BY <1>13, <1>14, <1>15, <1>16, <1>17, <1>18 DEF IInv, MainInv

-----------------------------------------------------------------------------
(* The steps that leave the files alone.                                   *)

\* A run that ends, is killed or crashes before it has written a header.
LEMMA Exits ==
    ASSUME IInv, pc # "ended", NEW code, Exit(code), UNCHANGED disk,
           code = "0" => disk = before \/ disk[Out] = Blank
    PROVE  IInv'
<1>1. /\ pc' = "ended" /\ end' = code /\ args' = args /\ opt' = opt /\ offset' = offset /\ hd' = hd
      /\ tbl' = tbl /\ table' = table /\ bytesWritten' = bytesWritten /\ before' = before
      /\ runs' = runs /\ disk' = disk /\ UNCHANGED cryptoVars
  BY DEF Exit
<1>2. MainTypeOK'
  BY <1>1 DEF IInv, MainInv, MainTypeOK
<1>3. DiskInv'
  BY <1>1 DEF IInv, MainInv, DiskInv
<1>4. ReaderInv' /\ WriterInv'
  BY <1>1 DEF ReaderInv, WriterInv
<1>5. BeforeInv'
  <2>1. Out' = Out
    BY <1>1 DEF Out
  <2> SUFFICES ASSUME runs > 0, NEW p \in Paths, disk[p] # before[p]
               PROVE  /\ p = Out
                      /\ disk[p] \in Files
                      /\ Headless(disk[p])
                      /\ code = "0" => disk[p] = Blank
    BY <1>1, <2>1 DEF BeforeInv
  <2>2. p = Out /\ disk[p] \in Files /\ Headless(disk[p])
    BY DEF IInv, MainInv, BeforeInv
  <2>3. QED
    BY <2>2
<1>6. CryptoInv'
  BY <1>1, InvStutters DEF IInv
<1>7. QED
  BY <1>2, <1>3, <1>4, <1>5, <1>6 DEF IInv, MainInv

\* The next run begins.
LEMMA Starts ==
    ASSUME IInv, Start
    PROVE  IInv'
<1>1. /\ pc' = "options" /\ args' \in Commands /\ opt' = Defaults /\ before' = disk
      /\ offset' = 0 /\ hd' = NoHeader /\ tbl' = [t \in Tables |-> <<>>]
      /\ bytesWritten' = 0 /\ disk' = disk /\ table' = "ht"
      /\ runs < MaxRuns /\ runs' = runs + 1 /\ BeginDecrypt(<<>>, InitSeed, <<>>)
  BY DEF Start
<1>2. MainTypeOK'
  <2>1. args' \in Seq(Paths) /\ opt' \in Options
    BY <1>1, MainFacts, OptionFacts
  <2>2. tbl' \in [Tables -> Seq(Words)]
    BY <1>1
  <2>3. runs' \in 0 .. MaxRuns
    BY <1>1, MainFacts DEF IInv, MainInv, MainTypeOK
  <2>4. QED
    BY <1>1, <2>1, <2>2, <2>3 DEF IInv, MainInv, MainTypeOK, Tables
<1>3. DiskInv'
  BY <1>1 DEF IInv, MainInv, DiskInv
<1>4. ReaderInv' /\ WriterInv'
  BY <1>1 DEF ReaderInv, WriterInv
<1>5. BeforeInv'
  BY <1>1 DEF BeforeInv
<1>6. CryptoInv'
  <2>1. PICK b \in Seq(Words), k \in Words : b = <<>> /\ k = InitSeed
    <3>1. <<>> \in Seq(Words) /\ InitSeed \in Words
      BY CryptoAssumption
    <3>2. QED
      BY <3>1
  <2>2. Encrypted(b, k) = b
    BY <2>1 DEF Encrypted
  <2>3. QED
    BY <1>1, <2>1, <2>2, DecryptBegins
<1>7. QED
  BY <1>2, <1>3, <1>4, <1>5, <1>6 DEF IInv, MainInv

\* An option that is taken leaves legal options.
LEMMA OptionTaken ==
    ASSUME IInv, pc = "options", opt' \in Options, args' \in Seq(Paths),
           UNCHANGED <<pc, disk, offset, hd, tbl, table, end, bytesWritten, before, runs, cryptoVars>>
    PROVE  IInv'
<1>1. MainTypeOK'
  BY DEF IInv, MainInv, MainTypeOK
<1>2. DiskInv'
  BY DEF IInv, MainInv, DiskInv
<1>3. ReaderInv' /\ WriterInv'
  BY DEF ReaderInv, WriterInv
<1>4. BeforeInv'
  BY DEF IInv, MainInv, BeforeInv
<1>5. CryptoInv'
  BY InvStutters DEF IInv
<1>6. QED
  BY <1>1, <1>2, <1>3, <1>4, <1>5 DEF IInv, MainInv

\* What an option with a number keeps of it, if it is legal, is a legal option.
LEMMA NumbersTaken ==
    ASSUME IInv, TakeNumber
    PROVE  IInv'
<1>1. PICK a \in DOMAIN Option :
         /\ Reading(a) /\ Option[a] # "listfile"
         /\ Len(args) > 1
         /\ Legal(Option[a], Kept(Option[a], Atoi[args[2]]))
         /\ opt' = [opt EXCEPT ![Option[a]] = Kept(Option[a], Atoi[args[2]])]
  BY DEF TakeNumber
<1>2. /\ args' = SubSeq(args, 3, Len(args))
      /\ UNCHANGED <<pc, disk, offset, hd, tbl, table, end, bytesWritten, before, runs, cryptoVars>>
  BY DEF TakeNumber
<1>3. args \in Seq(Paths) /\ opt \in Options
  BY DEF IInv, MainInv, MainTypeOK
<1>4. args' \in Seq(Paths)
  <2>1. 3 \in 1 .. Len(args) + 1
    BY <1>1, <1>3
  <2>2. QED
    BY <1>2, <1>3, <2>1
<1>5. PICK n \in Int : n = Atoi[args[2]]
  <2>1. args[2] \in Paths
    BY <1>1, <1>3
  <2>2. QED
    BY <2>1, MainFacts
<1>6. Option[a] \in {"threads", "numiterations", "blocksplittingmax", "shift"}
  BY <1>1 DEF Option
<1>7. CASE Option[a] = "threads"
  <2>1. n % SizeWord \in 1 .. SizeWord - 1
    <3>1. n % SizeWord > 0
      BY <1>1, <1>5, <1>7 DEF Legal, Kept
    <3>2. SizeWord \in Nat \ {0}
      BY MainFacts
    <3>3. n % SizeWord \in 0 .. SizeWord - 1
      BY <3>2
    <3>4. QED
      BY <3>1, <3>3
  <2>2. opt' = [opt EXCEPT !.threads = n % SizeWord]
    BY <1>1, <1>5, <1>7 DEF Kept
  <2>3. opt' \in Options
    BY <1>3, <2>1, <2>2, OptionFacts
  <2>4. QED
    BY <1>1, <1>2, <1>4, <2>3, OptionTaken DEF Reading
<1>8. CASE Option[a] = "shift"
  <2>1. n \in 0 .. 15 /\ opt' = [opt EXCEPT !.shift = n]
    BY <1>1, <1>5, <1>8 DEF Legal, Kept
  <2>2. opt' \in Options
    BY <1>3, <2>1, OptionFacts
  <2>3. QED
    BY <1>1, <1>2, <1>4, <2>2, OptionTaken DEF Reading
<1>9. CASE Option[a] \in {"numiterations", "blocksplittingmax"}
  <2>1. n > 0 /\ opt' = [opt EXCEPT ![Option[a]] = n]
    BY <1>1, <1>5, <1>9 DEF Legal, Kept
  <2>2. n \in Nat \ {0}
    BY <2>1
  <2>3. opt' \in Options
    BY <1>3, <1>9, <2>1, <2>2, OptionFacts
  <2>4. QED
    BY <1>1, <1>2, <1>4, <2>3, OptionTaken DEF Reading
<1>10. QED
  BY <1>6, <1>7, <1>8, <1>9

\* The options of the listfile and of the cache.
LEMMA OthersTaken ==
    ASSUME IInv, TakeListfile \/ TakeCache
    PROVE  IInv'
<1>1. pc = "options" /\ args # <<>>
  BY DEF TakeListfile, TakeCache, Reading
<1>2. args \in Seq(Paths) /\ opt \in Options
  BY DEF IInv, MainInv, MainTypeOK
<1>3. CASE TakeListfile
  <2>1. /\ Len(args) > 1 /\ opt' = [opt EXCEPT !.listfile = args[2]]
        /\ args' = SubSeq(args, 3, Len(args))
        /\ UNCHANGED <<pc, disk, offset, hd, tbl, table, end, bytesWritten, before, runs, cryptoVars>>
    BY <1>3 DEF TakeListfile
  <2>2. args[2] \in Paths /\ 3 \in 1 .. Len(args) + 1
    BY <1>2, <2>1
  <2>3. args' \in Seq(Paths)
    BY <1>2, <2>1, <2>2
  <2>4. QED
    BY <1>1, <1>2, <2>1, <2>2, <2>3, OptionFacts, OptionTaken
<1>4. CASE TakeCache
  <2>1. /\ opt' = [opt EXCEPT !.cache = TRUE] /\ args' = Tail(args)
        /\ UNCHANGED <<pc, disk, offset, hd, tbl, table, end, bytesWritten, before, runs, cryptoVars>>
    BY <1>4 DEF TakeCache
  <2>2. args' \in Seq(Paths)
    BY <1>1, <1>2, <2>1
  <2>3. QED
    BY <1>1, <1>2, <2>1, <2>2, OptionFacts, OptionTaken
<1>5. QED
  BY <1>3, <1>4

-----------------------------------------------------------------------------
(* The reader.                                                             *)

\* The files that are not known from NoFile.
LEMMA FilesKnown ==
    ASSUME MainTypeOK, NEW p \in Paths
    PROVE  /\ disk[p] \in Files \/ disk[p] = NoFile
           /\ disk[p] # NoFile => disk[p] \in Files
BY DEF MainTypeOK

\* The output is opened, and is empty.
LEMMA Opens ==
    ASSUME IInv, Open
    PROVE  IInv'
<1>1. /\ pc = "options" /\ Len(args) >= 2 /\ pc' = "cache"
      /\ disk' = [disk EXCEPT ![Out] = Blank]
      /\ UNCHANGED <<args, opt, offset, hd, tbl, table, end, bytesWritten, before, runs>>
      /\ UNCHANGED cryptoVars
  BY DEF Open, NotAnOption
<1>2. /\ args \in Seq(Paths) /\ disk \in [Paths -> Files \union {NoFile}]
      /\ disk = before
  BY <1>1 DEF IInv, MainInv, MainTypeOK, BeforeInv
<1>3. Out \in Paths /\ Out' = Out
  BY <1>1, <1>2 DEF Out
<1>4. /\ disk' \in [Paths -> Files \union {NoFile}] /\ disk'[Out] = Blank
      /\ \A p \in Paths : p # Out => disk'[p] = disk[p]
  BY <1>1, <1>2, <1>3, BlankFacts
<1>5. MainTypeOK'
  BY <1>1, <1>4 DEF IInv, MainInv, MainTypeOK
<1>6. DiskInv'
  <2> SUFFICES ASSUME NEW p \in Paths, disk'[p] \in Files
               PROVE  Headless(disk'[p]) \/ WellWritten(disk'[p])
    BY DEF DiskInv
  <2>1. CASE p = Out
    BY <1>4, <2>1, BlankFacts
  <2>2. CASE p # Out
    BY <1>4, <2>2 DEF IInv, MainInv, DiskInv
  <2>3. QED
    BY <2>1, <2>2
<1>7. ReaderInv'
  BY <1>1, <1>3, <1>4 DEF ReaderInv
<1>8. WriterInv'
  BY <1>1 DEF WriterInv
<1>9. BeforeInv'
  BY <1>1, <1>2, <1>3, <1>4, BlankFacts DEF BeforeInv
<1>10. CryptoInv'
  BY <1>1, InvStutters DEF IInv
<1>11. QED
  BY <1>5, <1>6, <1>7, <1>8, <1>9, <1>10 DEF IInv, MainInv

\* The cache is opened.
LEMMA CacheUsed ==
    ASSUME IInv, UseCache
    PROVE  IInv'
<1>1. /\ pc = "cache" /\ pc' = "read"
      /\ UNCHANGED <<args, opt, disk, offset, hd, tbl, table, end, bytesWritten, before, runs>>
      /\ UNCHANGED cryptoVars
  BY DEF UseCache
<1>2. Out' = Out
  BY <1>1 DEF Out
<1>3. MainTypeOK'
  BY <1>1 DEF IInv, MainInv, MainTypeOK
<1>4. DiskInv'
  BY <1>1 DEF IInv, MainInv, DiskInv
<1>5. ReaderInv' /\ WriterInv'
  BY <1>1, <1>2 DEF IInv, MainInv, ReaderInv, WriterInv
<1>6. BeforeInv'
  BY <1>1, <1>2 DEF IInv, MainInv, BeforeInv
<1>7. CryptoInv'
  BY <1>1, InvStutters DEF IInv
<1>8. QED
  BY <1>3, <1>4, <1>5, <1>6, <1>7 DEF IInv, MainInv

\* The decrypter is started on what the writer of an archive has encrypted.
LEMMA TableBegins ==
    ASSUME NEW f, WellWritten(f), NEW t \in Tables, BeginTable(f, f.header, t)
    PROVE  CryptoInv' /\ table' = t /\ mode' = "decrypt" /\ plain' = f.meant.tbl[t]
<1>1. f.meant.tbl[t] \in Seq(Words)
  BY DEF WellWritten, Meanings
<1>2. KeyOf(t) \in Words
  BY KeyFacts
<1>3. PICK p \in Seq(Words), k \in Words : p = f.meant.tbl[t] /\ k = KeyOf(t)
  BY <1>1, <1>2
<1>4. Slice(f, f.header, t) = Encrypted(p, k)
  BY <1>3 DEF WellWritten
<1>5. BeginDecrypt(Encrypted(p, k), k, p)
  BY <1>3, <1>4 DEF BeginTable
<1>6. CryptoInv'
  BY <1>5, DecryptBegins
<1>7. QED
  BY <1>3, <1>5, <1>6 DEF BeginTable, BeginDecrypt, Begin

\* The archive is found and its tables are begun with.
LEMMA Reads ==
    ASSUME IInv, ReadInMpq
    PROVE  IInv'
<1>1. /\ pc = "read" /\ disk[In] # NoFile /\ FindHeader(disk[In]) # -1 /\ ~Stray(disk[In])
      /\ offset' = FindHeader(disk[In]) /\ hd' = disk[In].header
      /\ BeginTable(disk[In], disk[In].header, "ht")
      /\ pc' = "open"
      /\ UNCHANGED <<args, opt, disk, tbl, end, bytesWritten, before, runs>>
  BY DEF ReadInMpq
<1>2. args \in Seq(Paths) /\ Len(args) >= 2
  BY <1>1 DEF IInv, MainInv, MainTypeOK
<1>3. In \in Paths /\ In' = In /\ Out' = Out
  BY <1>1, <1>2 DEF In, Out
<1>4. PICK f \in Files : f = disk[In]
  BY <1>1, <1>3, FilesKnown DEF IInv, MainInv
<1>5. WellWritten(f) /\ ~Headless(f)
  BY <1>1, <1>3, <1>4, HeaderOrStray DEF IInv, MainInv, DiskInv
<1>6. CryptoInv' /\ table' = "ht" /\ mode' = "decrypt" /\ plain' = f.meant.tbl["ht"]
  <2>1. "ht" \in Tables /\ BeginTable(f, f.header, "ht")
    BY <1>1, <1>4 DEF Tables
  <2>2. QED
    BY <1>5, <2>1, TableBegins
<1>7. MainTypeOK'
  <2>1. FindHeader(f) \in Nat
    <3>1. NumPieces(f) \in Nat
      BY PieceFacts
    <3>2. QED
      BY <1>1, <1>4, <3>1, FindHeaderFacts
  <2>2. offset' \in Nat /\ hd' \in Headers
    BY <1>1, <1>4, <1>5, <2>1 DEF WellWritten
  <2>3. QED
    BY <1>1, <1>2, <1>6, <2>2 DEF IInv, MainInv, MainTypeOK, Tables
<1>8. DiskInv'
  BY <1>1 DEF IInv, MainInv, DiskInv
<1>9. ReaderInv'
  <2>1. disk'[Out'] = Blank
    BY <1>1, <1>3 DEF IInv, MainInv, ReaderInv
  <2>2. disk'[In'] = f /\ f.header \in Headers
    BY <1>1, <1>3, <1>4, <1>5 DEF WellWritten
  <2>3. pc' = "open" /\ offset' = FindHeader(f) /\ FindHeader(f) # -1 /\ hd' = f.header
    BY <1>1, <1>4
  <2>4. QED
    BY <1>5, <1>6, <2>1, <2>2, <2>3 DEF ReaderInv
<1>10. WriterInv'
  BY <1>1 DEF WriterInv
<1>11. BeforeInv'
  BY <1>1, <1>3 DEF IInv, MainInv, BeforeInv
<1>12. QED
  BY <1>6, <1>7, <1>8, <1>9, <1>10, <1>11 DEF IInv, MainInv

\* Data that are taken for an archive.
LEMMA StrayReads ==
    ASSUME IInv, ReadStray
    PROVE  IInv'
<1>1. /\ pc = "read" /\ disk[In] # NoFile /\ Stray(disk[In])
      /\ offset' = FindHeader(disk[In]) /\ hd' \in Strays
      /\ tbl' \in [ht : {b \in Blocks : Len(b) = EntryWords * hd'.size.ht},
                   bt : {b \in Blocks : Len(b) = EntryWords * hd'.size.bt}]
      /\ pc' = "names"
      /\ UNCHANGED <<args, opt, disk, table, end, bytesWritten, before, runs>>
      /\ UNCHANGED cryptoVars
  BY DEF ReadStray
<1>2. args \in Seq(Paths) /\ Len(args) >= 2
  BY <1>1 DEF IInv, MainInv, MainTypeOK
<1>3. In \in Paths /\ In' = In /\ Out' = Out
  BY <1>1, <1>2 DEF In, Out
<1>4. PICK f \in Files : f = disk[In]
  BY <1>1, <1>3, FilesKnown DEF IInv, MainInv
<1>5. Headless(f) /\ FindHeader(f) # -1 /\ FindHeader(f) \in Nat
  <2>1. FindHeader(f) # -1 /\ ~WellWritten(f)
    BY <1>1, <1>4, HeaderOrStray
  <2>2. NumPieces(f) \in Nat
    BY PieceFacts
  <2>3. FindHeader(f) \in Nat
    BY <2>1, <2>2, FindHeaderFacts
  <2>4. QED
    BY <1>3, <1>4, <2>1, <2>3 DEF IInv, MainInv, DiskInv
<1>6. hd' \in Headers
  BY <1>1, MainFacts
<1>7. tbl' \in [Tables -> Seq(Words)]
  <2>1. PICK m \in Nat, n \in Nat : m = hd'.size.ht /\ n = hd'.size.bt
    BY <1>6 DEF Headers, Tables
  <2>2. PICK ts \in [ht : {b \in Blocks : Len(b) = EntryWords * m},
                     bt : {b \in Blocks : Len(b) = EntryWords * n}] : ts = tbl'
    BY <1>1, <2>1
  <2>3. QED
    BY <2>2, TablesFilled
<1>8. MainTypeOK'
  BY <1>1, <1>2, <1>4, <1>5, <1>6, <1>7 DEF IInv, MainInv, MainTypeOK
<1>9. DiskInv'
  BY <1>1 DEF IInv, MainInv, DiskInv
<1>10. ReaderInv'
  <2>1. disk'[Out'] = Blank
    BY <1>1, <1>3 DEF IInv, MainInv, ReaderInv
  <2>2. disk'[In'] = f /\ offset' = FindHeader(f) /\ pc' = "names"
    BY <1>1, <1>3, <1>4
  <2>3. QED
    BY <1>5, <1>6, <2>1, <2>2 DEF ReaderInv
<1>11. WriterInv'
  BY <1>1 DEF WriterInv
<1>12. BeforeInv'
  BY <1>1, <1>3 DEF IInv, MainInv, BeforeInv
<1>13. CryptoInv'
  BY <1>1, InvStutters DEF IInv
<1>14. QED
  BY <1>8, <1>9, <1>10, <1>11, <1>12, <1>13 DEF IInv, MainInv

\* A word is decrypted or encrypted.
LEMMA WordsPass ==
    ASSUME IInv, DecryptStep \/ EncryptStep
    PROVE  IInv'
<1>1. /\ DecryptWord \/ EncryptWord
      /\ UNCHANGED mainVars
  BY DEF DecryptStep, EncryptStep
<1>2. mode' = mode /\ plain' = plain /\ start' = start
  BY <1>1 DEF DecryptWord, EncryptWord
<1>3. CryptoInv'
  BY <1>1, DecryptSteps, EncryptSteps DEF IInv
<1>4. /\ UNCHANGED <<pc, args, opt, disk, offset, hd, tbl, bytesWritten, table, end, before, runs>>
      /\ In' = In /\ Out' = Out
  BY <1>1 DEF mainVars, In, Out
<1>5. MainTypeOK'
  BY <1>4 DEF IInv, MainInv, MainTypeOK
<1>6. DiskInv'
  BY <1>4 DEF IInv, MainInv, DiskInv
<1>7. ReaderInv'
  BY <1>2, <1>4 DEF IInv, MainInv, ReaderInv
<1>8. WriterInv'
  BY <1>2, <1>4 DEF IInv, MainInv, WriterInv, Stored, Size
<1>9. BeforeInv'
  BY <1>4 DEF IInv, MainInv, BeforeInv
<1>10. QED
  BY <1>3, <1>5, <1>6, <1>7, <1>8, <1>9 DEF IInv, MainInv

\* A table is decrypted: it is what the writer of the archive meant.
LEMMA TableRead ==
    ASSUME IInv, DecryptEnds
    PROVE  IInv'
<1>1. /\ pc = "open" /\ Finished /\ tbl' = [tbl EXCEPT ![table] = block]
      /\ UNCHANGED <<args, opt, disk, offset, hd, end, bytesWritten, before, runs>>
  BY DEF DecryptEnds
<1>2. args \in Seq(Paths) /\ Len(args) >= 2 /\ table \in Tables /\ tbl \in [Tables -> Seq(Words)]
  BY <1>1 DEF IInv, MainInv, MainTypeOK
<1>3. In \in Paths /\ In' = In /\ Out' = Out
  BY <1>1, <1>2 DEF In, Out
<1>4. PICK f \in Files : f = disk[In]
  BY <1>1 DEF IInv, MainInv, ReaderInv
<1>5. /\ disk[Out] = Blank /\ FindHeader(f) # -1 /\ offset = FindHeader(f) /\ hd = f.header
      /\ ~Headless(f) /\ hd \in Headers
      /\ mode = "decrypt" /\ plain = f.meant.tbl[table]
      /\ table = "bt" => tbl["ht"] = f.meant.tbl["ht"]
  BY <1>1, <1>4 DEF IInv, MainInv, ReaderInv
<1>6. WellWritten(f)
  BY <1>3, <1>4, <1>5 DEF IInv, MainInv, DiskInv
<1>7. block = f.meant.tbl[table] /\ block \in Seq(Words)
  <2>1. block = plain
    BY <1>1, <1>5, LoopEnds DEF IInv
  <2>2. QED
    BY <1>5, <2>1 DEF IInv, CryptoInv, CryptoTypeOK
<1>8. tbl' \in [Tables -> Seq(Words)] /\ tbl'[table] = f.meant.tbl[table]
  BY <1>1, <1>2, <1>7
<1>9. DiskInv'
  BY <1>1 DEF IInv, MainInv, DiskInv
<1>10. CASE table = "ht"
  <2>1. pc' = pc /\ BeginTable(f, f.header, "bt")
    BY <1>4, <1>5, <1>10 DEF DecryptEnds
  <2>2. CryptoInv' /\ table' = "bt" /\ mode' = "decrypt" /\ plain' = f.meant.tbl["bt"]
    BY <1>6, <2>1, TableBegins DEF Tables
  <2>3. MainTypeOK'
    BY <1>1, <1>2, <1>8, <2>1, <2>2 DEF IInv, MainInv, MainTypeOK, Tables
  <2>4. ReaderInv'
    BY <1>1, <1>3, <1>4, <1>5, <1>8, <1>10, <2>1, <2>2 DEF ReaderInv
  <2>5. WriterInv'
    BY <1>1, <2>1 DEF WriterInv
  <2>6. BeforeInv'
    BY <1>1, <1>3, <2>1 DEF IInv, MainInv, BeforeInv
  <2>7. QED
    BY <1>9, <2>2, <2>3, <2>4, <2>5, <2>6 DEF IInv, MainInv
<1>11. CASE table # "ht"
  <2>1. pc' = "names" /\ table' = table /\ UNCHANGED cryptoVars
    BY <1>11 DEF DecryptEnds
  <2>2. table = "bt"
    BY <1>2, <1>11 DEF Tables
  <2>3. tbl' = f.meant.tbl
    <3>1. tbl'["ht"] = f.meant.tbl["ht"]
      BY <1>1, <1>2, <1>5, <2>2
    <3>2. f.meant.tbl \in [Tables -> Seq(Words)]
      BY <1>6 DEF WellWritten, Meanings
    <3>3. \A t \in Tables : tbl'[t] = f.meant.tbl[t]
      BY <1>8, <2>2, <3>1 DEF Tables
    <3>4. QED
      BY <1>8, <3>2, <3>3
  <2>4. MainTypeOK'
    BY <1>1, <1>2, <1>8, <2>1 DEF IInv, MainInv, MainTypeOK
  <2>5. ReaderInv'
    BY <1>1, <1>3, <1>4, <1>5, <2>1, <2>3 DEF ReaderInv
  <2>6. WriterInv'
    BY <2>1 DEF WriterInv
  <2>7. BeforeInv'
    BY <1>1, <1>3, <2>1 DEF IInv, MainInv, BeforeInv
  <2>8. CryptoInv'
    BY <2>1, InvStutters DEF IInv
  <2>9. QED
    BY <1>9, <2>4, <2>5, <2>6, <2>7, <2>8 DEF IInv, MainInv
<1>12. QED
  BY <1>10, <1>11

-----------------------------------------------------------------------------
(* The writer.                                                             *)

\* What is copied from in front of an archive does not have the magic number.
LEMMA CopiedFacts ==
    ASSUME NEW f \in Files, f = disk[In], FindHeader(f) # -1, offset = FindHeader(f)
    PROVE  /\ CopyPreMPQData \in Seq(Pieces) /\ Len(CopyPreMPQData) = offset
           /\ \A i \in 1 .. offset : CopyPreMPQData[i] # "magic"
<1>1. PICK o \in Nat, n \in Nat : /\ o = offset /\ n = NumPieces(f) /\ o < n
                                  /\ \A i \in 1 .. o : Piece(f, i) # "magic"
  <2>1. NumPieces(f) \in Nat
    BY PieceFacts
  <2>2. /\ FindHeader(f) \in 0 .. NumPieces(f) - 1
        /\ \A i \in 1 .. FindHeader(f) : Piece(f, i) # "magic"
    BY FindHeaderFacts
  <2>3. QED
    BY <2>1, <2>2
<1>2. \A i \in 1 .. o : i \in 1 .. n /\ Piece(f, i) \in Pieces
  BY <1>1, PieceFacts
<1>3. CopyPreMPQData = [i \in 1 .. o |-> Piece(f, i)]
  BY <1>1 DEF CopyPreMPQData
<1>4. QED
  BY <1>1, <1>2, <1>3

\* A step that writes g to the output.
LEMMA OutputWritten ==
    ASSUME MainInv, Len(args) >= 2, pc' # "options",
           NEW g \in Files, disk' = [disk EXCEPT ![Out] = g],
           \/ Headless(g) /\ ~ (pc' = "ended" /\ end' = "0")
           \/ WellWritten(g) /\ pc' = "ended" /\ end' = "0",
           UNCHANGED <<args, before, runs>>
    PROVE  /\ disk' \in [Paths -> Files \union {NoFile}]
           /\ disk'[Out] = g /\ Out' = Out
           /\ DiskInv' /\ BeforeInv'
<1>1. args \in Seq(Paths) /\ disk \in [Paths -> Files \union {NoFile}]
  BY DEF MainInv, MainTypeOK
<1>2. Out \in Paths /\ Out' = Out
  BY <1>1 DEF Out
<1>3. /\ disk' \in [Paths -> Files \union {NoFile}] /\ disk'[Out] = g
      /\ \A p \in Paths : p # Out => disk'[p] = disk[p]
  BY <1>1, <1>2
<1>4. DiskInv'
  <2> SUFFICES ASSUME NEW p \in Paths, disk'[p] \in Files
               PROVE  Headless(disk'[p]) \/ WellWritten(disk'[p])
    BY DEF DiskInv
  <2>1. CASE p = Out
    BY <1>3, <2>1
  <2>2. CASE p # Out
    BY <1>3, <2>2 DEF MainInv, DiskInv
  <2>3. QED
    BY <2>1, <2>2
<1>5. BeforeInv'
  <2> SUFFICES ASSUME runs > 0, NEW p \in Paths, disk'[p] # before[p]
               PROVE  /\ p = Out
                      /\ disk'[p] \in Files
                      /\ Headless(disk'[p]) \/ (pc' = "ended" /\ end' = "0")
                      /\ pc' = "ended" /\ end' = "0" => disk'[p] = Blank \/ ~Headless(disk'[p])
    BY <1>2 DEF BeforeInv
  <2>1. p = Out
    BY <1>3 DEF MainInv, BeforeInv
  <2>2. WellWritten(g) => ~Headless(g)
    BY HeaderOrStray
  <2>3. QED
    BY <1>3, <2>1, <2>2
<1>6. QED
  BY <1>2, <1>3, <1>4, <1>5

\* A run that ends badly, with g in the output.
LEMMA Fails ==
    ASSUME IInv, pc # "ended", Len(args) >= 2, NEW code, code # "0", Exit(code),
           NEW g \in Files, Headless(g), disk' = [disk EXCEPT ![Out] = g]
    PROVE  IInv'
<1>1. /\ pc' = "ended" /\ end' = code
      /\ UNCHANGED <<args, opt, offset, hd, tbl, table, bytesWritten, before, runs>>
      /\ UNCHANGED cryptoVars
  BY DEF Exit
<1>2. disk' \in [Paths -> Files \union {NoFile}] /\ DiskInv' /\ BeforeInv'
  BY <1>1, OutputWritten DEF IInv
<1>3. MainTypeOK'
  BY <1>1, <1>2 DEF IInv, MainInv, MainTypeOK
<1>4. ReaderInv' /\ WriterInv'
  BY <1>1 DEF ReaderInv, WriterInv
<1>5. CryptoInv'
  BY <1>1, InvStutters DEF IInv
<1>6. QED
  BY <1>2, <1>3, <1>4, <1>5 DEF IInv, MainInv

\* The program is killed while it writes.
LEMMA WriterKilled ==
    ASSUME IInv, Kill, pc \in {"seal", "sealing", "header"}
    PROVE  IInv'
<1>1. PICK g \in Reached(disk[Out]) : disk' = [disk EXCEPT ![Out] = g]
  BY DEF Kill
<1>2. pc # "ended" /\ Exit("kill") /\ Len(args) >= 2
  BY DEF Kill, IInv, MainInv, MainTypeOK
<1>3. disk[Out] \in Files /\ Headless(disk[Out])
  BY DEF IInv, MainInv, WriterInv
<1>4. g \in Files /\ Headless(g)
  BY <1>3, ReachedFacts
<1>5. QED
  BY <1>1, <1>2, <1>4, Fails

\* The program crashes for want of memory.
LEMMA CrashesWithoutMemory ==
    ASSUME IInv, NoThreads
    PROVE  IInv'
<1>1. /\ pc = "names" /\ Exit("crash") /\ Len(args) >= 2
      /\ \E g \in Reached([Blank EXCEPT !.pieces = CopyPreMPQData]) : disk' = [disk EXCEPT ![Out] = g]
  BY DEF NoThreads, Packing, IInv, MainInv, MainTypeOK
<1>2. PICK f \in Files : f = disk[In]
  BY <1>1 DEF IInv, MainInv, ReaderInv
<1>3. FindHeader(f) # -1 /\ offset = FindHeader(f)
  BY <1>1, <1>2 DEF IInv, MainInv, ReaderInv
<1>4. PICK q \in Seq(Pieces) : q = CopyPreMPQData /\ \A i \in 1 .. Len(q) : q[i] # "magic"
  BY <1>2, <1>3, CopiedFacts
<1>5. PICK c \in Files : c = [Blank EXCEPT !.pieces = q] /\ Headless(c)
  BY <1>4, BlankFacts
<1>6. PICK g \in Reached(c) : disk' = [disk EXCEPT ![Out] = g]
  BY <1>1, <1>4, <1>5
<1>7. g \in Files /\ Headless(g)
  BY <1>5, ReachedFacts
<1>8. QED
  BY <1>1, <1>6, <1>7, Fails

\* The output with the data of some files.
LEMMA PackedFacts ==
    ASSUME IInv, Packing, NEW n \in 0 .. hd.size.bt, NEW g \in PackedFiles(n)
    PROVE  /\ g \in Files /\ Headless(g) /\ Len(g.pieces) = offset + 1
           /\ n \in Nat /\ hd.size.bt \in Nat /\ Len(args) >= 2 /\ pc = "names"
           /\ \E files \in Seq(Words) : g.words = files /\ Len(files) = n
<1>1. pc = "names" /\ Len(args) >= 2 /\ offset \in Nat
  BY DEF Packing, IInv, MainInv, MainTypeOK
<1>2. PICK f \in Files : f = disk[In]
  BY <1>1 DEF IInv, MainInv, ReaderInv
<1>3. FindHeader(f) # -1 /\ offset = FindHeader(f) /\ hd \in Headers
  BY <1>1, <1>2 DEF IInv, MainInv, ReaderInv
<1>4. hd.size.bt \in Nat /\ n \in Nat
  <2>1. hd.size.bt \in Nat
    BY <1>3 DEF Headers, Tables
  <2>2. QED
    BY <2>1
<1>5. PICK files \in Seq(Words) :
         /\ Len(files) = n
         /\ g = [Blank EXCEPT !.pieces = CopyPreMPQData \o <<"hole">>, !.words = files]
  BY MainFacts DEF PackedFiles
<1>6. PICK s \in Seq(Pieces) : /\ s = CopyPreMPQData /\ Len(s) = offset
                               /\ \A i \in 1 .. Len(s) : s[i] # "magic"
  BY <1>2, <1>3, CopiedFacts
<1>7. PICK q \in Seq(Pieces) : /\ q = s \o <<"hole">> /\ Len(q) = offset + 1
                               /\ \A i \in 1 .. Len(q) : q[i] # "magic"
  BY <1>6, HoleFacts
<1>8. PICK c \in Files : c = [Blank EXCEPT !.pieces = q] /\ c.pieces = q /\ c.header = NoHeader
  BY <1>7, BlankFacts DEF Headless
<1>9. g = [c EXCEPT !.words = files]
  BY <1>5, <1>6, <1>7, <1>8 DEF Blank
<1>10. g \in Files /\ g.pieces = q /\ g.words = files /\ g.header = NoHeader
  BY <1>8, <1>9, FileUpdates
<1>11. Headless(g) /\ Len(g.pieces) = offset + 1
  BY <1>7, <1>10 DEF Headless
<1>12. \E fs \in Seq(Words) : g.words = fs /\ Len(fs) = n
  BY <1>5, <1>10
<1>13. QED
  BY <1>1, <1>4, <1>10, <1>11, <1>12

\* A file cannot be extracted.
LEMMA PackingEnds ==
    ASSUME IInv, PackingFails
    PROVE  IInv'
<1>0. PICK n \in 0 .. hd.size.bt : \E g \in PackedFiles(n) : disk' = [disk EXCEPT ![Out] = g]
  BY DEF PackingFails
<1>1. PICK g \in PackedFiles(n) : disk' = [disk EXCEPT ![Out] = g]
  BY <1>0
<1>2. Packing /\ Exit("1")
  BY DEF PackingFails
<1>3. g \in Files /\ Headless(g) /\ Len(args) >= 2 /\ pc # "ended"
  BY <1>2, PackedFacts
<1>4. QED
  BY <1>1, <1>2, <1>3, Fails

\* The files are packed, and their tables filled.
LEMMA Packs ==
    ASSUME IInv, PackFiles
    PROVE  IInv'
<1>0. PICK n \in 0 .. hd.size.bt :
         /\ \E g \in PackedFiles(n) : disk' = [disk EXCEPT ![Out] = g]
         /\ bytesWritten' = HeaderWords + n
         /\ tbl' \in [ht : {b \in Blocks : Len(b) = EntryWords * NextPowerOf2(hd.size.bt)},
                      bt : {b \in Blocks : Len(b) = EntryWords * n}]
  BY DEF PackFiles
<1>1. PICK g \in PackedFiles(n) : disk' = [disk EXCEPT ![Out] = g]
  BY <1>0
<1>2. /\ pc' = "seal" /\ table' = "ht" /\ Packing
      /\ UNCHANGED <<args, opt, offset, hd, end, before, runs>> /\ UNCHANGED cryptoVars
  BY DEF PackFiles
<1>3. /\ g \in Files /\ Headless(g) /\ Len(g.pieces) = offset + 1
      /\ n \in Nat /\ Len(args) >= 2 /\ pc = "names"
  BY <1>2, PackedFacts
<1>4. PICK files \in Seq(Words) : g.words = files /\ Len(files) = n
  BY <1>2, PackedFacts
<1>6. hd.size.bt \in Nat
  BY <1>2, PackedFacts
<1>7. n \in Nat /\ bytesWritten' \in Nat /\ bytesWritten' = HeaderWords + Len(files)
  BY <1>0, <1>3, <1>4 DEF HeaderWords
<1>8. /\ tbl' \in [Tables -> Seq(Words)]
      /\ \A t \in Tables : Len(tbl'[t]) = EntryWords * (Len(tbl'[t]) \div EntryWords)
  <2>1. PICK m \in Nat : m = NextPowerOf2(hd.size.bt)
    BY <1>6, PowerFacts
  <2>2. tbl' \in [ht : {b \in Blocks : Len(b) = EntryWords * m},
                  bt : {b \in Blocks : Len(b) = EntryWords * n}]
    BY <1>0, <2>1
  <2>3. PICK ts \in [ht : {b \in Blocks : Len(b) = EntryWords * m},
                     bt : {b \in Blocks : Len(b) = EntryWords * n}] : ts = tbl'
    BY <2>2
  <2>4. QED
    BY <1>7, <2>3, TablesFilled
<1>9. /\ disk' \in [Paths -> Files \union {NoFile}] /\ disk'[Out] = g /\ Out' = Out
      /\ DiskInv' /\ BeforeInv'
  BY <1>1, <1>2, <1>3, OutputWritten DEF IInv
<1>10. MainTypeOK'
  BY <1>2, <1>3, <1>7, <1>8, <1>9 DEF IInv, MainInv, MainTypeOK, Tables
<1>11. ReaderInv'
  BY <1>2 DEF ReaderInv
<1>12. WriterInv'
  <2>1. Stored("ht")' = <<>> /\ Stored("bt")' = <<>>
    BY <1>2 DEF Stored
  <2>2. g.words = files \o <<>> \o <<>>
    BY <1>4
  <2>3. \E z \in Seq(Words) : /\ bytesWritten' = HeaderWords + Len(z)
                              /\ g.words = z \o Stored("ht")' \o Stored("bt")'
    BY <1>7, <2>1, <2>2
  <2>4. QED
    BY <1>2, <1>3, <1>8, <1>9, <2>3 DEF WriterInv, Size
<1>13. CryptoInv'
  BY <1>2, InvStutters DEF IInv
<1>14. QED
  BY <1>9, <1>10, <1>11, <1>12, <1>13 DEF IInv, MainInv

\* The encryption of a table begins.
LEMMA SealBegins ==
    ASSUME IInv, BeginSeal
    PROVE  IInv'
<1>1. /\ pc = "seal" /\ pc' = "sealing" /\ BeginEncrypt(tbl[table], KeyOf(table))
      /\ UNCHANGED <<args, opt, disk, offset, hd, tbl, table, end, bytesWritten, before, runs>>
      /\ In' = In /\ Out' = Out
  BY DEF BeginSeal, In, Out
<1>2. tbl[table] \in Seq(Words) /\ KeyOf(table) \in Words
  BY KeyFacts DEF IInv, MainInv, MainTypeOK
<1>3. PICK b \in Seq(Words), k \in Words : b = tbl[table] /\ k = KeyOf(table)
  BY <1>2
<1>4. BeginEncrypt(b, k)
  BY <1>1, <1>3
<1>5. CryptoInv' /\ mode' = "encrypt" /\ plain' = b /\ start' = k
  BY <1>4, EncryptBegins DEF BeginEncrypt, Begin
<1>6. MainTypeOK'
  BY <1>1 DEF IInv, MainInv, MainTypeOK
<1>7. DiskInv'
  BY <1>1 DEF IInv, MainInv, DiskInv
<1>8. ReaderInv'
  BY <1>1 DEF ReaderInv
<1>9. WriterInv'
  <2>1. tbl' = tbl /\ table' = table /\ KeyOf(table') = k /\ tbl'[table'] = b
    BY <1>1, <1>3
  <2>2. Stored("ht")' = Stored("ht") /\ Stored("bt")' = Stored("bt")
    BY <1>1 DEF Stored
  <2>3. QED
    BY <1>1, <1>5, <2>1, <2>2 DEF IInv, MainInv, WriterInv, Size
<1>10. BeforeInv'
  BY <1>1 DEF IInv, MainInv, BeforeInv
<1>11. QED
  BY <1>5, <1>6, <1>7, <1>8, <1>9, <1>10 DEF IInv, MainInv

\* A table is encrypted and lies behind what was written before.
LEMMA TableWritten ==
    ASSUME IInv, WriteTable
    PROVE  IInv'
<1>1. /\ pc = "sealing" /\ Finished /\ pc' = Then(table) /\ table' = "bt"
      /\ disk' = [disk EXCEPT ![Out].words = @ \o block]
      /\ UNCHANGED <<args, opt, offset, hd, tbl, end, bytesWritten, before, runs>>
      /\ UNCHANGED cryptoVars
  BY DEF WriteTable
<1>2. pc' \in {"seal", "header"} /\ (table = "ht" => pc' = "seal") /\ (table # "ht" => pc' = "header")
  BY <1>1 DEF Then
<1>3. /\ args \in Seq(Paths) /\ Len(args) >= 2 /\ table \in Tables /\ bytesWritten \in Nat
      /\ tbl \in [Tables -> Seq(Words)]
  BY <1>1 DEF IInv, MainInv, MainTypeOK
<1>4. PICK f \in Files : f = disk[Out]
  BY <1>1 DEF IInv, MainInv, WriterInv
<1>5. /\ Headless(f) /\ Len(f.pieces) = offset + 1
      /\ \E z \in Seq(Words) : /\ bytesWritten = HeaderWords + Len(z)
                              /\ f.words = z \o Stored("ht") \o Stored("bt")
      /\ \A t \in Tables : Len(tbl[t]) = EntryWords * Size(t)
      /\ mode = "encrypt" /\ plain = tbl[table] /\ start = KeyOf(table)
  BY <1>1, <1>4 DEF IInv, MainInv, WriterInv
<1>6. block = Encrypted(tbl[table], KeyOf(table)) /\ block \in Seq(Words)
  <2>1. block = Encrypted(plain, start)
    BY <1>1, <1>5, LoopEnds DEF IInv
  <2>2. QED
    BY <1>5, <2>1 DEF IInv, CryptoInv, CryptoTypeOK
<1> DEFINE w == f.words \o block
           g == [f EXCEPT !.words = w]
<1>7. w \in Seq(Words)
  BY <1>6, FileUpdates
<1>8. disk' = [disk EXCEPT ![Out] = g]
  BY <1>1, <1>4
<1> HIDE DEF w
<1>9. g \in Files /\ g.pieces = f.pieces /\ g.words = w /\ g.header = f.header
  BY <1>7, FileUpdates
<1> HIDE DEF g
<1>10. Headless(g)
  BY <1>5, <1>9 DEF Headless
<1>11. /\ disk' \in [Paths -> Files \union {NoFile}] /\ disk'[Out] = g /\ Out' = Out
       /\ DiskInv' /\ BeforeInv'
  BY <1>1, <1>2, <1>3, <1>8, <1>9, <1>10, OutputWritten DEF IInv
<1>12. MainTypeOK'
  BY <1>1, <1>2, <1>3, <1>11 DEF IInv, MainInv, MainTypeOK, Tables
<1>13. ReaderInv'
  BY <1>2 DEF ReaderInv
<1>14. PICK z \in Seq(Words) : /\ bytesWritten = HeaderWords + Len(z)
                               /\ f.words = z \o Stored("ht") \o Stored("bt")
  BY <1>5
<1>15. w = z \o Stored("ht")' \o Stored("bt")'
  <2>1. CASE table = "ht"
    <3>1. Stored("ht") = <<>> /\ Stored("bt") = <<>>
      BY <1>1, <2>1 DEF Stored
    <3>2. Stored("ht")' = block /\ Stored("bt")' = <<>>
      BY <1>1, <1>2, <1>6, <2>1 DEF Stored
    <3>3. z \o <<>> \o <<>> \o block = z \o block \o <<>>
      BY <1>6, <1>14
    <3>4. QED
      BY <1>14, <3>1, <3>2, <3>3 DEF w
  <2>2. CASE table # "ht"
    <3>1. table = "bt"
      BY <1>3, <2>2 DEF Tables
    <3>2. Stored("ht") = Encrypted(tbl["ht"], KeyOf("ht")) /\ Stored("bt") = <<>>
      BY <1>1, <3>1 DEF Stored
    <3>3. Stored("ht")' = Stored("ht") /\ Stored("bt")' = block
      <4>1. pc' = "header" /\ tbl' = tbl
        BY <1>1, <1>2, <2>2
      <4>2. Stored("ht")' = Encrypted(tbl["ht"], KeyOf("ht")) /\ Stored("bt")' = Encrypted(tbl["bt"], KeyOf("bt"))
        BY <4>1 DEF Stored
      <4>3. QED
        BY <1>6, <3>1, <3>2, <4>2
    <3>4. PICK e \in Seq(Words) : e = Stored("ht")
      <4>1. tbl["ht"] \in Seq(Words) /\ KeyOf("ht") \in Words
        BY <1>3, KeyFacts DEF Tables
      <4>2. QED
        BY <3>2, <4>1, EncryptedFacts
    <3>5. z \o e \o <<>> \o block = z \o e \o block
      BY <1>6, <1>14, <3>4
    <3>6. QED
      BY <1>14, <3>2, <3>3, <3>4, <3>5 DEF w
  <2>3. QED
    BY <2>1, <2>2
<1>16. WriterInv'
  <2>1. pc' # "sealing" /\ (pc' = "header" => table' = "bt")
    BY <1>1, <1>2
  <2>2. \E files \in Seq(Words) : /\ bytesWritten' = HeaderWords + Len(files)
                                  /\ g.words = files \o Stored("ht")' \o Stored("bt")'
    BY <1>1, <1>9, <1>14, <1>15
  <2>3. \A t \in Tables : Len(tbl'[t]) = EntryWords * Size(t)'
    BY <1>1, <1>5 DEF Size
  <2>4. Len(g.pieces) = offset' + 1
    BY <1>1, <1>5, <1>9
  <2>5. QED
    BY <1>9, <1>10, <1>11, <2>1, <2>2, <2>3, <2>4 DEF WriterInv
<1>17. CryptoInv'
  BY <1>1, InvStutters DEF IInv
<1>18. QED
  BY <1>11, <1>12, <1>13, <1>16, <1>17 DEF IInv, MainInv

\* What lies behind the header and the files is found where the header says.
LEMMA TablesFound ==
    ASSUME NEW f \in Files, NEW h \in Headers, NEW z \in Seq(Words),
           NEW e \in [Tables -> Seq(Words)], NEW size \in [Tables -> Nat],
           f.words = z \o e["ht"] \o e["bt"],
           h.pos["ht"] = HeaderWords + Len(z),
           h.pos["bt"] = HeaderWords + Len(z) + EntryWords * size["ht"],
           h.size = size,
           \A t \in Tables : Len(e[t]) = EntryWords * size[t]
    PROVE  \A t \in Tables : Slice(f, h, t) = e[t]
<1>1. /\ e["ht"] \in Seq(Words) /\ e["bt"] \in Seq(Words)
      /\ Len(e["ht"]) = EntryWords * size["ht"] /\ Len(e["bt"]) = EntryWords * size["bt"]
  BY DEF Tables
<1>2. PICK a \in Seq(Words), b \in Seq(Words) : a = e["ht"] /\ b = e["bt"]
  BY <1>1
<1>3. /\ SubSeq(f.words, Len(z) + 1, Len(z) + Len(a)) = a
      /\ SubSeq(f.words, Len(z) + Len(a) + 1, Len(z) + Len(a) + Len(b)) = b
      /\ Len(f.words) = Len(z) + Len(a) + Len(b)
  <2>1. f.words = z \o a \o b
    BY <1>2
  <2>2. /\ SubSeq(z \o a \o b, Len(z) + 1, Len(z) + Len(a)) = a
        /\ SubSeq(z \o a \o b, Len(z) + Len(a) + 1, Len(z) + Len(a) + Len(b)) = b
        /\ Len(z \o a \o b) = Len(z) + Len(a) + Len(b)
    BY Parts
  <2>3. QED
    BY <2>1, <2>2
<1>4. PICK l \in Nat, m \in Nat, n \in Nat : l = Len(z) /\ m = Len(a) /\ n = Len(b)
  <2>1. Len(z) \in Nat /\ Len(a) \in Nat /\ Len(b) \in Nat
    OBVIOUS
  <2>2. QED
    BY <2>1
<1>5. Slice(f, h, "ht") = a
  <2>1. h.pos["ht"] - HeaderWords = l /\ EntryWords * h.size["ht"] = m
    BY <1>1, <1>2, <1>4 DEF HeaderWords
  <2>2. Min({l + m, l + m + n}) = l + m
    <3>1. l + m \in Nat /\ l + m + n \in Nat /\ l + m <= l + m + n
      OBVIOUS
    <3>2. QED
      BY <3>1, MinOfTwo
  <2>3. Slice(f, h, "ht") = SubSeq(f.words, l + 1, Min({l + m, Len(f.words)}))
    BY <2>1 DEF Slice
  <2>4. QED
    BY <1>3, <1>4, <2>2, <2>3
<1>6. Slice(f, h, "bt") = b
  <2>1. h.pos["bt"] - HeaderWords = l + m /\ EntryWords * h.size["bt"] = n
    <3>1. EntryWords * size["ht"] = m /\ EntryWords * h.size["bt"] = n
      BY <1>1, <1>2, <1>4
    <3>2. h.pos["bt"] = HeaderWords + l + m
      BY <1>4, <3>1
    <3>3. QED
      BY <3>1, <3>2 DEF HeaderWords
  <2>2. Min({l + m + n, l + m + n}) = l + m + n
    <3>1. l + m + n \in Nat /\ l + m + n <= l + m + n
      OBVIOUS
    <3>2. QED
      BY <3>1, MinOfTwo
  <2>3. Slice(f, h, "bt") = SubSeq(f.words, l + m + 1, Min({l + m + n, Len(f.words)}))
    BY <2>1 DEF Slice
  <2>4. QED
    BY <1>3, <1>4, <2>2, <2>3
<1>7. QED
  BY <1>2, <1>5, <1>6 DEF Tables

\* The header makes an archive of the output, which leads to its tables.
LEMMA HeaderWritten ==
    ASSUME IInv, WriteHeader
    PROVE  IInv'
<1>1. /\ pc = "header" /\ pc' = "ended" /\ end' = "0"
      /\ disk' = [disk EXCEPT ![Out].pieces[offset + 1] = "magic",
                              ![Out].header = Header,
                              ![Out].meant = [offset |-> offset, shift |-> opt.shift, tbl |-> tbl]]
      /\ UNCHANGED <<args, opt, offset, hd, tbl, table, bytesWritten, before, runs>>
      /\ UNCHANGED cryptoVars
  BY DEF WriteHeader
<1>2. /\ args \in Seq(Paths) /\ Len(args) >= 2 /\ offset \in Nat /\ bytesWritten \in Nat
      /\ tbl \in [Tables -> Seq(Words)] /\ opt \in Options
  BY <1>1 DEF IInv, MainInv, MainTypeOK
<1>3. PICK f \in Files : f = disk[Out]
  BY <1>1 DEF IInv, MainInv, WriterInv
<1>4. /\ Headless(f) /\ Len(f.pieces) = offset + 1
      /\ \E z \in Seq(Words) : /\ bytesWritten = HeaderWords + Len(z)
                              /\ f.words = z \o Stored("ht") \o Stored("bt")
      /\ \A t \in Tables : Len(tbl[t]) = EntryWords * Size(t)
  BY <1>1, <1>3 DEF IInv, MainInv, WriterInv
<1>11. PICK z \in Seq(Words) : /\ bytesWritten = HeaderWords + Len(z)
                               /\ f.words = z \o Stored("ht") \o Stored("bt")
  BY <1>4
<1> DEFINE q == [f.pieces EXCEPT ![offset + 1] = "magic"]
           m == [offset |-> offset, shift |-> opt.shift, tbl |-> tbl]
           g == [f EXCEPT !.pieces = q, !.header = Header, !.meant = m]
<1>5. disk' = [disk EXCEPT ![Out] = g]
  BY <1>1, <1>3
<1>6. \A t \in Tables : Size(t) \in Nat
  <2> SUFFICES ASSUME NEW t \in Tables PROVE Size(t) \in Nat
    OBVIOUS
  <2>1. PICK n \in Nat, e \in Nat \ {0} : n = Len(tbl[t]) /\ e = EntryWords
    <3>1. Len(tbl[t]) \in Nat /\ EntryWords \in Nat \ {0}
      BY <1>2, MainFacts
    <3>2. QED
      BY <3>1
  <2>2. n \div e \in Nat
    OBVIOUS
  <2>3. QED
    BY <2>1, <2>2 DEF Size
<1>7. Header \in Headers /\ m \in Meanings /\ opt.shift \in 0 .. 15
  <2>1. opt.shift \in 0 .. 15
    BY <1>2 DEF Options
  <2>2. bytesWritten + EntryWords * Size("ht") \in Nat
    <3>1. PICK n \in Nat, e \in Nat : n = Size("ht") /\ e = EntryWords
      BY <1>6, MainFacts DEF Tables
    <3>2. e * n \in Nat
      OBVIOUS
    <3>3. QED
      BY <1>2, <3>1, <3>2
  <2>3. Header \in Headers
    BY <1>2, <1>6, <2>1, <2>2 DEF Header, Headers, Tables
  <2>4. m \in Meanings
    BY <1>2, <2>1 DEF Meanings
  <2>5. QED
    BY <2>1, <2>3, <2>4
<1>8. q \in Seq(Pieces) /\ Len(q) = offset + 1 /\ q[offset + 1] = "magic"
         /\ \A i \in 1 .. offset : q[i] # "magic"
  <2>1. f.pieces \in Seq(Pieces)
    BY FileUpdates
  <2>2. \A i \in 1 .. Len(f.pieces) : f.pieces[i] # "magic"
    BY <1>4, <2>1 DEF Headless
  <2>3. "magic" \in Pieces
    BY DEF Pieces
  <2>4. QED
    BY <1>2, <1>4, <2>1, <2>2, <2>3
<1> HIDE DEF q, m
<1>9. /\ g \in Files /\ g.pieces = q /\ g.words = f.words /\ g.header = Header /\ g.meant = m
  <2> DEFINE f1 == [f EXCEPT !.pieces = q]
             f2 == [f1 EXCEPT !.header = Header]
  <2>1. f1 \in Files /\ f1.pieces = q /\ f1.words = f.words
    BY <1>8, FileUpdates
  <2> HIDE DEF f1
  <2>2. f2 \in Files /\ f2.pieces = q /\ f2.words = f.words /\ f2.header = Header
    BY <1>7, <2>1, FileUpdates
  <2> HIDE DEF f2
  <2>3. /\ [f2 EXCEPT !.meant = m] \in Files /\ [f2 EXCEPT !.meant = m].pieces = q
        /\ [f2 EXCEPT !.meant = m].words = f.words /\ [f2 EXCEPT !.meant = m].header = Header
        /\ [f2 EXCEPT !.meant = m].meant = m
    BY <1>7, <2>2, FileUpdates
  <2>4. g = [f2 EXCEPT !.meant = m]
    BY DEF f1, f2
  <2>5. QED
    BY <2>3, <2>4
<1> HIDE DEF g
<1>10. FindHeader(g) = offset
  <2>1. PICK n \in Nat : n = NumPieces(g) /\ offset + 1 <= n
    BY <1>8, <1>9, PieceFacts
  <2>2. offset \in 0 .. n - 1 /\ offset + 1 \in 1 .. Len(q) /\ \A i \in 1 .. offset : i \in 1 .. Len(q)
    BY <1>2, <1>8, <2>1
  <2>3. Piece(g, offset + 1) = "magic" /\ \A i \in 1 .. offset : Piece(g, i) # "magic"
    BY <1>8, <1>9, <2>2, PieceFacts
  <2>4. PICK o \in 0 .. NumPieces(g) - 1 : o = offset
    BY <2>1, <2>2
  <2>5. Piece(g, o + 1) = "magic" /\ \A i \in 1 .. o : Piece(g, i) # "magic"
    BY <2>3, <2>4
  <2>6. FindHeader(g) = o
    BY <1>9, <2>5, HeaderFound
  <2>7. QED
    BY <2>4, <2>6
<1> DEFINE e == [t \in Tables |-> Encrypted(tbl[t], KeyOf(t))]
           size == [t \in Tables |-> Size(t)]
<1>12. e \in [Tables -> Seq(Words)] /\ \A t \in Tables : Len(e[t]) = Len(tbl[t])
  <2>1. \A t \in Tables : tbl[t] \in Seq(Words) /\ KeyOf(t) \in Words
    BY <1>2, KeyFacts
  <2>2. \A t \in Tables : Encrypted(tbl[t], KeyOf(t)) \in Seq(Words)
                             /\ Len(Encrypted(tbl[t], KeyOf(t))) = Len(tbl[t])
    BY <2>1, EncryptedFacts
  <2>3. QED
    BY <2>2
<1>13. g.words = z \o e["ht"] \o e["bt"]
  BY <1>1, <1>9, <1>11 DEF Stored, Tables
<1>14. size \in [Tables -> Nat] /\ \A t \in Tables : Len(e[t]) = EntryWords * size[t]
  BY <1>4, <1>6, <1>12
<1>15. /\ Header.size = size /\ Header.shift = opt.shift
       /\ Header.pos["ht"] = HeaderWords + Len(z)
       /\ Header.pos["bt"] = HeaderWords + Len(z) + EntryWords * size["ht"]
  <2>1. bytesWritten = HeaderWords + Len(z)
    BY <1>11
  <2>2. /\ Header.pos["ht"] = bytesWritten /\ Header.pos["bt"] = bytesWritten + EntryWords * Size("ht")
        /\ Header.size = size /\ Header.shift = opt.shift
    BY DEF Header
  <2>3. size["ht"] = Size("ht")
    BY DEF Tables
  <2>4. QED
    BY <2>1, <2>2, <2>3
<1> HIDE DEF size
<1>16. \A t \in Tables : Slice(g, Header, t) = e[t]
  <2> HIDE DEF e
  <2>1. PICK ee \in [Tables -> Seq(Words)], ss \in [Tables -> Nat], zz \in Seq(Words), h \in Headers,
                gg \in Files :
           ee = e /\ ss = size /\ zz = z /\ h = Header /\ gg = g
    BY <1>7, <1>9, <1>11, <1>12, <1>14
  <2>2. /\ gg.words = zz \o ee["ht"] \o ee["bt"] /\ h.size = ss
        /\ h.pos["ht"] = HeaderWords + Len(zz)
        /\ h.pos["bt"] = HeaderWords + Len(zz) + EntryWords * ss["ht"]
        /\ \A t \in Tables : Len(ee[t]) = EntryWords * ss[t]
    BY <1>13, <1>14, <1>15, <2>1
  <2>3. \A t \in Tables : Slice(gg, h, t) = ee[t]
    BY <2>2, TablesFound
  <2>4. QED
    BY <2>1, <2>3
<1>17. WellWritten(g)
  <2>1. m.offset = offset /\ m.shift = opt.shift /\ m.tbl = tbl
    BY DEF m
  <2>2. \A t \in Tables : Slice(g, g.header, t) = Encrypted(g.meant.tbl[t], KeyOf(t))
    BY <1>9, <1>16, <2>1
  <2>3. \A t \in Tables : Len(g.meant.tbl[t]) = EntryWords * g.header.size[t]
    BY <1>9, <1>12, <1>14, <1>15, <2>1
  <2>4. offset < Len(g.pieces)
    BY <1>2, <1>8, <1>9
  <2>5. QED
    BY <1>7, <1>9, <1>10, <1>15, <2>1, <2>2, <2>3, <2>4 DEF WellWritten
<1>18. disk' \in [Paths -> Files \union {NoFile}] /\ DiskInv' /\ BeforeInv'
  BY <1>1, <1>2, <1>5, <1>9, <1>17, OutputWritten DEF IInv
<1>19. MainTypeOK'
  BY <1>1, <1>18 DEF IInv, MainInv, MainTypeOK
<1>20. ReaderInv' /\ WriterInv'
  BY <1>1 DEF ReaderInv, WriterInv
<1>21. CryptoInv'
  BY <1>1, InvStutters DEF IInv
<1>22. QED
  BY <1>18, <1>19, <1>20, <1>21 DEF IInv, MainInv

-----------------------------------------------------------------------------
(* The theorems.                                                           *)

\* Every step of main, whichever it is, preserves the invariant.
LEMMA MainStep == IInv /\ [Next]_vars => IInv'
<1> SUFFICES ASSUME IInv, [Next]_vars PROVE IInv'
  OBVIOUS
<1>1. CASE Start
  BY <1>1, Starts
<1>2. CASE \/ NoArgument \/ IllegalNumber \/ Help \/ TooFewPaths
           \/ InsufficientListfile
  <2>1. pc \in {"options", "names"} /\ Exit("0") /\ UNCHANGED disk
    BY <1>2 DEF NoArgument, IllegalNumber, Help, TooFewPaths, NotAnOption, Reading,
                InsufficientListfile
  <2>2. disk = before \/ disk[Out] = Blank
    BY <2>1 DEF IInv, MainInv, BeforeInv, ReaderInv
  <2>3. QED
    BY <2>1, <2>2, Exits
<1>3. CASE \/ OpenFails \/ InitCacheFails \/ CannotRead \/ NotAnArchive \/ NoListfile
  <2>1. pc # "ended" /\ Exit("1") /\ UNCHANGED disk
    BY <1>3 DEF OpenFails, NotAnOption, InitCacheFails, CannotRead, NotAnArchive, NoListfile
  <2>2. QED
    BY <2>1, Exits
<1>4. CASE DivideByZero \/ WildAccess
  <2>1. pc # "ended" /\ Exit("crash") /\ UNCHANGED disk
    BY <1>4 DEF DivideByZero, WildAccess
  <2>2. QED
    BY <2>1, Exits
<1>5. CASE Kill
  <2>1. CASE pc \in {"seal", "sealing", "header"}
    BY <1>5, <2>1, WriterKilled
  <2>2. CASE pc \notin {"seal", "sealing", "header"}
    <3>1. pc # "ended" /\ Exit("kill") /\ UNCHANGED disk
      BY <1>5, <2>2 DEF Kill
    <3>2. QED
      BY <3>1, Exits
  <2>3. QED
    BY <2>1, <2>2
<1>6. CASE TakeNumber
  BY <1>6, NumbersTaken
<1>7. CASE TakeListfile \/ TakeCache
  BY <1>7, OthersTaken
<1>8. CASE Open
  BY <1>8, Opens
<1>9. CASE UseCache
  BY <1>9, CacheUsed
<1>10. CASE ReadInMpq \/ ReadStray
  BY <1>10, Reads, StrayReads
<1>11. CASE DecryptStep \/ EncryptStep
  BY <1>11, WordsPass
<1>12. CASE DecryptEnds
  BY <1>12, TableRead
<1>13. CASE NoThreads \/ PackingFails
  BY <1>13, CrashesWithoutMemory, PackingEnds
<1>14. CASE PackFiles
  BY <1>14, Packs
<1>15. CASE BeginSeal
  BY <1>15, SealBegins
<1>16. CASE WriteTable
  BY <1>16, TableWritten
<1>17. CASE WriteHeader
  BY <1>17, HeaderWritten
<1>18. CASE UNCHANGED vars
  <2>1. /\ UNCHANGED <<pc, args, opt, disk, offset, hd, tbl, bytesWritten, table, end, before, runs>>
        /\ UNCHANGED <<mode, block, at, key, seed, plain, start>>
    BY <1>18 DEF vars, mainVars, cryptoVars
  <2>2. In' = In /\ Out' = Out
    BY <2>1 DEF In, Out
  <2>3. MainTypeOK' /\ DiskInv'
    BY <2>1 DEF IInv, MainInv, MainTypeOK, DiskInv
  <2>4. ReaderInv'
    BY <2>1, <2>2 DEF IInv, MainInv, ReaderInv
  <2>5. WriterInv'
    BY <2>1, <2>2 DEF IInv, MainInv, WriterInv, Stored, Size
  <2>6. BeforeInv'
    BY <2>1, <2>2 DEF IInv, MainInv, BeforeInv
  <2>7. CryptoInv'
    BY <2>1, InvStutters DEF IInv, cryptoVars
  <2>8. QED
    BY <2>3, <2>4, <2>5, <2>6, <2>7 DEF IInv, MainInv
<1>19. QED
  BY <1>1, <1>2, <1>3, <1>4, <1>5, <1>6, <1>7, <1>8, <1>9, <1>10, <1>11, <1>12, <1>13,
     <1>14, <1>15, <1>16, <1>17, <1>18 DEF Next

\* What an archive was meant to be is what its reader has when it has decrypted
\* the tables.
LEMMA InvReopens == IInv => Reopened
<1> SUFFICES ASSUME IInv, pc = "names", disk[In].header # NoHeader
             PROVE  /\ offset = disk[In].meant.offset
                    /\ hd.shift = disk[In].meant.shift
                    /\ tbl = disk[In].meant.tbl
  BY DEF Reopened
<1>1. ~Headless(disk[In])
  BY DEF Headless
<1>2. /\ disk[In] \in Files /\ offset = FindHeader(disk[In])
      /\ hd = disk[In].header /\ tbl = disk[In].meant.tbl
  BY <1>1 DEF IInv, MainInv, ReaderInv
<1>3. In \in Paths
  <2>1. args \in Seq(Paths) /\ Len(args) >= 2
    BY DEF IInv, MainInv, MainTypeOK
  <2>2. QED
    BY <2>1 DEF In
<1>4. WellWritten(disk[In])
  BY <1>1, <1>2, <1>3 DEF IInv, MainInv, DiskInv
<1>5. QED
  BY <1>2, <1>4 DEF WellWritten

\* What a run leaves is an archive with room for its tables, or has no header.
LEMMA InvWhole == IInv => OutputWholeOrHeaderless
<1> SUFFICES ASSUME IInv, pc = "ended", runs > 0, NEW p \in Paths, disk[p] # before[p]
             PROVE  /\ p = Out
                    /\ FindHeader(disk[p]) # -1 =>
                          IF end = "0" THEN ~Stray(disk[p]) /\ HasTables(disk[p])
                                       ELSE Stray(disk[p]) /\ disk[p].header = NoHeader
  BY DEF OutputWholeOrHeaderless
<1>1. /\ p = Out /\ disk[p] \in Files
      /\ IF end = "0" THEN disk[p] = Blank \/ ~Headless(disk[p]) ELSE Headless(disk[p])
  BY DEF IInv, MainInv, BeforeInv
<1>2. ASSUME FindHeader(disk[p]) # -1, end = "0"
      PROVE  ~Stray(disk[p]) /\ HasTables(disk[p])
  <2>1. WellWritten(disk[p])
    BY <1>1, <1>2, BlankFacts DEF IInv, MainInv, DiskInv
  <2>2. ASSUME NEW t \in Tables
        PROVE  Len(Slice(disk[p], disk[p].header, t)) = EntryWords * disk[p].header.size[t]
    <3>1. disk[p].meant.tbl[t] \in Seq(Words) /\ KeyOf(t) \in Words
      BY <2>1, KeyFacts DEF WellWritten, Meanings
    <3>2. Len(Encrypted(disk[p].meant.tbl[t], KeyOf(t))) = Len(disk[p].meant.tbl[t])
      BY <3>1, EncryptedFacts
    <3>3. QED
      BY <2>1, <3>2 DEF WellWritten
  <2>3. QED
    BY <1>1, <2>1, <2>2, HeaderOrStray DEF HasTables
<1>3. ASSUME FindHeader(disk[p]) # -1, end # "0"
      PROVE  Stray(disk[p]) /\ disk[p].header = NoHeader
  BY <1>1, <1>3, HeaderOrStray DEF Headless
<1>4. QED
  BY <1>1, <1>2, <1>3

\* The invariants of main and of the two loops hold in every state, however
\* many runs there are and however they end.
LEMMA MainInvariant == Spec => []IInv
<1>1. QED
  BY MainInit, MainStep, PTL DEF Spec

\* The variables have their types: in particular, whatever the arguments are,
\* the options main goes on with are legal.
THEOREM OptionsLegal == Spec => []MainTypeOK
<1>1. IInv => MainTypeOK
  BY DEF IInv, MainInv
<1>2. QED
  BY <1>1, MainInvariant, PTL

\* An archive that was finished is read back as it was meant: its offset is
\* found, and the tables its header leads to decrypt to what was encrypted.
THEOREM ArchivesReopened == Spec => []Reopened
<1>1. QED
  BY InvReopens, MainInvariant, PTL

\* However a run ends, it leaves every file but its output as it was.  If the
\* next run takes the output for an archive, it is a whole one when the run has
\* succeeded; otherwise it has no header, and is mistaken for an archive because
\* of the magic number in the data it holds.
THEOREM OutputsWhole == Spec => []OutputWholeOrHeaderless
<1>1. QED
  BY InvWhole, MainInvariant, PTL

\* While main decrypts a table, every word it has passed is what it was before
\* whoever wrote the archive encrypted it.
THEOREM TablesRestored == Spec => []BlockRestored
<1>1. IInv => BlockRestored
  BY InvRestores DEF IInv
<1>2. QED
  BY <1>1, MainInvariant, PTL
=============================================================================
