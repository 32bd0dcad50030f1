--------------------------- MODULE Listfile_proofs ---------------------------
(***************************************************************************)
(* Proofs about Listfile, for listfiles and archives of any size: strtok_l *)
(* returns the words of every text, the list has room for every name of an *)
(* archive however their hashes collide, and the queue of main holds every *)
(* file once.                                                              *)
(***************************************************************************)
EXTENDS Listfile, FiniteSetTheorems, SequenceTheorems, WellFoundedInduction, TLAPS

\* What the assumption says of the list and of keys.
LEMMA ConstantFacts ==
    /\ HtSize \in Nat \ {0}
    /\ \A k \in Keys : k \in Nat \ {0}
    /\ \A n \in Names : KeyOf[n] \in Keys
    /\ NoPath \notin Names
    /\ \A keys \in Archives : keys \subseteq Keys
<1>1. \A n \in Names : KeyOf[n] \in Keys
  BY DEF Keys
<1>2. QED
  BY <1>1, ListfileAssumption

\* A set of natural numbers that is not empty has a least element.
LEMMA Least ==
    ASSUME NEW T \in SUBSET Nat, T # {}
    PROVE  Min(T) \in T /\ \A y \in T : Min(T) <= y
<1> DEFINE F == {0 .. n - 1 : n \in T}
<1>1. IsWellFoundedOn(StrictSubsetOrdering(Nat), FiniteSubsetsOf(Nat))
  BY FS_StrictSubsetOrderingWellFounded
<1>2. F \subseteq FiniteSubsetsOf(Nat)
  <2> SUFFICES ASSUME NEW n \in T PROVE 0 .. n - 1 \in FiniteSubsetsOf(Nat)
    OBVIOUS
  <2>1. IsFiniteSet(0 .. n - 1) /\ 0 .. n - 1 \subseteq Nat
    BY FS_Interval
  <2>2. QED
    BY <2>1 DEF FiniteSubsetsOf
<1>3. PICK X \in F : \A Y \in F : ~ (<<Y, X>> \in StrictSubsetOrdering(Nat))
  <2>1. F # {}
    OBVIOUS
  <2> HIDE DEF F
  <2>2. QED
    BY <1>1, <1>2, <2>1, WFMin
<1>4. PICK n \in T : X = 0 .. n - 1
  BY <1>3
<1>5. ASSUME NEW m \in T PROVE n <= m
  <2> SUFFICES ASSUME m < n PROVE FALSE
    OBVIOUS
  <2>1. 0 .. m - 1 \in SUBSET Nat /\ 0 .. n - 1 \in SUBSET Nat /\ 0 .. m - 1 \subseteq 0 .. n - 1
    OBVIOUS
  <2>2. m \in 0 .. n - 1 /\ m \notin 0 .. m - 1
    OBVIOUS
  <2>3. <<0 .. m - 1, X>> \in StrictSubsetOrdering(Nat)
    BY <1>4, <2>1, <2>2 DEF StrictSubsetOrdering
  <2>4. QED
    BY <1>3, <2>3
<1>6. QED
  BY <1>5 DEF Min

-----------------------------------------------------------------------------
(* strtok_l. *)

\* The first loop stops at a letter or at the end, having passed delimiters.
LEMMA StartFacts ==
    ASSUME text \in Texts, NEW i \in 0 .. size
    PROVE  /\ StartFrom(i) \in i .. size
           /\ StartFrom(i) < size => text[StartFrom(i) + 1] # Delim
           /\ \A j \in i .. StartFrom(i) - 1 : text[j + 1] = Delim
<1>1. size \in Nat
  BY DEF Texts, size
<1> DEFINE T == {j \in i .. size : j < size => text[j + 1] # Delim}
<1>2. T \in SUBSET Nat /\ size \in T
  BY <1>1
<1>3. Min(T) \in T /\ \A y \in T : Min(T) <= y
  <2> HIDE DEF T
  <2>1. QED
    BY <1>2, Least
<1>4. StartFrom(i) = Min(T)
  BY DEF StartFrom
<1> DEFINE m == Min(T)
<1>5. m \in i .. size /\ (m < size => text[m + 1] # Delim)
  BY <1>3
<1>6. \A j \in i .. m - 1 : text[j + 1] = Delim
  <2> SUFFICES ASSUME NEW j \in i .. m - 1 PROVE text[j + 1] = Delim
    OBVIOUS
  <2>1. j \in i .. size /\ j < size /\ j < m
    BY <1>1, <1>5
  <2>2. j \notin T
    <3> HIDE DEF T
    <3>1. QED
      BY <1>1, <1>3, <1>5, <2>1
  <2>3. QED
    BY <2>1, <2>2
<1>7. QED
  <2> HIDE DEF m, T
  <2>1. StartFrom(i) = m
    BY <1>4 DEF m
  <2>2. QED
    BY <1>5, <1>6, <2>1

\* The second loop stops at a delimiter or at the end, having passed letters.
LEMMA EndFacts ==
    ASSUME text \in Texts, NEW i \in 0 .. size
    PROVE  /\ EndFrom(i) \in i .. size
           /\ EndFrom(i) < size => text[EndFrom(i) + 1] = Delim
           /\ \A j \in i .. EndFrom(i) - 1 : text[j + 1] # Delim
<1>1. size \in Nat
  BY DEF Texts, size
<1> DEFINE T == {j \in i .. size : j < size => text[j + 1] = Delim}
<1>2. T \in SUBSET Nat /\ size \in T
  BY <1>1
<1>3. Min(T) \in T /\ \A y \in T : Min(T) <= y
  <2> HIDE DEF T
  <2>1. QED
    BY <1>2, Least
<1>4. EndFrom(i) = Min(T)
  BY DEF EndFrom
<1> DEFINE m == Min(T)
<1>5. m \in i .. size /\ (m < size => text[m + 1] = Delim)
  BY <1>3
<1>6. \A j \in i .. m - 1 : text[j + 1] # Delim
  <2> SUFFICES ASSUME NEW j \in i .. m - 1 PROVE text[j + 1] # Delim
    OBVIOUS
  <2>1. j \in i .. size /\ j < size /\ j < m
    BY <1>1, <1>5
  <2>2. j \notin T
    <3> HIDE DEF T
    <3>1. QED
      BY <1>1, <1>3, <1>5, <2>1
  <2>3. QED
    BY <2>1, <2>2
<1>7. QED
  <2> HIDE DEF m, T
  <2>1. EndFrom(i) = m
    BY <1>4 DEF m
  <2>2. QED
    BY <1>5, <1>6, <2>1

\* What strtok_l cuts off is a run of letters between delimiters, the only one
\* up to where it goes on.
LEMMA TokenIsNextRun ==
    ASSUME text \in Texts, idx \in 0 .. size, ~ Ends,
           idx = 0 \/ idx = size \/ text[idx] = Delim
    PROVE  /\ Token \in RunsOf(text)
           /\ Token \in Nat \X Nat
           /\ Token[1] > idx /\ Token[2] <= NextIdx
           /\ NextIdx \in 0 .. size
           /\ NextIdx = size \/ text[NextIdx] = Delim
           /\ \A r \in RunsOf(text) : r[2] <= NextIdx => r[2] <= idx \/ r = Token
<1> DEFINE s == StartFrom(idx)
           e == EndFrom(s)
<1>1. size \in Nat /\ size = Len(text)
  BY DEF Texts, size
<1>2. /\ s \in idx .. size /\ s < size /\ text[s + 1] # Delim
      /\ \A j \in idx .. s - 1 : text[j + 1] = Delim
  BY <1>1, StartFacts DEF Ends
<1>3. s \in 0 .. size
  BY <1>1, <1>2
<1> HIDE DEF s
<1>4. /\ e \in s .. size
      /\ e < size => text[e + 1] = Delim
      /\ \A j \in s .. e - 1 : text[j + 1] # Delim
  BY <1>3, EndFacts
<1>5. Token = <<s + 1, e>> /\ NextIdx = IF e = size THEN size ELSE e + 1
  BY DEF s, e, Token, NextIdx, Unterminated
<1> HIDE DEF e
<1>6. e > s
  BY <1>1, <1>2, <1>3, <1>4
<1>7. \A i \in s + 1 .. e : text[i] # Delim
  <2> SUFFICES ASSUME NEW i \in s + 1 .. e PROVE text[i] # Delim
    OBVIOUS
  <2>1. i - 1 \in s .. e - 1 /\ (i - 1) + 1 = i
    BY <1>1, <1>3, <1>4
  <2>2. QED
    BY <1>4, <2>1
<1>8. \A i \in idx + 1 .. s : text[i] = Delim
  <2> SUFFICES ASSUME NEW i \in idx + 1 .. s PROVE text[i] = Delim
    OBVIOUS
  <2>1. i - 1 \in idx .. s - 1 /\ (i - 1) + 1 = i
    BY <1>1, <1>2
  <2>2. QED
    BY <1>2, <2>1
<1>9. s = 0 \/ text[s] = Delim
  <2>1. CASE s = idx
    BY <1>2, <2>1
  <2>2. CASE s # idx
    <3>1. s \in idx + 1 .. s
      BY <1>1, <1>2, <2>2
    <3>2. QED
      BY <1>8, <3>1
  <2>3. QED
    BY <2>1, <2>2
<1>10. Token \in RunsOf(text) /\ Token \in Nat \X Nat
  <2>1. <<s + 1, e>> \in (1 .. Len(text)) \X (1 .. Len(text)) /\ s + 1 <= e
    BY <1>1, <1>3, <1>4, <1>6
  <2>2. s + 1 = 1 \/ text[(s + 1) - 1] = Delim
    BY <1>1, <1>3, <1>9
  <2>3. e = Len(text) \/ text[e + 1] = Delim
    BY <1>1, <1>4
  <2>4. <<s + 1, e>> \in Nat \X Nat
    BY <2>1
  <2>5. QED
    BY <1>5, <1>7, <2>1, <2>2, <2>3, <2>4 DEF RunsOf
<1>11. ASSUME NEW r \in RunsOf(text), r[2] <= NextIdx, ~ (r[2] <= idx)
       PROVE  r = Token
  <2>1. /\ r \in (1 .. size) \X (1 .. size)
        /\ r[1] <= r[2]
        /\ \A i \in r[1] .. r[2] : text[i] # Delim
        /\ r[1] = 1 \/ text[r[1] - 1] = Delim
        /\ r[2] = size \/ text[r[2] + 1] = Delim
    BY <1>1 DEF RunsOf
  <2>2. r[1] \in 1 .. size /\ r[2] \in 1 .. size /\ r = <<r[1], r[2]>>
    BY <2>1
  <2>3. r[1] > idx
    <3> SUFFICES ASSUME r[1] <= idx PROVE FALSE
      BY <1>1, <2>2
    <3>1. idx \in r[1] .. r[2] /\ idx # 0 /\ idx # size
      BY <1>1, <1>11, <2>2
    <3>2. QED
      BY <2>1, <3>1
  <2>4. r[1] > s
    <3> SUFFICES ASSUME r[1] <= s PROVE FALSE
      BY <1>1, <1>3, <2>2
    <3>1. r[1] \in idx + 1 .. s /\ r[1] \in r[1] .. r[2]
      BY <1>1, <1>3, <2>1, <2>2, <2>3
    <3>2. QED
      BY <1>8, <2>1, <3>1
  <2>5. r[1] <= e
    <3> SUFFICES ASSUME e < r[1] PROVE FALSE
      BY <1>1, <1>3, <1>4, <2>2
    <3>1. e < size /\ r[2] <= e + 1
      BY <1>1, <1>3, <1>4, <1>5, <1>11, <2>2
    <3>2. e + 1 \in r[1] .. r[2]
      BY <1>1, <1>3, <1>4, <2>1, <2>2, <3>1
    <3>3. QED
      BY <1>4, <2>1, <3>1, <3>2
  <2>6. r[1] = s + 1
    <3> SUFFICES ASSUME r[1] # s + 1 PROVE FALSE
      OBVIOUS
    <3>1. r[1] - 1 \in s + 1 .. e /\ r[1] # 1
      BY <1>1, <1>3, <1>4, <2>2, <2>4, <2>5
    <3>2. QED
      BY <1>7, <2>1, <3>1
  <2>7. r[2] = e
    <3>1. ~ (r[2] < e)
      <4> SUFFICES ASSUME r[2] < e PROVE FALSE
        OBVIOUS
      <4>1. r[2] + 1 \in s + 1 .. e /\ r[2] # size
        BY <1>1, <1>3, <1>4, <2>1, <2>2, <2>4
      <4>2. QED
        BY <1>7, <2>1, <4>1
    <3>2. ~ (e < r[2])
      <4> SUFFICES ASSUME e < r[2] PROVE FALSE
        OBVIOUS
      <4>1. e + 1 \in r[1] .. r[2] /\ e < size
        BY <1>1, <1>3, <1>4, <2>2, <2>5
      <4>2. QED
        BY <1>4, <2>1, <4>1
    <3>3. QED
      BY <1>1, <1>3, <1>4, <2>2, <3>1, <3>2
  <2>8. QED
    BY <1>5, <2>2, <2>6, <2>7
<1>12. NextIdx \in 0 .. size /\ (NextIdx = size \/ text[NextIdx] = Delim) /\ Token[2] <= NextIdx
       /\ Token[1] > idx
  BY <1>1, <1>2, <1>3, <1>4, <1>5
<1>13. QED
  BY <1>10, <1>11, <1>12

\* When only delimiters are left, no run is.
LEMMA NoRunLeft ==
    ASSUME text \in Texts, idx \in 0 .. size, Ends,
           idx = 0 \/ idx = size \/ text[idx] = Delim
    PROVE  \A r \in RunsOf(text) : r[2] <= idx
<1>1. size \in Nat /\ size = Len(text)
  BY DEF Texts, size
<1>2. \A j \in idx .. size - 1 : text[j + 1] = Delim
  BY <1>1, StartFacts DEF Ends
<1> SUFFICES ASSUME NEW r \in RunsOf(text), ~ (r[2] <= idx) PROVE FALSE
  OBVIOUS
<1>3. r[2] \in 1 .. size /\ r[1] \in 1 .. size /\ r[1] <= r[2]
      /\ \A i \in r[1] .. r[2] : text[i] # Delim
  BY <1>1 DEF RunsOf
<1>4. r[2] - 1 \in idx .. size - 1 /\ (r[2] - 1) + 1 = r[2] /\ r[2] \in r[1] .. r[2]
  BY <1>1, <1>3
<1>5. QED
  BY <1>2, <1>3, <1>4

-----------------------------------------------------------------------------
(* listfile.c *)

\* The element number d that a probe comes by is one of the list.
LEMMA ElemInList ==
    ASSUME NEW hash \in Nat, NEW d \in Nat
    PROVE  /\ ((hash % HtSize) + d) % HtSize \in Slots
           /\ Elem(hash, d) = list[((hash % HtSize) + d) % HtSize]
<1>1. HtSize \in Nat \ {0}
  BY ConstantFacts
<1>2. hash % HtSize \in Nat
  BY <1>1
<1>3. QED
  BY <1>1, <1>2 DEF Slots, Elem

\* A probe comes by every slot.
LEMMA Reach ==
    ASSUME NEW hash \in Nat, NEW u \in Slots
    PROVE  \E d \in Slots : Elem(hash, d) = list[u]
<1>1. HtSize \in Nat \ {0} /\ u \in 0 .. HtSize - 1
  BY ConstantFacts DEF Slots
<1> DEFINE s == hash % HtSize
<1>2. s \in 0 .. HtSize - 1
  BY <1>1
<1>3. \A d \in Nat : Elem(hash, d) = list[(s + d) % HtSize]
  BY DEF Elem
<1> HIDE DEF s
<1>4. u % HtSize = u /\ (u + HtSize) % HtSize = u
  BY <1>1
<1>5. CASE s <= u
  <2>1. u - s \in Slots /\ u - s \in Nat /\ s + (u - s) = u
    BY <1>1, <1>2, <1>5 DEF Slots
  <2>2. QED
    BY <1>3, <1>4, <2>1
<1>6. CASE u < s
  <2>1. u - s + HtSize \in Slots /\ u - s + HtSize \in Nat /\ s + (u - s + HtSize) = u + HtSize
    BY <1>1, <1>2, <1>6 DEF Slots
  <2>2. QED
    BY <1>3, <1>4, <2>1
<1>7. QED
  BY <1>1, <1>2, <1>5, <1>6

\* FindPath finds a hash that is in the list, whatever lies in front of it.
LEMMA FindPathFinds ==
    ASSUME NEW k \in Nat, NEW u \in Slots, list[u].hash = k
    PROVE  \E i \in Slots : list[i].hash = k /\ FindPath(k) = list[i].path
<1> DEFINE hits == {d \in 0 .. HtSize - 1 : Elem(k, d).hash = k}
<1>1. hits # {} /\ hits \in SUBSET Nat
  <2>1. PICK d \in Slots : Elem(k, d) = list[u]
    BY Reach
  <2>2. d \in hits
    BY <2>1 DEF Slots
  <2>3. QED
    BY <2>2, ConstantFacts
<1>2. Min(hits) \in hits
  <2> HIDE DEF hits
  <2>1. QED
    BY <1>1, Least
<1>3. FindPath(k) = Elem(k, Min(hits)).path
  BY <1>1 DEF FindPath
<1>4. PICK d \in hits : d = Min(hits)
  BY <1>2
<1>5. d \in Nat /\ Elem(k, d).hash = k /\ FindPath(k) = Elem(k, d).path
  <2>1. d \in 0 .. HtSize - 1 /\ Elem(k, d).hash = k
    OBVIOUS
  <2> HIDE DEF hits
  <2>2. QED
    BY <1>3, <1>4, <2>1, ConstantFacts
<1>6. QED
  BY <1>5, ElemInList

\* FindPath finds nothing else.
LEMMA FindPathMisses ==
    ASSUME NEW k \in Nat, FindPath(k) # NoPath
    PROVE  \E u \in Slots : list[u].hash = k
<1>1. {d \in 0 .. HtSize - 1 : Elem(k, d).hash = k} # {}
  BY DEF FindPath
<1>2. PICK d \in 0 .. HtSize - 1 : Elem(k, d).hash = k
  BY <1>1
<1>3. d \in Nat
  BY ConstantFacts
<1>4. QED
  BY <1>2, <1>3, ElemInList

\* An archive has no more keys than its hash table has slots, and so has the
\* list: a key is in the list already, or the list has a free element.
LEMMA ListHasRoom ==
    ASSUME ListfileTypeOK, ListInv, NEW k \in present
    PROVE  \E u \in Slots : list[u].hash \in {0, k}
<1> SUFFICES ASSUME \A u \in Slots : list[u].hash \notin {0, k} PROVE FALSE
  OBVIOUS
<1>1. /\ IsFiniteSet(present) /\ Cardinality(present) <= HtSize
      /\ Cardinality(present) \in Nat
      /\ present \subseteq Keys
  <2>1. present \in Archives
    BY DEF ListfileTypeOK
  <2>2. IsFiniteSet(present) /\ Cardinality(present) <= HtSize /\ present \subseteq Keys
    BY <2>1, ListfileAssumption
  <2>3. QED
    BY <2>2, FS_CardinalityType
<1>2. IsFiniteSet(present \ {k}) /\ Cardinality(present \ {k}) < HtSize
  <2>1. IsFiniteSet(present \ {k}) /\ Cardinality(present \ {k}) = Cardinality(present) - 1
    BY <1>1, FS_RemoveElement
  <2>2. HtSize \in Nat
    BY ConstantFacts
  <2>3. QED
    BY <1>1, <2>1, <2>2
<1>3. IsFiniteSet(Slots) /\ Cardinality(Slots) = HtSize
  <2>1. HtSize \in Nat \ {0} /\ 0 \in Int /\ HtSize - 1 \in Int
    BY ConstantFacts
  <2>2. IsFiniteSet(0 .. HtSize - 1) /\ Cardinality(0 .. HtSize - 1) = HtSize - 1 - 0 + 1
    BY <2>1, FS_Interval
  <2>3. QED
    BY <2>1, <2>2 DEF Slots
<1> DEFINE f == [u \in Slots |-> list[u].hash]
<1>4. f \in [Slots -> present \ {k}]
  <2> SUFFICES ASSUME NEW u \in Slots PROVE list[u].hash \in present \ {k}
    OBVIOUS
  <2>1. list[u].hash \in seen
    BY DEF ListInv, Free
  <2>2. QED
    BY <2>1 DEF ListfileTypeOK
<1>5. PICK u, v \in Slots : u # v /\ f[u] = f[v]
  <2> HIDE DEF f
  <2>1. QED
    BY <1>2, <1>3, <1>4, FS_PigeonHole
<1>6. list[u] = Free
  BY <1>5 DEF ListfileTypeOK, Slots
<1>7. QED
  BY <1>6 DEF Free

\* AddPath puts a name that is not in the list into a free element.
LEMMA AddPathEffect ==
    ASSUME ListfileTypeOK, ListInv, NEW k \in present, NEW n, AddPath(k, n)
    PROVE  \E u \in Slots :
              \/ list[u].hash = k /\ list' = list
              \/ /\ list[u] = Free
                 /\ \A i \in Slots : list[i].hash # k
                 /\ \E d \in Slots : /\ ((k % HtSize) + d) % HtSize = u
                                     /\ \A e \in 0 .. d - 1 : Elem(k, e) # Free
                 /\ list' = [list EXCEPT ![u] = [hash |-> k, path |-> n]]
<1>1. k \in Nat \ {0}
  BY ConstantFacts DEF ListfileTypeOK
<1>2. PICK u \in Slots : list[u].hash \in {0, k}
  BY ListHasRoom
<1> DEFINE T == {d \in 0 .. HtSize - 1 : Elem(k, d).hash \in {0, k}}
<1>3. T # {} /\ T \in SUBSET Nat
  <2>1. PICK d \in Slots : Elem(k, d) = list[u]
    BY <1>1, Reach
  <2>2. d \in T
    BY <1>2, <2>1 DEF Slots
  <2>3. QED
    BY <2>2, ConstantFacts
<1>4. Min(T) \in T /\ \A y \in T : Min(T) <= y
  <2> HIDE DEF T
  <2>1. QED
    BY <1>3, Least
<1>5. \E d \in 0 .. HtSize - 1 : StopsAt(k, d)
  <2>1. PICK d \in T : \A y \in T : d <= y
    BY <1>4
  <2>2. \A e \in 0 .. d - 1 : e \in 0 .. HtSize - 1 /\ ~ (d <= e)
    BY ConstantFacts
  <2>3. \A e \in 0 .. d - 1 : Elem(k, e).hash \notin {0, k}
    BY <2>1, <2>2
  <2>4. QED
    BY <2>3 DEF StopsAt
<1>6. PICK d \in 0 .. HtSize - 1 :
        /\ StopsAt(k, d)
        /\ list' = [list EXCEPT ![((k % HtSize) + d) % HtSize] =
                       IF @.hash = 0 THEN [hash |-> k, path |-> n] ELSE @]
  <2> DEFINE d == CHOOSE d \in 0 .. HtSize - 1 : StopsAt(k, d)
  <2>1. d \in 0 .. HtSize - 1 /\ StopsAt(k, d)
    BY <1>5
  <2>2. list' = [list EXCEPT ![((k % HtSize) + d) % HtSize] =
                    IF @.hash = 0 THEN [hash |-> k, path |-> n] ELSE @]
    BY <1>5 DEF AddPath
  <2> HIDE DEF d
  <2>3. QED
    BY <2>1, <2>2
<1>7. d \in Nat
  BY ConstantFacts
<1>8. PICK s \in Slots : s = ((k % HtSize) + d) % HtSize /\ Elem(k, d) = list[s]
  BY <1>1, <1>7, ElemInList
<1>9. list[s].hash \in {0, k} /\ \A e \in 0 .. d - 1 : Elem(k, e).hash \notin {0, k}
  BY <1>6, <1>8 DEF StopsAt
<1>10. list' = [list EXCEPT ![s] = IF list[s].hash = 0 THEN [hash |-> k, path |-> n] ELSE list[s]]
  BY <1>6, <1>8
<1>11. CASE list[s].hash = k
  <2>1. list' = [list EXCEPT ![s] = list[s]]
    BY <1>1, <1>10, <1>11
  <2>2. list' = list
    BY <2>1 DEF ListfileTypeOK, Slots
  <2>3. QED
    BY <1>11, <2>2
<1>12. CASE list[s].hash = 0
  <2>1. list[s] = Free
    <3>1. list[s] = Free \/ list[s].hash \in Keys
      BY ConstantFacts DEF ListfileTypeOK, Slots
    <3>2. QED
      BY <1>12, <3>1, ConstantFacts
  <2>2. list' = [list EXCEPT ![s] = [hash |-> k, path |-> n]]
    BY <1>10, <1>12
  <2>3. \A e \in 0 .. d - 1 : Elem(k, e) # Free
    BY <1>9 DEF Free
  <2>4. d \in Slots
    BY DEF Slots
  <2>5. ASSUME NEW i \in Slots, list[i].hash = k PROVE FALSE
    <3>1. list[i] # Free
      BY <1>1, <2>5 DEF Free
    <3>2. PICK c \in Slots : ChainAt(i, c)
      BY <3>1 DEF ListInv
    <3>3. c \in Nat /\ d \in Nat
      BY <1>7, ConstantFacts DEF Slots
    <3>4. ((k % HtSize) + c) % HtSize = i /\ \A e \in 0 .. c - 1 : Elem(k, e) # Free
      BY <2>5, <3>2 DEF ChainAt
    <3>5. Elem(k, c) = list[i]
      BY <3>4 DEF Elem
    <3>6. CASE c < d
      <4>1. c \in 0 .. d - 1
        BY <3>3, <3>6
      <4>2. QED
        BY <1>9, <2>5, <3>5, <4>1
    <3>7. CASE d < c
      <4>1. d \in 0 .. c - 1
        BY <3>3, <3>7
      <4>2. QED
        BY <1>8, <2>1, <3>4, <4>1
    <3>8. CASE c = d
      BY <1>8, <2>1, <3>1, <3>5, <3>8
    <3>9. QED
      BY <3>3, <3>6, <3>7, <3>8
  <2>6. QED
    BY <1>8, <2>1, <2>2, <2>3, <2>4, <2>5
<1>13. QED
  BY <1>9, <1>11, <1>12

-----------------------------------------------------------------------------
(* The invariant holds at the start and every action keeps it. *)

\* At the start nothing is read.
LEMMA InitListfile == Init => ListfileInv
<1> SUFFICES ASSUME Init PROVE ListfileInv
  OBVIOUS
<1>1. /\ pc = "populate" /\ present \in Archives /\ text = <<>> /\ idx = 0
      /\ list = [i \in 0 .. HtSize - 1 |-> Free] /\ pathes = <<>> /\ cnt = 0
      /\ tokens = <<>> /\ seen = {}
  BY DEF Init
<1>2. texts \in Seq(Texts)
  <2>1. InternalNames \in Texts
    <3>1. ListName \in Seq(Chars) /\ AttrName \in Seq(Chars)
      BY ListfileAssumption
    <3>2. ListName \in Texts /\ AttrName \in Texts /\ <<Delim>> \in Texts
      BY <3>1, SeqMonotonic DEF Texts
    <3>3. QED
      BY <3>2 DEF InternalNames, Texts
  <2>2. \A t \in Externals \union Internals : t # NoText => t \in Texts
    BY ListfileAssumption
  <2>3. PICK ext \in Externals, int \in Internals :
          texts = (IF ext = NoText THEN <<>> ELSE <<ext>>)
                  \o (IF KeyOf[ListName] \in present /\ int # NoText THEN <<int>> ELSE <<>>)
                  \o <<InternalNames>>
    BY DEF Init
  <2>4. (IF ext = NoText THEN <<>> ELSE <<ext>>) \in Seq(Texts)
    BY <2>2
  <2>5. (IF KeyOf[ListName] \in present /\ int # NoText THEN <<int>> ELSE <<>>) \in Seq(Texts)
    BY <2>2
  <2>6. QED
    BY <2>1, <2>3, <2>4, <2>5
<1>3. HtSize \in Nat \ {0}
  BY ConstantFacts
<1>4. Len(text) = 0 /\ Len(tokens) = 0 /\ Len(pathes) = 0 /\ text \in Texts
  BY <1>1 DEF Texts
<1>5. ListfileTypeOK
  <2>1. \A i \in 0 .. HtSize - 1 : list[i] = Free
    BY <1>1
  <2>2. list \in [0 .. HtSize - 1 -> Elems]
    BY <1>1 DEF Elems, Free
  <2>3. idx \in 0 .. size /\ cnt \in 0 .. HtSize
    BY <1>1, <1>3, <1>4 DEF size
  <2>4. tokens \in Seq(Nat \X Nat) /\ pathes \in Seq(Names)
    BY <1>1
  <2>5. QED
    BY <1>1, <1>2, <1>4, <2>1, <2>2, <2>3, <2>4 DEF ListfileTypeOK
<1>6. TokensInv
  <2>1. \A i \in 1 .. Len(tokens) : FALSE
    BY <1>4
  <2>2. \A r \in RunsOf(text) : ~ (r[2] <= idx)
    <3>1. \A r \in RunsOf(text) : r[2] \in 1 .. Len(text)
      BY DEF RunsOf
    <3>2. QED
      BY <1>1, <1>4, <3>1
  <2>3. QED
    BY <1>1, <2>1, <2>2 DEF TokensInv, TokensAreWords
<1>7. ListInv
  BY <1>1 DEF ListInv, Slots
<1>8. PathesInv
  BY <1>1 DEF PathesInv
<1>9. QED
  BY <1>5, <1>6, <1>7, <1>8 DEF ListfileInv

\* The next text: strtok_l begins anew.
LEMMA NextTextStep == ListfileInv /\ NextText => ListfileInv'
<1> SUFFICES ASSUME ListfileInv, NextText PROVE ListfileInv'
  OBVIOUS
<1>1. ListfileTypeOK /\ TokensInv /\ ListInv /\ PathesInv
  BY DEF ListfileInv
<1>2. /\ pc = "populate" /\ pc' = "read" /\ texts # <<>>
      /\ text' = Head(texts) /\ texts' = Tail(texts) /\ idx' = 0 /\ tokens' = <<>>
      /\ UNCHANGED <<present, list, pathes, cnt, seen>>
  BY DEF NextText
<1>3. text' \in Texts /\ texts' \in Seq(Texts)
  BY <1>1, <1>2 DEF ListfileTypeOK
<1>4. Len(tokens') = 0 /\ Len(text') \in Nat
  BY <1>2, <1>3 DEF Texts
<1>5. ListfileTypeOK'
  <2>1. idx' \in 0 .. Len(text') /\ tokens' \in Seq(Nat \X Nat)
    BY <1>2, <1>4
  <2>2. QED
    BY <1>1, <1>2, <1>3, <2>1 DEF ListfileTypeOK, size
<1>6. TokensInv'
  <2>1. \A i \in 1 .. Len(tokens') : FALSE
    BY <1>4
  <2>2. \A r \in RunsOf(text') : ~ (r[2] <= idx')
    <3>1. \A r \in RunsOf(text') : r[2] \in 1 .. Len(text')
      BY DEF RunsOf
    <3>2. QED
      BY <1>2, <1>4, <3>1
  <2>3. QED
    BY <1>2, <2>1, <2>2 DEF TokensInv, TokensAreWords
<1>7. ListInv'
  BY <1>1, <1>2 DEF ListInv, ChainAt, Elem
<1>8. PathesInv'
  BY <1>1, <1>2 DEF PathesInv
<1>9. QED
  BY <1>5, <1>6, <1>7, <1>8 DEF ListfileInv

\* A name of the archive is put into the list, if it is not there.
LEMMA NameAdded ==
    ASSUME ListfileTypeOK, ListInv, pc = "read", pc' = pc, UNCHANGED <<present>>,
           NEW n \in Names, NEW k \in present, k = KeyOf[n],
           AddPath(k, n), seen' = seen \union {k}
    PROVE  /\ list' \in [0 .. HtSize - 1 -> Elems]
           /\ \A i \in 0 .. HtSize - 1 :
                 \/ list'[i] = Free
                 \/ list'[i].path \in Names /\ list'[i].hash = KeyOf[list'[i].path]
           /\ \A i, j \in 0 .. HtSize - 1 :
                 list'[i].hash = list'[j].hash /\ i # j => list'[i] = Free
           /\ seen' \subseteq present
           /\ ListInv'
<1>1. /\ list \in [Slots -> Elems]
      /\ \A i \in Slots : \/ list[i] = Free
                          \/ list[i].path \in Names /\ list[i].hash = KeyOf[list[i].path]
      /\ \A i, j \in Slots : list[i].hash = list[j].hash /\ i # j => list[i] = Free
      /\ seen \subseteq present
      /\ k \in Nat \ {0}
  <2>1. k \in Nat \ {0}
    BY ConstantFacts
  <2>2. QED
    BY <2>1 DEF ListfileTypeOK, Slots
<1>2. PICK u \in Slots :
        \/ list[u].hash = k /\ list' = list
        \/ /\ list[u] = Free
           /\ \A i \in Slots : list[i].hash # k
           /\ \E d \in Slots : /\ ((k % HtSize) + d) % HtSize = u
                               /\ \A e \in 0 .. d - 1 : Elem(k, e) # Free
           /\ list' = [list EXCEPT ![u] = [hash |-> k, path |-> n]]
  BY AddPathEffect
<1>3. seen' \subseteq present
  BY <1>1
<1>4. CASE list[u].hash = k /\ list' = list
  <2>1. ListInv'
    BY <1>4 DEF ListInv, ChainAt, Elem
  <2>2. QED
    BY <1>1, <1>3, <1>4, <2>1 DEF Slots
<1>5. CASE /\ list[u] = Free
           /\ \A i \in Slots : list[i].hash # k
           /\ \E d \in Slots : /\ ((k % HtSize) + d) % HtSize = u
                               /\ \A e \in 0 .. d - 1 : Elem(k, e) # Free
           /\ list' = [list EXCEPT ![u] = [hash |-> k, path |-> n]]
  <2>1. /\ list' \in [Slots -> Elems]
        /\ list'[u] = [hash |-> k, path |-> n] /\ list'[u] # Free
        /\ \A i \in Slots : i # u => list'[i] = list[i]
    BY <1>1, <1>5 DEF Elems, Free
  <2>2. \A i \in Slots : \/ list'[i] = Free
                         \/ list'[i].path \in Names /\ list'[i].hash = KeyOf[list'[i].path]
    BY <1>1, <2>1
  <2>3. \A i, j \in Slots : list'[i].hash = list'[j].hash /\ i # j => list'[i] = Free
    <3> SUFFICES ASSUME NEW i \in Slots, NEW j \in Slots, list'[i].hash = list'[j].hash, i # j
                 PROVE  list'[i] = Free
      OBVIOUS
    <3>1. i # u /\ j # u
      BY <1>5, <2>1
    <3>2. QED
      BY <1>1, <2>1, <3>1
  <2>4. \A i \in Slots : list[i] # Free => list'[i] = list[i]
    BY <1>5, <2>1
  <2>5. ASSUME NEW h \in Nat, NEW e \in Nat, Elem(h, e) # Free
        PROVE  list'[((h % HtSize) + e) % HtSize] # Free
    BY <2>4, <2>5, ElemInList
  <2>6. \A i \in Slots : list'[i] = Free \/ \E d \in Slots :
            /\ ((list'[i].hash % HtSize) + d) % HtSize = i
            /\ \A e \in 0 .. d - 1 : list'[((list'[i].hash % HtSize) + e) % HtSize] # Free
    <3> SUFFICES ASSUME NEW i \in Slots, list'[i] # Free
                 PROVE  \E d \in Slots :
                    /\ ((list'[i].hash % HtSize) + d) % HtSize = i
                    /\ \A e \in 0 .. d - 1 : list'[((list'[i].hash % HtSize) + e) % HtSize] # Free
      OBVIOUS
    <3>1. PICK h \in Nat : h = list'[i].hash
      BY <2>1 DEF Elems
    <3>2. PICK d \in Slots : /\ ((h % HtSize) + d) % HtSize = i
                             /\ \A e \in 0 .. d - 1 : Elem(h, e) # Free
      <4>1. CASE i = u
        BY <1>5, <2>1, <3>1, <4>1
      <4>2. CASE i # u
        <5>1. list[i] # Free /\ h = list[i].hash
          BY <2>1, <3>1, <4>2
        <5>2. PICK d \in Slots : ChainAt(i, d)
          BY <5>1 DEF ListInv
        <5>3. QED
          BY <5>1, <5>2 DEF ChainAt
      <4>3. QED
        BY <4>1, <4>2
    <3>3. \A e \in 0 .. d - 1 : e \in Nat
      BY ConstantFacts DEF Slots
    <3>4. \A e \in 0 .. d - 1 : list'[((h % HtSize) + e) % HtSize] # Free
      BY <2>5, <3>2, <3>3
    <3>5. QED
      BY <3>1, <3>2, <3>4
  <2>7. \A i \in Slots : list'[i] = Free \/ list'[i].hash \in seen'
    BY <2>1 DEF ListInv
  <2>8. \A j \in seen' : \E i \in Slots : list'[i].hash = j
    <3> SUFFICES ASSUME NEW j \in seen' PROVE \E i \in Slots : list'[i].hash = j
      OBVIOUS
    <3>1. CASE j = k
      BY <2>1, <3>1
    <3>2. CASE j # k
      <4>1. PICK i \in Slots : list[i].hash = j
        BY <3>2 DEF ListInv
      <4>2. j # 0
        BY <1>1, <3>2, ConstantFacts DEF ListfileTypeOK
      <4>3. list'[i] = list[i]
        BY <2>4, <4>1, <4>2 DEF Free
      <4>4. QED
        BY <4>1, <4>3
    <3>3. QED
      BY <3>1, <3>2
  <2>9. ListInv'
    BY <2>6, <2>7, <2>8 DEF ListInv, ChainAt, Elem
  <2>10. QED
    BY <1>3, <2>1, <2>2, <2>3, <2>9 DEF Slots
<1>6. QED
  BY <1>2, <1>4, <1>5

\* A name of the text: strtok_l goes on behind it, and what the archive knows
\* is remembered.
LEMMA ReadNameStep == ListfileInv /\ ReadName => ListfileInv'
<1> SUFFICES ASSUME ListfileInv, ReadName PROVE ListfileInv'
  OBVIOUS
<1>1. ListfileTypeOK /\ TokensInv /\ ListInv /\ PathesInv
  BY DEF ListfileInv
<1>2. /\ pc = "read" /\ pc' = "read" /\ ~ Ends
      /\ tokens' = Append(tokens, Token) /\ idx' = NextIdx
      /\ UNCHANGED <<present, texts, text, pathes, cnt>>
  BY DEF ReadName
<1>3. \/ UNCHANGED <<list, seen>>
      \/ \E n \in Names : KeyOf[n] \in present /\ AddPath(KeyOf[n], n)
                          /\ seen' = seen \union {KeyOf[n]}
  BY DEF ReadName
<1>4. /\ text \in Texts /\ idx \in 0 .. size /\ tokens \in Seq(Nat \X Nat)
      /\ idx = 0 \/ idx = size \/ text[idx] = Delim
  BY <1>1 DEF ListfileTypeOK, TokensInv
<1>5. /\ Token \in RunsOf(text) /\ Token \in Nat \X Nat
      /\ Token[1] > idx /\ Token[2] <= NextIdx
      /\ NextIdx \in 0 .. size
      /\ NextIdx = size \/ text[NextIdx] = Delim
      /\ \A r \in RunsOf(text) : r[2] <= NextIdx => r[2] <= idx \/ r = Token
  BY <1>2, <1>4, TokenIsNextRun
<1>6. PICK t \in Nat \X Nat : t = Token
  BY <1>5
<1>7. PICK next \in 0 .. size : next = NextIdx
  BY <1>5
<1>8. PICK n \in Nat : n = Len(tokens)
  BY <1>4
<1>9. /\ tokens' \in Seq(Nat \X Nat) /\ Len(tokens') = n + 1 /\ tokens'[n + 1] = t
      /\ \A i \in 1 .. n : tokens'[i] = tokens[i]
  BY <1>2, <1>4, <1>6, <1>8
<1>10. size \in Nat /\ idx \in Nat /\ next \in Nat /\ next >= idx
  <2>1. size \in Nat
    BY <1>4 DEF Texts, size
  <2>2. t[1] <= t[2]
    BY <1>5, <1>6 DEF RunsOf
  <2>3. t[1] \in Nat /\ t[2] \in Nat
    BY <1>6
  <2>4. QED
    BY <1>4, <1>5, <1>6, <1>7, <2>1, <2>2, <2>3
<1>11. TokensInv'
  <2>1. /\ \A i \in 1 .. n : tokens[i] \in RunsOf(text) /\ tokens[i] \in Nat \X Nat
                             /\ tokens[i][2] <= idx
        /\ \A i, j \in 1 .. n : i < j => tokens[i][2] < tokens[j][1]
        /\ \A r \in RunsOf(text) : r[2] <= idx => \E i \in 1 .. n : tokens[i] = r
    BY <1>1, <1>4, <1>8 DEF TokensInv, TokensAreWords
  <2>2. \A i \in 1 .. n + 1 : tokens'[i] \in RunsOf(text) /\ tokens'[i][2] <= next
    <3> SUFFICES ASSUME NEW i \in 1 .. n + 1
                 PROVE  tokens'[i] \in RunsOf(text) /\ tokens'[i][2] <= next
      OBVIOUS
    <3>1. CASE i = n + 1
      BY <1>5, <1>6, <1>7, <1>9, <3>1
    <3>2. CASE i # n + 1
      <4>1. i \in 1 .. n
        BY <3>2
      <4>2. tokens[i] \in RunsOf(text) /\ tokens[i][2] <= idx /\ tokens[i][2] \in Nat
        BY <2>1, <4>1
      <4>3. tokens'[i] = tokens[i]
        BY <1>9, <4>1
      <4>4. QED
        BY <1>10, <4>2, <4>3
    <3>3. QED
      BY <3>1, <3>2
  <2>3. \A i, j \in 1 .. n + 1 : i < j => tokens'[i][2] < tokens'[j][1]
    <3> SUFFICES ASSUME NEW i \in 1 .. n + 1, NEW j \in 1 .. n + 1, i < j
                 PROVE  tokens'[i][2] < tokens'[j][1]
      OBVIOUS
    <3>1. i \in 1 .. n /\ tokens'[i] = tokens[i]
      BY <1>9
    <3>2. CASE j = n + 1
      <4>1. tokens[i][2] <= idx /\ tokens[i][2] \in Nat
        BY <2>1, <3>1
      <4>2. t[1] > idx /\ t[1] \in Nat /\ tokens'[j] = t
        BY <1>5, <1>6, <1>9, <3>2
      <4>3. QED
        BY <1>10, <3>1, <4>1, <4>2
    <3>3. CASE j # n + 1
      <4>1. j \in 1 .. n /\ tokens'[j] = tokens[j]
        BY <1>9, <3>3
      <4>2. QED
        BY <2>1, <3>1, <4>1
    <3>4. QED
      BY <3>2, <3>3
  <2>4. \A r \in RunsOf(text) : r[2] <= next => \E i \in 1 .. n + 1 : tokens'[i] = r
    <3> SUFFICES ASSUME NEW r \in RunsOf(text), r[2] <= next
                 PROVE  \E i \in 1 .. n + 1 : tokens'[i] = r
      OBVIOUS
    <3>1. r[2] <= idx \/ r = t
      BY <1>5, <1>6, <1>7
    <3>2. CASE r = t
      BY <1>9, <3>2
    <3>3. CASE r[2] <= idx
      <4>1. PICK i \in 1 .. n : tokens[i] = r
        BY <2>1, <3>3
      <4>2. i \in 1 .. n + 1 /\ tokens'[i] = r
        BY <1>9, <4>1
      <4>3. QED
        BY <4>2
    <3>4. QED
      BY <3>1, <3>2, <3>3
  <2>5. idx' = next /\ text' = text
    BY <1>2, <1>7
  <2>6. RunsOf(text)' = RunsOf(text) /\ size' = size
    BY <2>5 DEF RunsOf, size
  <2>7. TokensAreWords'
    BY <1>2, <1>9, <2>2, <2>3, <2>4, <2>5, <2>6 DEF TokensAreWords
  <2>8. QED
    BY <1>2, <1>5, <1>7, <1>9, <2>2, <2>5, <2>6, <2>7 DEF TokensInv
<1>12. /\ list' \in [0 .. HtSize - 1 -> Elems]
       /\ \A i \in 0 .. HtSize - 1 :
             \/ list'[i] = Free
             \/ list'[i].path \in Names /\ list'[i].hash = KeyOf[list'[i].path]
       /\ \A i, j \in 0 .. HtSize - 1 :
             list'[i].hash = list'[j].hash /\ i # j => list'[i] = Free
       /\ seen' \subseteq present
       /\ ListInv'
  <2>1. CASE UNCHANGED <<list, seen>>
    <3>1. ListInv'
      BY <1>1, <1>2, <2>1 DEF ListInv, ChainAt, Elem
    <3>2. QED
      BY <1>1, <2>1, <3>1 DEF ListfileTypeOK
  <2>2. ASSUME NEW name \in Names, KeyOf[name] \in present, AddPath(KeyOf[name], name),
               seen' = seen \union {KeyOf[name]}
        PROVE  /\ list' \in [0 .. HtSize - 1 -> Elems]
               /\ \A i \in 0 .. HtSize - 1 :
                     \/ list'[i] = Free
                     \/ list'[i].path \in Names /\ list'[i].hash = KeyOf[list'[i].path]
               /\ \A i, j \in 0 .. HtSize - 1 :
                     list'[i].hash = list'[j].hash /\ i # j => list'[i] = Free
               /\ seen' \subseteq present
               /\ ListInv'
    BY <1>1, <1>2, <2>2, NameAdded
  <2>3. QED
    BY <1>3, <2>1, <2>2
<1>13. ListfileTypeOK'
  <2>1. idx' \in 0 .. Len(text')
    BY <1>2, <1>5 DEF size
  <2>2. QED
    BY <1>1, <1>2, <1>9, <1>12, <2>1 DEF ListfileTypeOK, size
<1>14. PathesInv'
  BY <1>1, <1>2 DEF PathesInv
<1>15. QED
  BY <1>11, <1>12, <1>13, <1>14 DEF ListfileInv

\* The end of a text: all its names are cut.
LEMMA EndTextStep == ListfileInv /\ EndText => ListfileInv'
<1> SUFFICES ASSUME ListfileInv, EndText PROVE ListfileInv'
  OBVIOUS
<1>1. ListfileTypeOK /\ TokensInv /\ ListInv /\ PathesInv
  BY DEF ListfileInv
<1>2. /\ pc = "read" /\ pc' \in {"check", "populate"} /\ Ends
      /\ idx' = size
      /\ UNCHANGED <<present, texts, text, list, pathes, cnt, tokens, seen>>
  BY DEF EndText
<1>3. /\ text \in Texts /\ idx \in 0 .. size /\ tokens \in Seq(Nat \X Nat)
      /\ idx = 0 \/ idx = size \/ text[idx] = Delim
  BY <1>1 DEF ListfileTypeOK, TokensInv
<1>4. size \in Nat /\ size' = size
  BY <1>2, <1>3 DEF Texts, size
<1>5. \A r \in RunsOf(text) : r[2] <= idx
  BY <1>2, <1>3, NoRunLeft
<1>6. TokensInv'
  <2>1. /\ \A i \in 1 .. Len(tokens) : tokens[i] \in RunsOf(text) /\ tokens[i][2] <= size
        /\ \A i, j \in 1 .. Len(tokens) : i < j => tokens[i][2] < tokens[j][1]
        /\ \A r \in RunsOf(text) : \E i \in 1 .. Len(tokens) : tokens[i] = r
    <3>1. \A i \in 1 .. Len(tokens) : tokens[i][2] \in Nat /\ tokens[i][2] <= idx
      BY <1>1, <1>3 DEF TokensInv
    <3>2. \A i \in 1 .. Len(tokens) : tokens[i][2] <= size
      BY <1>3, <1>4, <3>1
    <3>3. /\ \A i \in 1 .. Len(tokens) : tokens[i] \in RunsOf(text)
          /\ \A i, j \in 1 .. Len(tokens) : i < j => tokens[i][2] < tokens[j][1]
          /\ \A r \in RunsOf(text) : r[2] <= idx => \E i \in 1 .. Len(tokens) : tokens[i] = r
      BY <1>1 DEF TokensInv, TokensAreWords
    <3>4. QED
      BY <1>5, <3>2, <3>3
  <2>2. RunsOf(text)' = RunsOf(text)
    BY <1>2 DEF RunsOf
  <2>3. TokensAreWords'
    BY <1>2, <2>1, <2>2 DEF TokensAreWords
  <2>4. QED
    BY <1>2, <1>4, <2>1, <2>3 DEF TokensInv
<1>7. ListfileTypeOK'
  <2>1. idx' \in 0 .. Len(text')
    BY <1>2, <1>4 DEF size
  <2>2. QED
    BY <1>1, <1>2, <2>1 DEF ListfileTypeOK, size
<1>8. ListInv' /\ PathesInv'
  BY <1>1, <1>2 DEF ListInv, PathesInv, ChainAt, Elem
<1>9. QED
  BY <1>6, <1>7, <1>8 DEF ListfileInv

\* FindPath finds what was looked up, and a name.
LEMMA SeenIsFound ==
    ASSUME ListfileTypeOK, ListInv, NEW k \in seen
    PROVE  FindPath(k) # NoPath
<1>1. k \in Nat \ {0}
  BY ConstantFacts DEF ListfileTypeOK
<1>2. PICK u \in Slots : list[u].hash = k
  BY DEF ListInv
<1>3. PICK i \in Slots : list[i].hash = k /\ FindPath(k) = list[i].path
  BY <1>1, <1>2, FindPathFinds
<1>4. list[i].path \in Names
  BY <1>1, <1>3 DEF ListfileTypeOK, Slots, Free
<1>5. QED
  BY <1>3, <1>4, ConstantFacts

\* FindPath finds nothing that was not looked up.
LEMMA FoundIsSeen ==
    ASSUME ListfileTypeOK, ListInv, NEW k \in present, FindPath(k) # NoPath
    PROVE  k \in seen
<1>1. k \in Nat \ {0}
  BY ConstantFacts DEF ListfileTypeOK
<1>2. PICK u \in Slots : list[u].hash = k
  BY <1>1, FindPathMisses
<1>3. list[u] # Free
  BY <1>1, <1>2 DEF Free
<1>4. QED
  BY <1>2, <1>3 DEF ListInv

\* The check of ListfileSufficient, and the steps around the loop of main.
LEMMA CheckSteps == ListfileInv /\ (GiveUp \/ Fill \/ InitQueue \/ UNCHANGED vars) => ListfileInv'
<1> SUFFICES ASSUME ListfileInv, GiveUp \/ Fill \/ InitQueue \/ UNCHANGED vars
             PROVE  ListfileInv'
  OBVIOUS
<1>1. ListfileTypeOK /\ TokensInv /\ ListInv /\ PathesInv
  BY DEF ListfileInv
<1>2. UNCHANGED <<present, texts, text, idx, list, pathes, tokens, seen>>
  BY DEF GiveUp, Fill, InitQueue, vars
<1>3. \/ pc = "check" /\ pc' = "insufficient" /\ cnt' = cnt /\ \E k \in present : k \notin seen
      \/ pc = "check" /\ pc' = "fill" /\ cnt' = 0 /\ present \subseteq seen
      \/ pc = "fill" /\ pc' = "queued" /\ cnt = HtSize /\ cnt' = cnt
      \/ pc' = pc /\ cnt' = cnt
  <2>1. CASE GiveUp
    <3>1. PICK k \in present : FindPath(k) = NoPath
      BY <2>1 DEF GiveUp, ListfileSufficient
    <3>2. k \notin seen
      BY <1>1, <3>1, SeenIsFound
    <3>3. QED
      BY <2>1, <3>2 DEF GiveUp
  <2>2. CASE Fill
    <3>1. \A k \in present : k \in seen
      BY <1>1, <2>2, FoundIsSeen DEF Fill, ListfileSufficient
    <3>2. QED
      BY <2>2, <3>1 DEF Fill
  <2>3. CASE InitQueue
    BY <2>3 DEF InitQueue
  <2>4. CASE UNCHANGED vars
    BY <2>4 DEF vars
  <2>5. QED
    BY <2>1, <2>2, <2>3, <2>4
<1>4. cnt' \in 0 .. HtSize
  BY <1>1, <1>3, ConstantFacts DEF ListfileTypeOK
<1>5. ListfileTypeOK'
  BY <1>1, <1>2, <1>3, <1>4 DEF ListfileTypeOK, size
<1>6. TokensInv'
  <2>1. size' = size /\ RunsOf(text)' = RunsOf(text)
    BY <1>2 DEF size, RunsOf
  <2>2. pc \notin {"populate", "read"} => idx = size
    BY <1>1 DEF TokensInv
  <2>3. pc' = "check" => pc = "check"
    BY <1>3
  <2>4. TokensAreWords'
    BY <1>1, <1>2, <2>1, <2>3 DEF TokensInv, TokensAreWords
  <2>5. QED
    BY <1>1, <1>2, <1>3, <2>1, <2>2, <2>4 DEF TokensInv
<1>7. ListInv'
  BY <1>1, <1>2, <1>3 DEF ListInv, ChainAt, Elem
<1>8. PathesInv'
  <2>1. CASE pc' = "fill" /\ cnt' = 0 /\ pc = "check"
    <3>1. pathes' = <<>> /\ Len(pathes') = 0
      BY <1>1, <1>2, <2>1 DEF PathesInv
    <3>2. \A i \in 0 .. cnt' - 1 : FALSE
      BY <2>1
    <3>3. \A i \in 1 .. Len(pathes') : FALSE
      BY <3>1
    <3>4. QED
      BY <2>1, <3>2, <3>3 DEF PathesInv
  <2>2. CASE ~ (pc' = "fill" /\ cnt' = 0 /\ pc = "check")
    <3>1. /\ cnt' = cnt
          /\ pc' \in {"fill", "queued"} <=> pc \in {"fill", "queued"}
          /\ pc' = "queued" /\ pc # "queued" => cnt = HtSize
      BY <1>3, <2>2
    <3>2. QED
      BY <1>1, <1>2, <3>1 DEF PathesInv, Queued
  <2>3. QED
    BY <2>1, <2>2
<1>9. QED
  BY <1>5, <1>6, <1>7, <1>8 DEF ListfileInv

\* A round of the loop of main.
LEMMA FillPathStep == ListfileInv /\ FillPath => ListfileInv'
<1> SUFFICES ASSUME ListfileInv, FillPath PROVE ListfileInv'
  OBVIOUS
<1>1. ListfileTypeOK /\ TokensInv /\ ListInv /\ PathesInv
  BY DEF ListfileInv
<1>2. /\ pc = "fill" /\ pc' = "fill" /\ cnt # HtSize /\ cnt' = cnt + 1
      /\ pathes' = IF Queued(list[cnt]) THEN Append(pathes, list[cnt].path) ELSE pathes
      /\ UNCHANGED <<present, texts, text, idx, list, tokens, seen>>
  BY DEF FillPath
<1>3. cnt \in Slots /\ cnt \in Nat /\ cnt' \in 0 .. HtSize
  BY <1>1, <1>2, ConstantFacts DEF ListfileTypeOK, Slots
<1>4. PICK n \in Nat : n = Len(pathes)
  <2>1. pathes \in Seq(Names)
    BY <1>1 DEF ListfileTypeOK
  <2>2. Len(pathes) \in Nat
    BY <2>1, LenProperties
  <2>3. QED
    BY <2>2
<1>5. PICK c \in Nat : c = cnt
  BY <1>3
<1>6. /\ pathes \in Seq(Names)
      /\ \A i \in Slots : Queued(list[i]) =>
            list[i].path \in Names /\ list[i].hash = KeyOf[list[i].path]
      /\ \A i, j \in Slots : list[i].hash = list[j].hash /\ i # j => list[i] = Free
  BY <1>1 DEF ListfileTypeOK, Slots, Queued, Free
<1>7. /\ \A i \in 0 .. c - 1 : Queued(list[i]) => \E j \in 1 .. n : pathes[j] = list[i].path
      /\ \A j \in 1 .. n : \E i \in 0 .. c - 1 : Queued(list[i]) /\ pathes[j] = list[i].path
      /\ \A i, j \in 1 .. n : i # j => KeyOf[pathes[i]] # KeyOf[pathes[j]]
  BY <1>1, <1>2, <1>4, <1>5 DEF PathesInv
<1>8. \A i \in 0 .. c - 1 : i \in Slots /\ i # c /\ i \in 0 .. c
  BY <1>3, <1>5, ConstantFacts DEF Slots
<1>9. /\ pathes' \in Seq(Names)
      /\ \A i \in 0 .. c : Queued(list[i]) =>
            \E j \in 1 .. Len(pathes') : pathes'[j] = list[i].path
      /\ \A j \in 1 .. Len(pathes') : \E i \in 0 .. c :
            Queued(list[i]) /\ pathes'[j] = list[i].path
      /\ \A i, j \in 1 .. Len(pathes') : i # j => KeyOf[pathes'[i]] # KeyOf[pathes'[j]]
  <2>1. CASE ~ Queued(list[c])
    <3>1. pathes' = pathes
      BY <1>2, <1>5, <2>1
    <3>2. \A i \in 0 .. c : Queued(list[i]) => i \in 0 .. c - 1
      BY <2>1
    <3>3. QED
      BY <1>4, <1>6, <1>7, <1>8, <3>1, <3>2
  <2>2. CASE Queued(list[c])
    <3>1. /\ pathes' \in Seq(Names) /\ Len(pathes') = n + 1
          /\ pathes'[n + 1] = list[c].path
          /\ \A j \in 1 .. n : pathes'[j] = pathes[j]
      BY <1>2, <1>3, <1>4, <1>5, <1>6, <2>2
    <3>2. \A i \in 0 .. c : Queued(list[i]) => \E j \in 1 .. n + 1 : pathes'[j] = list[i].path
      <4> SUFFICES ASSUME NEW i \in 0 .. c, Queued(list[i])
                   PROVE  \E j \in 1 .. n + 1 : pathes'[j] = list[i].path
        OBVIOUS
      <4>1. CASE i = c
        BY <3>1, <4>1
      <4>2. CASE i # c
        <5>1. i \in 0 .. c - 1
          BY <4>2
        <5>2. PICK j \in 1 .. n : pathes[j] = list[i].path
          BY <1>7, <5>1
        <5>3. j \in 1 .. n + 1 /\ pathes'[j] = list[i].path
          BY <3>1, <5>2
        <5>4. QED
          BY <5>3
      <4>3. QED
        BY <4>1, <4>2
    <3>3. \A j \in 1 .. n + 1 : \E i \in 0 .. c : Queued(list[i]) /\ pathes'[j] = list[i].path
      <4> SUFFICES ASSUME NEW j \in 1 .. n + 1
                   PROVE  \E i \in 0 .. c : Queued(list[i]) /\ pathes'[j] = list[i].path
        OBVIOUS
      <4>1. CASE j = n + 1
        BY <2>2, <3>1, <4>1
      <4>2. CASE j # n + 1
        <5>1. j \in 1 .. n /\ pathes'[j] = pathes[j]
          BY <3>1, <4>2
        <5>2. QED
          BY <1>7, <1>8, <5>1
      <4>3. QED
        BY <4>1, <4>2
    <3>4. \A j \in 1 .. n : KeyOf[pathes'[j]] # KeyOf[pathes'[n + 1]]
      <4> SUFFICES ASSUME NEW j \in 1 .. n, KeyOf[pathes'[j]] = KeyOf[pathes'[n + 1]]
                   PROVE  FALSE
        OBVIOUS
      <4>1. PICK i \in 0 .. c - 1 : Queued(list[i]) /\ pathes[j] = list[i].path
        BY <1>7
      <4>2. i \in Slots /\ c \in Slots /\ i # c
        BY <1>3, <1>5, <1>8
      <4>3. list[i].hash = list[c].hash
        BY <1>6, <2>2, <3>1, <4>1, <4>2
      <4>4. list[i] = Free
        BY <1>6, <4>2, <4>3
      <4>5. QED
        BY <4>1, <4>4 DEF Queued, Free
    <3>5. \A i, j \in 1 .. n + 1 : i # j => KeyOf[pathes'[i]] # KeyOf[pathes'[j]]
      <4> SUFFICES ASSUME NEW i \in 1 .. n + 1, NEW j \in 1 .. n + 1, i # j
                   PROVE  KeyOf[pathes'[i]] # KeyOf[pathes'[j]]
        OBVIOUS
      <4>1. CASE i = n + 1
        <5>1. j \in 1 .. n
          BY <4>1
        <5>2. QED
          BY <3>4, <4>1, <5>1
      <4>2. CASE j = n + 1
        <5>1. i \in 1 .. n
          BY <4>2
        <5>2. QED
          BY <3>4, <4>2, <5>1
      <4>3. CASE i # n + 1 /\ j # n + 1
        <5>1. i \in 1 .. n /\ j \in 1 .. n
          BY <4>3
        <5>2. QED
          BY <1>7, <3>1, <5>1
      <4>4. QED
        BY <4>1, <4>2, <4>3
    <3>6. QED
      BY <3>1, <3>2, <3>3, <3>5
  <2>3. QED
    BY <2>1, <2>2
<1>10. PathesInv'
  <2>1. 0 .. cnt' - 1 = 0 .. c
    BY <1>2, <1>5
  <2>2. \A i : Queued(list'[i]) <=> Queued(list[i])
    BY <1>2
  <2>3. \A i \in 0 .. cnt' - 1 : Queued(list'[i]) =>
            \E j \in 1 .. Len(pathes') : pathes'[j] = list'[i].path
    BY <1>2, <1>9, <2>1, <2>2
  <2>4. \A j \in 1 .. Len(pathes') : \E i \in 0 .. cnt' - 1 :
            Queued(list'[i]) /\ pathes'[j] = list'[i].path
    <3> SUFFICES ASSUME NEW j \in 1 .. Len(pathes')
                 PROVE  \E i \in 0 .. cnt' - 1 : Queued(list'[i]) /\ pathes'[j] = list'[i].path
      OBVIOUS
    <3>1. PICK i \in 0 .. c : Queued(list[i]) /\ pathes'[j] = list[i].path
      BY <1>9
    <3>2. i \in 0 .. cnt' - 1 /\ Queued(list'[i]) /\ pathes'[j] = list'[i].path
      BY <1>2, <2>1, <3>1
    <3>3. QED
      BY <3>2
  <2>5. QED
    BY <1>2, <1>9, <2>3, <2>4 DEF PathesInv, Queued
<1>11. ListfileTypeOK'
  BY <1>1, <1>2, <1>3, <1>9 DEF ListfileTypeOK, size
<1>12. TokensInv'
  <2>1. size' = size /\ RunsOf(text)' = RunsOf(text)
    BY <1>2 DEF size, RunsOf
  <2>2. TokensAreWords'
    BY <1>1, <1>2, <2>1 DEF TokensInv, TokensAreWords
  <2>3. QED
    BY <1>1, <1>2, <2>1, <2>2 DEF TokensInv
<1>13. ListInv'
  BY <1>1, <1>2 DEF ListInv, ChainAt, Elem
<1>14. QED
  BY <1>10, <1>11, <1>12, <1>13 DEF ListfileInv

-----------------------------------------------------------------------------
(* The theorems. *)

\* The invariant holds in every reachable state: what strtok_l has cut from
\* the text, what the list remembers of it and what main has queued.
THEOREM ListfileInvariant == Spec => []ListfileInv
<1>1. Init => ListfileInv
  BY InitListfile
<1>2. ListfileInv /\ [Next]_vars => ListfileInv'
  BY NextTextStep, ReadNameStep, EndTextStep, CheckSteps, FillPathStep DEF Next
<1>3. QED
  BY <1>1, <1>2, PTL DEF Spec, Safety

\* The variables are well typed, and the list holds each hash once.
THEOREM ListWellFormed == Spec => []ListfileTypeOK
<1>1. ListfileInv => ListfileTypeOK
  BY DEF ListfileInv
<1>2. QED
  BY <1>1, ListfileInvariant, PTL

\* strtok_l cuts every text into its words, all of them and in order, wherever
\* its delimiters are and whether or not the last word has one.
THEOREM WordsCut == Spec => []TokensAreWords
<1>1. ListfileInv => TokensAreWords
  BY DEF ListfileInv, TokensInv
<1>2. QED
  BY <1>1, ListfileInvariant, PTL

\* However the hashes of an archive collide, the list never runs full before
\* it holds every name that was found in the archive.
THEOREM NoNameLost == Spec => []NamesRemembered
<1>1. ListfileInv => NamesRemembered
  <2> SUFFICES ASSUME ListfileInv PROVE NamesRemembered
    OBVIOUS
  <2>1. \A k \in seen : FindPath(k) # NoPath
    BY SeenIsFound DEF ListfileInv
  <2>2. QED
    BY <2>1 DEF ListfileInv, ListInv, NamesRemembered
<1>2. QED
  BY <1>1, ListfileInvariant, PTL

\* The queue the threads work on holds every file of the archive once, but for
\* the two special ones.
THEOREM EveryFileQueued == Spec => []QueueComplete
<1>1. ListfileInv => QueueComplete
  <2> SUFFICES ASSUME ListfileInv, pc = "queued"
               PROVE  /\ \A k \in present :
                            \/ FindPath(k) \in {ListName, AttrName}
                            \/ \E i \in 1 .. Len(pathes) : KeyOf[pathes[i]] = k
                      /\ \A i \in 1 .. Len(pathes) : /\ KeyOf[pathes[i]] \in present
                                                     /\ pathes[i] \notin {ListName, AttrName}
                      /\ \A i, j \in 1 .. Len(pathes) :
                            i # j => KeyOf[pathes[i]] # KeyOf[pathes[j]]
    BY DEF QueueComplete
  <2>1. ListfileTypeOK /\ ListInv /\ PathesInv
    BY DEF ListfileInv
  <2>2. /\ \A i \in Slots : Queued(list[i]) =>
              \E j \in 1 .. Len(pathes) : pathes[j] = list[i].path
        /\ \A j \in 1 .. Len(pathes) : \E i \in Slots :
              Queued(list[i]) /\ pathes[j] = list[i].path
        /\ \A i, j \in 1 .. Len(pathes) : i # j => KeyOf[pathes[i]] # KeyOf[pathes[j]]
    BY <2>1 DEF PathesInv, Slots
  <2>3. \A i \in Slots : list[i].hash # 0 =>
            /\ list[i].path \in Names /\ list[i].hash = KeyOf[list[i].path]
            /\ list[i].hash \in seen /\ list[i].hash \in present
    BY <2>1 DEF ListfileTypeOK, ListInv, Slots, Free
  <2>4. ASSUME NEW k \in present, FindPath(k) \notin {ListName, AttrName}
        PROVE  \E i \in 1 .. Len(pathes) : KeyOf[pathes[i]] = k
    <3>1. k \in Nat \ {0}
      BY <2>1, ConstantFacts DEF ListfileTypeOK
    <3>2. k \in seen
      BY <2>1 DEF ListInv
    <3>3. PICK u \in Slots : list[u].hash = k
      BY <2>1, <3>2 DEF ListInv
    <3>4. PICK i \in Slots : list[i].hash = k /\ FindPath(k) = list[i].path
      BY <3>1, <3>3, FindPathFinds
    <3>5. Queued(list[i])
      BY <2>4, <3>1, <3>4 DEF Queued
    <3>6. QED
      BY <2>2, <2>3, <3>1, <3>4, <3>5
  <2>5. ASSUME NEW j \in 1 .. Len(pathes)
        PROVE  KeyOf[pathes[j]] \in present /\ pathes[j] \notin {ListName, AttrName}
    <3>1. PICK i \in Slots : Queued(list[i]) /\ pathes[j] = list[i].path
      BY <2>2
    <3>2. QED
      BY <2>3, <3>1 DEF Queued
  <2>6. QED
    BY <2>2, <2>4, <2>5
<1>2. QED
  BY <1>1, ListfileInvariant, PTL
=============================================================================
