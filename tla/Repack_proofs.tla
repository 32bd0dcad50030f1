---------------------------- MODULE Repack_proofs ----------------------------
(***************************************************************************)
(* Proofs about the tables of an archive and about Repack, which fills     *)
(* them: for every size of the hash table and every hash function, every   *)
(* number of threads and files and every packed size; and that Repack      *)
(* delivers what Archive promises: the archive is complete when its header *)
(* is written, and until then there is none.                               *)
(***************************************************************************)
EXTENDS Repack, SequenceTheorems, FiniteSetTheorems, FunctionTheorems,
        WellFoundedInduction, TLAPS

-----------------------------------------------------------------------------
(* The tables of an archive.                                               *)

\* A set of natural numbers that is not empty has a least element.
LEMMA Least ==
  ASSUME NEW T \in SUBSET Nat, T # {}
  PROVE  \E x \in T : \A y \in T : x <= y
<1> DEFINE F == {0 .. n - 1 : n \in T}
<1>1. IsWellFoundedOn(StrictSubsetOrdering(Nat), FiniteSubsetsOf(Nat))
  BY FS_StrictSubsetOrderingWellFounded
<1>2. F \subseteq FiniteSubsetsOf(Nat)
  <2> SUFFICES ASSUME NEW n \in T PROVE 0 .. n - 1 \in FiniteSubsetsOf(Nat)
    OBVIOUS
  <2>1. IsFiniteSet(0 .. n - 1)
    BY FS_Interval
  <2>2. 0 .. n - 1 \subseteq Nat
    OBVIOUS
  <2>3. QED
    BY <2>1, <2>2 DEF FiniteSubsetsOf
<1>3. F # {}
  OBVIOUS
<1>4. \E X \in F : \A Y \in F : ~ (<<Y, X>> \in StrictSubsetOrdering(Nat))
  <2> HIDE DEF F
  <2>1. QED
    BY <1>1, <1>2, <1>3, WFMin
<1>5. PICK n \in T : \A m \in T : ~ (<<0 .. m - 1, 0 .. n - 1>> \in StrictSubsetOrdering(Nat))
  BY <1>4
<1>6. ASSUME NEW m \in T, m < n PROVE FALSE
  <2>1. 0 .. m - 1 \in SUBSET Nat /\ 0 .. n - 1 \in SUBSET Nat
    OBVIOUS
  <2>2. 0 .. m - 1 \subseteq 0 .. n - 1
    BY <1>6
  <2>3. m \in 0 .. n - 1 /\ m \notin 0 .. m - 1
    BY <1>6
  <2>4. <<0 .. m - 1, 0 .. n - 1>> \in StrictSubsetOrdering(Nat)
    BY <2>1, <2>2, <2>3 DEF StrictSubsetOrdering
  <2>5. QED
    BY <1>5, <2>4
<1>7. QED
  BY <1>6

-----------------------------------------------------------------------------
\* A probe stays inside the table.
LEMMA SlotInTable ==
  ASSUME NEW s \in Slots, NEW d \in Nat
  PROVE  Slot(s, d) \in Slots
BY TableAssumption DEF Slot, Slots

\* A probe that is long enough comes by every slot, wherever it starts.
LEMMA Reach ==
  ASSUME NEW s \in Slots, NEW u \in Slots
  PROVE  \E d \in Slots : Slot(s, d) = u
<1>1. /\ HtSize \in Nat \ {0} /\ s \in 0 .. HtSize - 1 /\ u \in 0 .. HtSize - 1
  BY TableAssumption DEF Slots
<1>2. u % HtSize = u /\ (u + HtSize) % HtSize = u
  BY <1>1
<1>3. CASE s <= u
  <2>1. u - s \in Slots /\ s + (u - s) = u
    BY <1>1, <1>3 DEF Slots
  <2>2. Slot(s, u - s) = u
    BY <1>2, <2>1 DEF Slot
  <2>3. QED
    BY <2>1, <2>2
<1>4. CASE u < s
  <2>1. u - s + HtSize \in Slots /\ s + (u - s + HtSize) = u + HtSize
    BY <1>1, <1>4 DEF Slots
  <2>2. Slot(s, u - s + HtSize) = u
    BY <1>2, <2>1 DEF Slot
  <2>3. QED
    BY <2>1, <2>2
<1>5. QED
  BY <1>1, <1>3, <1>4

\* The slots are a finite set of HtSize elements.
LEMMA SlotsCount == IsFiniteSet(Slots) /\ Cardinality(Slots) = HtSize
<1>1. HtSize \in Nat \ {0} /\ 0 \in Int /\ HtSize - 1 \in Int
  BY TableAssumption
<1>2. IsFiniteSet(0 .. HtSize - 1) /\ Cardinality(0 .. HtSize - 1) = HtSize - 1 - 0 + 1
  BY <1>1, FS_Interval
<1>3. QED
  BY <1>1, <1>2 DEF Slots

\* Room in the block table means an unused slot: the hash table is no smaller,
\* and each block uses one slot.
LEMMA UnusedSlot ==
  ASSUME TableInv, Len(bt) < NumEntries
  PROVE  \E u \in Slots : ht[u].block = NoBlock
<1>1. Cardinality(UsedSlots) = Len(bt) /\ Len(bt) \in Nat
  BY DEF TableInv, UsedInv, IndexInv
<1>2. Len(bt) < HtSize
  BY <1>1, TableAssumption
<1>3. Slots # UsedSlots
  BY <1>1, <1>2, SlotsCount
<1>4. QED
  BY <1>3 DEF UsedSlots

\* The probe of every name reaches an unused slot: the first one it comes by.
LEMMA ProbeEnds ==
  ASSUME TableInv, Len(bt) < NumEntries, NEW n \in Names
  PROVE  \E d \in Slots : FreeAt(Start[n], d)
<1>1. Start[n] \in Slots
  BY TableAssumption DEF Slots
<1> DEFINE T == {d \in Slots : ht[Slot(Start[n], d)].block = NoBlock}
<1>2. T # {}
  <2>1. PICK u \in Slots : ht[u].block = NoBlock
    BY UnusedSlot
  <2>2. PICK d \in Slots : Slot(Start[n], d) = u
    BY <1>1, Reach
  <2>3. d \in T
    BY <2>1, <2>2
  <2>4. QED
    BY <2>3
<1>3. T \in SUBSET Nat
  BY TableAssumption DEF Slots
<1>4. PICK d \in T : \A y \in T : d <= y
  <2> HIDE DEF T
  <2>1. QED
    BY <1>2, <1>3, Least
<1>5. \A e \in 0 .. d - 1 : e \in Slots /\ e \notin T
  BY <1>3, <1>4, TableAssumption DEF Slots
<1>6. QED
  BY <1>4, <1>5 DEF FreeAt

-----------------------------------------------------------------------------
\* The empty tables satisfy the invariant.
LEMMA InitTableInv == InitTable => TableInv
<1> SUFFICES ASSUME InitTable PROVE TableInv
  OBVIOUS
<1>1. ht = [i \in Slots |-> Unused] /\ bt = <<>> /\ names = <<>>
  BY DEF InitTable
<1>2. IndexInv
  BY <1>1, TableAssumption DEF IndexInv, Unused, NoBlock
<1>3. ChainInv
  BY <1>1 DEF ChainInv
<1>4. UsedSlots = {}
  BY <1>1 DEF UsedSlots, Unused
<1>5. UsedInv
  BY <1>1, <1>4, FS_EmptySet DEF UsedInv
<1>6. QED
  BY <1>2, <1>3, <1>5 DEF TableInv

\* What one insertion does: one slot that was unused gets the next block, and
\* the slots the probe passed are in use.
LEMMA InsertEffect ==
  ASSUME TableInv, Len(bt) < NumEntries, NEW n \in Names, NEW b, Insert(n, b)
  PROVE  \E d \in Slots :
           /\ Slot(Start[n], d) \in Slots
           /\ ht[Slot(Start[n], d)].block = NoBlock
           /\ \A e \in 0 .. d - 1 : /\ Slot(Start[n], e) \in Slots
                                    /\ ht[Slot(Start[n], e)].block # NoBlock
           /\ ht' = [ht EXCEPT ![Slot(Start[n], d)] = [key |-> Key[n], block |-> Len(bt)]]
           /\ bt' = Append(bt, b)
           /\ names' = Append(names, n)
<1>1. PICK d \in Slots :
        /\ FreeAt(Start[n], d)
        /\ ht' = [ht EXCEPT ![Slot(Start[n], d)] = [key |-> Key[n], block |-> Len(bt)]]
  BY DEF Insert, InsertHT
<1>2. Start[n] \in Slots /\ d \in Nat
  BY TableAssumption DEF Slots
<1>3. \A e \in 0 .. d : e \in Nat /\ Slot(Start[n], e) \in Slots
  <2>1. \A e \in 0 .. d : e \in Nat
    BY <1>2
  <2>2. QED
    BY <1>2, <2>1, SlotInTable
<1>4. d \in 0 .. d /\ \A e \in 0 .. d - 1 : e \in 0 .. d
  BY <1>2
<1>5. QED
  BY <1>1, <1>3, <1>4 DEF FreeAt, Insert, InsertBT

\* One insertion keeps the invariant, whatever the entries of the block table
\* hold.
LEMMA InsertKeeps ==
  ASSUME TableInv, Len(bt) < NumEntries, NEW n \in Names,
         NEW B, bt \in Seq(B), NEW b \in B, Insert(n, b)
  PROVE  TableInv'
<1>1. PICK d \in Slots :
        /\ Slot(Start[n], d) \in Slots
        /\ ht[Slot(Start[n], d)].block = NoBlock
        /\ \A e \in 0 .. d - 1 : /\ Slot(Start[n], e) \in Slots
                                 /\ ht[Slot(Start[n], e)].block # NoBlock
        /\ ht' = [ht EXCEPT ![Slot(Start[n], d)] = [key |-> Key[n], block |-> Len(bt)]]
        /\ bt' = Append(bt, b)
        /\ names' = Append(names, n)
  BY InsertEffect
<1> DEFINE s == Slot(Start[n], d)
           L == Len(bt)
<1>2. /\ ht \in [Slots -> Entry \union {Unused}]
      /\ \A t \in Slots : ht[t].block < L
      /\ names \in Seq(Names)
      /\ L \in Nat /\ L < NumEntries /\ Len(names) = L /\ NumEntries \in Nat
  BY TableAssumption DEF TableInv, IndexInv
<1>3. /\ s \in Slots
      /\ ht'[s] = [key |-> Key[n], block |-> L]
      /\ \A t \in Slots : t # s => ht'[t] = ht[t]
  BY <1>1, <1>2
<1>4. /\ Len(bt') = L + 1
      /\ names' \in Seq(Names) /\ Len(names') = L + 1
      /\ names'[L + 1] = n
      /\ \A i \in 1 .. L : names'[i] = names[i]
  BY <1>1, <1>2
<1>5. IndexInv'
  <2>1. [key |-> Key[n], block |-> L] \in Entry
    BY <1>2 DEF Entry
  <2>2. ht' \in [Slots -> Entry \union {Unused}]
    BY <1>1, <1>2, <2>1
  <2>3. \A t \in Slots : ht'[t].block < L + 1
    <3> SUFFICES ASSUME NEW t \in Slots PROVE ht'[t].block < L + 1
      OBVIOUS
    <3>1. CASE t = s
      BY <1>2, <1>3, <3>1
    <3>2. CASE t # s
      <4>1. ht'[t] = ht[t] /\ ht[t].block < L /\ ht[t].block \in Int
        BY <1>2, <1>3, <3>2 DEF Entry, Unused, NoBlock
      <4>2. QED
        BY <1>2, <4>1
    <3>3. QED
      BY <3>1, <3>2
  <2>4. QED
    BY <1>2, <1>4, <2>2, <2>3 DEF IndexInv, Slots, Entry, Unused
<1>6. \A t \in Slots : ht[t].block # NoBlock => t # s /\ ht'[t] = ht[t] /\ ht[t].block \in 0 .. L - 1
  <2> SUFFICES ASSUME NEW t \in Slots, ht[t].block # NoBlock
               PROVE  t # s /\ ht'[t] = ht[t] /\ ht[t].block \in 0 .. L - 1
    OBVIOUS
  <2>1. t # s
    BY <1>1
  <2>2. ht[t].block \in Nat
    BY <1>2 DEF Entry, Unused
  <2>3. QED
    BY <1>2, <1>3, <2>1, <2>2
<1>7. ChainInv'
  <2> SUFFICES ASSUME NEW i \in 1 .. Len(names') PROVE \E c \in Slots : ChainAt(i, c)'
    BY DEF ChainInv, Slots
  <2>1. CASE i \in 1 .. L
    <3>1. PICK c \in Slots : ChainAt(i, c)
      BY <1>2, <2>1 DEF TableInv, ChainInv
    <3>2. names'[i] = names[i] /\ names[i] \in Names /\ c \in Nat
      <4>1. names'[i] = names[i]
        BY <1>4, <2>1
      <4>2. names[i] \in Names
        BY <1>2, <2>1
      <4>3. c \in Nat
        BY TableAssumption DEF Slots
      <4>4. QED
        BY <4>1, <4>2, <4>3
    <3>3. Start[names[i]] \in Slots
      BY <3>2, TableAssumption DEF Slots
    <3>4. Slot(Start[names[i]], c) \in Slots
      BY <3>2, <3>3, SlotInTable
    <3>5. ht'[Slot(Start[names[i]], c)] = [key |-> Key[names[i]], block |-> i - 1]
      <4>1. ht[Slot(Start[names[i]], c)] = [key |-> Key[names[i]], block |-> i - 1]
        BY <3>1 DEF ChainAt
      <4>2. ht[Slot(Start[names[i]], c)].block # NoBlock
        BY <1>2, <2>1, <4>1 DEF NoBlock
      <4>3. QED
        BY <1>6, <3>4, <4>1, <4>2
    <3>6. ASSUME NEW e \in 0 .. c - 1
          PROVE  ht'[Slot(Start[names[i]], e)].block \in 0 .. i - 2
      <4>1. Slot(Start[names[i]], e) \in Slots
        <5>1. e \in Nat
          BY <3>2
        <5>2. QED
          BY <3>3, <5>1, SlotInTable
      <4>2. ht[Slot(Start[names[i]], e)].block \in 0 .. i - 2
        BY <3>1 DEF ChainAt
      <4>3. ht[Slot(Start[names[i]], e)].block # NoBlock
        BY <1>2, <2>1, <4>2 DEF NoBlock
      <4>4. QED
        BY <1>6, <4>1, <4>2, <4>3
    <3>7. QED
      BY <3>2, <3>5, <3>6 DEF ChainAt, Slot
  <2>2. CASE i = L + 1
    <3>1. ht'[s] = [key |-> Key[names'[i]], block |-> i - 1]
      BY <1>2, <1>3, <1>4, <2>2
    <3>2. \A e \in 0 .. d - 1 : ht'[Slot(Start[names'[i]], e)].block \in 0 .. i - 2
      BY <1>1, <1>2, <1>4, <1>6, <2>2
    <3>3. ChainAt(i, d)'
      BY <1>4, <2>2, <3>1, <3>2 DEF ChainAt, Slot
    <3>4. QED
      BY <3>3
  <2>3. QED
    BY <1>2, <1>4, <2>1, <2>2
<1>8. UsedSlots' = UsedSlots \union {s}
  <2>1. \A t \in Slots : t # s => (ht'[t].block # NoBlock <=> ht[t].block # NoBlock)
    BY <1>3
  <2>2. ht'[s].block # NoBlock
    BY <1>2, <1>3 DEF NoBlock
  <2>3. QED
    BY <1>3, <2>1, <2>2 DEF UsedSlots, NoBlock, Slots
<1>9. UsedInv'
  <2>1. \A t \in UsedSlots' : ht'[t].block >= 0 /\ ht'[t].key = Key[names'[ht'[t].block + 1]]
    <3> SUFFICES ASSUME NEW t \in UsedSlots \union {s}
                 PROVE  ht'[t].block >= 0 /\ ht'[t].key = Key[names'[ht'[t].block + 1]]
      BY <1>8
    <3>1. CASE t = s
      BY <1>2, <1>3, <1>4, <3>1
    <3>2. CASE t \in UsedSlots
      <4>1. ht'[t] = ht[t] /\ ht[t].block \in 0 .. L - 1
        BY <1>6, <3>2 DEF UsedSlots
      <4>2. ht[t].key = Key[names[ht[t].block + 1]]
        BY <3>2 DEF TableInv, UsedInv
      <4>3. names'[ht[t].block + 1] = names[ht[t].block + 1]
        <5>1. ht[t].block + 1 \in 1 .. L
          BY <1>2, <4>1
        <5>2. QED
          BY <1>4, <5>1
      <4>4. QED
        BY <4>1, <4>2, <4>3
    <3>3. QED
      BY <3>1, <3>2
  <2>2. Cardinality(UsedSlots') = L + 1
    <3>1. IsFiniteSet(UsedSlots)
      BY SlotsCount, FS_Subset DEF UsedSlots
    <3>2. s \notin UsedSlots
      BY <1>1 DEF UsedSlots
    <3>3. Cardinality(UsedSlots \union {s}) = Cardinality(UsedSlots) + 1
      BY <3>1, <3>2, FS_AddElement
    <3>4. Cardinality(UsedSlots) = L
      BY DEF TableInv, UsedInv
    <3>5. QED
      BY <1>8, <3>3, <3>4
  <2>3. QED
    BY <1>4, <2>1, <2>2 DEF UsedInv
<1>10. QED
  BY <1>5, <1>7, <1>9 DEF TableInv

\* The invariant is inductive.
LEMMA TableInvariant == TableSpec => [](TableInv /\ bt \in Seq(Nat))
<1>1. InitTable => TableInv /\ bt \in Seq(Nat)
  BY InitTableInv DEF InitTable
<1>2. TableInv /\ bt \in Seq(Nat) /\ [InsertAny]_tableVars => (TableInv /\ bt \in Seq(Nat))'
  <2> SUFFICES ASSUME TableInv, bt \in Seq(Nat), [InsertAny]_tableVars
               PROVE  TableInv' /\ bt' \in Seq(Nat)
    OBVIOUS
  <2>1. CASE InsertAny
    <3>1. PICK n \in Names : Len(bt) < NumEntries /\ Insert(n, Len(bt))
      BY <2>1 DEF InsertAny
    <3>2. Len(bt) \in Nat
      OBVIOUS
    <3>3. TableInv'
      BY <3>1, <3>2, InsertKeeps
    <3>4. bt' \in Seq(Nat)
      BY <3>1, <3>2 DEF Insert, InsertBT
    <3>5. QED
      BY <3>3, <3>4
  <2>2. CASE UNCHANGED tableVars
    BY <2>2 DEF tableVars, TableInv, IndexInv, ChainInv, ChainAt, UsedInv, UsedSlots, Slot
  <2>3. QED
    BY <2>1, <2>2
<1>3. QED
  BY <1>1, <1>2, PTL DEF TableSpec

-----------------------------------------------------------------------------
\* The walk of a lookup ends at one slot at most.
LEMMA FoundOnce ==
  ASSUME NEW h, NEW n, NEW c \in Slots, NEW d \in Slots,
         FoundAt(h, n, c), FoundAt(h, n, d)
  PROVE  c = d
<1>1. c \in Int /\ d \in Int /\ c >= 0 /\ d >= 0
  BY TableAssumption DEF Slots
<1>2. ~ (c < d)
  <2> SUFFICES ASSUME c < d PROVE FALSE
    OBVIOUS
  <2>1. c \in 0 .. d - 1
    BY <1>1
  <2>2. QED
    BY <2>1 DEF FoundAt
<1>3. ~ (d < c)
  <2> SUFFICES ASSUME d < c PROVE FALSE
    OBVIOUS
  <2>1. d \in 0 .. c - 1
    BY <1>1
  <2>2. QED
    BY <2>1 DEF FoundAt
<1>4. QED
  BY <1>1, <1>2, <1>3

\* A used slot of the table carries the key its block was inserted under.
LEMMA SlotKey ==
  ASSUME TableInv, NEW t \in Slots, ht[t].block # NoBlock
  PROVE  /\ ht[t].block + 1 \in 1 .. Len(names)
         /\ ht[t].key = Key[names[ht[t].block + 1]]
<1>1. ht[t].block \in Nat /\ ht[t].block < Len(bt) /\ Len(bt) \in Nat /\ Len(names) = Len(bt)
  BY TableAssumption DEF TableInv, IndexInv, Entry, Unused
<1>2. t \in UsedSlots
  BY DEF UsedSlots
<1>3. QED
  BY <1>1, <1>2 DEF TableInv, UsedInv

\* A lookup finds the first block of a name.
LEMMA FirstFound ==
  TableInv => \A n \in Names : \A i \in 1 .. Len(names) :
                IsFirst(n, i) => FindBTE(ht, n) = i - 1
<1> SUFFICES ASSUME TableInv, NEW n \in Names, NEW i \in 1 .. Len(names), IsFirst(n, i)
             PROVE  FindBTE(ht, n) = i - 1
  OBVIOUS
<1>1. PICK c \in Slots : ChainAt(i, c)
  BY DEF TableInv, ChainInv
<1>2. /\ names[i] \in Names /\ Key[names[i]] = Key[n] /\ i \in Nat /\ i >= 1
      /\ Len(names) \in Nat
  BY DEF TableInv, IndexInv, IsFirst
<1>3. Start[names[i]] = Start[n] /\ Start[n] \in Slots
  BY <1>2, TableAssumption DEF Slots
<1>4. c \in Nat /\ \A e \in 0 .. c : e \in Nat /\ (e = c \/ e \in 0 .. c - 1)
  BY TableAssumption DEF Slots
<1>5. \A e \in 0 .. c : Slot(Start[n], e) \in Slots
  BY <1>3, <1>4, SlotInTable
<1>6. /\ ht[Slot(Start[n], c)].key = Key[n]
      /\ ht[Slot(Start[n], c)].block = i - 1
      /\ i - 1 # NoBlock
  BY <1>1, <1>2, <1>3 DEF ChainAt, NoBlock
<1>7. ASSUME NEW e \in 0 .. c - 1
      PROVE  /\ ht[Slot(Start[n], e)].block # NoBlock
             /\ ht[Slot(Start[n], e)].key # Key[n]
  <2>1. e \in 0 .. c
    BY <1>4
  <2>2. ht[Slot(Start[n], e)].block \in 0 .. i - 2
    BY <1>1, <1>3 DEF ChainAt
  <2>3. ht[Slot(Start[n], e)].block # NoBlock /\ ht[Slot(Start[n], e)].block + 1 \in 1 .. i - 1
    BY <1>2, <2>2 DEF NoBlock
  <2>4. ht[Slot(Start[n], e)].key = Key[names[ht[Slot(Start[n], e)].block + 1]]
    BY <1>5, <2>1, <2>3, SlotKey
  <2>5. QED
    BY <2>3, <2>4 DEF IsFirst
<1>8. FoundAt(ht, n, c)
  BY <1>4, <1>6, <1>7 DEF FoundAt
<1>9. (CHOOSE d \in Slots : FoundAt(ht, n, d)) = c
  <2>1. \E d \in Slots : FoundAt(ht, n, d)
    BY <1>8
  <2>2. QED
    BY <1>8, <2>1, FoundOnce
<1>10. QED
  BY <1>6, <1>8, <1>9 DEF FindBTE

\* A lookup finds nothing else.
LEMMA NothingElse ==
  ASSUME TableInv, NEW n \in Names, \A i \in 1 .. Len(names) : Key[names[i]] # Key[n]
  PROVE  FindBTE(ht, n) = NoBlock
<1>1. ASSUME NEW d \in Slots, FoundAt(ht, n, d) PROVE FALSE
  <2>1. d \in Nat /\ d \in 0 .. d /\ Start[n] \in Slots
    BY TableAssumption DEF Slots
  <2>2. Slot(Start[n], d) \in Slots
    BY <2>1, SlotInTable
  <2>3. ht[Slot(Start[n], d)].block # NoBlock /\ ht[Slot(Start[n], d)].key = Key[n]
    BY <1>1, <2>1 DEF FoundAt
  <2>4. QED
    BY <2>2, <2>3, SlotKey
<1>2. QED
  BY <1>1 DEF FindBTE

\* If a block has the key of a name, one of them is the first.
LEMMA FirstExists ==
  ASSUME TableInv, NEW n \in Names, \E i \in 1 .. Len(names) : Key[names[i]] = Key[n]
  PROVE  \E i \in 1 .. Len(names) : IsFirst(n, i)
<1> DEFINE T == {i \in 1 .. Len(names) : Key[names[i]] = Key[n]}
<1>1. Len(names) \in Nat
  BY DEF TableInv, IndexInv
<1>2. T \in SUBSET Nat /\ T # {}
  OBVIOUS
<1>3. PICK i \in T : \A j \in T : i <= j
  <2> HIDE DEF T
  <2>1. QED
    BY <1>2, Least
<1>4. \A j \in 1 .. i - 1 : j \in 1 .. Len(names) /\ j \notin T
  BY <1>1, <1>3
<1>5. QED
  BY <1>3, <1>4 DEF IsFirst

\* What a lookup returns is decided by the first block of the name alone.
LEMMA LookupFollows == TableInv => LookupIsFirst
<1> SUFFICES ASSUME TableInv, NEW n \in Names
             PROVE  \/ IsFirst(n, FindBTE(ht, n) + 1)
                    \/ /\ FindBTE(ht, n) = NoBlock
                       /\ \A i \in 1 .. Len(names) : Key[names[i]] # Key[n]
  BY DEF LookupIsFirst
<1>1. CASE \E i \in 1 .. Len(names) : Key[names[i]] = Key[n]
  <2>1. PICK i \in 1 .. Len(names) : IsFirst(n, i)
    BY <1>1, FirstExists
  <2>2. FindBTE(ht, n) + 1 = i
    <3>1. FindBTE(ht, n) = i - 1
      BY <2>1, FirstFound
    <3>2. Len(names) \in Nat
      BY DEF TableInv, IndexInv
    <3>3. QED
      BY <3>1, <3>2
  <2>3. QED
    BY <2>1, <2>2
<1>2. CASE \A i \in 1 .. Len(names) : Key[names[i]] # Key[n]
  BY <1>2, NothingElse
<1>3. QED
  BY <1>1, <1>2

-----------------------------------------------------------------------------
\* Every used slot points into the block table, which keeps within the
\* entries it was allocated for.
THEOREM TableTyped == TableSpec => []TableTypeOK
<1>1. TableInv /\ bt \in Seq(Nat) => TableTypeOK
  BY DEF TableInv, TableTypeOK
<1>2. QED
  BY <1>1, TableInvariant, PTL

\* Running out of slots (table.c: "this actually should not happen") is
\* impossible: while the block table has room, the probe of InsertHT ends.
THEOREM SlotsNeverRunOut == TableSpec => []NeverImpossible
<1>1. TableInv => NeverImpossible
  BY ProbeEnds DEF NeverImpossible
<1>2. QED
  BY <1>1, TableInvariant, PTL

\* FindBTE returns the first block inserted under the key of a name, through
\* every cluster and wrap-around, and nothing if there is none.
THEOREM LookupCorrect == TableSpec => []LookupIsFirst
BY TableInvariant, LookupFollows, PTL

\* A later call of InsertHT changes what no name resolves to.
THEOREM LookupNeverChanges == TableSpec => LookupStable
<1>1. (TableInv => \A n \in Names : \A i \in 1 .. Len(names) :
                     IsFirst(n, i) => FindBTE(ht, n) = i - 1)'
  BY FirstFound, PTL
<1>2. TableInv /\ TableInv' /\ [InsertAny]_tableVars =>
        [\A n \in Names : FindBTE(ht, n) # NoBlock => FindBTE(ht', n) = FindBTE(ht, n)]_tableVars
  <2> SUFFICES ASSUME TableInv, TableInv', InsertAny,
                      NEW n \in Names, FindBTE(ht, n) # NoBlock
               PROVE  FindBTE(ht', n) = FindBTE(ht, n)
    BY DEF tableVars
  <2>1. IsFirst(n, FindBTE(ht, n) + 1)
    BY LookupFollows DEF LookupIsFirst
  <2>2. PICK i \in 1 .. Len(names) : FindBTE(ht, n) = i - 1 /\ IsFirst(n, i)
    BY <2>1, FirstFound DEF IsFirst
  <2>3. \E m \in Names : names' = Append(names, m)
    BY DEF InsertAny, Insert
  <2>4. /\ Len(names') = Len(names) + 1 /\ Len(names) \in Nat
        /\ \A j \in 1 .. Len(names) : names'[j] = names[j]
    BY <2>3 DEF TableInv, TableTypeOK
  <2>5. i \in 1 .. Len(names') /\ IsFirst(n, i)'
    BY <2>2, <2>4 DEF IsFirst
  <2>6. FindBTE(ht', n) = i - 1
    BY <1>1, <2>5 DEF FindBTE, FoundAt, Slot
  <2>7. QED
    BY <2>2, <2>6
<1>3. QED
  BY <1>2, TableInvariant, PTL DEF TableSpec, LookupStable

-----------------------------------------------------------------------------
(* The worker threads and main.                                            *)

\* The kinds of the constants.
LEMMA ConstantFacts ==
    /\ NumThreads \in Nat \ {0}
    /\ QueueSize \in Nat
    /\ Main \in Threads
    /\ Threads \subseteq Int
    /\ Elems \subseteq Int
    /\ None \notin Int
    /\ HtSize \in Nat \ {0}
BY RepackAssumption, TableAssumption DEF Main, Threads, Elems

\* What Append does to a sequence.
LEMMA AppendFacts ==
    ASSUME NEW S, NEW s \in Seq(S), NEW e \in S
    PROVE  /\ Append(s, e) \in Seq(S)
           /\ Len(s) \in Nat
           /\ Len(Append(s, e)) = Len(s) + 1
           /\ \A i \in 1 .. Len(s) : Append(s, e)[i] = s[i]
           /\ Append(s, e)[Len(s) + 1] = e
OBVIOUS

\* What a field of the format holds is in its range.
LEMMA ModWord == \A n \in Nat : n % Word \in 0 .. Word - 1
BY RepackAssumption

\* Sums are natural numbers.
LEMMA AddNat == \A m, n \in Nat : m + n \in Nat
OBVIOUS

\* The sizes of the two tables in bytes are natural numbers.
LEMMA TableSizes == EntrySize * HtSize \in Nat /\ \A n \in Nat : EntrySize * n \in Nat
BY ConstantFacts DEF EntrySize

\* The probe stays within the hash table.
LEMMA SlotType == \A s \in Slots, d \in Slots : Slot(s, d) \in Slots
BY TableAssumption DEF Slots, Slot

\* Insert (table.c) keeps the types of the tables.
LEMMA InsertType ==
    ASSUME NEW n \in Names, NEW b \in BlockEntries, TypeOK, Insert(n, b)
    PROVE  TablesOK'
<1>1. Start[n] \in Slots
  BY TableAssumption DEF Slots
<1>2. PICK d \in Slots : ht' = [ht EXCEPT ![Slot(Start[n], d)] = [key |-> Key[n], block |-> Len(bt)]]
  BY DEF Insert, InsertHT
<1>3. bt \in Seq(BlockEntries) /\ names \in Seq(Names) /\ Len(bt) \in Int
  BY DEF TypeOK, TablesOK, FileOK
<1>4. ht' \in HashTables
  BY <1>1, <1>2, <1>3, SlotType DEF TypeOK, TablesOK, HashTables
<1>5. bt' \in Seq(BlockEntries) /\ names' \in Seq(Names)
  BY <1>3, AppendFacts DEF Insert, InsertBT
<1>6. QED
  BY <1>4, <1>5 DEF TablesOK

\* fwrite keeps the types of the file.
LEMMA FwriteType ==
    ASSUME NEW len \in Nat, NEW data \in Data, TypeOK, Fwrite(len, data)
    PROVE  FileOK'
<1>1. [pos |-> fpos, len |-> len, data |-> data] \in Writes
  BY DEF TypeOK, FileOK, Writes
<1>2. QED
  BY <1>1, AppendFacts DEF TypeOK, FileOK, Writes, Fwrite

\* WriteHeader writes five numbers.
LEMMA HeaderType ==
    ASSUME TypeOK
    PROVE  Header \in [htPos : Nat, btPos : Nat, archiveSize : Nat, htSize : Nat, btSize : Nat]
<1>1. Len(bt) \in Nat
  BY LenProperties DEF TypeOK, TablesOK
<1>2. /\ bytesWritten \in Nat
      /\ bytesWritten + EntrySize * HtSize \in Nat
      /\ bytesWritten + EntrySize * HtSize + EntrySize * Len(bt) \in Nat
  BY <1>1, TableSizes, AddNat DEF TypeOK, SharedOK
<1>3. \A n \in Nat : n % Word \in Nat
  BY RepackAssumption
<1>4. QED
  BY <1>1, <1>2, <1>3, ConstantFacts DEF Header

-----------------------------------------------------------------------------
(* Type correctness. *)

\* TypeOK holds when mkmpq begins.
LEMMA TypeInit == Init => TypeOK
<1> SUFFICES ASSUME Init PROVE TypeOK
  OBVIOUS
<1> USE ConstantFacts, RepackAssumption
<1>1. PcOK
  BY DEF Init, PcOK, Labels, MainLabels, WorkerLabels
<1>2. ThreadsOK
  <2>1. NoEntry \in BlockEntries
    BY DEF NoEntry, BlockEntries
  <2>2. \A t \in Threads : LocalsOK(t)
    BY DEF Init, LocalsOK
  <2>3. QED
    BY <2>1, <2>2 DEF Init, ThreadsOK
<1>3. SharedOK
  <2>1. decrypted \subseteq Elems /\ listfile \in Elems \union {None}
    BY DEF Init, Spoilt
  <2>2. QED
    BY <2>1 DEF Init, SharedOK, HeaderSize
<1>4. FileOK
  BY DEF Init, FileOK, Writes, Data, HeaderSize
<1>5. TablesOK
  BY DEF Init, InitTable, TablesOK, Unused, NoBlock, HashTables
<1>6. QED
  BY <1>1, <1>2, <1>3, <1>4, <1>5 DEF TypeOK

\* Moving one thread to a label that is its to take.
LEMMA GotoPc ==
    ASSUME NEW t \in Threads, NEW label \in Labels, label \in MainLabels => t = Main,
           PcOK, Goto(t, label)
    PROVE  PcOK'
BY DEF PcOK, Goto

\* A step of t leaves the locals of the other threads alone.
LEMMA LocalsStep ==
    ASSUME NEW t \in Threads, ThreadsOK, LocalsOK(t)',
           \A u \in Threads \ {t} : /\ pc'[u] = pc[u]
                                     /\ item'[u] = item[u]
                                     /\ content'[u] = content[u]
                                     /\ outsize'[u] = outsize[u]
    PROVE  \A u \in Threads : LocalsOK(u)'
BY DEF ThreadsOK, LocalsOK

\* DecryptBlock changes files of the queue only.
LEMMA DecryptType ==
    ASSUME TypeOK, NEW p \in Elems, Decrypt(p)
    PROVE  decrypted \subseteq decrypted' /\ decrypted' \subseteq Elems
BY DEF TypeOK, SharedOK, Decrypt

\* The data of a file are those of one path.
LEMMA ContentsOf == \A d : d \in Contents <=> \E p \in Elems : d \in DataOf(p)
BY DEF Contents

\* The data extracted for a path are of that path.
LEMMA ContentMade ==
    ASSUME NEW p \in Elems, NEW b \in BOOLEAN
    PROVE  /\ [file |-> p, intact |-> b] \in DataOf(p)
           /\ [file |-> p, intact |-> b] \in Contents
<1>1. [file |-> p, intact |-> b] \in DataOf(p)
  BY DEF DataOf
<1>2. QED
  BY <1>1, ContentsOf

\* Every step of every thread keeps TypeOK.
LEMMA TypeStep == TypeOK /\ [Next]_vars => TypeOK'
<1> SUFFICES ASSUME TypeOK, [Next]_vars PROVE TypeOK'
  OBVIOUS
<1> USE ConstantFacts, RepackAssumption
<1>1. ASSUME CreateThread PROVE TypeOK'
  <2> USE <1>1 DEF CreateThread, TypeOK
  <2>1. PcOK'
    BY DEF PcOK, SharedOK, Labels, WorkerLabels, MainLabels, Main, Threads
  <2>2. ThreadsOK'
    BY DEF ThreadsOK, LocalsOK, At, Goto, PcOK, queueVars, workVars, SharedOK, Main, Threads
  <2>3. SharedOK'
    BY DEF SharedOK, mainVars, queueVars, workVars, countVars, ThreadsOK, LocalsOK, At, Goto, Elems
  <2>4. FileOK'
    BY DEF FileOK, fileVars
  <2>5. TablesOK'
    BY DEF TablesOK, tableVars
  <2>6. QED
    BY <2>1, <2>2, <2>3, <2>4, <2>5
<1>2. ASSUME AllCreated PROVE TypeOK'
  <2> USE <1>2 DEF AllCreated, TypeOK
  <2>1. PcOK'
    BY GotoPc DEF At, Labels, MainLabels, WorkerLabels
  <2>2. ThreadsOK'
    BY DEF ThreadsOK, LocalsOK, At, Goto, PcOK, queueVars, workVars
  <2>3. SharedOK'
    BY DEF SharedOK, mainVars, queueVars, workVars, countVars, ThreadsOK, LocalsOK, At, Goto, Elems
  <2>4. FileOK'
    BY DEF FileOK, fileVars
  <2>5. TablesOK'
    BY DEF TablesOK, tableVars
  <2>6. QED
    BY <2>1, <2>2, <2>3, <2>4, <2>5
<1>3. ASSUME Join PROVE TypeOK'
  <2> USE <1>3 DEF Join, TypeOK
  <2>1. PcOK'
    BY DEF PcOK
  <2>2. ThreadsOK'
    BY DEF ThreadsOK, LocalsOK, At, Goto, PcOK, queueVars, workVars
  <2>3. SharedOK'
    BY DEF SharedOK, mainVars, queueVars, workVars, countVars, ThreadsOK, LocalsOK, At, Goto, Elems, Main, Threads
  <2>4. FileOK'
    BY DEF FileOK, fileVars
  <2>5. TablesOK'
    BY DEF TablesOK, tableVars
  <2>6. QED
    BY <2>1, <2>2, <2>3, <2>4, <2>5
<1>4. ASSUME AllJoined PROVE TypeOK'
  <2> USE <1>4 DEF AllJoined, TypeOK
  <2>1. PcOK'
    BY GotoPc DEF At, Labels, MainLabels, WorkerLabels
  <2>2. ThreadsOK'
    BY DEF ThreadsOK, LocalsOK, At, Goto, PcOK, queueVars, workVars
  <2>3. SharedOK'
    BY DEF SharedOK, mainVars, queueVars, workVars, countVars, ThreadsOK, LocalsOK, At, Goto, Elems
  <2>4. FileOK'
    BY DEF FileOK, fileVars
  <2>5. TablesOK'
    BY DEF TablesOK, tableVars
  <2>6. QED
    BY <2>1, <2>2, <2>3, <2>4, <2>5
<1>5. ASSUME WriteHT PROVE TypeOK'
  <2> USE <1>5 DEF WriteHT, TypeOK
  <2>1. PcOK'
    BY GotoPc DEF At, Labels, MainLabels, WorkerLabels
  <2>2. ThreadsOK'
    BY DEF ThreadsOK, LocalsOK, At, Goto, PcOK, queueVars, workVars
  <2>3. SharedOK'
    BY DEF SharedOK, mainVars, queueVars, workVars, countVars, ThreadsOK, LocalsOK, At, Goto, Elems
  <2>4. FileOK'
    <3>1. [kind |-> "hash table", value |-> ht] \in Data
      BY DEF Data, TablesOK
    <3>2. EntrySize * HtSize \in Nat
      BY TableSizes
    <3>3. [pos |-> fpos, len |-> EntrySize * HtSize, data |-> [kind |-> "hash table", value |-> ht]]
              \in Writes
      BY <3>1, <3>2 DEF Writes, FileOK
    <3>4. fpos + EntrySize * HtSize \in Nat
      BY <3>2, AddNat DEF FileOK
    <3>5. QED
      BY <3>3, <3>4, AppendFacts DEF FileOK, Fwrite
  <2>5. TablesOK'
    BY DEF TablesOK, tableVars
  <2>6. QED
    BY <2>1, <2>2, <2>3, <2>4, <2>5
<1>6. ASSUME WriteBT PROVE TypeOK'
  <2> USE <1>6 DEF WriteBT, TypeOK
  <2>1. PcOK'
    BY GotoPc DEF At, Labels, MainLabels, WorkerLabels
  <2>2. ThreadsOK'
    BY DEF ThreadsOK, LocalsOK, At, Goto, PcOK, queueVars, workVars
  <2>3. SharedOK'
    BY DEF SharedOK, mainVars, queueVars, workVars, countVars, ThreadsOK, LocalsOK, At, Goto, Elems
  <2>4. FileOK'
    <3>1. [kind |-> "block table", value |-> bt] \in Data
      BY DEF Data, TablesOK
    <3>2. EntrySize * Len(bt) \in Nat
      <4>1. Len(bt) \in Nat
        BY LenProperties DEF TablesOK
      <4>2. QED
        BY <4>1, TableSizes
    <3>3. [pos |-> fpos, len |-> EntrySize * Len(bt),
           data |-> [kind |-> "block table", value |-> bt]] \in Writes
      BY <3>1, <3>2 DEF Writes, FileOK
    <3>4. fpos + EntrySize * Len(bt) \in Nat
      BY <3>2, AddNat DEF FileOK
    <3>5. CASE bt = <<>>
      BY <3>5 DEF FileOK, fileVars
    <3>6. CASE bt # <<>>
      <4>1. Fwrite(EntrySize * Len(bt), [kind |-> "block table", value |-> bt])
        BY <3>6
      <4>2. QED
        BY <3>3, <3>4, <4>1, AppendFacts DEF FileOK, Fwrite
    <3>7. QED
      BY <3>5, <3>6
  <2>5. TablesOK'
    BY DEF TablesOK, tableVars
  <2>6. QED
    BY <2>1, <2>2, <2>3, <2>4, <2>5
<1>7. ASSUME WriteHeader PROVE TypeOK'
  <2> USE <1>7 DEF WriteHeader, TypeOK
  <2>1. PcOK'
    BY GotoPc DEF At, Labels, MainLabels, WorkerLabels
  <2>2. ThreadsOK'
    BY DEF ThreadsOK, LocalsOK, At, Goto, PcOK, queueVars, workVars
  <2>3. SharedOK'
    BY DEF SharedOK, mainVars, queueVars, workVars, countVars, ThreadsOK, LocalsOK, At, Goto, Elems
  <2>4. FileOK'
    <3>1. [pos |-> Offset, len |-> HeaderSize, data |-> [kind |-> "header", value |-> Header]]
              \in Writes
      BY HeaderType DEF Writes, Data, HeaderSize
    <3>2. QED
      BY <3>1, AppendFacts DEF FileOK, HeaderSize
  <2>5. TablesOK'
    BY DEF TablesOK, tableVars
  <2>6. QED
    BY <2>1, <2>2, <2>3, <2>4, <2>5
<1>8. ASSUME Close PROVE TypeOK'
  <2> USE <1>8 DEF Close, TypeOK
  <2>1. PcOK'
    BY GotoPc DEF At, Labels, MainLabels, WorkerLabels
  <2>2. ThreadsOK'
    BY DEF ThreadsOK, LocalsOK, At, Goto, PcOK, queueVars, workVars
  <2>3. SharedOK'
    BY DEF SharedOK, mainVars, queueVars, workVars, countVars, ThreadsOK, LocalsOK, At, Goto, Elems
  <2>4. FileOK'
    BY DEF FileOK, fileVars
  <2>5. TablesOK'
    BY DEF TablesOK, tableVars
  <2>6. QED
    BY <2>1, <2>2, <2>3, <2>4, <2>5
<1>9. ASSUME NEW t \in Threads, PopLock(t) PROVE TypeOK'
  <2> USE <1>9 DEF PopLock, TypeOK
  <2>1. PcOK'
    BY GotoPc DEF At, Labels, MainLabels, WorkerLabels
  <2>2. ThreadsOK'
    BY DEF ThreadsOK, LocalsOK, At, Goto, PcOK, queueVars, workVars
  <2>3. SharedOK'
    BY DEF SharedOK, mainVars, queueVars, workVars, countVars, ThreadsOK, LocalsOK, At, Goto, Elems
  <2>4. FileOK'
    BY DEF FileOK, fileVars
  <2>5. TablesOK'
    BY DEF TablesOK, tableVars
  <2>6. QED
    BY <2>1, <2>2, <2>3, <2>4, <2>5
<1>10. ASSUME NEW t \in Threads, PopRead(t) PROVE TypeOK'
  <2> USE <1>10 DEF PopRead, TypeOK
  <2>1. PcOK'
    BY GotoPc DEF At, Labels, MainLabels, WorkerLabels
  <2>2. ThreadsOK'
    <3>1. cur >= QueueSize \/ cur \in Elems
      BY DEF SharedOK, Elems
    <3>2. QED
      BY <3>1 DEF ThreadsOK, LocalsOK, At, Goto, PcOK, workVars
  <2>3. SharedOK'
    BY DEF SharedOK, mainVars, queueVars, workVars, countVars, ThreadsOK, LocalsOK, At, Goto, Elems
  <2>4. FileOK'
    BY DEF FileOK, fileVars
  <2>5. TablesOK'
    BY DEF TablesOK, tableVars
  <2>6. QED
    BY <2>1, <2>2, <2>3, <2>4, <2>5
<1>11. ASSUME NEW t \in Threads, PopAdvance(t) PROVE TypeOK'
  <2> USE <1>11 DEF PopAdvance, TypeOK
  <2>1. PcOK'
    BY GotoPc DEF At, Labels, MainLabels, WorkerLabels
  <2>2. ThreadsOK'
    BY DEF ThreadsOK, LocalsOK, At, Goto, PcOK, queueVars, workVars
  <2>3. SharedOK'
    <3>1. item[t] \in 0 .. QueueSize - 1
      BY DEF ThreadsOK, LocalsOK, At, Elems
    <3>2. cur' \in 0 .. QueueSize
      BY <3>1
    <3>3. QED
      BY <3>2 DEF SharedOK, mainVars, workVars, countVars
  <2>4. FileOK'
    BY DEF FileOK, fileVars
  <2>5. TablesOK'
    BY DEF TablesOK, tableVars
  <2>6. QED
    BY <2>1, <2>2, <2>3, <2>4, <2>5
<1>12. ASSUME NEW t \in Threads, PopUnlock(t) PROVE TypeOK'
  <2> USE <1>12 DEF PopUnlock, TypeOK
  <2>1. PcOK'
    BY GotoPc DEF At, AfterPop, Labels, MainLabels, WorkerLabels
  <2>2. ThreadsOK'
    BY DEF ThreadsOK, LocalsOK, At, Goto, PcOK, queueVars, workVars, AfterPop
  <2>3. SharedOK'
    BY DEF SharedOK, mainVars, queueVars, workVars, countVars, ThreadsOK, LocalsOK, At, Goto, Elems
  <2>4. FileOK'
    BY DEF FileOK, fileVars
  <2>5. TablesOK'
    BY DEF TablesOK, tableVars
  <2>6. QED
    BY <2>1, <2>2, <2>3, <2>4, <2>5
<1>13. ASSUME NEW t \in Threads, Extract(t) PROVE TypeOK'
  <2> USE <1>13 DEF Extract, TypeOK
  <2>1. PcOK'
    BY GotoPc DEF At, Labels, MainLabels, WorkerLabels
  <2>0. item[t] \in Elems
    BY DEF ThreadsOK, LocalsOK, At
  <2>2. ThreadsOK'
    <3>1. [file |-> item[t], intact |-> item[t] \notin decrypted] \in Contents
      BY <2>0, ContentMade
    <3>2. QED
      BY <3>1 DEF ThreadsOK, LocalsOK, At, Goto, PcOK, queueVars, workVars
  <2>3. SharedOK'
    BY <2>0, DecryptType DEF SharedOK, mainVars, queueVars, countVars
  <2>4. FileOK'
    BY DEF FileOK, fileVars
  <2>5. TablesOK'
    BY DEF TablesOK, tableVars
  <2>6. QED
    BY <2>1, <2>2, <2>3, <2>4, <2>5
<1>14. ASSUME NEW t \in Threads, ExtractFails(t) PROVE TypeOK'
  <2> USE <1>14 DEF ExtractFails, TypeOK
  <2>1. PcOK'
    BY GotoPc DEF At, Labels, MainLabels, WorkerLabels
  <2>0. item[t] \in Elems
    BY DEF ThreadsOK, LocalsOK, At
  <2>2. ThreadsOK'
    BY DEF ThreadsOK, LocalsOK, At, Goto, PcOK, queueVars, workVars
  <2>3. SharedOK'
    BY <2>0, DecryptType DEF SharedOK, mainVars, queueVars, countVars
  <2>4. FileOK'
    BY DEF FileOK, fileVars
  <2>5. TablesOK'
    BY DEF TablesOK, tableVars
  <2>6. QED
    BY <2>1, <2>2, <2>3, <2>4, <2>5
<1>15. ASSUME NEW t \in Threads, Pack(t) PROVE TypeOK'
  <2> USE <1>15 DEF Pack, TypeOK
  <2>1. PcOK'
    BY GotoPc DEF At, Labels, MainLabels, WorkerLabels
  <2>2. ThreadsOK'
    <3>1. item[t] \in Elems /\ PackedSizes[item[t]] \subseteq Nat \ {0}
      BY DEF ThreadsOK, LocalsOK, At
    <3>2. PICK size \in Nat \ {0} : outsize' = [outsize EXCEPT ![t] = size]
      BY <3>1
    <3>3. LocalsOK(t)'
      BY <3>1, <3>2 DEF ThreadsOK, LocalsOK, At, Goto, PcOK, queueVars
    <3>4. \A u \in Threads : LocalsOK(u)'
      BY <3>2, <3>3, LocalsStep DEF ThreadsOK, Goto, PcOK, queueVars
    <3>5. QED
      BY <3>2, <3>4 DEF ThreadsOK, queueVars
  <2>3. SharedOK'
    BY DEF SharedOK, mainVars, queueVars, workVars, countVars, ThreadsOK, LocalsOK, At, Goto, Elems
  <2>4. FileOK'
    BY DEF FileOK, fileVars
  <2>5. TablesOK'
    BY DEF TablesOK, tableVars
  <2>6. QED
    BY <2>1, <2>2, <2>3, <2>4, <2>5
<1>16. ASSUME NEW t \in Threads, Lock(t) PROVE TypeOK'
  <2> USE <1>16 DEF Lock, TypeOK
  <2>1. PcOK'
    BY GotoPc DEF At, Labels, MainLabels, WorkerLabels
  <2>2. ThreadsOK'
    BY DEF ThreadsOK, LocalsOK, At, Goto, PcOK, queueVars, workVars
  <2>3. SharedOK'
    BY DEF SharedOK, mainVars, queueVars, workVars, countVars, ThreadsOK, LocalsOK, At, Goto, Elems
  <2>4. FileOK'
    BY DEF FileOK, fileVars
  <2>5. TablesOK'
    BY DEF TablesOK, tableVars
  <2>6. QED
    BY <2>1, <2>2, <2>3, <2>4, <2>5
<1>17. ASSUME NEW t \in Threads, WriteFile(t) PROVE TypeOK'
  <2> USE <1>17 DEF WriteFile, TypeOK
  <2>1. PcOK'
    BY GotoPc DEF At, Labels, MainLabels, WorkerLabels
  <2>2. ThreadsOK'
    <3>1. bytesWritten \in Nat /\ outsize[t] \in Nat /\ NormalSize[item[t]] \in Nat
      <4>1. item[t] \in Elems
        BY DEF ThreadsOK, LocalsOK, At
      <4>2. \A p \in Elems : NormalSize[p] \in Nat
        OBVIOUS
      <4>3. QED
        BY <4>1, <4>2 DEF ThreadsOK, SharedOK
    <3>2. [filePos |-> bytesWritten % Word, compressedSize |-> outsize[t] % Word,
           normalSize |-> NormalSize[item[t]] % Word] \in BlockEntries
      BY <3>1, ModWord DEF BlockEntries
    <3>3. bte' \in [Threads -> BlockEntries]
      BY <3>2 DEF ThreadsOK
    <3>4. QED
      BY <3>3 DEF ThreadsOK, LocalsOK, At, Goto, PcOK, queueVars
  <2>3. SharedOK'
    BY DEF SharedOK, mainVars, queueVars, workVars, countVars, ThreadsOK, LocalsOK, At, Goto, Elems
  <2>4. FileOK'
    BY FwriteType DEF Data, FileData, ThreadsOK, LocalsOK, At
  <2>5. TablesOK'
    BY DEF TablesOK, tableVars
  <2>6. QED
    BY <2>1, <2>2, <2>3, <2>4, <2>5
<1>18. ASSUME NEW t \in Threads, InsertFile(t) PROVE TypeOK'
  <2> USE <1>18 DEF InsertFile, TypeOK
  <2>1. PcOK'
    BY GotoPc DEF At, Labels, MainLabels, WorkerLabels
  <2>2. ThreadsOK'
    BY DEF ThreadsOK, LocalsOK, At, Goto, PcOK, queueVars, workVars
  <2>3. SharedOK'
    BY DEF SharedOK, mainVars, queueVars, workVars, countVars, ThreadsOK, LocalsOK, At, Goto, Elems
  <2>4. FileOK'
    BY DEF FileOK, fileVars
  <2>5. TablesOK'
    BY InsertType DEF ThreadsOK, LocalsOK, At
  <2>6. QED
    BY <2>1, <2>2, <2>3, <2>4, <2>5
<1>19. ASSUME NEW t \in Threads, Account(t) PROVE TypeOK'
  <2> USE <1>19 DEF Account, TypeOK
  <2>1. PcOK'
    BY GotoPc DEF At, Labels, MainLabels, WorkerLabels
  <2>2. ThreadsOK'
    BY DEF ThreadsOK, LocalsOK, At, Goto, PcOK, queueVars, workVars
  <2>3. SharedOK'
    <3>1. outsize[t] \in Nat
      BY DEF ThreadsOK
    <3>2. QED
      BY <3>1 DEF SharedOK, mainVars, queueVars, workVars
  <2>4. FileOK'
    BY DEF FileOK, fileVars
  <2>5. TablesOK'
    BY DEF TablesOK, tableVars
  <2>6. QED
    BY <2>1, <2>2, <2>3, <2>4, <2>5
<1>20. ASSUME NEW t \in Threads, Unlock(t) PROVE TypeOK'
  <2> USE <1>20 DEF Unlock, TypeOK
  <2>1. PcOK'
    BY GotoPc DEF At, Labels, MainLabels, WorkerLabels
  <2>2. ThreadsOK'
    BY DEF ThreadsOK, LocalsOK, At, Goto, PcOK, queueVars, workVars, NoEntry, BlockEntries
  <2>3. SharedOK'
    BY DEF SharedOK, mainVars, queueVars, workVars, countVars, ThreadsOK, LocalsOK, At, Goto, Elems
  <2>4. FileOK'
    BY DEF FileOK, fileVars
  <2>5. TablesOK'
    BY DEF TablesOK, tableVars
  <2>6. QED
    BY <2>1, <2>2, <2>3, <2>4, <2>5
<1>21. ASSUME NEW t \in Threads, Exit(t) PROVE TypeOK'
  <2> USE <1>21 DEF Exit, TypeOK
  <2>1. PcOK'
    BY DEF PcOK
  <2>2. ThreadsOK'
    BY DEF ThreadsOK, LocalsOK, At, Goto, PcOK, queueVars, workVars
  <2>3. SharedOK'
    BY DEF SharedOK, mainVars, queueVars, workVars, countVars, ThreadsOK, LocalsOK, At, Goto, Elems
  <2>4. FileOK'
    BY DEF FileOK, fileVars
  <2>5. TablesOK'
    BY DEF TablesOK, tableVars
  <2>6. QED
    BY <2>1, <2>2, <2>3, <2>4, <2>5
<1>24. ASSUME NEW t \in Threads, Crash(t) PROVE TypeOK'
  <2> USE <1>24 DEF Crash, TypeOK
  <2>1. PcOK'
    BY DEF PcOK
  <2>2. ThreadsOK'
    BY DEF ThreadsOK, LocalsOK, At, Goto, PcOK, queueVars, workVars
  <2>3. SharedOK'
    BY DEF SharedOK, mainVars, queueVars, workVars, countVars, ThreadsOK, LocalsOK, At, Goto, Elems
  <2>4. FileOK'
    BY DEF FileOK, fileVars
  <2>5. TablesOK'
    BY DEF TablesOK, tableVars
  <2>6. QED
    BY <2>1, <2>2, <2>3, <2>4, <2>5
<1>22. CASE UNCHANGED vars
  BY <1>22 DEF vars, TypeOK, PcOK, ThreadsOK, LocalsOK, SharedOK, FileOK, TablesOK
<1>23. QED
  BY <1>1, <1>2, <1>3, <1>4, <1>5, <1>6, <1>7, <1>8, <1>9, <1>10, <1>11, <1>12, <1>13, <1>14, <1>15, <1>16, <1>17, <1>18, <1>19, <1>20, <1>21, <1>22, <1>24 DEF Next, MainStep, WorkerStep

\* Type correctness holds for every number of threads, files and slots: in
\* particular only main's thread ever finishes the file, a thread works only on
\* paths of the queue, and the queue cursor stays within the queue.
THEOREM TypeCorrect == Spec => []TypeOK
<1>1. Init => TypeOK
  BY TypeInit
<1>2. TypeOK /\ [Next]_vars => TypeOK'
  BY TypeStep
<1>3. QED
  BY <1>1, <1>2, PTL DEF Spec

-----------------------------------------------------------------------------
(* Locks, queue, and where each file is.                                   *)

\* A path is never taken for the absence of one, and data are of one path.
LEMMA ElemFacts ==
    /\ None \notin Elems
    /\ \A c, d \in Contents : FileData(c) = FileData(d) => c = d
    /\ \A p \in Elems : \A d \in DataOf(p) : d \in Contents /\ d.file = p
<1>1. None \notin Elems
  BY ConstantFacts
<1>2. \A c, d \in Contents : FileData(c) = FileData(d) => c = d
  BY DEF FileData
<1>3. \A p \in Elems : \A d \in DataOf(p) : d \in Contents /\ d.file = p
  BY ContentsOf DEF DataOf
<1>4. QED
  BY <1>1, <1>2, <1>3

\* A write holds the data of one path.
LEMMA FiledOnce == \A k : \A p, q \in Elems : Filed(k, p) /\ Filed(k, q) => p = q
<1> SUFFICES ASSUME NEW k, NEW p \in Elems, NEW q \in Elems, Filed(k, p), Filed(k, q)
             PROVE  p = q
  OBVIOUS
<1>1. PICK c \in DataOf(p) : disk[k].data = FileData(c)
  BY DEF Filed
<1>2. PICK d \in DataOf(q) : disk[k].data = FileData(d)
  BY DEF Filed
<1>3. c = d
  BY <1>1, <1>2 DEF FileData
<1>4. QED
  BY <1>3, ElemFacts

\* PlaceInv holds when mkmpq begins.
LEMMA InvInit == Init => PlaceInv
<1> SUFFICES ASSUME Init PROVE PlaceInv
  OBVIOUS
<1> USE ConstantFacts
<1>0. StartInv
  BY DEF Init, StartInv, MainLabels, Threads
<1>1. LockInv
  BY DEF Init, LockInv
<1>2. QueueInv
  BY DEF Init, QueueInv
<1>3. ContentInv
  BY DEF Init, ContentInv, Harmed, FileData
<1>4. FiledInv
  <2>1. \A k \in 1 .. Len(disk), p \in Elems : ~ Filed(k, p)
    <3>1. Len(disk) = 1 /\ disk[1].data.kind = "pre"
      BY DEF Init
    <3>2. \A k \in 1 .. Len(disk) : disk[k].data.kind = "pre"
      BY <3>1
    <3>3. ASSUME NEW k \in 1 .. Len(disk), NEW p \in Elems, Filed(k, p) PROVE FALSE
      <4>1. PICK d \in DataOf(p) : disk[k].data = FileData(d)
        BY <3>3 DEF Filed
      <4>2. disk[k].data.kind = "file"
        BY <4>1 DEF FileData
      <4>3. QED
        BY <4>2, <3>2
    <3>4. QED
      BY <3>3
  <2>2. \A t \in Threads, p \in Elems : ~ InHand(t, p)
    BY ElemFacts DEF Init, InHand
  <2>3. QED
    BY <2>1, <2>2 DEF Init, FiledInv
<1>5. QED
  BY <1>0, <1>1, <1>2, <1>3, <1>4 DEF PlaceInv

\* A step that leaves the file alone and moves no file between hands.
LEMMA FiledSame ==
    ASSUME TypeOK, FiledInv, cur' = cur, disk' = disk,
           \A t \in Threads, p \in Elems : InHand(t, p)' <=> InHand(t, p)
    PROVE  FiledInv'
<1>1. \A k, p : Filed(k, p)' <=> Filed(k, p)
  BY DEF Filed
<1>2. 0 .. cur - 1 \subseteq Elems
  BY ConstantFacts DEF TypeOK, SharedOK, Elems
<1>3. QED
  BY <1>1, <1>2 DEF FiledInv

\* A step that appends to the file something that is not the data of a file.
LEMMA FiledAppend ==
    ASSUME TypeOK, FiledInv, cur' = cur,
           NEW w \in Writes, w.data.kind # "file", disk' = Append(disk, w),
           \A t \in Threads, p \in Elems : InHand(t, p)' <=> InHand(t, p)
    PROVE  FiledInv'
<1>1. /\ Len(disk) \in Nat
      /\ Len(disk') = Len(disk) + 1
      /\ \A k \in 1 .. Len(disk) : disk'[k] = disk[k]
      /\ disk'[Len(disk) + 1] = w
  BY AppendFacts DEF TypeOK, FileOK
<1>2. \A k \in 1 .. Len(disk), p \in Elems : Filed(k, p) => Filed(k, p)'
  BY <1>1 DEF Filed
<1>3. \A k \in 1 .. Len(disk'), p \in Elems :
         Filed(k, p)' => k \in 1 .. Len(disk) /\ Filed(k, p)
  BY <1>1 DEF Filed, FileData
<1>4. 1 .. Len(disk) \subseteq 1 .. Len(disk')
  BY <1>1
<1>5. 0 .. cur - 1 \subseteq Elems
  BY ConstantFacts DEF TypeOK, SharedOK, Elems
<1>6. QED
  BY <1>2, <1>3, <1>4, <1>5 DEF FiledInv

\* A step that decrypts nothing, puts no thread before an extraction, and
\* writes no data that were not there.
LEMMA ContentKept ==
    ASSUME TypeOK, ContentInv, UNCHANGED <<listfile, cur, decrypted>>,
           \A t \in Threads : pc'[t] \in {"leave", "extract"} =>
               item'[t] = None \/ (pc[t] \in {"leave", "extract"} /\ item'[t] = item[t]),
           \A t \in Threads : pc'[t] \in {"pack", "lock", "write", "insert", "account", "unlock"} =>
               /\ pc[t] \in {"pack", "lock", "write", "insert", "account", "unlock"}
               /\ item'[t] = item[t] /\ content'[t] = content[t],
           \A k \in 1 .. Len(disk'), d \in Contents : disk'[k].data = FileData(d) => SoundData(d)
    PROVE  ContentInv'
<1>1. (Spoilt' = Spoilt) /\ (Harmed' <=> Harmed) /\ \A d : SoundData(d)' <=> SoundData(d)
  BY DEF Spoilt, Harmed, SoundData
<1>2. None \notin decrypted
  BY ElemFacts DEF TypeOK, SharedOK
<1>3. QED
  BY <1>1, <1>2 DEF ContentInv

\* The same of a step that leaves the file alone, and of one that appends
\* something that is not the data of a file.
LEMMA SoundSame ==
    ASSUME ContentInv, disk' = disk
    PROVE  \A k \in 1 .. Len(disk'), d \in Contents : disk'[k].data = FileData(d) => SoundData(d)
BY DEF ContentInv

LEMMA SoundAppend ==
    ASSUME TypeOK, ContentInv, NEW w \in Writes, w.data.kind # "file", disk' = Append(disk, w)
    PROVE  \A k \in 1 .. Len(disk'), d \in Contents : disk'[k].data = FileData(d) => SoundData(d)
<1>1. /\ Len(disk) \in Nat
      /\ Len(disk') = Len(disk) + 1
      /\ \A k \in 1 .. Len(disk) : disk'[k] = disk[k]
      /\ disk'[Len(disk) + 1] = w
  BY AppendFacts DEF TypeOK, FileOK
<1>2. \A k \in 1 .. Len(disk') : k \in 1 .. Len(disk) \/ k = Len(disk) + 1
  BY <1>1
<1>3. QED
  BY <1>1, <1>2 DEF ContentInv, FileData

\* Decryption before the harm is that of a file's first extraction; and the
\* listfile stays decrypted.
LEMMA ContentDecrypted ==
    ASSUME TypeOK, ContentInv, NEW p \in Elems, p < cur, Decrypt(p), UNCHANGED <<listfile, cur>>,
           p \notin decrypted \/ Harmed
    PROVE  /\ Spoilt' \subseteq decrypted'
           /\ Harmed' \/ decrypted' \subseteq Spoilt' \union (0 .. cur' - 1)
           /\ \A q \in decrypted' : q \in decrypted \/ q = p \/ Harmed'
<1>1. (Spoilt' = Spoilt) /\ (Harmed' <=> Harmed)
  BY DEF Spoilt, Harmed
<1>2. Spoilt \subseteq decrypted'
  BY DEF Decrypt, ContentInv
<1>3. CASE Harmed
  BY <1>1, <1>2, <1>3
<1>4. CASE ~ Harmed
  <2>1. p \notin decrypted /\ decrypted' \subseteq decrypted \union {p}
    BY <1>4 DEF Decrypt
  <2>2. p \in 0 .. cur - 1
    BY DEF Elems, TypeOK, SharedOK
  <2>3. QED
    BY <1>1, <1>2, <1>4, <2>1, <2>2 DEF ContentInv
<1>5. QED
  BY <1>3, <1>4

\* Every step of every thread keeps PlaceInv.
LEMMA InvStep == TypeOK /\ PlaceInv /\ [Next]_vars => PlaceInv'
<1> SUFFICES ASSUME TypeOK, PlaceInv, [Next]_vars PROVE PlaceInv'
  OBVIOUS
<1> USE ConstantFacts, ElemFacts
<1> DEFINE Typed == /\ pc \in [Threads -> Labels]
                    /\ item \in [Threads -> Elems \union {None}]
                    /\ content \in [Threads -> Contents \union {None}]
                    /\ cur \in 0 .. QueueSize
                    /\ decrypted \subseteq Elems
                    /\ disk \in Seq(Writes)
                    /\ Len(disk) \in Nat
<1>0. Typed
  BY LenProperties DEF TypeOK, PcOK, ThreadsOK, SharedOK, FileOK
<1> USE <1>0
<1>1. ASSUME CreateThread PROVE PlaceInv'
  <2> USE <1>1 DEF CreateThread, At, Goto, PlaceInv
  <2>1. StartInv'
    <3>1. /\ started \in Threads \ {Main} /\ started \in Int
          /\ pc[started] = "unborn" /\ pc[Main] = "create"
      BY DEF TypeOK, SharedOK, StartInv, Main, Threads
    <3>2. pc'[Main] = "create" /\ joined' = joined
      BY <3>1
    <3>3. \A u \in Threads \ {Main} : u >= started' => pc'[u] = "unborn"
      BY <3>1 DEF StartInv
    <3>4. \A u \in Threads \ {Main} : u < joined => pc'[u] = "done"
      BY <3>1 DEF StartInv
    <3>5. QED
      BY <3>2, <3>3, <3>4 DEF StartInv, MainLabels
  <2>2. LockInv'
    <3>1. started \in Threads /\ started # Main /\ pc[started] = "unborn"
      BY DEF TypeOK, SharedOK, StartInv, Main, Threads
    <3>2. QED
      BY <3>1 DEF LockInv, queueVars
  <2>3. QueueInv'
    <3>1. started \in Threads /\ started # Main /\ pc[started] = "unborn"
      BY DEF TypeOK, SharedOK, StartInv, Main, Threads
    <3>2. QED
      BY <3>1 DEF QueueInv, queueVars
  <2>4. ContentInv'
    <3>1. started \in Threads /\ started # Main /\ pc[started] = "unborn"
      BY DEF TypeOK, SharedOK, StartInv, Main, Threads
    <3>2. QED
      BY <3>1, ContentKept, SoundSame DEF queueVars, workVars, fileVars
  <2>5. FiledInv'
    <3>1. started \in Threads /\ pc[started] = "unborn"
      BY DEF TypeOK, SharedOK, StartInv, Main, Threads
    <3>2. \A u \in Threads, p \in Elems : InHand(u, p)' <=> InHand(u, p)
      BY <3>1 DEF InHand, queueVars
    <3>3. QED
      BY <3>2, FiledSame DEF FiledInv, fileVars, workVars, queueVars
  <2>6. QED
    BY <2>1, <2>2, <2>3, <2>4, <2>5
<1>2. ASSUME AllCreated PROVE PlaceInv'
  <2> USE <1>2 DEF AllCreated, At, Goto, PlaceInv
  <2>1. StartInv'
    BY DEF StartInv, mainVars
  <2>2. LockInv'
    BY DEF LockInv, queueVars
  <2>3. QueueInv'
    BY DEF QueueInv, queueVars
  <2>4. ContentInv'
    BY ContentKept, SoundSame DEF mainVars, queueVars, workVars, fileVars
  <2>5. FiledInv'
    <3>1. \A u \in Threads, p \in Elems : InHand(u, p)' <=> InHand(u, p)
      BY DEF InHand, queueVars
    <3>2. QED
      BY <3>1, FiledSame DEF FiledInv, fileVars, workVars, queueVars
  <2>6. QED
    BY <2>1, <2>2, <2>3, <2>4, <2>5
<1>3. ASSUME Join PROVE PlaceInv'
  <2> USE <1>3 DEF Join, At, Goto, PlaceInv
  <2>1. StartInv'
    <3>1. joined \in Int /\ pc' = pc /\ started' = started
      BY DEF TypeOK, SharedOK
    <3>2. \A u \in Threads : u < joined' => u < joined \/ u = joined
      BY <3>1
    <3>3. QED
      BY <3>1, <3>2 DEF StartInv, MainLabels
  <2>2. LockInv'
    BY DEF LockInv, queueVars
  <2>3. QueueInv'
    BY DEF QueueInv, queueVars
  <2>4. ContentInv'
    BY ContentKept, SoundSame DEF mainVars, queueVars, workVars, fileVars
  <2>5. FiledInv'
    <3>1. \A u \in Threads, p \in Elems : InHand(u, p)' <=> InHand(u, p)
      BY DEF InHand, queueVars
    <3>2. QED
      BY <3>1, FiledSame DEF FiledInv, fileVars, workVars, queueVars
  <2>6. QED
    BY <2>1, <2>2, <2>3, <2>4, <2>5
<1>4. ASSUME AllJoined PROVE PlaceInv'
  <2> USE <1>4 DEF AllJoined, At, Goto, PlaceInv
  <2>1. StartInv'
    BY DEF StartInv, mainVars
  <2>2. LockInv'
    BY DEF LockInv, queueVars
  <2>3. QueueInv'
    BY DEF QueueInv, queueVars
  <2>4. ContentInv'
    BY ContentKept, SoundSame DEF mainVars, queueVars, workVars, fileVars
  <2>5. FiledInv'
    <3>1. \A u \in Threads, p \in Elems : InHand(u, p)' <=> InHand(u, p)
      BY DEF InHand, queueVars
    <3>2. QED
      BY <3>1, FiledSame DEF FiledInv, fileVars, workVars, queueVars
  <2>6. QED
    BY <2>1, <2>2, <2>3, <2>4, <2>5
<1>5. ASSUME WriteHT PROVE PlaceInv'
  <2> USE <1>5 DEF WriteHT, At, Goto, PlaceInv
  <2>1. StartInv'
    BY DEF StartInv, mainVars
  <2>2. LockInv'
    BY DEF LockInv, queueVars
  <2>3. QueueInv'
    BY DEF QueueInv, queueVars
  <2> DEFINE w == [pos |-> fpos, len |-> EntrySize * HtSize, data |-> [kind |-> "hash table", value |-> ht]]
  <2>0. w \in Writes /\ w.data.kind # "file"
    BY TableSizes DEF TypeOK, FileOK, TablesOK, Writes, Data
  <2>4. ContentInv'
    BY <2>0, ContentKept, SoundAppend DEF Fwrite, mainVars, queueVars, workVars
  <2>5. FiledInv'
    <3>1. \A u \in Threads, p \in Elems : InHand(u, p)' <=> InHand(u, p)
      BY DEF InHand, queueVars
    <3>3. QED
      BY <3>1, <2>0, FiledAppend DEF Fwrite, workVars, queueVars
  <2>6. QED
    BY <2>1, <2>2, <2>3, <2>4, <2>5
<1>6. ASSUME WriteBT PROVE PlaceInv'
  <2> USE <1>6 DEF WriteBT, At, Goto, PlaceInv
  <2>1. StartInv'
    BY DEF StartInv, mainVars
  <2>2. LockInv'
    BY DEF LockInv, queueVars
  <2>3. QueueInv'
    BY DEF QueueInv, queueVars
  <2> DEFINE w == [pos |-> fpos, len |-> EntrySize * Len(bt), data |-> [kind |-> "block table", value |-> bt]]
  <2>0. w \in Writes /\ w.data.kind # "file"
    BY TableSizes, LenProperties DEF TypeOK, FileOK, TablesOK, Writes, Data
  <2>4. ContentInv'
    <3>1. CASE bt = <<>>
      BY <3>1, ContentKept, SoundSame DEF mainVars, queueVars, workVars, fileVars
    <3>2. CASE bt # <<>>
      BY <3>2, <2>0, ContentKept, SoundAppend DEF Fwrite, mainVars, queueVars, workVars
    <3>3. QED
      BY <3>1, <3>2
  <2>5. FiledInv'
    <3>1. \A u \in Threads, p \in Elems : InHand(u, p)' <=> InHand(u, p)
      BY DEF InHand, queueVars
    <3>3. CASE bt = <<>>
      BY <3>1, <3>3, FiledSame DEF FiledInv, fileVars, workVars, queueVars
    <3>4. CASE bt # <<>>
      BY <3>1, <2>0, <3>4, FiledAppend DEF Fwrite, workVars, queueVars
    <3>5. QED
      BY <3>3, <3>4
  <2>6. QED
    BY <2>1, <2>2, <2>3, <2>4, <2>5
<1>7. ASSUME WriteHeader PROVE PlaceInv'
  <2> USE <1>7 DEF WriteHeader, At, Goto, PlaceInv
  <2>1. StartInv'
    BY DEF StartInv, mainVars
  <2>2. LockInv'
    BY DEF LockInv, queueVars
  <2>3. QueueInv'
    BY DEF QueueInv, queueVars
  <2> DEFINE w == [pos |-> Offset, len |-> HeaderSize, data |-> [kind |-> "header", value |-> Header]]
  <2>0. w \in Writes /\ w.data.kind # "file"
    BY HeaderType, RepackAssumption DEF Writes, Data, HeaderSize
  <2>4. ContentInv'
    BY <2>0, ContentKept, SoundAppend DEF Fwrite, mainVars, queueVars, workVars
  <2>5. FiledInv'
    <3>1. \A u \in Threads, p \in Elems : InHand(u, p)' <=> InHand(u, p)
      BY DEF InHand, queueVars
    <3>3. QED
      BY <3>1, <2>0, FiledAppend DEF Fwrite, workVars, queueVars
  <2>6. QED
    BY <2>1, <2>2, <2>3, <2>4, <2>5
<1>8. ASSUME Close PROVE PlaceInv'
  <2> USE <1>8 DEF Close, At, Goto, PlaceInv
  <2>1. StartInv'
    BY DEF StartInv, mainVars
  <2>2. LockInv'
    BY DEF LockInv, queueVars
  <2>3. QueueInv'
    BY DEF QueueInv, queueVars
  <2>4. ContentInv'
    BY ContentKept, SoundSame DEF mainVars, queueVars, workVars, fileVars
  <2>5. FiledInv'
    <3>1. \A u \in Threads, p \in Elems : InHand(u, p)' <=> InHand(u, p)
      BY DEF InHand, queueVars
    <3>2. QED
      BY <3>1, FiledSame DEF FiledInv, fileVars, workVars, queueVars
  <2>6. QED
    BY <2>1, <2>2, <2>3, <2>4, <2>5
<1>9. ASSUME NEW t \in Threads, PopLock(t) PROVE PlaceInv'
  <2> USE <1>9 DEF PopLock, At, Goto, PlaceInv
  <2>1. StartInv'
    BY DEF StartInv, mainVars
  <2>2. LockInv'
    BY DEF LockInv, queueVars
  <2>3. QueueInv'
    BY DEF QueueInv, queueVars
  <2>4. ContentInv'
    BY ContentKept, SoundSame DEF mainVars, queueVars, workVars, fileVars
  <2>5. FiledInv'
    <3>1. \A u \in Threads, p \in Elems : InHand(u, p)' <=> InHand(u, p)
      BY DEF InHand, queueVars
    <3>2. QED
      BY <3>1, FiledSame DEF FiledInv, fileVars, workVars, queueVars
  <2>6. QED
    BY <2>1, <2>2, <2>3, <2>4, <2>5
<1>10. ASSUME NEW t \in Threads, PopRead(t) PROVE PlaceInv'
  <2> USE <1>10 DEF PopRead, At, Goto, PlaceInv
  <2>1. StartInv'
    BY DEF StartInv, mainVars
  <2>2. LockInv'
    BY DEF LockInv, queueVars, QueueInv
  <2>3. QueueInv'
    BY DEF QueueInv, queueVars, LockInv, Elems
  <2>4. ContentInv'
    <3>1. cur >= QueueSize => item'[t] = None
      BY DEF queueVars
    <3>2. QED
      BY <3>1, ContentKept, SoundSame DEF mainVars, queueVars, workVars, fileVars
  <2>5. FiledInv'
    <3>1. item[t] = None
      BY DEF QueueInv
    <3>2. \A u \in Threads, p \in Elems : InHand(u, p)' <=> InHand(u, p)
      BY <3>1 DEF InHand, queueVars
    <3>3. QED
      BY <3>2, FiledSame DEF FiledInv, fileVars, workVars, queueVars
  <2>6. QED
    BY <2>1, <2>2, <2>3, <2>4, <2>5
<1>11. ASSUME NEW t \in Threads, PopAdvance(t) PROVE PlaceInv'
  <2> USE <1>11 DEF PopAdvance, At, Goto, PlaceInv
  <2>1. StartInv'
    BY DEF StartInv, mainVars
  <2>2. LockInv'
    BY DEF LockInv, queueVars
  <2>3. QueueInv'
    <3>1. item[t] = cur /\ cur' = cur + 1 /\ cur \in Nat /\ item' = item
      BY DEF QueueInv, queueVars
    <3>2. \A u \in Threads : pc[u] = "advance" => u = t
      BY DEF LockInv
    <3>3. \A u \in Threads : u # t => pc'[u] = pc[u]
      OBVIOUS
    <3>4. \A u \in Threads : item[u] # None => item[u] <= cur
      BY <3>1 DEF QueueInv, Elems
    <3>5. \A u \in Threads : item[u] # None => item[u] < cur'
      BY <3>1, <3>4 DEF Elems
    <3>6. QED
      BY <3>1, <3>2, <3>3, <3>5 DEF QueueInv
  <2>4. ContentInv'
    <3>1. item[t] = cur /\ cur' = cur + 1 /\ cur \in Nat /\ cur \in Elems /\ item' = item
      BY DEF QueueInv, TypeOK, ThreadsOK, LocalsOK, queueVars
    <3>2. Spoilt' = Spoilt /\ decrypted' = decrypted /\ disk' = disk /\ content' = content
      BY DEF Spoilt, mainVars, workVars, fileVars
    <3>3. Harmed => Harmed'
      <4>1. \A p \in Spoilt : p < cur => p < cur'
        BY <3>1, RepackAssumption DEF Spoilt, Elems
      <4>2. QED
        BY <4>1, <3>2 DEF Harmed
    <3>4. \A d : SoundData(d) => SoundData(d)'
      BY <3>2, <3>3 DEF SoundData
    <3>5. item[t] \notin decrypted \/ Harmed'
      <4>1. CASE cur \in Spoilt
        BY <3>1, <3>2, <4>1 DEF Harmed
      <4>2. CASE cur \notin Spoilt
        BY <3>1, <3>3, <4>2 DEF ContentInv
      <4>3. QED
        BY <4>1, <4>2
    <3>6. Harmed' \/ decrypted' \subseteq Spoilt' \union (0 .. cur' - 1)
      BY <3>1, <3>2, <3>3 DEF ContentInv
    <3>7. \A u \in Threads : pc'[u] \in {"leave", "extract"} => item'[u] \notin decrypted' \/ Harmed'
      BY <3>1, <3>2, <3>3, <3>5 DEF ContentInv
    <3>8. \A u \in Threads : pc'[u] \in {"pack", "lock", "write", "insert", "account", "unlock"} =>
              content'[u] \in DataOf(item'[u]) /\ SoundData(content[u])'
      <4>1. \A u \in Threads : pc'[u] \in {"pack", "lock", "write", "insert", "account", "unlock"} =>
                content[u] \in DataOf(item[u]) /\ SoundData(content[u])
        BY DEF ContentInv
      <4>2. \A u \in Threads : pc'[u] \in {"pack", "lock", "write", "insert", "account", "unlock"} =>
                pc[u] \in {"pack", "lock", "write", "insert", "account", "unlock"}
        OBVIOUS
      <4>3. \A u \in Threads : content'[u] = content[u] /\ item'[u] = item[u]
        BY <3>1, <3>2
      <4>4. QED
        BY <4>1, <4>2, <4>3, <3>4
    <3>9. \A k \in 1 .. Len(disk'), d \in Contents : disk'[k].data = FileData(d) => SoundData(d)'
      BY <3>2, <3>4 DEF ContentInv
    <3>10. QED
      BY <3>2, <3>6, <3>7, <3>8, <3>9 DEF ContentInv
  <2>5. FiledInv'
    <3>1. item[t] = cur /\ cur' = cur + 1 /\ cur \in Nat /\ cur \in Elems
      BY DEF QueueInv, TypeOK, ThreadsOK, LocalsOK
    <3>2. 0 .. cur' - 1 = 0 .. cur - 1 \union {cur}
      BY <3>1
    <3>3. \A k, p : Filed(k, p)' <=> Filed(k, p)
      BY DEF Filed, fileVars
    <3>4. \A k \in 1 .. Len(disk) : ~ Filed(k, cur)
      BY <3>1 DEF FiledInv
    <3>5. /\ \A p \in Elems : p = cur => InHand(t, p)'
          /\ \A u \in Threads, p \in Elems : p # cur => (InHand(u, p)' <=> InHand(u, p))
      BY <3>1 DEF InHand
    <3>6. \A k \in 1 .. Len(disk), p \in Elems : Filed(k, p) => p \in 0 .. cur - 1
      BY <3>1 DEF FiledInv, Elems
    <3>7. disk' = disk
      BY DEF fileVars
    <3>8. \A k \in 1 .. Len(disk'), p \in Elems : Filed(k, p)' => p < cur'
      BY <3>1, <3>3, <3>6, <3>7
    <3>9. \A u \in Threads, k \in 1 .. Len(disk'), p \in Elems : InHand(u, p)' => ~ Filed(k, p)'
      BY <3>3, <3>4, <3>5, <3>7 DEF FiledInv
    <3>10. \A j, k \in 1 .. Len(disk'), p \in Elems : Filed(j, p)' /\ Filed(k, p)' => j = k
      BY <3>3, <3>7 DEF FiledInv
    <3>11. ASSUME NEW p \in 0 .. cur' - 1
           PROVE  \/ \E u \in Threads : InHand(u, p)'
                  \/ \E k \in 1 .. Len(disk') : Filed(k, p)'
      <4>1. CASE p = cur
        BY <4>1, <3>1, <3>5
      <4>2. CASE p # cur
        <5>1. p \in 0 .. cur - 1 /\ p \in Elems
          BY <4>2, <3>1, <3>2 DEF Elems
        <5>2. \/ \E u \in Threads : InHand(u, p)
              \/ \E k \in 1 .. Len(disk) : Filed(k, p)
          BY <5>1 DEF FiledInv
        <5>3. QED
          BY <4>2, <5>1, <5>2, <3>3, <3>5, <3>7
      <4>3. QED
        BY <4>1, <4>2
    <3>12. QED
      BY <3>8, <3>9, <3>10, <3>11 DEF FiledInv
  <2>6. QED
    BY <2>1, <2>2, <2>3, <2>4, <2>5
<1>12. ASSUME NEW t \in Threads, PopUnlock(t) PROVE PlaceInv'
  <2> USE <1>12 DEF PopUnlock, At, Goto, PlaceInv
  <2>1. StartInv'
    BY DEF StartInv, mainVars, AfterPop
  <2>2. LockInv'
    BY DEF LockInv, queueVars, AfterPop
  <2>3. QueueInv'
    BY DEF QueueInv, queueVars, AfterPop
  <2>4. ContentInv'
    BY ContentKept, SoundSame DEF mainVars, queueVars, workVars, fileVars, AfterPop
  <2>5. FiledInv'
    <3>1. \A u \in Threads, p \in Elems : InHand(u, p)' <=> InHand(u, p)
      BY DEF InHand, AfterPop, queueVars
    <3>2. QED
      BY <3>1, FiledSame DEF FiledInv, fileVars, workVars, queueVars
  <2>6. QED
    BY <2>1, <2>2, <2>3, <2>4, <2>5
<1>13. ASSUME NEW t \in Threads, Extract(t) PROVE PlaceInv'
  <2> USE <1>13 DEF Extract, At, Goto, PlaceInv
  <2>1. StartInv'
    BY DEF StartInv, mainVars
  <2>2. LockInv'
    BY DEF LockInv, queueVars
  <2>3. QueueInv'
    BY DEF QueueInv, queueVars
  <2>4. ContentInv'
    <3>1. item[t] \in Elems /\ item[t] < cur /\ item' = item /\ cur' = cur /\ disk' = disk /\ listfile' = listfile
      BY DEF QueueInv, TypeOK, ThreadsOK, LocalsOK, queueVars, fileVars, mainVars
    <3>2. item[t] \notin decrypted \/ Harmed
      BY DEF ContentInv
    <3>3. /\ Spoilt' \subseteq decrypted'
          /\ Harmed' \/ decrypted' \subseteq Spoilt' \union (0 .. cur' - 1)
          /\ \A q \in decrypted' : q \in decrypted \/ q = item[t] \/ Harmed'
      BY <3>1, <3>2, ContentDecrypted
    <3>4. (Spoilt' = Spoilt) /\ (Harmed' <=> Harmed) /\ \A d : SoundData(d)' <=> SoundData(d)
      BY <3>1 DEF Spoilt, Harmed, SoundData
    <3>5. \A u \in Threads : u # t => item[u] # item[t]
      BY DEF QueueInv, TypeOK, ThreadsOK, LocalsOK
    <3>6. \A u \in Threads : pc'[u] \in {"leave", "extract"} => item'[u] \notin decrypted' \/ Harmed'
      BY <3>1, <3>3, <3>4, <3>5 DEF ContentInv
    <3>7. \A u \in Threads : u # t =>
              /\ pc'[u] = pc[u]
              /\ pc[u] \in {"pack", "lock", "write", "insert", "account", "unlock"} =>
                    content'[u] \in DataOf(item[u]) /\ SoundData(content'[u])
      BY DEF ContentInv, workVars
    <3>8. content'[t] \in DataOf(item[t]) /\ SoundData(content'[t])
      <4>1. content'[t] = [file |-> item[t], intact |-> item[t] \notin decrypted]
        OBVIOUS
      <4>2. content'[t].file = item[t] /\ (content'[t].intact <=> item[t] \notin decrypted)
        BY <4>1
      <4>3. QED
        BY <4>1, <4>2, <3>1, <3>2, ContentMade, ZenonT(60) DEF SoundData, ContentInv
    <3>9. \A u \in Threads : pc'[u] \in {"pack", "lock", "write", "insert", "account", "unlock"} =>
              content'[u] \in DataOf(item'[u]) /\ SoundData(content'[u])
      BY <3>1, <3>7, <3>8
    <3>10. \A k \in 1 .. Len(disk'), d \in Contents : disk'[k].data = FileData(d) => SoundData(d)
      BY <3>1, SoundSame
    <3>11. QED
      BY <3>3, <3>4, <3>6, <3>9, <3>10 DEF ContentInv
  <2>5. FiledInv'
    <3>1. \A u \in Threads, p \in Elems : InHand(u, p)' <=> InHand(u, p)
      BY DEF InHand, queueVars
    <3>2. QED
      BY <3>1, FiledSame DEF fileVars, queueVars
  <2>6. QED
    BY <2>1, <2>2, <2>3, <2>4, <2>5
<1>14. ASSUME NEW t \in Threads, ExtractFails(t) PROVE PlaceInv'
  <2> USE <1>14 DEF ExtractFails, At, Goto, PlaceInv
  <2>1. StartInv'
    BY DEF StartInv, mainVars
  <2>2. LockInv'
    BY DEF LockInv, queueVars
  <2>3. QueueInv'
    BY DEF QueueInv, queueVars
  <2>4. ContentInv'
    <3>1. item[t] \in Elems /\ item[t] < cur /\ item' = item /\ cur' = cur /\ disk' = disk /\ listfile' = listfile
      BY DEF QueueInv, TypeOK, ThreadsOK, LocalsOK, queueVars, fileVars, mainVars
    <3>2. item[t] \notin decrypted \/ Harmed
      BY DEF ContentInv
    <3>3. /\ Spoilt' \subseteq decrypted'
          /\ Harmed' \/ decrypted' \subseteq Spoilt' \union (0 .. cur' - 1)
          /\ \A q \in decrypted' : q \in decrypted \/ q = item[t] \/ Harmed'
      BY <3>1, <3>2, ContentDecrypted
    <3>4. (Spoilt' = Spoilt) /\ (Harmed' <=> Harmed) /\ \A d : SoundData(d)' <=> SoundData(d)
      BY <3>1 DEF Spoilt, Harmed, SoundData
    <3>5. \A u \in Threads : u # t => item[u] # item[t]
      BY DEF QueueInv, TypeOK, ThreadsOK, LocalsOK
    <3>6. \A u \in Threads : pc'[u] \in {"leave", "extract"} => item'[u] \notin decrypted' \/ Harmed'
      BY <3>1, <3>3, <3>4, <3>5 DEF ContentInv
    <3>7. \A u \in Threads : u # t =>
              /\ pc'[u] = pc[u]
              /\ pc[u] \in {"pack", "lock", "write", "insert", "account", "unlock"} =>
                    content'[u] \in DataOf(item[u]) /\ SoundData(content'[u])
      BY DEF ContentInv, workVars
    <3>9. \A u \in Threads : pc'[u] \in {"pack", "lock", "write", "insert", "account", "unlock"} =>
              content'[u] \in DataOf(item'[u]) /\ SoundData(content'[u])
      BY <3>1, <3>7
    <3>10. \A k \in 1 .. Len(disk'), d \in Contents : disk'[k].data = FileData(d) => SoundData(d)
      BY <3>1, SoundSame
    <3>11. QED
      BY <3>3, <3>4, <3>6, <3>9, <3>10 DEF ContentInv
  <2>5. FiledInv'
    <3>1. \A u \in Threads, p \in Elems : InHand(u, p)' <=> InHand(u, p)
      BY DEF InHand, queueVars
    <3>2. QED
      BY <3>1, FiledSame DEF fileVars, queueVars
  <2>6. QED
    BY <2>1, <2>2, <2>3, <2>4, <2>5
<1>15. ASSUME NEW t \in Threads, Pack(t) PROVE PlaceInv'
  <2> USE <1>15 DEF Pack, At, Goto, PlaceInv
  <2>1. StartInv'
    BY DEF StartInv, mainVars
  <2>2. LockInv'
    BY DEF LockInv, queueVars
  <2>3. QueueInv'
    BY DEF QueueInv, queueVars
  <2>4. ContentInv'
    BY ContentKept, SoundSame DEF mainVars, queueVars, workVars, fileVars
  <2>5. FiledInv'
    <3>1. \A u \in Threads, p \in Elems : InHand(u, p)' <=> InHand(u, p)
      BY DEF InHand, queueVars
    <3>2. QED
      BY <3>1, FiledSame DEF FiledInv, fileVars, workVars, queueVars
  <2>6. QED
    BY <2>1, <2>2, <2>3, <2>4, <2>5
<1>16. ASSUME NEW t \in Threads, Lock(t) PROVE PlaceInv'
  <2> USE <1>16 DEF Lock, At, Goto, PlaceInv
  <2>1. StartInv'
    BY DEF StartInv, mainVars
  <2>2. LockInv'
    BY DEF LockInv, queueVars
  <2>3. QueueInv'
    BY DEF QueueInv, queueVars
  <2>4. ContentInv'
    BY ContentKept, SoundSame DEF mainVars, queueVars, workVars, fileVars
  <2>5. FiledInv'
    <3>1. \A u \in Threads, p \in Elems : InHand(u, p)' <=> InHand(u, p)
      BY DEF InHand, queueVars
    <3>2. QED
      BY <3>1, FiledSame DEF FiledInv, fileVars, workVars, queueVars
  <2>6. QED
    BY <2>1, <2>2, <2>3, <2>4, <2>5
<1>17. ASSUME NEW t \in Threads, WriteFile(t) PROVE PlaceInv'
  <2> USE <1>17 DEF WriteFile, At, Goto, PlaceInv
  <2>1. StartInv'
    BY DEF StartInv, mainVars
  <2>2. LockInv'
    BY DEF LockInv, queueVars
  <2>3. QueueInv'
    BY DEF QueueInv, queueVars
  <2> DEFINE w == [pos |-> fpos, len |-> outsize[t], data |-> FileData(content[t])]
  <2>7. /\ item[t] \in Elems /\ item[t] < cur
        /\ content[t] \in DataOf(item[t]) /\ content[t] \in Contents /\ content[t].file = item[t]
        /\ SoundData(content[t])
    BY ZenonT(60) DEF TypeOK, ThreadsOK, LocalsOK, ContentInv, QueueInv
  <2>8. w \in Writes
    BY <2>7 DEF TypeOK, ThreadsOK, FileOK, Writes, Data, FileData
  <2>9. /\ Len(disk') = Len(disk) + 1
        /\ \A k \in 1 .. Len(disk) : disk'[k] = disk[k]
        /\ disk'[Len(disk) + 1] = w
    BY <2>8, AppendFacts DEF Fwrite
  <2>4. ContentInv'
    <3>1. \A k \in 1 .. Len(disk') : k \in 1 .. Len(disk) \/ k = Len(disk) + 1
      BY <2>9
    <3>2. \A d \in Contents : w.data = FileData(d) => SoundData(d)
      BY <2>7
    <3>3. \A k \in 1 .. Len(disk'), d \in Contents : disk'[k].data = FileData(d) => SoundData(d)
      BY <3>1, <3>2, <2>9 DEF ContentInv
    <3>4. QED
      BY <3>3, ContentKept DEF mainVars, queueVars
  <2>5. FiledInv'
    <3>1. item[t] \in Elems /\ item[t] < cur
      BY <2>7
    <3>5. \A k \in 1 .. Len(disk), p \in Elems : k \in 1 .. Len(disk') /\ (Filed(k, p) => Filed(k, p)')
      BY <2>9 DEF Filed
    <3>6. \A k \in 1 .. Len(disk'), p \in Elems : Filed(k, p)' =>
             \/ k \in 1 .. Len(disk) /\ Filed(k, p)
             \/ k = Len(disk) + 1 /\ p = item[t]
      <4>1. \A k \in 1 .. Len(disk') : k \in 1 .. Len(disk) \/ k = Len(disk) + 1
        BY <2>9
      <4>2. \A p \in Elems : \A d \in DataOf(p) : w.data = FileData(d) => p = item[t]
        BY <2>7
      <4>3. QED
        BY <4>1, <4>2, <2>9 DEF Filed
    <3>7. \A p \in Elems : p = item[t] => \E k \in 1 .. Len(disk') : Filed(k, p)'
      BY <2>7, <2>9 DEF Filed
    <3>8. \A u \in Threads, p \in Elems : InHand(u, p)' <=> InHand(u, p) /\ u # t
      BY DEF InHand, queueVars
    <3>9. \A u \in Threads : InHand(u, item[t]) => u = t
      BY <3>1 DEF InHand, QueueInv
    <3>10. InHand(t, item[t])
      BY DEF InHand
    <3>11. \A p \in Elems : InHand(t, p) => p = item[t]
      BY DEF InHand
    <3>12. \A k \in 1 .. Len(disk) : ~ Filed(k, item[t])
      BY <3>1, <3>10 DEF FiledInv
    <3>13. cur' = cur
      BY DEF queueVars
    <3> HIDE <1>17 DEF w
    <3>14. \A k \in 1 .. Len(disk'), p \in Elems : Filed(k, p)' => p < cur'
      BY <3>1, <3>6, <3>13 DEF FiledInv
    <3>15. \A u \in Threads, k \in 1 .. Len(disk'), p \in Elems :
              InHand(u, p)' => ~ Filed(k, p)'
      BY <3>6, <3>8, <3>9 DEF FiledInv
    <3>16. \A j, k \in 1 .. Len(disk'), p \in Elems : Filed(j, p)' /\ Filed(k, p)' => j = k
      BY <3>6, <3>12 DEF FiledInv
    <3>17. 0 .. cur - 1 \subseteq Elems
      BY DEF Elems
    <3>18. \A p \in 0 .. cur' - 1 : \/ \E u \in Threads : InHand(u, p)'
                                  \/ \E k \in 1 .. Len(disk') : Filed(k, p)'
      BY <3>5, <3>7, <3>8, <3>11, <3>13, <3>17 DEF FiledInv
    <3>19. QED
      BY <3>13, <3>14, <3>15, <3>16, <3>18 DEF FiledInv
  <2>6. QED
    BY <2>1, <2>2, <2>3, <2>4, <2>5
<1>18. ASSUME NEW t \in Threads, InsertFile(t) PROVE PlaceInv'
  <2> USE <1>18 DEF InsertFile, At, Goto, PlaceInv
  <2>1. StartInv'
    BY DEF StartInv, mainVars
  <2>2. LockInv'
    BY DEF LockInv, queueVars
  <2>3. QueueInv'
    BY DEF QueueInv, queueVars
  <2>4. ContentInv'
    BY ContentKept, SoundSame DEF mainVars, queueVars, workVars, fileVars
  <2>5. FiledInv'
    <3>1. \A u \in Threads, p \in Elems : InHand(u, p)' <=> InHand(u, p)
      BY DEF InHand, queueVars
    <3>2. QED
      BY <3>1, FiledSame DEF FiledInv, fileVars, workVars, queueVars
  <2>6. QED
    BY <2>1, <2>2, <2>3, <2>4, <2>5
<1>19. ASSUME NEW t \in Threads, Account(t) PROVE PlaceInv'
  <2> USE <1>19 DEF Account, At, Goto, PlaceInv
  <2>1. StartInv'
    BY DEF StartInv, mainVars
  <2>2. LockInv'
    BY DEF LockInv, queueVars
  <2>3. QueueInv'
    BY DEF QueueInv, queueVars
  <2>4. ContentInv'
    BY ContentKept, SoundSame DEF mainVars, queueVars, workVars, fileVars
  <2>5. FiledInv'
    <3>1. \A u \in Threads, p \in Elems : InHand(u, p)' <=> InHand(u, p)
      BY DEF InHand, queueVars
    <3>2. QED
      BY <3>1, FiledSame DEF FiledInv, fileVars, workVars, queueVars
  <2>6. QED
    BY <2>1, <2>2, <2>3, <2>4, <2>5
<1>20. ASSUME NEW t \in Threads, Unlock(t) PROVE PlaceInv'
  <2> USE <1>20 DEF Unlock, At, Goto, PlaceInv
  <2>1. StartInv'
    BY DEF StartInv, mainVars
  <2>2. LockInv'
    BY DEF LockInv, queueVars
  <2>3. QueueInv'
    BY DEF QueueInv, queueVars
  <2>4. ContentInv'
    BY ContentKept, SoundSame DEF mainVars, queueVars, workVars, fileVars
  <2>5. FiledInv'
    <3>1. \A u \in Threads, p \in Elems : InHand(u, p)' <=> InHand(u, p)
      BY DEF InHand, queueVars
    <3>2. QED
      BY <3>1, FiledSame DEF FiledInv, fileVars, workVars, queueVars
  <2>6. QED
    BY <2>1, <2>2, <2>3, <2>4, <2>5
<1>21. ASSUME NEW t \in Threads, Exit(t) PROVE PlaceInv'
  <2> USE <1>21 DEF Exit, At, Goto, PlaceInv
  <2>1. StartInv'
    BY DEF StartInv, mainVars
  <2>2. LockInv'
    BY DEF LockInv, queueVars
  <2>3. QueueInv'
    BY DEF QueueInv, queueVars
  <2>4. ContentInv'
    BY ContentKept, SoundSame DEF mainVars, queueVars, workVars, fileVars
  <2>5. FiledInv'
    <3>1. \A u \in Threads, p \in Elems : InHand(u, p)' <=> InHand(u, p)
      BY DEF InHand, queueVars
    <3>2. QED
      BY <3>1, FiledSame DEF FiledInv, fileVars, workVars, queueVars
  <2>6. QED
    BY <2>1, <2>2, <2>3, <2>4, <2>5
<1>24. ASSUME NEW t \in Threads, Crash(t) PROVE PlaceInv'
  <2> USE <1>24 DEF Crash, At, Goto, PlaceInv
  <2>1. StartInv'
    BY DEF StartInv, mainVars
  <2>2. LockInv'
    BY DEF LockInv, queueVars
  <2>3. QueueInv'
    BY DEF QueueInv, queueVars
  <2>4. ContentInv'
    BY ContentKept, SoundSame DEF mainVars, queueVars, workVars, fileVars
  <2>5. FiledInv'
    <3>1. \A u \in Threads, p \in Elems : InHand(u, p)' <=> InHand(u, p)
      BY DEF InHand, queueVars
    <3>2. QED
      BY <3>1, FiledSame DEF FiledInv, fileVars, workVars, queueVars
  <2>6. QED
    BY <2>1, <2>2, <2>3, <2>4, <2>5
<1>22. ASSUME UNCHANGED vars PROVE PlaceInv'
  <2> USE <1>22 DEF vars, PlaceInv
  <2>1. StartInv'
    BY DEF StartInv
  <2>2. LockInv'
    BY DEF LockInv
  <2>3. QueueInv'
    BY DEF QueueInv
  <2>4. ContentInv'
    BY ContentKept, SoundSame
  <2>5. FiledInv'
    BY FiledSame DEF FiledInv, InHand
  <2>6. QED
    BY <2>1, <2>2, <2>3, <2>4, <2>5
<1>23. QED
  BY <1>1, <1>2, <1>3, <1>4, <1>5, <1>6, <1>7, <1>8, <1>9, <1>10, <1>11, <1>12, <1>13, <1>14, <1>15, <1>16, <1>17, <1>18, <1>19, <1>20, <1>21, <1>22, <1>24 DEF Next, MainStep, WorkerStep

\* The inductive invariant gives the property.
LEMMA InvOnePlace == TypeOK /\ PlaceInv => EachInOnePlace
<1> SUFFICES ASSUME TypeOK, PlaceInv, NEW p \in 0 .. cur - 1
             PROVE  /\ (\E t \in Threads : InHand(t, p)) <=>
                          \A k \in 1 .. Len(disk) : ~ Filed(k, p)
                    /\ \A t, u \in Threads : InHand(t, p) /\ InHand(u, p) => t = u
                    /\ \A j, k \in 1 .. Len(disk) : Filed(j, p) /\ Filed(k, p) => j = k
  BY DEF EachInOnePlace
<1>1. p \in Elems
  BY ConstantFacts DEF TypeOK, SharedOK, Elems
<1>2. \A t, u \in Threads : InHand(t, p) /\ InHand(u, p) => t = u
  BY <1>1, ElemFacts DEF PlaceInv, QueueInv, InHand
<1>3. QED
  BY <1>1, <1>2 DEF PlaceInv, FiledInv

\* Whatever the interleaving, no path is packed twice and none is dropped:
\* what pop handed out is with exactly one thread or exactly once in the file.
THEOREM NoFileTwiceOrLost == Spec => []EachInOnePlace
<1>1. Init => TypeOK /\ PlaceInv
  BY TypeInit, InvInit
<1>2. TypeOK /\ PlaceInv /\ [Next]_vars => (TypeOK /\ PlaceInv)'
  BY TypeStep, InvStep
<1>3. TypeOK /\ PlaceInv => EachInOnePlace
  BY InvOnePlace
<1>4. QED
  BY <1>1, <1>2, <1>3, PTL DEF Spec

-----------------------------------------------------------------------------
(* Layout: where the data of each file is, and that it stays there.        *)

\* What fits a field is stored as it is.
LEMMA ModSmall == \A n \in 0 .. Word - 1 : n % Word = n
BY RepackAssumption

\* LayoutInv holds when mkmpq begins.
LEMMA LayoutInit == Init => LayoutInv
<1> SUFFICES ASSUME Init PROVE LayoutInv
  OBVIOUS
<1> USE ConstantFacts, RepackAssumption DEF HeaderSize
<1>1. disk = <<[pos |-> 0, len |-> Offset, data |-> [kind |-> "pre", value |-> 0]]>>
  BY DEF Init
<1>2. Len(disk) = 1 /\ \A k \in 1 .. Len(disk) :
         k = 1 /\ disk[k].data.kind = "pre" /\ disk[k].pos = 0 /\ disk[k].len = Offset
  BY <1>1
<1>3. pc[Main] = "create" /\ Writing = {} /\ fpos = Offset + 32 /\ bytesWritten = 32
  BY DEF Init, Writing
<1>4. DiskInv
  BY <1>2, <1>3 DEF DiskInv
<1>5. bt = <<>> /\ names = <<>> /\ Len(bt) = 0 /\ Len(names) = 0
  BY DEF Init, InitTable
<1>6. EntryInv
  BY <1>2, <1>5 DEF EntryInv
<1>7. PhaseInv
  BY <1>2, <1>3, <1>5 DEF PhaseInv, Writing
<1>8. QED
  BY <1>4, <1>6, <1>7 DEF LayoutInv

\* Steps that leave the file alone.
LEMMA DiskSame ==
    ASSUME DiskInv, UNCHANGED <<disk, fpos>>,
           pc'[Main] \in {"close", "done"} <=> pc[Main] \in {"close", "done"}
    PROVE  DiskInv'
BY DEF DiskInv

\* Writes to the data region: they go to the end of it.
LEMMA DiskAppend ==
    ASSUME TypeOK, DiskInv,
           pc[Main] \notin {"close", "done"}, pc'[Main] \notin {"close", "done"},
           NEW w \in Writes, w.data.kind # "header", w.pos = fpos,
           disk' = Append(disk, w), fpos' = w.pos + w.len
    PROVE  DiskInv'
<1>1. /\ Len(disk) \in Nat
      /\ Len(disk') = Len(disk) + 1
      /\ \A k \in 1 .. Len(disk) : disk'[k] = disk[k]
      /\ disk'[Len(disk) + 1] = w
  BY AppendFacts DEF TypeOK, FileOK
<1>2. \A k \in 1 .. Len(disk) : disk[k].pos \in Nat /\ disk[k].len \in Nat
  <2>1. \A k \in 1 .. Len(disk) : disk[k] \in Writes
    BY ElementOfSeq DEF TypeOK, FileOK
  <2>2. QED
    BY <2>1 DEF Writes
<1>3. w.pos \in Nat /\ w.len \in Nat /\ Offset + HeaderSize \in Nat
  BY RepackAssumption DEF Writes, HeaderSize
<1>4. \A k \in 1 .. Len(disk') :
         \/ k \in 1 .. Len(disk) /\ disk'[k] = disk[k]
         \/ k = Len(disk) + 1 /\ disk'[k] = w
  BY <1>1
<1>5. \A k \in 1 .. Len(disk) : disk[k].data.kind # "header"
  BY DEF DiskInv
<1>6. \A k \in 1 .. Len(disk') : disk'[k].data.kind # "header"
  BY <1>4, <1>5
<1>7. \A k \in 1 .. Len(disk') : disk'[k].pos + disk'[k].len <= fpos'
  BY <1>2, <1>3, <1>4 DEF DiskInv
<1>8. fpos' >= Offset + HeaderSize
  BY <1>3 DEF DiskInv
<1>9. \A k \in 2 .. Len(disk') : disk'[k].pos >= Offset + HeaderSize
  BY <1>4, <1>5, <1>3, <1>1 DEF DiskInv
<1>10. \A j, k \in 1 .. Len(disk') : j < k => disk'[j].pos + disk'[j].len <= disk'[k].pos
  BY <1>1, <1>4, <1>5 DEF DiskInv
<1>11. Len(disk') > 0
  BY <1>1
<1>12. QED
  BY <1>6, <1>7, <1>8, <1>9, <1>10, <1>11 DEF DiskInv

\* Writes at the end of the file leave the block entries true.
LEMMA EntryGrown ==
    ASSUME TypeOK, EntryInv, UNCHANGED <<bt, names>>,
           Len(disk') \in Nat, Len(disk') >= Len(disk),
           \A k \in 1 .. Len(disk) : disk'[k] = disk[k]
    PROVE  EntryInv'
<1>1. Len(disk) \in Nat /\ Len(bt) \in Nat
  BY LenProperties DEF TypeOK, FileOK, TablesOK
<1>2. \A i \in 1 .. Len(bt) : disk'[i + 1] = disk[i + 1]
  <2>1. Len(disk) > Len(bt)
    BY DEF EntryInv
  <2>2. \A i \in 1 .. Len(bt) : i + 1 \in 1 .. Len(disk)
    BY <1>1, <2>1
  <2>3. QED
    BY <2>2
<1>3. \A i \in 1 .. Len(bt) : \E p \in Elems :
          /\ Filed(i + 1, p)
          /\ names[i] = NameOf[p]
          /\ bt[i].filePos = (disk[i + 1].pos - Offset) % Word
          /\ bt[i].compressedSize = disk[i + 1].len % Word
          /\ bt[i].normalSize = NormalSize[p]
  BY DEF EntryInv
<1>4. \A i \in 1 .. Len(bt) : \E p \in Elems :
          /\ Filed(i + 1, p)'
          /\ names[i] = NameOf[p]
          /\ bt[i].filePos = (disk'[i + 1].pos - Offset) % Word
          /\ bt[i].compressedSize = disk'[i + 1].len % Word
          /\ bt[i].normalSize = NormalSize[p]
  BY <1>2, <1>3 DEF Filed
<1>5. Len(names) = Len(bt) /\ Len(disk') > Len(bt)
  BY <1>1 DEF EntryInv
<1>6. QED
  BY <1>4, <1>5 DEF EntryInv

\* So do steps that leave the file and the tables alone.
LEMMA EntrySame ==
    ASSUME EntryInv, UNCHANGED <<disk, bt, names>>
    PROVE  EntryInv'
BY DEF EntryInv, Filed

\* One more write leaves the earlier ones where they are.
LEMMA DiskGrown ==
    ASSUME TypeOK, NEW w \in Writes, disk' = Append(disk, w)
    PROVE  /\ Len(disk) \in Nat /\ Len(disk') \in Nat
           /\ Len(disk') = Len(disk) + 1
           /\ Len(disk') >= Len(disk)
           /\ \A k \in 1 .. Len(disk) : disk'[k] = disk[k]
           /\ disk'[Len(disk')] = w
BY AppendFacts DEF TypeOK, FileOK

\* The threads that mkmpq creates come before its own.
LEMMA OtherThreads == \A t \in Threads : t # Main => t < NumThreads - 1
<1> TAKE t \in Threads
<1>1. NumThreads \in Nat \ {0}
  BY RepackAssumption
<1>2. QED
  BY <1>1 DEF Threads, Main

\* Once main has joined them, the other threads are done.
LEMMA AllDone ==
    ASSUME TypeOK, PlaceInv, pc[Main] \in {"hash table", "block table", "header", "close", "done"}
    PROVE  /\ \A t \in Threads : t # Main => pc[t] = "done"
           /\ Writing = {}
<1>1. \A t \in Threads : t # Main => t < NumThreads - 1
  BY OtherThreads
<1>2. joined = NumThreads - 1
  BY DEF PlaceInv, StartInv
<1>3. \A t \in Threads : t # Main => pc[t] = "done"
  BY <1>1, <1>2 DEF PlaceInv, StartInv
<1>4. QED
  BY <1>3 DEF Writing

\* Steps outside the critical section, or into and out of it.
LEMMA PhaseSame ==
    ASSUME PhaseInv, UNCHANGED <<disk, fpos, bt, bytesWritten>>,
           \A t \in Threads :
              /\ pc'[t] \in {"insert", "account"} <=> pc[t] \in {"insert", "account"}
              /\ pc[t] \in {"insert", "account"} =>
                    /\ pc'[t] = pc[t]
                    /\ outsize'[t] = outsize[t]
                    /\ item'[t] = item[t]
                    /\ content'[t] = content[t]
                    /\ bte'[t] = bte[t],
           pc'[Main] \in {"block table", "header", "close", "done"} <=>
               pc[Main] \in {"block table", "header", "close", "done"}
    PROVE  PhaseInv'
<1>1. Writing' = Writing
  BY DEF Writing
<1>2. QED
  BY <1>1 DEF PhaseInv

\* Every step of every thread keeps LayoutInv.
LEMMA LayoutStep == TypeOK /\ PlaceInv /\ LayoutInv /\ [Next]_vars => LayoutInv'
<1> SUFFICES ASSUME TypeOK, PlaceInv, LayoutInv, [Next]_vars PROVE LayoutInv'
  OBVIOUS
<1> USE ConstantFacts
<1> DEFINE Typed == /\ pc \in [Threads -> Labels]
                    /\ item \in [Threads -> Elems \union {None}]
                    /\ content \in [Threads -> Contents \union {None}]
                    /\ outsize \in [Threads -> Nat]
                    /\ bte \in [Threads -> BlockEntries]
                    /\ Len(disk) \in Nat
                    /\ Len(bt) \in Nat
<1>0. Typed
  BY LenProperties DEF TypeOK, PcOK, ThreadsOK, FileOK, TablesOK
<1> USE <1>0
<1>1. ASSUME CreateThread PROVE LayoutInv'
  <2> USE <1>1 DEF CreateThread, At, Goto, LayoutInv
  <2>0. started \in Threads /\ started # Main /\ pc[started] = "unborn"
    BY DEF TypeOK, SharedOK, PlaceInv, StartInv, Main, Threads
  <2> USE <2>0
  <2>1. DiskInv'
    BY DiskSame DEF fileVars
  <2>2. EntryInv'
    BY EntrySame DEF fileVars, tableVars
  <2>3. PhaseInv'
    BY PhaseSame DEF fileVars, tableVars, countVars, workVars, queueVars
  <2>4. QED
    BY <2>1, <2>2, <2>3
<1>2. ASSUME AllCreated PROVE LayoutInv'
  <2> USE <1>2 DEF AllCreated, At, Goto, LayoutInv
  <2>1. DiskInv'
    BY DiskSame DEF fileVars
  <2>2. EntryInv'
    BY EntrySame DEF fileVars, tableVars
  <2>3. PhaseInv'
    BY PhaseSame DEF fileVars, tableVars, countVars, workVars, queueVars
  <2>4. QED
    BY <2>1, <2>2, <2>3
<1>3. ASSUME Join PROVE LayoutInv'
  <2> USE <1>3 DEF Join, At, Goto, LayoutInv
  <2>1. DiskInv'
    BY DiskSame DEF fileVars
  <2>2. EntryInv'
    BY EntrySame DEF fileVars, tableVars
  <2>3. PhaseInv'
    BY PhaseSame DEF fileVars, tableVars, countVars, workVars, queueVars
  <2>4. QED
    BY <2>1, <2>2, <2>3
<1>4. ASSUME AllJoined PROVE LayoutInv'
  <2> USE <1>4 DEF AllJoined, At, Goto, LayoutInv
  <2>1. DiskInv'
    BY DiskSame DEF fileVars
  <2>2. EntryInv'
    BY EntrySame DEF fileVars, tableVars
  <2>3. PhaseInv'
    BY PhaseSame DEF fileVars, tableVars, countVars, workVars, queueVars
  <2>4. QED
    BY <2>1, <2>2, <2>3
<1>5. ASSUME WriteHT PROVE LayoutInv'
  <2> USE <1>5 DEF WriteHT, At, Goto, LayoutInv
  <2>0. Writing = {} /\ Writing' = {}
    <3>1. \A t \in Threads : t # Main => pc[t] = "done"
      BY AllDone
    <3>2. QED
      BY <3>1 DEF Writing
  <2> DEFINE w == [pos |-> fpos, len |-> EntrySize * HtSize,
                data |-> [kind |-> "hash table", value |-> ht]]
  <2>a. w \in Writes
    BY TableSizes DEF TypeOK, FileOK, TablesOK, Writes, Data
  <2>b. disk' = Append(disk, w)
    BY DEF Fwrite
  <2> HIDE DEF w
  <2>c. /\ Len(disk') \in Nat /\ Len(disk') = Len(disk) + 1 /\ Len(disk') >= Len(disk)
        /\ \A k \in 1 .. Len(disk) : disk'[k] = disk[k]
        /\ disk'[Len(disk')] = w
    BY <2>a, <2>b, DiskGrown
  <2> USE DEF w
  <2>1. DiskInv'
    BY <2>a, <2>b, DiskAppend DEF Fwrite
  <2>2. EntryInv'
    <3>2. UNCHANGED <<bt, names>>
      BY DEF tableVars
    <3>3. QED
      BY <2>c, <3>2, EntryGrown
  <2>3. PhaseInv'
    BY <2>0 DEF PhaseInv, Writing
  <2>4. QED
    BY <2>1, <2>2, <2>3
<1>6. ASSUME WriteBT PROVE LayoutInv'
  <2> USE <1>6 DEF WriteBT, At, Goto, LayoutInv
  <2>0. Writing = {} /\ Writing' = {}
    <3>1. \A t \in Threads : t # Main => pc[t] = "done"
      BY AllDone
    <3>2. QED
      BY <3>1 DEF Writing
  <2> DEFINE w == [pos |-> fpos, len |-> EntrySize * Len(bt),
                data |-> [kind |-> "block table", value |-> bt]]
  <2>a. w \in Writes
    BY TableSizes DEF TypeOK, FileOK, TablesOK, Writes, Data
  <2>b. bt # <<>> => disk' = Append(disk, w)
    BY DEF Fwrite
  <2> HIDE DEF w
  <2>c. bt # <<>> =>
        /\ Len(disk') \in Nat /\ Len(disk') = Len(disk) + 1 /\ Len(disk') >= Len(disk)
        /\ \A k \in 1 .. Len(disk) : disk'[k] = disk[k]
        /\ disk'[Len(disk')] = w
    BY <2>a, <2>b, DiskGrown
  <2> USE DEF w
  <2>1. DiskInv'
    <3>1. CASE bt = <<>>
      BY <3>1, DiskSame DEF fileVars
    <3>2. CASE bt # <<>>
      BY <3>2, <2>a, <2>b, DiskAppend DEF Fwrite
    <3>3. QED
      BY <3>1, <3>2
  <2>2. EntryInv'
    <3>1. CASE bt = <<>>
      BY <3>1, EntrySame DEF fileVars, tableVars
    <3>2. CASE bt # <<>>
      <4>2. UNCHANGED <<bt, names>>
        BY DEF tableVars
      <4>3. QED
        BY <2>c, <3>2, <4>2, EntryGrown
    <3>3. QED
      BY <3>1, <3>2
  <2>3. PhaseInv'
    BY <2>0 DEF PhaseInv, Writing
  <2>4. QED
    BY <2>1, <2>2, <2>3
<1>7. ASSUME WriteHeader PROVE LayoutInv'
  <2> USE <1>7 DEF WriteHeader, At, Goto, LayoutInv
  <2>0. Writing = {} /\ Writing' = {}
    <3>1. \A t \in Threads : t # Main => pc[t] = "done"
      BY AllDone
    <3>2. QED
      BY <3>1 DEF Writing
  <2> DEFINE w == [pos |-> Offset, len |-> HeaderSize,
                data |-> [kind |-> "header", value |-> Header]]
  <2>a. w \in Writes
    BY HeaderType, RepackAssumption DEF Writes, Data, HeaderSize
  <2>b. disk' = Append(disk, w)
    BY DEF Fwrite
  <2> HIDE DEF w
  <2>c. /\ Len(disk') \in Nat /\ Len(disk') = Len(disk) + 1 /\ Len(disk') >= Len(disk)
        /\ \A k \in 1 .. Len(disk) : disk'[k] = disk[k]
        /\ disk'[Len(disk')] = w
    BY <2>a, <2>b, DiskGrown
  <2> USE DEF w
  <2>1. DiskInv'
    <3>1. \A k \in 1 .. Len(disk') :
             \/ k \in 1 .. Len(disk) /\ k # Len(disk') /\ disk'[k] = disk[k]
             \/ k = Len(disk') /\ disk'[k] = w
      BY <2>c
    <3>2. \A k \in 1 .. Len(disk) : disk[k].data.kind # "header"
      BY DEF DiskInv
    <3>3. /\ w.data.kind = "header" /\ w.pos = Offset /\ w.len = HeaderSize
          /\ pc'[Main] = "close" /\ fpos' = Offset + HeaderSize /\ Offset + HeaderSize \in Nat
      BY RepackAssumption DEF HeaderSize
    <3> HIDE DEF w
    <3>4. \A k \in 1 .. Len(disk') : disk'[k].data.kind = "header" => k = Len(disk') /\ disk'[k] = w
      BY <3>1, <3>2
    <3>5. \A j, k \in 1 .. Len(disk') : j < k /\ disk'[k].data.kind # "header" =>
             disk'[j] = disk[j] /\ disk'[k] = disk[k] /\ j \in 1 .. Len(disk) /\ k \in 1 .. Len(disk)
      BY <3>1, <3>3, <2>c
    <3>6. \A k \in 2 .. Len(disk') : disk'[k].data.kind # "header" =>
             disk'[k] = disk[k] /\ k \in 2 .. Len(disk)
      BY <3>1, <3>3, <2>c
    <3>7. QED
      BY <3>3, <3>4, <3>5, <3>6, <2>c DEF DiskInv
  <2>2. EntryInv'
    BY <2>c, EntryGrown DEF tableVars
  <2>3. PhaseInv'
    BY <2>0 DEF PhaseInv, Writing
  <2>4. QED
    BY <2>1, <2>2, <2>3
<1>8. ASSUME Close PROVE LayoutInv'
  <2> USE <1>8 DEF Close, At, Goto, LayoutInv
  <2>1. DiskInv'
    BY DiskSame DEF fileVars
  <2>2. EntryInv'
    BY EntrySame DEF fileVars, tableVars
  <2>3. PhaseInv'
    BY PhaseSame DEF fileVars, tableVars, countVars, workVars, queueVars
  <2>4. QED
    BY <2>1, <2>2, <2>3
<1>9. ASSUME NEW t \in Threads, PopLock(t) PROVE LayoutInv'
  <2> USE <1>9 DEF PopLock, At, Goto, LayoutInv
  <2>1. DiskInv'
    BY DiskSame DEF fileVars
  <2>2. EntryInv'
    BY EntrySame DEF fileVars, tableVars
  <2>3. PhaseInv'
    BY PhaseSame DEF fileVars, tableVars, countVars, workVars, queueVars
  <2>4. QED
    BY <2>1, <2>2, <2>3
<1>10. ASSUME NEW t \in Threads, PopRead(t) PROVE LayoutInv'
  <2> USE <1>10 DEF PopRead, At, Goto, LayoutInv
  <2>1. DiskInv'
    BY DiskSame DEF fileVars
  <2>2. EntryInv'
    BY EntrySame DEF fileVars, tableVars
  <2>3. PhaseInv'
    BY PhaseSame DEF fileVars, tableVars, countVars, workVars, queueVars
  <2>4. QED
    BY <2>1, <2>2, <2>3
<1>11. ASSUME NEW t \in Threads, PopAdvance(t) PROVE LayoutInv'
  <2> USE <1>11 DEF PopAdvance, At, Goto, LayoutInv
  <2>1. DiskInv'
    BY DiskSame DEF fileVars
  <2>2. EntryInv'
    BY EntrySame DEF fileVars, tableVars
  <2>3. PhaseInv'
    BY PhaseSame DEF fileVars, tableVars, countVars, workVars, queueVars
  <2>4. QED
    BY <2>1, <2>2, <2>3
<1>12. ASSUME NEW t \in Threads, PopUnlock(t) PROVE LayoutInv'
  <2> USE <1>12 DEF PopUnlock, At, Goto, LayoutInv
  <2>1. DiskInv'
    BY DiskSame DEF fileVars, AfterPop
  <2>2. EntryInv'
    BY EntrySame DEF fileVars, tableVars
  <2>3. PhaseInv'
    BY PhaseSame DEF fileVars, tableVars, countVars, workVars, queueVars, AfterPop
  <2>4. QED
    BY <2>1, <2>2, <2>3
<1>13. ASSUME NEW t \in Threads, Extract(t) PROVE LayoutInv'
  <2> USE <1>13 DEF Extract, At, Goto, LayoutInv
  <2>1. DiskInv'
    BY DiskSame DEF fileVars
  <2>2. EntryInv'
    BY EntrySame DEF fileVars, tableVars
  <2>3. PhaseInv'
    BY PhaseSame DEF fileVars, tableVars, countVars, workVars, queueVars
  <2>4. QED
    BY <2>1, <2>2, <2>3
<1>14. ASSUME NEW t \in Threads, ExtractFails(t) PROVE LayoutInv'
  <2> USE <1>14 DEF ExtractFails, At, Goto, LayoutInv
  <2>1. DiskInv'
    BY DiskSame DEF fileVars
  <2>2. EntryInv'
    BY EntrySame DEF fileVars, tableVars
  <2>3. PhaseInv'
    BY PhaseSame DEF fileVars, tableVars, countVars, workVars, queueVars
  <2>4. QED
    BY <2>1, <2>2, <2>3
<1>15. ASSUME NEW t \in Threads, Pack(t) PROVE LayoutInv'
  <2> USE <1>15 DEF Pack, At, Goto, LayoutInv
  <2>1. DiskInv'
    BY DiskSame DEF fileVars
  <2>2. EntryInv'
    BY EntrySame DEF fileVars, tableVars
  <2>3. PhaseInv'
    BY PhaseSame DEF fileVars, tableVars, countVars, workVars, queueVars
  <2>4. QED
    BY <2>1, <2>2, <2>3
<1>16. ASSUME NEW t \in Threads, Lock(t) PROVE LayoutInv'
  <2> USE <1>16 DEF Lock, At, Goto, LayoutInv
  <2>1. DiskInv'
    BY DiskSame DEF fileVars
  <2>2. EntryInv'
    BY EntrySame DEF fileVars, tableVars
  <2>3. PhaseInv'
    BY PhaseSame DEF fileVars, tableVars, countVars, workVars, queueVars
  <2>4. QED
    BY <2>1, <2>2, <2>3
<1>17. ASSUME NEW t \in Threads, WriteFile(t) PROVE LayoutInv'
  <2> USE <1>17 DEF WriteFile, At, Goto, LayoutInv
  <2>0. lock = t /\ \A u \in Threads : u # t => pc[u] \notin {"write", "insert", "account"}
    BY DEF PlaceInv, LockInv
  <2>m. /\ pc[Main] \notin {"block table", "header", "close", "done"}
        /\ pc'[Main] \notin {"block table", "header", "close", "done"}
    <3>1. pc[Main] \notin {"block table", "header", "close", "done"}
      BY AllDone
    <3>2. QED
      BY <3>1
  <2> DEFINE w == [pos |-> fpos, len |-> outsize[t], data |-> FileData(content[t])]
  <2>a. w \in Writes
    <3>1. content[t] \in Contents
      BY DEF TypeOK, ThreadsOK, LocalsOK
    <3>2. QED
      BY <3>1 DEF TypeOK, FileOK, Writes, Data, FileData
  <2>b. disk' = Append(disk, w)
    BY DEF Fwrite
  <2> HIDE DEF w
  <2>c. /\ Len(disk') \in Nat /\ Len(disk') = Len(disk) + 1 /\ Len(disk') >= Len(disk)
        /\ \A k \in 1 .. Len(disk) : disk'[k] = disk[k]
        /\ disk'[Len(disk')] = w
    BY <2>a, <2>b, DiskGrown
  <2> USE DEF w
  <2>1. DiskInv'
    BY <2>a, <2>b, <2>m, DiskAppend DEF Fwrite, FileData
  <2>2. EntryInv'
    BY <2>c, EntryGrown DEF tableVars
  <2>3. PhaseInv'
    <3>1. Writing = {}
      BY <2>0 DEF Writing
    <3>2. Len(disk) = Len(bt) + 1 /\ fpos = Offset + bytesWritten
      BY <3>1, <2>m DEF PhaseInv
    <3>3. NormalSize[item[t]] % Word = NormalSize[item[t]]
      BY ModSmall, RepackAssumption, ZenonT(40) DEF TypeOK, ThreadsOK, LocalsOK
    <3>4. disk'[Len(disk')] = [pos |-> Offset + bytesWritten, len |-> outsize[t],
                               data |-> FileData(content[t])]
      BY <2>c, <3>2
    <3>5. \A u \in Threads : u # t => pc'[u] \notin {"insert", "account"}
      BY <2>0
    <3>6. /\ pc'[t] = "insert" /\ bt' = bt /\ bytesWritten' = bytesWritten
          /\ outsize' = outsize /\ item' = item /\ content' = content
          /\ bte'[t] = [filePos |-> bytesWritten % Word, compressedSize |-> outsize[t] % Word,
                        normalSize |-> NormalSize[item[t]]]
          /\ fpos' = Offset + bytesWritten + outsize[t]
      BY <3>2, <3>3 DEF tableVars, countVars, queueVars, Fwrite
    <3>7. \A u \in Threads : (pc'[u] = "insert" => u = t) /\ pc'[u] # "account"
      BY <3>5, <3>6
    <3>8. t \in Writing' /\ Len(disk') = Len(bt') + 2
      BY <2>c, <3>2, <3>6 DEF Writing
    <3>9. \A u \in Threads : pc'[u] = "insert" =>
             /\ Len(disk') = Len(bt') + 2
             /\ disk'[Len(disk')] = [pos |-> Offset + bytesWritten', len |-> outsize'[u],
                                     data |-> FileData(content'[u])]
             /\ bte'[u] = [filePos |-> bytesWritten' % Word, compressedSize |-> outsize'[u] % Word,
                           normalSize |-> NormalSize[item'[u]]]
             /\ fpos' = Offset + bytesWritten' + outsize'[u]
      BY <3>4, <3>6, <3>7, <3>8
    <3>10. QED
      BY <3>7, <3>8, <3>9 DEF PhaseInv
  <2>4. QED
    BY <2>1, <2>2, <2>3
<1>18. ASSUME NEW t \in Threads, InsertFile(t) PROVE LayoutInv'
  <2> USE <1>18 DEF InsertFile, At, Goto, LayoutInv
  <2>0. lock = t /\ \A u \in Threads : u # t => pc[u] \notin {"write", "insert", "account"}
    BY DEF PlaceInv, LockInv
  <2>m. /\ pc[Main] \notin {"block table", "header", "close", "done"}
        /\ pc'[Main] \notin {"block table", "header", "close", "done"}
    <3>1. pc[Main] \notin {"block table", "header", "close", "done"}
      BY AllDone
    <3>2. QED
      BY <3>1
  <2>1. DiskInv'
    BY DiskSame DEF fileVars
  <2>2. EntryInv'
    <3>1. item[t] \in Elems
      BY DEF TypeOK, ThreadsOK, LocalsOK
    <3>2. /\ Len(bt') = Len(bt) + 1 /\ Len(names') = Len(names) + 1 /\ Len(names) = Len(bt)
          /\ \A i \in 1 .. Len(bt) : bt'[i] = bt[i] /\ names'[i] = names[i]
          /\ bt'[Len(bt) + 1] = bte[t] /\ names'[Len(bt) + 1] = NameOf[item[t]]
      <4>1. bte[t] \in BlockEntries /\ NameOf[item[t]] \in Names
        BY <3>1, RepackAssumption
      <4>2. Len(names) = Len(bt)
        BY DEF EntryInv
      <4>3. QED
        BY <4>1, <4>2, AppendFacts DEF Insert, InsertBT, TypeOK, TablesOK
    <3>3. /\ Len(disk) = Len(bt) + 2
          /\ disk[Len(bt) + 2] = [pos |-> Offset + bytesWritten, len |-> outsize[t],
                                  data |-> FileData(content[t])]
          /\ bte[t] = [filePos |-> bytesWritten % Word, compressedSize |-> outsize[t] % Word,
                       normalSize |-> NormalSize[item[t]]]
          /\ disk' = disk
      BY DEF PhaseInv, fileVars
    <3>4. (Offset + bytesWritten) - Offset = bytesWritten
      BY RepackAssumption DEF TypeOK, SharedOK
    <3>10. content[t] \in DataOf(item[t])
      BY DEF PlaceInv, ContentInv
    <3>5. /\ Filed(Len(bt) + 2, item[t])
          /\ names'[Len(bt) + 1] = NameOf[item[t]]
          /\ bt'[Len(bt) + 1].filePos = (disk[Len(bt) + 2].pos - Offset) % Word
          /\ bt'[Len(bt) + 1].compressedSize = disk[Len(bt) + 2].len % Word
          /\ bt'[Len(bt) + 1].normalSize = NormalSize[item[t]]
      BY <3>2, <3>3, <3>4, <3>10 DEF Filed
    <3>6. \A i \in 1 .. Len(bt') : i \in 1 .. Len(bt) \/ (i = Len(bt) + 1 /\ i + 1 = Len(bt) + 2)
      BY <3>2
    <3>7. Len(disk') > Len(bt') /\ Len(names') = Len(bt')
      BY <3>2, <3>3
    <3>8. \A i \in 1 .. Len(bt') : \E p \in Elems :
             /\ Filed(i + 1, p)
             /\ names'[i] = NameOf[p]
             /\ bt'[i].filePos = (disk[i + 1].pos - Offset) % Word
             /\ bt'[i].compressedSize = disk[i + 1].len % Word
             /\ bt'[i].normalSize = NormalSize[p]
      <4> SUFFICES ASSUME NEW i \in 1 .. Len(bt')
                   PROVE \E p \in Elems : /\ Filed(i + 1, p)
                                          /\ names'[i] = NameOf[p]
                                          /\ bt'[i].filePos = (disk[i + 1].pos - Offset) % Word
                                          /\ bt'[i].compressedSize = disk[i + 1].len % Word
                                          /\ bt'[i].normalSize = NormalSize[p]
        OBVIOUS
      <4>1. CASE i \in 1 .. Len(bt)
        <5>1. \E p \in Elems : /\ Filed(i + 1, p)
                               /\ names[i] = NameOf[p]
                               /\ bt[i].filePos = (disk[i + 1].pos - Offset) % Word
                               /\ bt[i].compressedSize = disk[i + 1].len % Word
                               /\ bt[i].normalSize = NormalSize[p]
          BY <4>1 DEF EntryInv
        <5>2. bt'[i] = bt[i] /\ names'[i] = names[i]
          BY <4>1, <3>2
        <5>3. QED
          BY <5>1, <5>2
      <4>2. CASE i = Len(bt) + 1 /\ i + 1 = Len(bt) + 2
        BY <4>2, <3>1, <3>5
      <4>3. QED
        BY <4>1, <4>2, <3>6
    <3>11. \A k \in Int, p \in Elems : Filed(k, p)' <=> Filed(k, p)
      BY <3>3 DEF Filed
    <3>12. \A i \in 1 .. Len(bt') : \E p \in Elems :
             /\ Filed(i + 1, p)'
             /\ names'[i] = NameOf[p]
             /\ bt'[i].filePos = (disk'[i + 1].pos - Offset) % Word
             /\ bt'[i].compressedSize = disk'[i + 1].len % Word
             /\ bt'[i].normalSize = NormalSize[p]
      BY <3>3, <3>8, <3>11
    <3>13. QED
      BY <3>7, <3>12 DEF EntryInv
  <2>3. PhaseInv'
    <3>1. Len(bt') = Len(bt) + 1
      BY AppendFacts DEF Insert, InsertBT, TypeOK, TablesOK
    <3>2. Len(disk) = Len(bt) + 2 /\ fpos = Offset + bytesWritten + outsize[t]
      BY DEF PhaseInv
    <3>3. \A u \in Threads : u # t => pc'[u] \notin {"insert", "account"}
      BY <2>0
    <3>4. /\ pc'[t] = "account" /\ disk' = disk /\ fpos' = fpos
          /\ bytesWritten' = bytesWritten /\ outsize' = outsize
      BY DEF fileVars, countVars, workVars
    <3>5. \A u \in Threads : (pc'[u] = "account" => u = t) /\ pc'[u] # "insert"
      BY <3>3, <3>4
    <3>6. t \in Writing'
      BY <3>4 DEF Writing
    <3>7. Len(disk') = Len(bt') + 1 /\ fpos' = Offset + bytesWritten' + outsize'[t]
      BY <3>1, <3>2, <3>4
    <3>8. QED
      BY <3>5, <3>6, <3>7 DEF PhaseInv
  <2>4. QED
    BY <2>1, <2>2, <2>3
<1>19. ASSUME NEW t \in Threads, Account(t) PROVE LayoutInv'
  <2> USE <1>19 DEF Account, At, Goto, LayoutInv
  <2>0. lock = t /\ \A u \in Threads : u # t => pc[u] \notin {"write", "insert", "account"}
    BY DEF PlaceInv, LockInv
  <2>m. /\ pc[Main] \notin {"block table", "header", "close", "done"}
        /\ pc'[Main] \notin {"block table", "header", "close", "done"}
    <3>1. pc[Main] \notin {"block table", "header", "close", "done"}
      BY AllDone
    <3>2. QED
      BY <3>1
  <2>1. DiskInv'
    BY DiskSame DEF fileVars
  <2>2. EntryInv'
    BY EntrySame DEF fileVars, tableVars
  <2>3. PhaseInv'
    <3>1. Len(disk) = Len(bt) + 1 /\ fpos = Offset + bytesWritten + outsize[t]
      BY DEF PhaseInv
    <3>2. \A u \in Threads : pc'[u] \notin {"insert", "account"}
      BY <2>0
    <3>3. fpos = Offset + (bytesWritten + outsize[t])
      BY <3>1, RepackAssumption DEF TypeOK, SharedOK
    <3>4. QED
      BY <3>1, <3>2, <3>3 DEF PhaseInv, Writing, fileVars, tableVars
  <2>4. QED
    BY <2>1, <2>2, <2>3
<1>20. ASSUME NEW t \in Threads, Unlock(t) PROVE LayoutInv'
  <2> USE <1>20 DEF Unlock, At, Goto, LayoutInv
  <2>1. DiskInv'
    BY DiskSame DEF fileVars
  <2>2. EntryInv'
    BY EntrySame DEF fileVars, tableVars
  <2>3. PhaseInv'
    BY PhaseSame DEF fileVars, tableVars, countVars, workVars, queueVars
  <2>4. QED
    BY <2>1, <2>2, <2>3
<1>21. ASSUME NEW t \in Threads, Exit(t) PROVE LayoutInv'
  <2> USE <1>21 DEF Exit, At, Goto, LayoutInv
  <2>1. DiskInv'
    BY DiskSame DEF fileVars
  <2>2. EntryInv'
    BY EntrySame DEF fileVars, tableVars
  <2>3. PhaseInv'
    BY PhaseSame DEF fileVars, tableVars, countVars, workVars, queueVars
  <2>4. QED
    BY <2>1, <2>2, <2>3
<1>24. ASSUME NEW t \in Threads, Crash(t) PROVE LayoutInv'
  <2> USE <1>24 DEF Crash, At, Goto, LayoutInv
  <2>1. DiskInv'
    BY DiskSame DEF fileVars
  <2>2. EntryInv'
    BY EntrySame DEF fileVars, tableVars
  <2>3. PhaseInv'
    BY PhaseSame DEF fileVars, tableVars, countVars, workVars, queueVars
  <2>4. QED
    BY <2>1, <2>2, <2>3
<1>22. ASSUME UNCHANGED vars PROVE LayoutInv'
  BY <1>22, DiskSame, EntrySame, PhaseSame DEF vars, LayoutInv
<1>23. QED
  BY <1>1, <1>2, <1>3, <1>4, <1>5, <1>6, <1>7, <1>8, <1>9, <1>10, <1>11, <1>12, <1>13, <1>14, <1>15, <1>16, <1>17, <1>18, <1>19, <1>20, <1>21, <1>22, <1>24 DEF Next, MainStep, WorkerStep

\* A range behind the header, in an archive that fits, fits its fields.
LEMMA Within ==
    \A pos, len, off, w \in Nat :
        pos >= off + 32 /\ pos + len < off + w =>
            pos - off \in 0 .. w - 1 /\ len \in 0 .. w - 1 /\ off + (pos - off) = pos
OBVIOUS

\* What the proofs below use of the types of the writes.
LEMMA WritesTyped ==
    ASSUME TypeOK
    PROVE  /\ Len(disk) \in Nat /\ Len(bt) \in Nat /\ Offset \in Nat /\ Word \in Nat \ {0}
           /\ \A k \in 1 .. Len(disk) :
                 /\ disk[k].pos \in Nat /\ disk[k].len \in Nat
                 /\ disk[k] = [pos |-> disk[k].pos, len |-> disk[k].len, data |-> disk[k].data]
<1>1. Len(disk) \in Nat /\ Len(bt) \in Nat /\ Offset \in Nat /\ Word \in Nat \ {0}
  BY LenProperties, RepackAssumption DEF TypeOK, FileOK, TablesOK
<1>2. \A k \in 1 .. Len(disk) : disk[k] \in Writes
  BY ElementOfSeq DEF TypeOK, FileOK
<1>3. QED
  BY <1>1, <1>2 DEF Writes

\* In an archive that fits its fields, where the block of an entry is.
LEMMA BlockPlace ==
    ASSUME TypeOK, LayoutInv, Fits, NEW i \in 1 .. Len(bt)
    PROVE  /\ i + 1 \in 2 .. Len(disk) /\ i + 1 \in 1 .. Len(disk)
           /\ disk[i + 1].data.kind # "header"
           /\ disk[i + 1].pos >= Offset + HeaderSize
           /\ bt[i].filePos = disk[i + 1].pos - Offset
           /\ Offset + bt[i].filePos = disk[i + 1].pos
           /\ bt[i].compressedSize = disk[i + 1].len
           /\ \E p \in Elems : /\ Filed(i + 1, p)
                               /\ names[i] = NameOf[p]
                               /\ bt[i].normalSize = NormalSize[p]
<1> USE WritesTyped
<1>1. i + 1 \in 2 .. Len(disk) /\ i + 1 \in 1 .. Len(disk)
  BY DEF LayoutInv, EntryInv
<1>2. PICK p \in Elems : /\ Filed(i + 1, p)
                         /\ names[i] = NameOf[p]
                         /\ bt[i].filePos = (disk[i + 1].pos - Offset) % Word
                         /\ bt[i].compressedSize = disk[i + 1].len % Word
                         /\ bt[i].normalSize = NormalSize[p]
  BY DEF LayoutInv, EntryInv
<1>3. disk[i + 1].data.kind # "header"
  BY <1>2 DEF FileData, Filed
<1>4. disk[i + 1].pos >= Offset + 32
  BY <1>1, <1>3 DEF LayoutInv, DiskInv, HeaderSize
<1>5. disk[i + 1].pos + disk[i + 1].len < Offset + Word
  BY <1>1 DEF Fits
<1>6. disk[i + 1].pos - Offset \in 0 .. Word - 1 /\ disk[i + 1].len \in 0 .. Word - 1
       /\ Offset + (disk[i + 1].pos - Offset) = disk[i + 1].pos
  <2>1. disk[i + 1].pos \in Nat /\ disk[i + 1].len \in Nat
    BY <1>1
  <2>2. QED
    BY <2>1, <1>4, <1>5, Within
<1>7. bt[i].filePos = disk[i + 1].pos - Offset /\ bt[i].compressedSize = disk[i + 1].len
  BY <1>2, <1>6, ModSmall
<1>8. QED
  BY <1>1, <1>2, <1>3, <1>4, <1>6, <1>7 DEF HeaderSize

\* No later write reaches what lies behind the header: the others go behind
\* it, and the header before it.
LEMMA DataIntact ==
    ASSUME TypeOK, LayoutInv, NEW k \in 1 .. Len(disk),
           disk[k].data.kind # "header", disk[k].pos >= Offset + HeaderSize
    PROVE  Intact(k)
<1> SUFFICES ASSUME NEW j \in k + 1 .. Len(disk) PROVE Disjoint(disk[k], disk[j])
  BY DEF Intact
<1>1. k \in 1 .. Len(disk) /\ j \in 1 .. Len(disk) /\ k < j
  BY WritesTyped
<1>2. CASE disk[j].data.kind = "header"
  <2>1. disk[j].pos = Offset /\ disk[j].len = HeaderSize
    BY <1>1, <1>2 DEF LayoutInv, DiskInv
  <2>2. QED
    BY <2>1 DEF Disjoint
<1>3. CASE disk[j].data.kind # "header"
  BY <1>1, <1>3 DEF LayoutInv, DiskInv, Disjoint
<1>4. QED
  BY <1>2, <1>3

\* In an archive that fits its fields no block range is ever written again.
LEMMA LayoutBlocks == TypeOK /\ PlaceInv /\ LayoutInv => BlocksHoldTheirFiles
<1> SUFFICES ASSUME TypeOK, PlaceInv, LayoutInv, Fits
             PROVE  /\ \A i \in 1 .. Len(bt) : \E p \in Elems :
                          /\ \E d \in DataOf(p) :
                                /\ Reads(Offset + bt[i].filePos, bt[i].compressedSize, FileData(d))
                                /\ d.intact \/ Harmed
                          /\ names[i] = NameOf[p]
                          /\ bt[i].normalSize = NormalSize[p]
                    /\ \A i, j \in 1 .. Len(bt) : i # j => Disjoint(RangeOf(i), RangeOf(j))
  BY DEF BlocksHoldTheirFiles
<1>1. Len(disk) \in Nat /\ Len(bt) \in Nat /\ Offset \in Nat /\ Word \in Nat \ {0}
  BY WritesTyped
<1>2. \A k \in 1 .. Len(disk) :
         /\ disk[k].pos \in Nat /\ disk[k].len \in Nat
         /\ disk[k] = [pos |-> disk[k].pos, len |-> disk[k].len, data |-> disk[k].data]
  BY WritesTyped
<1>3. ASSUME NEW i \in 1 .. Len(bt)
      PROVE  \E p \in Elems : /\ \E d \in DataOf(p) :
                                    /\ Reads(Offset + bt[i].filePos, bt[i].compressedSize, FileData(d))
                                    /\ d.intact \/ Harmed
                              /\ names[i] = NameOf[p]
                              /\ bt[i].normalSize = NormalSize[p]
  <2>1. /\ i + 1 \in 1 .. Len(disk) /\ Intact(i + 1)
        /\ bt[i].filePos = disk[i + 1].pos - Offset
        /\ bt[i].compressedSize = disk[i + 1].len
    BY BlockPlace, DataIntact
  <2>2. PICK p \in Elems : /\ Filed(i + 1, p)
                           /\ names[i] = NameOf[p]
                           /\ bt[i].normalSize = NormalSize[p]
    BY BlockPlace
  <2>7. PICK d \in DataOf(p) : disk[i + 1].data = FileData(d)
    BY <2>2 DEF Filed
  <2>8. d.intact \/ Harmed
    BY <2>1, <2>7, ElemFacts DEF PlaceInv, ContentInv, SoundData
  <2>3. Offset + bt[i].filePos = disk[i + 1].pos
    BY BlockPlace
  <2>4. disk[i + 1] = [pos |-> Offset + bt[i].filePos, len |-> bt[i].compressedSize,
                       data |-> FileData(d)]
    BY <1>2, <2>1, <2>7, <2>3
  <2>5. Reads(Offset + bt[i].filePos, bt[i].compressedSize, FileData(d))
    BY <2>1, <2>4 DEF Reads
  <2>6. QED
    BY <2>2, <2>5, <2>8
<1>4. ASSUME NEW i \in 1 .. Len(bt), NEW j \in 1 .. Len(bt), i < j
      PROVE  bt[i].filePos + bt[i].compressedSize <= bt[j].filePos
  <2>1. /\ i + 1 \in 1 .. Len(disk) /\ j + 1 \in 1 .. Len(disk) /\ i + 1 < j + 1
        /\ disk[j + 1].data.kind # "header"
        /\ bt[i].filePos = disk[i + 1].pos - Offset
        /\ bt[i].compressedSize = disk[i + 1].len
        /\ bt[j].filePos = disk[j + 1].pos - Offset
    BY BlockPlace, <1>4, <1>1
  <2>2. disk[i + 1].pos + disk[i + 1].len <= disk[j + 1].pos
    BY <2>1 DEF LayoutInv, DiskInv
  <2>3. disk[i + 1].pos \in Nat /\ disk[i + 1].len \in Nat /\ disk[j + 1].pos \in Nat
    BY <1>2, <2>1
  <2>4. QED
    BY <2>1, <2>2, <2>3, <1>1, SMTT(30)
<1>5. ASSUME NEW i \in 1 .. Len(bt), NEW j \in 1 .. Len(bt), i # j
      PROVE  Disjoint(RangeOf(i), RangeOf(j))
  <2>1. i < j \/ j < i
    BY <1>1, <1>5
  <2>2. \/ bt[i].filePos + bt[i].compressedSize <= bt[j].filePos
        \/ bt[j].filePos + bt[j].compressedSize <= bt[i].filePos
    BY <2>1, <1>4
  <2>3. QED
    BY <2>2 DEF Disjoint, RangeOf
<1>6. QED
  BY <1>3, <1>5

\* A block entry, once in the table, leads to the data of the file it was
\* inserted for, through every later write and to the end (mkmpq, PackFiles,
\* WriteHT, WriteBT and WriteHeader), for any number of threads and files, as
\* long as the archive fits the 32-bit fields of the format.
THEOREM BlocksStayIntact == Spec => []BlocksHoldTheirFiles
<1>1. Init => TypeOK /\ PlaceInv /\ LayoutInv
  BY TypeInit, InvInit, LayoutInit
<1>2. TypeOK /\ PlaceInv /\ LayoutInv /\ [Next]_vars => (TypeOK /\ PlaceInv /\ LayoutInv)'
  <2> SUFFICES ASSUME TypeOK, PlaceInv, LayoutInv, [Next]_vars PROVE TypeOK' /\ PlaceInv' /\ LayoutInv'
    OBVIOUS
  <2>1. TypeOK'
    BY TypeStep
  <2>2. PlaceInv'
    BY InvStep
  <2>3. LayoutInv'
    BY LayoutStep
  <2>4. QED
    BY <2>1, <2>2, <2>3
<1>3. TypeOK /\ PlaceInv /\ LayoutInv => BlocksHoldTheirFiles
  BY LayoutBlocks
<1>4. QED
  BY <1>1, <1>2, <1>3, PTL DEF Spec

-----------------------------------------------------------------------------
(* What Archive promises.                                                  *)

\* What the proofs below use of the types.
LEMMA Typed ==
    ASSUME TypeOK
    PROVE  /\ pc \in [Threads -> Labels]
           /\ item \in [Threads -> Elems \union {None}]
           /\ outsize \in [Threads -> Nat]
           /\ cur \in 0 .. QueueSize
           /\ disk \in Seq(Writes) /\ Len(disk) \in Nat
           /\ bt \in Seq(BlockEntries) /\ Len(bt) \in Nat
           /\ bytesWritten \in Nat /\ totalOutSize \in Nat /\ filesProceeded \in Nat
           /\ fpos \in Nat
BY LenProperties DEF TypeOK, PcOK, ThreadsOK, SharedOK, FileOK, TablesOK

-----------------------------------------------------------------------------
(* When the threads stop. *)

\* DrainInv holds when mkmpq begins.
LEMMA DrainInit == Init => DrainInv
BY DEF Init, DrainInv, Finishing

\* Every step of every thread keeps DrainInv.
LEMMA DrainStep == TypeOK /\ PlaceInv /\ DrainInv /\ [Next]_vars => DrainInv'
<1> SUFFICES ASSUME TypeOK, PlaceInv, DrainInv, [Next]_vars PROVE DrainInv'
  OBVIOUS
<1> USE ConstantFacts, Typed, ElemFacts
<1>1. ASSUME CreateThread PROVE DrainInv'
  BY <1>1 DEF CreateThread, At, Goto, DrainInv, Finishing, Spoilt, mainVars, queueVars
<1>2. ASSUME AllCreated PROVE DrainInv'
  BY <1>2 DEF AllCreated, At, Goto, DrainInv, Finishing, Spoilt, mainVars, queueVars
<1>3. ASSUME Join PROVE DrainInv'
  BY <1>3 DEF Join, At, Goto, DrainInv, Finishing, Spoilt, mainVars, queueVars
<1>4. ASSUME AllJoined PROVE DrainInv'
  BY <1>4 DEF AllJoined, At, Goto, DrainInv, Finishing, Spoilt, mainVars, queueVars
<1>5. ASSUME WriteHT PROVE DrainInv'
  BY <1>5 DEF WriteHT, At, Goto, DrainInv, Finishing, Spoilt, mainVars, queueVars
<1>6. ASSUME WriteBT PROVE DrainInv'
  BY <1>6 DEF WriteBT, At, Goto, DrainInv, Finishing, Spoilt, mainVars, queueVars
<1>7. ASSUME WriteHeader PROVE DrainInv'
  BY <1>7 DEF WriteHeader, At, Goto, DrainInv, Finishing, Spoilt, mainVars, queueVars
<1>8. ASSUME Close PROVE DrainInv'
  BY <1>8 DEF Close, At, Goto, DrainInv, Finishing, Spoilt, mainVars, queueVars
<1>9. ASSUME NEW t \in Threads, PopLock(t) PROVE DrainInv'
  BY <1>9 DEF PopLock, At, Goto, DrainInv, Finishing, Spoilt, mainVars, queueVars
<1>10. ASSUME NEW t \in Threads, PopRead(t) PROVE DrainInv'
  <2>1. cur >= QueueSize => cur = QueueSize
    OBVIOUS
  <2>2. \A u \in Threads : u # t => pc'[u] = pc[u] /\ item'[u] = item[u]
    BY <1>10 DEF PopRead, Goto
  <2>3. /\ pc'[t] \in {"leave", "advance"}
        /\ pc'[t] = "leave" => cur >= QueueSize
    BY <1>10 DEF PopRead, Goto
  <2>4. cur' = cur /\ Spoilt' = Spoilt
    BY <1>10 DEF PopRead, Spoilt, mainVars
  <2>5. QED
    BY <2>1, <2>2, <2>3, <2>4 DEF DrainInv, Finishing
<1>11. ASSUME NEW t \in Threads, PopAdvance(t) PROVE DrainInv'
  <2>1. item[t] = cur /\ item[t] \in Elems /\ item' = item
    BY <1>11 DEF PopAdvance, At, PlaceInv, QueueInv, TypeOK, ThreadsOK, LocalsOK
  <2>2. cur # QueueSize
    BY <2>1 DEF Elems
  <2>3. \A u \in Threads : u # t => pc'[u] = pc[u]
    BY <1>11 DEF PopAdvance, Goto
  <2>4. pc'[t] = "leave" /\ item[t] # None /\ Spoilt' = Spoilt
    BY <1>11, <2>1 DEF PopAdvance, Goto, Spoilt, mainVars
  <2>5. QED
    BY <2>1, <2>2, <2>3, <2>4 DEF DrainInv, Finishing
<1>12. ASSUME NEW t \in Threads, PopUnlock(t) PROVE DrainInv'
  BY <1>12 DEF PopUnlock, At, Goto, DrainInv, Finishing, Spoilt, AfterPop, mainVars, queueVars
<1>13. ASSUME NEW t \in Threads, Extract(t) PROVE DrainInv'
  BY <1>13 DEF Extract, At, Goto, DrainInv, Finishing, Spoilt, mainVars, queueVars
<1>14. ASSUME NEW t \in Threads, ExtractFails(t) PROVE DrainInv'
  <2>1. item[t] \in Corrupt \/ Spoilt # {}
    BY <1>14 DEF ExtractFails, At, PlaceInv, ContentInv, Harmed
  <2>2. /\ pc'[t] = "exiting" /\ item' = item /\ cur' = cur /\ Spoilt' = Spoilt
        /\ \A u \in Threads : u # t => pc'[u] = pc[u]
    BY <1>14 DEF ExtractFails, Goto, Spoilt, mainVars, queueVars
  <2>3. QED
    BY <2>1, <2>2 DEF DrainInv, Finishing
<1>15. ASSUME NEW t \in Threads, Pack(t) PROVE DrainInv'
  BY <1>15 DEF Pack, At, Goto, DrainInv, Finishing, Spoilt, mainVars, queueVars
<1>16. ASSUME NEW t \in Threads, Lock(t) PROVE DrainInv'
  BY <1>16 DEF Lock, At, Goto, DrainInv, Finishing, Spoilt, mainVars, queueVars
<1>17. ASSUME NEW t \in Threads, WriteFile(t) PROVE DrainInv'
  BY <1>17 DEF WriteFile, At, Goto, DrainInv, Finishing, Spoilt, mainVars, queueVars
<1>18. ASSUME NEW t \in Threads, InsertFile(t) PROVE DrainInv'
  BY <1>18 DEF InsertFile, At, Goto, DrainInv, Finishing, Spoilt, mainVars, queueVars
<1>19. ASSUME NEW t \in Threads, Account(t) PROVE DrainInv'
  BY <1>19 DEF Account, At, Goto, DrainInv, Finishing, Spoilt, mainVars, queueVars
<1>20. ASSUME NEW t \in Threads, Unlock(t) PROVE DrainInv'
  BY <1>20 DEF Unlock, At, Goto, DrainInv, Finishing, Spoilt, mainVars, queueVars
<1>21. ASSUME NEW t \in Threads, Exit(t) PROVE DrainInv'
  BY <1>21 DEF Exit, At, Goto, DrainInv, Finishing, Spoilt, mainVars, queueVars
<1>24. ASSUME NEW t \in Threads, Crash(t) PROVE DrainInv'
  BY <1>24 DEF Crash, At, Goto, DrainInv, Finishing, Spoilt, mainVars, queueVars
<1>22. CASE UNCHANGED vars
  BY <1>22 DEF vars, DrainInv, Spoilt
<1>23. QED
  BY <1>1, <1>2, <1>3, <1>4, <1>5, <1>6, <1>7, <1>8, <1>9, <1>10, <1>11, <1>12, <1>13, <1>14, <1>15, <1>16, <1>17, <1>18, <1>19, <1>20, <1>21, <1>22, <1>24 DEF Next, MainStep, WorkerStep

-----------------------------------------------------------------------------
(* What has been counted. *)

\* What is added to a sum may be added to its second number.
LEMMA SumMoved == \A h, m, n \in Nat : (h + m) + n = h + (m + n)
OBVIOUS

\* CountInv holds when mkmpq begins.
LEMMA CountInit == Init => CountInv
BY DEF Init, InitTable, CountInv, HeaderSize

\* Every step of every thread keeps CountInv.
LEMMA CountStep == TypeOK /\ PlaceInv /\ CountInv /\ [Next]_vars => CountInv'
<1> SUFFICES ASSUME TypeOK, PlaceInv, CountInv, [Next]_vars PROVE CountInv'
  OBVIOUS
<1> USE ConstantFacts, Typed
<1>1. ASSUME CreateThread PROVE CountInv'
  <2>1. started \in Threads /\ pc[started] = "unborn"
    BY <1>1 DEF CreateThread, At, TypeOK, SharedOK, PlaceInv, StartInv, Main, Threads
  <2>2. \A t \in Threads : pc'[t] = "account" <=> pc[t] = "account"
    BY <1>1, <2>1 DEF CreateThread
  <2>3. QED
    BY <1>1, <2>2 DEF CreateThread, CountInv, countVars, tableVars
<1>2. ASSUME AllCreated PROVE CountInv'
  BY <1>2 DEF AllCreated, At, Goto, CountInv, countVars, tableVars
<1>3. ASSUME Join PROVE CountInv'
  BY <1>3 DEF Join, At, Goto, CountInv, countVars, tableVars
<1>4. ASSUME AllJoined PROVE CountInv'
  BY <1>4 DEF AllJoined, At, Goto, CountInv, countVars, tableVars
<1>5. ASSUME WriteHT PROVE CountInv'
  BY <1>5 DEF WriteHT, At, Goto, CountInv, countVars, tableVars
<1>6. ASSUME WriteBT PROVE CountInv'
  BY <1>6 DEF WriteBT, At, Goto, CountInv, countVars, tableVars
<1>7. ASSUME WriteHeader PROVE CountInv'
  BY <1>7 DEF WriteHeader, At, Goto, CountInv, countVars, tableVars
<1>8. ASSUME Close PROVE CountInv'
  BY <1>8 DEF Close, At, Goto, CountInv, countVars, tableVars
<1>9. ASSUME NEW t \in Threads, PopLock(t) PROVE CountInv'
  BY <1>9 DEF PopLock, At, Goto, CountInv, countVars, tableVars
<1>10. ASSUME NEW t \in Threads, PopRead(t) PROVE CountInv'
  BY <1>10 DEF PopRead, At, Goto, CountInv, countVars, tableVars
<1>11. ASSUME NEW t \in Threads, PopAdvance(t) PROVE CountInv'
  BY <1>11 DEF PopAdvance, At, Goto, CountInv, countVars, tableVars
<1>12. ASSUME NEW t \in Threads, PopUnlock(t) PROVE CountInv'
  <2>1. \A u \in Threads : pc'[u] = "account" <=> pc[u] = "account"
    BY <1>12 DEF PopUnlock, At, Goto, AfterPop
  <2>2. QED
    BY <1>12, <2>1 DEF PopUnlock, CountInv, countVars, tableVars
<1>13. ASSUME NEW t \in Threads, Extract(t) PROVE CountInv'
  BY <1>13 DEF Extract, At, Goto, CountInv, countVars, tableVars
<1>14. ASSUME NEW t \in Threads, ExtractFails(t) PROVE CountInv'
  BY <1>14 DEF ExtractFails, At, Goto, CountInv, countVars, tableVars
<1>15. ASSUME NEW t \in Threads, Pack(t) PROVE CountInv'
  BY <1>15 DEF Pack, At, Goto, CountInv, countVars, tableVars
<1>16. ASSUME NEW t \in Threads, Lock(t) PROVE CountInv'
  BY <1>16 DEF Lock, At, Goto, CountInv, countVars, tableVars
<1>17. ASSUME NEW t \in Threads, WriteFile(t) PROVE CountInv'
  BY <1>17 DEF WriteFile, At, Goto, CountInv, countVars, tableVars
<1>18. ASSUME NEW t \in Threads, InsertFile(t) PROVE CountInv'
  <2>1. pc[t] = "insert" /\ \A u \in Threads : pc[u] # "account"
    BY <1>18 DEF InsertFile, At, PlaceInv, LockInv
  <2>2. filesProceeded = 1 + Len(bt) /\ bytesWritten = HeaderSize + totalOutSize
    BY <2>1 DEF CountInv
  <2>3. Len(bt') = Len(bt) + 1
    BY <1>18, AppendFacts DEF InsertFile, Insert, InsertBT
  <2>4. pc'[t] = "account"
    BY <1>18 DEF InsertFile, Goto
  <2>5. QED
    BY <1>18, <2>2, <2>3, <2>4 DEF InsertFile, countVars, CountInv
<1>19. ASSUME NEW t \in Threads, Account(t) PROVE CountInv'
  <2>1. pc[t] = "account" /\ \A u \in Threads : u # t => pc[u] # "account"
    BY <1>19 DEF Account, At, PlaceInv, LockInv
  <2>2. filesProceeded = Len(bt) /\ bytesWritten = HeaderSize + totalOutSize
    BY <2>1 DEF CountInv
  <2>3. /\ bytesWritten' = bytesWritten + outsize[t]
        /\ totalOutSize' = totalOutSize + outsize[t]
        /\ filesProceeded' = 1 + Len(bt)
        /\ bt' = bt
    BY <1>19, <2>2 DEF Account, tableVars
  <2>4. outsize[t] \in Nat
    OBVIOUS
  <2>5. bytesWritten' = HeaderSize + totalOutSize'
    <3>1. HeaderSize \in Nat /\ totalOutSize \in Nat
      BY DEF HeaderSize
    <3>2. (HeaderSize + totalOutSize) + outsize[t] = HeaderSize + (totalOutSize + outsize[t])
      BY <2>4, <3>1, SumMoved
    <3>3. QED
      BY <2>2, <2>3, <3>2
  <2>6. \A u \in Threads : pc'[u] # "account"
    BY <1>19, <2>1 DEF Account, Goto
  <2>7. QED
    BY <2>3, <2>5, <2>6 DEF CountInv
<1>20. ASSUME NEW t \in Threads, Unlock(t) PROVE CountInv'
  BY <1>20 DEF Unlock, At, Goto, CountInv, countVars, tableVars
<1>21. ASSUME NEW t \in Threads, Exit(t) PROVE CountInv'
  BY <1>21 DEF Exit, At, Goto, CountInv, countVars, tableVars
<1>24. ASSUME NEW t \in Threads, Crash(t) PROVE CountInv'
  BY <1>24 DEF Crash, At, Goto, CountInv, countVars, tableVars
<1>22. CASE UNCHANGED vars
  BY <1>22 DEF vars, CountInv
<1>23. QED
  BY <1>1, <1>2, <1>3, <1>4, <1>5, <1>6, <1>7, <1>8, <1>9, <1>10, <1>11, <1>12, <1>13, <1>14, <1>15, <1>16, <1>17, <1>18, <1>19, <1>20, <1>21, <1>22, <1>24 DEF Next, MainStep, WorkerStep



-----------------------------------------------------------------------------
(* How many files are in. *)

\* Writes 2 .. m + 1 are those of files, each of one that was queued: there
\* are at most as many as paths in the queue.
LEMMA FilesBounded ==
    ASSUME TypeOK, PlaceInv, NEW m \in Nat, m < Len(disk),
           \A k \in 2 .. m + 1 : \E p \in Elems : Filed(k, p)
    PROVE  m <= QueueSize
<1> DEFINE f == [k \in 2 .. m + 1 |-> CHOOSE p \in Elems : Filed(k, p)]
<1>1. \A k \in 2 .. m + 1 : f[k] \in Elems /\ Filed(k, f[k])
  OBVIOUS
<1>2. 2 .. m + 1 \subseteq 1 .. Len(disk)
  BY Typed
<1>3. f \in [2 .. m + 1 -> Elems]
  BY <1>1
<1>4. \A j, k \in 2 .. m + 1 : f[j] = f[k] => j = k
  BY <1>1, <1>2 DEF PlaceInv, FiledInv
<1>5. f \in Injection(2 .. m + 1, Elems)
  <2> HIDE DEF f
  <2>1. QED
    BY <1>3, <1>4, Fun_IsInj
<1>6. /\ IsFiniteSet(Elems) /\ Cardinality(Elems) = QueueSize
      /\ Cardinality(2 .. m + 1) = m
  <2>1. /\ QueueSize \in Nat /\ 0 \in Int /\ QueueSize - 1 \in Int
        /\ 2 \in Int /\ m + 1 \in Int
    BY ConstantFacts
  <2>2. /\ IsFiniteSet(0 .. QueueSize - 1)
        /\ Cardinality(0 .. QueueSize - 1) = IF 0 > QueueSize - 1 THEN 0 ELSE QueueSize - 1 - 0 + 1
    BY <2>1, FS_Interval
  <2>3. Cardinality(2 .. m + 1) = IF 2 > m + 1 THEN 0 ELSE m + 1 - 2 + 1
    BY <2>1, FS_Interval
  <2>4. QED
    BY <2>1, <2>2, <2>3 DEF Elems
<1>7. Cardinality(2 .. m + 1) <= Cardinality(Elems)
  <2> HIDE DEF f
  <2>1. QED
    BY <1>5, <1>6, FS_Injection
<1>8. QED
  BY <1>6, <1>7

\* If no file is missing among them, there are as many.
LEMMA FilesAll ==
    ASSUME TypeOK, PlaceInv, NEW m \in Nat, m < Len(disk),
           \A k \in 2 .. m + 1 : \E p \in Elems : Filed(k, p),
           \A p \in Elems : \E k \in 2 .. m + 1 : Filed(k, p)
    PROVE  m = QueueSize
<1> DEFINE g == [p \in Elems |-> CHOOSE k \in 2 .. m + 1 : Filed(k, p)]
<1>1. \A p \in Elems : g[p] \in 2 .. m + 1 /\ Filed(g[p], p)
  OBVIOUS
<1>2. g \in [Elems -> 2 .. m + 1]
  BY <1>1
<1>3. \A p, q \in Elems : g[p] = g[q] => p = q
  <2> SUFFICES ASSUME NEW p \in Elems, NEW q \in Elems, g[p] = g[q] PROVE p = q
    OBVIOUS
  <2>1. Filed(g[p], p) /\ Filed(g[q], q)
    BY <1>1
  <2> HIDE DEF g
  <2>2. QED
    BY <2>1, FiledOnce
<1>4. g \in Injection(Elems, 2 .. m + 1)
  <2> HIDE DEF g
  <2>1. QED
    BY <1>2, <1>3, Fun_IsInj
<1>5. /\ IsFiniteSet(2 .. m + 1) /\ Cardinality(2 .. m + 1) = m
      /\ Cardinality(Elems) = QueueSize
  <2>1. /\ QueueSize \in Nat /\ 0 \in Int /\ QueueSize - 1 \in Int
        /\ 2 \in Int /\ m + 1 \in Int
    BY ConstantFacts
  <2>2. /\ Cardinality(0 .. QueueSize - 1) = IF 0 > QueueSize - 1 THEN 0 ELSE QueueSize - 1 - 0 + 1
        /\ IsFiniteSet(2 .. m + 1)
        /\ Cardinality(2 .. m + 1) = IF 2 > m + 1 THEN 0 ELSE m + 1 - 2 + 1
    BY <2>1, FS_Interval
  <2>3. QED
    BY <2>1, <2>2 DEF Elems
<1>6. Cardinality(Elems) <= Cardinality(2 .. m + 1)
  <2> HIDE DEF g
  <2>1. QED
    BY <1>4, <1>5, FS_Injection
<1>7. QED
  BY <1>5, <1>6, FilesBounded, ConstantFacts

\* When a file is about to be inserted, the block table has room for it.
LEMMA RoomForFile ==
    ASSUME TypeOK, PlaceInv, LayoutInv, NEW t \in Threads, pc[t] = "insert"
    PROVE  Len(bt) < NumEntries /\ Len(bt) + 1 <= QueueSize
<1>1. /\ Len(disk) = Len(bt) + 2
      /\ Filed(Len(bt) + 2, item[t])
      /\ item[t] \in Elems
  <2>1. item[t] \in Elems
    BY DEF TypeOK, ThreadsOK, LocalsOK
  <2>2. /\ Len(disk) = Len(bt) + 2
        /\ disk[Len(disk)] = [pos |-> Offset + bytesWritten, len |-> outsize[t],
                              data |-> FileData(content[t])]
    BY DEF LayoutInv, PhaseInv
  <2>3. content[t] \in DataOf(item[t])
    BY DEF PlaceInv, ContentInv
  <2>4. QED
    BY <2>1, <2>2, <2>3 DEF Filed
<1>2. Len(bt) \in Nat
  BY Typed
<1>3. ASSUME NEW k \in 2 .. Len(bt) + 2 PROVE \E p \in Elems : Filed(k, p)
  <2>1. CASE k = Len(bt) + 2
    BY <1>1, <2>1
  <2>2. CASE k # Len(bt) + 2
    <3>1. k - 1 \in 1 .. Len(bt) /\ (k - 1) + 1 = k
      BY <1>2, <2>2
    <3>2. PICK p \in Elems : Filed((k - 1) + 1, p)
      BY <3>1 DEF LayoutInv, EntryInv
    <3>3. QED
      BY <3>1, <3>2
  <2>3. QED
    BY <2>1, <2>2
<1>4. Len(bt) + 1 <= QueueSize
  <2>1. Len(bt) + 1 \in Nat /\ Len(bt) + 1 < Len(disk) /\ (Len(bt) + 1) + 1 = Len(bt) + 2
    BY <1>1, <1>2
  <2>2. \A k \in 2 .. (Len(bt) + 1) + 1 : \E p \in Elems : Filed(k, p)
    BY <1>3, <2>1
  <2>3. QED
    BY <2>1, <2>2, FilesBounded
<1>5. QED
  BY <1>2, <1>4, RepackAssumption, TableAssumption

-----------------------------------------------------------------------------
(* The tables in memory. *)

\* Every step of every thread keeps the tables searchable.
LEMMA TableStep == TypeOK /\ PlaceInv /\ LayoutInv /\ TableInv /\ [Next]_vars => TableInv'
<1> SUFFICES ASSUME TypeOK, PlaceInv, LayoutInv, TableInv, [Next]_vars PROVE TableInv'
  OBVIOUS
<1>1. ASSUME UNCHANGED tableVars PROVE TableInv'
  BY <1>1 DEF tableVars, TableInv, IndexInv, ChainInv, ChainAt, UsedInv, UsedSlots, Slot
<1>2. ASSUME NEW t \in Threads, InsertFile(t) PROVE TableInv'
  <2>1. pc[t] = "insert" /\ item[t] \in Elems /\ bte[t] \in BlockEntries
    BY <1>2 DEF InsertFile, At, TypeOK, ThreadsOK, LocalsOK
  <2>2. NameOf[item[t]] \in Names
    BY <2>1, RepackAssumption
  <2>3. Len(bt) < NumEntries
    BY <2>1, RoomForFile
  <2>4. bt \in Seq(BlockEntries)
    BY Typed
  <2>5. QED
    BY <1>2, <2>1, <2>2, <2>3, <2>4, InsertKeeps DEF InsertFile
<1>3. CASE MainStep
  BY <1>1, <1>3 DEF MainStep, CreateThread, AllCreated, Join, AllJoined, WriteHT, WriteBT,
                    WriteHeader, Close
<1>4. ASSUME NEW t \in Threads, WorkerStep(t) PROVE TableInv'
  BY <1>1, <1>2, <1>4 DEF WorkerStep, PopLock, PopRead, PopAdvance, PopUnlock, Extract,
                          ExtractFails, Crash, Pack, Lock, WriteFile, Account, Unlock, Exit
<1>5. QED
  BY <1>1, <1>3, <1>4 DEF Next, vars, tableVars

-----------------------------------------------------------------------------
(* What main writes at last. *)

Last == Finishing \ {"hash table"}

\* TailInv holds when mkmpq begins.
LEMMA TailInit == Init => TailInv
<1> SUFFICES ASSUME Init PROVE TailInv
  OBVIOUS
<1>1. disk = <<[pos |-> 0, len |-> Offset, data |-> [kind |-> "pre", value |-> 0]]>>
  BY DEF Init
<1>2. Len(disk) = 1 /\ disk[1].data.kind = "pre" /\ pc[Main] = "create"
  BY <1>1, ConstantFacts DEF Init
<1>3. \A k \in 1 .. Len(disk) : disk[k].data.kind = "pre"
  BY <1>2
<1>4. /\ \A k \in Written("hash table") : FALSE
      /\ \A k \in Written("block table") : FALSE
      /\ \A k \in Written("header") : FALSE
  BY <1>3 DEF Written
<1>5. \A k \in 2 .. Len(disk) : FALSE
  BY <1>2
<1>6. pc[Main] \notin Finishing
  BY <1>2 DEF Finishing
<1>7. QED
  BY <1>4, <1>5, <1>6 DEF TailInv, Finishing

\* A thread that is at work shows that main is not finishing the file.
LEMMA NotFinishing ==
    ASSUME TypeOK, PlaceInv, NEW t \in Threads, pc[t] \notin Finishing
    PROVE  pc[Main] \notin Finishing
BY AllDone DEF Finishing

\* Steps outside main's last ones, which write at most the data of a file.
LEMMA TailWorking ==
    ASSUME TypeOK, TailInv, pc[Main] \notin Last, pc'[Main] \notin Last,
           \/ disk' = disk
           \/ \E w \in Writes : w.len > 0 /\ w.data.kind = "file" /\ disk' = Append(disk, w)
    PROVE  TailInv'
<1>1. Written("hash table") = {} /\ Written("block table") = {} /\ Written("header") = {}
  BY DEF TailInv, Last, Finishing
<1>2. \A k \in 1 .. Len(disk) :
         disk[k].data.kind \notin {"hash table", "block table", "header"}
  BY <1>1 DEF Written
<1>3. \A k \in 1 .. Len(disk') :
         /\ disk'[k].data.kind \notin {"hash table", "block table", "header"}
         /\ k \in 2 .. Len(disk') => disk'[k].len > 0
  <2>1. CASE disk' = disk
    BY <1>2, <2>1 DEF TailInv
  <2>2. ASSUME NEW w \in Writes, w.len > 0, w.data.kind = "file", disk' = Append(disk, w)
        PROVE  \A k \in 1 .. Len(disk') :
                  /\ disk'[k].data.kind \notin {"hash table", "block table", "header"}
                  /\ k \in 2 .. Len(disk') => disk'[k].len > 0
    <3>1. /\ Len(disk) \in Nat /\ Len(disk') = Len(disk) + 1
          /\ \A k \in 1 .. Len(disk) : disk'[k] = disk[k]
          /\ disk'[Len(disk')] = w
      BY <2>2, DiskGrown
    <3>2. \A k \in 1 .. Len(disk') : k \in 1 .. Len(disk) \/ k = Len(disk')
      BY <3>1
    <3>3. \A k \in 2 .. Len(disk') : k \in 2 .. Len(disk) \/ k = Len(disk')
      BY <3>1
    <3>4. QED
      BY <1>2, <2>2, <3>1, <3>2, <3>3 DEF TailInv
  <2>3. QED
    BY <2>1, <2>2
<1>4. /\ \A k \in Written("hash table")' : FALSE
      /\ \A k \in Written("block table")' : FALSE
      /\ \A k \in Written("header")' : FALSE
  BY <1>3 DEF Written
<1>5. pc'[Main] \notin {"block table", "header", "close", "done"}
  BY DEF Last, Finishing
<1>6. \A k \in 2 .. Len(disk') : disk'[k].len > 0
  <2>1. Len(disk') \in Nat
    BY DiskGrown, Typed
  <2>2. \A k \in 2 .. Len(disk') : k \in 1 .. Len(disk')
    BY <2>1
  <2>3. QED
    BY <1>3, <2>2
<1>7. QED
  BY <1>4, <1>5, <1>6 DEF TailInv, Finishing

\* One write more: what was written of any kind before, and it.
LEMMA WrittenMore ==
    ASSUME TypeOK, NEW w \in Writes, disk' = Append(disk, w), NEW kind
    PROVE  /\ \A k \in Written(kind)' :
                 \/ k \in Written(kind) /\ disk'[k] = disk[k]
                 \/ disk'[k] = w /\ w.data.kind = kind
           /\ w.data.kind = kind => Written(kind)' # {}
           /\ Written(kind) # {} => Written(kind)' # {}
           /\ w.len > 0 /\ (\A k \in 2 .. Len(disk) : disk[k].len > 0) =>
                 \A k \in 2 .. Len(disk') : disk'[k].len > 0
<1>1. /\ Len(disk) \in Nat /\ Len(disk') = Len(disk) + 1
      /\ \A k \in 1 .. Len(disk) : disk'[k] = disk[k]
      /\ disk'[Len(disk')] = w
  BY DiskGrown
<1>2. \A k \in 1 .. Len(disk') : k \in 1 .. Len(disk) \/ k = Len(disk')
  BY <1>1
<1>3. \A k \in 2 .. Len(disk') : k \in 2 .. Len(disk) \/ k = Len(disk')
  BY <1>1
<1>4. Len(disk') \in 1 .. Len(disk') /\ \A k \in 1 .. Len(disk) : k \in 1 .. Len(disk')
  BY <1>1
<1>5. \A k \in 2 .. Len(disk) : k \in 1 .. Len(disk)
  OBVIOUS
<1>6. QED
  BY <1>1, <1>2, <1>3, <1>4, <1>5 DEF Written

\* Every step of every thread keeps TailInv.
LEMMA TailStep == TypeOK /\ PlaceInv /\ LayoutInv /\ TailInv /\ [Next]_vars => TailInv'
<1> SUFFICES ASSUME TypeOK, PlaceInv, LayoutInv, TailInv, [Next]_vars PROVE TailInv'
  OBVIOUS
<1> USE ConstantFacts, Typed
<1>1. ASSUME CreateThread PROVE TailInv'
  <2>1. pc[Main] = "create" /\ pc[started] = "unborn"
    BY <1>1 DEF CreateThread, At, TypeOK, SharedOK, PlaceInv, StartInv, Main, Threads
  <2>2. pc'[Main] = "create" /\ disk' = disk
    BY <1>1, <2>1 DEF CreateThread, fileVars
  <2>3. QED
    BY <2>1, <2>2, TailWorking DEF Last, Finishing
<1>2. ASSUME AllCreated \/ Join \/ AllJoined PROVE TailInv'
  <2>1. pc[Main] \notin Last /\ pc'[Main] \notin Last /\ disk' = disk
    BY <1>2 DEF AllCreated, Join, AllJoined, At, Goto, Last, Finishing, fileVars
  <2>2. QED
    BY <2>1, TailWorking
<1>3. ASSUME WriteHT PROVE TailInv'
  <2>1. pc[Main] = "hash table" /\ pc'[Main] = "block table"
    BY <1>3 DEF WriteHT, At, Goto
  <2>2. fpos = Offset + bytesWritten
    <3>1. Writing = {}
      BY <2>1, AllDone
    <3>2. QED
      BY <2>1, <3>1 DEF LayoutInv, PhaseInv
  <2>3. /\ ht' = ht /\ bt' = bt /\ bytesWritten' = bytesWritten
        /\ disk' = Append(disk, HTWrite)
        /\ fpos' = Offset + bytesWritten + EntrySize * HtSize
    BY <1>3, <2>2 DEF WriteHT, Fwrite, HTWrite, tableVars, countVars
  <2>4. HTWrite \in Writes /\ HTWrite.len > 0 /\ HTWrite.data.kind = "hash table"
    <3>1. EntrySize * HtSize > 0 /\ EntrySize * HtSize \in Nat
      BY DEF EntrySize
    <3>2. Offset + bytesWritten \in Nat
      BY RepackAssumption
    <3>3. [kind |-> "hash table", value |-> ht] \in Data
      BY DEF TypeOK, TablesOK, Data
    <3>4. QED
      BY <3>1, <3>2, <3>3 DEF HTWrite, Writes
  <2>5. HTWrite' = HTWrite
    BY <2>3 DEF HTWrite
  <2>6. Written("block table") = {} /\ Written("header") = {} /\ Written("hash table") = {}
    BY <2>1 DEF TailInv, Finishing
  <2>7. \A k \in 2 .. Len(disk) : disk[k].len > 0
    BY DEF TailInv
  <2>8. /\ \A k \in 2 .. Len(disk') : disk'[k].len > 0
        /\ \A k \in Written("hash table")' : disk'[k] = HTWrite
        /\ Written("hash table")' # {}
    BY <2>3, <2>4, <2>6, <2>7, WrittenMore
  <2>9. /\ \A k \in Written("block table")' : FALSE
        /\ \A k \in Written("header")' : FALSE
    BY <2>3, <2>4, <2>6, WrittenMore
  <2>10. fpos' = Offset + (bytesWritten + EntrySize * HtSize)
    BY <2>3, RepackAssumption DEF EntrySize
  <2>11. QED
    BY <2>1, <2>3, <2>5, <2>8, <2>9, <2>10 DEF TailInv, Finishing
<1>4. ASSUME WriteBT PROVE TailInv'
  <2>1. pc[Main] = "block table" /\ pc'[Main] = "header"
    BY <1>4 DEF WriteBT, At, Goto
  <2>2. fpos = Offset + (bytesWritten + EntrySize * HtSize)
    BY <2>1 DEF TailInv
  <2>3. /\ ht' = ht /\ bt' = bt /\ bytesWritten' = bytesWritten
        /\ HTWrite' = HTWrite /\ BTWrite' = BTWrite
    BY <1>4 DEF WriteBT, HTWrite, BTWrite, tableVars, countVars
  <2>4. /\ Written("block table") = {} /\ Written("header") = {}
        /\ Written("hash table") # {}
        /\ \A k \in Written("hash table") : disk[k] = HTWrite
        /\ \A k \in 2 .. Len(disk) : disk[k].len > 0
    BY <2>1 DEF TailInv, Finishing
  <2>5. CASE bt = <<>>
    <3>1. disk' = disk
      BY <1>4, <2>5 DEF WriteBT, fileVars
    <3>2. \A kind : Written(kind)' = Written(kind)
      BY <3>1 DEF Written
    <3>3. QED
      BY <2>1, <2>3, <2>4, <2>5, <3>1, <3>2 DEF TailInv, Finishing
  <2>6. CASE bt # <<>>
    <3>1. disk' = Append(disk, BTWrite)
      BY <1>4, <2>2, <2>6 DEF WriteBT, Fwrite, BTWrite
    <3>2. BTWrite \in Writes /\ BTWrite.len > 0 /\ BTWrite.data.kind = "block table"
      <4>1. Len(bt) > 0
        BY <2>6
      <4>2. EntrySize * Len(bt) > 0 /\ EntrySize * Len(bt) \in Nat
        BY <4>1 DEF EntrySize
      <4>3. Offset + (bytesWritten + EntrySize * HtSize) \in Nat
        BY RepackAssumption DEF EntrySize
      <4>4. [kind |-> "block table", value |-> bt] \in Data
        BY DEF TypeOK, TablesOK, Data
      <4>5. QED
        BY <4>2, <4>3, <4>4 DEF BTWrite, Writes
    <3>3. /\ \A k \in 2 .. Len(disk') : disk'[k].len > 0
          /\ \A k \in Written("block table")' : disk'[k] = BTWrite
          /\ Written("block table")' # {}
      BY <2>4, <3>1, <3>2, WrittenMore
    <3>4. /\ \A k \in Written("hash table")' : disk'[k] = HTWrite
          /\ Written("hash table")' # {}
          /\ \A k \in Written("header")' : FALSE
      BY <2>4, <3>1, <3>2, WrittenMore
    <3>5. QED
      BY <2>1, <2>3, <3>3, <3>4 DEF TailInv, Finishing
  <2>7. QED
    BY <2>5, <2>6
<1>5. ASSUME WriteHeader PROVE TailInv'
  <2>1. pc[Main] = "header" /\ pc'[Main] = "close"
    BY <1>5 DEF WriteHeader, At, Goto
  <2>2. disk' = Append(disk, HeaderWrite)
    BY <1>5 DEF WriteHeader, HeaderWrite
  <2>3. /\ ht' = ht /\ bt' = bt /\ bytesWritten' = bytesWritten
        /\ HTWrite' = HTWrite /\ BTWrite' = BTWrite /\ HeaderWrite' = HeaderWrite
    BY <1>5 DEF WriteHeader, HTWrite, BTWrite, HeaderWrite, Header, tableVars, countVars
  <2>4. /\ Written("header") = {}
        /\ Written("hash table") # {}
        /\ bt # <<>> => Written("block table") # {}
        /\ \A k \in Written("hash table") : disk[k] = HTWrite
        /\ \A k \in Written("block table") : disk[k] = BTWrite
        /\ \A k \in 2 .. Len(disk) : disk[k].len > 0
    BY <2>1 DEF TailInv, Finishing
  <2>5. HeaderWrite \in Writes /\ HeaderWrite.len > 0 /\ HeaderWrite.data.kind = "header"
    <3>1. [kind |-> "header", value |-> Header] \in Data
      BY HeaderType DEF Data
    <3>2. QED
      BY <3>1, RepackAssumption DEF HeaderWrite, HeaderSize, Writes
  <2>6. /\ \A k \in 2 .. Len(disk') : disk'[k].len > 0
        /\ \A k \in Written("header")' : disk'[k] = HeaderWrite
        /\ Written("header")' # {}
    BY <2>2, <2>4, <2>5, WrittenMore
  <2>7. /\ \A k \in Written("hash table")' : disk'[k] = HTWrite
        /\ Written("hash table")' # {}
        /\ \A k \in Written("block table")' : disk'[k] = BTWrite
        /\ bt # <<>> => Written("block table")' # {}
    BY <2>2, <2>4, <2>5, WrittenMore
  <2>8. QED
    BY <2>1, <2>3, <2>6, <2>7 DEF TailInv, Finishing
<1>6. ASSUME Close \/ (\E t \in Threads : Exit(t) \/ Crash(t)) \/ UNCHANGED vars PROVE TailInv'
  <2>1. /\ ht' = ht /\ bt' = bt /\ bytesWritten' = bytesWritten /\ disk' = disk /\ fpos' = fpos
        /\ pc'[Main] = pc[Main] \/ (pc[Main] = "close" /\ pc'[Main] = "done")
    <3>1. CASE Close
      BY <3>1 DEF Close, At, Goto, tableVars, countVars, fileVars
    <3>2. CASE \E t \in Threads : Exit(t) \/ Crash(t)
      BY <3>2 DEF Exit, Crash, tableVars, countVars, fileVars
    <3>3. CASE UNCHANGED vars
      BY <3>3 DEF vars
    <3>4. QED
      BY <1>6, <3>1, <3>2, <3>3
  <2>2. /\ \A kind : Written(kind)' = Written(kind)
        /\ HTWrite' = HTWrite /\ BTWrite' = BTWrite /\ HeaderWrite' = HeaderWrite
    BY <2>1 DEF Written, HTWrite, BTWrite, HeaderWrite, Header
  <2>3. QED
    BY <2>1, <2>2 DEF TailInv, Finishing
<1>7. ASSUME NEW t \in Threads, WriteFile(t) PROVE TailInv'
  <2>1. pc[t] = "write" /\ pc'[t] = "insert" /\ \A u \in Threads : u # t => pc'[u] = pc[u]
    BY <1>7 DEF WriteFile, At, Goto
  <2>2. pc[Main] \notin Last /\ pc'[Main] \notin Last
    BY <2>1, NotFinishing DEF Last, Finishing
  <2>3. content[t] \in Contents /\ outsize[t] > 0
    BY <2>1 DEF TypeOK, ThreadsOK, LocalsOK
  <2>4. /\ [pos |-> fpos, len |-> outsize[t], data |-> FileData(content[t])] \in Writes
        /\ disk' = Append(disk, [pos |-> fpos, len |-> outsize[t],
                                 data |-> FileData(content[t])])
    BY <1>7, <2>3 DEF WriteFile, Fwrite, Writes, Data, FileData
  <2>5. \E w \in Writes : w.len > 0 /\ w.data.kind = "file" /\ disk' = Append(disk, w)
    BY <2>3, <2>4 DEF FileData
  <2>6. QED
    BY <2>2, <2>5, TailWorking
<1>8. ASSUME NEW t \in Threads,
             \/ PopLock(t) \/ PopRead(t) \/ PopAdvance(t) \/ PopUnlock(t)
             \/ Extract(t) \/ ExtractFails(t) \/ Pack(t) \/ Lock(t)
             \/ InsertFile(t) \/ Account(t) \/ Unlock(t)
      PROVE  TailInv'
  <2>1. /\ pc[t] \notin Finishing
        /\ pc'[t] \notin Last \/ (t # Main /\ pc'[t] = "done")
        /\ \A u \in Threads : u # t => pc'[u] = pc[u]
        /\ disk' = disk
    BY <1>8 DEF PopLock, PopRead, PopAdvance, PopUnlock, AfterPop, Extract, ExtractFails, Pack,
                Lock, InsertFile, Account, Unlock, At, Goto, Last, Finishing, fileVars
  <2>2. pc[Main] \notin Last /\ pc'[Main] \notin Last
    BY <2>1, NotFinishing DEF Last
  <2>3. QED
    BY <2>1, <2>2, TailWorking
<1>9. QED
  BY <1>1, <1>2, <1>3, <1>4, <1>5, <1>6, <1>7, <1>8 DEF Next, MainStep, WorkerStep

-----------------------------------------------------------------------------
(* Which writes are those of files. *)

\* FilesInv holds when mkmpq begins.
LEMMA FilesInit == Init => FilesInv
<1> SUFFICES ASSUME Init PROVE FilesInv
  OBVIOUS
<1>1. disk = <<[pos |-> 0, len |-> Offset, data |-> [kind |-> "pre", value |-> 0]]>>
  BY DEF Init
<1>2. \A k \in 1 .. Len(disk) : disk[k].data.kind = "pre"
  BY <1>1
<1>3. QED
  BY <1>2 DEF FilesInv, Filed, FileData

\* Steps that write no file, insert none and begin or end no insertion.
LEMMA FilesSame ==
    ASSUME TypeOK, FilesInv, bt' = bt,
           \A t \in Threads : pc[t] = "insert" => pc'[t] = "insert",
           \/ disk' = disk
           \/ \E w \in Writes : w.data.kind # "file" /\ disk' = Append(disk, w)
    PROVE  FilesInv'
<1>1. \A k \in 1 .. Len(disk'), p \in Elems :
         Filed(k, p)' => k \in 1 .. Len(disk) /\ Filed(k, p)
  <2>1. CASE disk' = disk
    BY <2>1 DEF Filed
  <2>2. ASSUME NEW w \in Writes, w.data.kind # "file", disk' = Append(disk, w)
        PROVE  \A k \in 1 .. Len(disk'), p \in Elems :
                  Filed(k, p)' => k \in 1 .. Len(disk) /\ Filed(k, p)
    <3>1. /\ Len(disk) \in Nat /\ Len(disk') = Len(disk) + 1
          /\ \A k \in 1 .. Len(disk) : disk'[k] = disk[k]
          /\ disk'[Len(disk')] = w
      BY <2>2, DiskGrown
    <3>2. \A k \in 1 .. Len(disk') : k \in 1 .. Len(disk) \/ k = Len(disk')
      BY <3>1
    <3>3. QED
      BY <2>2, <3>1, <3>2 DEF Filed, FileData
  <2>3. QED
    BY <2>1, <2>2
<1>2. QED
  BY <1>1 DEF FilesInv

\* Every step of every thread keeps FilesInv.
LEMMA FilesStep == TypeOK /\ PlaceInv /\ LayoutInv /\ FilesInv /\ [Next]_vars => FilesInv'
<1> SUFFICES ASSUME TypeOK, PlaceInv, LayoutInv, FilesInv, [Next]_vars PROVE FilesInv'
  OBVIOUS
<1> USE ConstantFacts, Typed
<1>1. ASSUME CreateThread PROVE FilesInv'
  <2>1. pc[started] = "unborn"
    BY <1>1 DEF CreateThread, At, TypeOK, SharedOK, PlaceInv, StartInv, Main, Threads
  <2>2. \A t \in Threads : pc[t] = "insert" => pc'[t] = "insert"
    BY <1>1, <2>1 DEF CreateThread
  <2>3. bt' = bt /\ disk' = disk
    BY <1>1 DEF CreateThread, tableVars, fileVars
  <2>4. QED
    BY <2>2, <2>3, FilesSame
<1>2. ASSUME AllCreated \/ Join \/ AllJoined \/ Close PROVE FilesInv'
  <2>1. /\ bt' = bt /\ disk' = disk
        /\ \A t \in Threads : pc[t] = "insert" => pc'[t] = "insert"
    BY <1>2 DEF AllCreated, Join, AllJoined, Close, At, Goto, tableVars, fileVars
  <2>2. QED
    BY <2>1, FilesSame
<1>3. ASSUME WriteHT PROVE FilesInv'
  <2>1. bt' = bt /\ \A t \in Threads : pc[t] = "insert" => pc'[t] = "insert"
    BY <1>3 DEF WriteHT, At, Goto, tableVars
  <2>2. \E w \in Writes : w.data.kind # "file" /\ disk' = Append(disk, w)
    <3> DEFINE w == [pos |-> fpos, len |-> EntrySize * HtSize,
                     data |-> [kind |-> "hash table", value |-> ht]]
    <3>1. [kind |-> "hash table", value |-> ht] \in Data
      BY DEF TypeOK, TablesOK, Data
    <3>2. w \in Writes
      BY <3>1, TableSizes DEF Writes
    <3>3. QED
      BY <1>3, <3>2 DEF WriteHT, Fwrite
  <2>3. QED
    BY <2>1, <2>2, FilesSame
<1>4. ASSUME WriteBT PROVE FilesInv'
  <2>1. bt' = bt /\ \A t \in Threads : pc[t] = "insert" => pc'[t] = "insert"
    BY <1>4 DEF WriteBT, At, Goto, tableVars
  <2>2. \/ disk' = disk
        \/ \E w \in Writes : w.data.kind # "file" /\ disk' = Append(disk, w)
    <3> DEFINE w == [pos |-> fpos, len |-> EntrySize * Len(bt),
                     data |-> [kind |-> "block table", value |-> bt]]
    <3>1. [kind |-> "block table", value |-> bt] \in Data
      BY DEF TypeOK, TablesOK, Data
    <3>2. w \in Writes
      BY <3>1, TableSizes DEF Writes
    <3>3. QED
      BY <1>4, <3>2 DEF WriteBT, Fwrite, fileVars
  <2>3. QED
    BY <2>1, <2>2, FilesSame
<1>5. ASSUME WriteHeader PROVE FilesInv'
  <2>1. bt' = bt /\ \A t \in Threads : pc[t] = "insert" => pc'[t] = "insert"
    BY <1>5 DEF WriteHeader, At, Goto, tableVars
  <2>2. \E w \in Writes : w.data.kind # "file" /\ disk' = Append(disk, w)
    <3> DEFINE w == [pos |-> Offset, len |-> HeaderSize,
                     data |-> [kind |-> "header", value |-> Header]]
    <3>1. [kind |-> "header", value |-> Header] \in Data
      BY HeaderType DEF Data
    <3>2. w \in Writes
      BY <3>1, RepackAssumption DEF Writes, HeaderSize
    <3>3. QED
      BY <1>5, <3>2 DEF WriteHeader
  <2>3. QED
    BY <2>1, <2>2, FilesSame
<1>6. ASSUME NEW t \in Threads, WriteFile(t) PROVE FilesInv'
  <2>1. pc[t] = "write" /\ pc'[t] = "insert" /\ bt' = bt
    BY <1>6 DEF WriteFile, At, Goto, tableVars
  <2>2. content[t] \in Contents /\ outsize[t] > 0
    BY <2>1 DEF TypeOK, ThreadsOK, LocalsOK
  <2>3. /\ [pos |-> fpos, len |-> outsize[t], data |-> FileData(content[t])] \in Writes
        /\ disk' = Append(disk, [pos |-> fpos, len |-> outsize[t],
                                 data |-> FileData(content[t])])
    BY <1>6, <2>2 DEF WriteFile, Fwrite, Writes, Data, FileData
  <2>4. /\ Len(disk) \in Nat /\ Len(disk') = Len(disk) + 1
        /\ \A k \in 1 .. Len(disk) : disk'[k] = disk[k]
    BY <2>3, DiskGrown
  <2>5. Len(disk) > 0
    BY DEF LayoutInv, DiskInv
  <2>6. \A k \in 1 .. Len(disk') : k >= 2 \/ k \in 1 .. Len(disk)
    BY <2>4, <2>5
  <2>7. \A k \in 1 .. Len(disk), p \in Elems : Filed(k, p)' => k >= 2
    BY <2>4 DEF Filed, FilesInv
  <2>8. QED
    BY <2>1, <2>6, <2>7 DEF FilesInv
<1>7. ASSUME NEW t \in Threads, InsertFile(t) PROVE FilesInv'
  <2>1. pc[t] = "insert"
    BY <1>7 DEF InsertFile, At
  <2>2. Len(disk) = Len(bt) + 2
    BY <2>1 DEF LayoutInv, PhaseInv
  <2>3. disk' = disk /\ Len(bt') = Len(bt) + 1
    BY <1>7, AppendFacts DEF InsertFile, Insert, InsertBT, fileVars
  <2>4. \A k \in 1 .. Len(disk') : k <= Len(bt') + 1
    BY <2>2, <2>3
  <2>5. QED
    BY <2>3, <2>4 DEF FilesInv, Filed
<1>8. ASSUME NEW t \in Threads,
             \/ PopLock(t) \/ PopRead(t) \/ PopAdvance(t) \/ PopUnlock(t)
             \/ Extract(t) \/ ExtractFails(t) \/ Pack(t) \/ Lock(t)
             \/ Account(t) \/ Unlock(t)
      PROVE  FilesInv'
  <2>1. /\ bt' = bt /\ disk' = disk
        /\ pc[t] # "insert"
        /\ \A u \in Threads : u # t => pc'[u] = pc[u]
    BY <1>8 DEF PopLock, PopRead, PopAdvance, PopUnlock, Extract, ExtractFails, Pack, Lock,
                Account, Unlock, At, Goto, tableVars, fileVars
  <2>2. QED
    BY <2>1, FilesSame
<1>9. ASSUME (\E t \in Threads : Exit(t) \/ Crash(t)) \/ UNCHANGED vars PROVE FilesInv'
  <2>1. bt' = bt /\ disk' = disk /\ pc' = pc
    <3>1. CASE \E t \in Threads : Exit(t) \/ Crash(t)
      BY <3>1 DEF Exit, Crash, tableVars, fileVars
    <3>2. CASE UNCHANGED vars
      BY <3>2 DEF vars
    <3>3. QED
      BY <1>9, <3>1, <3>2
  <2>2. QED
    BY <2>1, FilesSame
<1>10. QED
  BY <1>1, <1>2, <1>3, <1>4, <1>5, <1>6, <1>7, <1>8, <1>9 DEF Next, MainStep, WorkerStep

-----------------------------------------------------------------------------
(* The invariant as a whole. *)

\* IInv holds when mkmpq begins.
LEMMA WholeInit == Init => TypeOK /\ IInv
<1>1. Init => InitTable
  BY DEF Init
<1>2. QED
  BY <1>1, TypeInit, InvInit, LayoutInit, InitTableInv, DrainInit, CountInit, FilesInit, TailInit
     DEF IInv

\* Every step of every thread keeps IInv.
LEMMA WholeStep == TypeOK /\ IInv /\ [Next]_vars => TypeOK' /\ IInv'
<1> SUFFICES ASSUME TypeOK, IInv, [Next]_vars PROVE TypeOK' /\ IInv'
  OBVIOUS
<1>1. PlaceInv /\ LayoutInv /\ TableInv /\ DrainInv /\ CountInv /\ FilesInv /\ TailInv
  BY DEF IInv
<1>2. TypeOK' /\ PlaceInv' /\ LayoutInv'
  BY <1>1, TypeStep, InvStep, LayoutStep
<1>3. TableInv' /\ DrainInv' /\ CountInv' /\ FilesInv' /\ TailInv'
  BY <1>1, TableStep, DrainStep, CountStep, FilesStep, TailStep
<1>4. QED
  BY <1>2, <1>3 DEF IInv

\* The two mutexes, the queue, the order of the writes, the tables and the
\* counters of mkmpq and its workers fit together in every reachable state,
\* for any number of threads and files.
LEMMA InvariantHolds == Spec => [](TypeOK /\ IInv)
BY WholeInit, WholeStep, PTL DEF Spec

\* The queue hands each path to one thread, which extracts it once: with any
\* number of threads no file is decrypted a second time by the workers.  Data
\* are garbled only through the extraction by main (PopulateListfile): those
\* of an encrypted listfile that is in the queue under another spelling are,
\* and others may be after its extraction (ExtractFile, PackFiles).
THEOREM NoFileDecryptedTwice == Spec => []DecryptedOnce
<1>1. TypeOK /\ IInv => DecryptedOnce
  <2> SUFFICES ASSUME TypeOK, IInv PROVE DecryptedOnce
    OBVIOUS
  <2>1. ASSUME NEW t \in Threads,
               pc[t] \in {"pack", "lock", "write", "insert", "account", "unlock"}
        PROVE  content[t].file = item[t] /\ SoundData(content[t])
    <3>1. item[t] \in Elems
      BY <2>1 DEF TypeOK, ThreadsOK, LocalsOK
    <3>2. content[t] \in DataOf(item[t]) /\ SoundData(content[t])
      BY <2>1 DEF IInv, PlaceInv, ContentInv
    <3>3. QED
      BY <3>1, <3>2, ElemFacts
  <2>2. ASSUME NEW k \in 1 .. Len(disk), disk[k].data.kind = "file"
        PROVE  SoundData(disk[k].data.value)
    <3>1. disk[k].data \in Data
      <4>1. disk[k] \in Writes
        BY ElementOfSeq DEF TypeOK, FileOK
      <4>2. QED
        BY <4>1 DEF Writes
    <3>2. PICK d \in Contents : disk[k].data = FileData(d)
      BY <2>2, <3>1 DEF Data, FileData
    <3>3. QED
      BY <3>2 DEF IInv, PlaceInv, ContentInv, FileData
  <2>3. QED
    BY <2>1, <2>2 DEF DecryptedOnce
<1>2. QED
  BY <1>1, InvariantHolds, PTL

\* What a reader may find of a kind is what was written of it.
LEMMA OnDiskWritten == \A kind : OnDisk(kind) = {disk[k].data.value : k \in Written(kind)}
BY DEF OnDisk, Written

\* The file has a header once one was written.
LEMMA SealedIffWritten == Sealed <=> Written("header") # {}
BY OnDiskWritten DEF Sealed

\* Outside the critical section nothing is written but not counted, and
\* nothing counted but not written.
LEMMA CountsAgree == TypeOK /\ IInv => Consistent
<1> SUFFICES ASSUME TypeOK, IInv, lock = None,
                    pc[Main] \notin MainLabels \ {"create", "join"}, ~ Sealed
             PROVE  /\ fpos = Offset + bytesWritten
                    /\ bytesWritten = HeaderSize + totalOutSize
                    /\ filesProceeded = 1 + Len(bt)
                    /\ Len(disk) = 1 + Len(bt)
                    /\ Cardinality({s \in Slots : ht[s].block # NoBlock}) = Len(bt)
  BY DEF Consistent
<1> USE ConstantFacts, Typed
<1>1. PlaceInv /\ LayoutInv /\ TableInv /\ CountInv /\ TailInv
  BY DEF IInv
<1>2. \A t \in Threads : pc[t] \notin {"insert", "account"}
  BY <1>1 DEF PlaceInv, LockInv
<1>3. Writing = {}
  BY <1>2 DEF Writing
<1>4. pc[Main] # "done"
  <2>1. Written("header") = {}
    BY SealedIffWritten
  <2>2. QED
    BY <1>1, <2>1 DEF TailInv
<1>5. pc[Main] \notin {"block table", "header", "close", "done"}
  BY <1>4 DEF MainLabels
<1>6. Len(disk) = Len(bt) + 1 /\ fpos = Offset + bytesWritten
  BY <1>1, <1>3, <1>5 DEF LayoutInv, PhaseInv
<1>7. bytesWritten = HeaderSize + totalOutSize /\ filesProceeded = 1 + Len(bt)
  BY <1>1, <1>2 DEF CountInv
<1>8. Cardinality({s \in Slots : ht[s].block # NoBlock}) = Len(bt)
  BY <1>1 DEF TableInv, UsedInv, UsedSlots
<1>9. QED
  BY <1>6, <1>7, <1>8

\* Whatever the interleaving of PackFiles, the position in the output file,
\* bytesWritten, totalOutSize, filesProceeded and the two tables agree
\* whenever no thread is in the critical section.
THEOREM CountersConsistent == Spec => []Consistent
BY InvariantHolds, CountsAgree, PTL

-----------------------------------------------------------------------------
(* The end of the program. *)

\* The header is on disk only when main is about to close the file.
LEMMA SealedAtEnd == TypeOK /\ IInv /\ Sealed => pc[Main] \in {"close", "done"}
BY SealedIffWritten DEF IInv, TailInv

\* And then it is.
LEMMA SealedFromEnd == TypeOK /\ IInv /\ pc[Main] \in {"close", "done"} => Sealed
BY SealedIffWritten DEF IInv, TailInv

\* When main finishes the file every queued file is in, and nobody else is at
\* work.
LEMMA AllFiled ==
    ASSUME TypeOK, IInv, pc[Main] \in Finishing
    PROVE  /\ \A t \in Threads : t # Main => pc[t] = "done"
           /\ Len(bt) = QueueSize
           /\ lock = None /\ qlock = None
           /\ \A p \in Elems : \E i \in 1 .. Len(bt) : Filed(i + 1, p)
<1> USE ConstantFacts, Typed
<1>1. PlaceInv /\ LayoutInv /\ DrainInv /\ FilesInv
  BY DEF IInv
<1>2. \A t \in Threads : t # Main => pc[t] = "done"
  BY <1>1, AllDone DEF Finishing
<1>3. cur = QueueSize
  BY <1>1 DEF DrainInv
<1>4. lock = None /\ qlock = None
  <2>1. \A t \in Threads :
           pc[t] \notin {"write", "insert", "account", "unlock", "read", "advance", "leave"}
    BY <1>2 DEF Finishing
  <2>2. lock \notin Threads /\ qlock \notin Threads
    BY <1>1, <2>1 DEF PlaceInv, LockInv
  <2>3. QED
    BY <2>2 DEF TypeOK, SharedOK
<1>5. \A p \in Elems : \E k \in 2 .. Len(bt) + 1 : Filed(k, p)
  <2> SUFFICES ASSUME NEW p \in Elems PROVE \E k \in 2 .. Len(bt) + 1 : Filed(k, p)
    OBVIOUS
  <2>1. \A t \in Threads : ~ InHand(t, p)
    BY <1>2 DEF InHand, Finishing
  <2>2. p \in 0 .. cur - 1
    BY <1>3 DEF Elems
  <2>3. PICK k \in 1 .. Len(disk) : Filed(k, p)
    BY <1>1, <2>1, <2>2 DEF PlaceInv, FiledInv
  <2>4. k >= 2 /\ k <= Len(bt) + 1
    BY <1>1, <1>2, <2>3 DEF FilesInv, Finishing
  <2>5. k \in 2 .. Len(bt) + 1
    BY <2>4
  <2>6. QED
    BY <2>3, <2>5
<1>6. \A k \in 2 .. Len(bt) + 1 : \E p \in Elems : Filed(k, p)
  <2> SUFFICES ASSUME NEW k \in 2 .. Len(bt) + 1 PROVE \E p \in Elems : Filed(k, p)
    OBVIOUS
  <2>1. k - 1 \in 1 .. Len(bt) /\ (k - 1) + 1 = k
    OBVIOUS
  <2>2. PICK p \in Elems : Filed((k - 1) + 1, p)
    BY <1>1, <2>1 DEF LayoutInv, EntryInv
  <2>3. QED
    BY <2>1, <2>2
<1>7. Len(bt) < Len(disk)
  BY <1>1 DEF LayoutInv, EntryInv
<1>8. Len(bt) = QueueSize
  BY <1>1, <1>5, <1>6, <1>7, FilesAll
<1>9. \A p \in Elems : \E i \in 1 .. Len(bt) : Filed(i + 1, p)
  <2> SUFFICES ASSUME NEW p \in Elems PROVE \E i \in 1 .. Len(bt) : Filed(i + 1, p)
    OBVIOUS
  <2>1. PICK k \in 2 .. Len(bt) + 1 : Filed(k, p)
    BY <1>5
  <2>2. k - 1 \in 1 .. Len(bt) /\ (k - 1) + 1 = k
    OBVIOUS
  <2>3. QED
    BY <2>1, <2>2
<1>10. QED
  BY <1>2, <1>4, <1>8, <1>9

\* After the header nothing changes the file or the tables.
LEMMA SealedStill ==
    ASSUME TypeOK, IInv, Sealed, [Next]_vars
    PROVE  UNCHANGED <<disk, ht, bt>> /\ ~ WriteHeader
<1> USE ConstantFacts, Typed
<1>1. pc[Main] \in {"close", "done"} /\ \A t \in Threads : pc[t] \in {"close", "done"}
  BY SealedAtEnd, AllFiled DEF Finishing
<1>2. CASE UNCHANGED vars
  <2>1. pc' = pc
    BY <1>2 DEF vars
  <2>2. ~ WriteHeader
    BY <1>1 DEF WriteHeader, At
  <2>3. QED
    BY <1>2, <2>2 DEF vars
<1>3. ASSUME MainStep PROVE UNCHANGED <<disk, ht, bt>> /\ ~ WriteHeader
  <2>1. ~ WriteHeader
    BY <1>1 DEF WriteHeader, At
  <2>2. Close
    BY <1>1, <1>3 DEF MainStep, CreateThread, AllCreated, Join, AllJoined, WriteHT, WriteBT,
                      WriteHeader, At
  <2>3. QED
    BY <2>1, <2>2 DEF Close, tableVars, fileVars
<1>4. ASSUME NEW t \in Threads, WorkerStep(t) PROVE FALSE
  <2>1. pc[t] \in {"close", "done"}
    BY <1>1
  <2>2. QED
    BY <1>4, <2>1 DEF WorkerStep, PopLock, PopRead, PopAdvance, PopUnlock, Extract, ExtractFails,
                      Pack, Lock, WriteFile, InsertFile, Account, Unlock, Exit, Crash, At
<1>5. QED
  BY <1>2, <1>3, <1>4 DEF Next

\* Only WriteHeader makes the file an archive.
LEMMA SealedBy ==
    ASSUME TypeOK, IInv, TypeOK', IInv', ~ Sealed, Sealed', [Next]_vars
    PROVE  WriteHeader
<1> USE ConstantFacts, Typed
<1>1. pc[Main] \notin {"close", "done"}
  BY SealedIffWritten DEF IInv, TailInv
<1>2. pc'[Main] \in {"close", "done"}
  <2>1. (TypeOK /\ IInv /\ Sealed => pc[Main] \in {"close", "done"})'
    BY SealedAtEnd, PTL
  <2>2. QED
    BY <2>1
<1>3. CASE UNCHANGED vars
  BY <1>1, <1>2, <1>3 DEF vars
<1>4. ASSUME MainStep PROVE WriteHeader
  <2>1. CASE CreateThread
    BY <1>1, <1>2, <2>1 DEF CreateThread
  <2>2. CASE AllCreated \/ Join \/ AllJoined \/ WriteHT \/ WriteBT
    BY <1>1, <1>2, <2>2 DEF AllCreated, Join, AllJoined, WriteHT, WriteBT, At, Goto
  <2>3. CASE Close
    BY <1>1, <2>3 DEF Close, At
  <2>4. QED
    BY <1>4, <2>1, <2>2, <2>3 DEF MainStep
<1>5. ASSUME NEW t \in Threads, WorkerStep(t) PROVE WriteHeader
  <2>1. CASE t = Main
    <3>1. pc'[t] \notin {"close", "done"} \/ pc' = pc
      BY <1>5, <2>1 DEF WorkerStep, PopLock, PopRead, PopAdvance, PopUnlock, AfterPop, Extract,
                        ExtractFails, Pack, Lock, WriteFile, InsertFile, Account, Unlock, Exit, Crash,
                        At, Goto
    <3>2. QED
      BY <1>1, <1>2, <2>1, <3>1
  <2>2. CASE t # Main
    <3>1. pc'[Main] = pc[Main]
      BY <1>5, <2>2 DEF WorkerStep, PopLock, PopRead, PopAdvance, PopUnlock, Extract,
                        ExtractFails, Pack, Lock, WriteFile, InsertFile, Account, Unlock, Exit, Crash,
                        Goto
    <3>2. QED
      BY <1>1, <1>2, <3>1
  <2>3. QED
    BY <2>1, <2>2
<1>6. QED
  BY <1>3, <1>4, <1>5 DEF Next

\* mkmpq writes the header when the workers are joined and every queued file
\* is in the tables, and nothing after it.
THEOREM HeaderIsLast == Spec => SealedLast
<1>1. TypeOK /\ IInv /\ TypeOK' /\ IInv' /\ [Next]_vars =>
        [/\ Sealed => UNCHANGED <<disk, ht, bt>>
         /\ Sealed' => /\ \A t \in Threads \ {Main} : pc[t] = "done"
                       /\ Len(bt) = QueueSize
                       /\ lock = None /\ qlock = None]_vars
  <2> SUFFICES ASSUME TypeOK, IInv, TypeOK', IInv', [Next]_vars
               PROVE  /\ Sealed => UNCHANGED <<disk, ht, bt>>
                      /\ Sealed' => /\ \A t \in Threads \ {Main} : pc[t] = "done"
                                    /\ Len(bt) = QueueSize
                                    /\ lock = None /\ qlock = None
    OBVIOUS
  <2>1. Sealed => UNCHANGED <<disk, ht, bt>>
    BY SealedStill
  <2>2. Sealed' => Sealed \/ WriteHeader
    BY SealedBy
  <2>3. Sealed' => pc[Main] \in Finishing
    BY <2>2, SealedAtEnd DEF WriteHeader, At, Finishing
  <2>4. QED
    BY <2>1, <2>3, AllFiled
<1>2. QED
  BY <1>1, InvariantHolds, PTL DEF SealedLast, Spec

-----------------------------------------------------------------------------
(* What a reader finds. *)

\* The header is read from where the archive begins: it is the last write.
LEMMA HeaderRead ==
    ASSUME TypeOK, IInv, Sealed
    PROVE  /\ OnDisk("header") = {Header}
           /\ Reads(Offset, HeaderSize, [kind |-> "header", value |-> Header])
<1> USE Typed
<1>1. Written("header") # {}
  BY SealedIffWritten
<1>2. \A k \in Written("header") : disk[k] = HeaderWrite /\ k = Len(disk)
  BY DEF IInv, TailInv, LayoutInv, DiskInv, Written
<1>3. OnDisk("header") = {Header}
  BY <1>1, <1>2, OnDiskWritten DEF HeaderWrite
<1>4. PICK k \in Written("header") : disk[k] = HeaderWrite /\ k = Len(disk)
  BY <1>1, <1>2
<1>5. k \in 1 .. Len(disk)
  BY DEF Written
<1>6. Intact(k)
  BY <1>4 DEF Intact
<1>7. QED
  BY <1>3, <1>4, <1>5, <1>6 DEF Reads, HeaderWrite

\* The parts of the two writes.
LEMMA TableWrites ==
    /\ HTWrite.pos = Offset + bytesWritten /\ HTWrite.len = EntrySize * HtSize
    /\ HTWrite.data.kind = "hash table" /\ HTWrite.data.value = ht
    /\ BTWrite.pos = Offset + (bytesWritten + EntrySize * HtSize)
    /\ BTWrite.len = EntrySize * Len(bt)
    /\ BTWrite.data.kind = "block table" /\ BTWrite.data.value = bt
BY DEF HTWrite, BTWrite

\* What is below the limit of the file is below the limit of a field.
LEMMA BelowWord ==
    ASSUME NEW m \in Nat, NEW n \in Nat, Offset + m + n < Offset + Word
    PROVE  m \in 0 .. Word - 1 /\ m % Word = m
BY RepackAssumption, ModSmall

\* The header leads to the hash table.
LEMMA HashTableRead ==
    ASSUME TypeOK, IInv, Fits, Sealed
    PROVE  /\ OnDisk("hash table") = {ht}
           /\ Reads(Offset + Header.htPos, EntrySize * Header.htSize,
                    [kind |-> "hash table", value |-> ht])
<1> USE Typed
<1>1. pc[Main] \in {"close", "done"}
  BY SealedAtEnd
<1>2. /\ Written("hash table") # {}
      /\ \A k \in Written("hash table") : disk[k] = HTWrite
  BY <1>1 DEF IInv, TailInv, Finishing
<1>3. OnDisk("hash table") = {ht}
  <2>1. \A k \in Written("hash table") : disk[k].data.value = ht
    BY <1>2, TableWrites
  <2>2. QED
    BY <1>2, <2>1, OnDiskWritten
<1>4. PICK k \in 1 .. Len(disk) : disk[k] = HTWrite
  BY <1>2 DEF Written
<1>5. bytesWritten >= HeaderSize
  BY DEF IInv, CountInv, HeaderSize
<1>6. Intact(k)
  <2>1. disk[k].pos >= Offset + HeaderSize
    <3>1. disk[k].pos = Offset + bytesWritten
      BY <1>4, TableWrites
    <3>2. bytesWritten \in Nat /\ Offset \in Nat /\ bytesWritten >= 32
      BY <1>5, RepackAssumption DEF HeaderSize
    <3>3. QED
      BY <3>1, <3>2 DEF HeaderSize
  <2>2. disk[k].data.kind # "header"
    BY <1>4, TableWrites
  <2>3. LayoutInv
    BY DEF IInv
  <2>4. QED
    BY <2>1, <2>2, <2>3, DataIntact
<1>7. Header.htPos = bytesWritten
  <2>1. disk[k].pos + disk[k].len < Offset + Word
    BY DEF Fits
  <2>2. Offset + bytesWritten + EntrySize * HtSize < Offset + Word
    BY <1>4, <2>1, TableWrites
  <2>3. bytesWritten \in Nat /\ EntrySize * HtSize \in Nat
    BY TableSizes, AddNat
  <2>4. (bytesWritten) % Word = bytesWritten
    BY <2>2, <2>3, BelowWord
  <2>5. QED
    BY <2>4 DEF Header
<1>8. QED
  BY <1>3, <1>4, <1>6, <1>7 DEF Reads, HTWrite, Header

\* And to the block table, unless that is empty.
LEMMA BlockTableRead ==
    ASSUME TypeOK, IInv, Fits, Sealed, bt # <<>>
    PROVE  /\ OnDisk("block table") = {bt}
           /\ Reads(Offset + Header.btPos, EntrySize * Header.btSize,
                    [kind |-> "block table", value |-> bt])
<1> USE Typed
<1>1. pc[Main] \in {"close", "done"}
  BY SealedAtEnd
<1>2. /\ Written("block table") # {}
      /\ \A k \in Written("block table") : disk[k] = BTWrite
  BY <1>1 DEF IInv, TailInv, Finishing
<1>3. OnDisk("block table") = {bt}
  <2>1. \A k \in Written("block table") : disk[k].data.value = bt
    BY <1>2, TableWrites
  <2>2. QED
    BY <1>2, <2>1, OnDiskWritten
<1>4. PICK k \in 1 .. Len(disk) : disk[k] = BTWrite
  BY <1>2 DEF Written
<1>5. bytesWritten >= HeaderSize
  BY DEF IInv, CountInv, HeaderSize
<1>6. Intact(k)
  <2>1. disk[k].pos >= Offset + HeaderSize
    <3>1. disk[k].pos = Offset + (bytesWritten + EntrySize * HtSize)
      BY <1>4, TableWrites
    <3>2. /\ bytesWritten \in Nat /\ Offset \in Nat /\ bytesWritten >= 32
          /\ EntrySize * HtSize \in Nat
      BY <1>5, TableSizes, RepackAssumption DEF HeaderSize
    <3>3. \A size \in Nat : Offset + (bytesWritten + size) >= Offset + 32
      BY <3>2
    <3>4. QED
      BY <3>1, <3>2, <3>3 DEF HeaderSize
  <2>2. disk[k].data.kind # "header"
    BY <1>4, TableWrites
  <2>3. LayoutInv
    BY DEF IInv
  <2>4. QED
    BY <2>1, <2>2, <2>3, DataIntact
<1>7. Header.btPos = bytesWritten + EntrySize * HtSize
  <2>1. disk[k].pos + disk[k].len < Offset + Word
    BY DEF Fits
  <2>2. Offset + (bytesWritten + EntrySize * HtSize) + EntrySize * Len(bt) < Offset + Word
    BY <1>4, <2>1, TableWrites
  <2>3. bytesWritten + EntrySize * HtSize \in Nat /\ EntrySize * Len(bt) \in Nat
    BY TableSizes, AddNat
  <2>4. (bytesWritten + EntrySize * HtSize) % Word = bytesWritten + EntrySize * HtSize
    BY <2>2, <2>3, BelowWord
  <2>5. QED
    BY <2>4 DEF Header
<1>8. QED
  BY <1>3, <1>4, <1>6, <1>7 DEF Reads, BTWrite, Header

\* From the tables to the data: the range of block entry i holds the data of
\* one file, the one that was inserted as entry i.
LEMMA BlockRead ==
    ASSUME TypeOK, IInv, Fits, NEW i \in 1 .. Len(bt), NEW f \in Elems, NEW d \in DataOf(f)
    PROVE  /\ Reads(Offset + bt[i].filePos, bt[i].compressedSize, FileData(d)) <=>
                disk[i + 1].data = FileData(d)
           /\ Filed(i + 1, f) => /\ bt[i].normalSize = NormalSize[f]
                                 /\ names[i] = NameOf[f]
<1> USE WritesTyped
<1>1. LayoutInv
  BY DEF IInv
<1>2. /\ i + 1 \in 2 .. Len(disk) /\ i + 1 \in 1 .. Len(disk)
      /\ Offset + bt[i].filePos = disk[i + 1].pos
      /\ bt[i].compressedSize = disk[i + 1].len
      /\ Intact(i + 1)
  BY <1>1, BlockPlace, DataIntact
<1>3. disk[i + 1].len > 0
  BY <1>2 DEF IInv, TailInv
<1>4. ASSUME disk[i + 1].data = FileData(d)
      PROVE  Reads(Offset + bt[i].filePos, bt[i].compressedSize, FileData(d))
  <2>1. disk[i + 1] = [pos |-> Offset + bt[i].filePos, len |-> bt[i].compressedSize,
                       data |-> FileData(d)]
    BY <1>2, <1>4
  <2>2. QED
    BY <1>2, <2>1 DEF Reads
<1>5. ASSUME Reads(Offset + bt[i].filePos, bt[i].compressedSize, FileData(d))
      PROVE  disk[i + 1].data = FileData(d)
  <2>1. PICK k \in 1 .. Len(disk) :
           /\ disk[k] = [pos |-> Offset + bt[i].filePos, len |-> bt[i].compressedSize,
                         data |-> FileData(d)]
           /\ Intact(k)
    BY <1>5 DEF Reads
  <2>2. disk[k].pos = disk[i + 1].pos /\ disk[k].len = disk[i + 1].len
    BY <1>2, <2>1
  <2>3. ~ Disjoint(disk[k], disk[i + 1]) /\ ~ Disjoint(disk[i + 1], disk[k])
    <3>1. disk[k].pos \in Nat /\ disk[k].len \in Nat
      OBVIOUS
    <3>2. ~ (disk[k].pos + disk[k].len <= disk[k].pos)
      BY <1>3, <2>2, <3>1
    <3>3. QED
      BY <2>2, <3>2 DEF Disjoint
  <2>4. k = i + 1
    <3>1. CASE k < i + 1
      <4>1. i + 1 \in k + 1 .. Len(disk)
        BY <1>2, <3>1
      <4>2. QED
        BY <2>1, <2>3, <4>1 DEF Intact
    <3>2. CASE i + 1 < k
      <4>1. k \in (i + 1) + 1 .. Len(disk)
        BY <3>2
      <4>2. QED
        BY <1>2, <2>3, <4>1 DEF Intact
    <3>3. QED
      BY <3>1, <3>2
  <2>5. QED
    BY <2>1, <2>4
<1>6. Filed(i + 1, f) => bt[i].normalSize = NormalSize[f] /\ names[i] = NameOf[f]
  <2>1. PICK p \in Elems : /\ Filed(i + 1, p)
                           /\ names[i] = NameOf[p]
                           /\ bt[i].normalSize = NormalSize[p]
    BY <1>1, BlockPlace
  <2>2. Filed(i + 1, f) => p = f
    BY <2>1, FiledOnce
  <2>3. QED
    BY <2>1, <2>2
<1>7. QED
  BY <1>4, <1>5, <1>6

\* The lookups of a reader, from the header to the data: a name leads to the
\* file of the first block inserted under it, and to no other.
LEMMA LeadsToFirst ==
    ASSUME TypeOK, IInv, Fits, Sealed, NEW n \in Names,
           NEW f \in Elems, NEW d \in DataOf(f)
    PROVE  LeadsTo(n, d) <=> \E i \in 1 .. Len(bt) : IsFirst(n, i) /\ disk[i + 1].data = FileData(d)
<1> USE ConstantFacts, Typed
<1>1. TableInv /\ Len(names) = Len(bt)
  BY DEF IInv, TableInv, IndexInv
<1>2. bt # <<>>
  <2>1. Len(bt) = QueueSize
    BY SealedAtEnd, AllFiled DEF Finishing
  <2>2. Len(bt) > 0
    BY <2>1 DEF Elems
  <2>3. QED
    BY <2>2
<1>3. /\ OnDisk("header") = {Header}
      /\ OnDisk("hash table") = {ht}
      /\ OnDisk("block table") = {bt}
      /\ Reads(Offset, HeaderSize, [kind |-> "header", value |-> Header])
      /\ Reads(Offset + Header.htPos, EntrySize * Header.htSize,
               [kind |-> "hash table", value |-> ht])
      /\ Reads(Offset + Header.btPos, EntrySize * Header.btSize,
               [kind |-> "block table", value |-> bt])
  BY <1>2, HeaderRead, HashTableRead, BlockTableRead
<1>4. LeadsTo(n, d) <=>
        /\ FindBTE(ht, n) # NoBlock
        /\ Reads(Offset + bt[FindBTE(ht, n) + 1].filePos,
                 bt[FindBTE(ht, n) + 1].compressedSize, FileData(d))
        /\ bt[FindBTE(ht, n) + 1].normalSize = NormalSize[f]
  <2>1. d.file = f
    BY ElemFacts
  <2>2. QED
    BY <1>3, <2>1 DEF LeadsTo
<1>5. ASSUME NEW i \in 1 .. Len(bt), IsFirst(n, i), disk[i + 1].data = FileData(d) PROVE LeadsTo(n, d)
  <2>1. FindBTE(ht, n) = i - 1
    BY <1>1, <1>5, FirstFound
  <2>2. FindBTE(ht, n) # NoBlock /\ FindBTE(ht, n) + 1 = i
    BY <2>1 DEF NoBlock
  <2>3. Filed(i + 1, f)
    BY <1>5 DEF Filed
  <2>4. QED
    BY <1>4, <1>5, <2>2, <2>3, BlockRead
<1>6. ASSUME LeadsTo(n, d)
      PROVE  \E i \in 1 .. Len(bt) : IsFirst(n, i) /\ disk[i + 1].data = FileData(d)
  <2> DEFINE i == FindBTE(ht, n) + 1
  <2>1. IsFirst(n, i)
    BY <1>1, <1>4, <1>6, LookupFollows DEF LookupIsFirst
  <2>2. i \in 1 .. Len(bt)
    BY <1>1, <2>1 DEF IsFirst
  <2>3. Reads(Offset + bt[i].filePos, bt[i].compressedSize, FileData(d))
    BY <1>4, <1>6
  <2> HIDE DEF i
  <2>4. QED
    BY <2>1, <2>2, <2>3, BlockRead
<1>7. QED
  BY <1>5, <1>6

\* What a reader finds under a name is as Archive says: the data of one file
\* of this name, or nothing when no file has it.
LEMMA NameAnswered ==
    ASSUME TypeOK, IInv, Fits, Sealed, NEW n \in Names
    PROVE  {d \in Contents : LeadsTo(n, d)} \in Promise!Answers(n)
<1> USE ConstantFacts, Typed
<1>1. Len(names) = Len(bt) /\ TableInv
  BY DEF IInv, TableInv, IndexInv
<1>2. \A d \in Contents :
         LeadsTo(n, d) <=> \E i \in 1 .. Len(bt) : IsFirst(n, i) /\ disk[i + 1].data = FileData(d)
  BY LeadsToFirst, ContentsOf
<1>3. CASE \E i \in 1 .. Len(names) : Key[names[i]] = Key[n]
  <2>1. PICK i \in 1 .. Len(bt) : IsFirst(n, i)
    BY <1>1, <1>3, FirstExists
  <2>2. PICK p \in Elems : Filed(i + 1, p)
    BY DEF IInv, LayoutInv, EntryInv
  <2>3. PICK c \in DataOf(p) : disk[i + 1].data = FileData(c)
    BY <2>2 DEF Filed
  <2>4. Denotes(n, p)
    BY <1>1, <2>1, <2>2, <2>3, BlockRead DEF IsFirst, Denotes
  <2>5. c \in Contents /\ c.file = p /\ c \in [file : {p}, intact : BOOLEAN]
    BY ElemFacts DEF DataOf
  <2>6. {d \in Contents : LeadsTo(n, d)} = {c}
    <3>1. \A j \in 1 .. Len(bt) : IsFirst(n, j) => j = i
      BY <1>1, <2>1, FirstFound
    <3>2. \A d \in Contents : disk[i + 1].data = FileData(d) <=> d = c
      BY <2>3, <2>5, ElemFacts
    <3>3. \A d \in Contents : LeadsTo(n, d) <=> d = c
      BY <1>2, <2>1, <3>1, <3>2
    <3>4. QED
      BY <2>5, <3>3
  <2>7. c.intact \/ Spoilt # {}
    <3>1. i + 1 \in 1 .. Len(disk)
      BY DEF IInv, LayoutInv, EntryInv
    <3>2. c.intact \/ Harmed
      BY <2>3, <2>5, <3>1 DEF IInv, PlaceInv, ContentInv, SoundData
    <3>3. QED
      BY <3>2 DEF Harmed
  <2> DEFINE named == {f \in Elems : Denotes(n, f)}
  <2>8. p \in named
    BY <2>4
  <2>9. c \in [file : named, intact : IF Spoilt = {} THEN {TRUE} ELSE BOOLEAN]
    BY <2>5, <2>7, <2>8
  <2>10. QED
    BY <2>6, <2>8, <2>9 DEF Promise!Answers
<1>4. CASE \A i \in 1 .. Len(names) : Key[names[i]] # Key[n]
  <2>1. \A d \in Contents : ~ LeadsTo(n, d)
    BY <1>1, <1>2, <1>4 DEF IsFirst
  <2>2. \A f \in Elems : ~ Denotes(n, f)
    <3> SUFFICES ASSUME NEW f \in Elems PROVE Key[NameOf[f]] # Key[n]
      BY DEF Denotes
    <3>1. PICK i \in 1 .. Len(bt) : Filed(i + 1, f)
      BY SealedAtEnd, AllFiled DEF Finishing
    <3>2. PICK d \in DataOf(f) : disk[i + 1].data = FileData(d)
      BY <3>1 DEF Filed
    <3>3. names[i] = NameOf[f]
      BY <3>1, <3>2, BlockRead
    <3>4. QED
      BY <1>1, <1>4, <3>3
  <2>3. /\ {d \in Contents : LeadsTo(n, d)} = {}
        /\ {f \in Elems : Denotes(n, f)} = {}
    BY <2>1, <2>2
  <2>4. QED
    BY <2>3 DEF Promise!Answers
<1>5. QED
  BY <1>3, <1>4

\* A finished archive is a complete one.
LEMMA ViewComplete ==
    ASSUME TypeOK, IInv, Fits, Sealed
    PROVE  /\ View # Unpublished
           /\ View \in [Names -> UNION {Promise!Answers(n) : n \in Names}]
           /\ \A n \in Names : View[n] \in Promise!Answers(n)
<1>1. View = [n \in Names |-> {d \in Contents : LeadsTo(n, d)}]
  BY DEF View
<1>2. View \in [Names -> SUBSET Contents]
  BY <1>1
<1>3. View # Unpublished
  BY <1>2, UnpublishedAssumption
<1>4. \A n \in Names : View[n] \in Promise!Answers(n)
  BY <1>1, NameAnswered
<1>5. QED
  BY <1>1, <1>3, <1>4

\* A reader of the file sees what is written to it and nothing else.
LEMMA ViewKept == ASSUME disk' = disk PROVE View' = View /\ (Sealed' <=> Sealed)
<1>1. \A kind : OnDisk(kind)' = OnDisk(kind)
  BY DEF OnDisk
<1>2. \A k : Intact(k)' <=> Intact(k)
  BY DEF Intact
<1>3. \A pos, len, data : Reads(pos, len, data)' <=> Reads(pos, len, data)
  BY <1>2 DEF Reads
<1>4. \A n, d : LeadsTo(n, d)' <=> LeadsTo(n, d)
  <2> SUFFICES ASSUME NEW n, NEW d PROVE LeadsTo(n, d)' <=> LeadsTo(n, d)
    OBVIOUS
  <2>1. \A h : FindBTE(h, n)' = FindBTE(h, n)
    BY DEF FindBTE, FoundAt, Slot
  <2>2. QED
    BY <1>1, <1>3, <2>1, Zenon DEF LeadsTo
<1>5. QED
  BY <1>1, <1>4 DEF View, Sealed

-----------------------------------------------------------------------------
(* The refinement. *)

\* No step changes which file is the listfile.
LEMMA ListfileKept == [Next]_vars => Spoilt' = Spoilt
<1> SUFFICES ASSUME [Next]_vars PROVE listfile' = listfile
  BY DEF Spoilt
<1>1. CASE MainStep
  BY <1>1 DEF MainStep, CreateThread, AllCreated, Join, AllJoined, WriteHT, WriteBT, WriteHeader,
              Close, mainVars
<1>2. ASSUME NEW t \in Threads, WorkerStep(t) PROVE listfile' = listfile
  BY <1>2 DEF WorkerStep, PopLock, PopRead, PopAdvance, PopUnlock, Extract, ExtractFails, Crash,
              Pack, Lock, WriteFile, InsertFile, Account, Unlock, Exit, mainVars
<1>3. QED
  BY <1>1, <1>2 DEF Next, vars

\* While main starts the workers nothing is published.
LEMMA PromiseInit == Init => Promise!Init
<1> SUFFICES ASSUME Init PROVE Promise!Init
  OBVIOUS
<1>1. TypeOK /\ IInv
  BY WholeInit
<1>2. ~ Sealed
  BY <1>1, SealedAtEnd, ConstantFacts DEF Init
<1>3. QED
  BY <1>2 DEF Init, Promise!Init, View

\* WriteHeader publishes the archive.
LEMMA HeaderPublishes ==
    ASSUME TypeOK, IInv, TypeOK', IInv', Fits', WriteHeader, Spoilt' = Spoilt
    PROVE  Promise!Publish
<1> USE ConstantFacts, Typed
<1>1. pc[Main] = "header" /\ process = "running" /\ process' = process
      /\ pc'[Main] = "close"
  BY DEF WriteHeader, At, Goto, mainVars
<1>2. ~ Sealed
  BY <1>1, SealedAtEnd
<1>3. Sealed'
  <2>1. (TypeOK /\ IInv /\ pc[Main] \in {"close", "done"} => Sealed)'
    BY SealedFromEnd, PTL
  <2>2. QED
    BY <1>1, <2>1
<1>4. /\ View' \in [Names -> UNION {Promise!Answers(n) : n \in Names}]
      /\ \A n \in Names : View'[n] \in Promise!Answers(n)
  <2>1. (TypeOK /\ IInv /\ Fits /\ Sealed =>
            /\ View \in [Names -> UNION {Promise!Answers(n) : n \in Names}]
            /\ \A n \in Names : View[n] \in Promise!Answers(n))'
    BY ViewComplete, PTL
  <2>2. QED
    <3>1. \A n : Promise!Answers(n)' = Promise!Answers(n)
      BY DEF Promise!Answers, Denotes
    <3>2. QED
      BY <1>3, <2>1, <3>1
<1>5. View = Unpublished
  BY <1>2 DEF View
<1>6. QED
  BY <1>1, <1>4, <1>5 DEF Promise!Publish

\* fclose and the return of main.
LEMMA CloseReturns ==
    ASSUME TypeOK, IInv, Fits, Close, Spoilt' = Spoilt
    PROVE  Promise!Return
<1> USE ConstantFacts, Typed
<1>1. pc[Main] = "close" /\ process = "running" /\ process' = "returned" /\ disk' = disk
  BY DEF Close, At, fileVars
<1>2. Sealed
  BY <1>1, SealedIffWritten DEF IInv, TailInv
<1>3. View # Unpublished
  BY <1>2, ViewComplete
<1>4. View' = View
  BY <1>1, ViewKept
<1>5. QED
  BY <1>1, <1>3, <1>4 DEF Promise!Return

\* exit(1) of a thread that could not read a file.
LEMMA ExitGivesUp ==
    ASSUME TypeOK, IInv, NEW t \in Threads, Exit(t), Spoilt' = Spoilt
    PROVE  Promise!GiveUp
<1> USE ConstantFacts, Typed
<1>1. pc[t] = "exiting" /\ process = "running" /\ process' = "exited" /\ disk' = disk
  BY DEF Exit, At, fileVars
<1>2. Corrupt # {} \/ Spoilt # {}
  BY <1>1 DEF IInv, DrainInv
<1>3. ~ Sealed
  <2>1. pc[Main] \notin Finishing
    BY <1>1, NotFinishing DEF Finishing, IInv
  <2>2. QED
    BY <2>1, SealedAtEnd DEF Finishing
<1>4. View = Unpublished
  BY <1>3 DEF View
<1>5. View' = View
  BY <1>1, ViewKept
<1>6. QED
  BY <1>1, <1>2, <1>4, <1>5 DEF Promise!GiveUp

\* A wild access after the second decryption of the listfile.
LEMMA CrashKills ==
    ASSUME TypeOK, IInv, NEW t \in Threads, Crash(t), Spoilt' = Spoilt
    PROVE  Promise!Crash
<1> USE ConstantFacts, Typed
<1>1. pc[t] = "extract" /\ process = "running" /\ process' = "killed" /\ disk' = disk
  BY DEF Crash, At, fileVars
<1>2. Spoilt # {}
  BY <1>1 DEF Crash, IInv, PlaceInv, ContentInv, Harmed
<1>3. ~ Sealed
  <2>1. pc[Main] \notin Finishing
    BY <1>1, NotFinishing DEF Finishing, IInv
  <2>2. QED
    BY <2>1, SealedAtEnd DEF Finishing
<1>4. View = Unpublished
  BY <1>3 DEF View
<1>5. View' = View
  BY <1>1, ViewKept
<1>6. QED
  BY <1>1, <1>2, <1>4, <1>5 DEF Promise!Crash

\* Every other step is one that a reader of the file cannot see.
LEMMA OthersStutter ==
    ASSUME TypeOK, IInv, TypeOK', IInv', [Next]_vars,
           ~ WriteHeader, ~ Close, \A t \in Threads : ~ Exit(t) /\ ~ Crash(t)
    PROVE  UNCHANGED Promise!archiveVars
<1>1. View' = View
  <2>1. CASE Sealed
    BY <2>1, SealedStill, ViewKept
  <2>2. CASE ~ Sealed
    <3>1. ~ Sealed'
      BY <2>2, SealedBy
    <3>2. QED
      BY <2>2, <3>1 DEF View
  <2>3. QED
    BY <2>1, <2>2
<1>2. process' = process
  <2>1. CASE UNCHANGED vars
    BY <2>1 DEF vars
  <2>2. ASSUME MainStep PROVE process' = process
    BY <2>2 DEF MainStep, CreateThread, AllCreated, Join, AllJoined, WriteHT, WriteBT, mainVars
  <2>3. ASSUME NEW t \in Threads, WorkerStep(t) PROVE process' = process
    BY <2>3 DEF WorkerStep, PopLock, PopRead, PopAdvance, PopUnlock, Extract, ExtractFails, Pack,
                Lock, WriteFile, InsertFile, Account, Unlock, mainVars
  <2>4. QED
    BY <2>1, <2>2, <2>3 DEF Next
<1>3. QED
  BY <1>1, <1>2, ListfileKept DEF Promise!archiveVars

\* Every step of Repack is a step of Archive, or none.
LEMMA StepRefines ==
    TypeOK /\ IInv /\ Fits /\ TypeOK' /\ IInv' /\ Fits' /\ [Next]_vars =>
        [Promise!Next]_(Promise!archiveVars)
<1> SUFFICES ASSUME TypeOK, IInv, Fits, TypeOK', IInv', Fits', [Next]_vars
             PROVE  Promise!Next \/ UNCHANGED Promise!archiveVars
  OBVIOUS
<1>1. Spoilt' = Spoilt
  BY ListfileKept
<1>2. CASE WriteHeader
  BY <1>1, <1>2, HeaderPublishes DEF Promise!Next
<1>3. CASE Close
  BY <1>1, <1>3, CloseReturns DEF Promise!Next
<1>4. CASE \E t \in Threads : Exit(t)
  BY <1>1, <1>4, ExitGivesUp DEF Promise!Next
<1>5. CASE \E t \in Threads : Crash(t)
  BY <1>1, <1>5, CrashKills DEF Promise!Next
<1>6. CASE ~ WriteHeader /\ ~ Close /\ \A t \in Threads : ~ Exit(t) /\ ~ Crash(t)
  BY <1>6, OthersStutter
<1>7. QED
  BY <1>2, <1>3, <1>4, <1>5, <1>6

\* Whatever the number of threads and files, the interleaving and the sizes,
\* and whichever files turn out to be unreadable: the program publishes a
\* complete archive at once, or gives up over an unreadable file having
\* published nothing, as long as the archive fits the fields of the format.
\* (That it comes to one of these ends is left to the run.)
THEOREM RepackImplementsArchive == Spec /\ []Fits => Promise!Safety
<1>1. Init => Promise!Init
  BY PromiseInit
<1>2. TypeOK /\ IInv /\ Fits /\ TypeOK' /\ IInv' /\ Fits' /\ [Next]_vars =>
        [Promise!Next]_(Promise!archiveVars)
  BY StepRefines
<1>3. QED
  BY <1>1, <1>2, InvariantHolds, PTL DEF Spec, Promise!Safety

-----------------------------------------------------------------------------
(* Archives that fit: the condition of the refinement, from the sizes.     *)

\* No packed file is larger than limit, and the field of the format can hold
\* the size of an archive with so many files of that size.
Small(limit) ==
    /\ limit \in Nat
    /\ \A p \in Elems : PackedSizes[p] \subseteq 0 .. limit
    /\ HeaderSize + QueueSize * limit + EntrySize * HtSize + EntrySize * QueueSize < Word

\* What has been counted is within the limit, and everything written fits.
SizeInv(limit) ==
    /\ \A t \in Threads : outsize[t] <= limit
    /\ bytesWritten <= HeaderSize + (filesProceeded - 1) * limit
    /\ Fits

\* Fewer files of the largest size take less room.
LEMMA Fewer ==
    ASSUME NEW limit \in Nat, NEW m \in Int, NEW n \in Nat, m <= n
    PROVE  m * limit <= n * limit /\ m * limit \in Int /\ n * limit \in Nat
OBVIOUS

\* One file more takes the room of one.
LEMMA OneMore ==
    ASSUME NEW limit \in Nat, NEW m \in Int
    PROVE  m * limit + limit = (m + 1) * limit /\ m * limit \in Int
OBVIOUS

\* Counting one up and looking one back.
LEMMA OneBack == \A m \in Nat : m - 1 \in Int /\ (m - 1) + 1 = (m + 1) - 1
OBVIOUS

\* There is never a file more in the tables than in the queue.
InQueue ==
    /\ Len(bt) <= QueueSize
    /\ \A t \in Threads : pc[t] = "insert" => Len(bt) + 1 <= QueueSize

\* InQueue follows from where each file is.
LEMMA FilesInQueue == TypeOK /\ IInv => InQueue
<1> SUFFICES ASSUME TypeOK, IInv PROVE InQueue
  OBVIOUS
<1>1. PlaceInv /\ LayoutInv
  BY DEF IInv
<1>2. \A k \in 2 .. Len(bt) + 1 : \E p \in Elems : Filed(k, p)
  <2> SUFFICES ASSUME NEW k \in 2 .. Len(bt) + 1 PROVE \E p \in Elems : Filed(k, p)
    OBVIOUS
  <2>1. k - 1 \in 1 .. Len(bt) /\ (k - 1) + 1 = k
    BY Typed
  <2>2. PICK p \in Elems : Filed((k - 1) + 1, p)
    BY <1>1, <2>1 DEF LayoutInv, EntryInv
  <2>3. QED
    BY <2>1, <2>2
<1>3. Len(bt) < Len(disk) /\ Len(bt) \in Nat
  BY <1>1, Typed DEF LayoutInv, EntryInv
<1>4. Len(bt) <= QueueSize
  BY <1>1, <1>2, <1>3, FilesBounded
<1>5. \A t \in Threads : pc[t] = "insert" => Len(bt) + 1 <= QueueSize
  BY <1>1, RoomForFile
<1>6. QED
  BY <1>4, <1>5 DEF InQueue

\* A write that ends below the limit of the fields.
LEMMA FitsMore ==
    ASSUME TypeOK, Fits, NEW w \in Writes, disk' = Append(disk, w),
           w.pos + w.len < Offset + Word
    PROVE  Fits'
<1>1. /\ Len(disk) \in Nat /\ Len(disk') = Len(disk) + 1
      /\ \A k \in 1 .. Len(disk) : disk'[k] = disk[k]
      /\ disk'[Len(disk')] = w
  BY DiskGrown
<1>2. \A k \in 1 .. Len(disk') : k \in 1 .. Len(disk) \/ k = Len(disk')
  BY <1>1
<1>3. QED
  BY <1>1, <1>2 DEF Fits

\* SizeInv holds when mkmpq begins.
LEMMA SizeInit == \A limit : Small(limit) /\ Init => SizeInv(limit)
<1> SUFFICES ASSUME NEW limit, Small(limit), Init PROVE SizeInv(limit)
  OBVIOUS
<1>1. disk = <<[pos |-> 0, len |-> Offset, data |-> [kind |-> "pre", value |-> 0]]>>
  BY DEF Init
<1>2. \A k \in 1 .. Len(disk) : disk[k].pos = 0 /\ disk[k].len = Offset
  BY <1>1
<1>3. Fits
  <2>1. 0 + Offset < Offset + Word
    BY RepackAssumption
  <2>2. QED
    BY <1>2, <2>1 DEF Fits
<1>4. limit \in Nat
  BY DEF Small
<1>5. \A t \in Threads : outsize[t] <= limit
  BY <1>4 DEF Init
<1>6. bytesWritten <= HeaderSize + (filesProceeded - 1) * limit
  BY <1>4 DEF Init, HeaderSize
<1>7. QED
  BY <1>3, <1>5, <1>6 DEF SizeInv

\* The end of the data region, whatever is counted so far and n files more.
LEMMA RegionSmall ==
    ASSUME TypeOK, NEW limit, Small(limit), SizeInv(limit), filesProceeded - 1 <= QueueSize
    PROVE  /\ bytesWritten <= HeaderSize + QueueSize * limit
           /\ QueueSize * limit \in Nat
<1>1. limit \in Nat /\ QueueSize \in Nat /\ filesProceeded \in Nat /\ bytesWritten \in Nat
  BY ConstantFacts, Typed DEF Small
<1>2. /\ (filesProceeded - 1) * limit <= QueueSize * limit
      /\ (filesProceeded - 1) * limit \in Int /\ QueueSize * limit \in Nat
  BY <1>1, Fewer
<1>3. bytesWritten <= HeaderSize + (filesProceeded - 1) * limit
  BY DEF SizeInv
<1>4. QED
  BY <1>1, <1>2, <1>3 DEF HeaderSize

\* Every step of every thread keeps SizeInv.
LEMMA SizeStep ==
    \A limit : Small(limit) /\ TypeOK /\ IInv /\ SizeInv(limit) /\ TypeOK' /\ IInv' /\ [Next]_vars
                  => SizeInv(limit)'
<1> SUFFICES ASSUME NEW limit, Small(limit), TypeOK, IInv, SizeInv(limit), TypeOK', IInv',
                    [Next]_vars
             PROVE  SizeInv(limit)'
  OBVIOUS
<1> USE ConstantFacts, Typed
<1>1. limit \in Nat /\ Fits /\ PlaceInv /\ LayoutInv /\ CountInv
  BY DEF Small, SizeInv, IInv
<1>2. ASSUME UNCHANGED <<disk, outsize, bytesWritten, filesProceeded>> PROVE SizeInv(limit)'
  BY <1>2 DEF SizeInv, Fits
<1>3. ASSUME NEW w \in Writes, disk' = Append(disk, w), w.pos + w.len < Offset + Word,
             UNCHANGED <<outsize, bytesWritten, filesProceeded>>
      PROVE  SizeInv(limit)'
  <2>1. Fits'
    BY <1>1, <1>3, FitsMore
  <2>2. QED
    BY <1>3, <2>1 DEF SizeInv
<1>4. ASSUME NEW t \in Threads, Pack(t) PROVE SizeInv(limit)'
  <2>1. item[t] \in Elems
    BY <1>4 DEF Pack, At, TypeOK, ThreadsOK, LocalsOK
  <2>2. PICK size \in PackedSizes[item[t]] : outsize' = [outsize EXCEPT ![t] = size]
    BY <1>4 DEF Pack
  <2>3. size <= limit
    <3>1. PackedSizes[item[t]] \subseteq 0 .. limit
      BY <2>1 DEF Small
    <3>2. size \in 0 .. limit
      BY <3>1
    <3>3. QED
      BY <1>1, <3>2
  <2>4. \A u \in Threads : outsize'[u] <= limit
    BY <2>2, <2>3 DEF SizeInv
  <2>5. UNCHANGED <<disk, bytesWritten, filesProceeded>>
    BY <1>4 DEF Pack, fileVars, countVars
  <2>6. QED
    BY <2>4, <2>5 DEF SizeInv, Fits
<1>5. ASSUME NEW t \in Threads, Unlock(t) PROVE SizeInv(limit)'
  <2>1. \A u \in Threads : outsize'[u] <= limit
    BY <1>1, <1>5 DEF Unlock, SizeInv
  <2>2. UNCHANGED <<disk, bytesWritten, filesProceeded>>
    BY <1>5 DEF Unlock, fileVars, countVars
  <2>3. QED
    BY <2>1, <2>2 DEF SizeInv, Fits
<1>6. ASSUME NEW t \in Threads, Account(t) PROVE SizeInv(limit)'
  <2>1. /\ bytesWritten' = bytesWritten + outsize[t]
        /\ filesProceeded' = filesProceeded + 1
        /\ disk' = disk /\ outsize' = outsize
    BY <1>6 DEF Account, fileVars, workVars
  <2>2. /\ outsize[t] <= limit /\ outsize[t] \in Nat
        /\ bytesWritten <= HeaderSize + (filesProceeded - 1) * limit
    BY DEF SizeInv
  <2>3. /\ (filesProceeded - 1) * limit + limit = (filesProceeded - 1 + 1) * limit
        /\ (filesProceeded - 1) * limit \in Int
        /\ filesProceeded - 1 + 1 = filesProceeded' - 1
    <3>1. filesProceeded - 1 \in Int /\ filesProceeded - 1 + 1 = filesProceeded' - 1
      BY <2>1, OneBack, Zenon
    <3>2. limit \in Nat
      BY <1>1
    <3>3. QED
      BY <3>1, <3>2, OneMore, Zenon
  <2>4. bytesWritten' <= HeaderSize + (filesProceeded' - 1) * limit
    <3>1. bytesWritten + outsize[t] <= HeaderSize + ((filesProceeded - 1) * limit + limit)
      <4>1. \A n \in Int : bytesWritten <= HeaderSize + n =>
               bytesWritten + outsize[t] <= HeaderSize + (n + limit)
        BY <1>1, <2>2 DEF HeaderSize
      <4>2. QED
        BY <2>2, <2>3, <4>1
    <3>2. (filesProceeded - 1) * limit + limit = (filesProceeded' - 1) * limit
      BY <2>3
    <3>3. QED
      BY <2>1, <3>1, <3>2
  <2>5. QED
    BY <2>1, <2>4 DEF SizeInv, Fits
<1>7. \A h, b, m \in Nat : HeaderSize + m + h + b < Word =>
         /\ \A n \in Nat : n <= HeaderSize + m =>
               /\ Offset + n < Offset + Word
               /\ Offset + n + h < Offset + Word
               /\ Offset + (n + h) + b < Offset + Word
         /\ Offset + HeaderSize < Offset + Word
  BY RepackAssumption DEF HeaderSize
<1>8. /\ EntrySize * HtSize \in Nat /\ EntrySize * QueueSize \in Nat
       /\ HeaderSize + QueueSize * limit + EntrySize * HtSize + EntrySize * QueueSize < Word
  BY TableSizes DEF Small
<1>9. ASSUME NEW t \in Threads, WriteFile(t) PROVE SizeInv(limit)'
  <2>1. /\ pc[t] = "write" /\ pc'[t] = "insert"
        /\ bt' = bt
        /\ UNCHANGED <<outsize, bytesWritten, filesProceeded>>
    BY <1>9 DEF WriteFile, At, Goto, tableVars, countVars
  <2>2. content[t] \in Contents /\ outsize[t] > 0
    BY <2>1 DEF TypeOK, ThreadsOK, LocalsOK
  <2>3. /\ [pos |-> fpos, len |-> outsize[t], data |-> FileData(content[t])] \in Writes
        /\ disk' = Append(disk, [pos |-> fpos, len |-> outsize[t],
                                 data |-> FileData(content[t])])
    BY <1>9, <2>2 DEF WriteFile, Fwrite, Writes, Data, FileData
  <2>4. \A u \in Threads : pc[u] \notin {"insert", "account"}
    BY <1>1, <2>1 DEF PlaceInv, LockInv
  <2>5. fpos = Offset + bytesWritten /\ filesProceeded = 1 + Len(bt)
    <3>1. pc[Main] \notin Finishing
      BY <1>1, <2>1, NotFinishing DEF Finishing
    <3>2. Writing = {}
      BY <2>4 DEF Writing
    <3>3. QED
      BY <1>1, <2>4, <3>1, <3>2 DEF LayoutInv, PhaseInv, CountInv, Finishing
  <2>6. Len(bt) + 1 <= QueueSize
    <3>1. (TypeOK /\ IInv => InQueue)'
      BY FilesInQueue, PTL
    <3>2. InQueue'
      BY <3>1
    <3>3. QED
      BY <2>1, <3>2 DEF InQueue
  <2>7. bytesWritten + outsize[t] <= HeaderSize + QueueSize * limit /\ QueueSize * limit \in Nat
    <3>1. /\ outsize[t] <= limit
          /\ bytesWritten <= HeaderSize + Len(bt) * limit
      BY <2>5 DEF SizeInv
    <3>2. /\ Len(bt) * limit + limit = (Len(bt) + 1) * limit
          /\ Len(bt) * limit \in Nat
      BY <1>1
    <3>3. (Len(bt) + 1) * limit <= QueueSize * limit /\ QueueSize * limit \in Nat
      <4>1. Len(bt) + 1 \in Int /\ QueueSize \in Nat
        OBVIOUS
      <4>2. QED
        BY <1>1, <2>6, <4>1, Fewer
    <3>4. QED
      BY <1>1, <3>1, <3>2, <3>3, SMTT(30) DEF HeaderSize
  <2>8. fpos + outsize[t] < Offset + Word
    <3>1. bytesWritten + outsize[t] \in Nat
      OBVIOUS
    <3>2. Offset + (bytesWritten + outsize[t]) < Offset + Word
      BY <1>7, <1>8, <2>7, <3>1
    <3>3. fpos + outsize[t] = Offset + (bytesWritten + outsize[t])
      BY <2>5, RepackAssumption
    <3>4. QED
      BY <3>2, <3>3
  <2>9. QED
    BY <1>3, <2>1, <2>3, <2>8
<1>10. ASSUME pc[Main] \in Finishing
      PROVE  /\ bytesWritten <= HeaderSize + QueueSize * limit
             /\ QueueSize * limit \in Nat
             /\ Len(bt) = QueueSize
  <2>1. Len(bt) = QueueSize /\ \A t \in Threads : pc[t] # "account"
    BY <1>10, AllFiled DEF Finishing
  <2>2. filesProceeded - 1 <= QueueSize
    BY <1>1, <2>1 DEF CountInv
  <2>3. QED
    BY <2>1, <2>2, RegionSmall
<1>11. ASSUME WriteHT PROVE SizeInv(limit)'
  <2>1. /\ pc[Main] = "hash table"
        /\ UNCHANGED <<outsize, bytesWritten, filesProceeded>>
        /\ disk' = Append(disk, [pos |-> fpos, len |-> EntrySize * HtSize,
                                 data |-> [kind |-> "hash table", value |-> ht]])
    BY <1>11 DEF WriteHT, Fwrite, At, workVars, countVars
  <2>2. fpos = Offset + bytesWritten
    <3>1. Writing = {}
      BY <1>1, <2>1, AllDone
    <3>2. QED
      BY <1>1, <2>1, <3>1 DEF LayoutInv, PhaseInv
  <2>3. fpos + EntrySize * HtSize < Offset + Word
    BY <1>10, <1>7, <1>8, <2>1, <2>2 DEF Finishing
  <2>4. [pos |-> fpos, len |-> EntrySize * HtSize,
         data |-> [kind |-> "hash table", value |-> ht]] \in Writes
    <3>1. [kind |-> "hash table", value |-> ht] \in Data
      BY DEF TypeOK, TablesOK, Data
    <3>2. QED
      BY <3>1, TableSizes DEF Writes
  <2>5. QED
    BY <1>3, <2>1, <2>3, <2>4
<1>12. ASSUME WriteBT, bt # <<>> PROVE SizeInv(limit)'
  <2>1. /\ pc[Main] = "block table"
        /\ UNCHANGED <<outsize, bytesWritten, filesProceeded>>
        /\ disk' = Append(disk, [pos |-> fpos, len |-> EntrySize * Len(bt),
                                 data |-> [kind |-> "block table", value |-> bt]])
    BY <1>12 DEF WriteBT, Fwrite, At, workVars, countVars
  <2>2. fpos = Offset + (bytesWritten + EntrySize * HtSize)
    BY <2>1 DEF IInv, TailInv
  <2>3. fpos + EntrySize * Len(bt) < Offset + Word
    BY <1>10, <1>7, <1>8, <2>1, <2>2 DEF Finishing
  <2>4. [pos |-> fpos, len |-> EntrySize * Len(bt),
         data |-> [kind |-> "block table", value |-> bt]] \in Writes
    <3>1. [kind |-> "block table", value |-> bt] \in Data
      BY DEF TypeOK, TablesOK, Data
    <3>2. QED
      BY <3>1, TableSizes DEF Writes
  <2>5. QED
    BY <1>3, <2>1, <2>3, <2>4
<1>13. ASSUME WriteBT, bt = <<>> PROVE SizeInv(limit)'
  BY <1>2, <1>13 DEF WriteBT, fileVars, workVars, countVars
<1>14. ASSUME WriteHeader PROVE SizeInv(limit)'
  <2>1. /\ pc[Main] = "header"
        /\ UNCHANGED <<outsize, bytesWritten, filesProceeded>>
        /\ disk' = Append(disk, [pos |-> Offset, len |-> HeaderSize,
                                 data |-> [kind |-> "header", value |-> Header]])
    BY <1>14 DEF WriteHeader, At, workVars, countVars
  <2>2. Offset + HeaderSize < Offset + Word
    BY <1>10, <1>7, <1>8, <2>1 DEF Finishing
  <2>3. [pos |-> Offset, len |-> HeaderSize,
         data |-> [kind |-> "header", value |-> Header]] \in Writes
    <3>1. [kind |-> "header", value |-> Header] \in Data
      BY HeaderType DEF Data
    <3>2. QED
      BY <3>1, RepackAssumption DEF Writes, HeaderSize
  <2>4. QED
    BY <1>3, <2>1, <2>2, <2>3
<1>15. ASSUME CreateThread \/ AllCreated \/ Join \/ AllJoined \/ Close PROVE SizeInv(limit)'
  BY <1>2, <1>15 DEF CreateThread, AllCreated, Join, AllJoined, Close, workVars, fileVars,
                     countVars
<1>16. ASSUME NEW t \in Threads,
              \/ PopLock(t) \/ PopRead(t) \/ PopAdvance(t) \/ PopUnlock(t)
              \/ Extract(t) \/ ExtractFails(t) \/ Crash(t) \/ Lock(t) \/ InsertFile(t)
              \/ Exit(t)
       PROVE  SizeInv(limit)'
  BY <1>2, <1>16 DEF PopLock, PopRead, PopAdvance, PopUnlock, Extract, ExtractFails, Lock,
                     InsertFile, Exit, Crash, workVars, fileVars, countVars
<1>17. CASE UNCHANGED vars
  BY <1>2, <1>17 DEF vars
<1>18. QED
  BY <1>4, <1>5, <1>6, <1>9, <1>11, <1>12, <1>13, <1>14, <1>15, <1>16, <1>17
     DEF Next, MainStep, WorkerStep

\* Archives whose files are small enough fit the fields of the format, and
\* are then published whole or not at all: the bound is on the options and
\* the input alone, not on what the program does.
THEOREM SmallArchivesComplete ==
    ASSUME NEW CONSTANT limit, Small(limit)
    PROVE  Spec => []Fits /\ Promise!Safety
<1>1. Init => SizeInv(limit)
  BY SizeInit
<1>2. TypeOK /\ IInv /\ SizeInv(limit) /\ TypeOK' /\ IInv' /\ [Next]_vars => SizeInv(limit)'
  BY SizeStep
<1>3. SizeInv(limit) => Fits
  BY DEF SizeInv
<1>4. QED
  BY <1>1, <1>2, <1>3, InvariantHolds, RepackImplementsArchive, PTL DEF Spec
=============================================================================
