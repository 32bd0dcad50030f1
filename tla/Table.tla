------------------------------- MODULE Table -------------------------------
(***************************************************************************)
(* The two tables of the archive under construction: table.c, and the      *)
(* lookup FindBTE of compress-mpq.c that every reader of an archive runs.  *)
(*                                                                         *)
(* ht is the open-addressing hash table (slots 0 .. HtSize - 1), bt the    *)
(* block table (block indices are 0-based, as in the file).  The three     *)
(* hashes of a name are the constants Start (hash(path, HashOffset) %      *)
(* htSize) and Key (hashA and hashB as one value).  Names with one Key are *)
(* names the format cannot tell apart: names that differ in case only, or, *)
(* after ConvertSlashes, in their slashes.                                 *)
(*                                                                         *)
(* The variable names is history: the name each block was inserted under.  *)
(***************************************************************************)
EXTENDS Integers, Sequences, FiniteSets

CONSTANTS
    Names,      \* the names that may be inserted
    HtSize,     \* nextPowerOf2(numEntries)
    NumEntries, \* entries the block table was allocated for
    Start,      \* [Names -> slot]: where the probe for a name begins
    Key,        \* [Names -> key]: what an entry is recognised by
    NoKey       \* hashA = hashB = 0xffffffff, of an unused slot

ASSUME TableAssumption ==
    /\ HtSize \in Nat \ {0}
    /\ NumEntries \in Nat
    /\ NumEntries <= HtSize
    /\ Start \in [Names -> 0 .. HtSize - 1]
    /\ \A n \in Names : Key[n] # NoKey
    /\ \A m, n \in Names : Key[m] = Key[n] => Start[m] = Start[n]

VARIABLES ht, bt, names

tableVars == <<ht, bt, names>>

NoBlock == -1                       \* blockIndex 0xffffffff

Unused == [key |-> NoKey, block |-> NoBlock]

Slots == 0 .. HtSize - 1

SlotClamped(s, d) ==              \* mutant: the probe does not wrap around
    IF s + d < HtSize THEN s + d ELSE HtSize - 1

\* The slot a probe that began at slot s looks at after d steps.
Slot(s, d) == (s + d) % HtSize

InitTable ==
    /\ ht = [i \in Slots |-> Unused]
    /\ bt = <<>>
    /\ names = <<>>

-----------------------------------------------------------------------------
FreeOrSame(s, d) ==               \* mutant: an entry with the start slot's key is reused
    /\ ht[Slot(s, d)].block = NoBlock \/ ht[Slot(s, d)].key = ht[Slot(s, 0)].key
    /\ \A e \in 0 .. d - 1 : ht[Slot(s, e)].block # NoBlock

\* The probe of InsertHT stops at the first unused slot.
FreeAt(s, d) ==
    /\ ht[Slot(s, d)].block = NoBlock
    /\ \A e \in 0 .. d - 1 : ht[Slot(s, e)].block # NoBlock

InsertBT(b) == bt' = Append(bt, b)

InsertHT(n, pos) ==
    \E d \in Slots :
        /\ FreeAt(Start[n], d)
        /\ ht' = [ht EXCEPT ![Slot(Start[n], d)] = [key |-> Key[n], block |-> pos]]

InsertAfter(n, b) ==              \* mutant: the index after the block was added
    /\ InsertHT(n, Len(bt) + 1)
    /\ InsertBT(b)
    /\ names' = Append(names, n)

Insert(n, b) ==
    /\ InsertHT(n, Len(bt))
    /\ InsertBT(b)
    /\ names' = Append(names, n)

-----------------------------------------------------------------------------
FoundUnchecked(h, n, d) ==        \* mutant: the keys are not compared
    /\ \A e \in 0 .. d : h[Slot(Start[n], e)].block # NoBlock
    /\ \A e \in 0 .. d - 1 : h[Slot(Start[n], e)].key # Key[n]

\* FindBTE on a hash table h: walk from the start slot to the first equal
\* key, and give up at the first unused slot or after one round.
FoundAt(h, n, d) ==
    /\ \A e \in 0 .. d : h[Slot(Start[n], e)].block # NoBlock
    /\ h[Slot(Start[n], d)].key = Key[n]
    /\ \A e \in 0 .. d - 1 : h[Slot(Start[n], e)].key # Key[n]

FindBTE(h, n) ==
    IF \E d \in Slots : FoundAt(h, n, d)
    THEN h[Slot(Start[n], CHOOSE d \in Slots : FoundAt(h, n, d))].block
    ELSE NoBlock

-----------------------------------------------------------------------------
\* The tables on their own: any names, as many as the block table was
\* allocated for.  Block entries are opaque here, their index stands for them.
InsertAny ==
    /\ Len(bt) < NumEntries
    /\ \E n \in Names : Insert(n, Len(bt))

TableSpec == InitTable /\ [][InsertAny]_tableVars

-----------------------------------------------------------------------------
Entry == [key : {Key[n] : n \in Names}, block : 0 .. NumEntries - 1]

\* What the hash table says of the block table, whatever its entries hold.
IndexInv ==
    /\ ht \in [Slots -> Entry \union {Unused}]
    /\ \A s \in Slots : ht[s].block < Len(bt)
    /\ names \in Seq(Names)
    /\ Len(bt) <= NumEntries
    /\ Len(names) = Len(bt)

\* Every used slot points into the block table.
TableTypeOK == IndexInv /\ bt \in Seq(Nat)

\* table.c calls running out of slots impossible ("this actually should not
\* happen"): whatever was inserted before, the probe of every name still
\* reaches an unused slot while the block table has room.
NeverImpossible ==
    Len(bt) < NumEntries => \A n \in Names : \E d \in Slots : FreeAt(Start[n], d)

\* A lookup returns the first block inserted under the name or under one the
\* format cannot tell from it, and nothing if there is none: clusters,
\* wrap-around and equal start slots lose or shadow no entry.
IsFirst(n, i) ==
    /\ i \in 1 .. Len(names)
    /\ Key[names[i]] = Key[n]
    /\ \A j \in 1 .. i - 1 : Key[names[j]] # Key[n]

LookupIsFirst ==
    \A n \in Names :
        \/ IsFirst(n, FindBTE(ht, n) + 1)
        \/ /\ FindBTE(ht, n) = NoBlock
           /\ \A i \in 1 .. Len(names) : Key[names[i]] # Key[n]

\* Why these hold: block i - 1 lies on the probe path of the name it was
\* inserted under, behind slots of older blocks only; there is no used slot
\* beside those, and one for each block.
ChainAt(i, d) ==
    /\ ht[Slot(Start[names[i]], d)] = [key |-> Key[names[i]], block |-> i - 1]
    /\ \A e \in 0 .. d - 1 : ht[Slot(Start[names[i]], e)].block \in 0 .. i - 2

ChainInv == \A i \in 1 .. Len(names) : \E d \in Slots : ChainAt(i, d)

UsedSlots == {s \in Slots : ht[s].block # NoBlock}

UsedInv ==
    /\ \A s \in UsedSlots : ht[s].block >= 0 /\ ht[s].key = Key[names[ht[s].block + 1]]
    /\ Cardinality(UsedSlots) = Len(bt)

TableInv == IndexInv /\ ChainInv /\ UsedInv

\* Once a name resolves, no later insertion changes what it resolves to.
LookupStable ==
    [][\A n \in Names : FindBTE(ht, n) # NoBlock => FindBTE(ht', n) = FindBTE(ht, n)]_tableVars
=============================================================================
