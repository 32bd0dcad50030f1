---------------------------- MODULE Sectors_proofs ----------------------------
(***************************************************************************)
(* Proofs about Sectors: for sectors of any size and files of any length,  *)
(* what PackFile writes fits its buffer, the table of offsets leads to     *)
(* every sector, and ExtractFile tells packed sectors from stored ones by  *)
(* their size, but for the last one of PackFile.  And about the tree that  *)
(* a sector of sound is decompressed with (Huffman): whatever is coded, it *)
(* keeps the shape that huff.cpp relies on.                                *)
(***************************************************************************)
EXTENDS Sectors, Huffman, SequenceTheorems, FiniteSetTheorems, WellFoundedInduction,
        TLAPS

\* What the assumption says of the constants.
LEMMA ConstantFacts == Block \in Nat /\ Block >= 2 /\ BaseKey \in Nat /\ BaseKey >= 1
BY SectorsAssumption

\* What / and % of C do with numbers that are not negative.
LEMMA Division ==
    ASSUME NEW a \in Nat, NEW b \in Nat \ {0}
    PROVE  /\ a \div b \in Nat
           /\ a % b \in 0 .. b - 1
           /\ a = b * (a \div b) + (a % b)
OBVIOUS

\* A multiple is at least one step above a smaller one.
LEMMA NextMultiple ==
    ASSUME NEW b \in Nat \ {0}, NEW p \in Int, NEW q \in Int, p < q
    PROVE  b * p + b <= b * q
<1>1. b * (p + 1) <= b * q
  OBVIOUS
<1>2. b * (p + 1) = b * p + b
  OBVIOUS
<1>3. QED
  BY <1>1, <1>2

\* Quotient and remainder are the only ones.
LEMMA DivisionUnique ==
    ASSUME NEW a \in Nat, NEW b \in Nat \ {0}, NEW q \in Int, NEW r \in 0 .. b - 1,
           a = b * q + r
    PROVE  a % b = r /\ a \div b = q
<1>1. a \div b \in Nat /\ a % b \in 0 .. b - 1 /\ a = b * (a \div b) + (a % b)
  BY Division
<1>2. ~ (q < a \div b)
  <2> SUFFICES ASSUME q < a \div b PROVE FALSE
    OBVIOUS
  <2>1. b * q + b <= b * (a \div b)
    BY <1>1, NextMultiple
  <2>2. QED
    BY <1>1, <2>1
<1>3. ~ (a \div b < q)
  <2> SUFFICES ASSUME a \div b < q PROVE FALSE
    OBVIOUS
  <2>1. b * (a \div b) + b <= b * q
    BY <1>1, NextMultiple
  <2>2. QED
    BY <1>1, <2>1
<1>4. QED
  BY <1>1, <1>2, <1>3

\* The sectors of a file cover it, the last one ends where it ends, and
\* ExtractFile expects of each the size PackFile gave it.
LEMMA SectorFacts ==
    ASSUME size \in Nat
    PROVE  /\ NumSectors \in Nat
           /\ TableSize \in Nat /\ TableSize >= 4
           /\ \A i \in 1 .. NumSectors :
                 /\ SectorLen(i) \in 1 .. Block
                 /\ (i - 1) * Block + SectorLen(i) <= size
                 /\ i * Block <= size => SectorLen(i) = Block
                 /\ i * Block > size => i = NumSectors /\ size % Block # 0
                 /\ ThisSectorSize(i) = SectorLen(i)
<1> USE ConstantFacts
<1>1. size + Block - 1 \in Nat /\ Block \in Nat \ {0}
  OBVIOUS
<1>2. /\ NumSectors \in Nat
      /\ (size + Block - 1) % Block \in 0 .. Block - 1
      /\ size + Block - 1 = Block * NumSectors + ((size + Block - 1) % Block)
  BY <1>1, Division DEF NumSectors
<1>3. TableSize \in Nat /\ TableSize >= 4
  BY <1>2 DEF TableSize
<1>4. Block * NumSectors <= size + Block - 1 /\ Block * NumSectors >= size
      /\ Block * NumSectors \in Nat
  BY <1>2
<1>5. ASSUME NEW i \in 1 .. NumSectors
      PROVE  /\ SectorLen(i) \in 1 .. Block
             /\ (i - 1) * Block + SectorLen(i) <= size
             /\ i * Block <= size => SectorLen(i) = Block
             /\ i * Block > size => i = NumSectors /\ size % Block # 0
             /\ ThisSectorSize(i) = SectorLen(i)
  <2>1. i * Block = (i - 1) * Block + Block /\ (i - 1) * Block \in Nat /\ i * Block \in Nat
    OBVIOUS
  <2>2. i * Block = Block * i /\ (i - 1) * Block = Block * (i - 1)
    OBVIOUS
  <2>3. (i - 1) * Block < size
    <3>1. Block * (i - 1) + Block <= Block * NumSectors
      BY <1>1, <1>2, NextMultiple
    <3>2. QED
      BY <1>4, <2>1, <2>2, <3>1
  <2>4. i # NumSectors => i * Block < size
    <3> SUFFICES ASSUME i # NumSectors PROVE i * Block < size
      OBVIOUS
    <3>1. Block * i + Block <= Block * NumSectors
      BY <1>1, <1>2, NextMultiple
    <3>2. QED
      BY <1>4, <2>1, <2>2, <3>1
  <2>5. CASE i * Block > size
    <3> DEFINE rest == size - (i - 1) * Block
    <3>1. rest \in 1 .. Block - 1 /\ size = Block * (i - 1) + rest
      BY <2>1, <2>2, <2>3, <2>5
    <3>2. rest \in 0 .. Block - 1 /\ i - 1 \in Int
      BY <3>1
    <3> HIDE DEF rest
    <3>3. size % Block = rest
      BY <1>1, <3>1, <3>2, DivisionUnique, Zenon
    <3> USE DEF rest
    <3>4. i = NumSectors
      BY <2>1, <2>4, <2>5
    <3>5. SectorLen(i) = size % Block /\ ThisSectorSize(i) = size % Block
      BY <2>5, <3>1, <3>3, <3>4 DEF SectorLen, ThisSectorSize
    <3>6. QED
      BY <2>1, <2>5, <3>1, <3>3, <3>4, <3>5
  <2>6. CASE ~ (i * Block > size)
    <3>1. SectorLen(i) = Block
      BY <2>6 DEF SectorLen
    <3>2. i = NumSectors => size % Block = 0
      <4> SUFFICES ASSUME i = NumSectors PROVE size % Block = 0
        OBVIOUS
      <4>1. size = Block * i + 0
        BY <1>4, <2>1, <2>2, <2>6
      <4>2. QED
        BY <1>1, <4>1, DivisionUnique
    <3>3. ThisSectorSize(i) = Block
      BY <3>2 DEF ThisSectorSize
    <3>4. QED
      BY <2>1, <2>6, <3>1, <3>3
  <2>7. QED
    BY <2>5, <2>6
<1>6. QED
  BY <1>2, <1>3, <1>5

-----------------------------------------------------------------------------
(* What the actions have in common. *)

\* What follows from the flags and the size alone stays while they do.
LEMMA SameFile ==
    ASSUME UNCHANGED fileVars
    PROVE  /\ NumSectors' = NumSectors /\ TableSize' = TableSize
           /\ Packed' = Packed /\ SingleUnit' = SingleUnit /\ Tabled' = Tabled
           /\ Encrypted' = Encrypted
           /\ \A k : KeyOf(k)' = KeyOf(k)
           /\ \A p, i : Shaped(p, i)' = Shaped(p, i)
BY DEF fileVars, NumSectors, TableSize, Packed, SingleUnit, Tabled, Encrypted, KeyOf,
       Shaped, SectorLen

\* A piece looks stored or not as long as the file is the same.
LEMMA DisguiseKept ==
    ASSUME UNCHANGED fileVars
    PROVE  \A p, i : Disguised(p, i)' = Disguised(p, i)
BY DEF fileVars, Disguised, SectorLen

\* The pieces end where they ended if they stay and PackFile is not at the memmove.
LEMMA EndsKept ==
    ASSUME UNCHANGED fileVars, pieces' = pieces, pc' = "pack" <=> pc = "pack"
    PROVE  \A i : EndOf(i)' = EndOf(i)
BY SameFile DEF EndOf

\* What PackFile writes is packed but for the flag it sets in advance.
LEMMA PackFileFlags ==
    ASSUME SectorsTypeOK, writer = "PackFile"
    PROVE  ~ SingleUnit /\ Packed /\ Tabled /\ ~ Encrypted
BY DEF SectorsTypeOK, SingleUnit, Packed, Tabled, Encrypted

\* Keys are numbers.
LEMMA KeyTyped ==
    ASSUME NEW i \in Nat
    PROVE  KeyOf(BaseKey + i) \in Int /\ KeyOf(BaseKey) \in Int
BY ConstantFacts DEF KeyOf, Plain

\* A piece of the right shape, put where the last one ends, keeps the pieces
\* in a row.
LEMMA PieceAppended ==
    ASSUME SectorsTypeOK, PiecesInv, KeysInv, ~ SingleUnit, pc \in {"pack", "edit"},
           content = <<>>, NEW n \in Nat, n = Len(pieces), n < NumSectors,
           NEW p \in Pieces, Shaped(p, n + 1), p.pos = EndOf(n),
           p.key = KeyOf(BaseKey + (n + 1) - 1),
           pieces' = Append(pieces, p), UNCHANGED <<fileVars, pc, content>>
    PROVE  /\ pieces' \in Seq(Pieces)
           /\ Len(pieces') = n + 1
           /\ EndOf(n + 1)' = p.pos + p.len
           /\ PiecesInv'
           /\ KeysInv'
<1>1. /\ pieces \in Seq(Pieces) /\ n \in Nat
      /\ size \in Nat /\ NumSectors \in Nat
  <2>1. pieces \in Seq(Pieces) /\ size \in Nat
    BY DEF SectorsTypeOK
  <2>2. QED
    BY <2>1, SectorFacts
<1>2. /\ pieces' \in Seq(Pieces) /\ Len(pieces') = n + 1
      /\ \A i \in 1 .. n : pieces'[i] = pieces[i]
      /\ pieces'[n + 1] = p
  BY <1>1
<1>3. UNCHANGED fileVars
  OBVIOUS
<1>4. \A i \in 0 .. n : EndOf(i)' = EndOf(i)
  BY <1>1, <1>2, <1>3, SameFile DEF EndOf
<1>5. EndOf(n + 1)' = p.pos + p.len
  BY <1>1, <1>2 DEF EndOf
<1>6. /\ n <= NumSectors
      /\ \A i \in 1 .. n : Shaped(pieces[i], i) /\ pieces[i].pos = EndOf(i - 1)
      /\ \A i, j \in 1 .. n : i < j => EndOf(i) <= pieces[j].pos
  BY DEF PiecesInv
<1>7. \A i \in 1 .. n + 1 :
          Shaped(pieces'[i], i) /\ pieces'[i].pos = EndOf(i - 1)'
  <2> SUFFICES ASSUME NEW i \in 1 .. n + 1
               PROVE  Shaped(pieces'[i], i) /\ pieces'[i].pos = EndOf(i - 1)'
    OBVIOUS
  <2>1. i - 1 \in 0 .. n /\ (i = n + 1 \/ i \in 1 .. n)
    BY <1>1
  <2>2. EndOf(i - 1)' = EndOf(i - 1)
    BY <1>4, <2>1
  <2>3. CASE i = n + 1
    BY <1>1, <1>2, <2>2, <2>3
  <2>4. CASE i \in 1 .. n
    BY <1>2, <1>6, <2>2, <2>4
  <2>5. QED
    BY <2>1, <2>3, <2>4
<1>8. \A i \in 1 .. n : EndOf(i) \in Int /\ pieces[i].pos \in Int /\ EndOf(i) >= pieces[i].pos
  <2> SUFFICES ASSUME NEW i \in 1 .. n
               PROVE  EndOf(i) \in Int /\ pieces[i].pos \in Int /\ EndOf(i) >= pieces[i].pos
    OBVIOUS
  <2>1. pieces[i] \in Pieces
    BY <1>1
  <2>2. pieces[i].pos \in Nat /\ pieces[i].len \in Nat
    BY <2>1 DEF Pieces
  <2>3. EndOf(i) = pieces[i].pos + pieces[i].len
    BY <1>1 DEF EndOf
  <2>4. QED
    BY <2>2, <2>3
<1>9. \A i, j \in 1 .. n + 1 : i < j => EndOf(i)' <= pieces'[j].pos
  <2> SUFFICES ASSUME NEW i \in 1 .. n + 1, NEW j \in 1 .. n + 1, i < j
               PROVE  EndOf(i)' <= pieces'[j].pos
    OBVIOUS
  <2>1. i \in 1 .. n /\ i \in 0 .. n /\ EndOf(i)' = EndOf(i)
    BY <1>1, <1>4
  <2>2. CASE j \in 1 .. n
    BY <1>2, <1>6, <2>1, <2>2
  <2>3. CASE j = n + 1
    <3>1. EndOf(i) <= EndOf(n)
      <4>1. CASE i = n
        BY <1>8, <2>1, <4>1
      <4>2. CASE i # n
        <5>1. n \in 1 .. n /\ i < n
          BY <1>1, <2>1, <4>2
        <5>2. EndOf(i) <= pieces[n].pos
          BY <1>6, <2>1, <5>1
        <5>3. QED
          BY <1>8, <2>1, <5>1, <5>2
      <4>3. QED
        BY <4>1, <4>2
    <3>2. QED
      BY <1>2, <2>1, <2>3, <3>1
  <2>4. QED
    BY <1>1, <2>2, <2>3
<1>10. PiecesInv'
  <2>1. NumSectors' = NumSectors /\ \A q, i : Shaped(q, i)' = Shaped(q, i)
    BY <1>3, SameFile
  <2>2. Len(pieces') <= NumSectors
    BY <1>1, <1>2
  <2>3. \A i \in 1 .. Len(pieces') : Shaped(pieces[i], i)' /\ pieces'[i].pos = EndOf(i - 1)'
    BY <1>2, <1>3, <1>7 DEF Shaped, SectorLen, fileVars
  <2>4. QED
    BY <1>2, <1>9, <2>1, <2>2, <2>3 DEF PiecesInv
<1>11. KeysInv'
  <2>1. \A i \in 1 .. n : pieces[i].key = KeyOf(BaseKey + i - 1)
    BY DEF KeysInv
  <2>2. \A i \in 1 .. n + 1 : pieces'[i].key = KeyOf(BaseKey + i - 1)
    BY <1>1, <1>2, <2>1
  <2>3. \A i \in 1 .. Len(pieces') : ~ (i <= Len(content'))
    BY <1>1, <1>2
  <2>4. QED
    BY <1>2, <1>3, <2>2, <2>3, SameFile DEF KeysInv
<1>12. QED
  BY <1>2, <1>5, <1>10, <1>11

-----------------------------------------------------------------------------
(* The invariant holds at the start and every action keeps it. *)

\* Nothing is written or read at the start.
LEMMA InitSectors == Init => SectorsInv
<1> SUFFICES ASSUME Init PROVE SectorsInv
  OBVIOUS
<1> USE DEF Init
<1>1. SectorsTypeOK
  <2>1. size \in Nat
    <3>1. size \in 0 .. MaxSize
      OBVIOUS
    <3> HIDE DEF Init
    <3>2. QED
      BY <3>1, SectorsAssumption
  <2>2. pieces \in Seq(Pieces) /\ content \in Seq(Int) /\ written \in Nat /\ sizes \in Seq(Nat)
    <3>1. pieces = <<>> /\ content = <<>> /\ written = 0 /\ sizes = <<>>
      OBVIOUS
    <3> HIDE DEF Init
    <3>2. QED
      BY <3>1
  <2>3. /\ writer \in {"PackFile", "editor"}
        /\ writer = "PackFile" => flags = {"compressed"}
        /\ pc = IF writer = "PackFile" THEN "pack" ELSE "edit"
        /\ flags \in SUBSET {"single unit", "compressed", "encrypted"}
    OBVIOUS
  <2> HIDE DEF Init
  <2>4. QED
    BY <2>1, <2>2, <2>3 DEF SectorsTypeOK
<1>2. size \in Nat /\ NumSectors \in Nat
  <2>1. size \in Nat
    BY <1>1 DEF SectorsTypeOK
  <2>2. QED
    BY <2>1, SectorFacts
<1>3. /\ pieces = <<>> /\ Len(pieces) = 0 /\ content = <<>> /\ Len(content) = 0 /\ written = 0
      /\ pc \in {"pack", "edit"} /\ (pc = "pack" => writer = "PackFile")
      /\ (pc = "edit" => writer # "PackFile")
      /\ sizes = <<>> /\ Len(sizes) = 0 /\ outpos = 0 /\ table = <<>> /\ acc = 0
  OBVIOUS
<1> HIDE DEF Init
<1>4. \A i \in 1 .. Len(pieces) : FALSE
  BY <1>3
<1>5. PiecesInv
  BY <1>2, <1>3, <1>4 DEF PiecesInv
<1>6. KeysInv
  BY <1>4 DEF KeysInv
<1>7. WrittenInv
  <2>1. writer = "PackFile" => pc = "pack" /\ EndOf(Len(pieces)) = 0
    BY <1>3 DEF EndOf
  <2>2. Len(pieces) * Block = 0
    BY <1>3, ConstantFacts
  <2>3. QED
    BY <1>2, <1>3, <2>1, <2>2 DEF WrittenInv
<1>8. NotedInv /\ SumInv /\ OffsetsInv
  BY <1>3, <1>4 DEF NotedInv, SumInv, OffsetsInv
<1>9. ContentInv
  <2>1. SingleUnit => pc = "edit"
    BY DEF Init, SingleUnit
  <2>2. \A i \in 1 .. Len(content) : FALSE
    BY <1>3
  <2>3. QED
    BY <1>2, <1>3, <2>1, <2>2 DEF ContentInv
<1>10. QED
  BY <1>1, <1>5, <1>6, <1>7, <1>8, <1>9 DEF SectorsInv

\* What PackFile makes of a sector tells by its size whether it is packed, if
\* the sector is a full one.
LEMMA PackedSector ==
    ASSUME SectorsTypeOK, NotedInv, pc = "pack", NEW n \in Nat, n = Len(pieces), n < NumSectors,
           NEW z \in 1 .. Block + 1, PackSector(z)
    PROVE  \E p \in Pieces :
              /\ pieces' = Append(pieces, p) /\ sizes' = Append(sizes, p.len)
              /\ written' = written + p.len /\ outpos' = outpos + p.len
              /\ p.pos = written /\ p.key = Plain
              /\ p.len \in 1 .. SectorLen(n + 1)
              /\ Shaped(p, n + 1)
<1>1. writer = "PackFile" /\ size \in Nat /\ written \in Nat /\ outpos = written
  BY DEF SectorsTypeOK, NotedInv
<1>2. n + 1 \in 1 .. NumSectors /\ n + 1 \in Int
  BY <1>1, SectorFacts
<1>3. /\ SectorLen(n + 1) \in 1 .. Block
      /\ (n + 1) * Block <= size => SectorLen(n + 1) = Block
  BY <1>1, <1>2, SectorFacts
<1>4. Stored = SectorLen(n + 1)
  BY DEF Stored
<1>5. CASE z < Stored /\ z <= Block - 2 /\ Put("packed", 1 + z, 1 + z)
  <2>1. PICK p : p = Piece(written, 1 + z, "packed", n + 1, Plain)
    OBVIOUS
  <2>2. /\ pieces' = Append(pieces, p) /\ sizes' = Append(sizes, 1 + z)
        /\ written' = written + (1 + z) /\ outpos' = outpos + (1 + z)
    BY <1>1, <1>5, <2>1 DEF Put
  <2>3. 1 + z \in 1 .. SectorLen(n + 1) /\ 1 + z < Block
    BY <1>3, <1>4, <1>5, ConstantFacts
  <2>4. p \in Pieces /\ p.len = 1 + z /\ p.pos = written /\ p.key = Plain
    BY <1>1, <1>2, <2>1, <2>3 DEF Piece, Pieces, Plain
  <2>5. Shaped(p, n + 1)
    <3>1. (n + 1) * Block <= size => 1 + z < SectorLen(n + 1)
      BY <1>3, <2>3
    <3>2. p.data = n + 1 /\ p.len = 1 + z /\ p.form = "packed"
      BY <2>1 DEF Piece
    <3>3. QED
      BY <1>1, <2>3, <3>1, <3>2 DEF Shaped
  <2>6. QED
    BY <2>2, <2>3, <2>4, <2>5
<1>6. CASE Put("stored", Stored, Stored)
  <2>1. PICK p : p = Piece(written, SectorLen(n + 1), "stored", n + 1, Plain)
    OBVIOUS
  <2>2. /\ pieces' = Append(pieces, p) /\ sizes' = Append(sizes, SectorLen(n + 1))
        /\ written' = written + SectorLen(n + 1) /\ outpos' = outpos + SectorLen(n + 1)
    BY <1>1, <1>4, <1>6, <2>1 DEF Put
  <2>3. p \in Pieces /\ p.len = SectorLen(n + 1) /\ p.pos = written /\ p.key = Plain
    BY <1>1, <1>2, <1>3, <2>1 DEF Piece, Pieces, Plain
  <2>4. Shaped(p, n + 1)
    BY <1>2, <1>3, <2>1 DEF Piece, Shaped
  <2>5. QED
    BY <1>3, <2>2, <2>3, <2>4
<1>7. QED
  BY <1>5, <1>6 DEF PackSector

\* A round of the loop of PackFile.
LEMMA PackNextStep == SectorsInv /\ PackNext => SectorsInv'
<1> SUFFICES ASSUME SectorsInv, PackNext PROVE SectorsInv'
  OBVIOUS
<1>1. /\ SectorsTypeOK /\ PiecesInv /\ KeysInv /\ WrittenInv
      /\ NotedInv /\ SumInv /\ OffsetsInv /\ ContentInv
  BY DEF SectorsInv
<1>2. PICK z \in 1 .. Block + 1 : PackSector(z)
  BY DEF PackNext
<1>3. /\ pc = "pack" /\ pc' = "pack" /\ UNCHANGED fileVars /\ UNCHANGED <<pc, content>>
      /\ Len(pieces) < NumSectors /\ UNCHANGED <<table, acc>>
  BY DEF PackNext
<1>4. /\ size \in Nat /\ writer = "PackFile" /\ written \in Nat /\ pieces \in Seq(Pieces)
      /\ content \in Seq(Int) /\ content = <<>>
  BY <1>1, <1>3 DEF SectorsTypeOK, ContentInv
<1>5. PICK n \in Nat : n = Len(pieces)
  BY <1>4
<1>6. ~ SingleUnit /\ Packed /\ Tabled /\ ~ Encrypted
  BY <1>1, <1>4, PackFileFlags
<1>7. PICK p \in Pieces :
              /\ pieces' = Append(pieces, p) /\ sizes' = Append(sizes, p.len)
              /\ written' = written + p.len /\ outpos' = outpos + p.len
              /\ p.pos = written /\ p.key = Plain
              /\ p.len \in 1 .. SectorLen(n + 1)
              /\ Shaped(p, n + 1)
  BY <1>1, <1>2, <1>3, <1>5, PackedSector
<1>8. p.len \in Nat
  BY DEF Pieces
<1>9. written <= n * Block /\ written = EndOf(n) /\ written <= size
  BY <1>1, <1>3, <1>4, <1>5 DEF WrittenInv
<1>10. p.key = KeyOf(BaseKey + (n + 1) - 1)
  BY <1>6, <1>7 DEF KeyOf
<1>11. /\ pieces' \in Seq(Pieces) /\ Len(pieces') = n + 1
       /\ EndOf(n + 1)' = p.pos + p.len
       /\ PiecesInv' /\ KeysInv'
  <2>1. Shaped(p, n + 1) /\ p.pos = EndOf(n) /\ pieces' = Append(pieces, p) /\ n < NumSectors
    BY <1>3, <1>5, <1>7, <1>9
  <2>2. QED
    BY <1>1, <1>3, <1>4, <1>5, <1>6, <1>10, <2>1, PieceAppended
<1>12. SectorsTypeOK'
  <2>1. written' \in Nat
    BY <1>4, <1>7, <1>8
  <2>2. sizes' \in Seq(Nat)
    <3>1. sizes \in Seq(Nat)
      BY <1>1 DEF SectorsTypeOK
    <3>2. sizes' = Append(sizes, p.len)
      BY <1>7
    <3>3. QED
      BY <1>8, <3>1, <3>2
  <2>3. QED
    BY <1>1, <1>3, <1>4, <1>11, <2>1, <2>2 DEF SectorsTypeOK, fileVars
<1>13. WrittenInv'
  <2>1. n + 1 \in 1 .. NumSectors
    BY <1>3, <1>4, <1>5, SectorFacts
  <2>2. /\ SectorLen(n + 1) \in 1 .. Block
        /\ ((n + 1) - 1) * Block + SectorLen(n + 1) <= size
    BY <1>4, <2>1, SectorFacts
  <2>3. (n + 1) - 1 = n /\ (n + 1) * Block = n * Block + Block /\ n * Block \in Nat
    BY ConstantFacts
  <2>4. written' = written + p.len /\ p.len \in 1 .. SectorLen(n + 1)
    BY <1>7
  <2>5. written' <= size /\ written' <= (n + 1) * Block
    BY <1>4, <1>9, <2>2, <2>3, <2>4, ConstantFacts
  <2>6. written' = EndOf(n + 1)'
    BY <1>7, <1>11, <2>4
  <2>7. Len(pieces') = n + 1 => EndOf(Len(pieces))' = EndOf(n + 1)'
    BY DEF EndOf
  <2>8. QED
    BY <1>3, <1>4, <1>11, <2>5, <2>6, <2>7 DEF WrittenInv, fileVars
<1>14. OffsetsInv' /\ SumInv'
  BY <1>1, <1>3 DEF OffsetsInv, SumInv
<1>15. ContentInv'
  BY <1>1, <1>3, <1>4, <1>6, SameFile DEF ContentInv
<1>16. NotedInv'
  <2>1. /\ outpos = written /\ Len(sizes) = n /\ sizes \in Seq(Nat)
        /\ \A i \in 1 .. n : sizes[i] = pieces[i].len
    BY <1>1, <1>3, <1>5 DEF NotedInv, SectorsTypeOK
  <2>2. outpos' = written' /\ Len(sizes') = n + 1
    BY <1>7, <1>8, <2>1
  <2>3. ASSUME NEW i \in 1 .. n + 1 PROVE sizes'[i] = pieces'[i].len
    <3>1. CASE i = n + 1
      BY <1>4, <1>5, <1>7, <1>8, <2>1, <3>1
    <3>2. CASE i \in 1 .. n
      <4>1. sizes'[i] = sizes[i] /\ pieces'[i] = pieces[i]
        BY <1>4, <1>5, <1>7, <1>8, <2>1, <3>2
      <4>2. QED
        BY <2>1, <3>2, <4>1
    <3>3. QED
      BY <3>1, <3>2
  <2>4. QED
    BY <1>11, <2>2, <2>3 DEF NotedInv
<1>17. QED
  BY <1>11, <1>12, <1>13, <1>14, <1>15, <1>16 DEF SectorsInv

\* The room made for the table: each piece moves by its size.
LEMMA PackTableStep == SectorsInv /\ PackTable => SectorsInv'
<1> SUFFICES ASSUME SectorsInv, PackTable PROVE SectorsInv'
  OBVIOUS
<1>1. /\ SectorsTypeOK /\ PiecesInv /\ KeysInv /\ WrittenInv
      /\ NotedInv /\ SumInv /\ OffsetsInv /\ ContentInv
  BY DEF SectorsInv
<1>2. /\ pc = "pack" /\ pc' = "sum"
      /\ UNCHANGED fileVars /\ UNCHANGED <<table, sizes, written, outpos, acc, content>>
      /\ Len(pieces) = NumSectors
      /\ pieces' = [i \in 1 .. NumSectors |-> Moved(pieces[i])]
  BY DEF PackTable, packVars
<1>3. /\ size \in Nat /\ writer = "PackFile" /\ written \in Nat /\ pieces \in Seq(Pieces)
      /\ content \in Seq(Int) /\ content = <<>>
  BY <1>1, <1>2 DEF SectorsTypeOK, ContentInv
<1>4. ~ SingleUnit /\ Packed /\ Tabled /\ ~ Encrypted
  BY <1>1, <1>3, PackFileFlags
<1>5. UNCHANGED fileVars
  BY <1>2
<1>6. /\ ~ SingleUnit' /\ Packed' /\ Tabled'
      /\ NumSectors' = NumSectors /\ TableSize' = TableSize
      /\ \A k : KeyOf(k)' = KeyOf(k)
  BY <1>4, <1>5, SameFile
<1>7. PICK n \in Nat : n = NumSectors
  BY <1>3, SectorFacts
<1>8. PICK t \in Nat : t = TableSize
  BY <1>3, SectorFacts
<1>9. \A i \in 1 .. n : /\ pieces[i] \in Pieces /\ pieces[i].pos \in Nat /\ pieces[i].len \in Nat
                        /\ pieces[i].data \in Int /\ pieces[i].key \in Int
                        /\ pieces[i].form \in {"packed", "stored"}
  <2>1. \A i \in 1 .. n : pieces[i] \in Pieces
    BY <1>2, <1>3, <1>7
  <2>2. QED
    BY <2>1 DEF Pieces
<1>10. \A i \in 1 .. n : /\ pieces'[i] \in Pieces
                         /\ pieces'[i].pos = pieces[i].pos + t
                         /\ pieces'[i].len = pieces[i].len
                         /\ pieces'[i].form = pieces[i].form
                         /\ pieces'[i].data = pieces[i].data
                         /\ pieces'[i].key = pieces[i].key
  <2> SUFFICES ASSUME NEW i \in 1 .. n
               PROVE  /\ pieces'[i] \in Pieces
                      /\ pieces'[i].pos = pieces[i].pos + t
                      /\ pieces'[i].len = pieces[i].len
                      /\ pieces'[i].form = pieces[i].form
                      /\ pieces'[i].data = pieces[i].data
                      /\ pieces'[i].key = pieces[i].key
    OBVIOUS
  <2>1. EndOf(i) = pieces[i].pos + pieces[i].len
    BY DEF EndOf
  <2>2. written = EndOf(n)
    BY <1>1, <1>2, <1>3, <1>7 DEF WrittenInv
  <2>3. pieces[i].pos + pieces[i].len <= written
    <3>1. CASE i = n
      BY <1>9, <2>1, <2>2, <3>1
    <3>2. CASE i # n
      <4>1. i < n /\ n \in 1 .. n
        BY <3>2
      <4>2. EndOf(i) <= pieces[n].pos
        BY <1>1, <1>2, <1>4, <1>7, <4>1 DEF PiecesInv
      <4>3. EndOf(n) = pieces[n].pos + pieces[n].len
        BY <4>1 DEF EndOf
      <4>4. QED
        BY <1>9, <2>1, <2>2, <4>1, <4>2, <4>3
    <3>3. QED
      BY <3>1, <3>2
  <2>4. pieces'[i] = [pieces[i] EXCEPT !.pos = @ + t, !.data = @]
    BY <1>2, <1>7, <1>8, <2>3 DEF Moved
  <2>5. PICK p \in Pieces : p = pieces[i]
    BY <1>9
  <2>6. pieces'[i] = [p EXCEPT !.pos = @ + t, !.data = @]
    BY <2>4, <2>5
  <2>7. p.pos \in Nat /\ p.pos + t \in Nat
    BY <2>5 DEF Pieces
  <2>8. pieces'[i] = [pos |-> p.pos + t, len |-> p.len, form |-> p.form,
                      data |-> p.data, key |-> p.key]
    BY <2>6, <2>5 DEF Pieces
  <2>9. QED
    BY <2>5, <2>7, <2>8 DEF Pieces
<1>11. pieces' \in Seq(Pieces) /\ Len(pieces') = n
  <2>1. pieces' = [i \in 1 .. n |-> Moved(pieces[i])]
    BY <1>2, <1>7
  <2>2. DOMAIN pieces' = 1 .. n
    BY <2>1
  <2>3. pieces' \in [1 .. n -> Pieces]
    BY <1>10, <2>1
  <2>4. QED
    BY <2>2, <2>3
<1>12. \A i \in 0 .. n : EndOf(i) \in Int /\ EndOf(i)' = t + EndOf(i)
  <2> SUFFICES ASSUME NEW i \in 0 .. n PROVE EndOf(i) \in Int /\ EndOf(i)' = t + EndOf(i)
    OBVIOUS
  <2>1. CASE i = 0
    BY <1>2, <1>6, <1>8, <2>1 DEF EndOf
  <2>2. CASE i # 0
    <3>1. i \in 1 .. n
      BY <2>2
    <3>2. EndOf(i) = pieces[i].pos + pieces[i].len
          /\ EndOf(i)' = pieces'[i].pos + pieces'[i].len
      BY <2>2 DEF EndOf
    <3>3. QED
      BY <1>9, <1>10, <3>1, <3>2
  <2>3. QED
    BY <2>1, <2>2
<1>13. SectorsTypeOK'
  BY <1>1, <1>2, <1>3, <1>11 DEF SectorsTypeOK, fileVars
<1>14. PiecesInv'
  <2>1. /\ \A i \in 1 .. n : Shaped(pieces[i], i) /\ pieces[i].pos = EndOf(i - 1)
        /\ \A i, j \in 1 .. n : i < j => EndOf(i) <= pieces[j].pos
    BY <1>1, <1>2, <1>4, <1>7 DEF PiecesInv
  <2>2. \A i \in 1 .. n : Shaped(pieces[i], i)'
    BY <1>5, <1>10, <2>1 DEF Shaped, SectorLen, fileVars
  <2>3. \A i \in 1 .. n : pieces'[i].pos = EndOf(i - 1)'
    <3> SUFFICES ASSUME NEW i \in 1 .. n PROVE pieces'[i].pos = EndOf(i - 1)'
      OBVIOUS
    <3>1. i - 1 \in 0 .. n
      OBVIOUS
    <3>2. QED
      BY <1>9, <1>10, <1>12, <2>1, <3>1
  <2>4. \A i, j \in 1 .. n : i < j => EndOf(i)' <= pieces'[j].pos
    <3> SUFFICES ASSUME NEW i \in 1 .. n, NEW j \in 1 .. n, i < j
                 PROVE  EndOf(i)' <= pieces'[j].pos
      OBVIOUS
    <3>1. i \in 0 .. n /\ EndOf(i) <= pieces[j].pos
      BY <2>1
    <3>2. QED
      BY <1>9, <1>10, <1>12, <3>1
  <2>5. QED
    BY <1>6, <1>7, <1>11, <2>2, <2>3, <2>4 DEF PiecesInv
<1>15. KeysInv'
  <2>1. \A i \in 1 .. n : pieces[i].key = KeyOf(BaseKey + i - 1) /\ ~ (i <= Len(content))
    BY <1>1, <1>2, <1>3, <1>4, <1>7 DEF KeysInv
  <2>2. \A i \in 1 .. n : pieces'[i].key = KeyOf(BaseKey + i - 1)' /\ ~ (i <= Len(content)')
    BY <1>2, <1>6, <1>10, <2>1
  <2>3. QED
    BY <1>11, <2>2 DEF KeysInv
<1>16. WrittenInv'
  <2>1. written <= size /\ written = EndOf(n)
    BY <1>1, <1>2, <1>3, <1>7 DEF WrittenInv
  <2>2. EndOf(n)' = t + EndOf(n)
    BY <1>12
  <2>3. NumSectors' = n => EndOf(NumSectors)' = EndOf(n)'
    BY DEF EndOf
  <2>4. QED
    BY <1>2, <1>3, <1>6, <1>7, <1>8, <2>1, <2>2, <2>3 DEF WrittenInv, fileVars
<1>17. OffsetsInv'
  BY <1>2 DEF OffsetsInv
<1>18. ContentInv'
  BY <1>1, <1>2, <1>3, <1>6, <1>7 DEF ContentInv
<1>19. NotedInv'
  <2>1. outpos = written /\ Len(sizes) = n /\ \A i \in 1 .. n : sizes[i] = pieces[i].len
    BY <1>1, <1>2, <1>7 DEF NotedInv
  <2>2. QED
    BY <1>2, <1>10, <1>11, <2>1 DEF NotedInv
<1>20. SumInv'
  <2>1. table' = <<>> /\ acc' = 0
    BY <1>1, <1>2 DEF SumInv
  <2>2. table' \in Seq(Int) /\ Len(table') = 0 /\ \A i \in 1 .. Len(table') : FALSE
    BY <2>1
  <2>3. QED
    BY <1>2, <1>6, <1>7, <2>1, <2>2 DEF SumInv
<1>21. QED
  BY <1>13, <1>14, <1>15, <1>16, <1>17, <1>18, <1>19, <1>20 DEF SectorsInv

\* A round of the loop that sums up the sizes noted: the sum moves on from the
\* end of one piece to the end of the next.
LEMMA SumNextStep == SectorsInv /\ SumNext => SectorsInv'
<1> SUFFICES ASSUME SectorsInv, SumNext PROVE SectorsInv'
  OBVIOUS
<1>1. /\ SectorsTypeOK /\ PiecesInv /\ KeysInv /\ WrittenInv
      /\ NotedInv /\ SumInv /\ OffsetsInv /\ ContentInv
  BY DEF SectorsInv
<1>2. /\ pc = "sum" /\ pc' = pc /\ UNCHANGED fileVars
      /\ UNCHANGED <<pieces, sizes, written, outpos, content>>
      /\ Len(table) # 1 + Len(sizes)
      /\ acc' = acc + sectorOffsetTable(Len(table))
      /\ table' = Append(table, acc')
  BY DEF SumNext
<1>3. /\ size \in Nat /\ writer = "PackFile" /\ pieces \in Seq(Pieces)
  BY <1>1, <1>2 DEF SectorsTypeOK
<1>4. ~ SingleUnit /\ Packed /\ Tabled
  BY <1>1, <1>3, PackFileFlags
<1>5. /\ SingleUnit' = SingleUnit /\ Packed' = Packed /\ Tabled' = Tabled
      /\ NumSectors' = NumSectors /\ TableSize' = TableSize
      /\ \A k : KeyOf(k)' = KeyOf(k)
  BY <1>2, SameFile
<1>6. PICK n \in Nat : n = NumSectors
  BY <1>3, SectorFacts
<1>7. PICK t \in Nat : t = TableSize
  BY <1>3, SectorFacts
<1>8. \A i : EndOf(i)' = EndOf(i)
  BY <1>2, EndsKept
<1>9. /\ Len(pieces) = n /\ Len(sizes) = n
      /\ \A i \in 1 .. n : sizes[i] = pieces[i].len /\ pieces[i].pos = EndOf(i - 1)
  BY <1>1, <1>2, <1>4, <1>6 DEF PiecesInv, NotedInv
<1>10. /\ table \in Seq(Int) /\ Len(table) <= n + 1
       /\ acc = IF table = <<>> THEN 0 ELSE EndOf(Len(table) - 1)
       /\ \A i \in 1 .. Len(table) : table[i] = EndOf(i - 1)
  BY <1>1, <1>2, <1>6 DEF SumInv
<1>11. PICK k \in 0 .. n : k = Len(table)
  BY <1>2, <1>9, <1>10
<1>12. acc' = EndOf(k) /\ acc' \in Int
  <2>1. CASE k = 0
    <3>1. table = <<>>
      BY <1>10, <1>11, <2>1, EmptySeq
    <3>2. acc' = 0 + TableSize /\ EndOf(0) = TableSize
      BY <1>2, <1>4, <1>10, <1>11, <2>1, <3>1 DEF sectorOffsetTable, EndOf
    <3>3. QED
      BY <1>7, <2>1, <3>2
  <2>2. CASE k # 0
    <3>1. k \in 1 .. n /\ table # <<>>
      BY <1>10, <1>11, <2>2
    <3>2. acc' = EndOf(k - 1) + sizes[k]
      BY <1>2, <1>10, <1>11, <2>2, <3>1 DEF sectorOffsetTable
    <3>3. acc' = pieces[k].pos + pieces[k].len
      BY <1>9, <3>1, <3>2
    <3>4. pieces[k] \in Pieces
      BY <1>3, <1>9, <3>1
    <3>5. pieces[k].pos \in Nat /\ pieces[k].len \in Nat
      BY <3>4 DEF Pieces
    <3>6. EndOf(k) = pieces[k].pos + pieces[k].len
      BY <2>2 DEF EndOf
    <3>7. QED
      BY <3>3, <3>5, <3>6
  <2>3. QED
    BY <2>1, <2>2
<1>13. /\ table' \in Seq(Int) /\ Len(table') = k + 1 /\ table'[k + 1] = acc'
       /\ \A i \in 1 .. k : table'[i] = table[i]
  BY <1>2, <1>10, <1>11, <1>12
<1>14. SumInv'
  <2>1. \A i \in 1 .. k + 1 : table'[i] = EndOf(i - 1)
    <3> SUFFICES ASSUME NEW i \in 1 .. k + 1 PROVE table'[i] = EndOf(i - 1)
      OBVIOUS
    <3>1. CASE i = k + 1
      BY <1>12, <1>13, <3>1
    <3>2. CASE i \in 1 .. k
      BY <1>10, <1>11, <1>13, <3>2
    <3>3. QED
      BY <3>1, <3>2
  <2>2. table' # <<>> /\ (k + 1) - 1 = k
    BY <1>13
  <2>3. EndOf(Len(table) - 1)' = EndOf(k)'
    BY <1>13, <2>2 DEF EndOf
  <2>4. QED
    BY <1>2, <1>5, <1>6, <1>8, <1>12, <1>13, <2>1, <2>2, <2>3 DEF SumInv
<1>15. SectorsTypeOK'
  BY <1>1, <1>2 DEF SectorsTypeOK, fileVars
<1>16. PiecesInv'
  <2>1. \A i \in 1 .. n : Shaped(pieces[i], i)'
    BY <1>1, <1>2, <1>4, <1>9 DEF PiecesInv, Shaped, SectorLen, fileVars
  <2>2. QED
    BY <1>1, <1>2, <1>5, <1>8, <1>9, <2>1 DEF PiecesInv
<1>17. KeysInv'
  BY <1>1, <1>2, <1>5 DEF KeysInv
<1>18. WrittenInv'
  <2>1. NumSectors' = n => EndOf(NumSectors)' = EndOf(n)'
    BY DEF EndOf
  <2>2. QED
    BY <1>1, <1>2, <1>5, <1>6, <1>8, <2>1 DEF WrittenInv, fileVars
<1>19. NotedInv' /\ OffsetsInv' /\ ContentInv'
  BY <1>1, <1>2, <1>4, <1>5, DisguiseKept DEF NotedInv, OffsetsInv, ContentInv
<1>20. QED
  BY <1>14, <1>15, <1>16, <1>17, <1>18, <1>19 DEF SectorsInv

\* The end of that loop: the table is complete.
LEMMA SumDoneStep == SectorsInv /\ SumDone => SectorsInv'
<1> SUFFICES ASSUME SectorsInv, SumDone PROVE SectorsInv'
  OBVIOUS
<1>1. /\ SectorsTypeOK /\ PiecesInv /\ KeysInv /\ WrittenInv
      /\ NotedInv /\ SumInv /\ OffsetsInv /\ ContentInv
  BY DEF SectorsInv
<1>2. /\ pc = "sum" /\ pc' = "extract" /\ UNCHANGED fileVars
      /\ UNCHANGED <<table, pieces, sizes, written, content>>
      /\ Len(table) = 1 + Len(sizes)
  BY DEF SumDone, imageVars, packVars
<1>3. /\ size \in Nat /\ writer = "PackFile"
  BY <1>1, <1>2 DEF SectorsTypeOK
<1>4. ~ SingleUnit /\ Packed /\ Tabled
  BY <1>1, <1>3, PackFileFlags
<1>5. /\ SingleUnit' = SingleUnit /\ Packed' = Packed /\ Tabled' = Tabled
      /\ NumSectors' = NumSectors /\ TableSize' = TableSize
      /\ \A k : KeyOf(k)' = KeyOf(k)
  BY <1>2, SameFile
<1>6. PICK n \in Nat : n = NumSectors
  BY <1>3, SectorFacts
<1>8. \A i : EndOf(i)' = EndOf(i)
  BY <1>2, EndsKept
<1>9. Len(pieces) = n /\ Len(sizes) = n
  BY <1>1, <1>2, <1>4, <1>6 DEF PiecesInv, NotedInv
<1>10. /\ table \in Seq(Int) /\ Len(table) = n + 1
       /\ \A i \in 1 .. n + 1 : table[i] = EndOf(i - 1)
  BY <1>1, <1>2, <1>6, <1>9 DEF SumInv
<1>11. OffsetsInv'
  <2>1. table \in [1 .. n + 1 -> Int]
    BY <1>10
  <2>2. \A i \in 0 .. n : i + 1 \in 1 .. n + 1 /\ (i + 1) - 1 = i
    OBVIOUS
  <2>3. \A i \in 0 .. n : table[i + 1] = EndOf(i)
    BY <1>10, <2>2
  <2>4. QED
    BY <1>2, <1>5, <1>6, <1>8, <1>10, <2>1, <2>3 DEF OffsetsInv
<1>12. SectorsTypeOK'
  BY <1>1, <1>2 DEF SectorsTypeOK, fileVars
<1>13. PiecesInv'
  <2>1. \A i \in 1 .. n : Shaped(pieces[i], i)'
    BY <1>1, <1>2, <1>4, <1>9 DEF PiecesInv, Shaped, SectorLen, fileVars
  <2>2. QED
    BY <1>1, <1>2, <1>5, <1>6, <1>8, <1>9, <2>1 DEF PiecesInv
<1>14. KeysInv'
  BY <1>1, <1>2, <1>5 DEF KeysInv
<1>15. WrittenInv'
  <2>1. NumSectors' = n => EndOf(NumSectors)' = EndOf(n)'
    BY DEF EndOf
  <2>2. QED
    BY <1>1, <1>2, <1>5, <1>6, <1>8, <2>1 DEF WrittenInv, fileVars
<1>16. NotedInv' /\ SumInv'
  BY <1>2 DEF NotedInv, SumInv
<1>17. ContentInv'
  BY <1>1, <1>2, <1>4, <1>5, <1>6 DEF ContentInv
<1>18. QED
  BY <1>11, <1>12, <1>13, <1>14, <1>15, <1>16, <1>17 DEF SectorsInv

\* The editor puts a sector behind the last one.
LEMMA EditSectorStep == SectorsInv /\ EditSector => SectorsInv'
<1> SUFFICES ASSUME SectorsInv, EditSector PROVE SectorsInv'
  OBVIOUS
<1>1. /\ SectorsTypeOK /\ PiecesInv /\ KeysInv /\ WrittenInv
      /\ NotedInv /\ SumInv /\ OffsetsInv /\ ContentInv
  BY DEF SectorsInv
<1>2. /\ pc = "edit" /\ pc' = "edit" /\ ~ SingleUnit /\ Len(pieces) < NumSectors
      /\ UNCHANGED <<fileVars, table, tableKey, written, sizes, pc, content>>
  BY DEF EditSector, packVars
<1>3. /\ size \in Nat /\ pieces \in Seq(Pieces) /\ content \in Seq(Int) /\ content = <<>>
      /\ writer = "editor"
  BY <1>1, <1>2 DEF SectorsTypeOK, ContentInv
<1>4. UNCHANGED fileVars /\ UNCHANGED <<fileVars, pc, content>>
  BY <1>2
<1>5. PICK n \in Nat : n = Len(pieces)
  BY <1>3
<1>6. n + 1 \in 1 .. NumSectors /\ NumSectors \in Nat /\ TableSize \in Nat
  BY <1>2, <1>3, <1>5, SectorFacts
<1>7. SectorLen(n + 1) \in 1 .. Block
  BY <1>3, <1>6, SectorFacts
<1> DEFINE pos == IF pieces = <<>> THEN IF Packed THEN TableSize ELSE 0
                  ELSE pieces[(n + 1) - 1].pos + pieces[(n + 1) - 1].len
           key == KeyOf(BaseKey + (n + 1) - 1)
<1>8. pos \in Nat /\ pos = EndOf(n)
  <2>1. CASE n = 0
    <3>1. pieces = <<>>
      BY <1>3, <1>5, <2>1, EmptySeq
    <3>2. QED
      BY <1>2, <1>6, <2>1, <3>1 DEF EndOf
  <2>2. CASE n # 0
    <3>1. pieces # <<>> /\ (n + 1) - 1 = n /\ pieces[n] \in Pieces
      BY <1>3, <1>5, <2>2
    <3>2. pos = EndOf(n) /\ pos = pieces[n].pos + pieces[n].len
      BY <2>2, <3>1 DEF EndOf
    <3>3. pieces[n].pos \in Nat /\ pieces[n].len \in Nat
      BY <3>1 DEF Pieces
    <3>4. QED
      BY <3>2, <3>3
  <2>3. QED
    BY <2>1, <2>2
<1>9. key \in Int
  BY KeyTyped
<1>10. \/ pieces' = Append(pieces, Piece(pos, SectorLen(n + 1), "stored", n + 1, key))
       \/ \E z \in 1 .. SectorLen(n + 1) - 1 :
             pieces' = Append(pieces, Piece(pos, z, "packed", n + 1, key))
  BY <1>5 DEF EditSector
<1> HIDE DEF pos, key
<1>11. PICK p \in Pieces : /\ pieces' = Append(pieces, p) /\ p.pos = pos /\ p.key = key
                           /\ Shaped(p, n + 1)
  <2>1. ASSUME pieces' = Append(pieces, Piece(pos, SectorLen(n + 1), "stored", n + 1, key))
        PROVE  \E p \in Pieces : /\ pieces' = Append(pieces, p) /\ p.pos = pos /\ p.key = key
                                 /\ Shaped(p, n + 1)
    <3> DEFINE p == Piece(pos, SectorLen(n + 1), "stored", n + 1, key)
    <3>1. p \in Pieces /\ p.pos = pos /\ p.key = key
      BY <1>7, <1>8, <1>9 DEF Piece, Pieces
    <3>2. Shaped(p, n + 1)
      BY <1>7 DEF Piece, Shaped
    <3> HIDE DEF p
    <3>3. QED
      BY <2>1, <3>1, <3>2 DEF p
  <2>2. ASSUME NEW z \in 1 .. SectorLen(n + 1) - 1,
               pieces' = Append(pieces, Piece(pos, z, "packed", n + 1, key))
        PROVE  \E p \in Pieces : /\ pieces' = Append(pieces, p) /\ p.pos = pos /\ p.key = key
                                 /\ Shaped(p, n + 1)
    <3> DEFINE p == Piece(pos, z, "packed", n + 1, key)
    <3>1. p \in Pieces /\ p.pos = pos /\ p.key = key
      BY <1>7, <1>8, <1>9 DEF Piece, Pieces
    <3>2. Shaped(p, n + 1)
      BY <1>7 DEF Piece, Shaped
    <3> HIDE DEF p
    <3>3. QED
      BY <2>2, <3>1, <3>2 DEF p
  <2>3. QED
    BY <1>10, <2>1, <2>2
<1>12. pieces' \in Seq(Pieces) /\ PiecesInv' /\ KeysInv'
  <2>1. p.pos = EndOf(n) /\ p.key = KeyOf(BaseKey + (n + 1) - 1) /\ n < NumSectors
    BY <1>6, <1>8, <1>11 DEF key
  <2>2. QED
    BY <1>1, <1>2, <1>3, <1>4, <1>5, <1>11, <2>1, PieceAppended
<1>13. SectorsTypeOK'
  BY <1>1, <1>2, <1>3, <1>12 DEF SectorsTypeOK, fileVars
<1>14. WrittenInv' /\ NotedInv' /\ SumInv' /\ OffsetsInv'
  BY <1>2, <1>3 DEF WrittenInv, NotedInv, SumInv, OffsetsInv, fileVars
<1>15. ContentInv'
  <2>1. \A i \in 1 .. Len(content') : FALSE
    BY <1>2, <1>3
  <2>2. Len(content') = 0 /\ content' = <<>> /\ NumSectors' \in Nat /\ ~ SingleUnit'
    BY <1>2, <1>3, <1>4, <1>6, SameFile
  <2>3. QED
    BY <1>2, <2>1, <2>2 DEF ContentInv
<1>16. QED
  BY <1>12, <1>13, <1>14, <1>15 DEF SectorsInv

\* The editor stores a file as one unit.
LEMMA EditUnitStep == SectorsInv /\ EditUnit => SectorsInv'
<1> SUFFICES ASSUME SectorsInv, EditUnit PROVE SectorsInv'
  OBVIOUS
<1>1. SectorsTypeOK /\ ContentInv
  BY DEF SectorsInv
<1>2. /\ pc = "edit" /\ pc' = "extract" /\ SingleUnit
      /\ pieces' = <<Piece(0, size, IF Packed THEN "packed" ELSE "stored", 1, KeyOf(BaseKey))>>
      /\ UNCHANGED fileVars /\ written' = written /\ sizes' = sizes /\ content' = content
  BY DEF EditUnit, packVars
<1>3. /\ SingleUnit' /\ ~ Tabled' /\ Packed' = Packed
      /\ KeyOf(BaseKey)' = KeyOf(BaseKey) /\ size' = size /\ content = <<>>
  BY <1>1, <1>2, SameFile DEF Tabled, fileVars, ContentInv
<1>4. size \in Nat /\ writer # "PackFile" /\ writer' = writer
  BY <1>1, <1>2 DEF SectorsTypeOK, fileVars
<1>5. pieces' \in Seq(Pieces)
  <2>1. KeyOf(BaseKey) \in Int
    BY KeyTyped
  <2>2. Piece(0, size, IF Packed THEN "packed" ELSE "stored", 1, KeyOf(BaseKey)) \in Pieces
    BY <1>4, <2>1 DEF Piece, Pieces
  <2>3. QED
    BY <1>2, <2>2
<1>6. SectorsTypeOK'
  BY <1>1, <1>2, <1>4, <1>5 DEF SectorsTypeOK, fileVars
<1>7. PiecesInv' /\ KeysInv' /\ WrittenInv' /\ NotedInv' /\ SumInv' /\ OffsetsInv'
  BY <1>2, <1>3, <1>4 DEF PiecesInv, KeysInv, WrittenInv, NotedInv, SumInv, OffsetsInv
<1>8. ContentInv'
  BY <1>2, <1>3 DEF ContentInv, Piece
<1>9. QED
  BY <1>6, <1>7, <1>8 DEF SectorsInv

\* The table of the editor, if the file is packed.
LEMMA EditTableStep == SectorsInv /\ EditTable => SectorsInv'
<1> SUFFICES ASSUME SectorsInv, EditTable PROVE SectorsInv'
  OBVIOUS
<1>1. /\ SectorsTypeOK /\ PiecesInv /\ KeysInv /\ WrittenInv
      /\ NotedInv /\ SumInv /\ OffsetsInv /\ ContentInv
  BY DEF SectorsInv
<1>2. /\ pc = "edit" /\ pc' = "extract" /\ ~ SingleUnit /\ Len(pieces) = NumSectors
      /\ UNCHANGED fileVars /\ UNCHANGED <<pieces, written, sizes, content>>
      /\ Packed => table' = [i \in 1 .. NumSectors + 1 |->
                       IF i = 1 THEN TableSize ELSE pieces[i - 1].pos + pieces[i - 1].len]
  BY DEF EditTable, packVars
<1>3. /\ size \in Nat /\ pieces \in Seq(Pieces) /\ content \in Seq(Int) /\ content = <<>>
      /\ writer # "PackFile" /\ writer' = writer
  BY <1>1, <1>2 DEF SectorsTypeOK, ContentInv, fileVars
<1>4. /\ ~ SingleUnit' /\ Packed' = Packed /\ Tabled' = Tabled
      /\ NumSectors' = NumSectors
      /\ \A k : KeyOf(k)' = KeyOf(k)
  BY <1>2, SameFile
<1>5. PICK n \in Nat : n = NumSectors
  BY <1>3, SectorFacts
<1>6. TableSize \in Nat
  BY <1>3, SectorFacts
<1>7. \A i : EndOf(i)' = EndOf(i)
  BY <1>2, EndsKept
<1>8. SectorsTypeOK'
  BY <1>1, <1>2, <1>3 DEF SectorsTypeOK, fileVars
<1>9. PiecesInv'
  <2>1. \A i \in 1 .. n : Shaped(pieces[i], i)'
    BY <1>1, <1>2, <1>5 DEF PiecesInv, Shaped, SectorLen, fileVars
  <2>2. QED
    BY <1>1, <1>2, <1>4, <1>5, <1>7, <2>1 DEF PiecesInv
<1>10. KeysInv'
  <2>1. \A i \in 1 .. n : pieces[i].key = KeyOf(BaseKey + i - 1) /\ ~ (i <= Len(content))
    BY <1>1, <1>2, <1>3, <1>5 DEF KeysInv
  <2>2. QED
    BY <1>2, <1>4, <1>5, <2>1 DEF KeysInv
<1>11. WrittenInv' /\ NotedInv' /\ SumInv'
  BY <1>2, <1>3 DEF WrittenInv, NotedInv, SumInv
<1>12. OffsetsInv'
  <2> SUFFICES ASSUME Tabled PROVE OffsetsInv'
    BY <1>4 DEF OffsetsInv
  <2>1. Packed
    BY DEF Tabled
  <2>2. table' = [i \in 1 .. n + 1 |->
                     IF i = 1 THEN TableSize ELSE pieces[i - 1].pos + pieces[i - 1].len]
    BY <1>2, <1>5, <2>1
  <2>3. \A i \in 0 .. n : EndOf(i) \in Int /\ table'[i + 1] = EndOf(i)
    <3> SUFFICES ASSUME NEW i \in 0 .. n PROVE EndOf(i) \in Int /\ table'[i + 1] = EndOf(i)
      OBVIOUS
    <3>1. i + 1 \in 1 .. n + 1 /\ (i + 1) - 1 = i /\ (i + 1 = 1 <=> i = 0)
      OBVIOUS
    <3>2. CASE i = 0
      BY <1>2, <1>6, <2>1, <2>2, <3>1, <3>2 DEF EndOf
    <3>3. CASE i # 0
      <4>1. pieces[i] \in Pieces
        BY <1>2, <1>3, <1>5, <3>3
      <4>2. pieces[i].pos \in Nat /\ pieces[i].len \in Nat
        BY <4>1 DEF Pieces
      <4>3. EndOf(i) = pieces[i].pos + pieces[i].len
        BY <3>3 DEF EndOf
      <4>4. table'[i + 1] = pieces[i].pos + pieces[i].len
        BY <2>2, <3>1, <3>3
      <4>5. QED
        BY <4>2, <4>3, <4>4
    <3>4. QED
      BY <3>2, <3>3
  <2>4. table' \in [1 .. n + 1 -> Int]
    <3>1. \A j \in 1 .. n + 1 : table'[j] \in Int
      <4> SUFFICES ASSUME NEW j \in 1 .. n + 1 PROVE table'[j] \in Int
        OBVIOUS
      <4>1. j - 1 \in 0 .. n /\ (j - 1) + 1 = j
        OBVIOUS
      <4>2. QED
        BY <2>3, <4>1
    <3>2. table' = [j \in 1 .. n + 1 |-> table'[j]]
      BY <2>2
    <3>3. QED
      BY <3>1, <3>2
  <2>5. Len(table') = n + 1
    BY <2>4
  <2>6. QED
    BY <1>4, <1>5, <1>7, <2>3, <2>4, <2>5 DEF OffsetsInv
<1>13. ContentInv'
  <2>1. \A i \in 1 .. Len(content') : FALSE
    BY <1>2, <1>3
  <2>2. Len(content') = 0 /\ content' = <<>>
    BY <1>2, <1>3
  <2>3. QED
    BY <1>2, <1>4, <1>5, <2>1, <2>2 DEF ContentInv
<1>14. QED
  BY <1>8, <1>9, <1>10, <1>11, <1>12, <1>13 DEF SectorsInv

\* ExtractFile leaves the bytes of the archive alone, but for decrypting them.
LEMMA ImageKept ==
    ASSUME SectorsInv, UNCHANGED fileVars, UNCHANGED <<table, pieces, sizes, written>>,
           pc \notin {"pack", "sum", "edit"}, pc' \notin {"pack", "sum", "edit"}
    PROVE  PiecesInv' /\ WrittenInv' /\ NotedInv' /\ SumInv' /\ OffsetsInv'
<1>1. SectorsTypeOK /\ PiecesInv /\ WrittenInv /\ OffsetsInv
  BY DEF SectorsInv
<1>2. /\ SingleUnit' = SingleUnit /\ Tabled' = Tabled /\ NumSectors' = NumSectors
      /\ TableSize' = TableSize
  BY SameFile
<1>3. \A i : EndOf(i)' = EndOf(i)
  BY EndsKept
<1>4. PICK n : n = NumSectors
  OBVIOUS
<1>5. PiecesInv'
  <2>1. ~ SingleUnit => \A i \in 1 .. Len(pieces) : Shaped(pieces[i], i)'
    BY <1>1 DEF PiecesInv, Shaped, SectorLen, fileVars
  <2>2. QED
    BY <1>1, <1>2, <1>3, <2>1 DEF PiecesInv
<1>6. WrittenInv'
  <2>1. NumSectors' = n => EndOf(NumSectors)' = EndOf(n)'
    BY DEF EndOf
  <2>2. QED
    BY <1>1, <1>2, <1>3, <1>4, <2>1 DEF WrittenInv, fileVars
<1>7. OffsetsInv'
  BY <1>1, <1>2, <1>3 DEF OffsetsInv
<1>8. NotedInv' /\ SumInv'
  BY DEF NotedInv, SumInv
<1>9. QED
  BY <1>5, <1>6, <1>7, <1>8

\* ExtractFile of one unit.
LEMMA ExtractUnitStep == SectorsInv /\ ExtractUnit => SectorsInv'
<1> SUFFICES ASSUME SectorsInv, ExtractUnit PROVE SectorsInv'
  OBVIOUS
<1>1. SectorsTypeOK /\ ContentInv
  BY DEF SectorsInv
<1>2. /\ pc = "extract" /\ pc' = "done" /\ SingleUnit /\ ~ Packed
      /\ content' = Append(content,
            Copied(IF Encrypted THEN Decrypt(pieces[1], BaseKey) ELSE pieces[1]))
      /\ UNCHANGED fileVars /\ UNCHANGED <<table, pieces, sizes, written>>
  BY DEF ExtractUnit, Give, imageVars, packVars
<1>3. /\ SingleUnit' /\ ~ Packed' /\ ~ Tabled'
      /\ KeyOf(BaseKey)' = KeyOf(BaseKey) /\ size' = size
  BY <1>2, SameFile DEF Tabled, fileVars
<1>4. content = <<>> /\ pieces[1] = Piece(0, size, "stored", 1, KeyOf(BaseKey))
  BY <1>1, <1>2 DEF ContentInv
<1>5. Copied(IF Encrypted THEN Decrypt(pieces[1], BaseKey) ELSE pieces[1]) = 1
  BY <1>4 DEF Copied, Decrypt, Piece, KeyOf
<1>6. content' = <<1>>
  BY <1>2, <1>4, <1>5
<1>7. SectorsTypeOK'
  <2>1. content' \in Seq(Int)
    BY <1>6
  <2>2. QED
    BY <1>1, <1>2, <2>1 DEF SectorsTypeOK, fileVars
<1>8. PiecesInv' /\ WrittenInv' /\ NotedInv' /\ SumInv' /\ OffsetsInv'
  BY <1>2, ImageKept
<1>9. KeysInv'
  BY <1>3 DEF KeysInv
<1>10. ContentInv'
  BY <1>1, <1>2, <1>3, <1>6 DEF ContentInv, Piece
<1>11. QED
  BY <1>7, <1>8, <1>9, <1>10 DEF SectorsInv

\* ExtractFile of one stored sector.
LEMMA ExtractStoredStep == SectorsInv /\ ExtractStored => SectorsInv'
<1> SUFFICES ASSUME SectorsInv, ExtractStored PROVE SectorsInv'
  OBVIOUS
<1>1. SectorsTypeOK /\ PiecesInv /\ KeysInv
  BY DEF SectorsInv
<1> DEFINE i == Len(content) + 1
           data == IF i = NumSectors /\ size % Block = 0 THEN Garbage
                   ELSE Copied(Decrypt(pieces[i], BaseKey + i - 1))
<1>2. /\ pc = "extract" /\ pc' = "extract" /\ ~ SingleUnit /\ ~ Packed
      /\ Len(content) < NumSectors
      /\ content' = Append(content, data)
      /\ UNCHANGED fileVars /\ UNCHANGED <<table, pieces, sizes, written>>
  BY DEF ExtractStored, Give, imageVars, packVars
<1>3. ~ SingleUnit' /\ ~ Packed' /\ ~ Tabled' /\ ~ Tabled /\ \A k : KeyOf(k)' = KeyOf(k)
  BY <1>2, SameFile DEF Tabled
<1>4. content \in Seq(Int) /\ pieces \in Seq(Pieces) /\ size \in Nat
  BY <1>1 DEF SectorsTypeOK
<1>5. data \in Int
  <2>1. NumSectors \in Nat /\ Len(content) \in Nat
    BY <1>4, SectorFacts
  <2>2. i \in 1 .. Len(pieces)
    BY <1>1, <1>2, <2>1 DEF PiecesInv
  <2>3. pieces[i] \in Pieces
    BY <1>4, <2>2, ElementOfSeq
  <2>4. PICK piece \in Pieces : piece = pieces[i]
    BY <2>3
  <2>5. piece.data \in Int
    BY DEF Pieces
  <2>6. Copied(Decrypt(piece, BaseKey + i - 1)) \in {piece.data, Garbage}
    BY DEF Copied, Decrypt, Pieces
  <2>7. QED
    BY <2>4, <2>5, <2>6 DEF Garbage
<1> HIDE DEF data
<1>6. SectorsTypeOK'
  <2>1. content' \in Seq(Int)
    BY <1>2, <1>4, <1>5
  <2>2. QED
    BY <1>1, <1>2, <2>1 DEF SectorsTypeOK, fileVars
<1>7. PiecesInv' /\ WrittenInv' /\ NotedInv' /\ SumInv' /\ OffsetsInv'
  BY <1>2, ImageKept
<1>8. KeysInv'
  BY <1>1, <1>2, <1>3 DEF KeysInv
<1>9. ContentInv'
  BY <1>2, <1>3 DEF ContentInv
<1>10. QED
  BY <1>6, <1>7, <1>8, <1>9 DEF SectorsInv

\* ExtractFile of one packed unit.
LEMMA ExtractPackedUnitStep == SectorsInv /\ ExtractPackedUnit => SectorsInv'
<1> SUFFICES ASSUME SectorsInv, ExtractPackedUnit PROVE SectorsInv'
  OBVIOUS
<1>1. SectorsTypeOK /\ ContentInv
  BY DEF SectorsInv
<1>2. /\ pc = "extract" /\ SingleUnit /\ Packed /\ pc' \in {"done", "failed"}
      /\ content' = content \/ content' = Append(content, pieces[1].data)
      /\ UNCHANGED fileVars /\ UNCHANGED <<table, pieces, sizes, written>>
  BY DEF ExtractPackedUnit, Give, imageVars, packVars
<1>3. /\ SingleUnit' /\ Packed' /\ ~ Tabled'
      /\ KeyOf(BaseKey)' = KeyOf(BaseKey) /\ size' = size
  BY <1>2, SameFile DEF Tabled, fileVars
<1>4. content \in Seq(Int) /\ pieces[1] = Piece(0, size, "packed", 1, KeyOf(BaseKey))
  <2>1. content \in Seq(Int)
    BY <1>1 DEF SectorsTypeOK
  <2>2. pieces = <<Piece(0, size, IF Packed THEN "packed" ELSE "stored", 1, KeyOf(BaseKey))>>
    BY <1>1, <1>2 DEF ContentInv
  <2>3. QED
    BY <1>2, <2>1, <2>2
<1>5. SectorsTypeOK'
  <2>1. pieces[1].data = 1
    BY <1>4 DEF Piece
  <2>2. content' \in Seq(Int)
    BY <1>2, <1>4, <2>1
  <2>3. QED
    BY <1>1, <1>2, <2>2 DEF SectorsTypeOK, fileVars
<1>6. PiecesInv' /\ WrittenInv' /\ NotedInv' /\ SumInv' /\ OffsetsInv'
  BY <1>2, ImageKept
<1>7. KeysInv'
  BY <1>3 DEF KeysInv
<1>8. ContentInv'
  BY <1>1, <1>2, <1>3 DEF ContentInv, Piece
<1>9. QED
  BY <1>5, <1>6, <1>7, <1>8 DEF SectorsInv

\* ExtractFile decrypts the table; done, it leaves its loop; and a stuttering
\* step changes nothing.
LEMMA QuietSteps == SectorsInv /\ (DecryptTable \/ Done \/ UNCHANGED vars) => SectorsInv'
<1>1. ASSUME SectorsInv, UNCHANGED fileVars, UNCHANGED <<table, pieces, sizes, written, content>>,
             pc \notin {"pack", "sum", "edit"}, pc' \in {"sectors", "done"},
             SingleUnit => pc' = pc, pc' = "sectors" => Tabled,
             pc' = "done" => Len(content) = NumSectors \/ pc = pc'
      PROVE  SectorsInv'
  <2>1. SectorsTypeOK /\ KeysInv /\ ContentInv
    BY <1>1 DEF SectorsInv
  <2>2. /\ SingleUnit' = SingleUnit /\ Packed' = Packed /\ Tabled' = Tabled
        /\ NumSectors' = NumSectors /\ size' = size
        /\ \A k : KeyOf(k)' = KeyOf(k)
    BY <1>1, SameFile DEF fileVars
  <2>3. SectorsTypeOK'
    BY <1>1, <2>1 DEF SectorsTypeOK, fileVars
  <2>4. PiecesInv' /\ WrittenInv' /\ NotedInv' /\ SumInv' /\ OffsetsInv'
    BY <1>1, ImageKept
  <2>5. KeysInv'
    BY <1>1, <2>1, <2>2 DEF KeysInv
  <2>6. ContentInv'
    BY <1>1, <2>1, <2>2, DisguiseKept DEF ContentInv, fileVars, Piece, Garbage
  <2>7. QED
    BY <2>3, <2>4, <2>5, <2>6 DEF SectorsInv
<1>2. ASSUME SectorsInv, DecryptTable PROVE SectorsInv'
  <2>1. /\ pc = "extract" /\ pc' = "sectors" /\ ~ SingleUnit /\ Tabled
        /\ UNCHANGED fileVars /\ UNCHANGED <<table, pieces, sizes, written, content>>
    BY <1>2 DEF DecryptTable, Tabled, imageVars, packVars
  <2>2. QED
    BY <1>1, <1>2, <2>1
<1>3. ASSUME SectorsInv, Done PROVE SectorsInv'
  <2>1. /\ pc \in {"extract", "sectors"} /\ pc' = "done" /\ ~ SingleUnit
        /\ Len(content) = NumSectors
        /\ UNCHANGED fileVars /\ UNCHANGED <<table, pieces, sizes, written, content>>
    BY <1>3 DEF Done, imageVars, packVars
  <2>2. QED
    BY <1>1, <1>3, <2>1
<1>4. ASSUME SectorsInv, UNCHANGED vars PROVE SectorsInv'
  <2>1. UNCHANGED fileVars /\ UNCHANGED <<table, pieces, sizes, written, outpos, acc, pc, content>>
    BY <1>4 DEF vars, imageVars, packVars
  <2>2. /\ SingleUnit' = SingleUnit /\ Packed' = Packed /\ Tabled' = Tabled
        /\ NumSectors' = NumSectors /\ TableSize' = TableSize
        /\ UNCHANGED <<size, flags, writer>>
        /\ \A k : KeyOf(k)' = KeyOf(k)
    BY <2>1, SameFile DEF fileVars
  <2>3. \A i : EndOf(i)' = EndOf(i)
    BY <2>1, EndsKept
  <2>4. SectorsTypeOK'
    BY <1>4, <2>1, <2>2 DEF SectorsInv, SectorsTypeOK
  <2>5. PiecesInv'
    <3>1. ~ SingleUnit => \A i \in 1 .. Len(pieces) : Shaped(pieces[i], i)'
      BY <1>4, <2>1, <2>2 DEF SectorsInv, PiecesInv, Shaped, SectorLen
    <3>2. QED
      BY <1>4, <2>1, <2>2, <2>3, <3>1 DEF SectorsInv, PiecesInv
  <2>6. KeysInv'
    BY <1>4, <2>1, <2>2 DEF SectorsInv, KeysInv
  <2>7. WrittenInv'
    <3>1. WrittenInv
      BY <1>4 DEF SectorsInv
    <3>2. EndOf(Len(pieces))' = EndOf(Len(pieces)) /\ EndOf(NumSectors)' = EndOf(NumSectors)
      BY <2>1, <2>2 DEF EndOf
    <3>3. QED
      BY <2>1, <2>2, <3>1, <3>2 DEF WrittenInv
  <2>8. NotedInv' /\ OffsetsInv'
    BY <1>4, <2>1, <2>2, <2>3 DEF SectorsInv, NotedInv, OffsetsInv
  <2>11. SumInv'
    <3>1. EndOf(Len(table) - 1)' = EndOf(Len(table) - 1)
      BY <2>1, <2>2 DEF EndOf
    <3>2. QED
      BY <1>4, <2>1, <2>2, <2>3, <3>1 DEF SectorsInv, SumInv
  <2>9. ContentInv'
    BY <1>4, <2>1, <2>2, DisguiseKept DEF SectorsInv, ContentInv, Piece, Garbage
  <2>10. QED
    BY <2>4, <2>5, <2>6, <2>7, <2>8, <2>9, <2>11 DEF SectorsInv
<1>5. QED
  BY <1>2, <1>3, <1>4

\* Sectors do not begin at the same place.
LEMMA PlacesDiffer ==
    ASSUME SectorsTypeOK, PiecesInv, ~ SingleUnit,
           NEW i \in 1 .. Len(pieces), NEW j \in 1 .. Len(pieces), i # j
    PROVE  pieces[i].pos # pieces[j].pos
<1>1. /\ pieces \in Seq(Pieces) /\ size \in Nat
      /\ \A k, l \in 1 .. Len(pieces) : k < l => EndOf(k) <= pieces[l].pos
      /\ \A k \in 1 .. Len(pieces) : Shaped(pieces[k], k)
  BY DEF SectorsTypeOK, PiecesInv
<1>2. ASSUME NEW k \in 1 .. Len(pieces), NEW l \in 1 .. Len(pieces), k < l
      PROVE  pieces[k].pos < pieces[l].pos
  <2>1. EndOf(k) <= pieces[l].pos /\ EndOf(k) = pieces[k].pos + pieces[k].len
    BY <1>1, <1>2 DEF EndOf
  <2>2. pieces[k] \in Pieces /\ pieces[l] \in Pieces
    BY <1>1
  <2>3. pieces[k].pos \in Nat /\ pieces[k].len \in Nat /\ pieces[l].pos \in Nat
    BY <2>2 DEF Pieces
  <2>4. pieces[k].len >= 1
    <3>1. Shaped(pieces[k], k)
      BY <1>1
    <3>2. QED
      BY <2>3, <3>1 DEF Shaped
  <2>5. QED
    BY <2>1, <2>3, <2>4
<1>3. pieces[i] \in Pieces /\ pieces[j] \in Pieces
  BY <1>1
<1>4. pieces[i].pos \in Nat /\ pieces[j].pos \in Nat
  BY <1>3 DEF Pieces
<1>5. CASE i < j
  BY <1>2, <1>4, <1>5
<1>6. CASE j < i
  BY <1>2, <1>4, <1>6
<1>7. QED
  BY <1>5, <1>6

\* ExtractFile of one sector behind the table: it finds the piece, decrypts it
\* and tells from its size what it is.
LEMMA ExtractSectorStep == SectorsInv /\ ExtractSector => SectorsInv'
<1> SUFFICES ASSUME SectorsInv, ExtractSector PROVE SectorsInv'
  OBVIOUS
<1>1. /\ SectorsTypeOK /\ PiecesInv /\ KeysInv /\ WrittenInv
      /\ NotedInv /\ SumInv /\ OffsetsInv /\ ContentInv
  BY DEF SectorsInv
<1>2. /\ size \in Nat /\ pieces \in Seq(Pieces) /\ content \in Seq(Int)
      /\ (pc = "sectors" => pc # "edit")
  BY <1>1 DEF SectorsTypeOK
<1> DEFINE at == CHOOSE j \in 1 .. Len(pieces) : pieces[j].pos = table[Len(content) + 1]
           found == IF Encrypted THEN Decrypt(pieces[at], BaseKey + (Len(content) + 1) - 1)
                    ELSE pieces[at]
           len == table[(Len(content) + 1) + 1] - table[Len(content) + 1]
           expected == ThisSectorSize(Len(content) + 1)
<1>3. /\ pc = "sectors" /\ Len(content) < NumSectors
      /\ UNCHANGED fileVars /\ UNCHANGED <<table, sizes, written>>
      /\ pieces' = [pieces EXCEPT ![at] = found]
      /\ \/ len = expected /\ content' = Append(content, Copied(found)) /\ pc' = pc
         \/ len # expected /\ Unpacks(found) /\ content' = Append(content, found.data) /\ pc' = pc
         \/ len # expected /\ ~ Unpacks(found)
  BY DEF ExtractSector, Give, packVars
<1> HIDE DEF at, found, len, expected
<1>4. PICK n \in Nat : n = NumSectors
  BY <1>2, SectorFacts
<1>5. PICK m \in Nat : m = Len(content)
  BY <1>2
<1>6. PICK idx \in 1 .. n : idx = m + 1
  BY <1>3, <1>4, <1>5
<1>7. Tabled /\ ~ SingleUnit /\ Packed
  BY <1>1, <1>3 DEF ContentInv, Tabled
<1>8. /\ Len(pieces) = n /\ idx \in 0 .. n /\ idx - 1 \in 0 .. n /\ (idx - 1) + 1 = idx
      /\ Len(content) + 1 = idx
  BY <1>1, <1>3, <1>4, <1>5, <1>6, <1>7 DEF PiecesInv
<1>9. /\ \A i \in 1 .. n : Shaped(pieces[i], i) /\ pieces[i].pos = EndOf(i - 1)
      /\ \A i, j \in 1 .. n : i < j => EndOf(i) <= pieces[j].pos
      /\ \A i \in 1 .. n :
            pieces[i].key = IF i <= m THEN Plain ELSE KeyOf(BaseKey + i - 1)
  BY <1>1, <1>5, <1>7, <1>8 DEF PiecesInv, KeysInv
<1>10. PICK piece \in Pieces : piece = pieces[idx]
  BY <1>2, <1>8, ElementOfSeq
<1>11. /\ piece.pos \in Nat /\ piece.len \in Nat /\ piece.data = idx
       /\ piece.form \in {"packed", "stored"}
       /\ piece.key = KeyOf(BaseKey + idx - 1)
       /\ Shaped(piece, idx)
  <2>1. piece.pos \in Nat /\ piece.len \in Nat /\ piece.form \in {"packed", "stored"}
    BY DEF Pieces
  <2>2. Shaped(piece, idx) /\ piece.data = idx
    BY <1>9, <1>10 DEF Shaped
  <2>3. ~ (idx <= m)
    BY <1>6
  <2>4. QED
    BY <1>9, <1>10, <2>1, <2>2, <2>3
<1>12. table[idx] = piece.pos /\ table[idx + 1] = piece.pos + piece.len
  <2>1. \A i \in 0 .. n : table[i + 1] = EndOf(i)
    BY <1>1, <1>3, <1>4, <1>7 DEF OffsetsInv
  <2>2. table[idx] = EndOf(idx - 1)
    BY <1>8, <2>1
  <2>3. EndOf(idx) = piece.pos + piece.len
    BY <1>10 DEF EndOf
  <2>4. QED
    BY <1>8, <1>9, <1>10, <2>1, <2>2, <2>3
<1>13. at = idx
  <2>1. at = CHOOSE j \in 1 .. Len(pieces) : pieces[j].pos = table[idx]
    BY <1>8 DEF at
  <2>2. idx \in 1 .. Len(pieces) /\ pieces[idx].pos = table[idx]
    BY <1>8, <1>10, <1>12
  <2>3. at \in 1 .. Len(pieces) /\ pieces[at].pos = table[idx]
    BY <2>1, <2>2
  <2>4. QED
    BY <1>1, <1>7, <2>2, <2>3, PlacesDiffer
<1>14. PICK plain \in Pieces : plain = [piece EXCEPT !.key = Plain]
  <2>1. [piece EXCEPT !.key = Plain] \in Pieces
    BY DEF Pieces, Plain
  <2>2. QED
    BY <2>1
<1>15. /\ plain.pos = piece.pos /\ plain.len = piece.len /\ plain.form = piece.form
       /\ plain.data = idx /\ plain.key = Plain
  BY <1>11, <1>14 DEF Pieces
<1>16. found = plain
  <2>1. found = IF Encrypted THEN Decrypt(piece, BaseKey + idx - 1) ELSE piece
    BY <1>8, <1>10, <1>13 DEF found
  <2>2. CASE Encrypted
    BY <1>11, <1>14, <2>1, <2>2 DEF Decrypt, KeyOf
  <2>3. CASE ~ Encrypted
    <3>1. piece.key = Plain
      BY <1>11, <2>3 DEF KeyOf
    <3>2. [piece EXCEPT !.key = Plain] = piece
      BY <3>1 DEF Pieces
    <3>3. QED
      BY <1>14, <2>1, <2>3, <3>2
  <2>4. QED
    BY <2>2, <2>3
<1>17. len = piece.len /\ expected = SectorLen(idx)
  <2>1. len = table[idx + 1] - table[idx]
    BY <1>8 DEF len
  <2>2. \A i \in 1 .. NumSectors : ThisSectorSize(i) = SectorLen(i)
    BY <1>2, SectorFacts
  <2>3. QED
    BY <1>4, <1>8, <1>11, <1>12, <2>1, <2>2 DEF expected
<1>18. PICK data \in Int :
           /\ content' = Append(content, data) /\ pc' = pc
           /\ data = IF Disguised(piece, idx) THEN Garbage ELSE idx
  <2>1. CASE len = expected
    <3>1. content' = Append(content, Copied(plain)) /\ pc' = pc
      BY <1>3, <1>16, <2>1
    <3>2. Copied(plain) \in Int
      BY <1>15 DEF Copied, Garbage
    <3>3. Disguised(piece, idx) <=> piece.form # "stored"
      BY <1>11, <1>17, <2>1 DEF Disguised
    <3>4. Copied(plain) = IF Disguised(piece, idx) THEN Garbage ELSE idx
      BY <1>11, <1>15, <3>3 DEF Copied
    <3>5. QED
      BY <3>1, <3>2, <3>4
  <2>2. CASE len # expected
    <3>1. piece.form = "packed"
      BY <1>11, <1>17, <2>2 DEF Shaped
    <3>2. Unpacks(plain)
      BY <1>15, <3>1 DEF Unpacks, Garbage
    <3>3. content' = Append(content, idx) /\ pc' = pc
      BY <1>3, <1>15, <1>16, <2>2, <3>2
    <3>4. ~ Disguised(piece, idx)
      BY <1>17, <2>2 DEF Disguised
    <3>5. QED
      BY <3>3, <3>4
  <2>3. QED
    BY <2>1, <2>2
<1>19. /\ pieces' \in Seq(Pieces) /\ Len(pieces') = n
       /\ pieces'[idx] = plain
       /\ \A i \in 1 .. n : i # idx => pieces'[i] = pieces[i]
  <2>1. pieces' = [pieces EXCEPT ![idx] = plain]
    BY <1>3, <1>13, <1>16
  <2>2. QED
    BY <1>2, <1>8, <2>1, ExceptSeq
<1>20. \A i \in 1 .. n : /\ pieces'[i].pos = pieces[i].pos /\ pieces'[i].len = pieces[i].len
                         /\ pieces'[i].form = pieces[i].form
                         /\ pieces'[i].data = pieces[i].data
  BY <1>10, <1>11, <1>15, <1>19
<1>21. /\ content' \in Seq(Int) /\ Len(content') = idx /\ content'[idx] = data
       /\ \A i \in 1 .. m : content'[i] = content[i]
  BY <1>2, <1>5, <1>6, <1>8, <1>18
<1>22. /\ SingleUnit' = SingleUnit /\ Packed' = Packed /\ Tabled' = Tabled
       /\ NumSectors' = NumSectors /\ TableSize' = TableSize
       /\ UNCHANGED <<size, flags, writer>>
       /\ \A k : KeyOf(k)' = KeyOf(k)
  BY <1>3, SameFile DEF fileVars
<1>23. \A i \in 0 .. n : EndOf(i)' = EndOf(i)
  <2>1. pc' = pc
    BY <1>18
  <2>2. QED
    BY <1>20, <1>22, <2>1 DEF EndOf
<1>24. SectorsTypeOK'
  BY <1>1, <1>3, <1>18, <1>19, <1>21, <1>22 DEF SectorsTypeOK
<1>25. PiecesInv'
  <2>1. \A i \in 1 .. n : Shaped(pieces[i], i)'
    BY <1>9, <1>20, <1>22 DEF Shaped, SectorLen
  <2>2. \A i \in 1 .. n : pieces'[i].pos = EndOf(i - 1)'
    <3> SUFFICES ASSUME NEW i \in 1 .. n PROVE pieces'[i].pos = EndOf(i - 1)'
      OBVIOUS
    <3>1. i - 1 \in 0 .. n
      OBVIOUS
    <3>2. QED
      BY <1>9, <1>20, <1>23, <3>1
  <2>3. \A i, j \in 1 .. n : i < j => EndOf(i)' <= pieces'[j].pos
    <3> SUFFICES ASSUME NEW i \in 1 .. n, NEW j \in 1 .. n, i < j
                 PROVE  EndOf(i)' <= pieces'[j].pos
      OBVIOUS
    <3>1. i \in 0 .. n
      OBVIOUS
    <3>2. QED
      BY <1>9, <1>20, <1>23, <3>1
  <2>4. QED
    BY <1>4, <1>19, <1>22, <2>1, <2>2, <2>3 DEF PiecesInv
<1>26. KeysInv'
  <2>1. \A i \in 1 .. n :
            pieces'[i].key = IF i <= idx THEN Plain ELSE KeyOf(BaseKey + i - 1)
    <3> SUFFICES ASSUME NEW i \in 1 .. n
                 PROVE  pieces'[i].key = IF i <= idx THEN Plain ELSE KeyOf(BaseKey + i - 1)
      OBVIOUS
    <3>1. CASE i = idx
      BY <1>15, <1>19, <3>1
    <3>2. CASE i # idx
      <4>1. pieces'[i] = pieces[i] /\ (i <= idx <=> i <= m)
        BY <1>6, <1>19, <3>2
      <4>2. QED
        BY <1>9, <4>1
    <3>3. QED
      BY <3>1, <3>2
  <2>2. QED
    BY <1>7, <1>19, <1>21, <1>22, <2>1 DEF KeysInv
<1>27. WrittenInv'
  <2>1. EndOf(n)' = EndOf(n)
    BY <1>23
  <2>2. NumSectors' = n => EndOf(NumSectors)' = EndOf(n)'
    BY DEF EndOf
  <2>3. pc' = pc
    BY <1>18
  <2>4. QED
    BY <1>1, <1>3, <1>4, <1>22, <2>1, <2>2, <2>3 DEF WrittenInv
<1>28. OffsetsInv'
  <2>1. pc' = pc
    BY <1>18
  <2>2. /\ table \in [1 .. n + 1 -> Int] /\ Len(table) = n + 1
        /\ \A i \in 0 .. n : table[i + 1] = EndOf(i)
    BY <1>1, <1>3, <1>4, <1>7 DEF OffsetsInv
  <2>3. QED
    BY <1>3, <1>4, <1>22, <1>23, <2>1, <2>2 DEF OffsetsInv
<1>31. NotedInv' /\ SumInv'
  <2>1. pc' = "sectors"
    BY <1>3, <1>18
  <2>2. QED
    BY <2>1 DEF NotedInv, SumInv
<1>29. ContentInv'
  <2>1. pc' = "sectors"
    BY <1>3, <1>18
  <2>2. \A i \in 1 .. idx :
            content'[i] = IF Disguised(pieces[i], i) THEN Garbage ELSE i
    <3> SUFFICES ASSUME NEW i \in 1 .. idx
                 PROVE  content'[i] = IF Disguised(pieces[i], i) THEN Garbage ELSE i
      OBVIOUS
    <3>1. CASE i = idx
      BY <1>10, <1>18, <1>21, <3>1
    <3>2. CASE i # idx
      <4>1. i \in 1 .. m
        BY <1>6, <3>2
      <4>2. content[i] = IF Disguised(pieces[i], i) THEN Garbage ELSE i
        BY <1>1, <1>5, <1>7, <4>1 DEF ContentInv
      <4>3. QED
        BY <1>21, <4>1, <4>2
    <3>3. QED
      BY <3>1, <3>2
  <2>3. \A i \in 1 .. idx : Disguised(pieces[i], i)' <=> Disguised(pieces[i], i)
    <3>1. idx <= n
      OBVIOUS
    <3>2. QED
      BY <1>20, <1>22, <3>1 DEF Disguised, SectorLen
  <2>4. \A i \in 1 .. idx :
            content'[i] = IF Disguised(pieces[i], i)' THEN Garbage ELSE i
    BY <2>2, <2>3
  <2>5. QED
    BY <1>4, <1>6, <1>7, <1>21, <1>22, <2>1, <2>4 DEF ContentInv, Garbage
<1>30. QED
  BY <1>24, <1>25, <1>26, <1>27, <1>28, <1>29, <1>31 DEF SectorsInv

-----------------------------------------------------------------------------
(* The theorems. *)

\* The invariant holds in every reachable state: how PackFile and the editor
\* lay the sectors of a file out, what the table of offsets says of them, what
\* they are encrypted with and what ExtractFile has made of them so far.
THEOREM SectorsInvariant == Spec => []SectorsInv
<1>1. Init => SectorsInv
  BY InitSectors
<1>2. SectorsInv /\ [Next]_vars => SectorsInv'
  BY PackNextStep, PackTableStep, SumNextStep, SumDoneStep, EditSectorStep, EditUnitStep, EditTableStep,
     ExtractUnitStep, ExtractStoredStep, ExtractPackedUnitStep, ExtractSectorStep, QuietSteps
     DEF Next
<1>3. QED
  BY <1>1, <1>2, PTL DEF Spec

\* The assertion of PackFiles, written < bufferSize, never fails: no sector is
\* written longer than it was read, and the buffer has room for the table too.
THEOREM SectorsFitBuffer == Spec => []BufferHolds
<1>1. SectorsInv => BufferHolds
  <2> SUFFICES ASSUME SectorsInv, writer = "PackFile"
               PROVE  /\ written < size + TableSize
                      /\ written + TableSize <= size + TableSize
    BY DEF BufferHolds
  <2>1. size \in Nat /\ written \in Nat /\ written <= size
    BY DEF SectorsInv, SectorsTypeOK, WrittenInv
  <2>2. TableSize \in Nat /\ TableSize >= 4
    BY <2>1, SectorFacts
  <2>3. QED
    BY <2>1, <2>2
<1>2. QED
  BY <1>1, SectorsInvariant, PTL

\* The sizes PackFile notes, summed up, lead to every sector, where memmove
\* has moved it, and to the end of the file, also while ExtractFile reads it.
THEOREM TableLeadsToSectors == Spec => []TableLeads
<1>1. SectorsInv => TableLeads
  <2> SUFFICES ASSUME SectorsInv, writer = "PackFile", pc \notin {"pack", "sum"}
               PROVE  /\ Len(table) = NumSectors + 1
                      /\ table[1] = 4 * Len(table)
                      /\ table[Len(table)] = TableSize + written
                      /\ \A i \in 1 .. NumSectors :
                            /\ pieces[i].pos = table[i]
                            /\ pieces[i].pos + pieces[i].len = table[i + 1]
    BY DEF TableLeads
  <2>1. SectorsTypeOK /\ PiecesInv /\ WrittenInv /\ OffsetsInv
    BY DEF SectorsInv
  <2>2. ~ SingleUnit /\ Packed /\ Tabled
    BY <2>1, PackFileFlags
  <2>3. size \in Nat /\ pc # "edit"
    BY <2>1 DEF SectorsTypeOK
  <2>4. PICK n \in Nat : n = NumSectors
    BY <2>3, SectorFacts
  <2>5. Len(table) = n + 1 /\ \A i \in 0 .. n : table[i + 1] = EndOf(i)
    BY <2>1, <2>2, <2>3, <2>4 DEF OffsetsInv
  <2>6. table[1] = TableSize /\ TableSize = 4 * (1 + n)
    <3>1. table[0 + 1] = EndOf(0)
      BY <2>5
    <3>2. QED
      BY <2>2, <2>4, <3>1 DEF EndOf, TableSize
  <2>7. table[n + 1] = TableSize + written
    BY <2>1, <2>4, <2>5 DEF WrittenInv
  <2>8. \A i \in 1 .. n :
            /\ pieces[i].pos = table[i]
            /\ pieces[i].pos + pieces[i].len = table[i + 1]
    <3> SUFFICES ASSUME NEW i \in 1 .. n
                 PROVE  /\ pieces[i].pos = table[i]
                        /\ pieces[i].pos + pieces[i].len = table[i + 1]
      OBVIOUS
    <3>1. i \in 0 .. n /\ i - 1 \in 0 .. n /\ (i - 1) + 1 = i
      OBVIOUS
    <3>2. pieces[i].pos = EndOf(i - 1)
      BY <2>1, <2>2, <2>3, <2>4 DEF PiecesInv
    <3>3. EndOf(i) = pieces[i].pos + pieces[i].len
      BY DEF EndOf
    <3>4. QED
      BY <2>5, <3>1, <3>2, <3>3
  <2>9. QED
    BY <2>4, <2>5, <2>6, <2>7, <2>8
<1>2. QED
  BY <1>1, SectorsInvariant, PTL

\* What ExtractFile returns follows from the invariant: a piece that looks
\* stored and is packed is the short last sector of PackFile.
LEMMA SizesTell ==
    ASSUME SectorsInv
    PROVE  Recognised
<1>1. size \in Nat /\ pieces \in Seq(Pieces) /\ writer \in {"PackFile", "editor"}
  BY DEF SectorsInv, SectorsTypeOK
<1>2. ASSUME Tabled, NEW i \in 1 .. Len(pieces), Disguised(pieces[i], i)
      PROVE  writer = "PackFile" /\ i = NumSectors /\ size % Block # 0
  <2>1. Shaped(pieces[i], i) /\ i \in 1 .. NumSectors
    <3>1. Len(pieces) \in Nat /\ NumSectors \in Nat
      BY <1>1, SectorFacts
    <3>2. ~ SingleUnit
      BY <1>2 DEF Tabled
    <3>3. QED
      BY <1>2, <3>1, <3>2 DEF SectorsInv, PiecesInv
  <2>2. ~ (i * Block <= size) /\ writer # "editor"
    <3>1. SectorLen(i) \in Nat
      BY <1>1, <2>1, SectorFacts
    <3>2. QED
      BY <1>2, <2>1, <3>1 DEF Shaped, Disguised
  <2>3. i * Block > size
    <3>1. NumSectors \in Nat
      BY <1>1, SectorFacts
    <3>2. i * Block \in Nat
      BY <2>1, <3>1, ConstantFacts
    <3>3. QED
      BY <1>1, <2>2, <3>2
  <2>4. QED
    BY <1>1, <2>1, <2>2, <2>3, SectorFacts
<1>3. QED
  BY <1>2 DEF SectorsInv, ContentInv, Recognised, Tabled

\* ExtractFile recognises a packed sector by its size, for every size of
\* sector, file and key: what it returns is what was written.
THEOREM SectorsRecognised == Spec => []Recognised
<1>1. SectorsInv => Recognised
  BY SizesTell
<1>2. QED
  BY <1>1, SectorsInvariant, PTL

\* "this sector is not compressed" is wrong of nothing but the short last sector
\* that zopfli shrinks by a single byte: every other file PackFile writes is
\* read back as it was.
THEOREM LostByOneByteOnly ==
    Spec => [](RoundTrip \/ (NumSectors # 0 /\ Disguised(pieces[NumSectors], NumSectors)))
<1>1. ASSUME SectorsInv, NumSectors # 0 => ~ Disguised(pieces[NumSectors], NumSectors)
      PROVE  RoundTrip
  <2> SUFFICES ASSUME writer = "PackFile"
               PROVE  pc # "failed" /\ (pc = "done" => content = [i \in 1 .. NumSectors |-> i])
    BY DEF RoundTrip
  <2>1. SectorsTypeOK
    BY <1>1 DEF SectorsInv
  <2>2. ~ SingleUnit /\ Packed
    BY <2>1, PackFileFlags
  <2>3. NumSectors \in Nat
    BY <2>1, SectorFacts DEF SectorsTypeOK
  <2>4. Recognised
    BY <1>1, SizesTell
  <2>5. ASSUME pc = "done" PROVE content = [i \in 1 .. NumSectors |-> i]
    <3>1. content \in Seq(Int) /\ Len(content) = NumSectors
      BY <2>1, <2>2, <2>4, <2>5 DEF SectorsTypeOK, Recognised
    <3>2. Len(pieces) = NumSectors
      BY <1>1, <2>2, <2>5 DEF SectorsInv, PiecesInv
    <3>3. ASSUME NEW i \in 1 .. NumSectors PROVE content[i] = i
      <4>1. ~ Disguised(pieces[i], i)
        <5>1. Disguised(pieces[i], i) => i = NumSectors
          BY <2>2, <2>4, <3>2 DEF Recognised
        <5>2. NumSectors # 0
          BY <2>3
        <5>3. QED
          BY <1>1, <5>1, <5>2
      <4>2. QED
        BY <2>2, <2>4, <3>1, <4>1 DEF Recognised
    <3>4. QED
      BY <3>1, <3>3
  <2>6. QED
    BY <2>2, <2>4, <2>5 DEF Recognised
<1>2. SectorsInv => RoundTrip \/ (NumSectors # 0 /\ Disguised(pieces[NumSectors], NumSectors))
  <2> DEFINE Lost == NumSectors # 0 /\ Disguised(pieces[NumSectors], NumSectors)
  <2>1. ASSUME SectorsInv, ~ Lost PROVE RoundTrip
    <3>1. NumSectors # 0 => ~ Disguised(pieces[NumSectors], NumSectors)
      BY <2>1, Zenon
    <3>2. QED
      BY <1>1, <2>1, <3>1
  <2> HIDE DEF Lost
  <2>2. SectorsInv => RoundTrip \/ Lost
    BY <2>1, Zenon
  <2>3. QED
    BY <2>2, Zenon DEF Lost
<1>3. QED
  BY <1>2, SectorsInvariant, PTL

-----------------------------------------------------------------------------
(* The tree of huff.cpp. *)

Size(t) == Len(t.items)
Value(t, i) == t.items[i].value
Weight(t, i) == t.items[i].weight
Up(t, i) == t.items[i].parent
Down(t, i) == t.items[i].lo
At(t, p) == t.list[p]
Higher(t, a) == At(t, Position(t, Down(t, a)) - 1)

Item == [value : Nat, weight : Nat, parent : Nat, lo : Nat]
Tree == [items : Seq(Item), list : Seq(Nat), byvalue : [Values -> Nat], valid : Nat]

\* The list holds every item once.
Lined(t) ==
    /\ Len(t.list) = Size(t)
    /\ \A p \in 1 .. Size(t) : At(t, p) \in 1 .. Size(t) /\ Position(t, At(t, p)) = p
    /\ \A i \in 1 .. Size(t) : Position(t, i) \in 1 .. Size(t) /\ At(t, Position(t, i)) = i

\* It falls in weight.
Falling(t) ==
    \A i, j \in 1 .. Size(t) :
        Position(t, i) <= Position(t, j) => Weight(t, i) >= Weight(t, j)

\* Only the item x that is about to get heavier may weigh nothing, at the end.
Heavy(t, x) ==
    \A i \in 1 .. Size(t) : Weight(t, i) >= 1 \/ (i = x /\ Position(t, i) = Size(t))

\* The children of a lie together behind it and weigh as much as a does, or
\* will when a is x.
Branch(t, a, x) ==
    /\ Down(t, a) \in 1 .. Size(t)
    /\ Position(t, Down(t, a)) >= 2
    /\ Up(t, Down(t, a)) = a
    /\ Up(t, Higher(t, a)) = a
    /\ Position(t, a) < Position(t, Higher(t, a))
    /\ Weight(t, a) + (IF a = x THEN 1 ELSE 0)
         = Weight(t, Down(t, a)) + Weight(t, Higher(t, a))

Branches(t, x) == \A a \in 1 .. Size(t) : Down(t, a) # 0 => Branch(t, a, x)

Child(t, i) ==
    /\ Up(t, i) \in 1 .. Size(t)
    /\ Down(t, Up(t, i)) # 0
    /\ i = Down(t, Up(t, i)) \/ i = Higher(t, Up(t, i))

\* The first r items of the list, and no others, have no parent.
Children(t, r) ==
    \A i \in 1 .. Size(t) : /\ Up(t, i) = 0 <=> Position(t, i) <= r
                            /\ Up(t, i) # 0 => Child(t, i)

Shape(t, x, r) ==
    /\ Lined(t)
    /\ Falling(t)
    /\ Heavy(t, x)
    /\ Branches(t, x)
    /\ Children(t, r)

\* A value leads to its leaf, and a leaf to its value.
Valued(t) ==
    /\ \A v \in Values : t.byvalue[v] # 0 =>
           /\ t.byvalue[v] \in 1 .. Size(t)
           /\ Down(t, t.byvalue[v]) = 0
           /\ Value(t, t.byvalue[v]) = v
    /\ \A i \in 1 .. Size(t) :
           Down(t, i) = 0 => Value(t, i) \in Values /\ t.byvalue[Value(t, i)] = i

Known(t) == {v \in Values : t.byvalue[v] # 0}
Filled(t, r) == Size(t) + r = 2 * Cardinality(Known(t))

TreeInv(t, x, r) == Shape(t, x, r) /\ Valued(t) /\ Filled(t, r)

LeavesInv ==
    /\ unlisted \subseteq Bytes /\ item = 0 /\ todo = <<>>
    /\ \A b \in unlisted : Weights[type][b] # 0
    /\ \A v \in unlisted \cup {ENDMARK, NEWBYTE} : tree.byvalue[v] = 0
    /\ TreeInv(tree, 0, Size(tree))

PairsInv ==
    /\ item = 0 /\ todo = <<>> /\ lo \in 1 .. Size(tree)
    /\ TreeInv(tree, 0, Position(tree, lo))

CodingInv ==
    /\ item \in 0 .. Size(tree)
    /\ TreeInv(tree, item, 1)

HuffmanInv ==
    /\ type \in DOMAIN Weights
    /\ phase \in {"leaves", "pairs", "coding"}
    /\ todo = <<>> \/ (\E b \in Bytes : todo = <<b>>)
    /\ tree \in Tree
    /\ phase = "leaves" => LeavesInv
    /\ phase = "pairs" => PairsInv
    /\ phase = "coding" => CodingInv

-----------------------------------------------------------------------------
(* Numbers. *)

\* A set of natural numbers that is not empty has a least element.
LEMMA LeastNumber ==
    ASSUME NEW T \in SUBSET Nat, T # {}
    PROVE  \E n \in T : \A m \in T : n <= m
<1> DEFINE F == {0 .. n - 1 : n \in T}
<1>1. IsWellFoundedOn(StrictSubsetOrdering(Nat), FiniteSubsetsOf(Nat))
  BY FS_StrictSubsetOrderingWellFounded
<1>2. F \subseteq FiniteSubsetsOf(Nat)
  <2> SUFFICES ASSUME NEW n \in T PROVE 0 .. n - 1 \in FiniteSubsetsOf(Nat)
    OBVIOUS
  <2>1. IsFiniteSet(0 .. n - 1) /\ 0 .. n - 1 \subseteq Nat
    BY FS_Interval
  <2>2. QED
    BY <2>1 DEF FiniteSubsetsOf
<1>3. PICK X \in F : \A Y \in F : ~ (<<Y, X>> \in StrictSubsetOrdering(Nat))
  <2>1. F # {}
    OBVIOUS
  <2> HIDE DEF F
  <2>2. QED
    BY <1>1, <1>2, <2>1, WFMin
<1>4. PICK n \in T : X = 0 .. n - 1
  BY <1>3
<1>5. ASSUME NEW m \in T PROVE n <= m
  <2> SUFFICES ASSUME m < n PROVE FALSE
    OBVIOUS
  <2>1. 0 .. m - 1 \in SUBSET Nat /\ 0 .. n - 1 \in SUBSET Nat /\ 0 .. m - 1 \subseteq 0 .. n - 1
    OBVIOUS
  <2>2. m \in 0 .. n - 1 /\ m \notin 0 .. m - 1
    OBVIOUS
  <2>3. <<0 .. m - 1, X>> \in StrictSubsetOrdering(Nat)
    BY <1>4, <2>1, <2>2 DEF StrictSubsetOrdering
  <2>4. QED
    BY <1>3, <2>3
<1>6. QED
  BY <1>5

\* Min of a set of natural numbers is its least element.
LEMMA LeastElement ==
    ASSUME NEW T \in SUBSET Nat, T # {}
    PROVE  Min(T) \in T /\ \A y \in T : Min(T) <= y
BY LeastNumber DEF Min

\* Max of a set of natural numbers up to q is its greatest element.
LEMMA GreatestElement ==
    ASSUME NEW q \in Nat, NEW T \in SUBSET (0 .. q), T # {}
    PROVE  Max(T) \in T /\ \A y \in T : Max(T) >= y
<1> DEFINE D == {q - y : y \in T}
<1>1. D \in SUBSET Nat /\ D # {}
  <2>1. ASSUME NEW y \in T
        PROVE  q - y \in Nat
    <3>1. y \in 0 .. q
      OBVIOUS
    <3> QED BY <3>1
  <2>2. PICK y \in T : TRUE
    OBVIOUS
  <2>3. q - y \in D
    OBVIOUS
  <2> QED BY <2>1, <2>3
<1>2. PICK d \in D : \A e \in D : d <= e
  <2> HIDE DEF D
  <2> QED BY <1>1, LeastNumber
<1>3. PICK m \in T : d = q - m
  BY <1>2
<1>4. ASSUME NEW y \in T
      PROVE  m >= y
  <2>1. q - m <= q - y
    BY <1>2, <1>3
  <2>2. m \in Int /\ y \in Int
    OBVIOUS
  <2> QED BY <2>1, <2>2
<1> QED BY <1>4 DEF Max

-----------------------------------------------------------------------------
(* A new item. *)

\* An item that is in the list once is where it is.
LEMMA PositionIs ==
    ASSUME NEW t, NEW p \in DOMAIN t.list,
           \A q \in DOMAIN t.list : t.list[q] = t.list[p] => q = p
    PROVE  Position(t, t.list[p]) = p
BY DEF Position

\* InsertItem of huff.cpp: what is behind the new item moves by one.
OneMore(S, s, k, e, u) ==
    /\ u \in Seq(S)
    /\ Len(u) = Len(s) + 1
    /\ \A q \in 1 .. Len(s) + 1 :
           u[q] = IF q < k THEN s[q] ELSE IF q = k THEN e ELSE s[q - 1]

LEMMA InsertedAt ==
    ASSUME NEW S, NEW s \in Seq(S), NEW e \in S, NEW k \in 1 .. Len(s) + 1
    PROVE  OneMore(S, s, k, e, InsertAt(s, k, e))
<1> DEFINE p == k - 1
           a == SubSeq(s, 1, k - 1)
           b == SubSeq(s, k, Len(s))
<1>0. p \in 0 .. Len(s) /\ k = p + 1 /\ Len(s) \in Nat
  BY LenProperties
<1>1. a \in Seq(S) /\ Len(a) = p /\ \A q \in 1 .. p : a[q] = s[q]
  BY <1>0, SubSeqProperties
<1>2. b \in Seq(S) /\ Len(b) = Len(s) - p /\ \A q \in 1 .. Len(s) - p : b[q] = s[p + q]
  BY <1>0, SubSeqProperties
<1>3. InsertAt(s, k, e) = (a \o <<e>>) \o b
  BY Zenon DEF InsertAt
<1> HIDE DEF a, b, p
<1>4. a \o <<e>> \in Seq(S) /\ Len(a \o <<e>>) = p + 1
      /\ (\A q \in 1 .. p : (a \o <<e>>)[q] = a[q]) /\ (a \o <<e>>)[p + 1] = e
  BY <1>0, <1>1
<1> DEFINE c == a \o <<e>>
<1>5. c \in Seq(S) /\ Len(c) = p + 1 /\ (\A q \in 1 .. p : c[q] = s[q]) /\ c[p + 1] = e
  BY <1>0, <1>1, <1>4
<1> HIDE DEF c
<1>6. c \o b \in Seq(S) /\ Len(c \o b) = Len(s) + 1
  <2>2. c \o b \in Seq(S) /\ Len(c \o b) = Len(c) + Len(b)
    BY <1>2, <1>5, ConcatProperties
  <2>3. Len(c) + Len(b) = Len(s) + 1
    BY <1>2, <1>0, <1>5
  <2> QED BY <2>2, <2>3
<1>7. ASSUME NEW q \in 1 .. Len(s) + 1
      PROVE  (c \o b)[q] = IF q <= p THEN s[q] ELSE IF q = p + 1 THEN e ELSE s[q - 1]
  <2>1. CASE q <= p + 1
    BY <1>0, <1>2, <1>5, <2>1
  <2>2. CASE q > p + 1
    <3>1. (c \o b)[q] = b[q - (p + 1)]
      BY <1>0, <1>2, <1>5, <2>2
    <3>2. b[q - (p + 1)] = s[p + (q - (p + 1))]
      BY <1>0, <1>2, <2>2
    <3>3. p + (q - (p + 1)) = q - 1 /\ ~ q <= p /\ q # p + 1
      BY <1>0, <2>2
    <3> QED BY <3>1, <3>2, <3>3
  <2>3. q <= p + 1 \/ q > p + 1
    BY <1>0
  <2> QED BY <2>1, <2>2, <2>3
<1>8. InsertAt(s, k, e) = c \o b
  BY <1>3, Zenon DEF c
<1> HIDE DEF c
<1> DEFINE d == c \o b
<1> HIDE DEF d
<1>9. InsertAt(s, k, e) = d /\ d \in Seq(S) /\ Len(d) = Len(s) + 1
  BY <1>6, <1>8, Zenon DEF d
<1>10. \A q \in 1 .. Len(s) + 1 :
          d[q] = IF q < k THEN s[q] ELSE IF q = k THEN e ELSE s[q - 1]
  <2> SUFFICES ASSUME NEW q \in 1 .. Len(s) + 1
               PROVE  d[q] = IF q < k THEN s[q] ELSE IF q = k THEN e ELSE s[q - 1]
    OBVIOUS
  <2>1. d[q] = IF q <= p THEN s[q] ELSE IF q = p + 1 THEN e ELSE s[q - 1]
    BY <1>7, Zenon DEF d
  <2> QED BY <1>0, <2>1
<1> QED BY <1>9, <1>10, Zenon DEF OneMore

\* Where every item is decides that the list holds each once.
LEMMA LinedBy ==
    ASSUME NEW t, NEW R, Size(t) \in Nat, DOMAIN t.list = 1 .. Size(t),
           Len(t.list) = Size(t),
           \A p \in 1 .. Size(t) : At(t, p) \in 1 .. Size(t) /\ R[At(t, p)] = p,
           \A i \in 1 .. Size(t) : R[i] \in 1 .. Size(t) /\ At(t, R[i]) = i
    PROVE  Lined(t) /\ \A i \in 1 .. Size(t) : Position(t, i) = R[i]
<1>1. ASSUME NEW p \in 1 .. Size(t)
      PROVE  Position(t, At(t, p)) = p
  <2>1. ASSUME NEW q \in 1 .. Size(t), t.list[q] = t.list[p]
        PROVE  q = p
    BY <2>1 DEF At
  <2> QED BY <2>1, PositionIs DEF At
<1>2. ASSUME NEW i \in 1 .. Size(t)
      PROVE  Position(t, i) = R[i]
  BY <1>1
<1> QED BY <1>1, <1>2 DEF Lined

\* u is t with a new item of that value and weight behind position p.
Added(t, u, value, weight, p) ==
    /\ u \in Tree
    /\ Size(u) = Size(t) + 1
    /\ \A i \in 1 .. Size(t) : u.items[i] = t.items[i]
    /\ u.items[Size(u)] = [value |-> value, weight |-> weight, parent |-> 0, lo |-> 0]
    /\ u.byvalue = t.byvalue
    /\ Lined(u)
    /\ Position(u, Size(u)) = p + 1
    /\ \A i \in 1 .. Size(t) :
           Position(u, i) = IF Position(t, i) <= p THEN Position(t, i) ELSE Position(t, i) + 1

\* What t has as a tree.
LEMMA TreeFields ==
    ASSUME NEW t \in Tree
    PROVE  /\ t.items \in Seq(Item) /\ t.list \in Seq(Nat)
           /\ t.byvalue \in [Values -> Nat] /\ t.valid \in Nat
           /\ Size(t) \in Nat /\ Len(t.list) \in Nat
           /\ DOMAIN t.items = 1 .. Size(t)
           /\ DOMAIN t.list = 1 .. Len(t.list)
           /\ \A i \in 1 .. Size(t) : t.items[i] \in Item
<1>1. t.items \in Seq(Item) /\ t.list \in Seq(Nat)
      /\ t.byvalue \in [Values -> Nat] /\ t.valid \in Nat
  BY DEF Tree
<1> QED BY <1>1, LenProperties, ElementOfSeq DEF Size

\* CreateNewItem and LinkTwoItems of huff.cpp.
LEMMA CreatedItem ==
    ASSUME NEW t \in Tree, Lined(t), NEW value \in Nat, NEW weight \in Nat,
           NEW p \in 0 .. Size(t)
    PROVE  Added(t, CreateNewItem(t, value, weight, p), value, weight, p)
<1> DEFINE new == [value |-> value, weight |-> weight, parent |-> 0, lo |-> 0]
           items == Append(t.items, new)
           list == InsertAt(t.list, p + 1, Size(t) + 1)
           u == CreateNewItem(t, value, weight, p)
           n == Size(t)
<1>1. n \in Nat /\ Len(t.list) = n /\ t.items \in Seq(Item) /\ t.list \in Seq(Nat)
  BY TreeFields DEF Lined
<1>3. new \in Item
  BY DEF Item
<1>4. items \in Seq(Item) /\ Len(items) = n + 1
      /\ (\A i \in 1 .. n : items[i] = t.items[i]) /\ items[n + 1] = new
  BY <1>1, <1>3, AppendProperties DEF Size
<1>5. list \in Seq(Nat) /\ Len(list) = n + 1
      /\ \A q \in 1 .. n + 1 : list[q] = IF q <= p THEN t.list[q]
                                         ELSE IF q = p + 1 THEN n + 1
                                         ELSE t.list[q - 1]
  <2> DEFINE s == t.list
             e == n + 1
             k == p + 1
  <2>1. e \in Nat /\ s \in Seq(Nat) /\ k \in 1 .. Len(s) + 1 /\ Len(s) = n
    BY <1>1
  <2>2. list = InsertAt(s, k, e)
    OBVIOUS
  <2> HIDE DEF s, e, k, list, n
  <2>3. /\ list \in Seq(Nat)
        /\ Len(list) = Len(s) + 1
        /\ \A q \in 1 .. Len(s) + 1 :
               list[q] = IF q < k THEN s[q] ELSE IF q = k THEN e ELSE s[q - 1]
    <3>1. OneMore(Nat, s, k, e, list)
      BY <2>1, <2>2, InsertedAt
    <3> QED BY <3>1 DEF OneMore
  <2>4. k = p + 1 /\ p \in Int
    BY DEF k
  <2>5. e = n + 1 /\ s = t.list /\ Len(s) = n
    BY <2>1 DEF e, s
  <2>6. ASSUME NEW q \in 1 .. n + 1
        PROVE  list[q] = IF q <= p THEN t.list[q] ELSE IF q = p + 1 THEN n + 1 ELSE t.list[q - 1]
    <3>1. list[q] = IF q < k THEN t.list[q] ELSE IF q = k THEN n + 1 ELSE t.list[q - 1]
      BY <2>3, <2>5
    <3>2. q < k <=> q <= p
      BY <2>4, <1>1
    <3> QED BY <2>4, <3>1, <3>2
  <2> QED BY <2>3, <2>5, <2>6
<1> HIDE DEF items, list, new
<1>6. u \in Tree /\ u.items = items /\ u.list = list /\ u.byvalue = t.byvalue
  <2>1. u = [t EXCEPT !.items = items, !.list = list]
    BY Zenon DEF CreateNewItem, Size, items, list, new
  <2> QED BY <1>4, <1>5, <2>1 DEF Tree
<1> HIDE DEF u
<1>7. Size(u) = n + 1
  BY <1>4, <1>6 DEF Size
<1> DEFINE R == [i \in 1 .. n + 1 |-> IF i = n + 1 THEN p + 1
                                      ELSE IF Position(t, i) <= p THEN Position(t, i)
                                      ELSE Position(t, i) + 1]
<1> HIDE DEF n
<1>8. /\ \A q \in 1 .. n : At(t, q) \in 1 .. n /\ Position(t, At(t, q)) = q
      /\ \A i \in 1 .. n : Position(t, i) \in 1 .. n /\ At(t, Position(t, i)) = i
  BY DEF Lined, n
<1>9. ASSUME NEW q \in 1 .. n + 1
      PROVE  At(u, q) \in 1 .. n + 1 /\ R[At(u, q)] = q
  <2>0. At(u, q) = list[q] /\ p \in 0 .. n
    BY <1>6 DEF At, n
  <2>1. CASE q <= p
    <3>1. At(u, q) = At(t, q) /\ q \in 1 .. n
      BY <1>1, <1>5, <2>0, <2>1 DEF At
    <3> QED BY <1>1, <1>8, <2>1, <3>1
  <2>2. CASE q = p + 1
    <3>1. At(u, q) = n + 1
      BY <1>1, <1>5, <2>0, <2>2
    <3> QED BY <1>1, <2>2, <3>1
  <2>3. CASE q > p + 1
    <3>1. At(u, q) = At(t, q - 1) /\ q - 1 \in 1 .. n /\ ~ q - 1 <= p
      <4>1. q - 1 \in 1 .. n /\ ~ q - 1 <= p /\ ~ q <= p /\ q # p + 1
        BY <1>1, <2>0, <2>3
      <4>2. list[q] = t.list[q - 1]
        BY <1>5, <4>1
      <4> QED BY <2>0, <4>1, <4>2 DEF At
    <3>2. At(u, q) \in 1 .. n + 1 /\ At(u, q) # n + 1 /\ Position(t, At(u, q)) = q - 1
      <4>1. At(t, q - 1) \in 1 .. n /\ Position(t, At(t, q - 1)) = q - 1
        BY <1>8, <3>1
      <4> HIDE DEF R
      <4> QED BY <1>1, <3>1, <4>1
    <3>3. R[At(u, q)] = (q - 1) + 1
      BY <3>1, <3>2
    <3> QED BY <3>2, <3>3
  <2> QED BY <1>1, <2>0, <2>1, <2>2, <2>3
<1>10. ASSUME NEW i \in 1 .. n + 1
       PROVE  R[i] \in 1 .. n + 1 /\ At(u, R[i]) = i
  <2>0. (\A q \in 1 .. n + 1 : At(u, q) = list[q]) /\ p \in 0 .. n
    BY <1>6 DEF At, n
  <2>1. CASE i = n + 1
    BY <1>1, <1>5, <2>0, <2>1
  <2>2. CASE i # n + 1 /\ Position(t, i) <= p
    <3>1. i \in 1 .. n /\ Position(t, i) \in 1 .. n /\ R[i] = Position(t, i)
      BY <1>1, <1>8, <2>2
    <3>2. At(u, R[i]) = At(t, Position(t, i))
      BY <1>1, <1>5, <2>0, <2>2, <3>1 DEF At
    <3> QED BY <1>1, <1>8, <3>1, <3>2
  <2>3. CASE i # n + 1 /\ ~ Position(t, i) <= p
    <3>1. i \in 1 .. n /\ Position(t, i) \in 1 .. n /\ R[i] = Position(t, i) + 1
      BY <1>1, <1>8, <2>3
    <3>2. At(u, R[i]) = At(t, Position(t, i))
      <4>1. R[i] \in 1 .. n + 1 /\ ~ R[i] <= p /\ R[i] # p + 1 /\ R[i] - 1 = Position(t, i)
        BY <1>1, <2>0, <2>3, <3>1
      <4> QED BY <1>5, <2>0, <4>1 DEF At
    <3> QED BY <1>1, <1>8, <3>1, <3>2
  <2> QED BY <2>1, <2>2, <2>3
<1>11. Lined(u) /\ \A i \in 1 .. n + 1 : Position(u, i) = R[i]
  <2>1. Size(u) \in Nat /\ Len(u.list) = Size(u) /\ DOMAIN u.list = 1 .. Size(u)
    BY <1>1, <1>5, <1>6, <1>7, LenProperties
  <2> HIDE DEF R
  <2>2. /\ \A q \in 1 .. Size(u) : At(u, q) \in 1 .. Size(u) /\ R[At(u, q)] = q
        /\ \A i \in 1 .. Size(u) : R[i] \in 1 .. Size(u) /\ At(u, R[i]) = i
    BY <1>7, <1>9, <1>10
  <2>3. Lined(u) /\ \A i \in 1 .. Size(u) : Position(u, i) = R[i]
    BY <2>1, <2>2, LinedBy
  <2> QED BY <1>7, <2>3
<1>12. Position(u, n + 1) = p + 1
       /\ \A i \in 1 .. n : Position(u, i) = IF Position(t, i) <= p THEN Position(t, i)
                                             ELSE Position(t, i) + 1
  BY <1>1, <1>11
<1> QED BY <1>4, <1>6, <1>7, <1>11, <1>12 DEF Added, n, u, new

-----------------------------------------------------------------------------
(* Where it is put. *)

\* What an item has.
LEMMA ItemFields ==
    ASSUME NEW t \in Tree, NEW i \in 1 .. Size(t)
    PROVE  Value(t, i) \in Nat /\ Weight(t, i) \in Nat /\ Up(t, i) \in Nat /\ Down(t, i) \in Nat
<1>1. t.items[i] \in Item
  BY TreeFields
<1> QED BY <1>1 DEF Item, Value, Weight, Up, Down

\* k is the last position up to q of an item that weighs as much, or 0.
Found(t, q, weight, k) ==
    /\ k \in 0 .. q
    /\ k # 0 => Weight(t, At(t, k)) >= weight
    /\ \A j \in k + 1 .. q : Weight(t, At(t, j)) < weight

\* FindHigherOrEqualItem of huff.cpp.
LEMMA HigherOrEqual ==
    ASSUME NEW t \in Tree, Lined(t), NEW q \in 0 .. Size(t), NEW weight \in Nat
    PROVE  Found(t, q, weight, FindHigherOrEqualItem(t, q, weight))
<1> DEFINE T == {0} \cup {k \in 1 .. q : Weight(t, At(t, k)) >= weight}
           m == Max(T)
<1>1. T \in SUBSET (0 .. q) /\ T # {} /\ q \in Nat
  BY TreeFields
<1>2. FindHigherOrEqualItem(t, q, weight) = m
  BY DEF FindHigherOrEqualItem, Weight, At
<1>3. m \in T /\ \A y \in T : m >= y
  <2> HIDE DEF T
  <2> QED BY <1>1, GreatestElement
<1> HIDE DEF m
<1>4. ASSUME NEW j \in m + 1 .. q
      PROVE  Weight(t, At(t, j)) < weight
  <2>1. m \in 0 .. q /\ j \in 1 .. q /\ ~ m >= j
    BY <1>1, <1>3
  <2>2. ~ Weight(t, At(t, j)) >= weight
    BY <1>3, <2>1
  <2>3. At(t, j) \in 1 .. Size(t)
    <3>1. Size(t) \in Nat
      BY TreeFields
    <3>2. j \in 1 .. Size(t)
      BY <2>1, <3>1
    <3> QED BY <3>2 DEF Lined
  <2>4. Weight(t, At(t, j)) \in Nat
    BY <2>3, ItemFields
  <2> QED BY <2>2, <2>4
<1>5. m \in 0 .. q /\ (m # 0 => Weight(t, At(t, m)) >= weight)
  BY <1>1, <1>3
<1> QED BY <1>2, <1>4, <1>5 DEF Found

\* Behind position p of the list is where something of that weight fits.
Fits(t, weight, p) ==
    /\ p \in 0 .. Size(t)
    /\ \A i \in 1 .. Size(t) : /\ Position(t, i) <= p => Weight(t, i) >= weight
                               /\ Position(t, i) > p => Weight(t, i) <= weight

\* FixupItemPosByWeight puts a new item where it fits.
LEMMA InsertedByWeight ==
    ASSUME NEW t \in Tree, Lined(t), Falling(t), NEW value \in Nat, NEW weight \in Nat
    PROVE  \E p \in 0 .. Size(t) :
               /\ Fits(t, weight, p)
               /\ Added(t, InsertByWeight(t, value, weight), value, weight, p)
<1>0. Size(t) \in Nat /\ Len(t.list) = Size(t) /\ t.list \in Seq(Nat)
  BY TreeFields DEF Lined
<1> DEFINE heaviest == t.list = <<>> \/ weight >= t.items[t.list[1]].weight
           p == IF heaviest THEN 0 ELSE FindHigherOrEqualItem(t, Len(t.list), weight)
<1>1. InsertByWeight(t, value, weight) = CreateNewItem(t, value, weight, p)
  BY Zenon DEF InsertByWeight
<1>2. CASE heaviest
  <2>1. p = 0
    BY <1>2
  <2>2. ASSUME NEW i \in 1 .. Size(t)
        PROVE  Position(t, i) > 0 /\ Weight(t, i) <= weight
    <3>1. Size(t) >= 1 /\ t.list # <<>> /\ 1 \in 1 .. Size(t)
      BY <1>0
    <3>2. At(t, 1) \in 1 .. Size(t) /\ Position(t, At(t, 1)) = 1 /\ Position(t, i) \in 1 .. Size(t)
      BY <3>1 DEF Lined
    <3>3. weight >= Weight(t, At(t, 1))
      BY <1>2, <3>1 DEF Weight, At
    <3>4. Weight(t, At(t, 1)) >= Weight(t, i)
      BY <1>0, <3>2 DEF Falling
    <3>5. Weight(t, i) \in Nat /\ Weight(t, At(t, 1)) \in Nat
      BY <3>2, ItemFields
    <3> QED BY <1>0, <3>2, <3>3, <3>4, <3>5
  <2>3. Fits(t, weight, p)
    <3> HIDE DEF p
    <3>1. \A i \in 1 .. Size(t) : ~ Position(t, i) <= p
      <4> SUFFICES ASSUME NEW i \in 1 .. Size(t)
                   PROVE  ~ Position(t, i) <= p
        OBVIOUS
      <4>1. Position(t, i) > 0 /\ Position(t, i) \in 1 .. Size(t)
        BY <2>2 DEF Lined
      <4> QED BY <1>0, <2>1, <4>1
    <3>2. p \in 0 .. Size(t)
      BY <1>0, <2>1
    <3> QED BY <2>2, <3>1, <3>2 DEF Fits
  <2>4. Added(t, CreateNewItem(t, value, weight, p), value, weight, p)
    <3> HIDE DEF p
    <3> QED BY <1>0, <2>1, CreatedItem
  <2> QED BY <1>0, <1>1, <2>1, <2>3, <2>4
<1>3. CASE ~ heaviest
  <2>1. p = FindHigherOrEqualItem(t, Size(t), weight)
    BY <1>0, <1>3
  <2>2. Found(t, Size(t), weight, p)
    <3> HIDE DEF p
    <3>1. Size(t) \in 0 .. Size(t)
      BY <1>0
    <3> QED BY <2>1, <3>1, HigherOrEqual
  <2> HIDE DEF p, heaviest
  <2>3. p \in 0 .. Size(t)
    BY <2>2 DEF Found
  <2>4. ASSUME NEW i \in 1 .. Size(t)
        PROVE  /\ Position(t, i) <= p => Weight(t, i) >= weight
               /\ Position(t, i) > p => Weight(t, i) <= weight
    <3>0. Position(t, i) \in 1 .. Size(t) /\ At(t, Position(t, i)) = i /\ Weight(t, i) \in Nat
      BY ItemFields DEF Lined
    <3>1. ASSUME Position(t, i) <= p
          PROVE  Weight(t, i) >= weight
      <4>1. p \in 1 .. Size(t) /\ Weight(t, At(t, p)) >= weight
        BY <1>0, <2>2, <2>3, <3>0, <3>1 DEF Found
      <4>2. At(t, p) \in 1 .. Size(t) /\ Position(t, At(t, p)) = p
        BY <4>1 DEF Lined
      <4>3. Weight(t, i) >= Weight(t, At(t, p)) /\ Weight(t, At(t, p)) \in Nat
        BY <3>1, <4>2, ItemFields DEF Falling
      <4> QED BY <3>0, <4>1, <4>3
    <3>2. ASSUME Position(t, i) > p
          PROVE  Weight(t, i) <= weight
      <4>1. Position(t, i) \in p + 1 .. Size(t)
        BY <1>0, <2>3, <3>0, <3>2
      <4>2. Weight(t, i) < weight
        BY <2>2, <3>0, <4>1 DEF Found
      <4> QED BY <3>0, <4>2
    <3> QED BY <3>1, <3>2
  <2>5. Fits(t, weight, p)
    BY <2>3, <2>4 DEF Fits
  <2>6. Added(t, CreateNewItem(t, value, weight, p), value, weight, p)
    BY <2>3, CreatedItem
  <2> QED BY <1>1, <2>3, <2>5, <2>6 DEF p
<1> QED BY <1>2, <1>3

-----------------------------------------------------------------------------
(* What a new item leaves as it was. *)

\* The fields of the items in the tree that has one more.
LEMMA AddedFields ==
    ASSUME NEW t \in Tree, NEW u, NEW value, NEW weight, NEW p, Added(t, u, value, weight, p)
    PROVE  /\ \A i \in 1 .. Size(t) : /\ Value(u, i) = Value(t, i)
                                      /\ Weight(u, i) = Weight(t, i)
                                      /\ Up(u, i) = Up(t, i)
                                      /\ Down(u, i) = Down(t, i)
           /\ Value(u, Size(t) + 1) = value
           /\ Weight(u, Size(t) + 1) = weight
           /\ Up(u, Size(t) + 1) = 0
           /\ Down(u, Size(t) + 1) = 0
<1>1. u.items[Size(t) + 1] = [value |-> value, weight |-> weight, parent |-> 0, lo |-> 0]
  BY DEF Added
<1>2. \A i \in 1 .. Size(t) : u.items[i] = t.items[i]
  BY DEF Added
<1> QED BY <1>1, <1>2 DEF Value, Weight, Up, Down

\* A new item where it fits keeps the list falling.
LEMMA AddedFalling ==
    ASSUME NEW t \in Tree, Lined(t), Falling(t), NEW u, NEW value, NEW weight \in Nat, NEW p,
           Added(t, u, value, weight, p), Fits(t, weight, p)
    PROVE  Falling(u)
<1> DEFINE n == Size(t)
<1>0. n \in Nat /\ Size(u) = n + 1 /\ p \in 0 .. n
  BY TreeFields DEF Added, Fits
<1>1. /\ Position(u, n + 1) = p + 1
      /\ \A i \in 1 .. n : Position(u, i) = IF Position(t, i) <= p THEN Position(t, i)
                                            ELSE Position(t, i) + 1
  BY <1>0 DEF Added
<1>2. Weight(u, n + 1) = weight /\ \A i \in 1 .. n : Weight(u, i) = Weight(t, i)
  BY AddedFields
<1>3. \A i \in 1 .. n : Position(t, i) \in 1 .. n /\ Weight(t, i) \in Nat
  BY ItemFields DEF Lined
<1>4. \A i \in 1 .. n : /\ Position(t, i) <= p => Weight(t, i) >= weight
                        /\ Position(t, i) > p => Weight(t, i) <= weight
  BY DEF Fits
<1>5. \A i, j \in 1 .. n : Position(t, i) <= Position(t, j) => Weight(t, i) >= Weight(t, j)
  BY DEF Falling
<1> HIDE DEF n
<1>6. ASSUME NEW i \in 1 .. n + 1, NEW j \in 1 .. n + 1, Position(u, i) <= Position(u, j)
      PROVE  Weight(u, i) >= Weight(u, j)
  <2>1. CASE i = n + 1 /\ j = n + 1
    BY <1>0, <1>2, <2>1
  <2>2. CASE i = n + 1 /\ j # n + 1
    <3>1. j \in 1 .. n
      BY <1>0, <2>2
    <3>2. Position(t, j) > p
      BY <1>0, <1>1, <1>3, <1>6, <2>2, <3>1
    <3> QED BY <1>2, <1>3, <1>4, <2>2, <3>1, <3>2
  <2>3. CASE i # n + 1 /\ j = n + 1
    <3>1. i \in 1 .. n
      BY <1>0, <2>3
    <3>2. Position(t, i) <= p
      BY <1>0, <1>1, <1>3, <1>6, <2>3, <3>1
    <3> QED BY <1>2, <1>3, <1>4, <2>3, <3>1, <3>2
  <2>4. CASE i # n + 1 /\ j # n + 1
    <3>1. i \in 1 .. n /\ j \in 1 .. n
      BY <1>0, <2>4
    <3>2. Position(t, i) <= Position(t, j)
      BY <1>0, <1>1, <1>3, <1>6, <3>1
    <3> QED BY <1>2, <1>5, <3>1, <3>2
  <2> QED BY <2>1, <2>2, <2>3, <2>4
<1> QED BY <1>0, <1>6 DEF Falling

\* No two siblings have the new item between them.
Between(t, p) == \E a \in 1 .. Size(t) : Down(t, a) # 0 /\ Position(t, Higher(t, a)) = p

\* The older sibling is the item before the younger one.
LEMMA HigherFacts ==
    ASSUME NEW t \in Tree, Lined(t), NEW x, NEW a \in 1 .. Size(t), Branch(t, a, x)
    PROVE  /\ Higher(t, a) \in 1 .. Size(t)
           /\ Position(t, Higher(t, a)) = Position(t, Down(t, a)) - 1
           /\ Position(t, Down(t, a)) \in 2 .. Size(t)
<1>1. Down(t, a) \in 1 .. Size(t) /\ Position(t, Down(t, a)) \in 2 .. Size(t)
  BY TreeFields DEF Branch, Lined
<1>2. Position(t, Down(t, a)) - 1 \in 1 .. Size(t)
  BY <1>1, TreeFields
<1> QED BY <1>1, <1>2 DEF Higher, Lined

\* What is where comes from where what is.
LEMMA HigherIs ==
    ASSUME NEW t \in Tree, Lined(t), NEW a \in 1 .. Size(t), NEW h \in 1 .. Size(t),
           Position(t, h) = Position(t, Down(t, a)) - 1
    PROVE  Higher(t, a) = h
BY DEF Higher, Lined

\* The branches that were there stay.
LEMMA AddedBranches ==
    ASSUME NEW t \in Tree, Lined(t), NEW x, Branches(t, x), NEW u, NEW value, NEW weight,
           NEW p \in 0 .. Size(t), Added(t, u, value, weight, p), ~ Between(t, p)
    PROVE  /\ Branches(u, x)
           /\ \A a \in 1 .. Size(t) : Down(t, a) # 0 => Higher(u, a) = Higher(t, a)
<1> DEFINE n == Size(t)
<1>0. n \in Nat /\ Size(u) = n + 1 /\ u \in Tree /\ Lined(u) /\ p \in 0 .. n
  BY TreeFields DEF Added
<1>1. \A i \in 1 .. n : Position(u, i) = IF Position(t, i) <= p THEN Position(t, i)
                                         ELSE Position(t, i) + 1
  BY DEF Added
<1>2. \A i \in 1 .. n : Weight(u, i) = Weight(t, i) /\ Up(u, i) = Up(t, i) /\ Down(u, i) = Down(t, i)
  BY AddedFields
<1>3. ASSUME NEW a \in 1 .. n, Down(t, a) # 0
      PROVE  Branch(u, a, x) /\ Higher(u, a) = Higher(t, a)
  <2>1. Branch(t, a, x)
    BY <1>3 DEF Branches
  <2> DEFINE l == Down(t, a)
             h == Higher(t, a)
  <2>2. l \in 1 .. n /\ h \in 1 .. n /\ Position(t, h) = Position(t, l) - 1
        /\ Position(t, l) \in 2 .. n
    BY <2>1, HigherFacts DEF Branch
  <2>3. Position(t, h) # p
    BY <1>3 DEF Between
  <2>4. Down(u, a) = l
    BY <1>2
  <2>5. Position(t, a) \in 1 .. n /\ Position(t, a) < Position(t, h)
    BY <2>1 DEF Lined, Branch
  <2> HIDE DEF n, l, h
  <2>6. /\ Position(u, h) = Position(u, l) - 1
        /\ Position(u, l) >= 2
        /\ Position(u, a) < Position(u, h)
    <3>1. Position(u, h) = Position(u, l) - 1 /\ Position(u, l) >= 2
      BY <1>0, <1>1, <2>2, <2>3
    <3>2. Position(u, a) < Position(u, h)
      BY <1>0, <1>1, <2>2, <2>5
    <3> QED BY <3>1, <3>2
  <2>7. a \in 1 .. Size(u) /\ h \in 1 .. Size(u) /\ l \in 1 .. Size(u)
    BY <1>0, <2>2
  <2>8. Higher(u, a) = h
    BY <1>0, <2>4, <2>6, <2>7, HigherIs
  <2>9. /\ Weight(u, a) = Weight(t, a) /\ Weight(u, l) = Weight(t, l) /\ Weight(u, h) = Weight(t, h)
        /\ Up(u, l) = Up(t, l) /\ Up(u, h) = Up(t, h)
    BY <1>2, <2>2
  <2>10. /\ Up(t, l) = a /\ Up(t, h) = a
         /\ Weight(t, a) + (IF a = x THEN 1 ELSE 0) = Weight(t, l) + Weight(t, h)
    BY <2>1 DEF Branch, l, h
  <2>11. Branch(u, a, x)
    BY <2>4, <2>6, <2>7, <2>8, <2>9, <2>10 DEF Branch
  <2> QED BY <2>8, <2>11 DEF h
<1>4. Down(u, n + 1) = 0
  BY AddedFields
<1>5. ASSUME NEW a \in 1 .. Size(u), Down(u, a) # 0
      PROVE  a \in 1 .. n /\ Down(t, a) # 0
  BY <1>0, <1>2, <1>4, <1>5
<1> QED BY <1>3, <1>5 DEF Branches

\* A child stays the child of its parent.
LEMMA AddedChild ==
    ASSUME NEW t \in Tree, Lined(t), NEW x, Branches(t, x), NEW u, NEW value, NEW weight,
           NEW p \in 0 .. Size(t), Added(t, u, value, weight, p), ~ Between(t, p),
           NEW i \in 1 .. Size(t), Child(t, i)
    PROVE  Child(u, i)
<1>1. \A j \in 1 .. Size(t) : Up(u, j) = Up(t, j) /\ Down(u, j) = Down(t, j)
  BY AddedFields
<1>2. \A a \in 1 .. Size(t) : Down(t, a) # 0 => Higher(u, a) = Higher(t, a)
  BY AddedBranches
<1>3. Up(t, i) \in 1 .. Size(t) /\ Size(u) = Size(t) + 1 /\ Size(t) \in Nat
  BY TreeFields DEF Child, Added
<1>4. Up(t, i) \in 1 .. Size(u)
  BY <1>3
<1> QED BY <1>1, <1>2, <1>3, <1>4 DEF Child

-----------------------------------------------------------------------------
(* BuildTree of huff.cpp: the leaves. *)

\* The shape of a tree is a matter of its items and its list.
LEMMA SameShape ==
    ASSUME NEW t, NEW u, u.items = t.items, u.list = t.list, NEW x, NEW r, Shape(t, x, r)
    PROVE  Shape(u, x, r)
<1>1. /\ Size(u) = Size(t)
      /\ \A i : /\ Value(u, i) = Value(t, i) /\ Weight(u, i) = Weight(t, i)
                /\ Up(u, i) = Up(t, i) /\ Down(u, i) = Down(t, i)
                /\ At(u, i) = At(t, i) /\ Position(u, i) = Position(t, i)
  BY DEF Size, Value, Weight, Up, Down, At, Position
<1>2. \A a : Higher(u, a) = Higher(t, a)
  BY <1>1 DEF Higher
<1>3. Lined(u) /\ Falling(u) /\ Heavy(u, x)
  BY <1>1 DEF Shape, Lined, Falling, Heavy
<1>4. Branches(u, x)
  BY <1>1, <1>2 DEF Shape, Branches, Branch
<1>5. Children(u, r)
  BY <1>1, <1>2 DEF Shape, Children, Child
<1> QED BY <1>3, <1>4, <1>5 DEF Shape

\* Where no item has a parent none has children.
LEMMA Unpaired ==
    ASSUME NEW t \in Tree, NEW x, Shape(t, x, Size(t))
    PROVE  \A i \in 1 .. Size(t) : Up(t, i) = 0 /\ Down(t, i) = 0
<1>1. ASSUME NEW i \in 1 .. Size(t)
      PROVE  Up(t, i) = 0
  <2>1. Position(t, i) \in 1 .. Size(t)
    BY DEF Shape, Lined
  <2> QED BY <2>1, TreeFields DEF Shape, Children
<1>2. ASSUME NEW i \in 1 .. Size(t), Down(t, i) # 0
      PROVE  FALSE
  <2>1. Branch(t, i, x)
    BY <1>2 DEF Shape, Branches
  <2>2. Down(t, i) \in 1 .. Size(t) /\ Up(t, Down(t, i)) = i
    BY <2>1 DEF Branch
  <2> QED BY <1>1, <2>2
<1> QED BY <1>1, <1>2

\* A tree of leaves alone stays one with a new leaf where it fits.
LEMMA LeafAdded ==
    ASSUME NEW t \in Tree, Shape(t, 0, Size(t)), NEW u, NEW value, NEW weight \in Nat \ {0},
           NEW p, Added(t, u, value, weight, p), Fits(t, weight, p)
    PROVE  /\ Shape(u, 0, Size(u))
           /\ \A i \in 1 .. Size(u) : Down(u, i) = 0
<1>0. Size(t) \in Nat /\ Size(u) = Size(t) + 1 /\ Lined(u) /\ Lined(t) /\ Falling(t)
  BY TreeFields DEF Added, Shape
<1>1. /\ \A i \in 1 .. Size(t) : Weight(u, i) = Weight(t, i) /\ Up(u, i) = 0 /\ Down(u, i) = 0
      /\ Weight(u, Size(u)) = weight /\ Up(u, Size(u)) = 0 /\ Down(u, Size(u)) = 0
  BY <1>0, AddedFields, Unpaired
<1>2. \A i \in 1 .. Size(u) : i \in 1 .. Size(t) \/ i = Size(u)
  BY <1>0
<1>3. Falling(u)
  BY <1>0, AddedFalling
<1>4. ASSUME NEW i \in 1 .. Size(t)
      PROVE  Weight(t, i) >= 1
  BY DEF Shape, Heavy
<1>5. Heavy(u, 0)
  BY <1>1, <1>2, <1>4 DEF Heavy
<1>6. Branches(u, 0)
  BY <1>1, <1>2 DEF Branches
<1>7. ASSUME NEW i \in 1 .. Size(u)
      PROVE  Up(u, i) = 0 /\ Position(u, i) <= Size(u)
  <2>1. Position(u, i) \in 1 .. Size(u)
    BY <1>0 DEF Lined
  <2> QED BY <1>0, <1>1, <1>2, <2>1
<1>8. Children(u, Size(u))
  BY <1>7 DEF Children
<1> QED BY <1>0, <1>1, <1>2, <1>3, <1>5, <1>6, <1>8 DEF Shape

\* There are finitely many values, and one more that is known is one more.
LEMMA OneMoreKnown ==
    ASSUME NEW t, NEW u, NEW b \in Values, t.byvalue[b] = 0, Known(u) = Known(t) \cup {b}
    PROVE  /\ Cardinality(Known(t)) \in Nat
           /\ Cardinality(Known(u)) = Cardinality(Known(t)) + 1
<1>1. IsFiniteSet(Bytes)
  <2>1. IsFiniteSet(0 .. 255)
    <3>1. 0 \in Int /\ 255 \in Int
      OBVIOUS
    <3> QED BY <3>1, FS_Interval, Zenon
  <2> QED BY <2>1, BytesAssumption, FS_Subset
<1>2. IsFiniteSet(Values)
  <2>1. IsFiniteSet({ENDMARK, NEWBYTE})
    <3>1. {ENDMARK, NEWBYTE} = {ENDMARK} \cup {NEWBYTE}
      OBVIOUS
    <3>2. IsFiniteSet({ENDMARK}) /\ IsFiniteSet({NEWBYTE})
      BY FS_Singleton
    <3>3. IsFiniteSet({ENDMARK} \cup {NEWBYTE})
      BY <3>2, FS_Union
    <3> QED BY <3>1, <3>3
  <2> QED BY <1>1, <2>1, FS_Union DEF Values
<1>3. IsFiniteSet(Known(t)) /\ b \notin Known(t)
  <2>1. Known(t) \in SUBSET Values
    BY DEF Known
  <2>2. b \notin Known(t)
    BY DEF Known
  <2> QED BY <1>2, <2>1, <2>2, FS_Subset
<1> QED BY <1>3, FS_AddElement, FS_CardinalityType

\* A new leaf of a new value where it fits; s is the tree before byvalue is set.
LEMMA LeafKept ==
    ASSUME NEW t \in Tree, TreeInv(t, 0, Size(t)), NEW b \in Values, t.byvalue[b] = 0,
           NEW s, NEW weight \in Nat \ {0}, NEW p, Added(t, s, b, weight, p), Fits(t, weight, p),
           NEW u, u \in Tree, u.items = s.items, u.list = s.list,
           u.byvalue = [t.byvalue EXCEPT ![b] = Size(t) + 1]
    PROVE  TreeInv(u, 0, Size(u))
<1> DEFINE n == Size(t)
<1>0. n \in Nat /\ Size(s) = n + 1 /\ Size(u) = n + 1 /\ s \in Tree
  BY TreeFields DEF Added, Size
<1>1. Shape(u, 0, Size(u)) /\ \A i \in 1 .. Size(u) : Down(u, i) = 0
  <2>1. Shape(s, 0, Size(s)) /\ \A i \in 1 .. Size(s) : Down(s, i) = 0
    BY LeafAdded DEF TreeInv
  <2> QED BY <1>0, <2>1, SameShape DEF Down
<1>2. (\A i \in 1 .. n : Value(u, i) = Value(t, i)) /\ Value(u, n + 1) = b
  <2>1. \A i : Value(u, i) = Value(s, i)
    BY DEF Value
  <2> QED BY <2>1, AddedFields
<1>3. (\A v \in Values : u.byvalue[v] = IF v = b THEN n + 1 ELSE t.byvalue[v])
      /\ \A v \in Values : t.byvalue[v] \in Nat
  BY TreeFields
<1>4. /\ \A v \in Values : t.byvalue[v] # 0 =>
             t.byvalue[v] \in 1 .. n /\ Value(t, t.byvalue[v]) = v
      /\ \A i \in 1 .. n : Value(t, i) \in Values /\ t.byvalue[Value(t, i)] = i
  BY Unpaired DEF TreeInv, Valued
<1> HIDE DEF n
<1>5. Valued(u)
  <2>1. ASSUME NEW v \in Values, u.byvalue[v] # 0
        PROVE  u.byvalue[v] \in 1 .. Size(u) /\ Value(u, u.byvalue[v]) = v
    <3>1. CASE v = b
      BY <1>0, <1>2, <1>3, <3>1
    <3>2. CASE v # b
      BY <1>0, <1>2, <1>3, <1>4, <2>1, <3>2
    <3> QED BY <3>1, <3>2
  <2>2. ASSUME NEW i \in 1 .. Size(u)
        PROVE  Value(u, i) \in Values /\ u.byvalue[Value(u, i)] = i
    <3>1. CASE i = n + 1
      BY <1>2, <1>3, <3>1
    <3>2. CASE i # n + 1
      <4>1. i \in 1 .. n
        BY <1>0, <3>2
      <4>2. Value(t, i) # b
        BY <1>4, <4>1
      <4> QED BY <1>2, <1>3, <1>4, <4>1, <4>2
    <3> QED BY <3>1, <3>2
  <2> QED BY <1>1, <2>1, <2>2 DEF Valued
<1>6. Filled(u, Size(u))
  <2>1. Known(u) = Known(t) \cup {b}
    BY <1>0, <1>3 DEF Known
  <2>2. Cardinality(Known(t)) \in Nat /\ Cardinality(Known(u)) = Cardinality(Known(t)) + 1
    BY <2>1, OneMoreKnown
  <2>3. n + n = 2 * Cardinality(Known(t))
    BY DEF TreeInv, Filled, n
  <2> DEFINE c == Cardinality(Known(t))
             d == Cardinality(Known(u))
  <2>4. c \in Nat /\ d = c + 1 /\ n + n = 2 * c
    BY <2>2, <2>3
  <2> HIDE DEF c, d
  <2>5. (n + 1) + (n + 1) = 2 * d
    BY <1>0, <2>4
  <2> QED BY <1>0, <2>5 DEF Filled, d
<1> QED BY <1>1, <1>5, <1>6 DEF TreeInv

\* A byte of the table gets a leaf.
LEMMA ByteKept ==
    ASSUME NEW t \in Tree, TreeInv(t, 0, Size(t)), NEW b \in Bytes, t.byvalue[b] = 0,
           NEW weight \in Nat \ {0}
    PROVE  /\ InsertByte(t, b, weight) \in Tree
           /\ TreeInv(InsertByte(t, b, weight), 0, Size(InsertByte(t, b, weight)))
           /\ \A v \in Values : v # b => InsertByte(t, b, weight).byvalue[v] = t.byvalue[v]
<1> DEFINE s == InsertByWeight(t, b, weight)
           u == InsertByte(t, b, weight)
<1>1. b \in Values /\ b \in Nat /\ Lined(t) /\ Falling(t)
  BY BytesAssumption DEF Values, TreeInv, Shape
<1>2. PICK p \in 0 .. Size(t) : Fits(t, weight, p) /\ Added(t, s, b, weight, p)
  <2> HIDE DEF s
  <2>1. \E p \in 0 .. Size(t) : Fits(t, weight, p) /\ Added(t, s, b, weight, p)
    BY <1>1, InsertedByWeight DEF s
  <2> QED BY <2>1
<1>3. s \in Tree /\ s.byvalue = t.byvalue /\ Size(t) + 1 \in Nat
  BY <1>2, TreeFields DEF Added
<1>4. u = [s EXCEPT !.byvalue[b] = Size(t) + 1]
  BY Zenon DEF InsertByte, Size
<1> HIDE DEF s, u
<1>5. u \in Tree /\ u.items = s.items /\ u.list = s.list
      /\ u.byvalue = [t.byvalue EXCEPT ![b] = Size(t) + 1]
  BY <1>1, <1>3, <1>4 DEF Tree
<1>6. TreeInv(u, 0, Size(u))
  BY <1>1, <1>2, <1>5, LeafKept
<1> QED BY <1>3, <1>5, <1>6, TreeFields DEF u

\* What is not heavier than any item fits at the end.
LEMMA LastFits ==
    ASSUME NEW t \in Tree, Lined(t), NEW weight \in Nat,
           \A i \in 1 .. Size(t) : Weight(t, i) >= weight
    PROVE  Fits(t, weight, Size(t))
<1>1. ASSUME NEW i \in 1 .. Size(t)
      PROVE  ~ Position(t, i) > Size(t)
  <2>1. Position(t, i) \in 1 .. Size(t)
    BY DEF Lined
  <2> QED BY <2>1, TreeFields
<1> QED BY <1>1, TreeFields DEF Fits

\* The last item is where the list ends.
LEMMA LastItem ==
    ASSUME NEW t \in Tree, Lined(t), Size(t) # 0
    PROVE  /\ Last(t.list) = At(t, Size(t))
           /\ Last(t.list) \in 1 .. Size(t)
           /\ Position(t, Last(t.list)) = Size(t)
<1>1. Size(t) \in 1 .. Size(t)
  BY TreeFields
<1>2. Last(t.list) = At(t, Size(t))
  BY DEF Last, At, Lined
<1> QED BY <1>1, <1>2 DEF Lined

\* InsertLast creates the item at the end.
LEMMA InsertedLast ==
    ASSUME NEW t \in Tree, Lined(t), NEW value \in Nat, NEW weight \in Nat
    PROVE  Added(t, InsertLast(t, value, weight), value, weight, Size(t))
<1>1. InsertLast(t, value, weight) = CreateNewItem(t, value, weight, Size(t))
  BY Zenon DEF InsertLast, Lined
<1>2. Size(t) \in 0 .. Size(t)
  BY TreeFields
<1> QED BY <1>1, <1>2, CreatedItem

\* The marks get leaves at the end of the list, and the pairing starts there.
LEMMA MarksKept ==
    ASSUME NEW t \in Tree, TreeInv(t, 0, Size(t)),
           t.byvalue[ENDMARK] = 0, t.byvalue[NEWBYTE] = 0
    PROVE  /\ InsertMarks(t) \in Tree
           /\ TreeInv(InsertMarks(t), 0, Size(InsertMarks(t)))
           /\ Size(InsertMarks(t)) # 0
<1> DEFINE s == InsertLast(t, ENDMARK, 1)
           t1 == [s EXCEPT !.byvalue[ENDMARK] = Size(t) + 1]
           s1 == InsertLast(t1, NEWBYTE, 1)
           s2 == InsertLast(s, NEWBYTE, 1)
           u == InsertMarks(t)
<1>0. /\ ENDMARK \in Values /\ NEWBYTE \in Values /\ ENDMARK \in Nat /\ NEWBYTE \in Nat
      /\ ENDMARK # NEWBYTE /\ 1 \in Nat \ {0}
  BY DEF ENDMARK, NEWBYTE, Values
<1>1. Lined(t) /\ Fits(t, 1, Size(t)) /\ Size(t) \in Nat
  <2>1. \A i \in 1 .. Size(t) : Weight(t, i) >= 1
    BY DEF TreeInv, Shape, Heavy
  <2> QED BY <2>1, LastFits, TreeFields DEF TreeInv, Shape
<1>2. Added(t, s, ENDMARK, 1, Size(t))
  BY <1>0, <1>1, InsertedLast
<1>3. s \in Tree /\ s.byvalue = t.byvalue /\ Size(s) = Size(t) + 1 /\ Lined(s)
  BY <1>2 DEF Added
<1> HIDE DEF s
<1>4. t1 \in Tree /\ t1.items = s.items /\ t1.list = s.list
      /\ t1.byvalue = [t.byvalue EXCEPT ![ENDMARK] = Size(t) + 1]
  <2> HIDE DEF s1, s2, u
  <2>1. Size(t) + 1 \in Nat
    BY <1>1
  <2> QED BY <1>0, <1>3, <2>1 DEF Tree
<1> HIDE DEF t1
<1>5. TreeInv(t1, 0, Size(t1)) /\ Size(t1) = Size(t) + 1
  BY <1>0, <1>1, <1>2, <1>3, <1>4, LeafKept DEF Size
<1>6. Lined(t1) /\ Fits(t1, 1, Size(t1))
  <2>1. \A i \in 1 .. Size(t1) : Weight(t1, i) >= 1
    BY <1>5 DEF TreeInv, Shape, Heavy
  <2> QED BY <1>4, <1>5, <2>1, LastFits DEF TreeInv, Shape
<1>7. Added(t1, s1, NEWBYTE, 1, Size(t1))
  BY <1>0, <1>4, <1>6, InsertedLast
<1>8. Added(s, s2, NEWBYTE, 1, Size(s))
  BY <1>0, <1>3, InsertedLast
<1>9. s1.items = s2.items /\ s1.list = s2.list
  BY <1>3, <1>4 DEF InsertLast, CreateNewItem, Tree
<1>10. u = [s2 EXCEPT !.byvalue[ENDMARK] = Size(t) + 1, !.byvalue[NEWBYTE] = Size(t) + 2]
  BY Zenon DEF InsertMarks, Size, s
<1>11. s2 \in Tree /\ s2.byvalue = t.byvalue /\ Size(s2) = Size(t) + 2
  BY <1>1, <1>3, <1>8 DEF Added
<1> HIDE DEF u, s1, s2
<1>12. u \in Tree /\ u.items = s2.items /\ u.list = s2.list
       /\ u.byvalue = [t1.byvalue EXCEPT ![NEWBYTE] = Size(t1) + 1]
  <2>1. Size(t) + 2 = Size(t1) + 1 /\ Size(t) + 2 \in Nat /\ Size(t) + 1 \in Nat
    BY <1>1, <1>5
  <2> QED BY <1>0, <1>4, <1>10, <1>11, <2>1 DEF Tree
<1>13. t1.byvalue[NEWBYTE] = 0
  BY <1>0, <1>4, TreeFields
<1>14. TreeInv(u, 0, Size(u))
  <2>1. u.items = s1.items /\ u.list = s1.list
    BY <1>9, <1>12
  <2>2. NEWBYTE \in Values /\ 1 \in Nat \ {0} /\ t1 \in Tree /\ TreeInv(t1, 0, Size(t1))
    BY <1>0, <1>4, <1>5
  <2> QED BY <1>6, <1>7, <1>12, <1>13, <2>1, <2>2, LeafKept
<1>15. Size(u) # 0
  BY <1>1, <1>11, <1>12 DEF Size
<1> QED BY <1>12, <1>14, <1>15 DEF u

-----------------------------------------------------------------------------
(* BuildTree of huff.cpp: the pairs. *)

\* u is s but for the parents of l and h and the child of a, which it links.
Linked(s, u, a, l, h) ==
    /\ u.items \in Seq(Item)
    /\ Size(u) = Size(s)
    /\ u.list = s.list
    /\ \A i \in 1 .. Size(s) : /\ Value(u, i) = Value(s, i)
                               /\ Weight(u, i) = Weight(s, i)
                               /\ Up(u, i) = IF i \in {l, h} THEN a ELSE Up(s, i)
                               /\ Down(u, i) = IF i = a THEN l ELSE Down(s, i)

\* Setting the parent of an item.
ParentIs(items, changed, i, k) ==
    /\ changed \in Seq(Item)
    /\ Len(changed) = Len(items)
    /\ \A j \in 1 .. Len(items) : /\ changed[j].value = items[j].value
                                  /\ changed[j].weight = items[j].weight
                                  /\ changed[j].parent = IF j = i THEN k ELSE items[j].parent
                                  /\ changed[j].lo = items[j].lo

LEMMA ParentSet ==
    ASSUME NEW items \in Seq(Item), NEW i \in 1 .. Len(items), NEW k \in Nat
    PROVE  ParentIs(items, [items EXCEPT ![i].parent = k], i, k)
<1> DEFINE e == [items[i] EXCEPT !.parent = k]
           changed == [items EXCEPT ![i].parent = k]
<1>1. e \in Item /\ e.value = items[i].value /\ e.weight = items[i].weight
      /\ e.parent = k /\ e.lo = items[i].lo
  <2>1. items[i] \in Item
    BY ElementOfSeq
  <2> QED BY <2>1 DEF Item
<1>2. changed = [items EXCEPT ![i] = e]
  OBVIOUS
<1> HIDE DEF e, changed
<1>3. changed \in Seq(Item) /\ Len(changed) = Len(items)
      /\ \A j \in 1 .. Len(items) : changed[j] = IF j = i THEN e ELSE items[j]
  BY <1>1, <1>2, ExceptSeq
<1> QED BY <1>1, <1>3 DEF ParentIs, changed

\* Setting the child of an item.
ChildIs(items, changed, i, k) ==
    /\ changed \in Seq(Item)
    /\ Len(changed) = Len(items)
    /\ \A j \in 1 .. Len(items) : /\ changed[j].value = items[j].value
                                  /\ changed[j].weight = items[j].weight
                                  /\ changed[j].parent = items[j].parent
                                  /\ changed[j].lo = IF j = i THEN k ELSE items[j].lo

LEMMA ChildSet ==
    ASSUME NEW items \in Seq(Item), NEW i \in 1 .. Len(items), NEW k \in Nat
    PROVE  ChildIs(items, [items EXCEPT ![i].lo = k], i, k)
<1> DEFINE e == [items[i] EXCEPT !.lo = k]
           changed == [items EXCEPT ![i].lo = k]
<1>1. e \in Item /\ e.value = items[i].value /\ e.weight = items[i].weight
      /\ e.parent = items[i].parent /\ e.lo = k
  <2>1. items[i] \in Item
    BY ElementOfSeq
  <2> QED BY <2>1 DEF Item
<1>2. changed = [items EXCEPT ![i] = e]
  OBVIOUS
<1> HIDE DEF e, changed
<1>3. changed \in Seq(Item) /\ Len(changed) = Len(items)
      /\ \A j \in 1 .. Len(items) : changed[j] = IF j = i THEN e ELSE items[j]
  BY <1>1, <1>2, ExceptSeq
<1> QED BY <1>1, <1>3 DEF ChildIs, changed

\* Setting the parent of two items, and l as the child of the parent a.
Relinked(items, x, y, a, l) ==
    [items EXCEPT ![x].parent = a, ![y].parent = a, ![a].lo = l]

LEMMA Linking ==
    ASSUME NEW s \in Tree, NEW u,
           NEW a \in 1 .. Size(s), NEW l \in 1 .. Size(s), NEW h \in 1 .. Size(s),
           NEW x, NEW y, (x = l /\ y = h) \/ (x = h /\ y = l),
           u.items = Relinked(s.items, x, y, a, l),
           u.list = s.list
    PROVE  Linked(s, u, a, l, h)
<1> DEFINE n == Size(s)
           i1 == [s.items EXCEPT ![x].parent = a]
           i2 == [i1 EXCEPT ![y].parent = a]
           i3 == [i2 EXCEPT ![a].lo = l]
<1>0. s.items \in Seq(Item) /\ Len(s.items) = n /\ n \in Nat
  BY TreeFields DEF Size
<1>1. a \in 1 .. n /\ x \in 1 .. n /\ y \in 1 .. n /\ a \in Nat /\ l \in Nat
  BY <1>0
<1>2. ParentIs(s.items, i1, x, a)
  <2> HIDE DEF n
  <2> QED BY <1>0, <1>1, ParentSet
<1>3. u.items = i3
  BY DEF Relinked
<1> HIDE DEF n, i1
<1>4. ParentIs(i1, i2, y, a)
  BY <1>0, <1>1, <1>2, ParentSet DEF ParentIs
<1> HIDE DEF i2
<1>5. ChildIs(i2, i3, a, l)
  BY <1>0, <1>1, <1>2, <1>4, ChildSet DEF ParentIs
<1> HIDE DEF i3
<1>6. u.items \in Seq(Item) /\ Size(u) = n
  BY <1>0, <1>2, <1>3, <1>4, <1>5 DEF ParentIs, ChildIs, Size
<1>7. ASSUME NEW i \in 1 .. n
      PROVE  /\ u.items[i].value = s.items[i].value
             /\ u.items[i].weight = s.items[i].weight
             /\ u.items[i].parent = IF i \in {l, h} THEN a ELSE s.items[i].parent
             /\ u.items[i].lo = IF i = a THEN l ELSE s.items[i].lo
  <2>1. /\ i1[i].value = s.items[i].value /\ i1[i].weight = s.items[i].weight
        /\ i1[i].lo = s.items[i].lo
        /\ i1[i].parent = IF i = x THEN a ELSE s.items[i].parent
    BY <1>0, <1>2 DEF ParentIs
  <2>2. /\ i2[i].value = i1[i].value /\ i2[i].weight = i1[i].weight
        /\ i2[i].lo = i1[i].lo
        /\ i2[i].parent = IF i = y THEN a ELSE i1[i].parent
    BY <1>0, <1>2, <1>4 DEF ParentIs
  <2>3. /\ i3[i].value = i2[i].value /\ i3[i].weight = i2[i].weight
        /\ i3[i].parent = i2[i].parent
        /\ i3[i].lo = IF i = a THEN l ELSE i2[i].lo
    BY <1>0, <1>2, <1>4, <1>5 DEF ParentIs, ChildIs
  <2>4. i \in {l, h} <=> i = x \/ i = y
    OBVIOUS
  <2> QED BY <1>3, <2>1, <2>2, <2>3, <2>4
<1> QED BY <1>6, <1>7 DEF Linked, Value, Weight, Up, Down, n

\* The parent of two items that have none, put where it fits.
LEMMA ParentKept ==
    ASSUME NEW t \in Tree, NEW l \in 1 .. Size(t), NEW h \in 1 .. Size(t), NEW r,
           TreeInv(t, 0, r), Position(t, l) = r, Position(t, h) = r - 1,
           NEW s, NEW weight, weight = Weight(t, h) + Weight(t, l),
           NEW p \in 0 .. Size(t), Added(t, s, 0, weight, p), Fits(t, weight, p),
           NEW u \in Tree, Linked(s, u, Size(t) + 1, l, h), u.byvalue = t.byvalue
    PROVE  TreeInv(u, 0, r - 1) /\ Position(u, h) = r /\ Size(u) = Size(t) + 1
<1> DEFINE n == Size(t)
           new == n + 1
<1>0. /\ n \in Nat /\ s \in Tree /\ Lined(s) /\ Size(s) = n + 1 /\ Size(u) = n + 1
      /\ u.list = s.list /\ Lined(t) /\ Falling(t) /\ Heavy(t, 0) /\ Branches(t, 0) /\ Children(t, r)
      /\ l \in 1 .. n /\ h \in 1 .. n
  BY TreeFields DEF Added, Linked, TreeInv, Shape
<1>1. /\ \A i \in 1 .. n : /\ Value(u, i) = Value(t, i) /\ Weight(u, i) = Weight(t, i)
                           /\ Up(u, i) = IF i \in {l, h} THEN new ELSE Up(t, i)
                           /\ Down(u, i) = Down(t, i)
      /\ Weight(u, new) = weight /\ Up(u, new) = 0 /\ Down(u, new) = l
  <2>1. \A i \in 1 .. n : i \in 1 .. Size(s) /\ i # new
    BY <1>0
  <2>2. new \in 1 .. Size(s) /\ new \notin {l, h}
    BY <1>0
  <2> QED BY <2>1, <2>2, AddedFields DEF Linked
<1>2. \A i : Position(u, i) = Position(s, i) /\ At(u, i) = At(s, i)
  BY <1>0 DEF Position, At
<1>3. \A i \in 1 .. n : Weight(t, i) \in Nat /\ Weight(t, i) >= 1 /\ Position(t, i) \in 1 .. n
  BY <1>0, ItemFields DEF Heavy, Lined
<1>4. r \in 2 .. n /\ weight \in Nat /\ weight >= 1 /\ p <= r - 2
  <2>1. r \in 1 .. n /\ r - 1 \in 1 .. n
    BY <1>0, <1>3
  <2>2. weight \in Nat /\ weight > Weight(t, h)
    BY <1>0, <1>3
  <2>3. ~ Position(t, h) <= p
    <3>1. Position(t, h) <= p => Weight(t, h) >= weight
      BY <1>0 DEF Fits
    <3> QED BY <1>0, <1>3, <2>2, <3>1
  <2> QED BY <1>0, <1>3, <2>1, <2>2, <2>3
<1>5. /\ \A i \in 1 .. n : Position(u, i) = IF Position(t, i) <= p THEN Position(t, i)
                                            ELSE Position(t, i) + 1
      /\ Position(u, new) = p + 1
  BY <1>0, <1>2 DEF Added
<1>6. Up(t, l) = 0 /\ Up(t, h) = 0
  BY <1>0, <1>4 DEF Children
<1>7. ~ Between(t, p)
  <2> SUFFICES ASSUME NEW a \in 1 .. n, Down(t, a) # 0, Position(t, Higher(t, a)) = p
               PROVE  FALSE
    BY DEF Between
  <2>1. Branch(t, a, 0)
    BY <1>0 DEF Branches
  <2>2. Higher(t, a) \in 1 .. n /\ Up(t, Higher(t, a)) = a
    BY <1>0, <2>1, HigherFacts DEF Branch
  <2>3. ~ Position(t, Higher(t, a)) <= r
    BY <1>0, <2>2 DEF Children
  <2> QED BY <1>4, <2>3
<1> HIDE DEF n, new
<1>8. new = n + 1 /\ \A i \in 1 .. n + 1 : i \in 1 .. n \/ i = new
  BY <1>0 DEF new
<1>9. Lined(u)
  BY <1>0, <1>2 DEF Lined
<1>10. Falling(u)
  <2>1. Falling(s)
    BY <1>0, <1>4, AddedFalling
  <2>2. \A i \in 1 .. n + 1 : Weight(u, i) = Weight(s, i)
    BY <1>0 DEF Linked
  <2> QED BY <1>0, <1>2, <2>1, <2>2 DEF Falling
<1>11. Heavy(u, 0)
  BY <1>0, <1>1, <1>3, <1>4, <1>8 DEF Heavy
<1>12. Position(u, l) = r + 1 /\ Position(u, h) = r
  BY <1>0, <1>3, <1>4, <1>5
<1>13. Higher(u, new) = h
  <2>1. new \in 1 .. Size(u) /\ h \in 1 .. Size(u)
    BY <1>0, <1>8
  <2>2. Position(u, h) = Position(u, Down(u, new)) - 1
    BY <1>1, <1>4, <1>12
  <2> QED BY <1>9, <2>1, <2>2, HigherIs
<1>14. ASSUME NEW a \in 1 .. n, Down(t, a) # 0
       PROVE  Higher(u, a) = Higher(t, a) /\ Branch(u, a, 0)
  <2>1. Higher(s, a) = Higher(t, a) /\ Branches(s, 0) /\ Down(s, a) = Down(t, a)
    BY <1>0, <1>7, <1>14, AddedBranches, AddedFields DEF n
  <2>2. Branch(s, a, 0)
    BY <1>0, <1>14, <2>1 DEF Branches
  <2>3. Higher(u, a) = Higher(s, a)
    BY <1>1, <1>2, <2>1 DEF Higher
  <2>4. Branch(t, a, 0)
    BY <1>0, <1>14 DEF Branches, n
  <2>5. /\ Down(t, a) \in 1 .. n /\ Higher(t, a) \in 1 .. n
        /\ Up(t, Down(t, a)) = a /\ Up(t, Higher(t, a)) = a
    BY <1>0, <2>4, HigherFacts DEF Branch, n
  <2>6. Up(u, Down(t, a)) = a /\ Up(u, Higher(t, a)) = a
    BY <1>1, <1>6, <2>5
  <2>7. Weight(u, a) = Weight(s, a) /\ Weight(u, Down(t, a)) = Weight(s, Down(t, a))
        /\ Weight(u, Higher(t, a)) = Weight(s, Higher(t, a))
    BY <1>0, <1>8, <2>5 DEF Linked
  <2> QED BY <1>0, <1>1, <1>2, <2>1, <2>2, <2>3, <2>6, <2>7 DEF Branch
<1>15. Branch(u, new, 0)
  <2>1. Up(u, l) = new /\ Up(u, h) = new /\ Weight(u, l) = Weight(t, l) /\ Weight(u, h) = Weight(t, h)
    BY <1>0, <1>1
  <2>2. Position(u, new) < Position(u, h) /\ Position(u, l) >= 2 /\ new # 0
    BY <1>0, <1>4, <1>5, <1>8, <1>12
  <2>3. Weight(t, h) + Weight(t, l) = Weight(t, l) + Weight(t, h) /\ weight + 0 = weight
    BY <1>0, <1>3, <1>4
  <2> QED BY <1>0, <1>1, <1>8, <1>13, <2>1, <2>2, <2>3 DEF Branch
<1>16. Branches(u, 0)
  BY <1>0, <1>1, <1>8, <1>14, <1>15 DEF Branches
<1>17. Children(u, r - 1)
  <2>1. ASSUME NEW i \in 1 .. n + 1
        PROVE  /\ Up(u, i) = 0 <=> Position(u, i) <= r - 1
               /\ Up(u, i) # 0 => Child(u, i)
    <3>1. CASE i = new
      BY <1>0, <1>1, <1>4, <1>5, <3>1
    <3>2. CASE i \in {l, h}
      <4>1. Up(u, i) = new /\ new # 0 /\ new \in 1 .. Size(u) /\ l # 0
        BY <1>0, <1>1, <1>8, <3>2
      <4>2. Child(u, i)
        BY <1>1, <1>13, <3>2, <4>1 DEF Child
      <4> QED BY <1>4, <1>12, <3>2, <4>1, <4>2
    <3>3. CASE i # new /\ i \notin {l, h}
      <4>1. i \in 1 .. n /\ Up(u, i) = Up(t, i)
        BY <1>1, <1>8, <3>3
      <4>2. Position(t, i) # r /\ Position(t, i) # r - 1
        BY <1>0, <3>3, <4>1 DEF Lined, n
      <4>3. Up(t, i) = 0 <=> Position(t, i) <= r
        BY <1>0, <4>1 DEF Children, n
      <4>4. Position(t, i) <= r <=> Position(u, i) <= r - 1
        BY <1>3, <1>4, <1>5, <4>1, <4>2
      <4>5. ASSUME Up(u, i) # 0
            PROVE  Child(u, i)
        <5>1. Child(t, i)
          BY <1>0, <4>1, <4>5 DEF Children, n
        <5>2. Up(t, i) \in 1 .. n /\ Down(t, Up(t, i)) # 0
              /\ (i = Down(t, Up(t, i)) \/ i = Higher(t, Up(t, i)))
          BY <5>1 DEF Child, n
        <5>3. Higher(u, Up(t, i)) = Higher(t, Up(t, i)) /\ Down(u, Up(t, i)) = Down(t, Up(t, i))
              /\ Up(t, i) \in 1 .. Size(u)
          BY <1>0, <1>1, <1>14, <5>2
        <5> QED BY <4>1, <5>2, <5>3 DEF Child
      <4> QED BY <4>1, <4>3, <4>4, <4>5
    <3> QED BY <3>1, <3>2, <3>3
  <2> QED BY <1>0, <2>1 DEF Children
<1>18. Valued(u)
  <2>1. Valued(t)
    BY DEF TreeInv
  <2>2. \A v \in Values : t.byvalue[v] # 0 => t.byvalue[v] \in 1 .. n /\ t.byvalue[v] \in 1 .. Size(u)
    BY <1>0, <2>1 DEF Valued, n
  <2>3. \A i \in 1 .. Size(u) : Down(u, i) = 0 => i \in 1 .. n
    BY <1>0, <1>1, <1>8
  <2> QED BY <1>1, <2>1, <2>2, <2>3 DEF Valued, n
<1>19. Filled(u, r - 1)
  <2>1. Known(u) = Known(t)
    BY DEF Known
  <2>2. Size(u) + (r - 1) = Size(t) + r
    BY <1>0, <1>4 DEF n
  <2> QED BY <2>1, <2>2 DEF TreeInv, Filled
<1> QED BY <1>0, <1>9, <1>10, <1>11, <1>12, <1>16, <1>17, <1>18, <1>19 DEF TreeInv, Shape, n

\* The item before another one, if that is not the first.
LEMMA PrevFacts ==
    ASSUME NEW t \in Tree, Lined(t), NEW i \in 1 .. Size(t)
    PROVE  /\ Prev(t, i) = 0 <=> Position(t, i) = 1
           /\ Prev(t, i) # 0 => /\ Prev(t, i) \in 1 .. Size(t)
                                /\ Position(t, Prev(t, i)) = Position(t, i) - 1
<1>1. Position(t, i) \in 1 .. Size(t) /\ Size(t) \in Nat
  BY TreeFields DEF Lined
<1>2. CASE Position(t, i) = 1
  BY <1>2 DEF Prev
<1>3. CASE Position(t, i) # 1
  <2>1. Prev(t, i) = At(t, Position(t, i) - 1)
    BY <1>3 DEF Prev, At
  <2>2. Position(t, i) - 1 \in 1 .. Size(t)
    BY <1>1, <1>3
  <2>3. At(t, Position(t, i) - 1) \in 1 .. Size(t)
        /\ Position(t, At(t, Position(t, i) - 1)) = Position(t, i) - 1
    BY <2>2 DEF Lined
  <2> QED BY <1>1, <1>3, <2>1, <2>3
<1> QED BY <1>2, <1>3

\* A round of the second loop pairs the last two items without a parent.
LEMMA PairKept ==
    ASSUME NEW t \in Tree, NEW l \in 1 .. Size(t), TreeInv(t, 0, Position(t, l)),
           NEW h, h = Prev(t, l), h # 0
    PROVE  LET u == Pair(t, l, h)
           IN  /\ u \in Tree
               /\ Prev(u, h) \in 1 .. Size(u)
               /\ TreeInv(u, 0, Position(u, Prev(u, h)))
<1> DEFINE n == Size(t)
           r == Position(t, l)
           weight == Weight(t, h) + Weight(t, l)
           s == InsertByWeight(t, 0, weight)
           u == Pair(t, l, h)
<1>0. n \in Nat /\ Lined(t) /\ Falling(t) /\ t.byvalue \in [Values -> Nat]
  BY TreeFields DEF TreeInv, Shape
<1>1. h \in 1 .. n /\ Position(t, h) = r - 1 /\ r \in 1 .. n
  BY <1>0, PrevFacts DEF Lined
<1>2. weight \in Nat /\ 0 \in Nat
  BY <1>0, <1>1, ItemFields
<1>3. PICK p \in 0 .. Size(t) : Fits(t, weight, p) /\ Added(t, s, 0, weight, p)
  <2> HIDE DEF s, weight
  <2>1. \E p \in 0 .. Size(t) : Fits(t, weight, p) /\ Added(t, s, 0, weight, p)
    BY <1>0, <1>2, InsertedByWeight DEF s
  <2> QED BY <2>1
<1>4. s \in Tree /\ s.byvalue = t.byvalue /\ Size(s) = n + 1
  BY <1>3 DEF Added
<1> DEFINE new == n + 1
           items == [s.items EXCEPT ![l].parent = new, ![h].parent = new, ![new].lo = l]
<1>5. u = [s EXCEPT !.items = items]
  <2>1. u = [s EXCEPT !.items[l].parent = new, !.items[h].parent = new, !.items[new].lo = l]
    BY Zenon DEF Pair, Weight, Size
  <2> HIDE DEF s, new, u
  <2> QED BY <1>4, <2>1 DEF Tree
<1>6. u.items = items /\ u.list = s.list /\ u.byvalue = t.byvalue
  <2> HIDE DEF items, s, u
  <2> QED BY <1>4, <1>5 DEF Tree
<1> HIDE DEF s, u, weight
<1>7. Linked(s, u, new, l, h)
  <2>1. l \in 1 .. Size(s) /\ h \in 1 .. Size(s) /\ new \in 1 .. Size(s)
    BY <1>0, <1>1, <1>4
  <2> HIDE DEF new
  <2>2. u.items = Relinked(s.items, l, h, new, l)
    BY <1>6 DEF Relinked
  <2> QED BY <1>4, <1>6, <2>1, <2>2, Linking
<1>8. u \in Tree
  <2>1. items \in Seq(Item)
    BY <1>6, <1>7 DEF Linked
  <2> HIDE DEF items
  <2> QED BY <1>4, <1>5, <2>1 DEF Tree
<1>9. TreeInv(u, 0, r - 1) /\ Position(u, h) = r /\ Size(u) = n + 1
  <2>1. weight = Weight(t, h) + Weight(t, l)
    BY DEF weight
  <2> HIDE DEF r
  <2>2. Position(t, l) = r
    BY DEF r
  <2> QED BY <1>1, <1>3, <1>6, <1>7, <1>8, <2>1, <2>2, ParentKept
<1> HIDE DEF n, r
<1>10. Prev(u, h) \in 1 .. Size(u) /\ Position(u, Prev(u, h)) = r - 1
  <2>1. h \in 1 .. Size(u) /\ Lined(u) /\ r # 1 /\ r \in 1 .. n
    <3>1. r - 1 \in 1 .. n
      BY <1>0, <1>1 DEF Lined, n
    <3> QED BY <1>0, <1>1, <1>9, <3>1 DEF TreeInv, Shape
  <2> QED BY <1>8, <1>9, <2>1, PrevFacts
<1> QED BY <1>8, <1>9, <1>10 DEF u

-----------------------------------------------------------------------------
(* InsertNewBranchAndRebalance of huff.cpp: the new branch. *)

\* The end of the list is between no siblings.
LEMMA NotBetween ==
    ASSUME NEW t \in Tree, Lined(t), NEW x, Branches(t, x)
    PROVE  ~ Between(t, Size(t))
<1> SUFFICES ASSUME NEW a \in 1 .. Size(t), Down(t, a) # 0, Position(t, Higher(t, a)) = Size(t)
             PROVE  FALSE
  BY DEF Between
<1>1. Branch(t, a, x)
  BY DEF Branches
<1>2. Position(t, Higher(t, a)) = Position(t, Down(t, a)) - 1
      /\ Position(t, Down(t, a)) \in 2 .. Size(t)
  BY <1>1, HigherFacts
<1> QED BY <1>2, TreeFields

\* The last item is a leaf.
LEMMA LastIsLeaf ==
    ASSUME NEW t \in Tree, NEW x, NEW r, Shape(t, x, r), NEW i \in 1 .. Size(t),
           Position(t, i) = Size(t)
    PROVE  Down(t, i) = 0
<1> SUFFICES ASSUME Down(t, i) # 0
             PROVE  FALSE
  OBVIOUS
<1>1. Branch(t, i, x) /\ Lined(t)
  BY DEF Shape, Branches
<1>2. Position(t, i) < Position(t, Higher(t, i))
      /\ Position(t, Higher(t, i)) \in 1 .. Size(t)
  BY <1>1, HigherFacts DEF Branch, Lined
<1> QED BY <1>2, TreeFields

\* The tree with the two new leaves behind the last item, which becomes their parent.
LEMMA LeavesKept ==
    ASSUME NEW t \in Tree, TreeInv(t, 0, 1), NEW b \in Values, t.byvalue[b] = 0, Size(t) # 0,
           NEW last, last = Last(t.list),
           NEW s1, Added(t, s1, Value(t, last), Weight(t, last), Size(t)),
           NEW s, Added(s1, s, b, 0, Size(s1)),
           NEW h, NEW l, h = Size(t) + 1, l = Size(t) + 2,
           NEW u \in Tree, Linked(s, u, last, l, h),
           u.byvalue = [t.byvalue EXCEPT ![Value(t, last)] = h, ![b] = l]
    PROVE  TreeInv(u, l, 1) /\ u.byvalue[b] = l /\ Size(u) = Size(t) + 2
<1> DEFINE n == Size(t)
           v0 == Value(t, last)
           w0 == Weight(t, last)
<1>0. /\ n \in Nat /\ Lined(t) /\ Falling(t) /\ Heavy(t, 0) /\ Branches(t, 0) /\ Children(t, 1)
      /\ Valued(t) /\ Filled(t, 1)
  BY TreeFields DEF TreeInv, Shape
<1>1. last \in 1 .. n /\ Position(t, last) = n
  BY <1>0, LastItem
<1>2. Down(t, last) = 0 /\ v0 \in Values /\ t.byvalue[v0] = last /\ v0 # b
  <2>1. Down(t, last) = 0
    BY <1>1, LastIsLeaf DEF TreeInv
  <2> QED BY <1>0, <1>1, <2>1 DEF Valued
<1>3. \A i \in 1 .. n : Weight(t, i) \in Nat /\ Weight(t, i) >= 1 /\ Position(t, i) \in 1 .. n
  BY <1>0, ItemFields DEF Heavy, Lined
<1>4. \A i \in 1 .. n : Weight(t, i) >= w0
  BY <1>0, <1>1, <1>3 DEF Falling
<1>5. /\ s1 \in Tree /\ Lined(s1) /\ Size(s1) = n + 1 /\ s \in Tree /\ Lined(s) /\ Size(s) = n + 2
      /\ Size(u) = n + 2 /\ u.list = s.list /\ h \in 1 .. n + 2 /\ l \in 1 .. n + 2 /\ h # l
      /\ n >= 1 /\ last # h /\ last # l
  BY <1>0, <1>1 DEF Added, Linked
<1>6. Falling(s1) /\ Branches(s1, 0)
      /\ \A a \in 1 .. n : Down(t, a) # 0 => Higher(s1, a) = Higher(t, a)
  <2>1. Fits(t, w0, n) /\ w0 \in Nat /\ n \in 0 .. n
    BY <1>0, <1>1, <1>3, <1>4, LastFits
  <2>2. ~ Between(t, n)
    BY <1>0, NotBetween
  <2> QED BY <1>0, <2>1, <2>2, AddedFalling, AddedBranches
<1>7. /\ \A i \in 1 .. n : /\ Value(s1, i) = Value(t, i) /\ Weight(s1, i) = Weight(t, i)
                           /\ Up(s1, i) = Up(t, i) /\ Down(s1, i) = Down(t, i)
                           /\ Position(s1, i) = Position(t, i)
      /\ Value(s1, h) = v0 /\ Weight(s1, h) = w0 /\ Up(s1, h) = 0 /\ Down(s1, h) = 0
      /\ Position(s1, h) = h
  <2>1. \A i \in 1 .. n : Position(s1, i) = Position(t, i)
    BY <1>0, <1>3 DEF Added
  <2>2. Position(s1, h) = h
    BY <1>5 DEF Added
  <2> QED BY <2>1, <2>2, AddedFields
<1>8. Falling(s) /\ Branches(s, 0)
      /\ \A a \in 1 .. n : Down(t, a) # 0 => Higher(s, a) = Higher(t, a)
  <2>1. Size(s1) \in 0 .. Size(s1) /\ 0 \in Nat
    BY <1>0, <1>5
  <2>2. \A i \in 1 .. Size(s1) : Weight(s1, i) >= 0
    BY <1>5, ItemFields
  <2>3. Fits(s1, 0, Size(s1)) /\ ~ Between(s1, Size(s1))
    BY <1>5, <1>6, <2>1, <2>2, LastFits, NotBetween
  <2>4. Falling(s) /\ Branches(s, 0)
        /\ \A a \in 1 .. Size(s1) : Down(s1, a) # 0 => Higher(s, a) = Higher(s1, a)
    BY <1>5, <1>6, <2>1, <2>3, AddedFalling, AddedBranches
  <2>5. \A a \in 1 .. n : a \in 1 .. Size(s1)
    BY <1>0, <1>5
  <2> QED BY <1>6, <1>7, <2>4, <2>5
<1>9. /\ \A i \in 1 .. n : /\ Value(s, i) = Value(t, i) /\ Weight(s, i) = Weight(t, i)
                           /\ Up(s, i) = Up(t, i) /\ Down(s, i) = Down(t, i)
                           /\ Position(s, i) = Position(t, i)
      /\ Value(s, h) = v0 /\ Weight(s, h) = w0 /\ Down(s, h) = 0 /\ Position(s, h) = h
      /\ Value(s, l) = b /\ Weight(s, l) = 0 /\ Down(s, l) = 0 /\ Position(s, l) = l
  <2>1. /\ \A i \in 1 .. Size(s1) : /\ Value(s, i) = Value(s1, i) /\ Weight(s, i) = Weight(s1, i)
                                    /\ Up(s, i) = Up(s1, i) /\ Down(s, i) = Down(s1, i)
        /\ Value(s, Size(s1) + 1) = b /\ Weight(s, Size(s1) + 1) = 0 /\ Down(s, Size(s1) + 1) = 0
    BY <1>5, AddedFields
  <2>2. ASSUME NEW i \in 1 .. Size(s1)
        PROVE  Position(s, i) = Position(s1, i)
    <3>1. Position(s1, i) \in 1 .. Size(s1)
      BY <1>5 DEF Lined
    <3> QED BY <1>0, <1>5, <3>1 DEF Added
  <2>3. Position(s, l) = l
    BY <1>0, <1>5 DEF Added
  <2>4. Size(s1) + 1 = l /\ h \in 1 .. Size(s1) /\ \A i \in 1 .. n : i \in 1 .. Size(s1)
    BY <1>0, <1>5
  <2> QED BY <1>7, <2>1, <2>2, <2>3, <2>4
<1>10. /\ \A i \in 1 .. n : /\ Value(u, i) = Value(t, i) /\ Weight(u, i) = Weight(t, i)
                            /\ Up(u, i) = Up(t, i)
                            /\ Down(u, i) = IF i = last THEN l ELSE Down(t, i)
                            /\ Position(u, i) = Position(t, i)
       /\ Value(u, h) = v0 /\ Weight(u, h) = w0 /\ Up(u, h) = last /\ Down(u, h) = 0
       /\ Position(u, h) = h
       /\ Value(u, l) = b /\ Weight(u, l) = 0 /\ Up(u, l) = last /\ Down(u, l) = 0
       /\ Position(u, l) = l
  <2>1. \A i : Position(u, i) = Position(s, i)
    BY <1>5 DEF Position
  <2>2. h \in 1 .. Size(s) /\ l \in 1 .. Size(s)
        /\ \A i \in 1 .. n : i \in 1 .. Size(s) /\ i \notin {l, h}
    BY <1>0, <1>5
  <2> QED BY <1>5, <1>9, <2>1, <2>2 DEF Linked
<1> HIDE DEF n, v0, w0
<1>11. \A i \in 1 .. Size(u) : i \in 1 .. n \/ i = h \/ i = l
  BY <1>0, <1>5 DEF n
<1>12. Lined(u) /\ Falling(u)
  <2>1. \A i : Position(u, i) = Position(s, i) /\ At(u, i) = At(s, i)
    BY <1>5 DEF Position, At
  <2>2. Lined(u)
    <3>1. Size(u) = Size(s) /\ Len(u.list) = Len(s.list) /\ Lined(s)
      BY <1>5
    <3> QED BY <2>1, <3>1 DEF Lined
  <2>3. \A i \in 1 .. Size(u) : Weight(u, i) = Weight(s, i)
    BY <1>5 DEF Linked
  <2> QED BY <1>5, <1>8, <2>1, <2>2, <2>3 DEF Falling
<1>13. Heavy(u, l)
  <2>1. w0 >= 1 /\ l = Size(u)
    BY <1>1, <1>3, <1>5 DEF w0, n
  <2> QED BY <1>3, <1>10, <1>11, <2>1 DEF Heavy
<1>14. Higher(u, last) = h
  <2>1. last \in 1 .. Size(u) /\ h \in 1 .. Size(u)
    BY <1>0, <1>1, <1>5
  <2>2. Position(u, h) = Position(u, Down(u, last)) - 1
    <3>1. Down(u, last) = l /\ h = l - 1
      BY <1>0, <1>1, <1>10 DEF n
    <3> QED BY <1>10, <3>1
  <2> QED BY <1>12, <2>1, <2>2, HigherIs
<1>15. ASSUME NEW a \in 1 .. n, Down(t, a) # 0
       PROVE  Higher(u, a) = Higher(t, a) /\ Branch(u, a, l) /\ Down(u, a) = Down(t, a)
  <2>1. a # last /\ Down(u, a) = Down(t, a) /\ Down(s, a) = Down(t, a)
    BY <1>2, <1>9, <1>10, <1>15
  <2>2. Higher(s, a) = Higher(t, a) /\ a \in 1 .. Size(s) /\ a # 0 /\ a # l
    BY <1>0, <1>5, <1>8, <1>15 DEF n
  <2>3. Branch(s, a, 0)
    BY <1>8, <1>15, <2>1, <2>2 DEF Branches
  <2>4. Higher(u, a) = Higher(s, a)
    BY <1>5, <2>1 DEF Higher, Position, At
  <2>5. Branch(t, a, 0)
    BY <1>0, <1>15 DEF Branches, n
  <2>6. Down(t, a) \in 1 .. n /\ Higher(t, a) \in 1 .. n
    BY <1>0, <2>5, HigherFacts DEF Branch, n
  <2>7. /\ Up(u, Down(t, a)) = Up(s, Down(t, a)) /\ Up(u, Higher(t, a)) = Up(s, Higher(t, a))
        /\ Weight(u, a) = Weight(s, a) /\ Weight(u, Down(t, a)) = Weight(s, Down(t, a))
        /\ Weight(u, Higher(t, a)) = Weight(s, Higher(t, a))
    BY <1>9, <1>10, <2>6
  <2>8. /\ Position(u, a) = Position(s, a) /\ Position(u, Down(t, a)) = Position(s, Down(t, a))
        /\ Position(u, Higher(t, a)) = Position(s, Higher(t, a))
    BY <1>5 DEF Position
  <2>9. Branch(u, a, l)
    BY <1>5, <2>1, <2>2, <2>3, <2>4, <2>7, <2>8 DEF Branch
  <2> QED BY <2>1, <2>2, <2>4, <2>9
<1>16. Branch(u, last, l)
  <2>1. Down(u, last) = l /\ Weight(u, last) = w0 /\ Position(u, last) = n
        /\ n < h /\ l >= 2 /\ w0 + 0 = 0 + w0
    BY <1>0, <1>1, <1>3, <1>5, <1>10 DEF n, w0
  <2> QED BY <1>5, <1>10, <1>14, <2>1 DEF Branch
<1>17. Branches(u, l)
  <2> SUFFICES ASSUME NEW a \in 1 .. Size(u), Down(u, a) # 0
               PROVE  Branch(u, a, l)
    BY DEF Branches
  <2>1. a \in 1 .. n
    BY <1>10, <1>11
  <2>2. CASE a = last
    BY <1>16, <2>2
  <2>3. CASE a # last
    BY <1>10, <1>15, <2>1, <2>3
  <2> QED BY <2>2, <2>3
<1>18. Children(u, 1)
  <2>1. ASSUME NEW i \in 1 .. Size(u)
        PROVE  /\ Up(u, i) = 0 <=> Position(u, i) <= 1
               /\ Up(u, i) # 0 => Child(u, i)
    <3>1. CASE i = h \/ i = l
      <4>1. Up(u, i) = last /\ last # 0 /\ last \in 1 .. Size(u) /\ ~ Position(u, i) <= 1
            /\ Down(u, last) = l /\ l # 0
        BY <1>0, <1>1, <1>5, <1>10, <3>1 DEF n
      <4> QED BY <1>14, <3>1, <4>1 DEF Child
    <3>2. CASE i \in 1 .. n
      <4>1. Up(u, i) = Up(t, i) /\ Position(u, i) = Position(t, i)
        BY <1>10, <3>2
      <4>2. Up(t, i) = 0 <=> Position(t, i) <= 1
        BY <1>0, <3>2 DEF Children, n
      <4>3. ASSUME Up(u, i) # 0
            PROVE  Child(u, i)
        <5>1. Child(t, i)
          BY <1>0, <3>2, <4>1, <4>3 DEF Children, n
        <5>2. Up(t, i) \in 1 .. n /\ Down(t, Up(t, i)) # 0
              /\ (i = Down(t, Up(t, i)) \/ i = Higher(t, Up(t, i)))
          BY <5>1 DEF Child, n
        <5>3. Higher(u, Up(t, i)) = Higher(t, Up(t, i)) /\ Down(u, Up(t, i)) = Down(t, Up(t, i))
              /\ Up(t, i) \in 1 .. Size(u)
          BY <1>0, <1>5, <1>15, <5>2 DEF n
        <5> QED BY <4>1, <5>2, <5>3 DEF Child
      <4> QED BY <4>1, <4>2, <4>3
    <3> QED BY <1>11, <3>1, <3>2
  <2> QED BY <2>1 DEF Children
<1>19. \A v \in Values : u.byvalue[v] = IF v = b THEN l ELSE IF v = v0 THEN h ELSE t.byvalue[v]
  BY <1>2, TreeFields DEF v0
<1>20. Valued(u)
  <2>1. ASSUME NEW v \in Values, u.byvalue[v] # 0
        PROVE  /\ u.byvalue[v] \in 1 .. Size(u)
               /\ Down(u, u.byvalue[v]) = 0
               /\ Value(u, u.byvalue[v]) = v
    <3>1. CASE v = b
      BY <1>5, <1>10, <1>19, <3>1
    <3>2. CASE v = v0 /\ v # b
      BY <1>5, <1>10, <1>19, <3>2
    <3>3. CASE v # v0 /\ v # b
      <4> DEFINE i == t.byvalue[v]
      <4>1. u.byvalue[v] = i /\ i # 0
        BY <1>19, <2>1, <3>3
      <4>2. i \in 1 .. n /\ Down(t, i) = 0 /\ Value(t, i) = v
        BY <1>0, <4>1 DEF Valued, n
      <4>3. i # last
        BY <3>3, <4>2 DEF v0
      <4>4. i \in 1 .. Size(u)
        BY <1>0, <1>5, <4>2 DEF n
      <4> HIDE DEF i
      <4> QED BY <1>10, <4>1, <4>2, <4>3, <4>4
    <3> QED BY <3>1, <3>2, <3>3
  <2>2. ASSUME NEW i \in 1 .. Size(u), Down(u, i) = 0
        PROVE  Value(u, i) \in Values /\ u.byvalue[Value(u, i)] = i
    <3>1. CASE i = h
      BY <1>2, <1>10, <1>19, <3>1
    <3>2. CASE i = l
      BY <1>10, <1>19, <3>2
    <3>3. CASE i \in 1 .. n
      <4>1. i # last
        BY <1>0, <1>5, <1>10, <2>2, <3>3
      <4>2. Down(t, i) = 0 /\ Value(u, i) = Value(t, i)
        BY <1>10, <2>2, <3>3, <4>1
      <4>3. Value(t, i) \in Values /\ t.byvalue[Value(t, i)] = i
        BY <1>0, <3>3, <4>2 DEF Valued, n
      <4>4. Value(t, i) # b /\ Value(t, i) # v0
        <5>1. i # 0
          BY <3>3
        <5> QED BY <1>2, <4>1, <4>3, <5>1
      <4> QED BY <1>19, <4>2, <4>3, <4>4
    <3> QED BY <1>11, <3>1, <3>2, <3>3
  <2> QED BY <2>1, <2>2 DEF Valued
<1>21. Filled(u, 1)
  <2>1. Known(u) = Known(t) \cup {b}
    <3>1. l # 0 /\ h # 0 /\ last # 0
      BY <1>1, <1>5
    <3> QED BY <1>2, <1>19, <3>1 DEF Known
  <2> DEFINE c == Cardinality(Known(t))
             d == Cardinality(Known(u))
  <2>2. c \in Nat /\ d = c + 1
    BY <2>1, OneMoreKnown
  <2>3. n + 1 = 2 * c
    BY <1>0 DEF Filled, n
  <2> HIDE DEF c, d
  <2>4. (n + 2) + 1 = 2 * d
    BY <1>0, <2>2, <2>3
  <2> QED BY <1>5, <2>4 DEF Filled, d
<1>22. u.byvalue[b] = l
  BY <1>19
<1> QED BY <1>5, <1>12, <1>13, <1>17, <1>18, <1>20, <1>21, <1>22 DEF TreeInv, Shape, n

\* A new value becomes a leaf of no weight yet, the last item.
LEMMA BranchKept ==
    ASSUME NEW t \in Tree, TreeInv(t, 0, 1), NEW b \in Values, t.byvalue[b] = 0
    PROVE  LET u == InsertBranch(t, b)
           IN  /\ u \in Tree
               /\ u.byvalue[b] \in 1 .. Size(u)
               /\ TreeInv(u, u.byvalue[b], 1)
<1> DEFINE n == Size(t)
           last == Last(t.list)
           v == Value(t, last)
           w == Weight(t, last)
           s1 == InsertLast(t, v, w)
           s == InsertLast(s1, b, 0)
           h == n + 1
           l == h + 1
           u == InsertBranch(t, b)
<1>0. n \in Nat /\ Lined(t) /\ t.byvalue \in [Values -> Nat] /\ n # 0
  <2>1. n + 1 = 2 * Cardinality(Known(t))
    BY DEF TreeInv, Filled
  <2>2. Cardinality(Known(t)) \in Nat
    <3>1. Known([t EXCEPT !.byvalue[b] = 1]) = Known(t) \cup {b}
      BY TreeFields DEF Known, Tree
    <3> QED BY <3>1, OneMoreKnown
  <2> QED BY <2>1, <2>2, TreeFields DEF TreeInv, Shape
<1>1. last \in 1 .. n /\ v \in Nat /\ w \in Nat /\ b \in Nat /\ 0 \in Nat
  <2>1. b \in Nat
    BY BytesAssumption DEF Values, ENDMARK, NEWBYTE
  <2> QED BY <1>0, <2>1, LastItem, ItemFields
<1>2. Added(t, s1, v, w, n)
  <2> HIDE DEF v, w
  <2> QED BY <1>0, <1>1, InsertedLast
<1>3. s1 \in Tree /\ Lined(s1) /\ Size(s1) = n + 1 /\ s1.byvalue = t.byvalue
  BY <1>2 DEF Added
<1>4. Added(s1, s, b, 0, Size(s1))
  <2> HIDE DEF s1
  <2> QED BY <1>1, <1>3, InsertedLast
<1>5. s \in Tree /\ Size(s) = n + 2 /\ s.byvalue = t.byvalue
  BY <1>0, <1>3, <1>4 DEF Added
<1>6. v \in Values
  <2>1. Down(t, last) = 0
    BY <1>0, <1>1, LastItem, LastIsLeaf DEF TreeInv
  <2> QED BY <1>1, <2>1 DEF TreeInv, Valued
<1> DEFINE items == [s.items EXCEPT ![h].parent = last, ![l].parent = last, ![last].lo = l]
           byvalue == [t.byvalue EXCEPT ![v] = h, ![b] = l]
<1>7. u = [s EXCEPT !.items = items, !.byvalue = [s.byvalue EXCEPT ![v] = h, ![b] = l]]
  BY Zenon DEF InsertBranch, Value, Weight, Size
<1> HIDE DEF s, u, v, w, s1
<1>8. h \in 1 .. Size(s) /\ l \in 1 .. Size(s) /\ last \in 1 .. Size(s) /\ h \in Nat /\ l \in Nat
      /\ h = Size(t) + 1 /\ l = Size(t) + 2
  BY <1>0, <1>1, <1>5
<1> HIDE DEF h, l, last
<1>9. byvalue \in [Values -> Nat]
  BY <1>0, <1>6, <1>8
<1> HIDE DEF n
<1>10. u.items = items /\ u.list = s.list /\ u.byvalue = byvalue
  <2>1. u.items = items /\ u.list = s.list /\ u.byvalue = [s.byvalue EXCEPT ![v] = h, ![b] = l]
    <3> HIDE DEF items
    <3> QED BY <1>5, <1>7 DEF Tree
  <2> QED BY <1>5, <2>1
<1>11. Linked(s, u, last, l, h)
  <2>1. u.items = Relinked(s.items, h, l, last, l)
    BY <1>10 DEF Relinked
  <2> HIDE DEF items, byvalue
  <2> QED BY <1>5, <1>8, <1>10, <2>1, Linking
<1>12. u \in Tree
  <2>1. items \in Seq(Item)
    BY <1>10, <1>11 DEF Linked
  <2>2. [s.byvalue EXCEPT ![v] = h, ![b] = l] \in [Values -> Nat]
    BY <1>5, <1>9
  <2> HIDE DEF items, byvalue
  <2> QED BY <1>5, <1>7, <2>1, <2>2 DEF Tree
<1>13. TreeInv(u, l, 1) /\ u.byvalue[b] = l /\ Size(u) = Size(t) + 2
  <2>1. Size(t) # 0 /\ last = Last(t.list)
    BY <1>0 DEF n, last
  <2>2. Added(t, s1, Value(t, last), Weight(t, last), Size(t))
    BY <1>2 DEF n, v, w
  <2>3. u.byvalue = [t.byvalue EXCEPT ![Value(t, last)] = h, ![b] = l]
    BY <1>10 DEF v
  <2> QED BY <1>4, <1>8, <1>11, <1>12, <2>1, <2>2, <2>3, LeavesKept
<1> QED BY <1>5, <1>8, <1>12, <1>13 DEF n, u

-----------------------------------------------------------------------------
(* IncWeightsAndRebalance of huff.cpp. *)

Swap(i, c, j) == IF j = i THEN c ELSE IF j = c THEN i ELSE j

\* u is t with i heavier by one, and i and c in each other's place.
Exchange(t, u, i, c) ==
    /\ u \in Tree /\ Size(u) = Size(t) /\ Len(u.list) = Size(t) /\ u.byvalue = t.byvalue
    /\ \A p \in 1 .. Size(t) : At(u, p) = Swap(i, c, At(t, p))
    /\ \A j \in 1 .. Size(t) : /\ Value(u, j) = Value(t, j)
                               /\ Weight(u, j) = IF j = i THEN Weight(t, i) + 1 ELSE Weight(t, j)
                               /\ Up(u, j) = Up(t, Swap(i, c, j))
                               /\ Down(u, j) = Swap(i, c, Down(t, j))

\* c is the first item that is not heavier than i.
Lightest(t, i, c) ==
    /\ c \in 1 .. Size(t)
    /\ Position(t, c) <= Position(t, i)
    /\ Weight(t, c) = Weight(t, i)
    /\ \A j \in 1 .. Size(t) : Position(t, j) < Position(t, c) => Weight(t, j) >= Weight(t, i) + 1

\* A child is behind its parent and one of its two children.
LEMMA ChildFacts ==
    ASSUME NEW t \in Tree, NEW x, NEW r, Shape(t, x, r), NEW j \in 1 .. Size(t), Up(t, j) # 0
    PROVE  /\ Up(t, j) \in 1 .. Size(t)
           /\ Branch(t, Up(t, j), x)
           /\ j = Down(t, Up(t, j)) \/ j = Higher(t, Up(t, j))
           /\ Position(t, Up(t, j)) < Position(t, j)
<1>1. Child(t, j) /\ Lined(t)
  BY DEF Shape, Children
<1> DEFINE a == Up(t, j)
<1>2. a \in 1 .. Size(t) /\ Branch(t, a, x) /\ (j = Down(t, a) \/ j = Higher(t, a))
  BY <1>1 DEF Child, Shape, Branches
<1> HIDE DEF a
<1>3. Position(t, a) < Position(t, Higher(t, a))
      /\ Position(t, Higher(t, a)) = Position(t, Down(t, a)) - 1
      /\ Position(t, Down(t, a)) \in 2 .. Size(t)
      /\ Position(t, a) \in 1 .. Size(t)
  <2>1. Position(t, a) < Position(t, Higher(t, a))
    BY <1>2 DEF Branch
  <2>2. Position(t, a) \in 1 .. Size(t)
    BY <1>1, <1>2 DEF Lined
  <2> QED BY <1>1, <1>2, <2>1, <2>2, HigherFacts
<1>4. Position(t, a) < Position(t, j)
  BY <1>2, <1>3, TreeFields
<1> QED BY <1>2, <1>4 DEF a

\* Children that weigh something are lighter than their parent.
LEMMA ChildLighter ==
    ASSUME NEW t \in Tree, NEW x, Lined(t), NEW a \in 1 .. Size(t), a # x, Branch(t, a, x),
           \A j \in 1 .. Size(t) : Weight(t, j) >= 1
    PROVE  Weight(t, Down(t, a)) < Weight(t, a) /\ Weight(t, Higher(t, a)) < Weight(t, a)
<1>1. Down(t, a) \in 1 .. Size(t) /\ Higher(t, a) \in 1 .. Size(t)
  BY HigherFacts DEF Branch
<1>2. /\ Weight(t, a) \in Nat /\ Weight(t, Down(t, a)) \in Nat /\ Weight(t, Higher(t, a)) \in Nat
      /\ Weight(t, Down(t, a)) >= 1 /\ Weight(t, Higher(t, a)) >= 1
  BY <1>1, ItemFields
<1>3. Weight(t, a) + 0 = Weight(t, Down(t, a)) + Weight(t, Higher(t, a))
  BY DEF Branch
<1> QED BY <1>2, <1>3

\* The item made heavier takes the place of the lightest before it, and its new
\* parent is next.
LEMMA ExchangeKept ==
    ASSUME NEW t \in Tree, NEW i \in 1 .. Size(t), NEW c, TreeInv(t, i, 1),
           NEW u, Exchange(t, u, i, c), Lightest(t, i, c)
    PROVE  /\ TreeInv(u, Up(u, i), 1)
           /\ Up(u, i) \in 0 .. Size(u)
           /\ Up(u, i) # 0 => Position(u, Up(u, i)) < Position(u, i)
<1> DEFINE n == Size(t)
           S(j) == Swap(i, c, j)
           x == Up(u, i)
<1>0. /\ n \in Nat /\ c \in 1 .. n /\ i \in 1 .. n /\ i # 0 /\ c # 0
      /\ Lined(t) /\ Falling(t) /\ Heavy(t, i) /\ Branches(t, i) /\ Children(t, 1)
      /\ Valued(t) /\ Filled(t, 1)
  BY TreeFields DEF TreeInv, Shape, Lightest
<1>1. /\ \A j \in 1 .. n : S(j) \in 1 .. n
      /\ \A j : S(S(j)) = j
      /\ \A j : S(j) = 0 <=> j = 0
  BY <1>0 DEF Swap
<1>2. /\ u \in Tree /\ Size(u) = n /\ Len(u.list) = n /\ u.byvalue = t.byvalue
      /\ \A p \in 1 .. n : At(u, p) = S(At(t, p))
      /\ \A j \in 1 .. n : /\ Value(u, j) = Value(t, j)
                           /\ Weight(u, j) = IF j = i THEN Weight(t, i) + 1 ELSE Weight(t, j)
                           /\ Up(u, j) = Up(t, S(j))
                           /\ Down(u, j) = S(Down(t, j))
  BY DEF Exchange
<1>3. /\ \A j \in 1 .. n : Weight(t, j) \in Nat
      /\ \A j \in 1 .. n : Position(t, j) \in 1 .. n /\ At(t, Position(t, j)) = j
      /\ \A p \in 1 .. n : At(t, p) \in 1 .. n /\ Position(t, At(t, p)) = p
  BY <1>0, ItemFields DEF Lined
<1>4. /\ Position(t, c) <= Position(t, i)
      /\ Weight(t, c) = Weight(t, i)
      /\ \A j \in 1 .. n : Position(t, j) < Position(t, c) => Weight(t, j) >= Weight(t, i) + 1
  BY DEF Lightest
<1> HIDE DEF n, S
<1>5. Lined(u) /\ \A j \in 1 .. n : Position(u, j) = Position(t, S(j))
  <2> DEFINE R == [j \in 1 .. n |-> Position(t, S(j))]
  <2>1. DOMAIN u.list = 1 .. n
    BY <1>2, TreeFields
  <2>2. \A p \in 1 .. n : At(u, p) \in 1 .. n /\ R[At(u, p)] = p
    BY <1>1, <1>2, <1>3
  <2>3. \A j \in 1 .. n : R[j] \in 1 .. n /\ At(u, R[j]) = j
    BY <1>1, <1>2, <1>3
  <2>4. Lined(u) /\ \A j \in 1 .. n : Position(u, j) = R[j]
    <3> HIDE DEF R
    <3>1. /\ Size(u) \in Nat /\ DOMAIN u.list = 1 .. Size(u) /\ Len(u.list) = Size(u)
          /\ \A p \in 1 .. Size(u) : At(u, p) \in 1 .. Size(u) /\ R[At(u, p)] = p
          /\ \A j \in 1 .. Size(u) : R[j] \in 1 .. Size(u) /\ At(u, R[j]) = j
      BY <1>0, <1>2, <2>1, <2>2, <2>3
    <3>2. Lined(u) /\ \A j \in 1 .. Size(u) : Position(u, j) = R[j]
      BY <3>1, LinedBy
    <3> QED BY <1>2, <3>2
  <2> QED BY <2>4
<1>6. \A j \in 1 .. n : Weight(u, S(j)) = IF j = c THEN Weight(t, c) + 1 ELSE Weight(t, j)
  BY <1>0, <1>1, <1>2, <1>4 DEF S, Swap
<1>7. \A j \in 1 .. n : Position(u, S(j)) = Position(t, j) /\ Up(u, S(j)) = Up(t, j)
  BY <1>1, <1>2, <1>5
<1>8. Falling(u)
  <2>1. ASSUME NEW j \in 1 .. n, NEW k \in 1 .. n, Position(t, j) <= Position(t, k)
        PROVE  Weight(u, S(j)) >= Weight(u, S(k))
    <3>1. Weight(t, j) >= Weight(t, k)
      BY <1>0, <2>1 DEF Falling, n
    <3>2. CASE k = c /\ j # c
      <4>1. Position(t, j) # Position(t, c)
        BY <1>0, <1>3, <3>2
      <4>2. Weight(t, j) >= Weight(t, i) + 1
        BY <1>0, <1>3, <1>4, <2>1, <3>2, <4>1
      <4> QED BY <1>4, <1>6, <3>2, <4>2
    <3>3. CASE k # c \/ j = c
      BY <1>0, <1>3, <1>6, <3>1, <3>3
    <3> QED BY <3>2, <3>3
  <2>2. ASSUME NEW j \in 1 .. n, NEW k \in 1 .. n, Position(u, j) <= Position(u, k)
        PROVE  Weight(u, j) >= Weight(u, k)
    <3>1. S(j) \in 1 .. n /\ S(k) \in 1 .. n /\ S(S(j)) = j /\ S(S(k)) = k
      BY <1>1
    <3>2. Position(t, S(j)) <= Position(t, S(k))
      BY <1>5, <2>2
    <3> QED BY <2>1, <3>1, <3>2
  <2> QED BY <1>2, <2>2 DEF Falling
<1>9. \A j \in 1 .. n : Weight(u, j) >= 1
  <2> SUFFICES ASSUME NEW j \in 1 .. n
               PROVE  Weight(u, j) >= 1
    OBVIOUS
  <2>1. CASE j = i
    BY <1>0, <1>2, <1>3, <2>1
  <2>2. CASE j # i
    BY <1>0, <1>2, <2>2 DEF Heavy, n
  <2> QED BY <2>1, <2>2
<1>10. Heavy(u, x)
  BY <1>2, <1>9 DEF Heavy
<1>11. ASSUME i # c
       PROVE  \A j \in 1 .. n : Weight(t, j) >= 1
  BY <1>0, <1>4, <1>11 DEF Heavy, n
<1>12. x = Up(t, c)
  BY <1>0, <1>2 DEF S, Swap
<1>13. ASSUME NEW a \in 1 .. n, Down(t, a) # 0
       PROVE  Branch(u, a, x) /\ Down(u, a) = S(Down(t, a)) /\ Higher(u, a) = S(Higher(t, a))
  <2> DEFINE l == Down(t, a)
             h == Higher(t, a)
  <2>1. Branch(t, a, i)
    BY <1>0, <1>13 DEF Branches, n
  <2>2. /\ l \in 1 .. n /\ h \in 1 .. n /\ Up(t, l) = a /\ Up(t, h) = a
        /\ Position(t, h) = Position(t, l) - 1 /\ Position(t, l) >= 2
        /\ Position(t, a) < Position(t, h)
        /\ Weight(t, a) + (IF a = i THEN 1 ELSE 0) = Weight(t, l) + Weight(t, h)
    <3>1. h \in 1 .. n /\ Position(t, h) = Position(t, l) - 1
      BY <1>0, <2>1, HigherFacts DEF n
    <3>2. /\ l \in 1 .. n /\ Up(t, l) = a /\ Up(t, h) = a /\ Position(t, l) >= 2
          /\ Position(t, a) < Position(t, h)
      BY <2>1 DEF Branch, n
    <3>3. Weight(t, a) + (IF a = i THEN 1 ELSE 0) = Weight(t, l) + Weight(t, h)
      BY <2>1, Zenon DEF Branch
    <3> HIDE DEF l, h, x
    <3> QED BY <3>1, <3>2, <3>3
  <2>3. Down(u, a) = S(l)
    BY <1>2
  <2> HIDE DEF l, h
  <2>4. S(l) \in 1 .. Size(u) /\ S(h) \in 1 .. Size(u)
    BY <1>1, <1>2, <2>2
  <2>5. Higher(u, a) = S(h)
    <3>1. Position(u, S(h)) = Position(u, Down(u, a)) - 1
      BY <1>7, <2>2, <2>3
    <3> QED BY <1>2, <1>5, <2>4, <3>1, HigherIs
  <2>6. /\ Position(u, S(l)) >= 2 /\ Up(u, S(l)) = a /\ Up(u, S(h)) = a
        /\ Position(u, S(h)) = Position(t, h)
    BY <1>7, <2>2
  <2>7. Position(t, S(a)) < Position(t, h)
    <3>1. CASE a # i /\ a # c
      BY <2>2, <3>1 DEF S, Swap
    <3>2. CASE a = i
      <4>1. S(a) = c
        BY <3>2 DEF S, Swap
      <4> QED BY <1>0, <1>3, <1>4, <2>2, <3>2, <4>1
    <3>3. CASE a = c /\ a # i
      <4>1. S(a) = i
        BY <3>3 DEF S, Swap
      <4>2. Weight(t, h) < Weight(t, a)
        BY <1>0, <1>11, <2>1, <3>3, ChildLighter DEF h, n
      <4>3. ~ Position(t, h) <= Position(t, i)
        <5> SUFFICES ASSUME Position(t, h) <= Position(t, i)
                     PROVE  FALSE
          OBVIOUS
        <5>1. Weight(t, h) >= Weight(t, i)
          BY <1>0, <2>2 DEF Falling, n
        <5> QED BY <1>0, <1>3, <1>4, <2>2, <3>3, <4>2, <5>1
      <4> QED BY <1>0, <1>3, <2>2, <4>1, <4>3
    <3> QED BY <3>1, <3>2, <3>3
  <2>8. Position(u, a) < Position(u, S(h))
    BY <1>5, <2>6, <2>7
  <2>9. a = x <=> l = c \/ h = c
    <3>1. ASSUME a = x
          PROVE  l = c \/ h = c
      <4>1. Up(t, c) = a /\ a # 0
        BY <1>12, <3>1
      <4>2. c = Down(t, a) \/ c = Higher(t, a)
        BY <1>0, <4>1, ChildFacts DEF TreeInv, n
      <4> QED BY <4>2 DEF l, h
    <3>2. ASSUME l = c \/ h = c
          PROVE  a = x
      BY <1>12, <2>2, <3>2
    <3> QED BY <3>1, <3>2
  <2>10. l # h
    BY <1>3, <2>2
  <2>11. Weight(u, a) + (IF a = x THEN 1 ELSE 0) = Weight(u, S(l)) + Weight(u, S(h))
    <3>1. Weight(u, a) = Weight(t, a) + (IF a = i THEN 1 ELSE 0)
      <4>1. Weight(u, a) = IF a = i THEN Weight(t, i) + 1 ELSE Weight(t, a)
        BY <1>2
      <4> QED BY <1>3, <4>1
    <3>2. Weight(u, S(l)) = Weight(t, l) + (IF l = c THEN 1 ELSE 0)
      <4>1. Weight(u, S(l)) = IF l = c THEN Weight(t, c) + 1 ELSE Weight(t, l)
        BY <1>6, <2>2
      <4> QED BY <1>3, <2>2, <4>1
    <3>3. Weight(u, S(h)) = Weight(t, h) + (IF h = c THEN 1 ELSE 0)
      <4>1. Weight(u, S(h)) = IF h = c THEN Weight(t, c) + 1 ELSE Weight(t, h)
        BY <1>6, <2>2
      <4> QED BY <1>3, <2>2, <4>1
    <3>4. Weight(t, l) \in Nat /\ Weight(t, h) \in Nat /\ Weight(t, a) \in Nat
      BY <1>3, <2>2
    <3> HIDE DEF x
    <3>5. CASE a = x
      BY <2>2, <2>9, <2>10, <3>1, <3>2, <3>3, <3>4, <3>5
    <3>6. CASE a # x
      BY <2>2, <2>9, <3>1, <3>2, <3>3, <3>4, <3>6
    <3> QED BY <3>5, <3>6
  <2> HIDE DEF x
  <2>12. Branch(u, a, x)
    BY <2>3, <2>4, <2>5, <2>6, <2>8, <2>11 DEF Branch
  <2> QED BY <2>3, <2>5, <2>12 DEF l, h
<1>14. Branches(u, x)
  <2>1. ASSUME NEW a \in 1 .. n, Down(u, a) # 0
        PROVE  Down(t, a) # 0
    BY <1>1, <1>2, <2>1
  <2> HIDE DEF x
  <2> QED BY <1>2, <1>13, <2>1 DEF Branches
<1>15. Children(u, 1)
  <2>1. ASSUME NEW j \in 1 .. n
        PROVE  /\ Up(u, S(j)) = 0 <=> Position(u, S(j)) <= 1
               /\ Up(u, S(j)) # 0 => Child(u, S(j))
    <3>1. Up(t, j) = 0 <=> Position(t, j) <= 1
      BY <1>0 DEF Children, n
    <3>2. ASSUME Up(u, S(j)) # 0
          PROVE  Child(u, S(j))
      <4>1. Up(u, S(j)) = Up(t, j)
        BY <1>7
      <4>2. Child(t, j)
        BY <1>0, <3>2, <4>1 DEF Children, n
      <4>3. Up(t, j) \in 1 .. n /\ Down(t, Up(t, j)) # 0
            /\ (j = Down(t, Up(t, j)) \/ j = Higher(t, Up(t, j)))
        BY <4>2 DEF Child, n
      <4>4. Down(u, Up(t, j)) = S(Down(t, Up(t, j))) /\ Higher(u, Up(t, j)) = S(Higher(t, Up(t, j)))
        BY <1>13, <4>3
      <4>5. Down(u, Up(t, j)) # 0
        BY <1>1, <4>3, <4>4
      <4> QED BY <1>2, <4>1, <4>3, <4>4, <4>5 DEF Child
    <3> QED BY <1>7, <3>1, <3>2
  <2>2. ASSUME NEW j \in 1 .. n
        PROVE  /\ Up(u, j) = 0 <=> Position(u, j) <= 1
               /\ Up(u, j) # 0 => Child(u, j)
    BY <1>1, <2>1
  <2> QED BY <1>2, <2>2 DEF Children
<1>16. Valued(u)
  <2>1. \A j \in 1 .. n : Down(u, j) = 0 <=> Down(t, j) = 0
    BY <1>1, <1>2
  <2> QED BY <1>0, <1>2, <2>1 DEF Valued, n
<1>17. Filled(u, 1)
  BY <1>0, <1>2 DEF Filled, Known, n
<1>18. TreeInv(u, x, 1)
  <2> HIDE DEF x
  <2> QED BY <1>5, <1>8, <1>10, <1>14, <1>15, <1>16, <1>17 DEF TreeInv, Shape
<1>19. x \in 0 .. Size(u) /\ (x # 0 => Position(u, x) < Position(u, i))
  <2>1. CASE x = 0
    BY <1>0, <1>2, <2>1
  <2>2. CASE x # 0
    <3>1. x \in 1 .. Size(u) /\ Position(u, x) < Position(u, i)
      <4>1. i \in 1 .. Size(u) /\ Shape(u, x, 1)
        BY <1>0, <1>2, <1>18 DEF TreeInv
      <4> QED BY <1>2, <2>2, <4>1, ChildFacts
    <3> QED BY <1>0, <1>2, <3>1
  <2> QED BY <2>1, <2>2
<1> QED BY <1>18, <1>19

\* t1 is t with i heavier by one.
Heavier(t, t1, i) ==
    /\ t1 \in Tree /\ Size(t1) = Size(t) /\ t1.list = t.list /\ t1.byvalue = t.byvalue
    /\ \A j \in 1 .. Size(t) : /\ Value(t1, j) = Value(t, j)
                               /\ Weight(t1, j) = IF j = i THEN Weight(t, i) + 1 ELSE Weight(t, j)
                               /\ Up(t1, j) = Up(t, j)
                               /\ Down(t1, j) = Down(t, j)

\* The weight is counted first.
LEMMA Counted ==
    ASSUME NEW t \in Tree, NEW i \in 1 .. Size(t)
    PROVE  Heavier(t, [t EXCEPT !.items[i].weight = @ + 1], i)
<1> DEFINE n == Size(t)
           e == [t.items[i] EXCEPT !.weight = @ + 1]
           items == [t.items EXCEPT ![i] = e]
           t1 == [t EXCEPT !.items[i].weight = @ + 1]
<1>0. t.items \in Seq(Item) /\ Len(t.items) = n /\ i \in 1 .. Len(t.items)
  BY DEF Tree, Size
<1>1. e \in Item /\ e.value = t.items[i].value /\ e.weight = t.items[i].weight + 1
      /\ e.parent = t.items[i].parent /\ e.lo = t.items[i].lo
  <2>1. t.items[i] \in Item
    BY TreeFields
  <2> QED BY <2>1 DEF Item
<1>2. t1 = [t EXCEPT !.items = items]
  BY DEF Tree
<1> HIDE DEF e, t1
<1>3. items \in Seq(Item) /\ Len(items) = n
      /\ \A j \in 1 .. n : items[j] = IF j = i THEN e ELSE t.items[j]
  BY <1>0, <1>1, ExceptSeq
<1> HIDE DEF items
<1>4. t1 \in Tree /\ t1.items = items /\ t1.list = t.list /\ t1.byvalue = t.byvalue
  BY <1>2, <1>3 DEF Tree
<1>5. Size(t1) = n
  BY <1>3, <1>4 DEF Size
<1> QED BY <1>1, <1>3, <1>4, <1>5 DEF Heavier, Value, Weight, Up, Down, t1

\* FindHigherOrEqualItem leads to the lightest before the item.
LEMMA LightestFound ==
    ASSUME NEW t \in Tree, NEW i \in 1 .. Size(t), TreeInv(t, i, 1), NEW t1, Heavier(t, t1, i),
           NEW k, k = FindHigherOrEqualItem(t1, Position(t1, i) - 1, Weight(t1, i)),
           NEW c, c = At(t1, k + 1)
    PROVE  Lightest(t, i, c)
<1> DEFINE n == Size(t)
           q == Position(t, i)
           w == Weight(t, i)
<1>0. n \in Nat /\ Lined(t) /\ Falling(t) /\ t1 \in Tree /\ Size(t1) = n /\ t1.list = t.list
      /\ q \in 1 .. n /\ w \in Nat
  BY TreeFields, ItemFields DEF TreeInv, Shape, Heavier, Lined
<1>1. \A j : Position(t1, j) = Position(t, j) /\ At(t1, j) = At(t, j)
  BY <1>0 DEF Position, At
<1>2. Weight(t1, i) = w + 1 /\ \A j \in 1 .. n : j # i => Weight(t1, j) = Weight(t, j)
  BY DEF Heavier
<1>3. \A j \in 1 .. n : Weight(t, j) \in Nat /\ Position(t, j) \in 1 .. n /\ At(t, Position(t, j)) = j
  BY <1>0, ItemFields DEF Lined
<1> HIDE DEF n, q, w
<1>4. Found(t1, q - 1, w + 1, k)
  <2>1. Lined(t1)
    BY <1>0, <1>1 DEF Lined, n
  <2>2. q - 1 \in 0 .. Size(t1) /\ w + 1 \in Nat
    BY <1>0
  <2>3. k = FindHigherOrEqualItem(t1, q - 1, w + 1)
    BY <1>1, <1>2 DEF q
  <2> DEFINE q1 == q - 1
             w1 == w + 1
  <2>4. q1 \in 0 .. Size(t1) /\ w1 \in Nat /\ k = FindHigherOrEqualItem(t1, q1, w1)
    BY <2>2, <2>3
  <2> HIDE DEF q1, w1
  <2>5. Found(t1, q1, w1, k)
    BY <1>0, <2>1, <2>4, HigherOrEqual
  <2> QED BY <2>5 DEF q1, w1
<1>5. k \in 0 .. q - 1 /\ k + 1 \in 1 .. q /\ k + 1 \in 1 .. n
  BY <1>0, <1>4 DEF Found
<1>6. c \in 1 .. n /\ Position(t, c) = k + 1 /\ At(t, k + 1) = c
  BY <1>0, <1>1, <1>5 DEF Lined, n
<1>7. Weight(t, c) = w
  <2>1. CASE c = i
    BY <2>1 DEF w
  <2>2. CASE c # i
    <3>1. k + 1 # q
      BY <1>3, <1>6, <2>2 DEF q, n
    <3>2. k + 1 \in k + 1 .. q - 1
      BY <1>0, <1>5, <3>1
    <3>3. Weight(t1, c) < w + 1
      BY <1>1, <1>4, <1>6, <3>2 DEF Found
    <3>4. Weight(t, c) < w + 1
      BY <1>2, <1>6, <2>2, <3>3
    <3>5. Weight(t, c) >= w
      BY <1>0, <1>5, <1>6 DEF Falling, n, q, w
    <3> QED BY <1>0, <1>3, <1>6, <3>4, <3>5
  <2> QED BY <2>1, <2>2
<1>8. ASSUME NEW j \in 1 .. n, Position(t, j) < Position(t, c)
      PROVE  Weight(t, j) >= w + 1
  <2> DEFINE b == At(t, k)
  <2>1. Position(t, j) <= k /\ k \in 1 .. n /\ k # 0
    BY <1>0, <1>3, <1>5, <1>6, <1>8
  <2>2. b \in 1 .. n /\ Position(t, b) = k
    BY <1>0, <2>1 DEF Lined, n
  <2> HIDE DEF b
  <2>3. b # i
    BY <1>0, <1>5, <2>2 DEF q
  <2>4. Weight(t1, b) >= w + 1
    BY <1>1, <1>4, <2>1 DEF Found, b
  <2>5. Weight(t, j) >= Weight(t, b)
    BY <1>0, <2>1, <2>2 DEF Falling, n
  <2> QED BY <1>0, <1>2, <1>3, <2>2, <2>3, <2>4, <2>5
<1>9. Position(t, c) <= q
  BY <1>0, <1>5, <1>6
<1> QED BY <1>6, <1>7, <1>8, <1>9 DEF Lightest, n, q, w

\* Both have parents to exchange.
LEMMA BothHaveParents ==
    ASSUME NEW t \in Tree, NEW i \in 1 .. Size(t), TreeInv(t, i, 1), NEW c, Lightest(t, i, c), c # i
    PROVE  /\ Position(t, c) < Position(t, i)
           /\ Up(t, i) # 0
           /\ Up(t, c) # 0
<1> DEFINE n == Size(t)
<1>0. n \in Nat /\ Lined(t) /\ Falling(t) /\ Heavy(t, i) /\ Branches(t, i) /\ Children(t, 1)
      /\ c \in 1 .. n
  BY TreeFields DEF TreeInv, Shape, Lightest
<1>1. \A j \in 1 .. n : Weight(t, j) \in Nat /\ Position(t, j) \in 1 .. n /\ At(t, Position(t, j)) = j
  BY <1>0, ItemFields DEF Lined
<1>2. Position(t, c) <= Position(t, i) /\ Weight(t, c) = Weight(t, i)
  BY DEF Lightest
<1>3. Position(t, c) < Position(t, i)
  <2>1. Position(t, c) # Position(t, i)
    BY <1>0, <1>1
  <2> QED BY <1>0, <1>1, <1>2, <2>1
<1>4. Up(t, i) # 0
  <2>1. ~ Position(t, i) <= 1
    BY <1>0, <1>1, <1>3
  <2> QED BY <1>0, <2>1 DEF Children
<1>5. Up(t, c) # 0
  <2> SUFFICES ASSUME Up(t, c) = 0
               PROVE  FALSE
    OBVIOUS
  <2>1. Position(t, c) = 1
    <3>1. Position(t, c) <= 1
      BY <1>0 DEF Children
    <3> QED BY <1>0, <1>1, <3>1
  <2> DEFINE j == At(t, 2)
  <2>2. 2 \in 1 .. n /\ Position(t, i) >= 2
    BY <1>0, <1>1, <1>3, <2>1
  <2>3. j \in 1 .. n /\ Position(t, j) = 2
    BY <1>0, <2>2 DEF Lined
  <2> HIDE DEF j
  <2>4. Weight(t, j) >= Weight(t, i)
    BY <1>0, <2>2, <2>3 DEF Falling
  <2>5. Up(t, j) # 0
    BY <1>0, <2>3 DEF Children
  <2>6. /\ Up(t, j) \in 1 .. n /\ Branch(t, Up(t, j), i)
        /\ j = Down(t, Up(t, j)) \/ j = Higher(t, Up(t, j))
        /\ Position(t, Up(t, j)) < Position(t, j)
    BY <2>3, <2>5, ChildFacts DEF TreeInv
  <2>7. Position(t, Up(t, j)) = 1
    BY <1>1, <2>3, <2>6
  <2>8. Up(t, j) = c
    BY <1>0, <1>1, <2>1, <2>6, <2>7
  <2>9. \A b \in 1 .. n : Weight(t, b) >= 1
    BY <1>0, <1>1, <1>2 DEF Heavy
  <2>10. Weight(t, j) < Weight(t, c)
    BY <1>0, <2>6, <2>8, <2>9, ChildLighter
  <2> QED BY <1>0, <1>1, <1>2, <2>3, <2>4, <2>10
<1> QED BY <1>3, <1>4, <1>5

\* The two items change places in the list and in the tree.
LEMMA ExchangedItems ==
    ASSUME NEW t \in Tree, NEW i \in 1 .. Size(t), TreeInv(t, i, 1), NEW t1, Heavier(t, t1, i),
           NEW c, Lightest(t, i, c), c # i
    PROVE  Exchange(t, Exchanged(t1, i, c), i, c)
<1> DEFINE n == Size(t)
           ui == Up(t, i)
           uc == Up(t, c)
           u == Exchanged(t1, i, c)
           i1 == [t1.items EXCEPT ![ui].lo = IF t1.items[ui].lo = i THEN c ELSE t1.items[ui].lo]
           i2 == [i1 EXCEPT ![uc].lo = IF t1.items[uc].lo = c THEN i ELSE i1[uc].lo]
           i3 == [i2 EXCEPT ![i].parent = uc]
           i4 == [i3 EXCEPT ![c].parent = ui]
           list == [t.list EXCEPT ![Position(t, i)] = c, ![Position(t, c)] = i]
<1>0. /\ n \in Nat /\ i \in 1 .. n /\ c \in 1 .. n /\ c \in Nat /\ i \in Nat
      /\ Lined(t) /\ Branches(t, i) /\ Shape(t, i, 1)
  BY TreeFields DEF TreeInv, Shape, Lightest
<1>1. /\ t1 \in Tree /\ Size(t1) = n /\ t1.list = t.list /\ t1.byvalue = t.byvalue
      /\ \A j \in 1 .. n : /\ Value(t1, j) = Value(t, j)
                           /\ Weight(t1, j) = IF j = i THEN Weight(t, i) + 1 ELSE Weight(t, j)
                           /\ Up(t1, j) = Up(t, j)
                           /\ Down(t1, j) = Down(t, j)
  BY DEF Heavier
<1>2. Position(t, c) < Position(t, i) /\ ui # 0 /\ uc # 0
  BY <1>0, BothHaveParents
<1>3. /\ ui \in 1 .. n /\ uc \in 1 .. n /\ ui \in Nat /\ uc \in Nat
      /\ i = Down(t, ui) \/ i = Higher(t, ui)
      /\ Branch(t, ui, i)
  BY <1>0, <1>2, ChildFacts
<1>4. \A a \in 1 .. n : Down(t, a) # 0 => Down(t, a) \in 1 .. n /\ Up(t, Down(t, a)) = a
  BY <1>0 DEF Branches, Branch
<1>5. ui = uc => Down(t, uc) # c
  <2> SUFFICES ASSUME ui = uc, Down(t, uc) = c
               PROVE  FALSE
    OBVIOUS
  <2>1. i = Higher(t, ui)
    BY <1>3
  <2>2. Position(t, i) = Position(t, c) - 1
    BY <1>0, <1>3, <2>1, HigherFacts
  <2>3. Position(t, c) \in 1 .. n
    BY <1>0 DEF Lined
  <2> QED BY <1>0, <1>2, <2>2, <2>3
<1>6. u = [t1 EXCEPT !.items = i4, !.list = list, !.valid = t1.valid + 1]
  <2>1. t1.items[i].parent = ui /\ t1.items[c].parent = uc
    BY <1>0, <1>1 DEF Up
  <2>2. \A j : Position(t1, j) = Position(t, j)
    BY <1>1 DEF Position
  <2>3. t1.list = t.list
    BY <1>1
  <2> HIDE DEF ui, uc
  <2> DEFINE all == [i1 EXCEPT ![uc].lo = IF t1.items[uc].lo = c THEN i ELSE i1[uc].lo,
                               ![i].parent = uc, ![c].parent = ui]
             swapped == [t1.list EXCEPT ![Position(t1, i)] = c, ![Position(t1, c)] = i]
  <2>4. u = [t1 EXCEPT !.items = all, !.list = swapped, !.valid = t1.valid + 1]
    <3> DEFINE vi == t1.items[i].parent
               vc == t1.items[c].parent
               v1 == [t1.items EXCEPT ![vi].lo = IF t1.items[vi].lo = i THEN c ELSE t1.items[vi].lo]
               v4 == [v1 EXCEPT ![vc].lo = IF t1.items[vc].lo = c THEN i ELSE v1[vc].lo,
                                ![i].parent = vc, ![c].parent = vi]
    <3>1. u = [t1 EXCEPT !.items = v4, !.list = swapped, !.valid = t1.valid + 1]
      BY Zenon DEF Exchanged
    <3>2. vi = ui /\ vc = uc
      BY <2>1
    <3> HIDE DEF vi, vc, ui, uc
    <3>3. v1 = i1
      BY <3>2
    <3>4. v4 = all
      BY <3>2, <3>3
    <3> HIDE DEF v4, all, u, swapped
    <3> QED BY <3>1, <3>4
  <2>5. all = i4
    OBVIOUS
  <2>6. swapped = list
    BY <2>2, <2>3
  <2> HIDE DEF all, swapped, i4, list, u
  <2> QED BY <2>4, <2>5, <2>6
<1> HIDE DEF n, ui, uc, u
<1>7. t1.items \in Seq(Item) /\ Len(t1.items) = n /\ t1.list \in Seq(Nat) /\ Len(t1.list) = n
  BY <1>0, <1>1, TreeFields DEF Size, Lined, n
<1> DEFINE k1 == IF t1.items[ui].lo = i THEN c ELSE t1.items[ui].lo
           k2 == IF t1.items[uc].lo = c THEN i ELSE i1[uc].lo
<1>8. ChildIs(t1.items, i1, ui, k1)
  <2>1. k1 \in Nat
    <3>1. t1.items[ui].lo \in Nat
      BY <1>1, <1>3, ItemFields DEF Down
    <3> QED BY <1>0, <3>1
  <2>2. i1 = [t1.items EXCEPT ![ui].lo = k1]
    OBVIOUS
  <2> HIDE DEF k1, i1
  <2> QED BY <1>3, <1>7, <2>1, <2>2, ChildSet
<1> HIDE DEF i1
<1>9. ChildIs(i1, i2, uc, k2)
  <2>1. i1 \in Seq(Item) /\ uc \in 1 .. Len(i1)
    BY <1>3, <1>7, <1>8 DEF ChildIs
  <2>2. k2 \in Nat
    <3>1. i1[uc] \in Item
      BY <2>1, ElementOfSeq
    <3>2. i1[uc].lo \in Nat
      BY <3>1 DEF Item
    <3> QED BY <1>0, <3>2
  <2>3. i2 = [i1 EXCEPT ![uc].lo = k2]
    OBVIOUS
  <2> HIDE DEF k2, i2
  <2> QED BY <2>1, <2>2, <2>3, ChildSet
<1> HIDE DEF i2, k1, k2
<1>10. ParentIs(i2, i3, i, uc)
  BY <1>0, <1>3, <1>7, <1>8, <1>9, ParentSet DEF ChildIs
<1> HIDE DEF i3
<1>11. ParentIs(i3, i4, c, ui)
  <2>1. i3 \in Seq(Item) /\ c \in 1 .. Len(i3)
    BY <1>0, <1>7, <1>8, <1>9, <1>10 DEF ChildIs, ParentIs
  <2>2. i4 = [i3 EXCEPT ![c].parent = ui]
    OBVIOUS
  <2> HIDE DEF i4
  <2> QED BY <1>3, <2>1, <2>2, ParentSet
<1> HIDE DEF i4
<1>12. i4 \in Seq(Item) /\ Len(i4) = n
  BY <1>7, <1>8, <1>9, <1>10, <1>11 DEF ChildIs, ParentIs
<1>13. /\ list \in Seq(Nat) /\ Len(list) = n
       /\ \A p \in 1 .. n : list[p] = Swap(i, c, At(t, p))
  <2> DEFINE q == Position(t, i)
             m == Position(t, c)
             l1 == [t.list EXCEPT ![q] = c]
             l2 == [l1 EXCEPT ![m] = i]
  <2>1. q \in 1 .. n /\ m \in 1 .. n /\ q # m
        /\ \A p \in 1 .. n : (At(t, p) = i <=> p = q) /\ (At(t, p) = c <=> p = m)
    <3>1. /\ \A j \in 1 .. n : Position(t, j) \in 1 .. n /\ At(t, Position(t, j)) = j
          /\ \A p \in 1 .. n : Position(t, At(t, p)) = p
      BY <1>0 DEF Lined, n
    <3> HIDE DEF l1, l2, list
    <3>2. q \in 1 .. n /\ m \in 1 .. n /\ q # m /\ At(t, q) = i /\ At(t, m) = c
      BY <1>0, <1>2, <3>1
    <3> QED BY <3>1, <3>2
  <2>2. list = l2
    OBVIOUS
  <2> HIDE DEF q, m
  <2>3. l1 \in Seq(Nat) /\ Len(l1) = n /\ \A p \in 1 .. n : l1[p] = IF p = q THEN c ELSE t.list[p]
    BY <1>0, <1>1, <1>7, <2>1, ExceptSeq
  <2> HIDE DEF l1
  <2>4. l2 \in Seq(Nat) /\ Len(l2) = n /\ \A p \in 1 .. n : l2[p] = IF p = m THEN i ELSE l1[p]
    BY <1>0, <2>1, <2>3, ExceptSeq
  <2> HIDE DEF l2, list
  <2>5. ASSUME NEW p \in 1 .. n
        PROVE  l2[p] = Swap(i, c, At(t, p))
    <3>1. l2[p] = IF p = m THEN i ELSE IF p = q THEN c ELSE At(t, p)
      BY <2>3, <2>4 DEF At
    <3> QED BY <2>1, <3>1 DEF Swap
  <2> QED BY <2>2, <2>4, <2>5
<1> HIDE DEF list
<1>14. u \in Tree /\ u.items = i4 /\ u.list = list /\ u.byvalue = t.byvalue
  <2>1. t1 = [t1 EXCEPT !.valid = t1.valid] /\ t1.valid \in Nat
    BY <1>1 DEF Tree
  <2> DEFINE v == t1.valid + 1
  <2>2. v \in Nat
    BY <2>1
  <2> HIDE DEF v
  <2>3. u = [t1 EXCEPT !.items = i4, !.list = list, !.valid = v]
    BY <1>6 DEF v
  <2> QED BY <1>1, <1>12, <1>13, <2>2, <2>3 DEF Tree
<1>15. ASSUME NEW j \in 1 .. n
       PROVE  /\ i4[j].value = t1.items[j].value
              /\ i4[j].weight = t1.items[j].weight
              /\ i4[j].parent = IF j = c THEN ui ELSE IF j = i THEN uc ELSE t1.items[j].parent
              /\ i4[j].lo = IF j = uc THEN k2 ELSE i1[j].lo
              /\ i1[j].lo = IF j = ui THEN k1 ELSE t1.items[j].lo
  <2>1. /\ i1[j].value = t1.items[j].value /\ i1[j].weight = t1.items[j].weight
        /\ i1[j].parent = t1.items[j].parent
        /\ i1[j].lo = IF j = ui THEN k1 ELSE t1.items[j].lo
    BY <1>7, <1>8 DEF ChildIs
  <2>2. /\ i2[j].value = i1[j].value /\ i2[j].weight = i1[j].weight
        /\ i2[j].parent = i1[j].parent
        /\ i2[j].lo = IF j = uc THEN k2 ELSE i1[j].lo
    BY <1>7, <1>8, <1>9 DEF ChildIs
  <2>3. /\ i3[j].value = i2[j].value /\ i3[j].weight = i2[j].weight
        /\ i3[j].parent = IF j = i THEN uc ELSE i2[j].parent
        /\ i3[j].lo = i2[j].lo
    BY <1>7, <1>8, <1>9, <1>10 DEF ChildIs, ParentIs
  <2>4. /\ i4[j].value = i3[j].value /\ i4[j].weight = i3[j].weight
        /\ i4[j].parent = IF j = c THEN ui ELSE i3[j].parent
        /\ i4[j].lo = i3[j].lo
    BY <1>7, <1>8, <1>9, <1>10, <1>11 DEF ChildIs, ParentIs
  <2> QED BY <2>1, <2>2, <2>3, <2>4
<1>16. ASSUME NEW j \in 1 .. n
       PROVE  Up(u, j) = Up(t, Swap(i, c, j))
  <2>1. Up(u, j) = IF j = c THEN ui ELSE IF j = i THEN uc ELSE Up(t, j)
    BY <1>1, <1>14, <1>15 DEF Up
  <2> QED BY <2>1 DEF Swap, ui, uc
<1>17. ASSUME NEW j \in 1 .. n
       PROVE  Down(u, j) = Swap(i, c, Down(t, j))
  <2> DEFINE D == Down(t, j)
  <2>0. t1.items[j].lo = D /\ Down(u, j) = IF j = uc THEN k2 ELSE i1[j].lo
    BY <1>1, <1>14, <1>15 DEF Down
  <2>1. i1[j].lo = IF j = ui THEN IF D = i THEN c ELSE D ELSE D
    BY <1>15, <2>0 DEF k1
  <2>2. j = uc => k2 = IF D = c THEN i ELSE i1[j].lo
    BY <2>0 DEF k2
  <2>3. (D = i => j = ui) /\ (D = c => j = uc)
    BY <1>0, <1>4 DEF ui, uc
  <2>4. D = c => ui # uc
    BY <1>5, <2>3
  <2> HIDE DEF D
  <2>5. ASSUME D = i PROVE Down(u, j) = Swap(i, c, D)
    BY <2>0, <2>1, <2>2, <2>3, <2>5 DEF Swap
  <2>6. ASSUME D = c PROVE Down(u, j) = Swap(i, c, D)
    BY <2>0, <2>1, <2>2, <2>3, <2>4, <2>6 DEF Swap
  <2>7. ASSUME D # i, D # c PROVE Down(u, j) = Swap(i, c, D)
    BY <2>0, <2>1, <2>2, <2>7 DEF Swap
  <2>8. Down(u, j) = Swap(i, c, D)
    BY <2>5, <2>6, <2>7
  <2> QED BY <2>8 DEF D
<1>18. ASSUME NEW j \in 1 .. n
       PROVE  /\ Value(u, j) = Value(t, j)
              /\ Weight(u, j) = IF j = i THEN Weight(t, i) + 1 ELSE Weight(t, j)
  <2>1. Value(u, j) = Value(t1, j) /\ Weight(u, j) = Weight(t1, j)
    BY <1>14, <1>15 DEF Value, Weight
  <2> QED BY <1>1, <2>1
<1>19. Size(u) = n /\ Len(u.list) = n /\ \A p \in 1 .. n : At(u, p) = Swap(i, c, At(t, p))
  BY <1>12, <1>13, <1>14 DEF Size, At
<1> QED BY <1>14, <1>16, <1>17, <1>18, <1>19 DEF Exchange, n, u

\* One round of IncWeightsAndRebalance: the count is owed to the parent now.
LEMMA ClimbKept ==
    ASSUME NEW t \in Tree, NEW i \in 1 .. Size(t), TreeInv(t, i, 1)
    PROVE  LET u == IncWeight(t, i)
           IN  /\ u \in Tree
               /\ Up(u, i) \in 0 .. Size(u)
               /\ TreeInv(u, Up(u, i), 1)
               /\ Up(u, i) # 0 => Position(u, Up(u, i)) < Position(t, i)
<1> DEFINE t1 == [t EXCEPT !.items[i].weight = @ + 1]
           k == FindHigherOrEqualItem(t1, Position(t1, i) - 1, t1.items[i].weight)
           c == t1.list[k + 1]
           u == IF c = i THEN t1 ELSE Exchanged(t1, i, c)
<1>1. IncWeight(t, i) = u
  BY Zenon DEF IncWeight, MovedUp
<1>2. Heavier(t, t1, i)
  BY Counted
<1> HIDE DEF t1
<1>3. k = FindHigherOrEqualItem(t1, Position(t1, i) - 1, Weight(t1, i)) /\ c = At(t1, k + 1)
  BY DEF Weight, At
<1> HIDE DEF k, c
<1>4. Lightest(t, i, c)
  BY <1>2, <1>3, LightestFound
<1>5. Exchange(t, u, i, c)
  <2>1. CASE c = i
    <3>1. u = t1
      BY <2>1
    <3>2. \A j : Swap(i, c, j) = j
      BY <2>1 DEF Swap
    <3>3. Len(t1.list) = Size(t) /\ \A p \in 1 .. Size(t) : At(t1, p) = At(t, p)
      BY <1>2 DEF Heavier, At, TreeInv, Shape, Lined
    <3> HIDE DEF u
    <3> QED BY <1>2, <3>1, <3>2, <3>3 DEF Exchange, Heavier
  <2>2. CASE c # i
    BY <1>2, <1>4, <2>2, ExchangedItems
  <2> QED BY <2>1, <2>2
<1> HIDE DEF u
<1>6. u \in Tree
  BY <1>5 DEF Exchange
<1>7. /\ TreeInv(u, Up(u, i), 1)
      /\ Up(u, i) \in 0 .. Size(u)
      /\ Up(u, i) # 0 => Position(u, Up(u, i)) < Position(u, i)
  BY <1>4, <1>5, ExchangeKept
<1>8. Position(u, i) <= Position(t, i) /\ Position(u, i) \in Nat /\ Position(t, i) \in Nat
  <2>1. Lined(t) /\ Lined(u) /\ Size(u) = Size(t) /\ Size(t) \in Nat
    BY <1>5, <1>7, TreeFields DEF TreeInv, Shape, Exchange
  <2> DEFINE p == Position(t, c)
  <2>2. c \in 1 .. Size(t) /\ p <= Position(t, i)
    BY <1>4 DEF Lightest
  <2>3. p \in 1 .. Size(t) /\ At(t, p) = c /\ Position(t, i) \in 1 .. Size(t)
    BY <2>1, <2>2 DEF Lined
  <2> HIDE DEF p
  <2>4. At(u, p) = i
    BY <1>5, <2>3 DEF Exchange, Swap
  <2>5. Position(u, i) = p
    BY <2>1, <2>3, <2>4 DEF Lined
  <2> QED BY <2>1, <2>2, <2>3, <2>5
<1>9. Up(u, i) # 0 => Position(u, Up(u, i)) \in Nat
  <2>1. Lined(u) /\ Size(u) \in Nat
    BY <1>6, <1>7, TreeFields DEF TreeInv, Shape
  <2> QED BY <1>7, <2>1 DEF Lined
<1> QED BY <1>1, <1>6, <1>7, <1>8, <1>9

-----------------------------------------------------------------------------
(* The program. *)

\* A tree without items.
LEMMA NothingListed == NoTree \in Tree /\ TreeInv(NoTree, 0, 0) /\ Size(NoTree) = 0
<1> DEFINE t == NoTree
<1>1. t.items = <<>> /\ t.list = <<>> /\ t.valid = 1
      /\ t.byvalue = [v \in Values |-> 0]
  BY DEF NoTree
<1>2. t \in Tree
  <2>1. <<>> \in Seq(Item) /\ <<>> \in Seq(Nat)
    OBVIOUS
  <2>2. [v \in Values |-> 0] \in [Values -> Nat]
    OBVIOUS
  <2> DEFINE none == [v \in Values |-> 0]
  <2> HIDE DEF none
  <2>3. t = [items |-> <<>>, list |-> <<>>, byvalue |-> none, valid |-> 1]
    BY DEF NoTree, none
  <2>4. none \in [Values -> Nat]
    BY <2>2 DEF none
  <2> HIDE DEF t
  <2> QED BY <2>1, <2>3, <2>4 DEF Tree
<1> HIDE DEF t
<1>3. Size(t) = 0 /\ 1 .. Size(t) = {} /\ Len(t.list) = 0
  BY <1>1 DEF Size
<1>4. Shape(t, 0, 0)
  BY <1>3 DEF Shape, Lined, Falling, Heavy, Branches, Children
<1>5. \A v \in Values : t.byvalue[v] = 0
  BY <1>1
<1>6. Valued(t)
  BY <1>3, <1>5 DEF Valued
<1>7. Filled(t, 0)
  <2>1. Known(t) = {}
    BY <1>5 DEF Known
  <2>2. Cardinality(Known(t)) = 0
    BY <2>1, FS_EmptySet
  <2> QED BY <1>3, <2>2 DEF Filled
<1> QED BY <1>2, <1>3, <1>4, <1>6, <1>7 DEF TreeInv, t

\* What the marks and bytes are.
LEMMA ValuesApart ==
    /\ Bytes \subseteq Nat /\ Bytes \subseteq Values
    /\ ENDMARK \in Values /\ NEWBYTE \in Values
    /\ \A b \in Bytes : b # ENDMARK /\ b # NEWBYTE
BY BytesAssumption DEF Values, ENDMARK, NEWBYTE

\* HuffmanInit has no item.
LEMMA HuffmanStarts == HuffmanInit => HuffmanInv
<1> SUFFICES ASSUME HuffmanInit
             PROVE  HuffmanInv
  OBVIOUS
<1>1. tree = NoTree /\ item = 0 /\ todo = <<>> /\ phase = "leaves" /\ type \in DOMAIN Weights
      /\ unlisted = {b \in Bytes : Weights[type][b] # 0}
  BY DEF HuffmanInit
<1>2. \A v \in Values : tree.byvalue[v] = 0
  BY <1>1 DEF NoTree
<1>3. LeavesInv
  <2>1. TreeInv(tree, 0, Size(tree))
    BY <1>1, NothingListed
  <2>2. \A v \in unlisted \cup {ENDMARK, NEWBYTE} : tree.byvalue[v] = 0
    BY <1>1, <1>2, ValuesApart
  <2> QED BY <1>1, <2>1, <2>2 DEF LeavesInv
<1> QED BY <1>1, <1>3, NothingListed DEF HuffmanInv

\* A leaf of the table.
LEMMA LeafStep == HuffmanInv /\ Leaf => HuffmanInv'
<1> SUFFICES ASSUME HuffmanInv, Leaf
             PROVE  HuffmanInv'
  OBVIOUS
<1> DEFINE b == Min(unlisted)
<1>1. /\ type \in DOMAIN Weights /\ tree \in Tree /\ LeavesInv
      /\ unlisted \subseteq Nat /\ unlisted # {} /\ unlisted \subseteq Bytes
  BY ValuesApart DEF HuffmanInv, LeavesInv, Leaf
<1>2. b \in unlisted
  BY <1>1, LeastElement
<1>3. /\ tree' = InsertByte(tree, b, Weights[type][b]) /\ unlisted' = unlisted \ {b}
      /\ type' = type /\ phase' = phase /\ item' = item /\ todo' = todo /\ phase = "leaves"
  BY DEF Leaf
<1> HIDE DEF b
<1>4. Weights[type][b] \in Nat \ {0}
  BY <1>1, <1>2, HuffmanAssumption DEF LeavesInv
<1>5. /\ tree' \in Tree /\ TreeInv(tree', 0, Size(tree'))
      /\ \A v \in Values : v # b => tree'.byvalue[v] = tree.byvalue[v]
  BY <1>1, <1>2, <1>3, <1>4, ByteKept DEF LeavesInv
<1>6. \A v \in unlisted' \cup {ENDMARK, NEWBYTE} : tree'.byvalue[v] = 0
  BY <1>1, <1>2, <1>3, <1>5, ValuesApart DEF LeavesInv
<1>7. LeavesInv'
  BY <1>1, <1>3, <1>5, <1>6 DEF LeavesInv, TreeInv, Shape, Lined, Falling, Heavy, Branches,
     Children, Valued, Filled
<1> QED BY <1>1, <1>3, <1>5, <1>7 DEF HuffmanInv

\* The two marks.
LEMMA MarksStep == HuffmanInv /\ Marks => HuffmanInv'
<1> SUFFICES ASSUME HuffmanInv, Marks
             PROVE  HuffmanInv'
  OBVIOUS
<1>1. /\ type \in DOMAIN Weights /\ tree \in Tree /\ LeavesInv
  BY DEF HuffmanInv, Marks
<1>2. /\ tree' = InsertMarks(tree) /\ lo' = Last(tree'.list) /\ phase' = "pairs"
      /\ type' = type /\ item' = item /\ todo' = todo
  BY DEF Marks
<1>3. tree' \in Tree /\ TreeInv(tree', 0, Size(tree')) /\ Size(tree') # 0
  BY <1>1, <1>2, MarksKept DEF LeavesInv
<1>4. lo' \in 1 .. Size(tree') /\ Position(tree', lo') = Size(tree')
  BY <1>2, <1>3, LastItem DEF TreeInv, Shape
<1>5. PairsInv'
  BY <1>1, <1>2, <1>3, <1>4 DEF PairsInv, LeavesInv
<1> QED BY <1>1, <1>2, <1>3, <1>5 DEF HuffmanInv, LeavesInv

\* Two items get a parent, or the one that is left is the root.
LEMMA PairStep == HuffmanInv /\ PairUp => HuffmanInv'
<1> SUFFICES ASSUME HuffmanInv, PairUp
             PROVE  HuffmanInv'
  OBVIOUS
<1> DEFINE hi == Prev(tree, lo)
<1>1. /\ type \in DOMAIN Weights /\ tree \in Tree /\ PairsInv /\ phase = "pairs"
  BY DEF HuffmanInv, PairUp
<1>2. /\ lo \in 1 .. Size(tree) /\ TreeInv(tree, 0, Position(tree, lo)) /\ Lined(tree)
      /\ item = 0 /\ todo = <<>>
  BY <1>1 DEF PairsInv, TreeInv, Shape
<1>3. /\ type' = type /\ item' = item /\ todo' = todo
      /\ hi # 0 => tree' = Pair(tree, lo, hi) /\ lo' = Prev(tree', hi) /\ phase' = phase
      /\ hi = 0 => phase' = "coding" /\ tree' = tree /\ lo' = lo
  BY DEF PairUp
<1>4. CASE hi # 0
  <2> HIDE DEF hi
  <2>1. hi = Prev(tree, lo)
    BY DEF hi
  <2>2. LET u == Pair(tree, lo, hi)
        IN  /\ u \in Tree
            /\ Prev(u, hi) \in 1 .. Size(u)
            /\ TreeInv(u, 0, Position(u, Prev(u, hi)))
    BY <1>1, <1>2, <1>4, <2>1, PairKept
  <2>3. PairsInv'
    BY <1>2, <1>3, <1>4, <2>2 DEF PairsInv
  <2> QED BY <1>1, <1>2, <1>3, <1>4, <2>2, <2>3 DEF HuffmanInv
<1>5. CASE hi = 0
  <2>1. Position(tree, lo) = 1
    BY <1>1, <1>2, <1>5, PrevFacts
  <2>2. Size(tree) \in Nat
    BY <1>1, TreeFields
  <2>3. CodingInv'
    BY <1>2, <1>3, <1>5, <2>1, <2>2 DEF CodingInv
  <2> QED BY <1>1, <1>2, <1>3, <1>5, <2>3 DEF HuffmanInv
<1> QED BY <1>4, <1>5

\* A new value branches the last leaf.
LEMMA NewStep == ASSUME NEW b \in Bytes PROVE HuffmanInv /\ NewValue(b) => HuffmanInv'
<1> SUFFICES ASSUME HuffmanInv, NewValue(b)
             PROVE  HuffmanInv'
  OBVIOUS
<1>1. /\ type \in DOMAIN Weights /\ tree \in Tree /\ CodingInv /\ phase = "coding" /\ item = 0
      /\ tree.byvalue[b] = 0 /\ b \in Values
  BY ValuesApart DEF HuffmanInv, NewValue, Ready
<1>2. /\ tree' = InsertBranch(tree, b) /\ item' = tree'.byvalue[b] /\ todo' = <<b>>
      /\ type' = type /\ phase' = phase
  BY DEF NewValue
<1>3. LET u == InsertBranch(tree, b)
      IN  /\ u \in Tree
          /\ u.byvalue[b] \in 1 .. Size(u)
          /\ TreeInv(u, u.byvalue[b], 1)
  BY <1>1, BranchKept DEF CodingInv
<1>4. tree' \in Tree /\ item' \in 1 .. Size(tree') /\ TreeInv(tree', item', 1)
  BY <1>2, <1>3
<1>5. item' \in 0 .. Size(tree')
  BY <1>4, TreeFields
<1>6. CodingInv'
  BY <1>4, <1>5 DEF CodingInv
<1> QED BY <1>1, <1>2, <1>4, <1>6 DEF HuffmanInv

\* A known value leaves the tree alone.
LEMMA KnownStep == ASSUME NEW b \in Bytes PROVE HuffmanInv /\ KnownValue(b) => HuffmanInv'
<1> SUFFICES ASSUME HuffmanInv, KnownValue(b)
             PROVE  HuffmanInv'
  OBVIOUS
<1>1. /\ type' = type /\ phase' = phase /\ tree' = tree /\ item' = item /\ phase = "coding"
      /\ todo' = <<b>> \/ todo' = <<>>
  BY DEF KnownValue, Ready
<1>2. CodingInv'
  BY <1>1 DEF HuffmanInv, CodingInv
<1> QED BY <1>1, <1>2 DEF HuffmanInv

\* A leaf may be the item that is about to get heavier.
LEMMA LeafOwed ==
    ASSUME NEW t \in Tree, TreeInv(t, 0, 1), NEW x, x # 0 => Down(t, x) = 0
    PROVE  TreeInv(t, x, 1)
<1>1. Heavy(t, x)
  <2>1. \A i \in 1 .. Size(t) : i # 0
    BY TreeFields
  <2>2. Heavy(t, 0)
    BY DEF TreeInv, Shape
  <2> QED BY <2>1, <2>2 DEF Heavy
<1>2. Branches(t, x)
  <2> SUFFICES ASSUME NEW a \in 1 .. Size(t), Down(t, a) # 0
               PROVE  Branch(t, a, x)
    BY DEF Branches
  <2>1. a # 0 /\ a # x
    BY TreeFields
  <2>2. Branch(t, a, 0)
    BY DEF TreeInv, Shape, Branches
  <2> QED BY <2>1, <2>2 DEF Branch
<1> QED BY <1>1, <1>2 DEF TreeInv, Shape

\* IncWeightsAndRebalance begins at the leaf of a value.
LEMMA CountNextStep == HuffmanInv /\ CountNext => HuffmanInv'
<1> SUFFICES ASSUME HuffmanInv, CountNext
             PROVE  HuffmanInv'
  OBVIOUS
<1>1. todo # <<>> /\ item = 0 /\ phase = "coding"
  BY DEF HuffmanInv, CountNext, LeavesInv, PairsInv
<1>2. PICK b \in Bytes : todo = <<b>>
  BY <1>1 DEF HuffmanInv
<1>3. type \in DOMAIN Weights /\ tree \in Tree /\ TreeInv(tree, 0, 1) /\ b \in Values
  BY <1>1, ValuesApart DEF HuffmanInv, CodingInv
<1>4. /\ item' = tree.byvalue[b] /\ todo' = <<>>
      /\ type' = type /\ phase' = phase /\ tree' = tree
  BY <1>2 DEF CountNext
<1>5. item' # 0 => item' \in 1 .. Size(tree) /\ Down(tree, item') = 0
  BY <1>3, <1>4 DEF TreeInv, Valued
<1>6. TreeInv(tree, item', 1)
  BY <1>3, <1>5, LeafOwed
<1>7. item' \in 0 .. Size(tree)
  BY <1>3, <1>5, TreeFields
<1>8. CodingInv'
  BY <1>4, <1>6, <1>7 DEF CodingInv
<1> QED BY <1>1, <1>3, <1>4, <1>8 DEF HuffmanInv

\* A round of it leads upwards.
LEMMA ClimbStep ==
    HuffmanInv /\ Climb =>
      /\ HuffmanInv'
      /\ item' # 0 => Position(tree', item') < Position(tree, item)
<1> SUFFICES ASSUME HuffmanInv, Climb
             PROVE  /\ HuffmanInv'
                    /\ item' # 0 => Position(tree', item') < Position(tree, item)
  OBVIOUS
<1>1. item # 0 /\ phase = "coding"
  BY DEF HuffmanInv, Climb, LeavesInv, PairsInv
<1>2. /\ type \in DOMAIN Weights /\ tree \in Tree /\ item \in 1 .. Size(tree)
      /\ TreeInv(tree, item, 1)
      /\ todo = <<>> \/ \E b \in Bytes : todo = <<b>>
  <2>1. item \in 0 .. Size(tree) /\ tree \in Tree
    BY <1>1 DEF HuffmanInv, CodingInv
  <2>2. item \in 1 .. Size(tree)
    BY <1>1, <2>1, TreeFields
  <2> QED BY <1>1, <2>1, <2>2 DEF HuffmanInv, CodingInv
<1>3. /\ tree' = IncWeight(tree, item) /\ item' = Up(tree', item)
      /\ type' = type /\ phase' = phase /\ todo' = todo
  BY DEF Climb, Up
<1>4. LET u == IncWeight(tree, item)
      IN  /\ u \in Tree
          /\ Up(u, item) \in 0 .. Size(u)
          /\ TreeInv(u, Up(u, item), 1)
          /\ Up(u, item) # 0 => Position(u, Up(u, item)) < Position(tree, item)
  BY <1>2, ClimbKept
<1>5. /\ tree' \in Tree /\ item' \in 0 .. Size(tree') /\ TreeInv(tree', item', 1)
      /\ item' # 0 => Position(tree', item') < Position(tree, item)
  BY <1>3, <1>4
<1>6. CodingInv'
  BY <1>5 DEF CodingInv
<1> QED BY <1>1, <1>2, <1>3, <1>5, <1>6 DEF HuffmanInv

\* Every step of the program keeps the tree.
LEMMA HuffmanKept == HuffmanInv /\ [HuffmanNext]_huffmanVars => HuffmanInv'
<1> SUFFICES ASSUME HuffmanInv, [HuffmanNext]_huffmanVars
             PROVE  HuffmanInv'
  OBVIOUS
<1>1. CASE Leaf
  BY <1>1, LeafStep
<1>2. CASE Marks
  BY <1>2, MarksStep
<1>3. CASE PairUp
  BY <1>3, PairStep
<1>4. ASSUME NEW b \in Bytes, NewValue(b)
      PROVE  HuffmanInv'
  BY <1>4, NewStep
<1>5. ASSUME NEW b \in Bytes, KnownValue(b)
      PROVE  HuffmanInv'
  BY <1>5, KnownStep
<1>6. CASE CountNext
  BY <1>6, CountNextStep
<1>7. CASE Climb
  BY <1>7, ClimbStep
<1>8. CASE UNCHANGED huffmanVars
  BY <1>8 DEF huffmanVars, HuffmanInv, LeavesInv, PairsInv, CodingInv
<1> QED BY <1>1, <1>2, <1>3, <1>4, <1>5, <1>6, <1>7, <1>8 DEF HuffmanNext

\* Whatever the weights of the table and the data are, the tree of huff.cpp
\* keeps its shape from the leaves of the table on.
THEOREM HuffmanInvariant == HuffmanSpec => []HuffmanInv
<1>1. HuffmanInit => HuffmanInv
  BY HuffmanStarts
<1>2. HuffmanInv /\ [HuffmanNext]_huffmanVars => HuffmanInv'
  BY HuffmanKept
<1> QED BY <1>1, <1>2, PTL DEF HuffmanSpec

\* The tree as huff.cpp relies on it when a byte is coded.
LEMMA InvSound == HuffmanInv => TreeSound
<1> SUFFICES ASSUME HuffmanInv, phase = "coding", item = 0
             PROVE  TreeSound
  BY DEF TreeSound
<1> DEFINE n == Size(tree)
<1>1. /\ tree \in Tree /\ Lined(tree) /\ Falling(tree) /\ Branches(tree, 0) /\ Children(tree, 1)
      /\ Valued(tree) /\ Filled(tree, 1) /\ Shape(tree, 0, 1)
  BY DEF HuffmanInv, CodingInv, TreeInv, Shape
<1>2. /\ n \in Nat /\ Len(tree.list) = n /\ DOMAIN tree.items = 1 .. n
      /\ tree.byvalue \in [Values -> Nat]
  BY <1>1, TreeFields DEF Lined
<1>3. n # 0 /\ n <= 2 * (Cardinality(Bytes) + 2) - 1
  <2> DEFINE K == Cardinality(Known(tree))
  <2>1. IsFiniteSet(Bytes)
    <3>1. IsFiniteSet(0 .. 255)
      <4>1. 0 \in Int /\ 255 \in Int
        OBVIOUS
      <4> QED BY <4>1, FS_Interval, Zenon
    <3> QED BY <3>1, BytesAssumption, FS_Subset
  <2>2. IsFiniteSet(Values) /\ Cardinality(Values) <= Cardinality(Bytes) + 2
        /\ Cardinality(Bytes) \in Nat
    <3> DEFINE B1 == Bytes \cup {ENDMARK}
    <3>1. Cardinality(Bytes) \in Nat
      BY <2>1, FS_CardinalityType
    <3>2. IsFiniteSet(B1) /\ Cardinality(B1) <= Cardinality(Bytes) + 1 /\ Cardinality(B1) \in Nat
      <4>1. IsFiniteSet(B1) /\ Cardinality(B1) = IF ENDMARK \in Bytes THEN Cardinality(Bytes)
                                                 ELSE Cardinality(Bytes) + 1
        BY <2>1, FS_AddElement
      <4> QED BY <3>1, <4>1
    <3> HIDE DEF B1
    <3> DEFINE B2 == B1 \cup {NEWBYTE}
    <3>3. IsFiniteSet(B2) /\ Cardinality(B2) <= Cardinality(B1) + 1 /\ Cardinality(B2) \in Nat
      <4>1. IsFiniteSet(B2) /\ Cardinality(B2) = IF NEWBYTE \in B1 THEN Cardinality(B1)
                                                 ELSE Cardinality(B1) + 1
        BY <3>2, FS_AddElement
      <4> QED BY <3>2, <4>1
    <3>4. B2 = Values
      BY DEF B1, Values
    <3> HIDE DEF B2
    <3> QED BY <3>1, <3>2, <3>3, <3>4
  <2>3. Known(tree) \subseteq Values
    BY DEF Known
  <2>4. K <= Cardinality(Values) /\ K \in Nat /\ Cardinality(Values) \in Nat
    BY <2>2, <2>3, FS_Subset, FS_CardinalityType
  <2>5. n + 1 = 2 * K
    BY <1>1 DEF Filled
  <2> HIDE DEF K, n
  <2> QED BY <1>2, <2>2, <2>4, <2>5
<1>4. \A j \in 1 .. n : Position(tree, j) \in 1 .. n /\ At(tree, Position(tree, j)) = j
  BY <1>1 DEF Lined
<1>5. \A p \in 1 .. n : At(tree, p) \in 1 .. n /\ Position(tree, At(tree, p)) = p
  BY <1>1 DEF Lined
<1>6. tree.items[tree.list[1]].parent = 0
  <2>1. 1 \in 1 .. n
    BY <1>2, <1>3
  <2>2. Up(tree, At(tree, 1)) = 0
    BY <1>1, <1>5, <2>1 DEF Children
  <2> QED BY <2>2 DEF Up, At
<1>7. \A p \in 2 .. n : Weight(tree, tree.list[p]) <= Weight(tree, tree.list[p - 1])
  <2> SUFFICES ASSUME NEW p \in 2 .. n
               PROVE  Weight(tree, At(tree, p)) <= Weight(tree, At(tree, p - 1))
    BY DEF At
  <2> DEFINE q == p - 1
             a == At(tree, p)
             b == At(tree, q)
  <2>1. p \in 1 .. n /\ q \in 1 .. n /\ q <= p
    BY <1>2
  <2>2. a \in 1 .. n /\ b \in 1 .. n /\ Position(tree, a) = p /\ Position(tree, b) = q
    BY <1>5, <2>1
  <2> HIDE DEF a, b
  <2>3. Weight(tree, b) >= Weight(tree, a)
    BY <1>1, <2>1, <2>2 DEF Falling
  <2>4. Weight(tree, a) \in Nat /\ Weight(tree, b) \in Nat
    BY <1>1, <2>2, ItemFields
  <2> QED BY <2>3, <2>4 DEF a, b
<1>8. ASSUME NEW i \in 1 .. n, Down(tree, i) # 0
      PROVE  LET l == Down(tree, i)
                 hi == Prev(tree, l)
             IN  /\ hi # 0 /\ Up(tree, l) = i /\ Up(tree, hi) = i
                 /\ Position(tree, i) < Position(tree, hi)
                 /\ Weight(tree, i) = Weight(tree, l) + Weight(tree, hi)
  <2> DEFINE l == Down(tree, i)
             hi == Prev(tree, l)
  <2>1. Branch(tree, i, 0)
    BY <1>1, <1>8 DEF Branches
  <2>2. l \in 1 .. n /\ Position(tree, l) >= 2
    BY <2>1 DEF Branch
  <2>3. hi = Higher(tree, i)
    <3>1. Position(tree, l) # 1
      BY <1>4, <2>2
    <3> QED BY <3>1 DEF Prev, Higher, At
  <2>4. hi # 0
    <3>1. Position(tree, l) # 1
      BY <1>4, <2>2
    <3> HIDE DEF l
    <3> QED BY <1>1, <2>2, <3>1, PrevFacts
  <2>5. Weight(tree, i) \in Nat /\ i # 0
    BY <1>1, <1>2, ItemFields
  <2>6. Weight(tree, i) = Weight(tree, l) + Weight(tree, hi)
    BY <2>1, <2>3, <2>5 DEF Branch
  <2> QED BY <2>1, <2>3, <2>4, <2>6 DEF Branch
<1>9. \A b \in Values : tree.byvalue[b] # 0 =>
        tree.items[tree.byvalue[b]].lo = 0 /\ tree.items[tree.byvalue[b]].value = b
  BY <1>1 DEF Valued, Down, Value
<1>10. tree.items[Last(tree.list)].lo = 0
  <2>1. Last(tree.list) \in 1 .. n /\ Position(tree, Last(tree.list)) = n
    BY <1>1, <1>3, LastItem
  <2>2. Down(tree, Last(tree.list)) = 0
    BY <1>1, <2>1, LastIsLeaf
  <2> QED BY <2>2 DEF Down
<1>11. \A i \in DOMAIN tree.items : tree.items[i].lo # 0 =>
             LET l == tree.items[i].lo
                 hi == Prev(tree, l)
             IN  /\ hi # 0 /\ tree.items[l].parent = i /\ tree.items[hi].parent = i
                 /\ Position(tree, i) < Position(tree, hi)
                 /\ tree.items[i].weight = tree.items[l].weight + tree.items[hi].weight
  BY <1>2, <1>8 DEF Down, Up, Weight
<1>12. \A p \in 2 .. Len(tree.list) :
          tree.items[tree.list[p]].weight <= tree.items[tree.list[p - 1]].weight
  BY <1>2, <1>7 DEF Weight
<1>13. DOMAIN tree.byvalue = Values /\ Len(tree.items) = n
  BY <1>2 DEF Size
<1> QED BY <1>3, <1>6, <1>9, <1>10, <1>11, <1>12, <1>13 DEF TreeSound

\* TreeSound, for every table of weights and all data: when a byte is coded
\* the first item of the list is the root, the siblings are neighbours, no
\* leaf is lost and no item is created that ItemBuffer has no room for.
THEOREM TreeStaysSound == HuffmanSpec => []TreeSound
<1>1. HuffmanInv => TreeSound
  BY InvSound
<1> QED BY <1>1, HuffmanInvariant, PTL

\* Every round of IncWeightsAndRebalance continues nearer to the head of the
\* list: its loop, which has no other bound, ends at the root.
THEOREM ClimbingEnds ==
    HuffmanSpec => [][Climb /\ item' # 0 =>
                        Position(tree', item') < Position(tree, item)]_huffmanVars
<1>1. HuffmanInv /\ [HuffmanNext]_huffmanVars
        => [Climb /\ item' # 0 => Position(tree', item') < Position(tree, item)]_huffmanVars
  BY ClimbStep
<1> QED BY <1>1, HuffmanInvariant, PTL DEF HuffmanSpec
=============================================================================
