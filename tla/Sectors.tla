------------------------------ MODULE Sectors ------------------------------
(***************************************************************************)
(* How a file lies in an archive: PackFile writes it in sectors behind a   *)
(* table of their offsets, and ExtractFile reads it, as it reads files of  *)
(* the editor's archives in every form the flags allow.                    *)
(*                                                                         *)
(* The data of sector i is i itself.  A piece is a run of bytes: what it   *)
(* holds, whether it is packed, and the key it is encrypted with.  Sizes   *)
(* are below 2^24, where the float arithmetic of both functions is exact:  *)
(* Readme.md speaks of maps of 8 MB.                                       *)
(***************************************************************************)
EXTENDS Integers, Sequences, FiniteSets

CONSTANTS
    Block,      \* globals.blockSize, and sectorSize of the archive read
    MaxSize,    \* bound: the largest file
    BaseKey     \* hash(GetFileName(path), TableKey)

ASSUME SectorsAssumption ==
    /\ Block \in Nat \ {0, 1}
    /\ MaxSize \in Nat
    /\ BaseKey \in Nat \ {0}

VARIABLES
    size,       \* bte->normalSize, contentSize
    flags,      \* bte->flags, as the names of those that matter
    writer,     \* "PackFile" or "editor"
    pc,
    table,      \* the offsets in front of the file (out)
    tableKey,   \*   the key they are encrypted with
    pieces,     \* the bytes of the file behind the table (out)
    sizes,      \* PackFile: sectorOffsetTable from entry 1 on,
    written,    \*   the bytes counted,
    outpos,     \*   where the next sector goes,
    acc,        \*   and the running sum of sectorOffsetTable
    content     \* what ExtractFile has put into file so far

fileVars == <<size, flags, writer>>
imageVars == <<table, tableKey, pieces>>
packVars == <<sizes, written, outpos, acc>>
vars == <<fileVars, imageVars, packVars, pc, content>>

Plain == 0                        \* not encrypted

Garbage == -1                     \* data that are not those of a sector

NumSectors == (size + Block - 1) \div Block

\* The bytes of sector i of the content.
SectorLen(i) == IF i * Block > size THEN size % Block ELSE Block

TableSize == 4 * (1 + NumSectors)

Packed == {"compressed"} \subseteq flags
SingleUnit == {"single unit"} \subseteq flags
Encrypted == {"encrypted"} \subseteq flags

Piece(pos, len, form, data, key) ==
    [pos |-> pos, len |-> len, form |-> form, data |-> data, key |-> key]

Init ==
    /\ size \in 0 .. MaxSize
    /\ writer \in {"PackFile", "editor"}
    /\ flags \in SUBSET {"single unit", "compressed", "encrypted"}
    /\ writer = "PackFile" => flags = {"compressed"}
    /\ pc = IF writer = "PackFile" THEN "pack" ELSE "edit"
    /\ table = <<>>
    /\ tableKey = Plain
    /\ pieces = <<>>
    /\ sizes = <<>>
    /\ written = 0
    /\ outpos = 0
    /\ acc = 0
    /\ content = <<>>

-----------------------------------------------------------------------------
(* PackFile. *)

\* A sector takes n bytes of out; the size noted for it is another matter.
Put(form, n, noted) ==
    /\ pieces' = Append(pieces, Piece(outpos, n, form, Len(pieces) + 1, Plain))
    /\ sizes' = Append(sizes, noted)
    /\ written' = written + n
    /\ outpos' = outpos + n

Stored == SectorLen(Len(pieces) + 1)

PackAnySmaller(z) ==              \* mutant: without zopfli_outsize <= blockSize - 2
    \/ z < Stored /\ Put("packed", 1 + z, 1 + z)
    \/ z >= Stored /\ Put("stored", Stored, Stored)

PackCounted(z) ==                 \* mutant: a method byte for stored sectors too
    \/ z < Stored /\ z <= Block - 2 /\ Put("packed", 1 + z, 1 + z)
    \/ (z >= Stored \/ z > Block - 2) /\ Put("stored", 1 + Stored, 1 + Stored)

NoteBare(z) ==                    \* mutant: the size noted is zopfli_outsize
    \/ z < Stored /\ z <= Block - 2 /\ Put("packed", 1 + z, z)
    \/ (z >= Stored \/ z > Block - 2) /\ Put("stored", Stored, Stored)

\* The byte that names the method counts: 1 + zopfli_outsize.
PackSector(z) ==
    \/ z < Stored /\ z <= Block - 2 /\ Put("packed", 1 + z, 1 + z)
    \/ (z >= Stored \/ z > Block - 2) /\ Put("stored", Stored, Stored)

\* One round of the loop: zopfli makes z bytes of the sector.
PackNext ==
    /\ pc = "pack"
    /\ Len(pieces) < NumSectors
    /\ \E z \in 1 .. Block + 1 : PackSector(z)
    /\ UNCHANGED <<fileVars, table, tableKey, acc, pc, content>>

\* What memmove makes of a piece: it moves the bytes counted, no others.
Moved(piece) ==
    [piece EXCEPT !.pos = @ + TableSize,
                  !.data = IF piece.pos + piece.len <= written THEN @ ELSE Garbage]

\* memmove makes room for the table in front of the sectors.
PackTable ==
    /\ pc = "pack"
    /\ Len(pieces) = NumSectors
    /\ pieces' = [i \in 1 .. NumSectors |-> Moved(pieces[i])]
    /\ pc' = "sum"
    /\ UNCHANGED <<fileVars, table, tableKey, packVars, content>>

\* Entry 0 is offsetTableSize, the others are the sizes noted.
sectorOffsetTable(i) == IF i = 0 THEN TableSize ELSE sizes[i]

\* One round of the loop over sectorOffsetTable: the sum so far is the offset.
SumNext ==
    /\ pc = "sum"
    /\ Len(table) # 1 + Len(sizes)
    /\ acc' = acc + sectorOffsetTable(Len(table))
    /\ table' = Append(table, acc')
    /\ UNCHANGED <<fileVars, tableKey, pieces, sizes, written, outpos, pc, content>>

SumDone ==
    /\ pc = "sum"
    /\ Len(table) = 1 + Len(sizes)
    /\ pc' = "extract"
    /\ UNCHANGED <<fileVars, imageVars, packVars, content>>

-----------------------------------------------------------------------------
(* The editor's files: a sector that does not get smaller is stored. *)

KeyOf(k) == IF Encrypted THEN k ELSE Plain

EditSector ==
    /\ pc = "edit"
    /\ ~ SingleUnit
    /\ Len(pieces) < NumSectors
    /\ LET i == Len(pieces) + 1
           pos == IF pieces = <<>> THEN IF Packed THEN TableSize ELSE 0
                  ELSE pieces[i - 1].pos + pieces[i - 1].len
       IN  \/ pieces' = Append(pieces,
                 Piece(pos, SectorLen(i), "stored", i, KeyOf(BaseKey + i - 1)))
           \/ /\ Packed
              /\ \E z \in 1 .. SectorLen(i) - 1 : pieces' = Append(pieces,
                    Piece(pos, z, "packed", i, KeyOf(BaseKey + i - 1)))
    /\ UNCHANGED <<fileVars, table, tableKey, packVars, pc, content>>

EditUnit ==
    /\ pc = "edit"
    /\ SingleUnit
    /\ pieces' = <<Piece(0, size, IF Packed THEN "packed" ELSE "stored", 1, KeyOf(BaseKey))>>
    /\ pc' = "extract"
    /\ UNCHANGED <<fileVars, table, tableKey, packVars, content>>

EditTable ==
    /\ pc = "edit"
    /\ ~ SingleUnit
    /\ Len(pieces) = NumSectors
    /\ IF Packed
         THEN /\ table' = [i \in 1 .. NumSectors + 1 |->
                     IF i = 1 THEN TableSize ELSE pieces[i - 1].pos + pieces[i - 1].len]
              /\ tableKey' = KeyOf(BaseKey - 1)
         ELSE UNCHANGED <<table, tableKey>>
    /\ pc' = "extract"
    /\ UNCHANGED <<fileVars, pieces, packVars, content>>

-----------------------------------------------------------------------------
(* ExtractFile. *)

Decrypt(piece, key) ==
    IF piece.key = key THEN [piece EXCEPT !.key = Plain] ELSE [piece EXCEPT !.data = Garbage]

\* Copied as they are, packed bytes are not the data.
Copied(piece) == IF piece.form = "stored" /\ piece.key = Plain THEN piece.data ELSE Garbage

\* decompress fails on anything but packed bytes.
Unpacks(piece) == piece.form = "packed" /\ piece.key = Plain /\ piece.data # Garbage

Give(data) == content' = Append(content, data)

\* Stored as one unit.
ExtractUnit ==
    /\ pc = "extract"
    /\ SingleUnit /\ ~ Packed
    /\ Give(Copied(IF Encrypted THEN Decrypt(pieces[1], BaseKey) ELSE pieces[1]))
    /\ pc' = "done"
    /\ UNCHANGED <<fileVars, imageVars, packVars>>

\* Stored in sectors: each is decrypted in the copy, asked for or not, and the
\* last has the size normalSize % sectorSize, be it 0.
ExtractStored ==
    /\ pc = "extract"
    /\ ~ SingleUnit /\ ~ Packed
    /\ Len(content) < NumSectors
    /\ LET i == Len(content) + 1
       IN  Give(IF i = NumSectors /\ size % Block = 0
                 THEN Garbage
                 ELSE Copied(Decrypt(pieces[i], BaseKey + i - 1)))
    /\ UNCHANGED <<fileVars, imageVars, packVars, pc>>

\* Packed as one unit: not the input is decrypted but the uninitialised
\* output, and destLen is uninitialised: large enough or not.
ExtractPackedUnit ==
    /\ pc = "extract"
    /\ SingleUnit /\ Packed
    /\ \/ Unpacks(pieces[1]) /\ Give(pieces[1].data) /\ pc' = "done"
       \/ pc' = "failed" /\ UNCHANGED content
    /\ UNCHANGED <<fileVars, imageVars, packVars>>

\* In sectors behind a table: the table is decrypted first, in place.
DecryptTable ==
    /\ pc = "extract"
    /\ ~ SingleUnit /\ Packed
    /\ tableKey' = IF ~ Encrypted THEN tableKey
                   ELSE IF tableKey = BaseKey - 1 THEN Plain ELSE Garbage
    /\ pc' = "sectors"
    /\ UNCHANGED <<fileVars, table, pieces, packVars, content>>

\* thisSectorSize: the last sector may be shorter.
ThisSectorSize(idx) ==
    IF idx = NumSectors /\ size % Block # 0 THEN size % Block ELSE Block

\* A sector of just that size is taken for stored ("this sector is not
\* compressed"), any other is unpacked.
ExtractSector ==
    /\ pc = "sectors"
    /\ tableKey = Plain
    /\ Len(content) < NumSectors
    /\ LET idx == Len(content) + 1
           n == table[idx + 1] - table[idx]
           k == CHOOSE j \in 1 .. Len(pieces) : pieces[j].pos = table[idx]
           piece == IF Encrypted THEN Decrypt(pieces[k], BaseKey + idx - 1) ELSE pieces[k]
       IN  /\ pieces' = [pieces EXCEPT ![k] = piece]
           /\ \/ /\ n = ThisSectorSize(idx)
                 /\ Give(Copied(piece))
                 /\ UNCHANGED pc
              \/ /\ n # ThisSectorSize(idx)
                 /\ Unpacks(piece)
                 /\ Give(piece.data)
                 /\ UNCHANGED pc
              \/ /\ n # ThisSectorSize(idx)
                 /\ ~ Unpacks(piece)
                 /\ pc' = "failed"
                 /\ UNCHANGED content
    /\ UNCHANGED <<fileVars, table, tableKey, packVars>>

Done ==
    /\ pc \in {"extract", "sectors"}
    /\ ~ SingleUnit
    /\ pc = "extract" => ~ Packed
    /\ Len(content) = NumSectors
    /\ pc' = "done"
    /\ UNCHANGED <<fileVars, imageVars, packVars, content>>

-----------------------------------------------------------------------------
Next ==
    \/ PackNext \/ PackTable \/ SumNext \/ SumDone
    \/ EditSector \/ EditUnit \/ EditTable
    \/ ExtractUnit \/ ExtractStored \/ ExtractPackedUnit
    \/ DecryptTable \/ ExtractSector \/ Done

Spec == Init /\ [][Next]_vars

-----------------------------------------------------------------------------
Pieces == [pos : Nat, len : Nat, form : {"packed", "stored"}, data : Int, key : Int]

SectorsTypeOK ==
    /\ size \in Nat
    /\ writer \in {"PackFile", "editor"}
    /\ flags \subseteq {"single unit", "compressed", "encrypted"}
    /\ pc \in {"pack", "sum", "edit", "extract", "sectors", "failed", "done"}
    /\ pieces \in Seq(Pieces)
    /\ sizes \in Seq(Nat)
    /\ written \in Nat
    /\ content \in Seq(Int)
    /\ pc \in {"pack", "sum"} => writer = "PackFile"
    /\ writer = "PackFile" => flags = {"compressed"} /\ pc # "edit"

\* Sectors behind a table of their offsets.
Tabled == ~ SingleUnit /\ Packed

\* What may stand for sector i: a piece that tells by its size whether it is
\* packed, but for a short last sector of PackFile.
Shaped(piece, i) ==
    /\ piece.data = i
    /\ piece.len \in 1 .. SectorLen(i)
    /\ piece.form = "stored" => piece.len = SectorLen(i)
    /\ piece.form = "packed" /\ (i * Block <= size \/ writer = "editor") =>
          piece.len < SectorLen(i)

\* A packed sector i that nothing tells from a stored one.
Disguised(piece, i) == piece.form = "packed" /\ piece.len = SectorLen(i)

\* Where the first i pieces end.
EndOf(i) ==
    IF i = 0 THEN IF Packed /\ pc # "pack" THEN TableSize ELSE 0
    ELSE pieces[i].pos + pieces[i].len

\* The pieces follow one another without a gap.
PiecesInv ==
    ~ SingleUnit =>
        /\ Len(pieces) <= NumSectors
        /\ pc \notin {"pack", "edit"} => Len(pieces) = NumSectors
        /\ \A i \in 1 .. Len(pieces) : Shaped(pieces[i], i) /\ pieces[i].pos = EndOf(i - 1)
        /\ \A i, j \in 1 .. Len(pieces) : i < j => EndOf(i) <= pieces[j].pos

\* A sector is decrypted once: when it is extracted.
KeysInv ==
    ~ SingleUnit => \A i \in 1 .. Len(pieces) :
        pieces[i].key = IF Tabled /\ i <= Len(content) THEN Plain ELSE KeyOf(BaseKey + i - 1)

\* What PackFile has counted.
WrittenInv ==
    writer = "PackFile" =>
        /\ written <= size
        /\ pc = "pack" => written <= Len(pieces) * Block /\ written = EndOf(Len(pieces))
        /\ pc # "pack" => TableSize + written = EndOf(NumSectors)

\* PackFile has noted the size of every piece.
NotedInv ==
    pc \in {"pack", "sum"} =>
        /\ outpos = written
        /\ Len(sizes) = Len(pieces)
        /\ \A i \in 1 .. Len(pieces) : sizes[i] = pieces[i].len

\* The running sum has come to the end of a piece, the last one in the table.
SumInv ==
    /\ pc = "pack" => table = <<>> /\ acc = 0
    /\ pc = "sum" =>
          /\ table \in Seq(Int)
          /\ Len(table) <= NumSectors + 1
          /\ acc = IF table = <<>> THEN 0 ELSE EndOf(Len(table) - 1)
          /\ \A i \in 1 .. Len(table) : table[i] = EndOf(i - 1)

\* The table says where each piece ends, and so where the next one begins.
OffsetsInv ==
    Tabled /\ pc \notin {"pack", "sum", "edit"} =>
        /\ table \in [1 .. NumSectors + 1 -> Int]
        /\ Len(table) = NumSectors + 1
        /\ \A i \in 0 .. NumSectors : table[i + 1] = EndOf(i)

\* What has been extracted.
ContentInv ==
    /\ pc \in {"pack", "sum", "edit"} => content = <<>>
    /\ pc = "extract" /\ (SingleUnit \/ Packed) => content = <<>>
    /\ pc = "sectors" => Tabled
    /\ Tabled => /\ Len(content) <= NumSectors
                 /\ pc # "failed"
                 /\ pc = "done" => Len(content) = NumSectors
                 /\ \A i \in 1 .. Len(content) :
                       content[i] = IF Disguised(pieces[i], i) THEN Garbage ELSE i
    /\ SingleUnit /\ pc # "edit" =>
          pieces = <<Piece(0, size, IF Packed THEN "packed" ELSE "stored", 1, KeyOf(BaseKey))>>
    /\ SingleUnit /\ ~ Packed /\ pc = "done" => content = <<1>>

\* The inductive invariant behind the three properties that follow.
SectorsInv ==
    /\ SectorsTypeOK /\ PiecesInv /\ KeysInv
    /\ WrittenInv /\ NotedInv /\ SumInv /\ OffsetsInv
    /\ ContentInv

\* assert(written < bufferSize): PackFiles allocates the content and the table,
\* and the sectors of PackFile never outgrow it, before and after the memmove.
BufferHolds ==
    writer = "PackFile" =>
        /\ written < size + TableSize
        /\ pc # "pack" => written + TableSize <= size + TableSize

\* The table PackFile sums up of the sizes it noted leads to every sector in
\* turn, where the counter of the output has put it and memmove moved it, and
\* ends where the file ends (compressedSize).
TableLeads ==
    writer = "PackFile" /\ pc \notin {"pack", "sum"} =>
        /\ Len(table) = NumSectors + 1
        /\ table[1] = 4 * Len(table)
        /\ table[Len(table)] = TableSize + written
        /\ \A i \in 1 .. NumSectors :
              pieces[i].pos = table[i] /\ pieces[i].pos + pieces[i].len = table[i + 1]

\* Every sector behind a table comes back as it was, from the editor's
\* archives, encrypted or not, and from those written here, although nothing
\* but its size tells whether it is packed; all of them do.  The one exception
\* is a short last sector of PackFile that the method byte brings back to its
\* old size.  A stored unit comes back, too.
Recognised ==
    /\ ~ SingleUnit /\ Packed =>
          /\ \A i \in 1 .. Len(content) :
                content[i] = IF Disguised(pieces[i], i) THEN Garbage ELSE i
          /\ \A i \in 1 .. Len(pieces) : Disguised(pieces[i], i) =>
                writer = "PackFile" /\ i = NumSectors /\ size % Block # 0
          /\ pc # "failed"
          /\ pc = "done" => Len(content) = NumSectors
    /\ SingleUnit /\ ~ Packed /\ pc = "done" => content = <<1>>

\* "this sector is not compressed" (ExtractFile): every file PackFile writes is
\* read back as it was.
RoundTrip ==
    writer = "PackFile" =>
        /\ pc # "failed"
        /\ pc = "done" => content = [i \in 1 .. NumSectors |-> i]
=============================================================================
