--------------------------------- MODULE Decompress ---------------------------------
(***************************************************************************)
(* ExtractFile hands a sector to decompress, which undoes what its first   *)
(* byte says.  A sector is packed by the coders of the format: those of    *)
(* huff.cpp and adpcm.cpp, which the repository has as well, and an        *)
(* imploder and a zlib compressor it has not.  One value, literal, sample  *)
(* or whole zlib stream is a step, and so is every round of the loops that *)
(* change the Huffman tree, see Huffman.  A sector has one method here.    *)
(***************************************************************************)
EXTENDS Inflate, HuffTree, Huffman, Explode, Adpcm

CONSTANTS
  Sectors,  \* records of method, bytes behind the method byte, and data
  Behind    \* values of the byte behind the sector

VARIABLES
  sector,
  input,   \* the bytes of the method and the first byte of what follows
  stream,  \* the same as a stream of bits
  stage,   \* entered, working, or the end: Ok or Error
  work,    \* the state of the method
  out      \* outBuf up to what was written

vars == <<sector, input, stream, stage, work, out>>
given == <<sector, input, stream>>

BitsOf(bytes) == FlattenSeq([i \in DOMAIN bytes |-> AddBits(bytes[i], 8)])
BytesOf(bits) ==
  LET n == (Len(bits) + 7) \div 8
  IN  [i \in 1..n |-> GetBits(bits \o [k \in 1..7 |-> 0], 8 * (i - 1) + 1, 8)]

--------------------------------------------------------------------------------
(* Packed sectors.                                                         *)
HuffmanSector(bytes, ctype) ==
  [method |-> "huffman", bytes |-> BytesOf(Compress(bytes, ctype)), data |-> bytes]

AdpcmSector(samples, channels, level) ==
  LET s == CompressADPCM(samples, channels, level)
  IN  [method |-> IF channels = 1 THEN "mono" ELSE "stereo", bytes |-> s.bytes,
       data |-> FlattenSeq([i \in DOMAIN s.played |-> Word(s.played[i])])]

(* Commands are bytes, and repetitions [length, dist] of what was before.  *)
Exploded(commands) ==
  FoldLeft(LAMBDA bytes, c : bytes \o IF c.dist = 0 THEN <<c.length>>
                                      ELSE Repetition(bytes, c.dist, c.length),
           <<>>, commands)
LengthBits(value) ==
  LET i == CHOOSE k \in DOMAIN LenBase :
             LenBase[k] <= value /\ value < LenBase[k] + 2 ^ ExLenBits[k]
  IN  <<1>> \o AddBits(LenCode[i], LenCodeBits[i]) \o AddBits(value - LenBase[i], ExLenBits[i])
Imploded(c, ctype) ==
  LET low == LowBits(c.length)
      i == (c.dist - 1) \div 2 ^ low + 1
  IN  IF c.dist # 0
      THEN LengthBits(c.length - 2) \o AddBits(DistCode[i], DistBits[i])
           \o AddBits((c.dist - 1) % 2 ^ low, low)
      ELSE <<0>> \o IF ctype = CMP_ASCII THEN AddBits(ChCodeAsc[c.length], ChBitsAsc[c.length])
                    ELSE AddBits(c.length, 8)
PklibSector(commands, ctype) ==
  LET bits == FlattenSeq([i \in DOMAIN commands |-> Imploded(commands[i], ctype)])
              \o LengthBits(EndOfStream - 256)
  IN  [method |-> "pklib", bytes |-> <<ctype, DictBits>> \o BytesOf(bits),
       data |-> Exploded(commands)]

ZlibSector(bytes) ==
  LET sums == Adler32(bytes)
      n == Len(bytes)
      Number(w) == <<w \div 256, w % 256>>
  IN  [method |-> "zlib",
       bytes |-> <<120, 1, 1>> \o Word(n) \o Word(MaxStored - n) \o bytes
                 \o Number(sums[2]) \o Number(sums[1]),
       data |-> bytes]

--------------------------------------------------------------------------------
(* The input of the method: decompress steps over the method byte but does *)
(* not make inSize smaller, so that the byte behind the sector is the last *)
(* one.                                                                    *)
Capacity == Len(sector.data)   \* thisSectorSize

Init ==
  /\ sector \in Sectors
  /\ type = IF sector.method = "huffman" THEN sector.bytes[1] ELSE 0
  /\ left = Capacity /\ HuffmanInit
  /\ \E b \in Behind : input = Append(sector.bytes, b)
  /\ stream = BitsOf(input)
  /\ stage = "entered" /\ work = <<>> /\ out = <<>>

Stopped(ok) == IF ok THEN "Ok" ELSE "Error"

Zlib ==
  /\ stage = "entered" /\ sector.method = "zlib"
  /\ LET r == mz_uncompress(stream, Capacity)
     IN  stage' = Stopped(r.ok) /\ out' = r.out
  /\ UNCHANGED <<given, work>>

(* DecompressPKLIB fails if nothing was written.                           *)
StartPklib ==
  /\ stage = "entered" /\ sector.method = "pklib"
  /\ stage' = IF /\ Len(input) > 4
                 /\ input[1] \in {CMP_BINARY, CMP_ASCII}
                 /\ input[2] = DictBits
              THEN "working" ELSE "Error"
  /\ work' = StartExpand(input[1])
  /\ UNCHANGED <<given, out>>

Pklib ==
  /\ stage = "working" /\ sector.method = "pklib"
  /\ work' = ExpandOnce(work, SubSeq(stream, 17, Len(stream)), Capacity)
  /\ out' = work'.written
  /\ stage' = IF work'.over THEN Stopped(out' # <<>>) ELSE stage
  /\ UNCHANGED given

StartADPCM ==
  /\ stage = "entered" /\ sector.method \in {"mono", "stereo"}
  /\ work' = StartPlaying(input, IF sector.method = "mono" THEN 1 ELSE 2, Capacity)
  /\ out' = work'.out
  /\ stage' = IF work'.over THEN Stopped(out' # <<>>) ELSE "working"
  /\ UNCHANGED given

ADPCM ==
  /\ stage = "working" /\ sector.method \in {"mono", "stereo"}
  /\ work' = PlayOnce(work, input, Capacity)
  /\ out' = work'.out
  /\ stage' = IF work'.over THEN Stopped(out' # <<>>) ELSE stage
  /\ UNCHANGED given

(* THuffmannTree::Decompress: once its type has been taken from the        *)
(* stream, the tree is built.                                              *)
StartHuffman ==
  /\ stage = "entered" /\ sector.method = "huffman"
  /\ work' = Get8Bits(NewDecoder(NoTree), stream).d
  /\ stage' = IF Capacity = 0 THEN Stopped(FALSE) ELSE "working"
  /\ UNCHANGED <<given, out>>

Unpacking == stage = "working" /\ sector.method = "huffman"

(* The next byte or the end; a byte that is not in the tree follows in the *)
(* stream.  Compress announces no other.                                   *)
DecodedByte(d) ==
  LET v == DecodeOneByte(d, stream, Len(stream))
      byte == Get8Bits(v.d, stream)
  IN  IF v.value # NEWBYTE THEN v
      ELSE IF tree.byvalue[byte.value] = 0 THEN byte ELSE [v EXCEPT !.value = FAILURE]

(* One round of the loop, but for the tree, whose items are counted next   *)
(* unless outBuf is full.                                                  *)
HuffmanValue ==
  /\ Unpacking /\ Ready
  /\ LET v == DecodedByte([work EXCEPT !.tree = tree])
     IN  /\ work' = [v.d EXCEPT !.tree = NoTree]
         /\ IF v.value < 256
            THEN /\ NewValue(v.value) \/ KnownValue(v.value)
                 /\ out' = Append(out, v.value)
                 /\ stage' = IF left' = 0 THEN Stopped(TRUE) ELSE stage
            ELSE /\ out' = IF v.value = ENDMARK THEN out ELSE <<>>
                 /\ stage' = Stopped(out' # <<>>)
                 /\ UNCHANGED huffmanVars
  /\ UNCHANGED given

TreeRound ==
  /\ Unpacking
  /\ Leaf \/ Marks \/ PairUp \/ CountNext \/ Climb
  /\ UNCHANGED vars

Next ==
  \/ (Zlib \/ StartPklib \/ Pklib \/ StartADPCM \/ ADPCM \/ StartHuffman) /\ UNCHANGED huffmanVars
  \/ HuffmanValue
  \/ TreeRound

Spec == Init /\ [][Next]_<<vars, huffmanVars>>

--------------------------------------------------------------------------------
(* Whatever the method and whatever follows the sector, decompress gives   *)
(* back the data of the sector, for sound what the encoder predicted the   *)
(* listener would hear.                                                    *)
SectorRestored ==
  /\ stage # "Error"
  /\ stage = "Ok" => out = sector.data
================================================================================
