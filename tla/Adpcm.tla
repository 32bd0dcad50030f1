----------------------------------- MODULE Adpcm -----------------------------------
(***************************************************************************)
(* The ADPCM coder of adpcm.cpp for sound of one or two channels.  Both    *)
(* sides keep a coder for their stream: for each channel the sample that   *)
(* is predicted and the index of its step size, and the current channel.   *)
(***************************************************************************)
EXTENDS Integers, Sequences, FiniteSetsExt, SequencesExt

CONSTANTS
  INITIAL_ADPCM_STEP_INDEX,
  LowestSample, HighestSample   \* -32768 and 32767

NextStepTable ==
  LET table == <<
    -1, 0, -1, 4, -1, 2, -1, 6, -1, 1, -1, 5, -1, 3, -1, 7, -1, 1, -1, 5, -1, 3, -1, 7, -1, 2, -1,
    4, -1, 6, -1, 8>>
  IN  [i \in 0..31 |-> table[i + 1]]

StepSizeTable ==
  LET table == <<
    7, 8, 9, 10, 11, 12, 13, 14, 16, 17, 19, 21, 23, 25, 28, 31, 34, 37, 41, 45, 50, 55, 60, 66,
    73, 80, 88, 97, 107, 118, 130, 143, 157, 173, 190, 209, 230, 253, 279, 307, 337, 371, 408, 449,
    494, 544, 598, 658, 724, 796, 876, 963, 1060, 1166, 1282, 1411, 1552, 1707, 1878, 2066, 2272,
    2499, 2749, 3024, 3327, 3660, 4026, 4428, 4871, 5358, 5894, 6484, 7132, 7845, 8630, 9493,
    10442, 11487, 12635, 13899, 15289, 16818, 18500, 20350, 22385, 24623, 27086, 29794, 32767>>
  IN  [i \in 0..88 |-> table[i + 1]]

ASSUME AdpcmAssumption ==
  /\ LowestSample < 0 /\ HighestSample > 0
  /\ INITIAL_ADPCM_STEP_INDEX \in DOMAIN StepSizeTable

LastStep == Max(DOMAIN StepSizeTable)   \* 88
Clamp(low, x, high) == IF x < low THEN low ELSE IF x > high THEN high ELSE x
Bit(code, k) == (code \div 2 ^ k) % 2

(* A sample of a stream of 16-bit numbers, the lower byte first.           *)
Word(sample) == <<sample % 256, (sample \div 256) % 256>>
SampleAt(bytes, at) ==
  LET w == bytes[at] + 256 * bytes[at + 1] IN IF w < 32768 THEN w ELSE w - 65536

StartCoder(channels) ==
  [predicted |-> [i \in 1..channels |-> 0],
   step |-> [i \in 1..channels |-> INITIAL_ADPCM_STEP_INDEX], channel |-> channels]
Turn(c) == [c EXCEPT !.channel = (@ % Len(c.predicted)) + 1]
StepSize(c) == StepSizeTable[c.step[c.channel]]

GetNextStepIndex(step, code) == Clamp(0, step + NextStepTable[code % 32], LastStep)

UpdatePredictedSample(predicted, code, difference) ==
  Clamp(LowestSample, IF Bit(code, 6) = 1 THEN predicted - difference ELSE predicted + difference,
        HighestSample)

(* Each of the six low bits of a code adds half as much as the one below.  *)
RECURSIVE SumOfBits(_, _, _)
SumOfBits(code, size, k) ==
  IF k > 5 THEN 0
  ELSE Bit(code, k) * (size \div 2 ^ k) + SumOfBits(code, size, k + 1)

SmallerStep(c) == [c EXCEPT !.step[c.channel] = IF @ = 0 THEN 0 ELSE @ - 1]
LargerStep(c) == [c EXCEPT !.step[c.channel] = Clamp(0, @ + 8, LastStep)]
AfterCode(c, code, difference) ==
  LET i == c.channel
  IN  [c EXCEPT !.predicted[i] = UpdatePredictedSample(@, code, difference),
                !.step[i] = GetNextStepIndex(@, code)]

--------------------------------------------------------------------------------
(* CompressADPCM: the code of a difference, its bits from the largest part *)
(* down, as many as the level of compression leaves.                       *)
RECURSIVE CodeOf(_, _, _, _)
CodeOf(rest, size, k, bits) ==
  IF k >= bits THEN [code |-> 0, total |-> 0]
  ELSE LET part == size \div 2 ^ k
           fits == part <= rest
           lower == CodeOf(IF fits THEN rest - part ELSE rest, size, k + 1, bits)
       IN  [code |-> lower.code + IF fits THEN 2 ^ k ELSE 0,
            total |-> lower.total + IF fits THEN part ELSE 0]

(* As many larger steps as the difference asks for, and what says so.      *)
RECURSIVE Enlarged(_, _, _)
Enlarged(c, difference, bytes) ==
  IF difference <= 2 * StepSize(c) \/ c.step[c.channel] >= LastStep
  THEN [c |-> c, bytes |-> bytes]
  ELSE Enlarged(LargerStep(c), difference, Append(bytes, 129))

CompressSample(s, sample, level) ==
  LET c == Turn(s.c)
      signed == sample - c.predicted[c.channel]
      difference == IF signed < 0 THEN -signed ELSE signed
      large == Enlarged(c, difference, <<>>)
      size == StepSize(large.c)
      found == CodeOf(difference, size, 0, Clamp(0, level - 1, 6))
      code == found.code + IF signed < 0 THEN 64 ELSE 0
      small == difference < StepSize(c) \div 2 ^ level
      after == IF small THEN SmallerStep(c)
               ELSE AfterCode(large.c, code, size \div 2 ^ (level - 1) + found.total)
  IN  [c |-> after,
       bytes |-> s.bytes \o IF small THEN <<128>> ELSE Append(large.bytes, code),
       played |-> Append(s.played, after.predicted[c.channel])]

(* The bytes for samples that has every channel's first one, and what the  *)
(* encoder takes the decoder to play.                                      *)
CompressADPCM(samples, channels, level) ==
  LET first == SubSeq(samples, 1, channels)
      start == [c |-> [StartCoder(channels) EXCEPT !.predicted = first],
                bytes |-> <<0, level - 1>> \o FlattenSeq([i \in 1..channels |-> Word(first[i])]),
                played |-> first]
  IN  FoldLeft(LAMBDA s, x : CompressSample(s, x, level), start,
               SubSeq(samples, channels + 1, Len(samples)))

--------------------------------------------------------------------------------
(* DecompressADPCM: a player is a coder, the position of the next byte,    *)
(* what it has written, and whether it has stopped.  The first samples.    *)
Playing(c, at, out) == [c |-> c, at |-> at, out |-> out, over |-> FALSE]

RECURSIVE FirstSamples(_, _, _, _)
FirstSamples(p, i, bytes, capacity) ==
  LET sample == SampleAt(bytes, p.at)
      read == [p EXCEPT !.c.predicted[i] = sample]
  IN  IF i > Len(p.c.predicted) THEN p
      ELSE IF p.at + 1 > Len(bytes) \/ Len(p.out) + 2 > capacity THEN [p EXCEPT !.over = TRUE]
      ELSE FirstSamples([read EXCEPT !.at = @ + 2, !.out = @ \o Word(sample)],
                        i + 1, bytes, capacity)
StartPlaying(bytes, channels, capacity) ==
  FirstSamples(Playing(StartCoder(channels), 3, <<>>), 1, bytes, capacity)

(* One byte: the same sample again, a larger step, or a code.              *)
PlayOnce(p, bytes, capacity) ==
  LET c == Turn(p.c)
      code == bytes[p.at]
      small == SmallerStep(c)
      size == StepSize(c)
      shift == IF Len(bytes) < 2 THEN 0 ELSE bytes[2]
      decoded == AfterCode(c, code, size \div 2 ^ shift + SumOfBits(code, size, 0))
      Write(after) ==
        LET sample == after.predicted[c.channel]
        IN  IF Len(p.out) + 2 > capacity THEN [p EXCEPT !.over = TRUE]
            ELSE Playing(after, p.at + 1, p.out \o Word(sample))
  IN  CASE p.at > Len(bytes) -> [p EXCEPT !.over = TRUE]
        [] p.at <= Len(bytes) /\ code = 128 -> Write(small)
        [] p.at <= Len(bytes) /\ code = 129 -> Playing(Turn(LargerStep(c)), p.at + 1, p.out)
        [] OTHER -> Write(decoded)
================================================================================
