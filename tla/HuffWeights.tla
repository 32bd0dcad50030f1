-------------------------------- MODULE HuffWeights --------------------------------
(* The weights of the bytes in huff.cpp, one table for each type of data.  *)
(* Zeros at the end of a table are left out.                               *)
EXTENDS Naturals, Sequences

ByteToWeight_00 == <<10>> \o [i \in 1..254 |-> 0] \o <<2>>

ByteToWeight_01 ==
  <<84, 22, 22, 13, 12, 8, 6, 5, 6, 5, 6, 3, 4, 4, 3, 5, 14, 11, 20, 19, 19, 9, 11, 6, 5,
    4, 3, 2, 3, 2, 2, 2, 13, 7, 9, 6, 6, 4, 3, 2, 4, 3, 3, 3, 3, 3, 2, 2, 9, 6, 4, 4, 4,
    4, 3, 2, 3, 2, 2, 2, 2, 3, 2, 4, 8, 3, 4, 7, 9, 5, 3, 3, 3, 3, 2, 2, 2, 3, 2, 2, 3,
    2, 2, 2, 2, 2, 2, 2, 2, 1, 1, 1, 2, 1, 2, 2, 6, 10, 8, 8, 6, 7, 4, 3, 4, 4, 2, 2, 4,
    2, 3, 3, 4, 3, 7, 7, 9, 6, 4, 3, 3, 2, 1, 2, 2, 2, 2, 2, 10, 2, 2, 3, 2, 2, 1, 1, 2,
    2, 2, 6, 3, 5, 2, 3, 2, 1, 1, 1, 1, 1, 1, 1, 1, 1, 1, 2, 3, 1, 1, 1, 2, 1, 1, 1, 1,
    1, 1, 2, 4, 4, 4, 7, 9, 8, 12, 2, 1, 1, 1, 1, 1, 1, 1, 1, 1, 1, 1, 1, 2, 1, 1, 3, 4,
    1, 2, 4, 5, 1, 1, 1, 1, 1, 1, 1, 2, 1, 1, 1, 4, 1, 1, 1, 1, 1, 2, 1, 1, 1, 1, 1, 1,
    1, 1, 1, 2, 1, 1, 1, 1, 1, 1, 1, 3, 1, 1, 1, 1, 1, 1, 1, 2, 1, 1, 1, 1, 1, 1, 2, 2,
    1, 1, 2, 2, 2, 6, 75>>

ByteToWeight_02 ==
  <<0, 0, 0, 0, 0, 0, 0, 0, 0, 3, 39, 0, 0, 35, 0, 0, 0, 0, 0, 0, 0, 0, 0, 0, 0, 0, 0, 0,
    0, 0, 0, 0, 255, 1, 1, 1, 1, 1, 1, 1, 2, 2, 1, 1, 6, 14, 16, 4, 6, 8, 5, 4, 4, 3, 3,
    2, 2, 3, 3, 1, 1, 2, 1, 1, 1, 4, 2, 4, 2, 2, 2, 1, 1, 4, 1, 1, 2, 3, 3, 2, 3, 1, 3,
    6, 4, 1, 1, 1, 1, 1, 1, 2, 1, 2, 1, 1, 1, 41, 7, 22, 18, 64, 10, 10, 17, 37, 1, 3,
    23, 16, 38, 42, 16, 1, 35, 35, 47, 16, 6, 7, 2, 9, 1, 1, 1, 1, 1>>

ByteToWeight_03 ==
  <<255, 11, 7, 5, 11, 2, 2, 2, 6, 2, 2, 1, 4, 2, 1, 3, 9, 1, 1, 1, 3, 4, 1, 1, 2, 1, 1,
    1, 2, 1, 1, 1, 5, 1, 1, 1, 13, 1, 1, 1, 1, 1, 1, 1, 1, 1, 1, 1, 2, 1, 1, 3, 1, 1, 1,
    1, 1, 1, 1, 2, 1, 1, 1, 1, 10, 4, 2, 1, 6, 3, 2, 1, 1, 1, 1, 1, 3, 1, 1, 1, 5, 2, 3,
    4, 3, 3, 3, 2, 1, 1, 1, 2, 1, 2, 3, 3, 1, 3, 1, 1, 2, 5, 1, 1, 4, 3, 5, 1, 3, 1, 3,
    3, 2, 1, 4, 3, 10, 6, 1, 1, 1, 1, 1, 1, 1, 1, 1, 1, 2, 2, 1, 10, 2, 5, 1, 1, 2, 7, 2,
    23, 1, 5, 1, 1, 14, 1, 1, 1, 1, 1, 1, 1, 1, 1, 1, 1, 1, 1, 1, 1, 1, 1, 1, 1, 1, 1, 1,
    1, 1, 1, 1, 1, 1, 1, 1, 1, 1, 1, 1, 1, 1, 1, 1, 1, 1, 1, 1, 1, 1, 1, 1, 1, 6, 2, 1,
    4, 5, 1, 1, 2, 1, 1, 1, 1, 2, 1, 1, 1, 1, 1, 1, 1, 1, 1, 1, 1, 1, 1, 1, 1, 1, 1, 1,
    1, 1, 1, 1, 1, 1, 1, 1, 1, 7, 1, 1, 2, 1, 1, 1, 1, 2, 1, 1, 1, 1, 1, 1, 1, 2, 1, 1,
    1, 1, 1, 1, 17>>

ByteToWeight_04 ==
  <<255, 251, 152, 154, 132, 133, 99, 100, 62, 62, 34, 34, 19, 19, 24, 23>>

ByteToWeight_05 ==
  <<255, 241, 157, 158, 154, 155, 154, 151, 147, 147, 140, 142, 134, 136, 128, 130, 124,
    124, 114, 115, 105, 107, 95, 96, 85, 86, 74, 75, 64, 65, 55, 55, 47, 47, 39, 39, 33,
    33, 27, 28, 23, 23, 19, 19, 16, 16, 13, 13, 11, 11, 9, 9, 8, 8, 7, 7, 6, 5, 5, 4, 4,
    4, 25, 24>>

ByteToWeight_06 ==
  <<195, 203, 245, 65, 255, 123, 247, 33, 0, 0, 0, 0, 0, 0, 0, 0, 0, 0, 0, 0, 0, 0, 0, 0,
    0, 0, 0, 0, 0, 0, 0, 0, 0, 0, 0, 0, 0, 0, 0, 0, 0, 0, 0, 0, 0, 0, 0, 0, 0, 0, 0, 0,
    0, 0, 0, 0, 0, 0, 0, 0, 0, 0, 0, 0, 191, 204, 242, 64, 253, 124, 247, 34, 0, 0, 0, 0,
    0, 0, 0, 0, 0, 0, 0, 0, 0, 0, 0, 0, 0, 0, 0, 0, 0, 0, 0, 0, 0, 0, 0, 0, 0, 0, 0, 0,
    0, 0, 0, 0, 0, 0, 0, 0, 0, 0, 0, 0, 0, 0, 0, 0, 0, 0, 0, 0, 0, 0, 0, 0, 122, 70>>

ByteToWeight_07 ==
  <<195, 217, 239, 61, 249, 124, 233, 30, 253, 171, 241, 44, 252, 91, 254, 23, 0, 0, 0,
    0, 0, 0, 0, 0, 0, 0, 0, 0, 0, 0, 0, 0, 0, 0, 0, 0, 0, 0, 0, 0, 0, 0, 0, 0, 0, 0, 0,
    0, 0, 0, 0, 0, 0, 0, 0, 0, 0, 0, 0, 0, 0, 0, 0, 0, 189, 217, 236, 61, 245, 125, 232,
    29, 251, 174, 240, 44, 251, 92, 255, 24, 0, 0, 0, 0, 0, 0, 0, 0, 0, 0, 0, 0, 0, 0, 0,
    0, 0, 0, 0, 0, 0, 0, 0, 0, 0, 0, 0, 0, 0, 0, 0, 0, 0, 0, 0, 0, 0, 0, 0, 0, 0, 0, 0,
    0, 0, 0, 0, 0, 112, 108>>

ByteToWeight_08 ==
  <<186, 197, 218, 51, 227, 109, 216, 24, 229, 148, 218, 35, 223, 74, 209, 16, 238, 175,
    228, 44, 234, 90, 222, 21, 244, 135, 233, 33, 246, 67, 252, 18, 0, 0, 0, 0, 0, 0, 0,
    0, 0, 0, 0, 0, 0, 0, 0, 0, 0, 0, 0, 0, 0, 0, 0, 0, 0, 0, 0, 0, 0, 0, 0, 0, 176, 199,
    216, 51, 227, 107, 214, 24, 231, 149, 216, 35, 219, 73, 208, 17, 233, 178, 226, 43,
    232, 92, 221, 21, 241, 135, 231, 32, 247, 68, 255, 19, 0, 0, 0, 0, 0, 0, 0, 0, 0, 0,
    0, 0, 0, 0, 0, 0, 0, 0, 0, 0, 0, 0, 0, 0, 0, 0, 0, 0, 0, 0, 0, 0, 95, 158>>

(* By type and byte.  Two more zeros end every table, for 0x100 and 0x101. *)
WeightTables ==
  LET tables == <<ByteToWeight_00, ByteToWeight_01, ByteToWeight_02,
                  ByteToWeight_03, ByteToWeight_04, ByteToWeight_05,
                  ByteToWeight_06, ByteToWeight_07, ByteToWeight_08>>
  IN  [type \in 0..8 |->
         [b \in 0..255 |-> IF b < Len(tables[type + 1]) THEN tables[type + 1][b + 1] ELSE 0]]
================================================================================
