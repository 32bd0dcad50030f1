-------------------------------- MODULE MC_Squeeze --------------------------------
(* Bytes of two bits, matches up to 6 bytes, a window of 8 positions.      *)
EXTENDS Squeeze, Blocks, Bitwise

MC_XorOf(a, b) == a ^^ b
MC_BlockSize(st) == ZopfliCalculateBlockSize(st, 0, Len(st.commands), 2)

MC_FixedLL == [s \in 0..10 |-> CASE s < 4 -> 4 [] s = END -> 3 [] s \in 5..6 -> 3 [] OTHER -> 4]
MC_FixedD == [s \in 0..7 |-> 3]

Repeated(s, n) == [k \in 1..(n * Len(s)) |-> s[((k - 1) % Len(s)) + 1]]
Shift(n) == [s \in 0..(n - 1) |-> (s + 1) % n]
MC_Random == {<<Shift(NUM_LL), Shift(NUM_D)>>,
              <<[s \in LLSymbols |-> s \div 2], [s \in DSymbols |-> 0]>>}

(* Nothing, a byte, long runs with and without a byte between, runs of     *)
(* different lengths, matches of different lengths at different distances, *)
(* and blocks with bytes before them, more than a window of them or less.  *)
MC_Inputs ==
  { <<<<>>, 0>>, <<<<3>>, 0>>, <<Repeated(<<0>>, 34), 0>>,
    <<Repeated(<<2>>, 27) \o <<1>> \o Repeated(<<2>>, 6), 5>>,
    <<Repeated(<<0, 1, 2>>, 4) \o <<0, 1, 3>> \o Repeated(<<0, 1, 2>>, 2), 0>>,
    <<<<0, 1, 2, 0, 1, 2, 3, 0, 1, 2, 3, 3, 0, 1, 2, 3, 0>>, 2>>,
    <<<<1, 1, 1, 2, 1, 1, 1, 1, 2, 1, 1, 2, 1, 1, 1, 2, 1, 1, 1, 1>>, 0>>,
    <<Repeated(<<3, 3, 0>>, 5) \o Repeated(<<3>>, 5), 10>> }
  \cup {<<<<a, b, 1, 1, 0>> \o Repeated(<<b, 1, c>>, 2) \o <<1, a, b>>, 3>> : a, b, c \in 0..2}
================================================================================
