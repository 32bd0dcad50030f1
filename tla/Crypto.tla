------------------------------- MODULE Crypto -------------------------------
(***************************************************************************)
(* EncryptBlock and DecryptBlock of crypto.c, word by word, with the       *)
(* constants of the code as parameters: Word is 2^32, Rows 0x100,          *)
(* HighFactor 2^0x15, LowDivisor 2^0x0B, Increment 0x11111111, Spread      *)
(* 2^5 and InitSeed 0xEEEEEEEE.  Of the table and of the operations ^ and  *)
(* | only what CryptoAssumption says is used; the table of the code and    *)
(* the hash that yields the keys are defined below all the same.           *)
(*                                                                         *)
(* Both ends draw the same key and seed for every word: the key runs on    *)
(* its own, the seed follows the words in the clear, which the decrypter   *)
(* has only for the words it has already restored.                         *)
(*                                                                         *)
(* plain and start are history: the words as they were before encryption,  *)
(* and the key of the first of them.                                       *)
(***************************************************************************)
EXTENDS Integers, Sequences

CONSTANTS
    Word, Rows, HighFactor, LowDivisor, Increment, Spread, InitSeed,
    Half,        \* 2^16, half a word
    HashSeed,    \* 0x7FED7FED
    CryptTable,  \* cryptTable, filled by PrepareCryptTable
    XorOf(_, _),   \* ^ of two words
    OrOf(_, _),    \* | of two words
    Blocks       \* the blocks that get encrypted

Words == 0 .. Word - 1

ASSUME CryptoAssumption ==
    /\ Word \in Nat \ {0}
    /\ Rows \in Nat \ {0}
    /\ HighFactor \in Nat
    /\ LowDivisor \in Nat \ {0}
    /\ Increment \in Words
    /\ Spread \in Nat
    /\ InitSeed \in Words
    /\ HashSeed \in Words
    /\ Half \in Nat /\ Half * Half = Word
    /\ CryptTable \in [0 .. 5 * Rows - 1 -> Words]
    /\ Blocks \subseteq Seq(Words)
    /\ \A a, b \in Words :
          /\ XorOf(a, b) \in Words
          /\ OrOf(a, b) \in Words
          /\ XorOf(XorOf(a, b), b) = a

VARIABLES
    mode,       \* "encrypt" or "decrypt"
    block,      \* the words the loop runs over
    at,         \* the word it looks at
    key, seed,  \* its locals
    plain, start

cryptoVars == <<mode, block, at, key, seed, plain, start>>

-----------------------------------------------------------------------------
\* The seeds PrepareCryptTable draws one after another.
FirstSeed == 1048577

NextDraw(s) == (125 * s + 3) % 2796203

Drawn[n \in 0 .. 10 * Rows] == IF n = 0 THEN FirstSeed ELSE NextDraw(Drawn[n - 1])

\* Two draws make a word; the columns of a row are filled before the next row.
PrepareCryptTable ==
    [i \in 0 .. 5 * Rows - 1 |->
        LET n == 2 * (5 * (i % Rows) + i \div Rows)
        IN  (Drawn[n + 1] % Half) * Half + (Drawn[n + 2] % Half)]

TableKey == 3

\* What the character c makes of the seeds one and two.
Mixed(type, c, one, two) == XorOf(CryptTable[type * Rows + c], (one + two) % Word)

Hashed(type, c, one, two) ==
    <<Mixed(type, c, one, two),
      (c + Mixed(type, c, one, two) + two + Spread * two + 3) % Word>>

\* path is a sequence of characters in upper case, 0 .. Rows - 1.
hash(path, type) ==
    LET seeds[i \in 0 .. Len(path)] ==
            IF i = 0 THEN <<HashSeed, InitSeed>>
            ELSE Hashed(type, path[i], seeds[i - 1][1], seeds[i - 1][2])
    IN  seeds[Len(path)][1]

-----------------------------------------------------------------------------
\* seed += cryptTable[0x400 + (key & 0xFF)]
Seeded(k, s) == (s + CryptTable[4 * Rows + (k % Rows)]) % Word

\* What a word is combined with.
Pad(k, s) == (k + Seeded(k, s)) % Word

\* ((~key << 0x15) + 0x11111111) | (key >> 0x0B)
NextKey(k) == OrOf(((Word - 1 - k) * HighFactor + Increment) % Word, k \div LowDivisor)

\* seed = w + seed + (seed << 5) + 3, w being the word in the clear.
NextSeed(k, s, w) == (w + Seeded(k, s) + Spread * Seeded(k, s) + 3) % Word

Begin(m, b, k) ==
    /\ mode' = m
    /\ block' = b
    /\ at' = 1
    /\ key' = k
    /\ seed' = InitSeed
    /\ start' = k

BeginEncrypt(b, k) ==
    /\ Begin("encrypt", b, k)
    /\ plain' = b

\* b are the words to decrypt, p what they were before encryption.
BeginDecrypt(b, k, p) ==
    /\ Begin("decrypt", b, k)
    /\ plain' = p

\* The loop is at its end: length has come down to 0.
Finished == at > Len(block)

EncryptWord ==
    /\ mode = "encrypt"
    /\ ~Finished
    /\ block' = [block EXCEPT ![at] = XorOf(block[at], Pad(key, seed))]
    /\ key' = NextKey(key)
    /\ seed' = NextSeed(key, seed, block[at])
    /\ at' = at + 1
    /\ UNCHANGED <<mode, plain, start>>

DecryptWordAlike ==               \* mutant: the seed follows the encrypted word
    /\ mode = "decrypt"
    /\ ~Finished
    /\ block' = [block EXCEPT ![at] = XorOf(block[at], Pad(key, seed))]
    /\ key' = NextKey(key)
    /\ seed' = NextSeed(key, seed, block[at])
    /\ at' = at + 1
    /\ UNCHANGED <<mode, plain, start>>

DecryptWord ==
    /\ mode = "decrypt"
    /\ ~Finished
    /\ block' = [block EXCEPT ![at] = XorOf(block[at], Pad(key, seed))]
    /\ key' = NextKey(key)
    /\ seed' = NextSeed(key, seed, block'[at])
    /\ at' = at + 1
    /\ UNCHANGED <<mode, plain, start>>

-----------------------------------------------------------------------------
(* One block after another is encrypted with some key and decrypted with   *)
(* the same key.                                                           *)

CryptoInit ==
    /\ mode = "decrypt"
    /\ block = <<>>
    /\ plain = <<>>
    /\ at = 1
    /\ key = InitSeed
    /\ seed = InitSeed
    /\ start = InitSeed

CryptoNext ==
    \/ /\ mode = "decrypt" /\ Finished
       /\ \E b \in Blocks, k \in Words : BeginEncrypt(b, k)
    \/ EncryptWord
    \/ /\ mode = "encrypt" /\ Finished
       /\ BeginDecrypt(block, start, plain)
    \/ DecryptWord

CryptoSpec == CryptoInit /\ [][CryptoNext]_cryptoVars

\* The keys and seeds of all words of the block p that begins with the key k,
\* and what EncryptBlock has to make of them.
Stream(p, k) ==
    LET stream[i \in 0 .. Len(p)] ==
            IF i = 0 THEN [key |-> k, seed |-> InitSeed]
            ELSE LET last == stream[i - 1]
                 IN  [key |-> NextKey(last.key), seed |-> NextSeed(last.key, last.seed, p[i])]
    IN  stream

Encrypted(p, k) ==
    [i \in 1 .. Len(p) |-> XorOf(p[i], Pad(Stream(p, k)[i - 1].key, Stream(p, k)[i - 1].seed))]

\* Every word DecryptBlock has passed is what it was before EncryptBlock: at
\* each word both must have come to the same key and seed, although the seed
\* of one follows the words it reads and the seed of the other those it
\* writes.
BlockRestored ==
    mode = "decrypt" =>
        /\ Len(block) = Len(plain)
        /\ \A i \in 1 .. at - 1 : block[i] = plain[i]

\* The types of the two loops' variables.
CryptoTypeOK ==
    /\ mode \in {"encrypt", "decrypt"}
    /\ block \in Seq(Words)
    /\ plain \in Seq(Words)
    /\ Len(plain) = Len(block)
    /\ at \in 1 .. Len(block) + 1
    /\ key \in Words
    /\ seed \in Words
    /\ start \in Words

\* The loop that is running has the key and seed of the word it is at.
StreamOK == Stream(plain, start)[at - 1] = [key |-> key, seed |-> seed]

\* Encryption seals the words from the front, decryption opens them likewise.
WordsOK ==
    \A i \in 1 .. Len(block) :
        block[i] = IF (i < at) <=> (mode = "encrypt") THEN Encrypted(plain, start)[i] ELSE plain[i]

\* The inductive invariant behind BlockRestored.
CryptoInv == CryptoTypeOK /\ StreamOK /\ WordsOK
=============================================================================
