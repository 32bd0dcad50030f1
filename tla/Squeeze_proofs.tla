----------------------------- MODULE Squeeze_proofs -----------------------------
(***************************************************************************)
(* The parses of Squeeze reproduce the data, whatever the costs, the       *)
(* statistics and the random numbers are: every match they store was found *)
(* by a search, and the cache answers what a search would find.            *)
(***************************************************************************)
EXTENDS Squeeze, Match_proofs, SequenceTheorems

-----------------------------------------------------------------------------
(* The commands of a store.                                                *)

Command == [litlen : Nat, dist : Nat, pos : Nat]

\* A command that reproduces the bytes at its position.
Right(array, c) ==
    IF c.dist = 0 THEN c.litlen = array[c.pos + 1]
    ELSE c.litlen \in MIN_MATCH .. MAX_MATCH /\ IsMatch(array, c.pos, c.dist, c.litlen)

\* The commands stand one after the other from start on, and reproduce the bytes
\* up to upto.
Covers(array, start, st, upto) ==
    /\ st.commands \in Seq(Command)
    /\ LET cs == st.commands
       IN  /\ \A k \in 1 .. Len(cs) :
                /\ Right(array, cs[k])
                /\ cs[k].pos + Size(cs[k]) <= upto
                /\ cs[k].pos = IF k = 1 THEN start ELSE cs[k - 1].pos + Size(cs[k - 1])
           /\ upto = IF Len(cs) = 0 THEN start ELSE cs[Len(cs)].pos + Size(cs[Len(cs)])

\* A store with one more command.
LEMMA NewCommand ==
    ASSUME NEW array, NEW start \in Nat, NEW st, NEW upto \in Nat, Covers(array, start, st, upto),
           NEW c \in Command, Right(array, c), c.pos = upto
    PROVE  Covers(array, start, ZopfliStoreLitLenDist(c, st), upto + Size(c))
<1> DEFINE cs == st.commands
           new == ZopfliStoreLitLenDist(c, st).commands
           size == Size(c)
<1>1. cs \in Seq(Command) /\ Len(cs) \in Nat
  BY LenProperties DEF Covers
<1>2. new = Append(cs, c)
  BY DEF ZopfliStoreLitLenDist
<1>3. size \in Nat
  BY DEF Size, Command
<1>4. /\ \A k \in 1 .. Len(cs) :
           /\ Right(array, cs[k])
           /\ cs[k].pos + Size(cs[k]) <= upto
           /\ cs[k].pos = IF k = 1 THEN start ELSE cs[k - 1].pos + Size(cs[k - 1])
      /\ upto = IF Len(cs) = 0 THEN start ELSE cs[Len(cs)].pos + Size(cs[Len(cs)])
  BY DEF Covers
<1> HIDE DEF cs, new
<1>5. /\ new \in Seq(Command) /\ Len(new) = Len(cs) + 1
      /\ \A k \in 1 .. Len(cs) : new[k] = cs[k]
      /\ new[Len(cs) + 1] = c
  BY <1>1, <1>2
<1>6. \A k \in 1 .. Len(cs) : cs[k].pos \in Nat /\ Size(cs[k]) \in Nat
  <2> SUFFICES ASSUME NEW k \in 1 .. Len(cs) PROVE cs[k].pos \in Nat /\ Size(cs[k]) \in Nat
    OBVIOUS
  <2>1. cs[k] \in Command
    BY <1>1, ElementOfSeq
  <2>2. QED
    BY <2>1 DEF Command, Size
<1> HIDE DEF size
<1>7. ASSUME NEW k \in 1 .. Len(new)
      PROVE  /\ Right(array, new[k])
             /\ new[k].pos + Size(new[k]) <= upto + size
             /\ new[k].pos = IF k = 1 THEN start ELSE new[k - 1].pos + Size(new[k - 1])
  <2>1. CASE k \in 1 .. Len(cs)
    <3>1. new[k] = cs[k] /\ (k # 1 => new[k - 1] = cs[k - 1])
      BY <1>1, <1>5, <2>1
    <3>2. cs[k].pos + Size(cs[k]) <= upto + size
      BY <1>3, <1>4, <1>6, <2>1
    <3>3. QED
      BY <1>4, <2>1, <3>1, <3>2
  <2>2. CASE k = Len(cs) + 1
    <3>1. new[k] = c /\ (k # 1 => new[k - 1] = cs[Len(cs)])
      BY <1>1, <1>5, <2>2
    <3>2. k = 1 <=> Len(cs) = 0
      BY <1>1, <2>2
    <3>3. new[k].pos + Size(new[k]) <= upto + size
      BY <1>3, <3>1 DEF size
    <3>4. QED
      BY <1>4, <3>1, <3>2, <3>3
  <2>3. QED
    BY <1>1, <1>5, <2>1, <2>2
<1>8. upto + size = IF Len(new) = 0 THEN start ELSE new[Len(new)].pos + Size(new[Len(new)])
  BY <1>1, <1>5 DEF size
<1>9. QED
  BY <1>5, <1>7, <1>8 DEF Covers, new, size

\* A store without commands covers nothing.
LEMMA NoCommand ==
    ASSUME NEW array, NEW start
    PROVE  Covers(array, start, EmptyStore, start)
<1>1. EmptyStore.commands = << >> /\ Len(<< >>) = 0 /\ << >> \in Seq(Command)
  BY EmptySeq DEF EmptyStore
<1>2. 1 .. 0 = {}
  OBVIOUS
<1>3. QED
  BY <1>1, <1>2 DEF Covers

\* What Covers says of the data is what Reproduces asks.
LEMMA CoversReproduces ==
    ASSUME NEW st, NEW upto, data \in Seq(Byte), Covers(data, instart, st, upto)
    PROVE  Reproduces(st, upto)
<1> DEFINE cs == st.commands
           Start(k) == IF k = 1 THEN instart ELSE cs[k - 1].pos + Size(cs[k - 1])
<1>1. /\ cs \in Seq(Command) /\ Len(cs) \in Nat /\ DOMAIN cs = 1 .. Len(cs)
      /\ \A k \in 1 .. Len(cs) :
           /\ Right(data, cs[k])
           /\ cs[k].pos + Size(cs[k]) <= upto
           /\ cs[k].pos = Start(k)
      /\ upto = IF Len(cs) = 0 THEN instart ELSE cs[Len(cs)].pos + Size(cs[Len(cs)])
  BY LenProperties DEF Covers
<1> HIDE DEF cs
<1>2. ASSUME NEW k \in DOMAIN cs
      PROVE  /\ cs[k].pos = Start(k)
             /\ IF cs[k].dist = 0 THEN cs[k].litlen = data[cs[k].pos + 1]
                ELSE /\ cs[k].litlen \in MIN_MATCH .. MAX_MATCH
                     /\ cs[k].dist < WINDOW /\ cs[k].dist <= cs[k].pos
                     /\ cs[k].pos + cs[k].litlen <= upto
                     /\ \A n \in 1 .. cs[k].litlen :
                          data[cs[k].pos + n] = data[cs[k].pos + n - cs[k].dist]
  <2> DEFINE c == cs[k]
  <2>1. c \in Command /\ Right(data, c) /\ c.pos + Size(c) <= upto /\ c.pos = Start(k)
    BY <1>1, ElementOfSeq
  <2> HIDE DEF c, Start
  <2>2. c.pos \in Nat /\ c.litlen \in Nat /\ c.dist \in Nat
    BY <2>1 DEF Command
  <2>3. CASE c.dist = 0
    <3>1. c.litlen = data[c.pos + 1]
      BY <2>1, <2>3 DEF Right
    <3>2. QED
      BY <2>1, <2>3, <3>1 DEF c
  <2>4. CASE c.dist # 0
    <3>1. c.litlen \in MIN_MATCH .. MAX_MATCH /\ IsMatch(data, c.pos, c.dist, c.litlen)
      BY <2>1, <2>4 DEF Right
    <3>2. c.dist < WINDOW /\ c.dist <= c.pos /\ Agree(data, c.pos, c.dist, c.litlen)
      BY <3>1, Sizes DEF IsMatch
    <3>3. c.pos + c.litlen <= upto
      BY <2>1, <2>4 DEF Size
    <3>4. ASSUME NEW n \in 1 .. c.litlen PROVE data[c.pos + n] = data[c.pos + n - c.dist]
      <4>1. n - 1 \in 0 .. c.litlen - 1
        BY <2>2
      <4>2. data[c.pos + (n - 1) + 1] = data[c.pos - c.dist + (n - 1) + 1]
        BY <3>2, <4>1 DEF Agree
      <4>3. c.pos + (n - 1) + 1 = c.pos + n /\ c.pos - c.dist + (n - 1) + 1 = c.pos + n - c.dist
        BY <2>2
      <4>4. QED
        BY <4>2, <4>3
    <3>5. QED
      BY <2>1, <2>4, <3>1, <3>2, <3>3, <3>4 DEF c
  <2>5. QED
    BY <2>3, <2>4
<1>3. Start(Len(cs) + 1) = upto
  <2>1. (Len(cs) + 1) - 1 = Len(cs) /\ (Len(cs) + 1 = 1 <=> Len(cs) = 0)
    BY <1>1
  <2>2. QED
    BY <1>1, <2>1
<1>4. QED
  BY <1>2, <1>3 DEF Reproduces, cs

-----------------------------------------------------------------------------
(* The invariant: what each phase has done so far.                         *)

Longest(array, start, pos) == Full(array, WindowStart(start), pos)

HashOk(array, start, pos, hash) ==
    start < Len(array) => hash = HashBefore(array, WindowStart(start), pos)

\* The match that is kept back is one at the byte before.
GreedyOk(array, start, pos, prev, st) ==
    IF prev = NoMatch THEN Covers(array, start, st, pos)
    ELSE /\ pos > start /\ Covers(array, start, st, pos - 1)
         /\ prev.length \in MIN_MATCH .. MAX_MATCH /\ prev.dist # 0
         /\ IsMatch(array, pos - 1, prev.dist, prev.length)

\* A way of length n to byte k of the block is a literal or a match.
Way(array, start, k, n) ==
    \/ n = 1
    \/ /\ n \in MIN_MATCH .. MAX_MATCH /\ n <= k
       /\ Longest(array, start, start + k - n).length >= n

\* The command of such a way.
StepTo(array, start, k, n) ==
    IF n = 1 THEN Literal(array[start + k], start + k - 1)
    ELSE Copy(n, Longest(array, start, start + k - n).sublen[n], start + k - n)

\* Every byte up to pos was reached, and those its matches lead to.
ForwardOk(array, start, pos, cs, ls) ==
    /\ DOMAIN cs \subseteq 0 .. Len(array) - start
    /\ 0 .. pos - start \subseteq DOMAIN cs
    /\ \A q \in start .. pos - 1 : \A n \in MIN_MATCH .. Longest(array, start, q).length :
         q - start + n \in DOMAIN cs
    /\ \A k \in DOMAIN cs \ {0} : Way(array, start, k, ls[k])

\* The path goes along the lengths ls from byte k of the block to its end; at
\* says where it is after each of them.
Leads(array, start, ls, k, p) ==
    /\ p \in Seq(Nat)
    /\ \E at \in [0 .. Len(p) -> 0 .. Len(array) - start] :
         /\ at[0] = k /\ at[Len(p)] = Len(array) - start
         /\ \A t \in 1 .. Len(p) : /\ at[t] = at[t - 1] + p[t] /\ p[t] = ls[at[t]]
                                  /\ Way(array, start, at[t], p[t])

SearchInv ==
    /\ data \in Seq(Byte) /\ instart \in 0 .. inend /\ i \in instart .. inend
    /\ HashOk(data, instart, i, h)
    /\ CacheInv(data, WindowStart(instart), instart, lmc)
    /\ lengths \in [0 .. blocksize -> Nat]
PhaseInv ==
    /\ phase \in {"greedy", "forward", "follow", "done"}
    /\ phase = "greedy" => GreedyOk(data, instart, i, previous, store)
    /\ phase = "forward" => ForwardOk(data, instart, i, costs, lengths) /\ store = EmptyStore
    /\ phase = "follow" => Leads(data, instart, lengths, i - instart, path) /\ Covers(data, instart, store, i)
    /\ phase = "done" => Covers(data, instart, store, inend)
    /\ best # NoBest => Covers(data, instart, best.store, inend)
SqueezeInv == SearchInv /\ PhaseInv

\* The numbers of the block, and the window before it.
LEMMA Block ==
    ASSUME SearchInv
    PROVE  /\ data \in Seq(Byte) /\ inend \in Nat /\ inend = Len(data)
           /\ instart \in Nat /\ instart <= inend /\ i \in Nat /\ instart <= i /\ i <= inend
           /\ WindowStart(instart) \in Nat /\ WindowStart(instart) <= instart
           /\ blocksize = inend - instart /\ blocksize \in Nat
<1>1. /\ data \in Seq(Byte) /\ inend = Len(data) /\ instart \in 0 .. inend /\ i \in instart .. inend
      /\ blocksize = inend - instart
  BY DEF SearchInv, inend, blocksize
<1>2. inend \in Nat
  BY <1>1
<1>3. WindowStart(instart) \in Nat /\ WindowStart(instart) <= instart
  BY <1>1, <1>2, Sizes DEF WindowStart
<1>4. QED
  BY <1>1, <1>2, <1>3

\* The hash before instart.
LEMMA HashAtStart ==
    ASSUME SearchInv
    PROVE  HashOk(data, instart, instart, StartHash(data, instart, inend))
BY Block, StartHashIs DEF HashOk

\* The hash after the position of the loop.
LEMMA HashAfter ==
    ASSUME SearchInv, i < inend
    PROVE  UpdateHash(data, i, inend, h) = HashBefore(data, WindowStart(instart), i + 1)
<1>1. instart < inend /\ WindowStart(instart) < Len(data) /\ i >= WindowStart(instart)
  BY Block
<1>2. h = HashBefore(data, WindowStart(instart), i)
  BY <1>1, Block DEF SearchInv, HashOk
<1>3. HashBefore(data, WindowStart(instart), i + 1)
        = UpdateHash(data, i, Len(data), HashBefore(data, WindowStart(instart), i))
  BY <1>1, Block, HashBeforeFacts
<1>4. QED
  BY <1>2, <1>3, Block

\* The hash after further positions.
LEMMA HashFurther ==
    ASSUME SearchInv, instart < inend, NEW mid \in Nat, mid >= instart, NEW to \in Nat, mid <= to
    PROVE  Hashed(HashBefore(data, WindowStart(instart), mid), mid, to)
             = HashBefore(data, WindowStart(instart), to)
<1>1. WindowStart(instart) < Len(data) /\ WindowStart(instart) <= mid
  BY Block
<1>2. Updated(data, mid, to, Len(data), HashBefore(data, WindowStart(instart), mid))
        = HashBefore(data, WindowStart(instart), to)
  BY <1>1, Block, UpdatedFrom
<1>3. QED
  BY <1>2, Block DEF Hashed

\* A search at a position of the block.
LEMMA FoundLongest ==
    ASSUME SearchInv, NEW pos \in instart .. inend - 1,
           NEW hash, hash = HashBefore(data, WindowStart(instart), pos + 1)
    PROVE  LET result == Found(hash, pos, MAX_MATCH, TRUE)
           IN  /\ Agreed(result.found, Longest(data, instart, pos))
               /\ CacheInv(data, WindowStart(instart), instart, result.lmc)
<1> DEFINE from == WindowStart(instart)
           k == pos - instart
           result == Found(hash, pos, MAX_MATCH, TRUE)
<1>1. k \in 0 .. Len(data) - instart - 1 /\ instart + k = pos
  BY Block
<1>2. CacheInv(data, from, instart, lmc)
  BY DEF SearchInv
<1>3. result = Search(data, from, pos, lmc, k, MAX_MATCH, TRUE)
  BY Block DEF Found, Search
<1> HIDE DEF k, result
<1>4. LET r == Search(data, from, instart + k, lmc, k, MAX_MATCH, TRUE)
      IN  /\ Agreed(r.found, Full(data, from, instart + k))
          /\ CacheInv(data, from, instart, r.lmc)
  BY <1>1, <1>2, Block, LongestFound
<1>5. QED
  BY <1>1, <1>3, <1>4 DEF Longest, result

\* A search for a length the longest match has.
LEMMA FoundLength ==
    ASSUME SearchInv, NEW pos \in instart .. inend - 1,
           NEW hash, hash = HashBefore(data, WindowStart(instart), pos + 1),
           NEW n \in MIN_MATCH .. MAX_MATCH, Longest(data, instart, pos).length >= n
    PROVE  LET result == Found(hash, pos, n, FALSE)
           IN  /\ result.found.dist = Longest(data, instart, pos).sublen[n]
               /\ IsMatch(data, pos, result.found.dist, n)
               /\ CacheInv(data, WindowStart(instart), instart, result.lmc)
<1> DEFINE from == WindowStart(instart)
           k == pos - instart
           full == Full(data, from, pos)
           result == Found(hash, pos, n, FALSE)
<1>1. k \in 0 .. Len(data) - instart - 1 /\ instart + k = pos /\ pos \in from .. Len(data) - 1
  BY Block
<1>2. CacheInv(data, from, instart, lmc)
  BY DEF SearchInv
<1>3. result = Search(data, from, pos, lmc, k, n, FALSE)
  BY Block DEF Found, Search
<1>4. /\ full.length \in Nat
      /\ \A l \in MIN_MATCH .. full.length : IsMatch(data, pos, full.sublen[l], l)
  BY <1>1, Block, FullIs
<1> HIDE DEF k, result
<1>5. LET all == Full(data, from, instart + k)
          r == Search(data, from, instart + k, lmc, k, n, FALSE)
      IN  /\ IF all.length < n THEN SameMatch(r.found, all)
             ELSE r.found.length = n /\ r.found.dist = all.sublen[n]
          /\ CacheInv(data, from, instart, r.lmc)
  BY <1>1, <1>2, Block, LengthFound
<1>6. full.length >= n
  BY DEF Longest
<1> HIDE DEF full
<1>7. result.found.dist = full.sublen[n] /\ CacheInv(data, from, instart, result.lmc)
  <2>1. ~ (full.length < n)
    BY <1>4, <1>6, Sizes DEF MIN_MATCH
  <2>2. QED
    BY <1>1, <1>3, <1>5, <2>1 DEF full
<1>8. n \in MIN_MATCH .. full.length
  BY <1>4, <1>6, Sizes DEF MIN_MATCH
<1>9. QED
  BY <1>4, <1>7, <1>8 DEF result, full, Longest

-----------------------------------------------------------------------------
(* The greedy parse.                                                       *)

\* A byte is a number, and a literal reproduces the byte at its position.
LEMMA LiteralIsRight ==
    ASSUME SearchInv, NEW pos \in Nat, pos < inend
    PROVE  /\ LiteralAt(pos) \in Command /\ LiteralAt(pos).pos = pos
           /\ Right(data, LiteralAt(pos)) /\ Size(LiteralAt(pos)) = 1
<1>1. data[pos + 1] \in Byte
  BY Block
<1>2. Byte \subseteq Nat
  <2> DEFINE top == 2 ^ ByteBits - 1
  <2>1. Byte = 0 .. top
    BY DEF Byte
  <2> HIDE DEF top
  <2>2. QED
    BY <2>1
<1>3. LiteralAt(pos) = [litlen |-> data[pos + 1], dist |-> 0, pos |-> pos]
  BY DEF LiteralAt, Literal
<1>4. data[pos + 1] \in Nat
  BY <1>1, <1>2
<1>5. QED
  BY <1>3, <1>4 DEF Command, Right, Size

\* A match is stored as a command that reproduces its bytes.
LEMMA CopyIsRight ==
    ASSUME SearchInv, NEW pos \in Nat, NEW n \in MIN_MATCH .. MAX_MATCH, NEW dist,
           IsMatch(data, pos, dist, n)
    PROVE  /\ Copy(n, dist, pos) \in Command /\ Copy(n, dist, pos).pos = pos
           /\ Right(data, Copy(n, dist, pos)) /\ Size(Copy(n, dist, pos)) = n
<1>1. dist \in Nat /\ dist # 0 /\ n \in Nat
  BY Sizes DEF IsMatch, MIN_MATCH
<1>2. Copy(n, dist, pos) = [litlen |-> n, dist |-> dist, pos |-> pos]
  BY DEF Copy
<1>3. QED
  BY <1>1, <1>2 DEF Command, Right, Size

\* What is worth storing is a match.
LEMMA WorthIsMatch ==
    ASSUME SearchInv, i < inend, NEW m, Agreed(m, Longest(data, instart, i)), Worth(m)
    PROVE  m.length \in MIN_MATCH .. MAX_MATCH /\ IsMatch(data, i, m.dist, m.length)
<1> DEFINE full == Longest(data, instart, i)
<1>1. /\ full.length \in Nat
      /\ full.length >= MIN_MATCH => full.length <= MAX_MATCH /\ full.dist = full.sublen[full.length]
      /\ \A k \in MIN_MATCH .. full.length : IsMatch(data, i, full.sublen[k], k)
  <2>1. i \in WindowStart(instart) .. Len(data) - 1
    BY Block
  <2>2. QED
    BY <2>1, Block, FullIs DEF Longest
<1> HIDE DEF full
<1>2. m.length \in Nat /\ SameMatch(m, full)
  BY DEF Agreed, full
<1>3. m.length >= MIN_MATCH /\ MIN_MATCH = 3
  BY <1>2 DEF Worth, GetLengthScore, MIN_MATCH
<1>4. m.length = full.length /\ m.dist = full.dist
  BY <1>2, <1>3 DEF SameMatch
<1>5. m.length \in MIN_MATCH .. full.length /\ m.length \in MIN_MATCH .. MAX_MATCH
  BY <1>1, <1>2, <1>3, <1>4, Sizes
<1>6. QED
  BY <1>1, <1>3, <1>4, <1>5

\* What Advance leads to.
LEMMA Advanced ==
    ASSUME SearchInv, i < inend, NEW new, NEW next \in Nat, next >= i + 1,
           Advance(UpdateHash(data, i, inend, h), new, next)
    PROVE  store' = new /\ i' = next /\ HashOk(data, instart, next, h')
<1>1. instart < inend /\ i + 1 \in Nat /\ i + 1 >= instart
  BY Block
<1>2. h' = Hashed(HashBefore(data, WindowStart(instart), i + 1), i + 1, next)
  BY HashAfter DEF Advance
<1>3. h' = HashBefore(data, WindowStart(instart), next)
  BY <1>1, <1>2, HashFurther
<1>4. QED
  BY <1>3 DEF Advance, HashOk

\* The choice between the match that was kept back, the one found and a literal.
LEMMA ChoiceKeeps ==
    ASSUME SearchInv, i < inend, GreedyOk(data, instart, i, previous, store),
           NEW m, Agreed(m, Longest(data, instart, i)),
           GreedyChoice(UpdateHash(data, i, inend, h), m)
    PROVE  /\ i' \in instart .. inend /\ HashOk(data, instart, i', h')
           /\ GreedyOk(data, instart, i', previous', store')
<1> DEFINE hash == UpdateHash(data, i, inend, h)
           wait == ~Kept(m) /\ Worth(m) /\ m.length < MAX_MATCH
           first == IF Replaced(m) THEN ZopfliStoreLitLenDist(LiteralAt(i - 1), store) ELSE store
           kept == [length |-> m.length, dist |-> m.dist]
<1>1. /\ inend \in Nat /\ inend = Len(data) /\ instart \in Nat /\ i \in Nat /\ instart <= i
      /\ i + 1 \in Nat /\ i + 1 <= inend
  BY Block
<1>2. previous' = IF wait THEN kept ELSE NoMatch
  BY DEF GreedyChoice
<1>3. /\ Kept(m) => Advance(hash, ZopfliStoreLitLenDist(Copy(previous.length, previous.dist, i - 1), store),
                            i - 1 + previous.length)
      /\ wait => Advance(hash, first, i + 1)
      /\ ~ Kept(m) /\ ~ wait /\ Worth(m) =>
           Advance(hash, ZopfliStoreLitLenDist(Copy(m.length, m.dist, i), first), i + m.length)
      /\ ~ Kept(m) /\ ~ wait /\ ~ Worth(m) =>
           Advance(hash, ZopfliStoreLitLenDist(LiteralAt(i), first), i + 1)
  BY DEF GreedyChoice
<1>4. CASE Kept(m)
  <2> DEFINE n == previous.length
             c == Copy(n, previous.dist, i - 1)
  <2>1. /\ previous # NoMatch /\ i > instart /\ Covers(data, instart, store, i - 1)
        /\ n \in MIN_MATCH .. MAX_MATCH /\ IsMatch(data, i - 1, previous.dist, n)
    BY <1>4 DEF Kept, GreedyOk
  <2>2. i - 1 \in Nat /\ n \in Nat /\ n >= 3 /\ i - 1 + n <= inend
    BY <1>1, <2>1, Sizes DEF IsMatch, MIN_MATCH
  <2>3. c \in Command /\ c.pos = i - 1 /\ Right(data, c) /\ Size(c) = n
    BY <2>1, <2>2, CopyIsRight
  <2>4. Covers(data, instart, ZopfliStoreLitLenDist(c, store), i - 1 + Size(c))
    BY <1>1, <2>1, <2>2, <2>3, NewCommand
  <2>5. /\ store' = ZopfliStoreLitLenDist(c, store) /\ i' = i - 1 + n
        /\ HashOk(data, instart, i - 1 + n, h')
    <3>1. i - 1 + n \in Nat /\ i - 1 + n >= i + 1
      BY <1>1, <2>2
    <3>2. Advance(hash, ZopfliStoreLitLenDist(c, store), i - 1 + n)
      BY <1>3, <1>4
    <3>3. QED
      BY <3>1, <3>2, Advanced
  <2>6. previous' = NoMatch
    BY <1>2, <1>4
  <2> HIDE DEF c, n
  <2>7. i' \in instart .. inend
    BY <1>1, <2>2, <2>5
  <2>8. QED
    BY <2>3, <2>4, <2>5, <2>6, <2>7 DEF GreedyOk
<1>5. CASE ~ Kept(m)
  <2>1. Covers(data, instart, first, i)
    <3>1. CASE previous = NoMatch
      BY <3>1 DEF GreedyOk, Replaced
    <3>2. CASE previous # NoMatch
      <4>1. i > instart /\ Covers(data, instart, store, i - 1)
        BY <3>2 DEF GreedyOk
      <4>2. i - 1 \in Nat /\ i - 1 < inend /\ (i - 1) + 1 = i
        BY <1>1, <4>1
      <4>3. /\ LiteralAt(i - 1) \in Command /\ LiteralAt(i - 1).pos = i - 1
            /\ Right(data, LiteralAt(i - 1)) /\ Size(LiteralAt(i - 1)) = 1
        BY <4>2, LiteralIsRight
      <4>4. Covers(data, instart, ZopfliStoreLitLenDist(LiteralAt(i - 1), store),
                   (i - 1) + Size(LiteralAt(i - 1)))
        BY <1>1, <4>1, <4>2, <4>3, NewCommand
      <4>5. first = ZopfliStoreLitLenDist(LiteralAt(i - 1), store)
        BY <1>5, <3>2 DEF Kept
      <4>6. QED
        BY <4>2, <4>3, <4>4, <4>5
    <3>3. QED
      BY <3>1, <3>2
  <2> HIDE DEF first
  <2>2. Worth(m) => m.length \in MIN_MATCH .. MAX_MATCH /\ IsMatch(data, i, m.dist, m.length)
    BY WorthIsMatch
  <2>3. CASE wait
    <3>1. store' = first /\ i' = i + 1 /\ HashOk(data, instart, i + 1, h')
      <4>1. Advance(hash, first, i + 1)
        BY <1>3, <2>3
      <4>2. i + 1 \in Nat /\ i + 1 >= i + 1
        BY <1>1
      <4>3. QED
        BY <4>1, <4>2, Advanced
    <3>2. previous' = kept
      BY <1>2, <2>3
    <3>3. m.length \in MIN_MATCH .. MAX_MATCH /\ IsMatch(data, i, m.dist, m.length) /\ m.dist # 0
      BY <2>2, <2>3 DEF IsMatch
    <3>4. previous' # NoMatch /\ previous'.length = m.length /\ previous'.dist = m.dist
      <4>1. m.length # 0
        BY <3>3 DEF MIN_MATCH
      <4>2. QED
        BY <3>2, <4>1 DEF NoMatch
    <3>5. i + 1 \in instart .. inend /\ i + 1 > instart /\ (i + 1) - 1 = i
      BY <1>1
    <3> DEFINE j == i + 1
    <3>6. GreedyOk(data, instart, j, previous', store')
      <4>1. j > instart /\ j - 1 = i
        BY <3>5
      <4> HIDE DEF j
      <4>2. QED
        BY <2>1, <3>1, <3>3, <3>4, <4>1 DEF GreedyOk
    <3>7. QED
      BY <3>1, <3>5, <3>6
  <2>4. CASE ~ wait /\ Worth(m)
    <3> DEFINE n == m.length
               c == Copy(n, m.dist, i)
    <3>1. n \in MIN_MATCH .. MAX_MATCH /\ IsMatch(data, i, m.dist, n)
      BY <2>2, <2>4
    <3>2. n \in Nat /\ n >= 3 /\ i + n <= inend /\ i + n \in Nat /\ i + n >= i + 1
      BY <1>1, <3>1, Sizes DEF IsMatch, MIN_MATCH
    <3>3. c \in Command /\ c.pos = i /\ Right(data, c) /\ Size(c) = n
      BY <1>1, <3>1, CopyIsRight
    <3>4. Covers(data, instart, ZopfliStoreLitLenDist(c, first), i + Size(c))
      BY <1>1, <2>1, <3>3, NewCommand
    <3>5. /\ store' = ZopfliStoreLitLenDist(c, first) /\ i' = i + n
          /\ HashOk(data, instart, i + n, h')
      <4>1. Advance(hash, ZopfliStoreLitLenDist(c, first), i + n)
        BY <1>3, <1>5, <2>4
      <4>2. QED
        BY <3>2, <4>1, Advanced
    <3>6. previous' = NoMatch
      BY <1>2, <2>4
    <3> HIDE DEF c, n
    <3>7. i' \in instart .. inend
      BY <1>1, <3>2, <3>5
    <3>8. QED
      BY <3>3, <3>4, <3>5, <3>6, <3>7 DEF GreedyOk
  <2>5. CASE ~ wait /\ ~ Worth(m)
    <3> DEFINE c == LiteralAt(i)
    <3>1. c \in Command /\ c.pos = i /\ Right(data, c) /\ Size(c) = 1
      BY <1>1, LiteralIsRight
    <3>2. Covers(data, instart, ZopfliStoreLitLenDist(c, first), i + Size(c))
      BY <1>1, <2>1, <3>1, NewCommand
    <3>3. /\ store' = ZopfliStoreLitLenDist(c, first) /\ i' = i + 1
          /\ HashOk(data, instart, i + 1, h')
      <4>1. Advance(hash, ZopfliStoreLitLenDist(c, first), i + 1)
        BY <1>3, <1>5, <2>5
      <4>2. i + 1 >= i + 1
        BY <1>1
      <4>3. QED
        BY <1>1, <4>1, <4>2, Advanced
    <3>4. previous' = NoMatch
      BY <1>2, <2>5
    <3> HIDE DEF c
    <3>5. i' \in instart .. inend
      BY <1>1, <3>3
    <3>6. QED
      BY <3>1, <3>2, <3>3, <3>4, <3>5 DEF GreedyOk
  <2>6. QED
    BY <2>3, <2>4, <2>5
<1>6. QED
  BY <1>4, <1>5

\* A step of the greedy parse.
LEMMA GreedyKeeps == SqueezeInv /\ GreedyStep => SqueezeInv'
<1> SUFFICES ASSUME SqueezeInv, GreedyStep PROVE SqueezeInv'
  OBVIOUS
<1> DEFINE hash == UpdateHash(data, i, inend, h)
           result == Found(hash, i, MAX_MATCH, TRUE)
<1>1. SearchInv /\ PhaseInv
  BY DEF SqueezeInv
<1>2. /\ phase = "greedy" /\ i < inend
      /\ UNCHANGED <<data, instart, mode, phase, costs, lengths, path, stats, iteration,
                     lastcost, random, best>>
      /\ lmc' = result.lmc /\ GreedyChoice(hash, result.found)
  BY DEF GreedyStep, GreedySearch, GreedyFound
<1>3. /\ Agreed(result.found, Longest(data, instart, i))
      /\ CacheInv(data, WindowStart(instart), instart, result.lmc)
  <2>1. hash = HashBefore(data, WindowStart(instart), i + 1)
    BY <1>1, <1>2, HashAfter
  <2>2. i \in instart .. inend - 1
    BY <1>1, <1>2, Block
  <2> HIDE DEF hash
  <2>3. QED
    BY <1>1, <2>1, <2>2, FoundLongest
<1> HIDE DEF result
<1>4. /\ i' \in instart .. inend /\ HashOk(data, instart, i', h')
      /\ GreedyOk(data, instart, i', previous', store')
  <2>1. GreedyOk(data, instart, i, previous, store)
    BY <1>1, <1>2 DEF PhaseInv
  <2>2. QED
    BY <1>1, <1>2, <1>3, <2>1, ChoiceKeeps
<1>5. SearchInv'
  BY <1>1, <1>2, <1>3, <1>4 DEF SearchInv, inend, blocksize
<1>6. PhaseInv'
  BY <1>1, <1>2, <1>4 DEF PhaseInv, inend
<1>7. QED
  BY <1>5, <1>6 DEF SqueezeInv

-----------------------------------------------------------------------------
(* The costs of all bytes.                                                 *)

\* The start of GetBestLengths.
LEMMA ForwardStarted ==
    ASSUME SearchInv, StartForward
    PROVE  /\ phase' = "forward" /\ i' \in instart .. inend /\ store' = EmptyStore
           /\ HashOk(data, instart, i', h')
           /\ ForwardOk(data, instart, i', costs', lengths)
<1>1. /\ phase' = "forward" /\ i' = instart /\ h' = StartHash(data, instart, inend)
      /\ costs' = [j \in {0} |-> 0] /\ store' = EmptyStore
  BY DEF StartForward
<1>2. /\ instart \in Nat /\ instart <= inend /\ inend \in Nat /\ inend = Len(data)
  BY Block
<1>3. HashOk(data, instart, instart, StartHash(data, instart, inend))
  BY HashAtStart
<1>4. ForwardOk(data, instart, instart, costs', lengths)
  <2>1. DOMAIN costs' = {0}
    BY <1>1
  <2>2. {0} \subseteq 0 .. Len(data) - instart /\ 0 .. instart - instart \subseteq {0}
        /\ instart .. instart - 1 = {}
    BY <1>2
  <2>3. QED
    BY <2>1, <2>2 DEF ForwardOk
<1>5. instart \in instart .. inend
  BY <1>2
<1>6. QED
  BY <1>1, <1>3, <1>4, <1>5

\* The end of the greedy parse: no match is kept back any more.
LEMMA GreedyEndKeeps == SqueezeInv /\ GreedyEnd => SqueezeInv'
<1> SUFFICES ASSUME SqueezeInv, GreedyEnd PROVE SqueezeInv'
  OBVIOUS
<1>1. SearchInv /\ PhaseInv
  BY DEF SqueezeInv
<1>2. /\ phase = "greedy" /\ i >= inend
      /\ UNCHANGED <<data, instart, mode, lmc, previous, lengths, path, iteration,
                     lastcost, random, best>>
      /\ IF mode = "greedy"
         THEN phase' = "done" /\ UNCHANGED <<i, h, costs, store, stats>>
         ELSE StartForward
  BY DEF GreedyEnd
<1>3. /\ inend \in Nat /\ inend = Len(data) /\ instart \in Nat /\ i \in Nat /\ i = inend
  BY <1>1, <1>2, Block
<1>4. Covers(data, instart, store, inend)
  <2>1. GreedyOk(data, instart, i, previous, store)
    BY <1>1, <1>2 DEF PhaseInv
  <2>2. previous = NoMatch
    <3> SUFFICES ASSUME previous # NoMatch PROVE FALSE
      OBVIOUS
    <3>1. previous.length \in MIN_MATCH .. MAX_MATCH
          /\ IsMatch(data, i - 1, previous.dist, previous.length)
      BY <2>1 DEF GreedyOk
    <3>2. previous.length \in Nat /\ previous.length >= 3
      BY <3>1, Sizes DEF MIN_MATCH
    <3>3. (i - 1) + previous.length <= inend
      BY <1>3, <3>1 DEF IsMatch
    <3>4. QED
      BY <1>3, <3>2, <3>3
  <2>3. QED
    BY <1>3, <2>1, <2>2 DEF GreedyOk
<1>5. CASE mode = "greedy"
  <2>1. SearchInv'
    BY <1>1, <1>2, <1>5 DEF SearchInv, inend, blocksize
  <2>2. PhaseInv'
    BY <1>1, <1>2, <1>4, <1>5 DEF PhaseInv, inend
  <2>3. QED
    BY <2>1, <2>2 DEF SqueezeInv
<1>6. CASE mode # "greedy"
  <2>1. /\ phase' = "forward" /\ i' \in instart .. inend /\ store' = EmptyStore
        /\ HashOk(data, instart, i', h')
        /\ ForwardOk(data, instart, i', costs', lengths)
    BY <1>1, <1>2, <1>6, ForwardStarted
  <2>2. SearchInv'
    BY <1>1, <1>2, <2>1 DEF SearchInv, inend, blocksize
  <2>3. PhaseInv'
    BY <1>1, <1>2, <2>1 DEF PhaseInv, inend
  <2>4. QED
    BY <2>2, <2>3 DEF SqueezeInv
<1>7. QED
  BY <1>5, <1>6

\* In a long run of one byte the longest matches are as long as they may be, and
\* start one byte before; those of the two bytes before too.
LEMMA LongRun ==
    ASSUME SearchInv, i < inend, LongRepetition(HashBefore(data, WindowStart(instart), i + 1))
    PROVE  /\ i > instart + MAX_MATCH + 1 /\ i + MAX_MATCH * 2 + 1 < inend
           /\ \A pos \in i - 2 .. i + MAX_MATCH - 1 :
                /\ Longest(data, instart, pos).length = MAX_MATCH
                /\ Longest(data, instart, pos).sublen[MAX_MATCH] = 1
<1> DEFINE from == WindowStart(instart)
           hash == HashBefore(data, from, i + 1)
           q == i - MAX_MATCH
           s1 == hash.same[i % WINDOW]
           s2 == hash.same[q % WINDOW]
<1>1. /\ data \in Seq(Byte) /\ inend \in Nat /\ inend = Len(data) /\ instart \in Nat /\ i \in Nat
      /\ from \in Nat /\ from <= instart /\ instart <= i /\ i <= inend
      /\ MAX_MATCH \in Nat /\ MAX_MATCH > 3 /\ WINDOW \in Nat /\ WINDOW > MAX_MATCH
  BY Block, Sizes
<1>2. /\ s1 > MAX_MATCH * 2 /\ i > instart + MAX_MATCH + 1
      /\ i + MAX_MATCH * 2 + 1 < inend /\ s2 > MAX_MATCH
  BY DEF LongRepetition
<1>3. HashInv(data, from, i + 1, inend, hash)
  <2>1. i + 1 \in from .. Len(data) /\ from < Len(data)
    BY <1>1
  <2>2. QED
    BY <1>1, <2>1, HashBeforeFacts
<1> HIDE DEF hash, from
<1>4. EqualRun(data, i, s1, inend) /\ EqualRun(data, q, s2, inend) /\ q \in Nat
  <2>1. i \in from .. (i + 1) - 1 /\ i + WINDOW >= i + 1
        /\ q \in from .. (i + 1) - 1 /\ q + WINDOW >= i + 1 /\ q \in Nat
    BY <1>1, <1>2
  <2>2. RunsKnown(data, from, i + 1, inend, hash)
    BY <1>3 DEF HashInv
  <2>3. QED
    BY <2>1, <2>2 DEF RunsKnown
<1>5. s1 \in Nat /\ s2 \in Nat
  BY <1>4 DEF EqualRun
<1> HIDE DEF s1, s2
<1>6. data[q + 1] = data[i + 1]
  <2>1. MAX_MATCH \in 0 .. s2
    BY <1>1, <1>2, <1>5
  <2>2. data[q + MAX_MATCH + 1] = data[q + 1]
    BY <1>4, <2>1 DEF EqualRun
  <2>3. q + MAX_MATCH + 1 = i + 1
    BY <1>1
  <2>4. QED
    BY <2>2, <2>3
<1>7. ASSUME NEW p \in Nat, p >= q, p <= i + MAX_MATCH * 2 PROVE data[p + 1] = data[i + 1]
  <2>1. CASE p < i
    <3>1. p - q \in 0 .. s2
      BY <1>1, <1>2, <1>4, <1>5, <1>7, <2>1
    <3>2. data[q + (p - q) + 1] = data[q + 1]
      BY <1>4, <3>1 DEF EqualRun
    <3>3. q + (p - q) + 1 = p + 1
      BY <1>4
    <3>4. QED
      BY <1>6, <3>2, <3>3
  <2>2. CASE p >= i
    <3>1. p - i \in 0 .. s1
      BY <1>1, <1>2, <1>5, <1>7, <2>2
    <3>2. data[i + (p - i) + 1] = data[i + 1]
      BY <1>4, <3>1 DEF EqualRun
    <3>3. i + (p - i) + 1 = p + 1
      BY <1>1
    <3>4. QED
      BY <3>2, <3>3
  <2>3. QED
    BY <1>1, <2>1, <2>2
<1>8. ASSUME NEW pos \in i - 2 .. i + MAX_MATCH - 1
      PROVE  /\ Longest(data, instart, pos).length = MAX_MATCH
             /\ Longest(data, instart, pos).sublen[MAX_MATCH] = 1
  <2>1. /\ pos \in Nat /\ pos > from /\ pos + MAX_MATCH <= Len(data)
        /\ pos - 1 \in Nat /\ pos - 1 >= q /\ pos - 1 <= i + MAX_MATCH * 2
    BY <1>1, <1>2
  <2>2. data[pos] = data[i + 1]
    <3>1. data[(pos - 1) + 1] = data[i + 1]
      BY <1>7, <2>1
    <3>2. (pos - 1) + 1 = pos
      BY <2>1
    <3>3. QED
      BY <3>1, <3>2
  <2>3. ASSUME NEW k \in 0 .. MAX_MATCH - 1 PROVE data[pos + k + 1] = data[pos]
    <3>1. pos + k \in Nat /\ pos + k >= q /\ pos + k <= i + MAX_MATCH * 2
      BY <1>1, <2>1
    <3>2. data[(pos + k) + 1] = data[i + 1]
      BY <1>7, <3>1
    <3>3. QED
      BY <2>2, <3>2
  <2> DEFINE full == Full(data, from, pos)
  <2>4. full.length = MAX_MATCH /\ full.dist = 1
    BY <1>1, <2>1, <2>3, MatchOfRun
  <2>5. full.length >= MIN_MATCH => full.dist = full.sublen[full.length]
    <3>1. pos \in from .. Len(data) - 1
      BY <1>1, <2>1
    <3>2. QED
      BY <1>1, <3>1, FullIs
  <2> HIDE DEF full
  <2>6. full.sublen[MAX_MATCH] = 1
    BY <1>1, <2>4, <2>5 DEF MIN_MATCH
  <2>7. QED
    BY <2>4, <2>6 DEF Longest, from, full
<1>9. QED
  BY <1>2, <1>8

\* The bytes that are reached without a search are reached by matches.
Skippable(skipped) ==
    \A k \in skipped : k # 0 => Way(data, instart, k, MAX_MATCH)

\* A search at at, from the costs so far, which has reached all bytes before.
LEMMA ReachKeeps ==
    ASSUME SearchInv, NEW at \in i .. inend - 1, NEW m, Agreed(m, Longest(data, instart, at)),
           NEW jumped, NEW skipped, NEW mincost, Reach(at, m, jumped, skipped, mincost),
           DOMAIN jumped = DOMAIN costs \union skipped, DOMAIN jumped \subseteq 0 .. blocksize,
           Skippable(skipped), \A k \in DOMAIN costs \ {0} : Way(data, instart, k, lengths[k]),
           0 .. at - instart \subseteq DOMAIN jumped,
           \A q \in instart .. at - 1 : \A n \in MIN_MATCH .. Longest(data, instart, q).length :
             q - instart + n \in DOMAIN jumped
    PROVE  /\ ForwardOk(data, instart, at + 1, costs', lengths')
           /\ lengths' \in [0 .. blocksize -> Nat]
<1> DEFINE a == at - instart
           full == Longest(data, instart, at)
           ahead == {k \in (at - instart + 1) .. blocksize :
                       k = at - instart + 1 \/ k - (at - instart) \in MIN_MATCH .. m.length}
           here == jumped[at - instart]
           Cheap(k) == LET n == k - (at - instart)
                       IN  here + Cost(IF n = 1 THEN LiteralAt(at) ELSE Copy(n, m.sublen[n], at))
           better == {k \in ahead :
                        \/ k \notin DOMAIN jumped
                        \/ /\ k = at - instart + 1 \/ jumped[k] - here > mincost
                           /\ Cheap(k) < jumped[k]}
<1>1. /\ costs' = [k \in DOMAIN jumped \union better |-> IF k \in better THEN Cheap(k) ELSE jumped[k]]
      /\ lengths' = [k \in 0 .. blocksize |-> CASE k \in better -> k - (at - instart)
                                                [] k \in skipped \ better -> MAX_MATCH
                                                [] OTHER -> lengths[k]]
  BY DEF Reach
<1>2. /\ inend \in Nat /\ inend = Len(data) /\ instart \in Nat /\ i \in Nat /\ instart <= i
      /\ blocksize = inend - instart /\ blocksize \in Nat /\ at \in Nat /\ instart <= at
      /\ a \in Nat /\ a < blocksize /\ WindowStart(instart) \in Nat /\ WindowStart(instart) <= instart
      /\ MAX_MATCH \in Nat /\ MAX_MATCH > 3 /\ MIN_MATCH = 3
  BY Block, Sizes DEF MIN_MATCH
<1>3. /\ full.length \in Nat
      /\ full.length >= MIN_MATCH => full.length <= MAX_MATCH /\ at + full.length <= inend
      /\ m.length \in Nat
      /\ m.length >= 3 => m.length = full.length
      /\ full.length >= 3 => m.length = full.length
  <2>1. at \in WindowStart(instart) .. Len(data) - 1
    BY <1>2
  <2>2. /\ full.length \in Nat
        /\ full.length >= MIN_MATCH => full.length <= MAX_MATCH /\ at + full.length <= inend
    BY <1>2, <2>1, Block, FullIs DEF Longest
  <2> HIDE DEF full
  <2>3. m.length \in Nat /\ SameMatch(m, full)
    BY DEF Agreed, full
  <2>4. QED
    BY <1>2, <2>2, <2>3 DEF SameMatch
<1>4. \A k \in ahead : k \notin DOMAIN jumped => k \in better
  OBVIOUS
<1>5. better \subseteq ahead
  OBVIOUS
<1> HIDE DEF better, Cheap, full
<1>6. \A k \in ahead : /\ k \in Nat /\ k <= blocksize /\ k >= a + 1 /\ k - a \in Nat
                       /\ k - a = 1 \/ (k - a \in MIN_MATCH .. MAX_MATCH /\ full.length >= k - a)
  BY <1>2, <1>3
<1>7. \A k \in Nat : k <= blocksize /\ (k = a + 1 \/ k - a \in MIN_MATCH .. full.length) => k \in ahead
  BY <1>2, <1>3
<1> HIDE DEF ahead
<1>8. DOMAIN costs' = DOMAIN jumped \union better
  BY <1>1
<1>9. \A k \in 0 .. blocksize :
        /\ k \in better => lengths'[k] = k - a
        /\ k \notin better /\ k \in skipped => lengths'[k] = MAX_MATCH
        /\ k \notin better /\ k \notin skipped => lengths'[k] = lengths[k]
  <2> SUFFICES ASSUME NEW k \in 0 .. blocksize
               PROVE  /\ k \in better => lengths'[k] = k - a
                      /\ k \notin better /\ k \in skipped => lengths'[k] = MAX_MATCH
                      /\ k \notin better /\ k \notin skipped => lengths'[k] = lengths[k]
    OBVIOUS
  <2>1. lengths'[k] = CASE k \in better -> k - (at - instart)
                        [] k \in skipped \ better -> MAX_MATCH
                        [] OTHER -> lengths[k]
    BY <1>1
  <2>2. QED
    BY <2>1
<1>10. lengths' \in [0 .. blocksize -> Nat]
  <2>1. lengths \in [0 .. blocksize -> Nat]
    BY DEF SearchInv
  <2>2. \A k \in 0 .. blocksize : lengths'[k] \in Nat
    BY <1>2, <1>5, <1>6, <1>9, <2>1
  <2>3. lengths' = [k \in 0 .. blocksize |-> lengths'[k]]
    BY <1>1
  <2>4. QED
    BY <2>2, <2>3
<1> HIDE DEF a
<1>11. DOMAIN costs' \subseteq 0 .. Len(data) - instart
  BY <1>2, <1>5, <1>6, <1>8
<1>12. 0 .. (at + 1) - instart \subseteq DOMAIN costs'
  <2> SUFFICES ASSUME NEW k \in 0 .. (at + 1) - instart PROVE k \in DOMAIN costs'
    OBVIOUS
  <2>1. k \in 0 .. at - instart \/ k = a + 1
    BY <1>2 DEF a
  <2>2. a + 1 \in ahead
    BY <1>2, <1>7
  <2>3. QED
    BY <1>4, <1>8, <2>1, <2>2
<1>13. ASSUME NEW q \in instart .. (at + 1) - 1, NEW n \in MIN_MATCH .. Longest(data, instart, q).length
       PROVE  q - instart + n \in DOMAIN costs'
  <2>1. CASE q = at
    <3>1. n \in Nat /\ n \in MIN_MATCH .. full.length
      BY <1>2, <1>3, <2>1 DEF full
    <3>2. a + n \in Nat /\ a + n <= blocksize /\ (a + n) - a = n
      BY <1>2, <1>3, <3>1 DEF a
    <3>3. a + n \in ahead
      BY <1>7, <3>1, <3>2
    <3>4. q - instart + n = a + n
      BY <2>1 DEF a
    <3>5. QED
      BY <1>4, <1>8, <3>3, <3>4
  <2>2. CASE q # at
    <3>1. q \in instart .. at - 1
      BY <1>2, <2>2
    <3>2. QED
      BY <1>8, <3>1
  <2>3. QED
    BY <2>1, <2>2
<1>14. ASSUME NEW k \in DOMAIN costs' \ {0} PROVE Way(data, instart, k, lengths'[k])
  <2>1. k \in 0 .. blocksize
    BY <1>2, <1>11
  <2>2. CASE k \in better
    <3> DEFINE n == k - a
    <3>1. lengths'[k] = n
      BY <1>9, <2>1, <2>2
    <3>2. k \in ahead
      BY <1>5, <2>2
    <3>3. n = 1 \/ (n \in MIN_MATCH .. MAX_MATCH /\ full.length >= n)
      BY <1>6, <3>2
    <3>4. n <= k /\ instart + k - n = at
      BY <1>2, <2>1 DEF a
    <3> HIDE DEF n
    <3>5. Way(data, instart, k, n)
      BY <3>3, <3>4 DEF Way, full
    <3>6. QED
      BY <3>1, <3>5
  <2>3. CASE k \notin better /\ k \in skipped
    BY <1>9, <2>1, <2>3 DEF Skippable
  <2>4. CASE k \notin better /\ k \notin skipped
    <3>1. k \in DOMAIN costs \ {0} /\ lengths'[k] = lengths[k]
      BY <1>8, <1>9, <2>1, <2>4
    <3>2. QED
      BY <3>1
  <2>5. QED
    BY <2>2, <2>3, <2>4
<1>15. ForwardOk(data, instart, at + 1, costs', lengths')
  BY <1>11, <1>12, <1>13, <1>14 DEF ForwardOk
<1>16. QED
  BY <1>10, <1>15

\* What is skipped in a long run: MAX_MATCH bytes, by matches of the bytes from
\* i on, which were reached from those before.
LEMMA SkippedAreReached ==
    ASSUME SearchInv, i < inend, LongRepetition(HashBefore(data, WindowStart(instart), i + 1)),
           ForwardOk(data, instart, i, costs, lengths)
    PROVE  LET at == i + MAX_MATCH
               j == i - instart
               skipped == (j + MAX_MATCH) .. (j + 2 * MAX_MATCH - 1)
               reached == DOMAIN costs \union skipped
           IN  /\ at \in i .. inend - 1
               /\ reached \subseteq 0 .. blocksize
               /\ Skippable(skipped)
               /\ 0 .. at - instart \subseteq reached
               /\ \A q \in instart .. at - 1 : \A n \in MIN_MATCH .. Longest(data, instart, q).length :
                    q - instart + n \in reached
<1> DEFINE at == i + MAX_MATCH
           j == i - instart
           skipped == (j + MAX_MATCH) .. (j + 2 * MAX_MATCH - 1)
           reached == DOMAIN costs \union skipped
<1>1. /\ inend \in Nat /\ inend = Len(data) /\ instart \in Nat /\ i \in Nat /\ instart <= i
      /\ blocksize = inend - instart /\ blocksize \in Nat /\ j \in Nat
      /\ MAX_MATCH \in Nat /\ MAX_MATCH > 3 /\ MIN_MATCH = 3
  BY Block, Sizes DEF MIN_MATCH
<1>2. /\ i > instart + MAX_MATCH + 1 /\ i + MAX_MATCH * 2 + 1 < inend
      /\ \A pos \in i - 2 .. i + MAX_MATCH - 1 : Longest(data, instart, pos).length = MAX_MATCH
  BY LongRun
<1>3. /\ DOMAIN costs \subseteq 0 .. blocksize /\ 0 .. j \subseteq DOMAIN costs
      /\ \A q \in instart .. i - 1 : \A n \in MIN_MATCH .. Longest(data, instart, q).length :
           q - instart + n \in DOMAIN costs
  BY <1>1 DEF ForwardOk
<1>4. at \in i .. inend - 1 /\ at \in Nat /\ j + 2 * MAX_MATCH - 1 <= blocksize
  BY <1>1, <1>2
<1>5. reached \subseteq 0 .. blocksize
  BY <1>1, <1>3, <1>4
<1>6. Skippable(skipped)
  <2> SUFFICES ASSUME NEW k \in skipped PROVE Way(data, instart, k, MAX_MATCH)
    BY DEF Skippable
  <2>1. instart + k - MAX_MATCH \in i - 2 .. i + MAX_MATCH - 1 /\ k >= MAX_MATCH
    BY <1>1
  <2> DEFINE pos == instart + k - MAX_MATCH
  <2>2. Longest(data, instart, pos).length = MAX_MATCH
    BY <1>2, <2>1
  <2> HIDE DEF pos
  <2>3. MAX_MATCH \in MIN_MATCH .. MAX_MATCH /\ MAX_MATCH <= k
        /\ Longest(data, instart, pos).length >= MAX_MATCH
    BY <1>1, <2>1, <2>2
  <2>4. QED
    BY <2>3 DEF Way, pos
\* From the byte before the last one every length reaches a byte, from the last
\* one the longest.
<1>7. \A k \in 0 .. j + MAX_MATCH - 1 : k \in DOMAIN costs
  <2> SUFFICES ASSUME NEW k \in 0 .. j + MAX_MATCH - 1 PROVE k \in DOMAIN costs
    OBVIOUS
  <2>1. CASE k <= j
    BY <1>1, <1>3, <2>1
  <2>2. CASE k > j /\ k <= j + MAX_MATCH - 2
    <3> DEFINE q == i - 2
               n == k - j + 2
    <3>1. q \in instart .. i - 1 /\ q \in i - 2 .. i + MAX_MATCH - 1 /\ n \in MIN_MATCH .. MAX_MATCH
          /\ q - instart + n = k
      BY <1>1, <1>2, <2>2
    <3> HIDE DEF q, n
    <3>2. Longest(data, instart, q).length = MAX_MATCH
      BY <1>2, <3>1
    <3>3. q - instart + n \in DOMAIN costs
      BY <1>3, <3>1, <3>2
    <3>4. QED
      BY <3>1, <3>3
  <2>3. CASE k = j + MAX_MATCH - 1
    <3> DEFINE q == i - 1
    <3>1. q \in instart .. i - 1 /\ q \in i - 2 .. i + MAX_MATCH - 1
          /\ MAX_MATCH \in MIN_MATCH .. MAX_MATCH /\ q - instart + MAX_MATCH = k
      BY <1>1, <1>2, <2>3
    <3> HIDE DEF q
    <3>2. Longest(data, instart, q).length = MAX_MATCH
      BY <1>2, <3>1
    <3>3. q - instart + MAX_MATCH \in DOMAIN costs
      BY <1>3, <3>1, <3>2
    <3>4. QED
      BY <3>1, <3>3
  <2>4. QED
    BY <1>1, <2>1, <2>2, <2>3
<1>8. \A k \in 0 .. j + 2 * MAX_MATCH - 1 : k \in reached
  <2> SUFFICES ASSUME NEW k \in 0 .. j + 2 * MAX_MATCH - 1 PROVE k \in reached
    OBVIOUS
  <2>1. k \in 0 .. j + MAX_MATCH - 1 \/ k \in skipped
    BY <1>1
  <2>2. QED
    BY <1>7, <2>1
<1> HIDE DEF reached, skipped
<1>9. 0 .. at - instart \subseteq reached
  BY <1>1, <1>8
<1>10. ASSUME NEW q \in instart .. at - 1, NEW n \in MIN_MATCH .. Longest(data, instart, q).length
       PROVE  q - instart + n \in reached
  <2>1. CASE q < i
    <3>1. q \in instart .. i - 1
      BY <1>1, <2>1
    <3>2. QED
      BY <1>3, <3>1 DEF reached
  <2>2. CASE q >= i
    <3>1. q \in i - 2 .. i + MAX_MATCH - 1 /\ q \in Nat
      BY <1>1, <2>2
    <3>2. n \in Nat /\ n <= MAX_MATCH
      BY <1>1, <1>2, <3>1
    <3>3. q - instart + n \in 0 .. j + 2 * MAX_MATCH - 1
      BY <1>1, <3>1, <3>2, <2>2
    <3>4. QED
      BY <1>8, <3>3
  <2>3. QED
    BY <1>1, <2>1, <2>2
<1>11. QED
  BY <1>4, <1>5, <1>6, <1>9, <1>10 DEF reached, skipped

\* A step of the forward pass.
LEMMA ForwardKeeps == SqueezeInv /\ ForwardStep => SqueezeInv'
<1> SUFFICES ASSUME SqueezeInv, ForwardStep PROVE SqueezeInv'
  OBVIOUS
<1> DEFINE from == WindowStart(instart)
           first == UpdateHash(data, i, inend, h)
           long == LongRepetition(first)
           j == i - instart
           at == IF long THEN i + MAX_MATCH ELSE i
           skipped == IF long THEN (j + MAX_MATCH) .. (j + 2 * MAX_MATCH - 1) ELSE {}
           hash == Hashed(first, i + 1, at + 1)
           result == Found(hash, at, MAX_MATCH, TRUE)
           jumped == Jumped(skipped)
<1>1. SearchInv /\ PhaseInv
  BY DEF SqueezeInv
<1>2. /\ phase = "forward" /\ i < inend
      /\ UNCHANGED <<data, instart, mode, phase, previous, path, store, stats, iteration,
                     lastcost, random, best>>
      /\ Reach(at, result.found, jumped, skipped, GetCostModelMinCost)
      /\ lmc' = result.lmc /\ i' = at + 1 /\ h' = hash
  BY DEF ForwardStep, ForwardHashed, ForwardSearch, ForwardFound
<1>3. /\ inend \in Nat /\ inend = Len(data) /\ instart \in Nat /\ i \in Nat /\ instart <= i
      /\ blocksize = inend - instart /\ from \in Nat /\ from <= instart /\ MAX_MATCH \in Nat
  BY <1>1, Block, Sizes
<1>4. first = HashBefore(data, from, i + 1)
  BY <1>1, <1>2, HashAfter
<1>5. ForwardOk(data, instart, i, costs, lengths) /\ store = EmptyStore
  BY <1>1, <1>2 DEF PhaseInv
<1>6. DOMAIN jumped = DOMAIN costs \union skipped
  BY DEF Jumped
<1>7. /\ at \in i .. inend - 1
      /\ DOMAIN costs \union skipped \subseteq 0 .. blocksize
      /\ Skippable(skipped)
      /\ 0 .. at - instart \subseteq DOMAIN costs \union skipped
      /\ \A q \in instart .. at - 1 : \A n \in MIN_MATCH .. Longest(data, instart, q).length :
           q - instart + n \in DOMAIN costs \union skipped
  <2> HIDE DEF first
  <2>1. CASE long
    <3>1. LongRepetition(HashBefore(data, WindowStart(instart), i + 1))
      BY <1>4, <2>1
    <3>2. LET t == i + MAX_MATCH
              s == (j + MAX_MATCH) .. (j + 2 * MAX_MATCH - 1)
              reached == DOMAIN costs \union s
          IN  /\ t \in i .. inend - 1
              /\ reached \subseteq 0 .. blocksize
              /\ Skippable(s)
              /\ 0 .. t - instart \subseteq reached
              /\ \A q \in instart .. t - 1 : \A n \in MIN_MATCH .. Longest(data, instart, q).length :
                   q - instart + n \in reached
      BY <1>1, <1>2, <1>5, <3>1, SkippedAreReached
    <3>3. at = i + MAX_MATCH /\ skipped = (j + MAX_MATCH) .. (j + 2 * MAX_MATCH - 1)
      BY <2>1
    <3> HIDE DEF at, skipped, long
    <3>4. QED
      BY <3>2, <3>3
  <2>2. CASE ~ long
    <3>1. at = i /\ skipped = {}
      BY <2>2
    <3> HIDE DEF at, skipped, long
    <3>2. Skippable(skipped)
      BY <3>1 DEF Skippable
    <3>3. QED
      BY <1>2, <1>3, <1>5, <3>1, <3>2 DEF ForwardOk
  <2>3. QED
    BY <2>1, <2>2
<1> HIDE DEF at, skipped, long, first, jumped
<1>8. at \in Nat /\ at >= i /\ at + 1 \in Nat /\ i + 1 <= at + 1 /\ i + 1 \in Nat /\ i + 1 >= instart
      /\ at \in instart .. inend - 1 /\ instart < inend /\ at + 1 \in instart .. inend
  BY <1>2, <1>3, <1>7
<1>9. hash = HashBefore(data, from, at + 1)
  BY <1>1, <1>4, <1>8, HashFurther
<1> HIDE DEF hash
<1>10. /\ Agreed(result.found, Longest(data, instart, at))
       /\ CacheInv(data, WindowStart(instart), instart, result.lmc)
  BY <1>1, <1>8, <1>9, FoundLongest
<1> HIDE DEF result
<1>11. \A k \in DOMAIN costs \ {0} : Way(data, instart, k, lengths[k])
  BY <1>5 DEF ForwardOk
<1>12. /\ ForwardOk(data, instart, at + 1, costs', lengths')
       /\ lengths' \in [0 .. blocksize -> Nat]
  BY <1>1, <1>2, <1>6, <1>7, <1>10, <1>11, ReachKeeps
<1>13. HashOk(data, instart, at + 1, h')
  BY <1>2, <1>9 DEF HashOk
<1>14. SearchInv'
  BY <1>1, <1>2, <1>8, <1>10, <1>12, <1>13 DEF SearchInv, inend, blocksize
<1>15. PhaseInv'
  BY <1>1, <1>2, <1>5, <1>12 DEF PhaseInv, inend
<1>16. QED
  BY <1>14, <1>15 DEF SqueezeInv

-----------------------------------------------------------------------------
(* The way back.                                                           *)

\* A walk back from the end: its path leads from where it stands to the end.
Traced(w) ==
    /\ w \in [index : 0 .. blocksize, path : Seq(Nat)]
    /\ Leads(data, instart, lengths, w.index, w.path)

\* One step further back.
LEMMA EarlierKeeps ==
    ASSUME SearchInv, \A k \in 1 .. blocksize : Way(data, instart, k, lengths[k]),
           NEW w, Traced(w)
    PROVE  /\ Traced(Earlier(w))
           /\ IF w.index = 0 THEN Earlier(w) = w ELSE Earlier(w).index < w.index
<1>1. CASE w.index = 0
  BY <1>1 DEF Earlier
<1>2. CASE w.index # 0
  <2> DEFINE k == w.index
             n == lengths[k]
             p == w.path
             q == << n >> \o p
             v == [index |-> k - n, path |-> q]
  <2>1. /\ blocksize \in Nat /\ blocksize = Len(data) - instart
        /\ k \in Nat /\ k <= blocksize /\ k >= 1 /\ p \in Seq(Nat) /\ Len(p) \in Nat
    BY <1>2, Block DEF Traced
  <2>2. n \in Nat
    BY <2>1 DEF SearchInv
  <2>3. Way(data, instart, k, n)
    BY <2>1
  <2>4. PICK at \in [0 .. Len(p) -> 0 .. Len(data) - instart] :
          /\ at[0] = k /\ at[Len(p)] = Len(data) - instart
          /\ \A t \in 1 .. Len(p) : /\ at[t] = at[t - 1] + p[t] /\ p[t] = lengths[at[t]]
                                   /\ Way(data, instart, at[t], p[t])
    BY DEF Traced, Leads
  <2>5. Earlier(w) = v
    BY <1>2 DEF Earlier
  <2>14. n = lengths[k]
    OBVIOUS
  <2> HIDE DEF k, n, p
  <2>6. n >= 1 /\ n <= k
    BY <2>1, <2>2, <2>3 DEF Way, MIN_MATCH
  <2>7. /\ q \in Seq(Nat) /\ Len(q) = Len(p) + 1 /\ q[1] = n
        /\ \A t \in 1 .. Len(p) : q[t + 1] = p[t]
    BY <2>1, <2>2
  <2> HIDE DEF q
  <2> DEFINE bt == [t \in 0 .. Len(q) |-> IF t = 0 THEN k - n ELSE at[t - 1]]
  <2>8. bt \in [0 .. Len(q) -> 0 .. Len(data) - instart]
    <3>1. Len(q) \in Nat /\ Len(p) \in Nat /\ Len(q) = Len(p) + 1
      BY <2>2, <2>7
    <3>2. k - n \in 0 .. Len(data) - instart
      BY <2>1, <2>2, <2>6
    <3>3. ASSUME NEW t \in 0 .. Len(q), t # 0
          PROVE  at[t - 1] \in 0 .. Len(data) - instart
      <4>1. t - 1 \in 0 .. Len(p)
        BY <3>1, <3>3
      <4> QED BY <2>4, <4>1
    <3> QED BY <3>2, <3>3
  <2>9. bt[0] = k - n /\ bt[Len(q)] = Len(data) - instart
    BY <2>1, <2>4, <2>7
  <2>10. ASSUME NEW t \in 1 .. Len(q)
         PROVE  /\ bt[t] = bt[t - 1] + q[t] /\ q[t] = lengths[bt[t]]
                /\ Way(data, instart, bt[t], q[t])
    <3>1. CASE t = 1
      <4>1. bt[1] = k /\ bt[0] = k - n /\ t - 1 = 0
        BY <2>1, <2>4, <2>7, <3>1
      <4> HIDE DEF bt
      <4>2. QED
        BY <2>1, <2>2, <2>3, <2>7, <2>14, <3>1, <4>1
    <3>2. CASE t # 1
      <4> DEFINE s == t - 1
      <4>1. s \in 1 .. Len(p) /\ t = s + 1
        BY <2>1, <2>7, <3>2
      <4>2. bt[t] = at[s] /\ bt[s] = at[s - 1] /\ q[t] = p[s]
        <5>1. t \in 0 .. Len(q) /\ t # 0 /\ s \in 0 .. Len(q) /\ s # 0
          BY <2>1, <2>7, <4>1
        <5>2. bt[t] = at[t - 1] /\ bt[s] = at[s - 1]
          BY <5>1
        <5>3. q[s + 1] = p[s]
          BY <2>7, <4>1
        <5> HIDE DEF bt
        <5>4. QED
          BY <4>1, <5>2, <5>3 DEF s
      <4>3. at[s] = at[s - 1] + p[s] /\ p[s] = lengths[at[s]] /\ Way(data, instart, at[s], p[s])
        BY <2>4, <4>1
      <4> HIDE DEF bt, s
      <4>4. bt[t - 1] = bt[s]
        BY DEF s
      <4>5. QED
        BY <4>2, <4>3, <4>4
    <3>3. QED
      BY <3>1, <3>2
  <2> HIDE DEF bt
  <2>11. Leads(data, instart, lengths, k - n, q)
    BY <2>7, <2>8, <2>9, <2>10 DEF Leads
  <2>12. v \in [index : 0 .. blocksize, path : Seq(Nat)] /\ v.index < k
    BY <2>1, <2>2, <2>6, <2>7
  <2>13. QED
    BY <1>2, <2>5, <2>11, <2>12 DEF Traced, k
<1>3. QED
  BY <1>1, <1>2

\* The walk back goes from byte to byte, and ends at the first one.
LEMMA BackwardsLeads ==
    ASSUME SearchInv, \A k \in 1 .. blocksize : Way(data, instart, k, lengths[k])
    PROVE  Leads(data, instart, lengths, 0, Backwards)
<1> DEFINE S == {w \in [index : 0 .. blocksize, path : Seq(Nat)] : Traced(w)}
           base == [index |-> blocksize, path |-> << >>]
           step == [q \in Nat \X S |-> Earlier(q[2])]
           g == Traces
<1>1. blocksize \in Nat /\ blocksize = Len(data) - instart
  BY Block
<1>2. base \in S
  <2>1. << >> \in Seq(Nat) /\ Len(<< >>) = 0
    OBVIOUS
  <2> DEFINE at == [t \in 0 .. 0 |-> blocksize]
  <2>2. /\ at \in [0 .. Len(<< >>) -> 0 .. Len(data) - instart]
        /\ at[0] = blocksize /\ at[Len(<< >>)] = Len(data) - instart
    BY <1>1, <2>1
  <2>3. 1 .. Len(<< >>) = {}
    BY <2>1
  <2> HIDE DEF at
  <2>4. Leads(data, instart, lengths, blocksize, << >>)
    BY <2>1, <2>2, <2>3 DEF Leads
  <2>5. base.index = blocksize /\ base.path = << >>
        /\ base \in [index : 0 .. blocksize, path : Seq(Nat)]
    BY <1>1, <2>1
  <2> HIDE DEF base
  <2>6. Traced(base)
    BY <2>4, <2>5 DEF Traced
  <2>7. QED
    BY <2>5, <2>6
<1>3. \A w \in S : Earlier(w) \in S
  BY EarlierKeeps DEF Traced
<1>4. Maps(S, step)
  BY <1>3 DEF Maps
<1> HIDE DEF S, base
<1>5. PICK f : Follows(f, S, base, step)
  BY <1>2, <1>4, Recursion
<1>6. /\ f[0] = base
      /\ \A n \in Nat \ {0} : f[n] = Earlier(f[n - 1]) /\ f[n - 1] \in S
  <2>1. f \in [Nat -> S] /\ f[0] = base
    BY <1>5 DEF Follows
  <2>2. ASSUME NEW n \in Nat \ {0} PROVE f[n] = Earlier(f[n - 1]) /\ f[n - 1] \in S
    <3>1. f[n - 1] \in S /\ n - 1 \in Nat
      BY <2>1
    <3>2. f[n] = step[<< n, f[n - 1] >>]
      BY <1>5 DEF Follows
    <3>3. QED
      BY <3>1, <3>2
  <2>3. QED
    BY <2>1, <2>2
<1>7. f = [n \in Nat |-> IF n = 0 THEN base ELSE Earlier(f[n - 1])]
  <2>1. f = [n \in Nat |-> f[n]]
    BY <1>5 DEF Follows
  <2>2. QED
    BY <1>6, <2>1
<1>8. /\ g[0] = base /\ \A n \in Nat \ {0} : g[n] = Earlier(g[n - 1])
  <2> DEFINE Solution(r) == r = [n \in Nat |-> IF n = 0 THEN base ELSE Earlier(r[n - 1])]
  <2>1. g = CHOOSE r : Solution(r)
    BY DEF Traces, base
  <2>2. Solution(f)
    BY <1>7
  <2>3. Solution(g)
    BY <2>1, <2>2
  <2> HIDE DEF g
  <2>4. QED
    BY <2>3
<1> HIDE DEF g
<1>9. \A n \in Nat : g[n] \in S /\ (g[n].index + n <= blocksize \/ g[n].index = 0)
  <2> DEFINE T == {n \in Nat : g[n] \in S /\ (g[n].index + n <= blocksize \/ g[n].index = 0)}
  <2>1. 0 \in T
    BY <1>1, <1>2, <1>8 DEF base
  <2>2. ASSUME NEW n \in Nat, n \in T PROVE n + 1 \in T
    <3>1. g[n + 1] = Earlier(g[n])
      BY <1>8
    <3>2. Traced(g[n]) /\ g[n] \in S
      BY <2>2 DEF S
    <3>3. IF g[n].index = 0 THEN Earlier(g[n]) = g[n] ELSE Earlier(g[n]).index < g[n].index
      BY <3>2, EarlierKeeps
    <3>4. g[n + 1] \in S
      BY <1>3, <3>1, <3>2
    <3>5. g[n].index \in Nat /\ g[n + 1].index \in Nat
      BY <1>1, <3>2, <3>4 DEF S
    <3>6. g[n].index + n <= blocksize \/ g[n].index = 0
      BY <2>2
    <3>7. g[n + 1].index + (n + 1) <= blocksize \/ g[n + 1].index = 0
      BY <1>1, <3>1, <3>3, <3>5, <3>6
    <3>8. QED
      BY <3>4, <3>7
  <2> HIDE DEF T
  <2>3. Nat \subseteq T
    BY <2>1, <2>2, Induction
  <2>4. QED
    BY <2>3 DEF T
<1>10. g[blocksize].index = 0 /\ g[blocksize] \in S
  <2>1. g[blocksize] \in S /\ (g[blocksize].index + blocksize <= blocksize \/ g[blocksize].index = 0)
    BY <1>1, <1>9
  <2>2. g[blocksize].index \in Nat
    BY <1>1, <2>1 DEF S
  <2>3. QED
    BY <1>1, <2>1, <2>2
<1>11. Traced(g[blocksize])
  BY <1>10 DEF S
<1>12. QED
  BY <1>10, <1>11 DEF Traced, Backwards, g

\* The end of the forward pass: every byte was reached.
LEMMA TraceKeeps == SqueezeInv /\ TraceBackwards => SqueezeInv'
<1> SUFFICES ASSUME SqueezeInv, TraceBackwards PROVE SqueezeInv'
  OBVIOUS
<1>1. SearchInv /\ PhaseInv
  BY DEF SqueezeInv
<1>2. /\ phase = "forward" /\ i >= inend
      /\ phase' = "follow" /\ path' = Backwards
      /\ i' = instart /\ h' = StartHash(data, instart, inend)
      /\ UNCHANGED <<data, instart, mode, lmc, previous, costs, lengths, store, stats, iteration,
                     lastcost, random, best>>
  BY DEF TraceBackwards
<1>3. /\ inend \in Nat /\ inend = Len(data) /\ instart \in Nat /\ i \in Nat /\ i = inend
      /\ instart <= inend /\ blocksize = inend - instart
  BY <1>1, <1>2, Block
<1>4. ForwardOk(data, instart, i, costs, lengths) /\ store = EmptyStore
  BY <1>1, <1>2 DEF PhaseInv
<1>5. \A k \in 1 .. blocksize : Way(data, instart, k, lengths[k])
  <2> SUFFICES ASSUME NEW k \in 1 .. blocksize PROVE Way(data, instart, k, lengths[k])
    OBVIOUS
  <2>1. k \in 0 .. i - instart /\ k # 0
    BY <1>3
  <2>2. k \in DOMAIN costs \ {0}
    BY <1>4, <2>1 DEF ForwardOk
  <2>3. QED
    BY <1>4, <2>2 DEF ForwardOk
<1>6. Leads(data, instart, lengths, 0, path')
  BY <1>1, <1>2, <1>5, BackwardsLeads
<1>7. HashOk(data, instart, i', h')
  BY <1>1, <1>2, HashAtStart
<1>8. Covers(data, instart, store', i')
  BY <1>2, <1>4, NoCommand
<1>9. i' \in instart .. inend /\ i' - instart = 0
  BY <1>2, <1>3
<1>10. SearchInv'
  BY <1>1, <1>2, <1>7, <1>9 DEF SearchInv, inend, blocksize
<1>11. PhaseInv'
  BY <1>1, <1>2, <1>6, <1>8, <1>9 DEF PhaseInv, inend
<1>12. QED
  BY <1>10, <1>11 DEF SqueezeInv

\* The first length of a path, and what the rest of it leads from.
LEMMA FirstOfPath ==
    ASSUME NEW array \in Seq(Byte), NEW start \in 0 .. Len(array), NEW ls, NEW k, NEW p,
           Leads(array, start, ls, k, p), p # << >>
    PROVE  /\ k \in Nat /\ p[1] \in Nat /\ k + p[1] \in 0 .. Len(array) - start
           /\ p[1] = ls[k + p[1]] /\ Way(array, start, k + p[1], p[1])
           /\ Leads(array, start, ls, k + p[1], Tail(p))
<1>1. /\ p \in Seq(Nat) /\ Len(p) \in Nat /\ Len(p) >= 1 /\ Len(array) \in Nat /\ start \in Nat
      /\ start <= Len(array)
  <2>1. p \in Seq(Nat)
    BY DEF Leads
  <2>2. Len(p) \in Nat /\ Len(p) # 0
    BY <2>1, EmptySeq
  <2>3. Len(array) \in Nat
    OBVIOUS
  <2>4. QED
    BY <2>1, <2>2, <2>3
<1>2. PICK at \in [0 .. Len(p) -> 0 .. Len(array) - start] :
        /\ at[0] = k /\ at[Len(p)] = Len(array) - start
        /\ \A t \in 1 .. Len(p) : /\ at[t] = at[t - 1] + p[t] /\ p[t] = ls[at[t]]
                                 /\ Way(array, start, at[t], p[t])
  BY DEF Leads
<1>3. /\ k \in Nat /\ p[1] \in Nat /\ at[1] = k + p[1] /\ at[1] \in 0 .. Len(array) - start
      /\ p[1] = ls[at[1]] /\ Way(array, start, at[1], p[1])
  <2>1. 0 \in 0 .. Len(p) /\ 1 \in 0 .. Len(p) /\ 1 \in 1 .. Len(p) /\ 1 - 1 = 0
    BY <1>1
  <2>2. at[1] = at[1 - 1] + p[1] /\ p[1] = ls[at[1]] /\ Way(array, start, at[1], p[1])
    BY <1>2, <2>1
  <2>3. at[0] \in 0 .. Len(array) - start /\ at[1] \in 0 .. Len(array) - start
    BY <1>2, <2>1
  <2>4. p[1] \in Nat
    BY <1>1, <2>1, ElementOfSeq
  <2>5. QED
    BY <1>1, <1>2, <2>1, <2>2, <2>3, <2>4
<1> DEFINE q == Tail(p)
<1>4. /\ q \in Seq(Nat) /\ Len(q) = Len(p) - 1
      /\ \A t \in 1 .. Len(q) : q[t] = p[t + 1]
  BY <1>1
<1> HIDE DEF q
<1> DEFINE bt == [t \in 0 .. Len(q) |-> at[t + 1]]
<1>5. bt \in [0 .. Len(q) -> 0 .. Len(array) - start]
  BY <1>1, <1>2, <1>4
<1>6. bt[0] = at[1] /\ bt[Len(q)] = Len(array) - start
  BY <1>1, <1>2, <1>4
<1>7. ASSUME NEW t \in 1 .. Len(q)
      PROVE  bt[t] = bt[t - 1] + q[t] /\ q[t] = ls[bt[t]] /\ Way(array, start, bt[t], q[t])
  <2>1. t \in Nat /\ t \in 0 .. Len(q) /\ t - 1 \in 0 .. Len(q) /\ t + 1 \in 1 .. Len(p)
        /\ (t + 1) - 1 = t /\ (t - 1) + 1 = t
    BY <1>1, <1>4
  <2>2. bt[t] = at[t + 1] /\ bt[t - 1] = at[(t - 1) + 1]
    BY <2>1
  <2>3. /\ at[t + 1] = at[(t + 1) - 1] + p[t + 1] /\ p[t + 1] = ls[at[t + 1]]
        /\ Way(array, start, at[t + 1], p[t + 1])
    BY <1>2, <2>1
  <2>4. q[t] = p[t + 1]
    BY <1>4
  <2> HIDE DEF bt
  <2>5. QED
    BY <2>1, <2>2, <2>3, <2>4
<1> HIDE DEF bt
<1>8. Leads(array, start, ls, at[1], q)
  BY <1>4, <1>5, <1>6, <1>7 DEF Leads
<1>9. QED
  BY <1>3, <1>8 DEF q

\* The command that a length of the path stands for.
Followed(hash, n) ==
    IF n >= MIN_MATCH THEN Copy(n, Found(hash, i, n, FALSE).found.dist, i) ELSE LiteralAt(i)

\* It is the one that the forward pass found, it reproduces the bytes, and the
\* cache is kept.
LEMMA FollowedIsRight ==
    ASSUME SearchInv, i < inend, NEW n \in Nat, Way(data, instart, i - instart + n, n),
           NEW hash, hash = HashBefore(data, WindowStart(instart), i + 1)
    PROVE  /\ Followed(hash, n) \in Command /\ Followed(hash, n).pos = i
           /\ Right(data, Followed(hash, n)) /\ Size(Followed(hash, n)) = n
           /\ Followed(hash, n) = StepTo(data, instart, i - instart + n, n)
           /\ n < MIN_MATCH => n = 1
           /\ n >= MIN_MATCH =>
                CacheInv(data, WindowStart(instart), instart, Found(hash, i, n, FALSE).lmc)
<1>1. i \in Nat /\ instart \in Nat /\ instart <= i /\ i \in instart .. inend - 1 /\ MIN_MATCH = 3
  BY Block DEF MIN_MATCH
<1>2. CASE n >= MIN_MATCH
  <2> DEFINE result == Found(hash, i, n, FALSE)
  <2>1. n \in MIN_MATCH .. MAX_MATCH
    BY <1>1, <1>2 DEF Way
  <2>2. instart + (i - instart + n) - n = i
    BY <1>1
  <2>3. Longest(data, instart, i).length >= n
    BY <1>1, <1>2, <2>2 DEF Way
  <2>4. /\ IsMatch(data, i, result.found.dist, n)
        /\ result.found.dist = Longest(data, instart, i).sublen[n]
        /\ CacheInv(data, WindowStart(instart), instart, result.lmc)
    BY <1>1, <2>1, <2>3, FoundLength
  <2> HIDE DEF result
  <2> DEFINE dist == result.found.dist
  <2> HIDE DEF dist
  <2>5. /\ Copy(n, dist, i) \in Command /\ Copy(n, dist, i).pos = i
        /\ Right(data, Copy(n, dist, i)) /\ Size(Copy(n, dist, i)) = n
    BY <1>1, <2>1, <2>4, CopyIsRight DEF dist
  <2>6. Followed(hash, n) = Copy(n, dist, i)
    BY <1>2 DEF Followed, dist, result
  <2>7. ~ (n < MIN_MATCH) /\ n # 1
    BY <1>1, <2>1
  <2>8. Followed(hash, n) = StepTo(data, instart, i - instart + n, n)
    BY <2>2, <2>4, <2>6, <2>7 DEF StepTo, dist
  <2>9. QED
    BY <2>4, <2>5, <2>6, <2>7, <2>8 DEF result
<1>3. CASE ~ (n >= MIN_MATCH)
  <2>1. n = 1
    BY <1>1, <1>3 DEF Way
  <2>2. /\ LiteralAt(i) \in Command /\ LiteralAt(i).pos = i
        /\ Right(data, LiteralAt(i)) /\ Size(LiteralAt(i)) = 1
    BY <1>1, LiteralIsRight
  <2>3. LiteralAt(i) = StepTo(data, instart, i - instart + n, n)
    <3>1. instart + (i - instart + n) = i + 1 /\ instart + (i - instart + n) - 1 = i
      BY <1>1, <2>1
    <3>2. QED
      BY <2>1, <3>1 DEF StepTo, LiteralAt
  <2>4. QED
    BY <1>1, <1>3, <2>1, <2>2, <2>3 DEF Followed
<1>4. QED
  BY <1>2, <1>3

\* A step along the path.
LEMMA FollowKeeps == SqueezeInv /\ FollowPath => SqueezeInv'
<1> SUFFICES ASSUME SqueezeInv, FollowPath PROVE SqueezeInv'
  OBVIOUS
<1> DEFINE hash == UpdateHash(data, i, inend, h)
           n == path[1]
           result == Found(hash, i, n, FALSE)
           match == n >= MIN_MATCH
           length == IF match THEN n ELSE 1
           c == Followed(hash, n)
           k == i - instart
<1>1. SearchInv /\ PhaseInv
  BY DEF SqueezeInv
<1>2. /\ phase = "follow" /\ path # << >>
      /\ store' = ZopfliStoreLitLenDist(c, store)
      /\ lmc' = IF match THEN result.lmc ELSE lmc
      /\ i' = i + length /\ h' = Hashed(hash, i + 1, i + length)
      /\ path' = Tail(path)
      /\ UNCHANGED <<data, instart, mode, phase, previous, costs, lengths, stats, iteration,
                     lastcost, random, best>>
  BY DEF FollowPath, Followed
<1>3. /\ data \in Seq(Byte) /\ inend \in Nat /\ inend = Len(data) /\ instart \in Nat /\ i \in Nat
      /\ instart <= inend /\ instart <= i /\ instart \in 0 .. Len(data)
  BY <1>1, Block
<1>4. Leads(data, instart, lengths, k, path) /\ Covers(data, instart, store, i)
  BY <1>1, <1>2 DEF PhaseInv
<1> HIDE DEF k
<1>5. /\ k \in Nat /\ n \in Nat /\ k + n \in 0 .. Len(data) - instart
      /\ Way(data, instart, k + n, n)
      /\ Leads(data, instart, lengths, k + n, Tail(path))
  BY <1>2, <1>3, <1>4, FirstOfPath
<1> HIDE DEF n
<1>6. n >= 1
  BY <1>5 DEF Way, MIN_MATCH
<1>7. i < inend /\ i + n \in instart .. inend /\ (i + n) - instart = k + n
  BY <1>3, <1>5, <1>6 DEF k
<1>8. hash = HashBefore(data, WindowStart(instart), i + 1)
  BY <1>1, <1>7, HashAfter
<1> HIDE DEF hash
<1>9. /\ c \in Command /\ c.pos = i /\ Right(data, c) /\ Size(c) = n
      /\ n < MIN_MATCH => n = 1
      /\ match => CacheInv(data, WindowStart(instart), instart, result.lmc)
  <2>1. Way(data, instart, i - instart + n, n)
    BY <1>5 DEF k
  <2>2. QED
    BY <1>1, <1>5, <1>7, <1>8, <2>1, FollowedIsRight
<1> HIDE DEF c, result
<1>10. length = n
  BY <1>5, <1>9 DEF MIN_MATCH
<1> HIDE DEF length
<1>11. CacheInv(data, WindowStart(instart), instart, lmc')
  <2>1. CacheInv(data, WindowStart(instart), instart, lmc)
    BY <1>1 DEF SearchInv
  <2>2. QED
    BY <1>2, <1>9, <2>1
<1>12. Covers(data, instart, store', i + n)
  BY <1>2, <1>3, <1>4, <1>9, <1>10, NewCommand
<1>13. HashOk(data, instart, i + n, h')
  <2>1. instart < inend /\ i + 1 \in Nat /\ i + 1 >= instart /\ i + n \in Nat /\ i + 1 <= i + n
    BY <1>3, <1>5, <1>6, <1>7
  <2>2. h' = Hashed(HashBefore(data, WindowStart(instart), i + 1), i + 1, i + n)
    BY <1>2, <1>8, <1>10
  <2>3. h' = HashBefore(data, WindowStart(instart), i + n)
    BY <1>1, <2>1, <2>2, HashFurther
  <2>4. QED
    BY <2>3 DEF HashOk
<1>14. i' = i + n /\ path' = Tail(path)
  BY <1>2, <1>10
<1>15. SearchInv'
  BY <1>1, <1>2, <1>7, <1>11, <1>13, <1>14 DEF SearchInv, inend, blocksize
<1>16. PhaseInv'
  BY <1>1, <1>2, <1>5, <1>7, <1>12, <1>14 DEF PhaseInv, inend
<1>17. QED
  BY <1>15, <1>16 DEF SqueezeInv

-----------------------------------------------------------------------------
(* The end of a run, and the start of the next one.                        *)

\* At the end of the path the whole block is stored.
LEMMA PathEnds ==
    ASSUME SqueezeInv, phase = "follow", path = << >>
    PROVE  Covers(data, instart, store, inend)
<1>1. Leads(data, instart, lengths, i - instart, path) /\ Covers(data, instart, store, i)
  BY DEF SqueezeInv, PhaseInv
<1>2. inend = Len(data) /\ inend \in Nat /\ instart \in Nat /\ i \in Nat
  BY Block DEF SqueezeInv
<1>3. Len(path) = 0
  OBVIOUS
<1>4. i - instart = Len(data) - instart
  BY <1>1, <1>3 DEF Leads
<1>5. i = inend
  BY <1>2, <1>4
<1>6. QED
  BY <1>1, <1>5

\* The end of the parse with the costs of the fixed tree.
LEMMA FixedKeeps == SqueezeInv /\ ZopfliLZ77OptimalFixed => SqueezeInv'
<1> SUFFICES ASSUME SqueezeInv, ZopfliLZ77OptimalFixed PROVE SqueezeInv'
  OBVIOUS
<1>1. /\ phase = "follow" /\ path = << >> /\ phase' = "done"
      /\ UNCHANGED <<data, instart, mode, i, h, lmc, previous, costs, lengths, path, store,
                     stats, iteration, lastcost, random, best>>
  BY DEF ZopfliLZ77OptimalFixed
<1>2. Covers(data, instart, store, inend)
  BY <1>1, PathEnds
<1>3. SearchInv /\ PhaseInv
  BY DEF SqueezeInv
<1>4. SearchInv'
  BY <1>1, <1>3 DEF SearchInv, inend, blocksize
<1>5. PhaseInv'
  BY <1>1, <1>2, <1>3 DEF PhaseInv, inend
<1>6. QED
  BY <1>4, <1>5 DEF SqueezeInv

\* The end of an iteration: its store may become the best one.
LEMMA EndOfRunKeeps == SqueezeInv /\ EndOfRun => SqueezeInv'
<1> SUFFICES ASSUME SqueezeInv, EndOfRun PROVE SqueezeInv'
  OBVIOUS
<1> DEFINE cost == BlockSize(store)
           better == best = NoBest \/ cost < best.cost
<1>1. /\ phase = "follow" /\ path = << >>
      /\ best' = IF better THEN [cost |-> cost, store |-> store, stats |-> stats] ELSE best
      /\ IF iteration + 1 < Iterations THEN StartForward
         ELSE phase' = "done" /\ UNCHANGED <<i, h, costs, store>>
      /\ UNCHANGED <<data, instart, mode, lmc, previous, lengths, path>>
  BY DEF EndOfRun
<1>2. Covers(data, instart, store, inend)
  BY <1>1, PathEnds
<1>3. SearchInv /\ PhaseInv
  BY DEF SqueezeInv
<1>4. best' # NoBest => Covers(data, instart, best'.store, inend)
  <2>1. CASE better
    <3>1. best'.store = store
      BY <1>1, <2>1
    <3>2. QED
      BY <1>2, <3>1
  <2>2. CASE ~ better
    <3>1. best' = best
      BY <1>1, <2>2
    <3>2. best # NoBest => Covers(data, instart, best.store, inend)
      BY <1>3 DEF PhaseInv
    <3>3. QED
      BY <3>1, <3>2
  <2>3. QED
    BY <2>1, <2>2
<1> HIDE DEF better
<1>5. CASE iteration + 1 < Iterations
  <2>1. /\ phase' = "forward" /\ i' \in instart .. inend /\ store' = EmptyStore
        /\ HashOk(data, instart, i', h')
        /\ ForwardOk(data, instart, i', costs', lengths)
    BY <1>1, <1>3, <1>5, ForwardStarted
  <2>2. SearchInv'
    BY <1>1, <1>3, <2>1 DEF SearchInv, inend, blocksize
  <2>3. PhaseInv'
    BY <1>1, <1>3, <1>4, <2>1 DEF PhaseInv, inend
  <2>4. QED
    BY <2>2, <2>3 DEF SqueezeInv
<1>6. CASE ~ (iteration + 1 < Iterations)
  <2>1. phase' = "done" /\ UNCHANGED <<i, h, costs, store>>
    BY <1>1, <1>6
  <2>2. SearchInv'
    BY <1>1, <1>3, <2>1 DEF SearchInv, inend, blocksize
  <2>3. PhaseInv'
    BY <1>1, <1>2, <1>3, <1>4, <2>1 DEF PhaseInv, inend
  <2>4. QED
    BY <2>2, <2>3 DEF SqueezeInv
<1>7. QED
  BY <1>5, <1>6

\* The start: an empty cache, and a hash of the window before the block.
LEMMA InitSqueeze == Init => SqueezeInv
<1> SUFFICES ASSUME Init PROVE SqueezeInv
  OBVIOUS
<1>1. /\ phase = (IF mode = "fixed" THEN "forward" ELSE "greedy")
      /\ i = instart /\ h = StartHash(data, instart, Len(data))
      /\ lmc = (IF mode = "greedy" THEN NoCache ELSE InitCache(Len(data) - instart))
      /\ previous = NoMatch /\ costs = [j \in {0} |-> 0]
      /\ lengths = [j \in 0 .. (Len(data) - instart) |-> 0]
      /\ store = EmptyStore /\ best = NoBest
  BY DEF Init
<1>2. data \in Seq(Byte) /\ instart \in 0 .. Len(data)
  <2>1. PICK input \in Inputs : data = input[1] /\ instart = input[2]
    BY DEF Init
  <2>2. input[1] \in Seq(Byte) /\ input[2] \in 0 .. Len(input[1])
    BY SqueezeAssumption
  <2>3. QED
    BY <2>1, <2>2
<1>3. Len(data) \in Nat /\ instart \in Nat /\ instart <= Len(data) /\ Len(data) - instart \in Nat
  BY <1>2
<1>4. HashOk(data, instart, i, h)
  BY <1>1, <1>2, <1>3, StartHashIs DEF HashOk
<1>5. CacheInv(data, WindowStart(instart), instart, lmc)
  <2>1. CASE mode = "greedy"
    BY <1>1, <2>1 DEF CacheInv
  <2>2. CASE mode # "greedy"
    <3> DEFINE top == Len(data) - instart - 1
    <3>1. lmc = [k \in 0 .. top |-> NoEntry]
      BY <1>1, <2>2 DEF InitCache
    <3> HIDE DEF top
    <3>2. \A k \in 0 .. top : lmc[k] = NoEntry
      BY <3>1
    <3>3. lmc = [k \in 0 .. top |-> lmc[k]]
      BY <3>1
    <3>4. \A k \in 0 .. top : EntryOf(data, WindowStart(instart), instart + k, lmc[k])
      BY <3>2 DEF EntryOf
    <3>5. QED
      BY <3>3, <3>4 DEF CacheInv, top
  <2>3. QED
    BY <2>1, <2>2
<1>6. lengths \in [0 .. Len(data) - instart -> Nat]
  BY <1>1
<1>7. SearchInv
  BY <1>1, <1>2, <1>3, <1>4, <1>5, <1>6 DEF SearchInv, inend, blocksize
<1>8. Covers(data, instart, store, i)
  BY <1>1, NoCommand
<1>9. GreedyOk(data, instart, i, previous, store)
  BY <1>1, <1>8 DEF GreedyOk
<1>10. ForwardOk(data, instart, i, costs, lengths)
  <2>1. DOMAIN costs = {0}
    BY <1>1
  <2>2. {0} \subseteq 0 .. Len(data) - instart /\ 0 .. instart - instart \subseteq {0}
        /\ instart .. instart - 1 = {}
    BY <1>3
  <2>3. QED
    BY <1>1, <2>1, <2>2 DEF ForwardOk
<1>11. PhaseInv
  <2>1. phase \in {"greedy", "forward"}
    BY <1>1
  <2>2. QED
    BY <1>1, <1>9, <1>10, <2>1 DEF PhaseInv
<1>12. QED
  BY <1>7, <1>11 DEF SqueezeInv

\* The invariant of all the parses.
LEMMA SqueezeInvariant == Spec => []SqueezeInv
<1>1. SqueezeInv /\ UNCHANGED vars => SqueezeInv'
  BY DEF SqueezeInv, SearchInv, PhaseInv, vars, inend, blocksize
<1>2. SqueezeInv /\ [Next]_vars => SqueezeInv'
  BY <1>1, GreedyKeeps, GreedyEndKeeps, ForwardKeeps, TraceKeeps, FollowKeeps, FixedKeeps,
     EndOfRunKeeps DEF Next
<1>3. QED
  BY <1>2, InitSqueeze, PTL DEF Spec

\* What the parses store reproduces the bytes of the block, one command after
\* the other, for whatever data, window, chain limit, cache size, statistics and
\* random numbers: so far, at the end, and in the store that is returned.
THEOREM StoresReproduce == Spec => []StoreReproduces
<1>1. SqueezeInv => StoreReproduces
  <2> SUFFICES ASSUME SqueezeInv PROVE StoreReproduces
    OBVIOUS
  <2>1. SearchInv /\ PhaseInv /\ data \in Seq(Byte)
    BY DEF SqueezeInv, SearchInv
  <2>2. phase = "follow" => Reproduces(store, i)
    BY <2>1, CoversReproduces DEF PhaseInv
  <2>3. phase = "greedy" => Reproduces(store, IF previous = NoMatch THEN i ELSE i - 1)
    <3> SUFFICES ASSUME phase = "greedy"
                 PROVE  Reproduces(store, IF previous = NoMatch THEN i ELSE i - 1)
      OBVIOUS
    <3>1. GreedyOk(data, instart, i, previous, store)
      BY <2>1 DEF PhaseInv
    <3>2. CASE previous = NoMatch
      <4>1. Covers(data, instart, store, i)
        BY <3>1, <3>2 DEF GreedyOk
      <4>2. Reproduces(store, i)
        BY <2>1, <4>1, CoversReproduces
      <4>3. QED
        BY <3>2, <4>2
    <3>3. CASE previous # NoMatch
      <4>1. Covers(data, instart, store, i - 1)
        BY <3>1, <3>3 DEF GreedyOk
      <4>2. Reproduces(store, i - 1)
        BY <2>1, <4>1, CoversReproduces
      <4>3. QED
        BY <3>3, <4>2
    <3>4. QED
      BY <3>2, <3>3
  <2>4. phase = "done" => Reproduces(store, inend)
    BY <2>1, CoversReproduces DEF PhaseInv
  <2>5. best # NoBest => Reproduces(best.store, inend)
    BY <2>1, CoversReproduces DEF PhaseInv
  <2>6. QED
    BY <2>2, <2>3, <2>4, <2>5 DEF StoreReproduces
<1>2. QED
  BY <1>1, SqueezeInvariant, PTL

\* Two searches that agree with the longest match agree with each other.
LEMMA AgreedIsSame ==
    ASSUME NEW a, NEW b, NEW full, full.length \in Nat, Agreed(a, full), Agreed(b, full)
    PROVE  /\ SameMatch(a, b)
           /\ \A k \in MIN_MATCH .. b.length : a.sublen[k] = b.sublen[k]
<1>1. a.length \in Nat /\ b.length \in Nat /\ SameMatch(a, full) /\ SameMatch(b, full)
  BY DEF Agreed
<1>2. SameMatch(a, b)
  BY <1>1 DEF SameMatch, MIN_MATCH
<1>3. ASSUME NEW k \in MIN_MATCH .. b.length PROVE a.sublen[k] = b.sublen[k]
  <2>1. b.length = full.length
    BY <1>1, <1>3 DEF SameMatch, MIN_MATCH
  <2>2. QED
    BY <2>1 DEF Agreed
<1>4. QED
  BY <1>2, <1>3

\* Whatever the cache holds of a byte, and whatever part of it a search can use,
\* the answer is the one that a search without a cache gives: for every length
\* that FollowPath may ask with, and for the forward pass of the next run.
THEOREM CacheAnswersAsSearch == Spec => []CacheAgrees
<1>1. SqueezeInv => CacheAgrees
  <2> SUFFICES ASSUME SqueezeInv, phase = "follow", i = instart, NEW pos \in instart .. (inend - 1)
               PROVE  LET hash == Hashed(StartHash(data, instart, inend), instart, pos + 1)
                          Look(cache, limit, sub) ==
                            FindLongestMatch(data, hash, cache, pos - instart, pos, inend, limit, sub).found
                          all == Look(NoCache, MAX_MATCH, TRUE)
                          known == Look(lmc, MAX_MATCH, TRUE)
                      IN  /\ SameMatch(known, all)
                          /\ \A k \in MIN_MATCH .. all.length : known.sublen[k] = all.sublen[k]
                          /\ \A limit \in MIN_MATCH .. MAX_MATCH :
                               SameMatch(Look(lmc, limit, FALSE), Look(NoCache, limit, FALSE))
    BY DEF CacheAgrees, SameMatch
  <2> DEFINE from == WindowStart(instart)
             k == pos - instart
             hash == Hashed(StartHash(data, instart, inend), instart, pos + 1)
             full == Full(data, from, pos)
  <2>1. SearchInv
    BY DEF SqueezeInv
  <2>2. /\ data \in Seq(Byte) /\ inend = Len(data) /\ inend \in Nat /\ instart \in Nat
        /\ instart < inend /\ pos \in Nat /\ pos + 1 \in Nat /\ instart <= pos + 1
        /\ k \in 0 .. Len(data) - instart - 1 /\ instart + k = pos
        /\ pos \in from .. Len(data) - 1
    BY <2>1, Block
  <2>3. hash = HashBefore(data, from, pos + 1)
    <3>1. StartHash(data, instart, inend) = HashBefore(data, from, instart)
      BY <2>1, <2>2, HashAtStart DEF HashOk
    <3>2. Hashed(HashBefore(data, from, instart), instart, pos + 1) = HashBefore(data, from, pos + 1)
      BY <2>1, <2>2, HashFurther
    <3>3. QED
      BY <3>1, <3>2
  <2>4. CacheInv(data, from, instart, lmc) /\ CacheInv(data, from, instart, NoCache)
    BY <2>1 DEF SearchInv, CacheInv
  <2>5. full.length \in Nat /\ from \in Nat /\ from <= instart
    BY <2>1, <2>2, Block, FullIs
  <2> HIDE DEF k, hash, from
  <2> DEFINE Find(cache, limit, sub) ==
               FindLongestMatch(data, hash, cache, k, pos, inend, limit, sub).found
  <2>6. ASSUME NEW cache, CacheInv(data, from, instart, cache)
        PROVE  Agreed(Find(cache, MAX_MATCH, TRUE), full)
    <3>1. Agreed(Search(data, from, instart + k, cache, k, MAX_MATCH, TRUE).found,
                 Full(data, from, instart + k))
      BY <2>1, <2>2, <2>6, Block, LongestFound DEF from
    <3>2. QED
      BY <2>2, <2>3, <3>1 DEF Search
  <2>7. ASSUME NEW cache, CacheInv(data, from, instart, cache), NEW limit \in MIN_MATCH .. MAX_MATCH
        PROVE  IF full.length < limit THEN SameMatch(Find(cache, limit, FALSE), full)
               ELSE /\ Find(cache, limit, FALSE).length = limit
                    /\ Find(cache, limit, FALSE).dist = full.sublen[limit]
    <3>1. LET r == Search(data, from, instart + k, cache, k, limit, FALSE)
              whole == Full(data, from, instart + k)
          IN  /\ IF whole.length < limit THEN SameMatch(r.found, whole)
                 ELSE r.found.length = limit /\ r.found.dist = whole.sublen[limit]
              /\ CacheInv(data, from, instart, r.lmc)
      BY <2>1, <2>2, <2>5, <2>7, LengthFound
    <3>2. QED
      BY <2>2, <2>3, <3>1 DEF Search
  <2> HIDE DEF full
  <2>8. /\ Agreed(Find(lmc, MAX_MATCH, TRUE), full)
        /\ Agreed(Find(NoCache, MAX_MATCH, TRUE), full)
    BY <2>4, <2>6
  <2> HIDE DEF Find
  <2>9. /\ SameMatch(Find(lmc, MAX_MATCH, TRUE), Find(NoCache, MAX_MATCH, TRUE))
        /\ \A n \in MIN_MATCH .. Find(NoCache, MAX_MATCH, TRUE).length :
             Find(lmc, MAX_MATCH, TRUE).sublen[n] = Find(NoCache, MAX_MATCH, TRUE).sublen[n]
    BY <2>5, <2>8, AgreedIsSame
  <2>10. ASSUME NEW limit \in MIN_MATCH .. MAX_MATCH
         PROVE  SameMatch(Find(lmc, limit, FALSE), Find(NoCache, limit, FALSE))
    <3> DEFINE a == Find(lmc, limit, FALSE)
               b == Find(NoCache, limit, FALSE)
    <3>1. /\ IF full.length < limit THEN SameMatch(a, full)
             ELSE a.length = limit /\ a.dist = full.sublen[limit]
          /\ IF full.length < limit THEN SameMatch(b, full)
             ELSE b.length = limit /\ b.dist = full.sublen[limit]
      BY <2>4, <2>7
    <3> HIDE DEF a, b
    <3>2. SameMatch(a, b)
      BY <2>5, <3>1 DEF SameMatch, MIN_MATCH
    <3>3. QED
      BY <3>2 DEF a, b
  <2>11. QED
    BY <2>9, <2>10 DEF Find, k, hash
<1>2. QED
  BY <1>1, SqueezeInvariant, PTL

-----------------------------------------------------------------------------
(* What the commands cost.                                                 *)

\* The cost of a command in a mode with given statistics.
Price(m, st, c) ==
    LET ll == IF m = "fixed" THEN FixedLL ELSE st.ll_symbols
        d == IF m = "fixed" THEN FixedD ELSE st.d_symbols
    IN  ll[LLSymbol(c)] + IF c.dist = 0 THEN 0
                          ELSE d[DistSymbol(c.dist)] + ExtraBits(c.litlen, c.dist)

\* Every byte that was reached costs what the byte before its length costs, and
\* the command between them; that byte lies before upto.
Costed(array, start, m, st, cs, ls, upto) ==
    /\ cs[0] = 0
    /\ \A k \in DOMAIN cs \ {0} :
         /\ ls[k] <= k /\ k - ls[k] < upto
         /\ cs[k] = cs[k - ls[k]] + Price(m, st, StepTo(array, start, k, ls[k]))

\* The commands cost what lies between the costs of the bytes around them.
Paid(m, st, start, cs, commands) ==
    /\ cs[0] = 0
    /\ \A t \in DOMAIN commands :
         LET c == commands[t]
         IN  cs[c.pos - start + Size(c)] = cs[c.pos - start] + Price(m, st, c)

PayInv ==
    /\ phase = "forward" => Costed(data, instart, mode, stats, costs, lengths, i - instart)
    /\ phase = "follow" =>
         /\ 0 .. blocksize \subseteq DOMAIN costs
         /\ Costed(data, instart, mode, stats, costs, lengths, blocksize)
         /\ Paid(mode, stats, instart, costs, store.commands)

\* The cost of a command is its price in the mode and with the statistics of now.
LEMMA CostIsPrice ==
    ASSUME NEW c
    PROVE  Cost(c) = Price(mode, stats, c)
<1>1. CASE mode = "fixed"
  BY <1>1 DEF Cost, GetCostFixed, Price
<1>2. CASE mode # "fixed"
  BY <1>2 DEF Cost, GetCostStat, Price
<1>3. QED
  BY <1>1, <1>2

\* It does not matter where a match stands.
LEMMA PriceOfPlace ==
    ASSUME NEW m, NEW st, NEW n, NEW dist, NEW p, NEW q
    PROVE  Price(m, st, Copy(n, dist, p)) = Price(m, st, Copy(n, dist, q))
<1>1. /\ Copy(n, dist, p).litlen = n /\ Copy(n, dist, p).dist = dist
      /\ Copy(n, dist, q).litlen = n /\ Copy(n, dist, q).dist = dist
  BY DEF Copy
<1>2. LLSymbol(Copy(n, dist, p)) = LLSymbol(Copy(n, dist, q))
  BY <1>1 DEF LLSymbol
<1>3. QED
  BY <1>1, <1>2 DEF Price

\* Before the first search only the first byte was reached.
LEMMA NothingCosted ==
    ASSUME NEW array, NEW start, NEW m, NEW st, NEW ls, NEW upto
    PROVE  Costed(array, start, m, st, [j \in {0} |-> 0], ls, upto)
<1>1. DOMAIN [j \in {0} |-> 0] \ {0} = {} /\ [j \in {0} |-> 0][0] = 0
  OBVIOUS
<1>2. QED
  BY <1>1 DEF Costed

\* The bytes that were reached without a search: by a match of the byte before
\* them, from bytes that were reached before.
Jumps(jumped, skipped, a) ==
    /\ \A k \in DOMAIN costs \ skipped : jumped[k] = costs[k]
    /\ \A k \in skipped :
         /\ k \in Nat /\ k - MAX_MATCH \in i - instart .. a /\ k - MAX_MATCH \notin skipped
         /\ jumped[k] = jumped[k - MAX_MATCH]
                          + Price(mode, stats, StepTo(data, instart, k, MAX_MATCH))

\* The costs after a search: what they were computed from changes no more.
LEMMA ReachPays ==
    ASSUME SearchInv, NEW at \in i .. inend - 1, NEW m, Agreed(m, Longest(data, instart, at)),
           NEW jumped, NEW skipped, NEW mincost, Reach(at, m, jumped, skipped, mincost),
           DOMAIN jumped = DOMAIN costs \union skipped, DOMAIN jumped \subseteq 0 .. blocksize,
           0 .. at - instart \subseteq DOMAIN jumped, Jumps(jumped, skipped, at - instart),
           Costed(data, instart, mode, stats, costs, lengths, i - instart)
    PROVE  Costed(data, instart, mode, stats, costs', lengths', (at + 1) - instart)
<1> DEFINE a == at - instart
           full == Longest(data, instart, at)
           ahead == {k \in (at - instart + 1) .. blocksize :
                       k = at - instart + 1 \/ k - (at - instart) \in MIN_MATCH .. m.length}
           here == jumped[at - instart]
           Bill(c) == Price(mode, stats, c)
           Cheap(k) == LET n == k - (at - instart)
                       IN  here + Cost(IF n = 1 THEN LiteralAt(at) ELSE Copy(n, m.sublen[n], at))
           better == {k \in ahead :
                        \/ k \notin DOMAIN jumped
                        \/ /\ k = at - instart + 1 \/ jumped[k] - here > mincost
                           /\ Cheap(k) < jumped[k]}
<1>1. /\ costs' = [k \in DOMAIN jumped \union better |-> IF k \in better THEN Cheap(k) ELSE jumped[k]]
      /\ lengths' = [k \in 0 .. blocksize |-> CASE k \in better -> k - (at - instart)
                                                [] k \in skipped \ better -> MAX_MATCH
                                                [] OTHER -> lengths[k]]
  BY DEF Reach
<1>2. /\ inend \in Nat /\ inend = Len(data) /\ instart \in Nat /\ i \in Nat /\ instart <= i
      /\ blocksize = inend - instart /\ blocksize \in Nat /\ at \in Nat /\ instart <= at
      /\ a \in Nat /\ a < blocksize /\ i - instart \in Nat /\ i - instart <= a
      /\ MAX_MATCH \in Nat /\ MAX_MATCH > 3 /\ MIN_MATCH = 3
  BY Block, Sizes DEF MIN_MATCH
<1>3. better \subseteq ahead /\ here = jumped[a]
  OBVIOUS
<1>4. \A k \in ahead : k \in Nat /\ k <= blocksize /\ k >= a + 1 /\ k - a \in Nat /\ k - a >= 1
                       /\ (k - a = 1 \/ k - a \in MIN_MATCH .. m.length)
  BY <1>2
<1> HIDE DEF better, Cheap, full, ahead, here
<1>5. DOMAIN costs' = DOMAIN jumped \union better
  BY <1>1
<1>6. \A k \in DOMAIN costs' :
        /\ k \in better => costs'[k] = Cheap(k)
        /\ k \notin better => costs'[k] = jumped[k]
  BY <1>1
<1>7. \A k \in 0 .. blocksize :
        /\ k \in better => lengths'[k] = k - a
        /\ k \notin better /\ k \in skipped => lengths'[k] = MAX_MATCH
        /\ k \notin better /\ k \notin skipped => lengths'[k] = lengths[k]
  <2> SUFFICES ASSUME NEW k \in 0 .. blocksize
               PROVE  /\ k \in better => lengths'[k] = k - a
                      /\ k \notin better /\ k \in skipped => lengths'[k] = MAX_MATCH
                      /\ k \notin better /\ k \notin skipped => lengths'[k] = lengths[k]
    OBVIOUS
  <2>1. lengths'[k] = CASE k \in better -> k - (at - instart)
                        [] k \in skipped \ better -> MAX_MATCH
                        [] OTHER -> lengths[k]
    BY <1>1
  <2>2. QED
    BY <2>1
<1> HIDE DEF a
\* What was reached before at keeps its cost.
<1>8. \A p \in 0 .. a : p \in DOMAIN jumped /\ costs'[p] = jumped[p]
  <2> SUFFICES ASSUME NEW p \in 0 .. a PROVE p \in DOMAIN jumped /\ costs'[p] = jumped[p]
    OBVIOUS
  <2>1. p \in DOMAIN jumped
    BY DEF a
  <2>2. p \notin better
    BY <1>2, <1>3, <1>4
  <2>3. QED
    BY <1>5, <1>6, <2>1, <2>2
<1>9. /\ \A k \in DOMAIN costs \ skipped : jumped[k] = costs[k]
      /\ \A k \in skipped :
           /\ k \in Nat /\ k - MAX_MATCH \in i - instart .. a /\ k - MAX_MATCH \notin skipped
           /\ jumped[k] = jumped[k - MAX_MATCH] + Bill(StepTo(data, instart, k, MAX_MATCH))
  BY DEF Jumps, a
<1>10. \A p \in Nat : p < i - instart => p \notin skipped
  BY <1>2, <1>9
<1>11. costs[0] = 0 /\ \A k \in DOMAIN costs \ {0} :
         /\ lengths[k] <= k /\ k - lengths[k] < i - instart
         /\ costs[k] = costs[k - lengths[k]] + Bill(StepTo(data, instart, k, lengths[k]))
  BY DEF Costed
<1> HIDE DEF Bill
<1>12. costs'[0] = 0
  <2>1. 0 \notin skipped
    BY <1>2, <1>9
  <2>2. 0 \in 0 .. a
    BY <1>2
  <2>3. 0 \in DOMAIN jumped /\ costs'[0] = jumped[0]
    BY <1>8, <2>2
  <2>4. 0 \in DOMAIN costs \ skipped
    BY <2>1, <2>3
  <2>5. QED
    BY <1>9, <1>11, <2>3, <2>4
<1>13. ASSUME NEW k \in DOMAIN costs' \ {0}
       PROVE  /\ lengths'[k] <= k /\ k - lengths'[k] < (at + 1) - instart
              /\ costs'[k] = costs'[k - lengths'[k]] + Bill(StepTo(data, instart, k, lengths'[k]))
  <2>1. k \in 0 .. blocksize
    BY <1>2, <1>3, <1>4, <1>5
  <2>2. CASE k \in better
    <3> DEFINE n == k - a
    <3>1. lengths'[k] = n /\ k \in ahead
      BY <1>3, <1>7, <2>1, <2>2
    <3>2. /\ n \in Nat /\ n >= 1 /\ n <= k /\ k - n = a /\ k = a + n
          /\ n = 1 \/ n \in MIN_MATCH .. m.length
      <4>1. k \in Nat /\ n \in Nat /\ n >= 1 /\ (n = 1 \/ n \in MIN_MATCH .. m.length)
        BY <1>4, <3>1
      <4>2. n <= k /\ k - n = a /\ k = a + n
        BY <1>2, <4>1
      <4>3. QED
        BY <4>1, <4>2
    <3> DEFINE c == IF n = 1 THEN LiteralAt(at) ELSE Copy(n, m.sublen[n], at)
    <3>3. costs'[k] = here + Cost(c)
      BY <1>6, <2>2 DEF Cheap, a
    <3>4. costs'[k - n] = here
      <4>1. a \in 0 .. a
        BY <1>2
      <4>2. QED
        BY <1>3, <1>8, <3>2, <4>1
    <3> HIDE DEF n
    <3>5. instart + k = at + n /\ instart + k - n = at
      BY <1>2, <3>2 DEF a
    <3>6. c = StepTo(data, instart, k, n)
      <4>1. CASE n = 1
        <5>1. c = Literal(data[at + 1], at) /\ instart + k = at + 1 /\ instart + k - 1 = at
          BY <3>5, <4>1 DEF LiteralAt
        <5>2. QED
          BY <4>1, <5>1 DEF StepTo
      <4>2. CASE n # 1
        <5>1. n \in MIN_MATCH .. m.length
          BY <3>2, <4>2
        <5>2. m.sublen[n] = full.sublen[n]
          <6>1. m.length \in Nat /\ SameMatch(m, full)
                /\ \A l \in MIN_MATCH .. full.length : m.sublen[l] = full.sublen[l]
            BY DEF Agreed, full
          <6>2. m.length = full.length
            BY <1>2, <3>2, <5>1, <6>1 DEF SameMatch
          <6>3. QED
            BY <5>1, <6>1, <6>2
        <5>3. QED
          BY <3>5, <4>2, <5>2 DEF StepTo, full
      <4>3. QED
        BY <4>1, <4>2
    <3> HIDE DEF c
    <3>7. Cost(c) = Bill(c)
      BY CostIsPrice DEF Bill
    <3>8. k - n < (at + 1) - instart
      BY <1>2, <3>2 DEF a
    <3>9. QED
      BY <3>1, <3>2, <3>3, <3>4, <3>6, <3>7, <3>8
  <2>3. CASE k \notin better /\ k \in skipped
    <3> DEFINE p == k - MAX_MATCH
    <3>1. lengths'[k] = MAX_MATCH /\ costs'[k] = jumped[k]
      BY <1>6, <1>7, <2>1, <2>3
    <3>2. p \in 0 .. a /\ MAX_MATCH <= k /\ p < (at + 1) - instart
      BY <1>2, <1>9, <2>3 DEF a
    <3>3. costs'[p] = jumped[p]
      BY <1>8, <3>2
    <3>4. QED
      BY <1>9, <2>3, <3>1, <3>2, <3>3
  <2>4. CASE k \notin better /\ k \notin skipped
    <3> DEFINE n == lengths[k]
               p == k - n
    <3>1. lengths'[k] = n /\ costs'[k] = jumped[k] /\ k \in DOMAIN costs \ {0}
      BY <1>5, <1>6, <1>7, <2>1, <2>4
    <3>2. jumped[k] = costs[k]
      BY <1>9, <2>4, <3>1
    <3>3. n \in Nat
      BY <2>1 DEF SearchInv
    <3>4. n <= k /\ p < i - instart /\ costs[k] = costs[p] + Bill(StepTo(data, instart, k, n))
      BY <1>11, <3>1
    <3> HIDE DEF n
    <3>5. p \in Nat /\ p \in 0 .. a /\ p < (at + 1) - instart
      BY <1>2, <2>1, <3>3, <3>4 DEF a
    <3>6. p \in DOMAIN costs \ skipped
      BY <1>8, <1>10, <3>4, <3>5
    <3>7. costs'[p] = costs[p]
      BY <1>8, <1>9, <3>5, <3>6
    <3>8. QED
      BY <3>1, <3>2, <3>4, <3>5, <3>7
  <2>5. QED
    BY <2>2, <2>3, <2>4
<1>14. QED
  BY <1>12, <1>13 DEF Costed, Bill

\* What a long run skips.
LEMMA RunJumps ==
    ASSUME SearchInv, i < inend, LongRepetition(HashBefore(data, WindowStart(instart), i + 1)),
           ForwardOk(data, instart, i, costs, lengths),
           NEW at, at = i + MAX_MATCH, NEW skipped,
           skipped = (i - instart + MAX_MATCH) .. (i - instart + 2 * MAX_MATCH - 1)
    PROVE  Jumps(Jumped(skipped), skipped, at - instart)
<1> DEFINE j == i - instart
           jumped == Jumped(skipped)
           reached == DOMAIN costs \union skipped
<1>1. /\ inend \in Nat /\ instart \in Nat /\ i \in Nat /\ instart <= i /\ j \in Nat
      /\ MAX_MATCH \in Nat /\ MAX_MATCH > 3
  BY Block, Sizes
<1>2. /\ i > instart + MAX_MATCH + 1 /\ i + MAX_MATCH * 2 + 1 < inend
      /\ \A pos \in i - 2 .. i + MAX_MATCH - 1 :
           /\ Longest(data, instart, pos).length = MAX_MATCH
           /\ Longest(data, instart, pos).sublen[MAX_MATCH] = 1
  BY LongRun
<1>3. 0 .. at - instart \subseteq reached
  <2>1. LET t == i + MAX_MATCH
            b == i - instart
            s == (b + MAX_MATCH) .. (b + 2 * MAX_MATCH - 1)
            r == DOMAIN costs \union s
        IN  /\ t \in i .. inend - 1
            /\ r \subseteq 0 .. blocksize
            /\ Skippable(s)
            /\ 0 .. t - instart \subseteq r
            /\ \A q \in instart .. t - 1 : \A n \in MIN_MATCH .. Longest(data, instart, q).length :
                 q - instart + n \in r
    BY SkippedAreReached
  <2>2. QED
    BY <2>1
<1>4. /\ \A k \in DOMAIN costs \ skipped : jumped[k] = costs[k]
      /\ \A k \in skipped : jumped[k] = costs[k - MAX_MATCH] + Cost(Copy(MAX_MATCH, 1, i))
  <2> DEFINE jump == Cost(Copy(MAX_MATCH, 1, i))
  <2>1. jumped = [k \in DOMAIN costs \union skipped |->
                    IF k \in skipped THEN costs[k - MAX_MATCH] + jump ELSE costs[k]]
    BY DEF Jumped
  <2> HIDE DEF jumped, jump
  <2>2. QED
    BY <2>1 DEF jump
<1> HIDE DEF jumped
<1>5. ASSUME NEW k \in skipped
      PROVE  /\ k \in Nat /\ k - MAX_MATCH \in i - instart .. at - instart /\ k - MAX_MATCH \notin skipped
             /\ jumped[k] = jumped[k - MAX_MATCH]
                              + Price(mode, stats, StepTo(data, instart, k, MAX_MATCH))
  <2> DEFINE p == k - MAX_MATCH
             pos == instart + k - MAX_MATCH
  <2>1. /\ k \in Nat /\ p \in i - instart .. at - instart /\ p \notin skipped
        /\ p \in 0 .. at - instart /\ pos \in i - 2 .. i + MAX_MATCH - 1
    BY <1>1
  <2>2. Longest(data, instart, pos).sublen[MAX_MATCH] = 1
    BY <1>2, <2>1
  <2> HIDE DEF pos
  <2>3. StepTo(data, instart, k, MAX_MATCH) = Copy(MAX_MATCH, 1, pos)
    BY <1>1, <2>2 DEF StepTo, pos
  <2>4. Cost(Copy(MAX_MATCH, 1, i)) = Price(mode, stats, StepTo(data, instart, k, MAX_MATCH))
    BY <2>3, CostIsPrice, PriceOfPlace
  <2>5. jumped[p] = costs[p]
    <3>1. p \in DOMAIN costs \ skipped
      BY <1>3, <2>1
    <3> HIDE DEF p
    <3>2. QED
      BY <1>4, <3>1
  <2>6. jumped[k] = costs[p] + Cost(Copy(MAX_MATCH, 1, i))
    BY <1>4
  <2>7. QED
    BY <2>1, <2>4, <2>5, <2>6
<1>6. QED
  BY <1>4, <1>5 DEF Jumps, jumped

\* A step of the forward pass.
LEMMA ForwardPays == SqueezeInv /\ PayInv /\ ForwardStep => PayInv'
<1> SUFFICES ASSUME SqueezeInv, PayInv, ForwardStep PROVE PayInv'
  OBVIOUS
<1> DEFINE from == WindowStart(instart)
           first == UpdateHash(data, i, inend, h)
           long == LongRepetition(first)
           j == i - instart
           at == IF long THEN i + MAX_MATCH ELSE i
           skipped == IF long THEN (j + MAX_MATCH) .. (j + 2 * MAX_MATCH - 1) ELSE {}
           hash == Hashed(first, i + 1, at + 1)
           result == Found(hash, at, MAX_MATCH, TRUE)
           jumped == Jumped(skipped)
<1>1. SearchInv /\ PhaseInv
  BY DEF SqueezeInv
<1>2. /\ phase = "forward" /\ i < inend
      /\ UNCHANGED <<data, instart, mode, phase, stats>>
      /\ Reach(at, result.found, jumped, skipped, GetCostModelMinCost)
      /\ i' = at + 1
  BY DEF ForwardStep, ForwardHashed, ForwardSearch, ForwardFound
<1>3. /\ inend \in Nat /\ inend = Len(data) /\ instart \in Nat /\ i \in Nat /\ instart <= i
      /\ blocksize = inend - instart /\ from \in Nat /\ from <= instart /\ MAX_MATCH \in Nat
  BY <1>1, Block, Sizes
<1>4. first = HashBefore(data, from, i + 1)
  BY <1>1, <1>2, HashAfter
<1>5. ForwardOk(data, instart, i, costs, lengths)
  BY <1>1, <1>2 DEF PhaseInv
<1>6. DOMAIN jumped = DOMAIN costs \union skipped
  BY DEF Jumped
<1>7. /\ at \in i .. inend - 1
      /\ DOMAIN costs \union skipped \subseteq 0 .. blocksize
      /\ 0 .. at - instart \subseteq DOMAIN costs \union skipped
      /\ Jumps(jumped, skipped, at - instart)
  <2> HIDE DEF first
  <2>1. CASE long
    <3>1. LongRepetition(HashBefore(data, WindowStart(instart), i + 1))
      BY <1>4, <2>1
    <3>2. LET t == i + MAX_MATCH
              b == i - instart
              s == (b + MAX_MATCH) .. (b + 2 * MAX_MATCH - 1)
              reached == DOMAIN costs \union s
          IN  /\ t \in i .. inend - 1
              /\ reached \subseteq 0 .. blocksize
              /\ Skippable(s)
              /\ 0 .. t - instart \subseteq reached
              /\ \A q \in instart .. t - 1 : \A n \in MIN_MATCH .. Longest(data, instart, q).length :
                   q - instart + n \in reached
      BY <1>1, <1>2, <1>5, <3>1, SkippedAreReached
    <3>3. at = i + MAX_MATCH /\ skipped = (i - instart + MAX_MATCH) .. (i - instart + 2 * MAX_MATCH - 1)
      BY <2>1
    <3> HIDE DEF at, skipped, long
    <3>4. Jumps(jumped, skipped, at - instart)
      BY <1>1, <1>2, <1>5, <3>1, <3>3, RunJumps
    <3>5. QED
      BY <3>2, <3>3, <3>4
  <2>2. CASE ~ long
    <3>1. at = i /\ skipped = {}
      BY <2>2
    <3> HIDE DEF at, skipped, long
    <3>2. Jumps(jumped, skipped, at - instart)
      <4>1. jumped = [k \in DOMAIN costs |-> costs[k]]
        BY <3>1 DEF Jumped
      <4> HIDE DEF jumped
      <4>2. QED
        BY <3>1, <4>1 DEF Jumps
    <3>3. QED
      BY <1>2, <1>3, <1>5, <3>1, <3>2 DEF ForwardOk
  <2>3. QED
    BY <2>1, <2>2
<1> HIDE DEF at, skipped, long, first, jumped
<1>8. at \in Nat /\ i + 1 <= at + 1 /\ at + 1 \in Nat /\ i + 1 \in Nat /\ i + 1 >= instart
      /\ at \in instart .. inend - 1 /\ instart < inend
  BY <1>2, <1>3, <1>7
<1>9. hash = HashBefore(data, from, at + 1)
  BY <1>1, <1>4, <1>8, HashFurther
<1> HIDE DEF hash
<1>10. Agreed(result.found, Longest(data, instart, at))
  BY <1>1, <1>8, <1>9, FoundLongest
<1> HIDE DEF result
<1>11. Costed(data, instart, mode, stats, costs, lengths, i - instart)
  BY <1>2 DEF PayInv
<1>12. Costed(data, instart, mode, stats, costs', lengths', (at + 1) - instart)
  BY <1>1, <1>2, <1>6, <1>7, <1>10, <1>11, ReachPays
<1>13. QED
  BY <1>2, <1>12 DEF PayInv

\* The walk back: nothing was stored yet.
LEMMA TracePays == SqueezeInv /\ PayInv /\ TraceBackwards => PayInv'
<1> SUFFICES ASSUME SqueezeInv, PayInv, TraceBackwards PROVE PayInv'
  OBVIOUS
<1>1. SearchInv /\ PhaseInv
  BY DEF SqueezeInv
<1>2. /\ phase = "forward" /\ i >= inend /\ phase' = "follow"
      /\ UNCHANGED <<data, instart, mode, costs, lengths, store, stats>>
  BY DEF TraceBackwards
<1>3. i - instart = blocksize
  <2>1. i \in Nat /\ inend \in Nat /\ instart \in Nat /\ i <= inend /\ blocksize = inend - instart
    BY <1>1, Block
  <2>2. QED
    BY <1>2, <2>1
<1>4. ForwardOk(data, instart, i, costs, lengths) /\ store = EmptyStore
  BY <1>1, <1>2 DEF PhaseInv
<1>5. Costed(data, instart, mode, stats, costs, lengths, blocksize)
  BY <1>2, <1>3 DEF PayInv
<1>6. Paid(mode, stats, instart, costs, store.commands)
  <2>1. DOMAIN store.commands = {}
    BY <1>4 DEF EmptyStore
  <2>2. QED
    BY <1>5, <2>1 DEF Costed, Paid
<1>7. 0 .. blocksize \subseteq DOMAIN costs
  BY <1>3, <1>4 DEF ForwardOk
<1>8. QED
  BY <1>2, <1>5, <1>6, <1>7 DEF PayInv, blocksize, inend

\* A step along the path stores the command that its cost was computed with.
LEMMA FollowPays == SqueezeInv /\ PayInv /\ FollowPath => PayInv'
<1> SUFFICES ASSUME SqueezeInv, PayInv, FollowPath PROVE PayInv'
  OBVIOUS
<1> DEFINE hash == UpdateHash(data, i, inend, h)
           n == path[1]
           c == Followed(hash, n)
           k == i - instart
           commands == store.commands
           new == store'.commands
<1>1. SearchInv /\ PhaseInv
  BY DEF SqueezeInv
<1>2. /\ phase = "follow" /\ path # << >>
      /\ store' = ZopfliStoreLitLenDist(c, store)
      /\ UNCHANGED <<data, instart, mode, phase, costs, lengths, stats>>
  BY DEF FollowPath, Followed
<1>3. /\ data \in Seq(Byte) /\ inend \in Nat /\ inend = Len(data) /\ instart \in Nat /\ i \in Nat
      /\ instart <= inend /\ instart <= i /\ instart \in 0 .. Len(data) /\ blocksize = inend - instart
  BY <1>1, Block
<1>4. Leads(data, instart, lengths, k, path) /\ commands \in Seq(Command)
  BY <1>1, <1>2 DEF PhaseInv, Covers
<1> HIDE DEF k
<1>5. /\ k \in Nat /\ n \in Nat /\ k + n \in 0 .. Len(data) - instart
      /\ n = lengths[k + n] /\ Way(data, instart, k + n, n)
  BY <1>2, <1>3, <1>4, FirstOfPath
<1> HIDE DEF n
<1>6. n >= 1
  BY <1>5 DEF Way, MIN_MATCH
<1>7. i < inend /\ i - instart = k
  BY <1>3, <1>5, <1>6 DEF k
<1>8. hash = HashBefore(data, WindowStart(instart), i + 1)
  BY <1>1, <1>7, HashAfter
<1> HIDE DEF hash
<1>9. c.pos = i /\ Size(c) = n /\ c = StepTo(data, instart, k + n, n)
  BY <1>1, <1>5, <1>7, <1>8, FollowedIsRight
<1> HIDE DEF c
<1>10. /\ 0 .. blocksize \subseteq DOMAIN costs
       /\ Costed(data, instart, mode, stats, costs, lengths, blocksize)
       /\ Paid(mode, stats, instart, costs, commands)
  BY <1>2 DEF PayInv
<1>11. costs[k + n] = costs[k] + Price(mode, stats, c)
  <2>1. k + n \in DOMAIN costs \ {0}
    BY <1>3, <1>5, <1>6, <1>10
  <2>2. costs[k + n] = costs[(k + n) - n] + Price(mode, stats, StepTo(data, instart, k + n, n))
    BY <1>5, <1>10, <2>1 DEF Costed
  <2>3. (k + n) - n = k
    BY <1>5
  <2>4. QED
    BY <1>9, <2>2, <2>3
<1>12. new = Append(commands, c)
  BY <1>2 DEF ZopfliStoreLitLenDist
<1> HIDE DEF new, commands
<1>13. /\ DOMAIN new = DOMAIN commands \union {Len(commands) + 1}
       /\ \A t \in DOMAIN commands : new[t] = commands[t]
       /\ new[Len(commands) + 1] = c
  BY <1>4, <1>12
<1>14. Paid(mode, stats, instart, costs, new)
  <2>1. ASSUME NEW t \in DOMAIN new
        PROVE  costs[new[t].pos - instart + Size(new[t])]
                 = costs[new[t].pos - instart] + Price(mode, stats, new[t])
    <3>1. CASE t \in DOMAIN commands
      BY <1>10, <1>13, <3>1 DEF Paid
    <3>2. CASE t = Len(commands) + 1
      BY <1>7, <1>9, <1>11, <1>13, <3>2
    <3>3. QED
      BY <1>13, <3>1, <3>2
  <2>2. QED
    BY <1>10, <2>1 DEF Paid
<1>15. QED
  BY <1>2, <1>10, <1>14 DEF PayInv, blocksize, inend, new

\* What starts a forward pass has costed nothing, and what ends it stores no more.
LEMMA OthersPay ==
    SqueezeInv /\ PayInv
      /\ (GreedyStep \/ GreedyEnd \/ ZopfliLZ77OptimalFixed \/ EndOfRun \/ UNCHANGED vars) => PayInv'
<1> SUFFICES ASSUME PayInv,
                    GreedyStep \/ GreedyEnd \/ ZopfliLZ77OptimalFixed \/ EndOfRun \/ UNCHANGED vars
             PROVE  PayInv'
  OBVIOUS
<1>1. ASSUME StartForward PROVE PayInv'
  <2>1. phase' = "forward" /\ costs' = [j \in {0} |-> 0]
    BY <1>1 DEF StartForward
  <2>2. Costed(data', instart', mode', stats', costs', lengths', i' - instart')
    BY <2>1, NothingCosted
  <2>3. QED
    BY <2>1, <2>2 DEF PayInv
<1>2. ASSUME phase' \in {"greedy", "done"} PROVE PayInv'
  BY <1>2 DEF PayInv
<1>3. CASE GreedyStep
  <2>1. phase' = "greedy"
    BY <1>3 DEF GreedyStep
  <2>2. QED
    BY <1>2, <2>1
<1>4. CASE GreedyEnd
  <2>1. phase' = "done" \/ StartForward
    BY <1>4 DEF GreedyEnd
  <2>2. QED
    BY <1>1, <1>2, <2>1
<1>5. CASE ZopfliLZ77OptimalFixed
  <2>1. phase' = "done"
    BY <1>5 DEF ZopfliLZ77OptimalFixed
  <2>2. QED
    BY <1>2, <2>1
<1>6. CASE EndOfRun
  <2>1. phase' = "done" \/ StartForward
    BY <1>6 DEF EndOfRun
  <2>2. QED
    BY <1>1, <1>2, <2>1
<1>7. CASE UNCHANGED vars
  BY <1>7 DEF PayInv, vars, blocksize, inend
<1>8. QED
  BY <1>3, <1>4, <1>5, <1>6, <1>7

\* The invariant of the costs.
LEMMA PayInvariant == Spec => []PayInv
<1>1. Init => PayInv
  <2> SUFFICES ASSUME Init PROVE PayInv
    OBVIOUS
  <2>1. costs = [j \in {0} |-> 0] /\ phase \in {"forward", "greedy"}
    BY DEF Init
  <2>2. Costed(data, instart, mode, stats, costs, lengths, i - instart)
    BY <2>1, NothingCosted
  <2>3. QED
    BY <2>1, <2>2 DEF PayInv
<1>2. SqueezeInv /\ PayInv /\ [Next]_vars => PayInv'
  BY ForwardPays, TracePays, FollowPays, OthersPay DEF Next
<1>3. QED
  BY <1>1, <1>2, SqueezeInvariant, PTL DEF Spec

\* The commands that are stored cost what the cheapest way to the last byte was
\* computed to cost: the search for the length of a command finds the distance
\* that the forward pass had counted with, whatever the cache has kept of it,
\* and the distances within long runs are the ones that were not searched for.
THEOREM CommandsCostAsComputed == Spec => []CostOfPath
<1>1. PayInv => CostOfPath
  <2> SUFFICES ASSUME PayInv, phase = "follow"
               PROVE  /\ costs[0] = 0
                      /\ \A k \in DOMAIN store.commands :
                           LET c == store.commands[k]
                           IN  costs[c.pos - instart + Size(c)] = costs[c.pos - instart] + Cost(c)
    BY DEF CostOfPath
  <2>1. Paid(mode, stats, instart, costs, store.commands)
    BY DEF PayInv
  <2>2. \A k \in DOMAIN store.commands :
          Cost(store.commands[k]) = Price(mode, stats, store.commands[k])
    BY CostIsPrice
  <2>3. QED
    BY <2>1, <2>2 DEF Paid
<1>2. QED
  BY <1>1, PayInvariant, PTL
================================================================================
