---------------------------------- MODULE Match ----------------------------------
(***************************************************************************)
(* The search for the longest match of zopfli (the second part of lz77.c)  *)
(* in the chains of positions with equal hashes (hash.c), and its cache    *)
(* (cache.c).  Positions start at 0 as in the code, so the byte at pos is  *)
(* array[pos + 1].  A position is kept modulo the window.                  *)
(***************************************************************************)
EXTENDS Store, Integers

CONSTANTS
  WINDOW,          \* ZOPFLI_WINDOW_SIZE: 32768
  HASH_SHIFT,      \* 5
  HASH_SIZE,       \* HASH_MASK + 1: 32768
  SAME_SIZE,       \* runs of bytes are hashed by length modulo this: 256
  MAX_SAME,        \* no longer run is noted: 65535
  CACHE_LENGTH,    \* ZOPFLI_CACHE_LENGTH: 8
  MAX_CHAIN_HITS,  \* ZOPFLI_MAX_CHAIN_HITS: 8192
  XorOf(_, _)      \* ^ of two numbers

MIN_MATCH == 3
HashValues == 0..(HASH_SIZE - 1)
UpdateHashValue(val, c) == XorOf(val * 2 ^ HASH_SHIFT, c) % HASH_SIZE

(* A hash value is one of the last three bytes: the shifts move all others *)
(* out of it.                                                              *)
ASSUME MatchAssumption ==
  /\ {HASH_SHIFT, HASH_SIZE, SAME_SIZE, MAX_SAME, CACHE_LENGTH, MAX_CHAIN_HITS} \subseteq Nat \ {0}
  /\ WINDOW \in Nat /\ WINDOW > MAX_MATCH /\ SAME_SIZE <= HASH_SIZE
  /\ \A v, w \in HashValues : XorOf(v, w) \in HashValues
  /\ \A v \in HashValues, c \in Byte : UpdateHashValue(v, c) \in HashValues
  /\ \A v, w \in HashValues, a, b, c \in Byte :
       UpdateHashValue(UpdateHashValue(UpdateHashValue(v, a), b), c)
         = UpdateHashValue(UpdateHashValue(UpdateHashValue(w, a), b), c)

WindowStart(start) == IF start > WINDOW THEN start - WINDOW ELSE 0

--------------------------------------------------------------------------------
(* A table of hashes: the latest position of each value, the previous      *)
(* position of each position, itself if there is none, and the value of    *)
(* each position.  A hash has two tables and the length of the run of      *)
(* equal bytes after each position.                                        *)
EmptyTable == [val |-> 0, head |-> [v \in 0..(HASH_SIZE - 1) |-> -1],
               prev |-> [i \in 0..(WINDOW - 1) |-> i],
               hashval |-> [i \in 0..(WINDOW - 1) |-> -1]]
InitHash == [first |-> EmptyTable, second |-> EmptyTable, same |-> [i \in 0..(WINDOW - 1) |-> 0]]

Linked(table, hpos, val) ==
  LET hashval == [table.hashval EXCEPT ![hpos] = val]
      last == table.head[val]
  IN  [val |-> val, hashval |-> hashval, head |-> [table.head EXCEPT ![val] = hpos],
       prev |-> [table.prev EXCEPT ![hpos] =
                   IF last # -1 /\ hashval[IF last = -1 THEN 0 ELSE last] = val THEN last ELSE hpos]]

UpdateHash(array, pos, end, h) ==
  LET hpos == pos % WINDOW
      val == UpdateHashValue(h.first.val, IF pos + MIN_MATCH <= end THEN array[pos + MIN_MATCH] ELSE 0)
      before == h.same[(pos + WINDOW - 1) % WINDOW]
      known == IF before > 1 THEN before - 1 ELSE 0
      amount == Min({n \in known..(known + end) :
                       n >= MAX_SAME \/ pos + n + 1 >= end \/ array[pos + 1] # array[pos + n + 2]})
  IN  [first |-> Linked(h.first, hpos, val),
       second |-> Linked(h.second, hpos, XorOf((amount - MIN_MATCH) % SAME_SIZE, val)),
       same |-> [h.same EXCEPT ![hpos] = amount]]

WarmupHash(array, pos, end, h) ==
  LET val == UpdateHashValue(h.first.val, array[pos + 1])
  IN  [h EXCEPT !.first.val = IF pos + 1 < end THEN UpdateHashValue(val, array[pos + 2]) ELSE val]

(* The hashes of the positions before each, from h, that of those before   *)
(* from.                                                                   *)
Hashes(array, from, end, h) ==
  LET Before[pos \in Nat] ==
        IF pos <= from THEN h ELSE UpdateHash(array, pos - 1, end, Before[pos - 1])
  IN  Before
Updated(array, from, to, end, h) == Hashes(array, from, end, h)[to]

(* The hash before position start: of the window before it.                *)
StartHash(array, start, end) ==
  IF start = end THEN InitHash
  ELSE Updated(array, WindowStart(start), start, end,
               WarmupHash(array, WindowStart(start), end, InitHash))

--------------------------------------------------------------------------------
(* The cache has an entry per position of the block: length and distance   *)
(* of the longest match (0 and 0 if it is too short, 1 and 0 if not known) *)
(* and the shortest distances of its lengths, as at most CACHE_LENGTH      *)
(* pairs of a length and the distance up to it.  The length of the last    *)
(* pair tells how much is known.                                           *)
NoEntry == [length |-> 1, dist |-> 0,
            sublen |-> [j \in 1..CACHE_LENGTH |-> [length |-> MIN_MATCH, dist |-> 0]]]
InitCache(blocksize) == [i \in 0..(blocksize - 1) |-> NoEntry]
NoCache == <<>>
Entry(lmc, lmcpos) == IF lmc = NoCache THEN NoEntry ELSE lmc[lmcpos]
NoSublen == [k \in MIN_MATCH..MAX_MATCH |-> 0]

Available(e) == e.length = 0 \/ e.dist # 0
MaxCachedSublen(e) == IF e.sublen[1].dist = 0 THEN 0 ELSE e.sublen[CACHE_LENGTH].length

SublenToCacheWhole(sublen, length) ==  \* mutant: the last pair claims the whole length although pairs are missing
  LET steps == {k \in MIN_MATCH..length : k = length \/ sublen[k] # sublen[k + 1]}
      Nth(j) == CHOOSE k \in steps : Cardinality({i \in steps : i <= k}) = j
  IN  [j \in 1..CACHE_LENGTH |->
         CASE j = CACHE_LENGTH ->
                [length |-> length, dist |-> IF j > Cardinality(steps) THEN 0 ELSE sublen[Nth(j)]]
           [] j < CACHE_LENGTH /\ j <= Cardinality(steps) -> [length |-> Nth(j), dist |-> sublen[Nth(j)]]
           [] OTHER -> NoEntry.sublen[j]]
SublenToCache(sublen, length) ==
  LET steps == {k \in MIN_MATCH..length : k = length \/ sublen[k] # sublen[k + 1]}
      Nth(j) == CHOOSE k \in steps : Cardinality({i \in steps : i <= k}) = j
  IN  [j \in 1..CACHE_LENGTH |->
         CASE j <= Cardinality(steps) -> [length |-> Nth(j), dist |-> sublen[Nth(j)]]
           [] j > Cardinality(steps) /\ j = CACHE_LENGTH /\ steps # {} -> [length |-> length, dist |-> 0]
           [] OTHER -> NoEntry.sublen[j]]

CacheToSublen(e, length) ==
  LET max == MaxCachedSublen(e)
      At(k) == e.sublen[Min({j \in 1..CACHE_LENGTH : e.sublen[j].length >= k})]
  IN  [k \in MIN_MATCH..MAX_MATCH |-> IF length >= MIN_MATCH /\ k <= max THEN At(k).dist ELSE 0]

(* Whether the cache answers, with what, and the limit of the search if it *)
(* does not.  The distance of a match that is too short is never used.     *)
HitAtAnyLimit(lmc, lmcpos, limit, sub) ==  \* mutant: the limit is not compared with the cached length
  LET e == Entry(lmc, lmcpos)
      hit == Available(e) /\ (~sub \/ e.length <= MaxCachedSublen(e))
      length == MinOf(e.length, limit)
  IN  [hit |-> hit, limit |-> limit,
       found |-> [length |-> length, dist |-> e.dist, sublen |-> CacheToSublen(e, length)]]
TryGetFromLongestMatchCache(lmc, lmcpos, limit, sub) ==
  LET e == Entry(lmc, lmcpos)
      ok == /\ Available(e)
            /\ \/ limit = MAX_MATCH \/ e.length <= limit
               \/ sub /\ MaxCachedSublen(e) >= limit
      hit == ok /\ (~sub \/ e.length <= MaxCachedSublen(e))
      length == MinOf(e.length, limit)
      sublen == CacheToSublen(e, length)
  IN  [hit |-> hit, limit |-> IF ok THEN e.length ELSE limit,
       found |-> [length |-> length, sublen |-> sublen,
                  dist |-> IF ~sub THEN e.dist ELSE IF length < MIN_MATCH THEN 0 ELSE sublen[length]]]

StoreInLongestMatchCache(lmc, lmcpos, limit, sub, found) ==
  LET short == found.length < MIN_MATCH
  IN  IF lmc = NoCache \/ limit # MAX_MATCH \/ ~sub THEN lmc
      ELSE IF Available(lmc[lmcpos]) THEN lmc
      ELSE [lmc EXCEPT ![lmcpos] =
              [length |-> IF short THEN 0 ELSE found.length, dist |-> IF short THEN 0 ELSE found.dist,
               sublen |-> IF short THEN @.sublen ELSE SublenToCache(found.sublen, found.length)]]

--------------------------------------------------------------------------------
(* How many bytes at pos equal those dist before, at most limit.  Those of *)
(* a run of equal bytes at both places are not compared.                   *)
MatchLengthSkippingRun(array, h, pos, dist, limit) ==  \* mutant: the run at the earlier place may be shorter
  LET same0 == h.same[pos % WINDOW]
      skip == IF same0 > 2 /\ array[pos + 1] = array[pos - dist + 1] THEN MinOf(same0, limit) ELSE 0
      differ == {n \in skip..(limit - 1) : array[pos + n + 1] # array[pos - dist + n + 1]}
  IN  IF differ = {} THEN limit ELSE Min(differ)
MatchLength(array, h, pos, dist, limit) ==
  LET same0 == h.same[pos % WINDOW]
      same1 == h.same[(pos - dist) % WINDOW]
      skip == IF same0 > 2 /\ array[pos + 1] = array[pos - dist + 1]
              THEN Min({same0, same1, limit}) ELSE 0
      differ == {n \in skip..(limit - 1) : array[pos + n + 1] # array[pos - dist + n + 1]}
  IN  IF differ = {} THEN limit ELSE Min(differ)

Back(pp, p) == IF p < pp THEN pp - p ELSE WINDOW - p + pp

(* The walk along the chain: p is at distance dist; second tells which of  *)
(* the tables is used.  A distance of WINDOW or more ends the walk before  *)
(* the match is looked at, going is FALSE where it ends after that.        *)
WalkFrom(p, dist) ==
  [p |-> p, dist |-> dist, second |-> FALSE, going |-> TRUE,
   found |-> [length |-> 1, dist |-> 0, sublen |-> NoSublen]]
Longer(found, length, dist) ==
  [length |-> length, dist |-> dist,
   sublen |-> [k \in MIN_MATCH..MAX_MATCH |->
                 IF found.length < k /\ k <= length THEN dist ELSE found.sublen[k]]]
Hit(array, h, pos, size, limit, w) ==
  LET best == w.found.length
      current == IF \/ pos + best >= size
                    \/ array[pos + best + 1] = array[pos - w.dist + best + 1]
                 THEN MatchLength(array, h, pos, w.dist, limit) ELSE 0
      found == IF current > best THEN Longer(w.found, current, w.dist) ELSE w.found
      second == \/ w.second
                \/ found.length >= h.same[pos % WINDOW] /\ h.second.val = h.second.hashval[w.p]
      p == (IF second THEN h.second ELSE h.first).prev[w.p]
  IN  [p |-> p, dist |-> w.dist + Back(w.p, p), second |-> second, found |-> found,
       going |-> ~(current > best /\ current >= limit) /\ p # w.p]
Walked(array, h, pos, size, limit, w) ==
  IF w.going /\ w.dist < WINDOW THEN Hit(array, h, pos, size, limit, w) ELSE w
Walks(array, h, pos, size, limit) ==
  LET pp == h.first.head[h.first.val]
      p == h.first.prev[pp]
      After[hits \in Nat] ==
        IF hits = 0 THEN WalkFrom(p, Back(pp, p))
        ELSE Walked(array, h, pos, size, limit, After[hits - 1])
  IN  After
Walk(array, h, pos, size, limit) == Walks(array, h, pos, size, limit)[MAX_CHAIN_HITS].found

(* What is found, and the cache after it.                                  *)
FindLongestMatch(array, h, lmc, lmcpos, pos, size, limit, sub) ==
  LET got == TryGetFromLongestMatchCache(lmc, lmcpos, limit, sub)
      most == MinOf(got.limit, size - pos)
      found == Walk(array, h, pos, size, most)
      none == [length |-> 0, dist |-> 0, sublen |-> NoSublen]
  IN  IF got.hit THEN [found |-> got.found, lmc |-> lmc]
      ELSE IF size - pos < MIN_MATCH THEN [found |-> none, lmc |-> lmc]
      ELSE [found |-> found, lmc |-> StoreInLongestMatchCache(lmc, lmcpos, most, sub, found)]
================================================================================
