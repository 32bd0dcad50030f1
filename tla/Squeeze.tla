--------------------------------- MODULE Squeeze ---------------------------------
(***************************************************************************)
(* Parsing of the bytes instart .. inend of the data into LZ77 commands:   *)
(* ZopfliLZ77Greedy, ZopfliLZ77Optimal and ZopfliLZ77OptimalFixed.  The    *)
(* optimal parses find the cheapest way to reach every byte, walk it       *)
(* backwards, and then search the matches of the way again: the cache must *)
(* give them the distances the costs were computed with.  One iteration of *)
(* each loop over the bytes is one step.  Costs are whole bits.            *)
(***************************************************************************)
EXTENDS Match

CONSTANTS
  Inputs,       \* pairs of data and instart; inend is the end of the data
  FarDist,      \* a longer distance costs the greedy parse one byte: 1024
  Iterations,   \* options->numiterations
  RandomAfter,  \* no random statistics up to this iteration: 5
  Random,       \* outcomes of RandomizeFreqs: which frequency replaces which
  BlockSize(_)  \* ZopfliCalculateBlockSize of a store as one dynamic block

ASSUME SqueezeAssumption ==
  /\ \A input \in Inputs : input[1] \in Seq(Byte) /\ input[2] \in 0..Len(input[1])
  /\ {FarDist, Iterations} \subseteq Nat \ {0} /\ RandomAfter \in Nat
  /\ Random \subseteq [LLSymbols -> LLSymbols] \X [DSymbols -> DSymbols]
  /\ DistSymbol(WINDOW - 1) <= NUM_D - 3

VARIABLES
  data, instart,
  mode,      \* greedy: for ZopfliBlockSplit, without a cache; fixed, dynamic
  phase,     \* greedy, forward, follow, score or done
  i,         \* the position of the loop
  h,         \* the hash
  lmc,       \* the cache of the block state
  previous,  \* the match that the greedy parse may still replace
  costs,     \* cheapest cost to reach each byte that was reached
  lengths,   \* length_array
  path,      \* what FollowPath has still to do
  store,     \* currentstore
  stats,     \* frequencies, and the costs of the symbols
  iteration, lastcost, random,
  best       \* the output store with its cost and its statistics

vars == <<data, instart, mode, phase, i, h, lmc, previous, costs, lengths, path, store,
          stats, iteration, lastcost, random, best>>

inend == Len(data)
blocksize == inend - instart
NoMatch == [length |-> 0, dist |-> 0]

--------------------------------------------------------------------------------
(* Cost models.                                                            *)
ExtraBits(length, dist) == LengthExtraBits(length) + DistExtraBits(dist)
GetCostFixed(c) ==
  FixedLL[LLSymbol(c)] + IF c.dist = 0 THEN 0
                         ELSE FixedD[DistSymbol(c.dist)] + ExtraBits(c.litlen, c.dist)
GetCostStat(c) ==
  stats.ll_symbols[LLSymbol(c)] + IF c.dist = 0 THEN 0
                                  ELSE stats.d_symbols[DistSymbol(c.dist)] + ExtraBits(c.litlen, c.dist)
Cost(c) == IF mode = "fixed" THEN GetCostFixed(c) ELSE GetCostStat(c)
Copy(length, dist, pos) == [litlen |-> length, dist |-> dist, pos |-> pos]

(* The cost of the cheapest length with the cheapest distance.             *)
CostOfLongest == Cost(Copy(MAX_MATCH, WINDOW - 1, 0))  \* mutant: a long match is not the cheapest
GetCostModelMinCost ==
  LET ByLength == [l \in MIN_MATCH..MAX_MATCH |-> Cost(Copy(l, 1, 0))]
      ByDist == [d \in 1..(WINDOW - 1) |-> Cost(Copy(MIN_MATCH, d, 0))]
      Cheapest(f) == CHOOSE k \in DOMAIN f : \A m \in DOMAIN f : f[k] <= f[m]
  IN  Cost(Copy(Cheapest(ByLength), Cheapest(ByDist), 0))

(* Statistics of the frequencies of the symbols.                           *)
Statistics(litlens, dists) ==
  [litlens |-> litlens, dists |-> dists,
   ll_symbols |-> Tabulated(ZopfliCalculateEntropy(litlens)),
   d_symbols |-> Tabulated(ZopfliCalculateEntropy(dists))]
InitStats == [litlens |-> [s \in LLSymbols |-> 0], dists |-> [s \in DSymbols |-> 0],
              ll_symbols |-> [s \in LLSymbols |-> 0], d_symbols |-> [s \in DSymbols |-> 0]]
Frequencies(st) ==
  LET counts == Counted(st, 0, Len(st.commands)) IN [counts EXCEPT !.ll[END] = 1]
GetStatistics(st) == LET f == Frequencies(st) IN Statistics(f.ll, f.d)

(* With the half of the frequencies of the run before.                     *)
AddWeighedStatFreqs(new, old) ==
  Statistics([[s \in LLSymbols |-> new.litlens[s] + old.litlens[s] \div 2] EXCEPT ![END] = 1],
             [s \in DSymbols |-> new.dists[s] + old.dists[s] \div 2])
RandomizeStatFreqs(st, from) ==
  Statistics([[s \in LLSymbols |-> st.litlens[from[1][s]]] EXCEPT ![END] = 1],
             [s \in DSymbols |-> st.dists[from[2][s]]])

--------------------------------------------------------------------------------
NoBest == [cost |-> 0, store |-> EmptyStore, stats |-> InitStats]

Init ==
  /\ \E input \in Inputs : data = input[1] /\ instart = input[2]
  /\ mode \in {"greedy", "fixed", "dynamic"}
  /\ phase = IF mode = "fixed" THEN "forward" ELSE "greedy"
  /\ i = instart
  /\ h = StartHash(data, instart, Len(data))
  /\ lmc = IF mode = "greedy" THEN NoCache ELSE InitCache(Len(data) - instart)
  /\ previous = NoMatch
  /\ costs = [j \in {0} |-> 0]
  /\ lengths = [j \in 0..(Len(data) - instart) |-> 0]
  /\ path = <<>> /\ store = EmptyStore /\ stats = InitStats
  /\ iteration = 0 /\ lastcost = 0 /\ random = FALSE
  /\ best = NoBest

(* FindLongestMatch at pos, with the cache if there is one.                *)
Found(hash, pos, limit, sub) ==
  FindLongestMatch(data, hash, lmc, pos - instart, pos, inend, limit, sub)
Hashed(hash, from, to) == Updated(data, from, to, inend, hash)

--------------------------------------------------------------------------------
(* ZopfliLZ77Greedy: a match is kept back for one byte, and dropped for a  *)
(* literal if the match there is longer by two.                            *)
GetLengthScore(m) == IF m.dist > FarDist THEN m.length - 1 ELSE m.length
Worth(m) == GetLengthScore(m) >= MIN_MATCH
LiteralAt(pos) == Literal(data[pos + 1], pos)

(* The store after what was decided on, and the hash of the positions up   *)
(* to the next one.                                                        *)
Advance(hash, new, next) ==
  /\ store' = new /\ i' = next
  /\ h' = Hashed(hash, i + 1, next)
Replaced(m) == previous # NoMatch /\ GetLengthScore(m) > GetLengthScore(previous) + 1
Kept(m) == previous # NoMatch /\ ~Replaced(m)
GreedyChoice(hash, m) ==
  LET wait == ~Kept(m) /\ Worth(m) /\ m.length < MAX_MATCH
      first == IF Replaced(m) THEN ZopfliStoreLitLenDist(LiteralAt(i - 1), store) ELSE store
  IN  /\ previous' = IF wait THEN [length |-> m.length, dist |-> m.dist] ELSE NoMatch
      /\ CASE Kept(m) -> Advance(hash, ZopfliStoreLitLenDist(Copy(previous.length, previous.dist, i - 1), store),
                                 i - 1 + previous.length)
           [] wait -> Advance(hash, first, i + 1)
           [] OTHER -> IF Worth(m)
                       THEN Advance(hash, ZopfliStoreLitLenDist(Copy(m.length, m.dist, i), first), i + m.length)
                       ELSE Advance(hash, ZopfliStoreLitLenDist(LiteralAt(i), first), i + 1)
GreedyFound(hash, result) == lmc' = result.lmc /\ GreedyChoice(hash, result.found)
GreedySearch(hash) == GreedyFound(hash, Found(hash, i, MAX_MATCH, TRUE))

GreedyStep ==
  /\ phase = "greedy" /\ i < inend
  /\ GreedySearch(UpdateHash(data, i, inend, h))
  /\ UNCHANGED <<data, instart, mode, phase, costs, lengths, path, stats, iteration,
                 lastcost, random, best>>

(* The start of GetBestLengths.                                            *)
StartForward ==
  /\ phase' = "forward" /\ i' = instart
  /\ h' = StartHash(data, instart, inend)
  /\ costs' = [j \in {0} |-> 0]
  /\ store' = EmptyStore

GreedyEnd ==
  /\ phase = "greedy" /\ i >= inend
  /\ IF mode = "greedy"
     THEN phase' = "done" /\ UNCHANGED <<i, h, costs, store, stats>>
     ELSE stats' = GetStatistics(store) /\ StartForward
  /\ UNCHANGED <<data, instart, mode, lmc, previous, lengths, path, iteration,
                 lastcost, random, best>>

--------------------------------------------------------------------------------
(* GetBestLengths: within a long run of one byte MAX_MATCH positions are   *)
(* reached by longest matches, without a search.                           *)
LongRepetition(hash) ==
  /\ hash.same[i % WINDOW] > MAX_MATCH * 2
  /\ i > instart + MAX_MATCH + 1
  /\ i + MAX_MATCH * 2 + 1 < inend
  /\ hash.same[(i - MAX_MATCH) % WINDOW] > MAX_MATCH

(* The costs from the match m at at, where jumped are the costs so far and *)
(* skipped the positions that were reached without a search.  What was not *)
(* reached costs ZOPFLI_LARGE_FLOAT, more than any way to it.              *)
Reach(at, m, jumped, skipped, mincost) ==
  LET here == jumped[at - instart]
      ahead == {k \in (at - instart + 1)..blocksize :
                  k = at - instart + 1 \/ k - (at - instart) \in MIN_MATCH..m.length}
      Way(k) == LET n == k - (at - instart)
                IN  here + Cost(IF n = 1 THEN LiteralAt(at) ELSE Copy(n, m.sublen[n], at))
      better == {k \in ahead :
                   \/ k \notin DOMAIN jumped
                   \/ /\ k = at - instart + 1 \/ jumped[k] - here > mincost
                      /\ Way(k) < jumped[k]}
  IN  /\ costs' = [k \in DOMAIN jumped \cup better |-> IF k \in better THEN Way(k) ELSE jumped[k]]
      /\ lengths' = [k \in 0..blocksize |-> CASE k \in better -> k - (at - instart)
                                              [] k \in skipped \ better -> MAX_MATCH
                                              [] OTHER -> lengths[k]]
Jumped(skipped) ==
  [k \in DOMAIN costs \cup skipped |->
     IF k \in skipped THEN costs[k - MAX_MATCH] + Cost(Copy(MAX_MATCH, 1, i)) ELSE costs[k]]
ForwardFound(at, result, skipped) ==
  /\ Reach(at, result.found, Jumped(skipped), skipped, GetCostModelMinCost)
  /\ lmc' = result.lmc /\ i' = at + 1
ForwardSearch(at, hash, skipped) ==
  /\ ForwardFound(at, Found(hash, at, MAX_MATCH, TRUE), skipped)
  /\ h' = hash
ForwardHashed(hash) ==
  LET long == LongRepetition(hash)
      j == i - instart
      at == IF long THEN i + MAX_MATCH ELSE i
  IN  ForwardSearch(at, Hashed(hash, i + 1, at + 1),
                    IF long THEN (j + MAX_MATCH)..(j + 2 * MAX_MATCH - 1) ELSE {})

ForwardStep ==
  /\ phase = "forward" /\ i < inend
  /\ ForwardHashed(UpdateHash(data, i, inend, h))
  /\ UNCHANGED <<data, instart, mode, phase, previous, path, store, stats, iteration,
                 lastcost, random, best>>

(* The lengths that lead to the last byte, and where they start after n of *)
(* them.                                                                   *)
Earlier(w) == IF w.index = 0 THEN w
              ELSE [index |-> w.index - lengths[w.index], path |-> <<lengths[w.index]>> \o w.path]
Traces ==
  LET After[n \in Nat] ==
        IF n = 0 THEN [index |-> blocksize, path |-> <<>>] ELSE Earlier(After[n - 1])
  IN  After
Backwards == Traces[blocksize].path

TraceBackwards ==
  /\ phase = "forward" /\ i >= inend
  /\ phase' = "follow" /\ path' = Backwards
  /\ i' = instart /\ h' = StartHash(data, instart, inend)
  /\ UNCHANGED <<data, instart, mode, lmc, previous, costs, lengths, store, stats, iteration,
                 lastcost, random, best>>

(* One element of the path: the distance is searched again.                *)
FollowPath ==
  LET hash == UpdateHash(data, i, inend, h)
      result == Found(hash, i, path[1], FALSE)
      match == path[1] >= MIN_MATCH
      length == IF match THEN path[1] ELSE 1
  IN  /\ phase = "follow" /\ path # <<>>
      /\ store' = ZopfliStoreLitLenDist(IF match THEN Copy(path[1], result.found.dist, i)
                                         ELSE LiteralAt(i), store)
      /\ lmc' = IF match THEN result.lmc ELSE lmc
      /\ i' = i + length /\ h' = Hashed(hash, i + 1, i + length)
      /\ path' = Tail(path)
      /\ UNCHANGED <<data, instart, mode, phase, previous, costs, lengths, stats, iteration,
                     lastcost, random, best>>

(* For the fixed tree the costs are known, and one run is enough.          *)
ZopfliLZ77OptimalFixed ==
  /\ mode = "fixed" /\ phase = "follow" /\ path = <<>>
  /\ phase' = "done"
  /\ UNCHANGED <<data, instart, mode, i, h, lmc, previous, costs, lengths, path, store,
                 stats, iteration, lastcost, random, best>>

(* The rest of an iteration of ZopfliLZ77Optimal.                          *)
EndOfRun ==
  LET cost == BlockSize(store)
      new == GetStatistics(store)
      stale == iteration > RandomAfter /\ cost = lastcost
  IN  /\ mode # "fixed" /\ phase = "follow" /\ path = <<>>
      /\ best' = IF best = NoBest \/ cost < best.cost
                 THEN [cost |-> cost, store |-> store, stats |-> stats] ELSE best
      /\ IF stale THEN \E from \in Random : stats' = RandomizeStatFreqs(best'.stats, from)
         ELSE stats' = IF random THEN AddWeighedStatFreqs(new, stats) ELSE new
      /\ random' = (random \/ stale)
      /\ lastcost' = cost /\ iteration' = iteration + 1
      /\ IF iteration + 1 < Iterations THEN StartForward
         ELSE phase' = "done" /\ UNCHANGED <<i, h, costs, store>>
      /\ UNCHANGED <<data, instart, mode, lmc, previous, lengths, path>>

Next == GreedyStep \/ GreedyEnd \/ ForwardStep \/ TraceBackwards \/ FollowPath
        \/ ZopfliLZ77OptimalFixed \/ EndOfRun

Spec == Init /\ [][Next]_vars

--------------------------------------------------------------------------------
(* The commands of the store reproduce the bytes from instart on, byte by  *)
(* byte, from bytes at most a window before, and stand one after the       *)
(* other: what ZopfliVerifyLenDist asserts of each match, for the whole.   *)
Reproduces(st, upto) ==
  LET cs == st.commands
      Start(k) == IF k = 1 THEN instart ELSE cs[k - 1].pos + Size(cs[k - 1])
  IN  /\ \A k \in DOMAIN cs :
           /\ cs[k].pos = Start(k)
           /\ IF cs[k].dist = 0 THEN cs[k].litlen = data[cs[k].pos + 1]
              ELSE /\ cs[k].litlen \in MIN_MATCH..MAX_MATCH
                   /\ cs[k].dist < WINDOW /\ cs[k].dist <= cs[k].pos
                   /\ cs[k].pos + cs[k].litlen <= upto
                   /\ \A n \in 1..cs[k].litlen :
                        data[cs[k].pos + n] = data[cs[k].pos + n - cs[k].dist]
      /\ Start(Len(cs) + 1) = upto

StoreReproduces ==
  /\ phase = "follow" => Reproduces(store, i)
  /\ phase = "greedy" => Reproduces(store, IF previous = NoMatch THEN i ELSE i - 1)
  /\ phase = "done" => Reproduces(store, inend)
  /\ best # NoBest => Reproduces(best.store, inend)

(* Each command costs what the forward pass had computed from the byte it  *)
(* starts at to the byte after it, so that the store costs as much as the  *)
(* way to the last byte: the second search finds the matches of the first  *)
(* one, from whatever part of the cache it is answered.                    *)
CostOfPath ==
  phase = "follow" =>
    /\ costs[0] = 0
    /\ \A k \in DOMAIN store.commands :
         LET c == store.commands[k]
         IN  costs[c.pos - instart + Size(c)] = costs[c.pos - instart] + Cost(c)

(* The cache answers what a search would find, for every limit FollowPath  *)
(* may ask with, and for the forward pass.                                 *)
CacheAgrees ==
  phase = "follow" /\ i = instart /\ lmc # NoCache =>
    \A pos \in instart..(inend - 1) :
      LET hash == Hashed(StartHash(data, instart, inend), instart, pos + 1)
          Search(cache, limit, sub) ==
            FindLongestMatch(data, hash, cache, pos - instart, pos, inend, limit, sub).found
          Same(a, b) == \/ a.length < MIN_MATCH /\ b.length < MIN_MATCH
                        \/ a.length = b.length /\ a.dist = b.dist
          all == Search(NoCache, MAX_MATCH, TRUE)
          known == Search(lmc, MAX_MATCH, TRUE)
      IN  /\ Same(known, all)
          /\ \A k \in MIN_MATCH..all.length : known.sublen[k] = all.sublen[k]
          /\ \A limit \in MIN_MATCH..MAX_MATCH :
               Same(Search(lmc, limit, FALSE), Search(NoCache, limit, FALSE))

(* The forward pass of the fixed tree leads to the last byte at the least  *)
(* cost of any parse made of literals and of the matches that a search at  *)
(* each byte finds, each length at the distance found for it: although it  *)
(* takes part of them from the cache, leaves out the lengths that cannot   *)
(* be cheaper than the cheapest match, and does not search within long     *)
(* runs.  What it cannot do better is what the search does not find, where *)
(* the chain of a hash is longer than MAX_CHAIN_HITS.                      *)
ShortestFound ==
  mode = "fixed" /\ phase = "follow" /\ i = instart =>
    LET hashes == Hashes(data, instart, inend, StartHash(data, instart, inend))
        Search(pos) == FindLongestMatch(data, hashes[pos + 1], NoCache, 0, pos, inend, MAX_MATCH, TRUE).found
        Ways(pos, m) == {LiteralAt(pos)} \cup {Copy(k, m.sublen[k], pos) : k \in MIN_MATCH..m.length}
        (* the least costs from pos to the end, from those from later bytes *)
        From(least, pos) ==
          (pos :> Min({Cost(c) + least[pos + Size(c)] : c \in Ways(pos, Search(pos))})) @@ least
        least == FoldLeft(From, (inend :> 0), [n \in 1..blocksize |-> inend - n])
    IN  costs[blocksize] = least[instart]
================================================================================
