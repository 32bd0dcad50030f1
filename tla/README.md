# compressmpq: models, checks and proofs

compressmpq reads a WarCraft 3 map (an MPQ archive behind an optional prefix),
unpacks every file whose name it knows, packs it again with zopfli on several
threads, and writes a new archive behind the same prefix. These modules model
the program from `main` down to the bits of a deflate block: options, files and
tables, worker threads, the cache on disk, sectors, the compressor and the
decompressors. All source references are to `src/`.

## Inventory

| Component | State | Operations | Correct if |
|---|---|---|---|
| Repacking (`compress-mpq.c` `mkmpq`, `PackFiles`, `Write*`; `queue.c`, `thread.c`) | `globals`: `work_queue`, `lock`, `mpq_table`, `mpq_file` and its position, counters; the image of the input, where sectors are decrypted; the locals of each worker | start threads, pop, extract, pack, append, insert, count, join, write tables and header, `exit(1)` | each file is written once, its block entry leads to it, the header is last, the program ends |
| Tables (`table.c`, `FindBTE`) | `ht`, `bt` | `InitTable`, `Insert`, lookup | no insertion fails, a lookup finds the first block of the name |
| Cache (`InitCache` .. `ReadCache`) | the directory `./cache`, lock files, cache files: shared by processes and left behind by them | lock, read, write, release | nobody reads a torn or a foreign file, no lock leaks, nobody waits for ever |
| Sectors (`PackFile`, `ExtractFile`) | buffers, the sector offset table | pack sector by sector; four ways of extracting | what is packed is read back |
| Listfile (`listfile.c`, `strtok_l`, `ReadListfile`, `PopulateListfile`, `main`) | statics of `strtok_l`, the table of paths | cut, look up, remember, check, queue | no known name is lost; every file is queued once or the program complains |
| Options and startup (`main`, `ReadInMpq`, `FindHeader`) | options, the output file, the image of the input | parse, open, find the header, decrypt the tables | a run that goes wrong harms nothing but its output, and what a run wrote the next one reads |
| Hashing and encryption (`crypto.c`) | `cryptTable`, key and seed of a block | `hash`, `EncryptBlock`, `DecryptBlock` | decryption undoes encryption |
| Zopfli, matches (`lz77.c`, `hash.c`, `cache.c`, `squeeze.c`) | LZ77 store, hash chains, the cache of matches, costs and statistics | hash, search, parse greedily and optimally | the commands reproduce the input, at the cost that was computed |
| Zopfli, blocks (`katajainen.c`, `tree.c`, `deflate.c`, `blocksplitter.c`, `zlib_container.c`) | code lengths, split points, the stream of bits | limit lengths, encode trees and data, split, choose | the stream inflates to the input and has the computed size |
| Decompression (`decompress`, `Pklib/`, `Huffman/`, `Adpcm/`) | a window, an adaptive tree, a predictor | one method after another | a packed sector is unpacked to what it was |
| `miniz.c` | the inflater | `mz_uncompress` | it reads what zopfli writes and nothing less |
| `lonesha256.h`, Base64 | none | names of cache files | (library code) |

Components meet in `PackFiles`: it pops a path that *Listfile* queued, extracts
it (*Sectors*, decrypting in the shared image of the input, then
*Decompression*), asks the *cache*, packs on a miss (*Sectors*, *zopfli*), and
inside `globals.lock` appends the data and inserts into the *tables*. `mkmpq`
finishes the file when all have returned. `main` reads the archive before and
encrypts the tables after.

What is hard here: interleavings of the workers (two mutexes, one shared file
position, one shared and mutable input image); `exit(1)` called by one worker;
processes that share the cache and die in it; an output that is emptied before
the input is read, and read again by the next run; sizes at sector boundaries;
an open-addressing table filled to the last slot; a tokenizer with static
state; a cache of matches that must agree with a search it avoids; arithmetic
of bit lengths that two independent programs, zopfli and miniz, must share.
`PROJECT.json` lists every such hazard at its line with the properties for it.

## Modules

| Module | Models | State and actions in terms of the code |
|---|---|---|
| `Table` | `table.c`, `FindBTE` | `ht`, `bt` as in the code; `Insert` = `InsertBT` + `InsertHT`; `FindBTE` as an operator on a hash table. `names` is history. |
| `Repack` (extends `Table`) | `mkmpq`, `PackFiles`, `pop`, `WriteHT`, `WriteBT`, `WriteHeader` | one `pc` per thread; one action per access to shared state; `pop` in four steps, so that its mutex matters; the critical section of `PackFiles` in five. `disk` is the list of writes to the file and `fpos` its position. |
| `Archive` | what `Repack` promises | a reader sees no archive, then in one step the complete one; or none ever, and only if a file may be unreadable. Intact files are promised for a sound input only: one whose encrypted listfile is not queued in another spelling. |
| `Cache` | `InitCache`, the lock functions, `ReadCache`, `CachePacked`, and their calls in `PackFiles` | one `pc` per run (process); `lockFile` and `cacheFile` are the directory; `Kill` and `Restart` are the environment. |
| `Sectors` | `PackFile`, `ExtractFile` | a file is a list of pieces (position, length, stored or packed, key); the compressor chooses the packed size of a sector; `sizes` is `sectorOffsetTable` as the first loop of `PackFile` fills it, apart from the bytes themselves (`outpos`) and their count (`written`), and `acc` the running sum of its second loop; `Edit*` are the files of the World Editor, modelled from what `ExtractFile` expects. |
| `Listfile` | `strtok_l`, `listfile.c`, `ReadListfile`, `PopulateListfile`, `ListfileSufficient`, the loop of `main` | texts of letters and delimiters; `idx` is the static of `strtok_l`; `list` is the table of `listfile.c`, slot by slot. |
| `Crypto` | `crypto.c` | one word of `EncryptBlock` or `DecryptBlock` is a step; `plain` and `start` (the key) are history. |
| `Main` (extends `Crypto`) | `main`, `FindHeader`, `ReadInMpq`, `CopyPreMPQData`, `WriteHT`, `WriteBT`, `WriteHeader` | one option is a step; a file is its 512-byte pieces up to the header, the header, and words behind it, which hold file data and tables and are looked at every 512 bytes too; `disk` outlives the runs; `meant` is history. |
| `Bits` | writing and reading numbers bit by bit | used by everything below. |
| `Entropy` | `ZopfliCalculateEntropy` of `tree.c` | whole bits. |
| `PackageMerge`, `Codes` | `katajainen.c` | the boundary package-merge algorithm on its pool of nodes: `BoundaryPM` is the call on top of the stack `calls`; in `Codes` every call of it is a step. |
| `CodeLengths` | `katajainen.c`, `tree.c` | the algorithm as a whole, and the codes of the lengths, as operators. |
| `Store` | the store of `lz77.c`, the symbols of `util.c` | operators; a store is a sequence of commands with its chunked histograms. |
| `Blocks` (extends `Store`, `CodeLengths`) | trees, sizes and blocks of `deflate.c` | operators; the output is a sequence of bits. |
| `Inflate` | `mz_uncompress` to `tinfl_decompress` | operators; a reader is a position, the bytes written and a status. |
| `Deflate` (extends `Store`) | `ZopfliDeflate`, `blocksplitter.c` | one round of each loop is a step: a part, a split, a block. What a parse finds, what a block costs and how it is written are parameters. |
| `Zlib` (extends `Deflate`, `Inflate`) | `zlib_container.c`, `AddLZ77BlockAutoType` | gives `Deflate` its parameters: the blocks of `Blocks`, header and checksum. |
| `Match` (extends `Store`) | `ZopfliFindLongestMatch`, `hash.c`, `cache.c` | operators on a record of the hash tables and on the cache of matches. |
| `Squeeze` (extends `Match`) | `ZopfliLZ77Greedy`, `squeeze.c` | one position of each loop is a step; the hash, the cache, costs and statistics are variables. |
| `HuffItems` | the tree of `huff.cpp` | items, their list and the leaves of the values; operators for one round of each loop that changes them. |
| `Huffman` (extends `HuffItems`) | `BuildTree`, the tree in `Compress`, `IncWeightsAndRebalance` | every round of these loops is a step; `item` is the item that gets heavier next. Coder and decoder do the same to their trees. |
| `HuffWeights`, `HuffTree`, `ExplodeTables`, `Explode`, `Adpcm` | `huff.cpp`, `explode.c`, `adpcm.cpp` | operators, the tables those of the source; `HuffTree` has the loops of `huff.cpp` as a whole, and the bits. |
| `Decompress` (extends those, `Huffman` and `Inflate`) | `decompress` | one value, literal or repetition, sample, or zlib stream is a step, and so is every round in the Huffman tree: a step of `Decompress` is one of `Huffman` or leaves its variables alone. |
| `MC_*` | instances for TLC | values of the constants only. |
| `*_proofs` | theorems | see below. |

Operators named in a comment as *mutant* are plausible bugs. Nothing refers to
them; they are there to be put in the place of the definition they precede,
and every property of every run is violated by one of them.

### Abstractions

- Hashes: in `Table` and `Listfile` a name has a start slot and a key. Names
  with one key are names the format cannot tell apart (case; slashes after
  `ConvertSlashes`). `Crypto` has the function itself.
- Contents and texts: in `Repack` a file's data is its identity, and whether it
  is intact. `Corrupt` are the files whose extraction may fail: for `Repack`
  each of them does or does not.
- `listfile` of `Repack` is the queued path, if any, that is the listfile of the
  input in another spelling. `main` has extracted that file before it fills the
  queue (`compress-mpq.c:859`), and decrypted it in the image if it is
  encrypted. The second decryption (`Decrypt`) goes by a garbled sector offset
  table: it may hit any set of files of the image, and the extraction may
  succeed with garbled data, fail, or end the process (`Crash`). What it does
  to memory outside the files (the tables of the input, other data) is taken to
  end the process as well.
- In `Sectors` the compressor yields any size. In `Deflate` the parses, the cost
  of a block and its bits are operator constants; `ParseAssumption` says of
  parses only that their commands stand one behind the other. `Zlib` takes
  literals only or the longest match at every position, chosen anew for every
  block; what the parsers really do is in `Squeeze`.
- `XorOf` of `Match` and `BlockSize` of `Squeeze` are operator constants, so that
  both can be proved about: the hash is any that forgets all but the last three bytes
  (`MatchAssumption`), and the size of a block, which decides on the parse to
  keep, is any number. The runs have `^` and the sizes of `Blocks`.
- Costs in `Squeeze` are kept for the places that were reached; the code has
  `ZOPFLI_LARGE_FLOAT` for the others.
- `HtSize` of `Repack` is at least 1. `Main` covers an archive without files.
- 32-bit fields wrap (`% Word`), and `Fits` says that an archive does not.
- `fwrite` on the output, `malloc` and `pthread_create` succeed. The code does
  not look at their results.
- `fclose` of a cache file writes what is buffered. The code does not look at its
  result either; with a failing `fclose`, `UnlockedIsWhole` would not hold.
- `Sectors` assumes files below 2^24 bytes, where `ceil` of a `float` is exact.
- `Main`: positions are counted in words; a file is as many words as it has
  entries in the block table, and these are any words, the magic number among
  them. The data in front of the World Editor's archive hold no magic number at
  a multiple of 0x200 (else that would be the archive). Where `FindHeader` finds
  one in file data or in a table (`Stray`), what follows it is read as any header
  of `Strays`, with any tables, and every later access may end the process. An
  interrupted run leaves any beginning of what it has written. An external listfile that can be read names every
  file. Of `cryptTable` and of `^` and `|` only what `CryptoAssumption` says.
- `Crypto` leaves the word size open; the numbers of `crypto.c` are constants.
- Zopfli's costs are `double`s; here logarithms are whole bits, so that sums are
  exact. Leaves of equal weight, which `qsort` may order either way, keep their
  order. `RandomizeFreqs` draws from a few permutations instead of `Ran`.
- The slow and the fast loop of `tinfl_decompress` are one, and its input is
  complete, as in the only call there is.
- A packed sector has one method. The bytes behind the method byte are those of
  the coders in `huff.cpp` and `adpcm.cpp`; the imploder and the zlib encoder of
  the World Editor are not in the repository and modelled from what is read.
  One byte behind the sector is part of the input, because `decompress` skips
  the method byte without counting it off (`compress-mpq.c:201`).
- `HuffDecode` of `Inflate` reads what is no code of a table with at most one symbol
  as symbol 0 of no length, as `miniz.c:2365` does for codes of up to ten bits;
  longer ones would take some bits. Only malformed streams have such a place.
- The quick links of `huff.cpp` never come to use: an item's `ValidValue` is
  never above `MinValidValue`. They are modelled up to that comparison.

## Runs

| Run | Question | Bounds |
|---|---|---|
| `table` | Can the table be filled to the last slot and every name still be found? | 4 slots, 4 entries, 12 names: every start slot, two hash pairs, one name that shares the pair of another. All orders of insertion, so all clusters and wrap-arounds. |
| `repack` | Does any interleaving lose, repeat or misplace a file, or publish too early, also if a worker ends the process? | 3 threads (main and two others, so that two compete while one joins), 3 files, two of them colliding after `ConvertSlashes`, one with two packed sizes, two encrypted, one of them possibly the listfile that `main` has decrypted, one that may be unreadable; all probes wrap around. `Word` is 256 and the archive fits. |
| `cache` | Do runs that share an entry, and die, hurt each other? | 2 runs, each started twice, with 2 options of different packed sizes; 2 attempts instead of 100 (one that waits and one that is the last); failing opens and writes. One entry, since entries share nothing but the directory. |
| `cache_options` | Is what a run adds packed with its own options? **No.** | As `cache`. |
| `sectors` | Do packing and extracting agree on every boundary? | Blocks of 4 bytes, files of 0 to 12 bytes: none to three sectors, the last of every length; every packed size; every combination of the flags. |
| `sectors_last` | Is every packed file read back? **No.** | As `sectors`. |
| `listfile` | Is a name ever lost, and does `main` decide? | Lists of 4 elements, archives of up to 4 of 5 files whose hashes collide, two spellings of a name, one name the beginning of another; every external text of up to 2 and internal text of up to 3 characters, missing or unreadable ones too. |
| `main` | Does each run read what an earlier one wrote, and what does a failing run leave? | 3 runs (an archive, one made from it, one made from that) with 17 argument lists over two files, one list for every way out of the option loop; input and output may be one file; prefix or none; up to 2 entries, whose data may hold the magic number where a run looks for a header; words of 4 bits with a table of 20 words made by the algorithm of the code. |
| `codes` | Are the code lengths optimal, and does the pool suffice? | Histograms of 2, 5, 7 and 8 symbols with counts up to Fibonacci numbers, which are what makes codes long; limits of 3 and 4 bits, so that the limit bites, also where all codes are equally long. |
| `squeeze` | Does a parse reproduce its input, at its cost? | 35 inputs up to 34 bytes: a window of 8, matches of up to 6, 2 cached lengths instead of 8, chains of 3, so that windows wrap, searches end at the limit of the chain and cache entries overflow; runs long enough for the shortcut, noted up to 20; 4 iterations, 2 of them random. |
| `deflate` | Does every stream inflate to its input? | Bytes of 4 bits, 6 inputs of up to 46 bytes, parts of 40, so that one input has two; stored blocks of 15 bytes; at most 3 blocks or any number. |
| `decompress` | Does a packed sector unpack, and does the adaptive tree keep its shape, at every round of its loops? | The tables of the source, every type of the Huffman coder, ten of its bytes; texts of up to 6 of 3 bytes with type 0, where nearly all bytes are new, and of up to 5 with type 2, where some codes are long, and longer ones; all characters of the imploder and repetitions over a window of 32 bytes; sounds of 4 samples at the ends of the range; the byte behind the sector 0, 129 or 255. |

`CHECK_DEADLOCK FALSE` is set everywhere because every system here ends; that
it ends *well* is a property of its own (`ImplementsArchive`, `RunsEnd`,
`Decides`), where liveness is in question.

### What the runs show

- `table`: "the impossible happened" (`table.c:44`) is impossible while the
  block table has room, and `LookupIsFirst`/`LookupStable`: insertion never
  shadows or loses an entry, whatever clusters.
- `repack`: `EachInOnePlace`, `DecryptedOnce`, `Consistent`,
  `BlocksHoldTheirFiles` and `SealedLast` are the parts. `DecryptedOnce` has the
  one exception of the code: a listfile that is encrypted and queued in another
  spelling comes out garbled, and from the moment it is taken from the queue any
  other file may. All other properties of the run cover that case too, and
  the texts of `listfile` have such a spelling, which its `QueueComplete`
  allows in the queue; `ImplementsArchive` is the whole: `Repack` refines
  `Archive` under the mapping `View`, which reads the file as a reader would,
  from the header to the tables to the data, counting only ranges that no later
  write has touched. A worker that calls `exit(1)` ends it with no archive.
- `cache`: `LocksAccounted`, `UnlockedIsWhole`, `AddedIsWhole`, `RunsEnd`. A
  lock left by a killed run is never removed, and that is what keeps the torn
  file behind it from being read; the price is that the entry is never used again.
- `sectors`: the buffer of `PackFiles` is never overrun although it may be full
  to the last byte. `Recognised`: a packed sector is mistaken for a stored one
  only if it is `Disguised`, and only the short last one of `PackFile` can be.
- `listfile`: colliding names always find an element, so that `main` complains
  only about an entry nobody named. A text that does not end in a delimiter
  gives its last name an end that depends on the memory behind it.
- `main`: `Reopened`: the tables a run wrote are found and decrypted by the
  next, the header behind the prefix being the first place with the magic number.
  `OutputWholeOrHeaderless`: the header is written last, so that no complaint,
  kill or crash leaves one; if a later run takes such an output for an archive
  all the same, it is because of the magic number in file data or in a table at
  a multiple of 0x200. An output of a run that returned 0 is never misread in
  that way, and has both its tables. A run changes no file but its output. The output is however emptied first, also when
  it is the input. That the options a run goes on with are legal, whatever its
  arguments are, is proved (`OptionsLegal`).
- `codes`: `CodesOptimal` compares with every prefix code within the limit;
  `ChainsKept`: between any two calls of `BoundaryPM` the chains of every
  list come to an end, no node of theirs is handed out again, and the pool has one
  left.
- `squeeze`: `StoreReproduces` at every step; `CacheAgrees`: the cache answers
  as a search would, for every limit; hence `CostOfPath`, that the path costs what
  the forward pass computed; `ShortestFound`: under the fixed tree the path
  is the cheapest of all parses made of literals and of the matches, each length
  at its distance, that a search at every byte finds, although the forward pass
  skips searches in long runs and lengths that cannot pay off. The run's chains are
  longer than its limit on them, so that searches do miss matches.
- `deflate`: `RoundTrip` through all choices of blocks and trees, read by another
  program with its own tables; `SizesMatch` and `HistogramsMatch` are what
  the choices rest on; `SplitPointsSound`: blocks are not empty, no more than
  allowed, and none that was given up is tried again;
  `TruncationDetected`: no beginning of a stream passes for the whole.
- `decompress`: `SectorRestored`: what the coders write is read back. Of the
  Huffman coder the run also shows that its loops as a whole (`HuffTree`, with which
  the sectors are packed) and round by round (`Huffman`, with which they are
  unpacked) make the same trees. `TreeSound` is the shape of the tree that
  `huff.cpp` relies on without a check: whenever a byte is coded the list falls in
  weight, two siblings are neighbours in it (only the lower one is stored) behind a
  parent as heavy as both, every value has its leaf, the last item is one, and
  `ItemBuffer` suffices.

### Disagreements between code and documents

1. `cache_options`: a cache file is named after content and path only
   (`compress-mpq.c:633`), so a hit may be packed with other options than
   `Readme.md:43` promises of `--shift-size`. The header then names a sector size
   that the file was not split with.
2. `sectors_last`: `compress-mpq.c:469` compares the packed size without the
   method byte. A short last sector shrunk by exactly one byte gets its old size
   back and is taken for stored at `:320` ("this sector is not compressed").

Seen while modelling, and in the models, but in no run of their own:

- `--threads -1` passes the test at `compress-mpq.c:915`, because `threads` is a
  `size_t`, and `mkmpq` gets a negative number (`NoThreads` in `Main`).
- `--block-splitting-max 0`, "0 for unlimited" in the help (`:885`), is refused
  at `:944`; `--shift-size 0` is accepted at `:956`, whose message says 1 to 15.
- An archive with no files but the special ones is repacked to one with an
  empty block table; the run after that writes no hash table either, and the
  third takes a hash modulo 0 in `FindBTE` (`DivideByZero` in `Main`).
- `FindHeader` looks at all of a file, so that the output of a run that was killed
  or ended by a failing worker, which has no header, is taken for an archive by
  the next run if its data hold `MPQ\x1a` at a multiple of 0x200 (`ReadStray` in
  `Main`).
- A `(Listfile)` that is spelled otherwise is queued (`:1009` compares with
  `strcmp`), though it was extracted before (`:859`); if it is encrypted it is
  decrypted twice (`Spoilt`, `Decrypt` in `Repack`).
- "This one should give the shortest possible result for fixed tree"
  (`squeeze.c:543`) promises more than the code keeps: a search gives up after
  `ZOPFLI_MAX_CHAIN_HITS` (8192) positions of one hash (`lz77.c:526`), while a window
  has 32768, so that a parse with a match behind them may be shorter.
  `ShortestFound` is what holds.
- `decompress` undoes ADPCM before Huffman (`:221` to `:248`) and lets the second
  method read the buffer it writes; only sectors with one method are modelled.

### Fairness

`Repack`: weak fairness of each thread's next step, which is what a preemptive
scheduler gives. The mutexes are not assumed to be fair: each is taken finitely
often, so a waiter finds it free for good in the end. `Cache`: weak fairness of
each process; kills and restarts are never forced. `Listfile` is sequential:
weak fairness of the program. The other specifications state safety only; the
loops of the compressor are bounded by their input, and of those that are no plain
loops theorems say so: `SearchEnds` and `SplittingEnds` of the splitting, and
`ClimbingEnds` of the Huffman tree.

## Proofs

All theorems hold for every value of the constants that satisfies the named
assumptions, which TLC evaluates in every run of the module:
`TableAssumption`, `RepackAssumption`, `UnpublishedAssumption` (the mark of an
archive not yet published is no contents of an archive), `CacheAssumption`,
`SectorsAssumption`, `ListfileAssumption`, `CryptoAssumption`, `MainAssumption`,
`StoreAssumption`, `MatchAssumption`, `SqueezeAssumption`, `DeflateAssumption`,
`ParseAssumption`, `CodesAssumption`, `BytesAssumption` and `HuffmanAssumption`.
They give the numbers of the code their kinds (a window longer than a match, a
block of at least two bytes), and say of functions of the code what a reader can check
in a line or two. Each argument is an inductive invariant, a conjunction of
named parts; a lemma per action shows that it is kept.

| Module | Theorems | Invariant |
|---|---|---|
| `Repack_proofs`, tables | `TableTyped`, `SlotsNeverRunOut`, `LookupCorrect`, `LookupNeverChanges` | `TableInv` |
| `Repack_proofs`, parts | `TypeCorrect`, `NoFileTwiceOrLost`, `BlocksStayIntact` | `TypeOK`, `PlaceInv`, `LayoutInv` |
| `Repack_proofs`, whole | `NoFileDecryptedTwice`, `CountersConsistent`, `HeaderIsLast`, `RepackImplementsArchive`, `SmallArchivesComplete` | `TypeOK /\ IInv` |
| `Cache_proofs` | `CacheTyped`, `LocksNeverLeak`, `NoTornFile`, `OnlyWholeDataAdded` | `CacheInv` |
| `Sectors_proofs`, sectors | `SectorsFitBuffer`, `TableLeadsToSectors`, `SectorsRecognised`, `LostByOneByteOnly` | `SectorsInv` |
| `Sectors_proofs`, the tree of `huff.cpp` | `TreeStaysSound`, `ClimbingEnds` | `HuffmanInv` |
| `Listfile_proofs` | `ListWellFormed`, `WordsCut`, `NoNameLost`, `EveryFileQueued` | `ListfileInv` |
| `Main_proofs` | `TableOfWords`, `DecryptUndoesEncrypt`, `OptionsLegal`, `ArchivesReopened`, `OutputsWhole`, `TablesRestored` | `CryptoInv`, `MainInv /\ CryptoInv` |
| `Match_proofs` | `LongestFound`, `LengthFound` | `HashInv`, `WalkInv`, `CacheInv` |
| `Squeeze_proofs` | `StoresReproduce`, `CacheAnswersAsSearch`, `CommandsCostAsComputed` | `SqueezeInv /\ PayInv` |
| `Deflate_proofs`, blocks | `HistogramsAreCounts`, `SplittingIsSound`, `SearchEnds`, `SplittingEnds` | `DeflateInv` |
| `Deflate_proofs`, codes | `ChainsAreKept`, `LengthsWithinLimit` | `CodesInv` |

### The arguments

**Tables.** `ChainInv` says that each block lies on the probe path of its name
behind older blocks only, which is why a lookup meets the first one first;
`UsedInv` counts the used slots, so that one of the `HtSize` slots is unused
while the block table has room; `IndexInv` says that used slots point to blocks and
every block has a name. The first unused slot, and the first block of a name, exist by `Least`.

**Repacking, the parts.** `EachInOnePlace` alone is not inductive: two threads
between reading and advancing `cur` would break it. `PlaceInv` adds what excludes
that: each mutex is held exactly where the program counters say (`LockInv`),
paths in different hands differ and lie below the cursor (`QueueInv`), the data
in hand is that of the path, and intact unless the listfile that was decrypted
before has been taken from the queue (`ContentInv`), and a path in hand is not in the file
(`FiledInv`). `LayoutInv` adds, for `BlocksHoldTheirFiles`, that writes before the
header are ordered by position (`DiskInv`), that block entry i describes write
i + 1 (`EntryInv`), and what the critical section has done so far (`PhaseInv`),
which needs `LockInv`: at most one thread is in it.

**Repacking, the whole.** `RepackImplementsArchive` is the safety half of
`ImplementsArchive`: `Spec /\ []Fits => Promise!Safety`. That a reader finds the
complete archive in the step that writes the header needs the rest of `IInv`:
nobody leaves the queue before it is drained (`DrainInv`), the counters that the
header is made from are right (`CountInv`), the data of the files are the writes
2 to `Len(bt) + 1` (`FilesInv`), and what `main` writes behind them is there, once,
and what memory still holds (`TailInv`); and `TableInv`, since the reader looks
names up in the hash table it finds. Before that step a reader finds nothing,
as no write is a header; afterwards nothing is written. `Fits` says that no
write ends beyond what 32 bits can count; without it the program writes an
archive that misleads its reader. `SmallArchivesComplete` replaces it by a
condition on the constants (`Small`): as many files as are queued, all of the
largest packed size, are with header and tables smaller than a word.

**Cache.** `HolderInv` says what the holder of a lock may rely on at each label:
the file is whole until it is opened for writing, and the size read by `ftell`
is still the size of the file.

**Sectors.** Pieces follow one another without a gap (`PiecesInv`). That the table
leads to them is not built in: the sizes noted in the first loop of `PackFile` are
those of the pieces (`NotedInv`), the running sum over them stands at the end of the piece
reached (`SumInv`), and so the table holds the ends (`OffsetsInv`), `memmove` having
moved every piece because all its bytes were counted (`WrittenInv`). What remains is arithmetic with the block size (`SectorFacts`):
all sectors but the last are full, together they have the size of the file.
`WrittenInv` also bounds the buffer. `KeysInv` says that a sector is decrypted
exactly once. `ContentInv` gives what was read, exactly: sector i is i unless
its piece is `Disguised`, packed but as long as the sector. `LostByOneByteOnly`
therefore completes the finding of `sectors_last`: the short last sector whose
packed bytes and method byte just fill it is the only cause of a loss.

**Listfile.** `TokensInv` says that the static of `strtok_l` stands behind the
words found so far and on no letter; `ListInv` that every name looked up is
in the list where its probe finds it before it finds a free element, so that the
two colliding hashes and the wrap-around lose nothing; `PathesInv` that the queue
holds what the slots passed so far hold.

**Encryption.** `BlockRestored` alone is not inductive: it does not say that both
loops have the same key and seed at a word. `Stream` gives the keys and seeds
a block has when it is encrypted from `start`, and `CryptoInv` says that both loops
follow it. The only facts used of `^` and `|` are those of `CryptoAssumption`.

**Runs of the program.** `Reopened` speaks of files that some earlier run wrote, so
`MainInv` says of every file at every moment that it is `Headless` or
`WellWritten` (`DiskInv`): its header leads to tables that are `Encrypted` from what
its writer meant, and is the first thing `FindHeader` finds, whatever the data
behind it are. In a headless file it may find file data. A run that reads has an output that is still empty, and so
is not its input (`ReaderInv`); a run that writes has what is behind the files
so far, and no header (`WriterInv`); only the output has changed, and has a
header only if the run has ended well (`BeforeInv`). `CryptoInv` carries the loops
in between; `TablesRestored` states `BlockRestored` once more, now for the
blocks that the program reads and writes.

**Searching for matches.** `Match_proofs` compares the search of the code with a
walk through the whole chain of a position. `HashInv` says what the two tables of
hashes hold after any number of bytes: the chain of a value leads through the
earlier positions with that value, latest first, as long as they are in the window;
and the length of the run at each position. That a value depends on the last three
bytes only (`MatchAssumption`) is why a match of three bytes is found although the
first bytes of the data are hashed in another way. `WalkInv` follows the loop:
the best length so far, and for each length the distance at which it was found
first, also after the switch to the second table and within runs. Then
`CacheInv`: a cached entry is what such a walk finds, with lengths up to the last
one kept. `LongestFound` and `LengthFound` draw the conclusion for the two ways in
which the search is called.

**Parsing.** `SqueezeInv` says what a loop over the bytes has at each position:
the hash of the bytes so far, a cache filled by such searches, and in the forward
pass for every place reached a length whose match exists; so the path that is
traced back leads from the start to the end, and the commands that
`FollowPath` stores reproduce the bytes. For `CostOfPath` more is needed: that
`FollowPath`, which searches again with another limit, finds the *distance* that the
forward pass had counted with. `PayInv` keeps, for every place, that its cost
is the cost of the place the length leads back to and the price of the match at
that distance (`Costed`, within long runs at distance 1), and that the commands
stored so far are paid for by the costs at their places (`Paid`).

**Histograms.** `Tallies` says what each chunk's histogram holds: how many of the
commands up to its end have each symbol. Putting stores together adds
commands one by one, so that it is kept; the histogram of a range subtracts two of them
and the rest of the chunk.

**Splitting.** `SplitOk`: points rise strictly between the first and the last
command, at most as many as asked for, and the block that is tried next lies
between two neighbours of them and was not given up. It does not depend on what
blocks cost, since `Narrowed` keeps the search for a point within the block in
any case. The number of points and blocks given up together (`Rounds`) grows in each
round, and is bounded (`SplittingEnds`).

**Codes.** `ChainsKept` speaks of walks along chains and does not say how long
they are. `CodesInv` has for both chains of every list a certificate (`Path`: the
nodes, in use, in order, at most one for each list up to this one), also between a
call of `BoundaryPM` and those it makes, when the lists are half renewed. Fewer nodes
are therefore live than the pool has, and the garbage collection finds a free one. It
also orders weights: the leaf that a chain counts last is not heavier than the chain's
head, and the next one not lighter (`Sandwiched`), which gives `LengthsWithinLimit`.
That the lengths are the *best* ones needs every other code and is
checked only.

**The adaptive tree.** `TreeSound` holds when a byte is coded, not while an item
climbs: the item that has got its count owes it to its parent. `TreeInv(t, x, r)`
is the shape with one item `x` whose own weight is one behind that of its
children, and the first `r` items of the list still without parents (`r` falls to 1 as
`BuildTree` pairs them off). A round of `IncWeightsAndRebalance` exchanges `x`
with the first item of its weight; whether the two are siblings, or one item, it is
the permutation `Swap` of equally heavy items applied to list and links alike
(`Exchange`), which keeps siblings together; then the parent of `x` owes the
count. Neither of the two is the root: the root is heavier than whatever is below it,
as all items weigh something, but for a new one at the end. The number of items is
two for each known value less one, hence the bound.

### Recursion

The keys of a block, `hash`, the draws of `PrepareCryptTable`, walks along a
chain, and logarithms are recursive functions. The library's induction theorems cannot be instantiated by
the provers at hand (they take an operator), so `Main_proofs` and `Match_proofs` have their own, about
sets: a non-empty set of natural numbers has a least element (`LeastNumber`,
from the well-foundedness of finite sets), hence a set that contains 0 and the
successor of each of its members contains all (`Values`), and a function
given by its first value and a step exists (`Recursion`). That is induction
from one number to the next for the recursions at hand; a recursive operator
remains out of reach.

### Only model-checked

- Liveness: that half of `ImplementsArchive`, `RunsEnd`, `Decides`. Fairness and
  `ENABLED` are out of the prover's reach.
- `CodesOptimal`: compares with all other codes; `LengthsWithinLimit` has the part of it
  that concerns the limit.
- `ShortestFound`: compares with all other parses; that costs may be skipped rests on
  a match of the longest length being as cheap as `GetCostModelMinCost` says.
- `RoundTrip`, `SizesMatch`, `TruncationDetected` of `Zlib` and `SectorRestored` of
  `Decompress`: two programs that read and write single bits, with recursive
  operators, for which the prover has no backend.
- `RoundTrip` of `Sectors` and `AddedWithOwnOptions` of `Cache`, which do not hold.

## Not modelled

- `lonesha256.h` and Base64: pure functions that only name cache files.
- The zopfli command line, gzip container and library (`zopfli_bin.c`,
  `gzip_container.c`, `zopfli_lib.c`): not called. Of `deflate.c` the
  block types a caller may force, and `ZopfliBlockSplitSimple`: never asked for.
- `miniz.c` but for `mz_uncompress` (deflate, zip archives, streaming): not called.
- Sectors with several methods, and malformed sectors: there is no description
  in the repository of what should come out.
- The Windows variants of locks and threads, `utime`, and printing.

## What is left

Every property of a run is proved but for those under *Only model-checked*. A
proof of `RoundTrip` would begin with one code: that what `Blocks` writes with the
lengths of a tree is what `Inflate` reads with its tables. `CodesOptimal` would need
the exchange argument for package-merge on top of `CodesInv`.
