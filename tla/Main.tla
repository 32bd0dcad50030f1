-------------------------------- MODULE Main --------------------------------
(***************************************************************************)
(* main of compress-mpq.c, one run after another on the same files: the    *)
(* options, the output file, reading an archive and decrypting its tables, *)
(* and, once mkmpq has packed the files (see Repack), encrypting the new   *)
(* tables and writing the header.  The first archive was written by the    *)
(* World Editor, in the same format and by the same encryption.            *)
(*                                                                         *)
(* Positions are counted in words.  A file is a sequence of 512-byte       *)
(* pieces, the data before the archive and the piece the archive begins    *)
(* in, which holds the magic number once the header is written; the header *)
(* is a record, and the words that follow it are file data and tables.     *)
(* They too are looked at for the magic number, wherever a piece begins in *)
(* them.  meant is history: what the writer of the archive put into it.    *)
(***************************************************************************)
EXTENDS Crypto, FiniteSetsExt

CONSTANTS
    Commands,   \* the argument lists the program is started with
    Atoi,       \* what atoi makes of an argument
    SizeWord,   \* 2^64: threads is a size_t
    Paths,      \* the arguments, each of which may name a file
    Listfiles,  \* the external listfiles that can be read
    Archive,    \* the path of the World Editor's archive
    Shifts,     \* the sector sizes the World Editor uses
    Leads,      \* pieces in front of the World Editor's archives
    EntryWords, \* words of a hash entry and of a block entry (4)
    MaxEntries, \* bound: blocks of the World Editor's archives
    MaxRuns,    \* bound: runs of the program
    PieceWords, \* 0x200 bytes
    Magic,      \* the word "MPQ\x1a"
    Strays,     \* what may follow that word where no header was written
    HashTableName, BlockTableName,  \* "(HASH TABLE)" and "(BLOCK TABLE)"
    NoFile, NoHeader

Tables == {"ht", "bt"}
HeaderWords == 8                 \* 0x20 bytes

\* A header; what the writer of an archive put into it; and a file.
Headers == [pos : [Tables -> Nat], size : [Tables -> Nat], shift : 0 .. 15]

Meanings == [offset : Nat, shift : 0 .. 15, tbl : [Tables -> Seq(Words)]]

Files == [pieces : Seq({"data", "hole", "magic"}), header : Headers \union {NoHeader},
          words : Seq(Words), named : BOOLEAN, meant : Meanings \union {NoHeader}]

\* The World Editor's archive is the first one in its file.
ASSUME MainAssumption ==
    /\ Commands \subseteq Seq(Paths) /\ Archive \in Paths
    /\ Atoi \in [Paths -> Int]
    /\ SizeWord \in Nat /\ SizeWord > 2
    /\ Shifts \subseteq 0 .. 15
    /\ Leads \subseteq Seq({"data"})
    /\ {HashTableName, BlockTableName} \subseteq Seq(0 .. Rows - 1)
    /\ EntryWords \in Nat \ {0} /\ MaxEntries \in Nat /\ MaxRuns \in Nat
    /\ PieceWords \in Nat /\ PieceWords >= HeaderWords
    /\ Magic \in Words /\ Strays \subseteq Headers
    /\ NoFile \notin Files

VARIABLES
    pc,         \* where main is
    args,       \* the arguments not yet read: argv from arg on
    opt,        \* threads, shift, cache, external_listfile_path, zopfli_options
    disk,       \* [Paths -> file or NoFile]
    offset, hd, \* globals.inMpq
    tbl,        \* globals.inMpq.tbl while reading, mpq_table while writing
    bytesWritten, \* globals.bytesWritten: the header and the files
    table,      \* the table that is being decrypted or encrypted
    end,        \* how the run ended: its exit status, "crash" or "kill"
    before,     \* history: the disk when the run began
    runs

mainVars == <<pc, args, opt, disk, offset, hd, tbl, bytesWritten, table, end, before, runs>>
vars == <<mainVars, cryptoVars>>

In == args[1]                    \* inmpq_path
Out == args[2]                   \* outmpq_path

Defaults == [threads |-> 2, shift |-> 15, cache |-> FALSE, listfile |-> "",
             numiterations |-> 15, blocksplittingmax |-> 15]

\* The loop of shifts and ors: the first power of two that is not less than n.
NextPowerOf2(n) ==
    LET power[e \in 0 .. n] == IF e = 0 THEN 1 ELSE 2 * power[e - 1]
    IN  IF n = 0 THEN 0 ELSE power[Min({e \in 0 .. n : power[e] >= n})]

Blank == [pieces |-> <<>>, header |-> NoHeader, words |-> <<>>, named |-> FALSE,
          meant |-> NoHeader]

\* The pieces of a file, those that the words behind the header fill included.
NumPieces(file) == Len(file.pieces) + (HeaderWords + Len(file.words) - 1) \div PieceWords

\* The word that piece k begins with, behind the one the header is in.
FirstWord(file, k) == (k - Len(file.pieces)) * PieceWords - HeaderWords + 1

Piece(file, k) ==
    IF k <= Len(file.pieces) THEN file.pieces[k]
    ELSE IF file.words[FirstWord(file, k)] = Magic THEN "magic" ELSE "data"

\* The first multiple of 0x200 with the magic number.
FindHeader(file) ==
    LET found == {o \in 0 .. NumPieces(file) - 1 : Piece(file, o + 1) = "magic"}
    IN  IF found = {} THEN -1 ELSE Min(found)

\* It is not a header that was found, but file data or a table.
Stray(file) == FindHeader(file) >= Len(file.pieces)

KeyOf(t) == hash(IF t = "ht" THEN HashTableName ELSE BlockTableName, TableKey)

-----------------------------------------------------------------------------
(* The first file.  In the steps of the writer the file is disk[Out].      *)

Init ==
    /\ pc = "seal"
    /\ args = <<Archive, Archive>>
    /\ \E lead \in Leads, n \in 0 .. MaxEntries, files \in Blocks,
          shift \in Shifts, named \in BOOLEAN :
          /\ Len(files) = n
          /\ named => n > 0
          /\ opt = [Defaults EXCEPT !.shift = shift]
          /\ bytesWritten = HeaderWords + n
          /\ offset = Len(lead)
          /\ \E m \in {NextPowerOf2(k) : k \in n .. MaxEntries} :
                /\ m # 0
                /\ tbl \in [ht : {b \in Blocks : Len(b) = EntryWords * m},
                            bt : {b \in Blocks : Len(b) = EntryWords * n}]
          /\ disk = [p \in Paths |->
                        IF p # Archive THEN NoFile
                        ELSE [Blank EXCEPT !.pieces = lead \o <<"hole">>,
                                           !.words = files, !.named = named]]
    /\ hd = NoHeader
    /\ table = "ht"
    /\ end = "0"
    /\ before = disk
    /\ runs = 0
    /\ CryptoInit

-----------------------------------------------------------------------------
(* The options. *)

Option == [a \in {"--threads", "-t", "--iterations", "-i", "--listfile", "-l",
                  "--block-splitting-max", "--shift-size", "-s"} |->
              CASE a \in {"--threads", "-t"}       -> "threads"
                [] a \in {"--iterations", "-i"}    -> "numiterations"
                [] a \in {"--listfile", "-l"}      -> "listfile"
                [] a \in {"--block-splitting-max"} -> "blocksplittingmax"
                [] a \in {"--shift-size", "-s"}    -> "shift"]

Reading(a) == pc = "options" /\ args # <<>> /\ args[1] = a

\* exit(code) anywhere before mkmpq.
Exit(code) ==
    /\ pc' = "ended"
    /\ end' = code
    /\ UNCHANGED <<args, opt, offset, hd, tbl, table, bytesWritten, before, runs, cryptoVars>>

Start ==
    /\ pc = "ended"
    /\ runs < MaxRuns
    /\ runs' = runs + 1
    /\ pc' = "options"
    /\ args' \in Commands
    /\ opt' = Defaults
    /\ before' = disk
    /\ offset' = 0
    /\ hd' = NoHeader
    /\ tbl' = [t \in Tables |-> <<>>]
    /\ bytesWritten' = 0
    /\ table' = "ht"
    /\ end' = "running"
    /\ BeginDecrypt(<<>>, InitSeed, <<>>)
    /\ UNCHANGED disk

NoArgument ==
    /\ \E a \in DOMAIN Option : Reading(a)
    /\ Len(args) = 1
    /\ Exit("0")
    /\ UNCHANGED disk

\* What the option with a number keeps of it, and whether main goes on.
Kept(o, n) == IF o = "threads" THEN n % SizeWord ELSE n

Legal(o, n) == IF o = "shift" THEN n \in 0 .. 15 ELSE n > 0

TakeNumber ==
    /\ \E a \in DOMAIN Option :
          LET o == Option[a]
              n == Kept(o, Atoi[args[2]])
          IN  /\ Reading(a) /\ o # "listfile"
              /\ Len(args) > 1
              /\ Legal(o, n)
              /\ opt' = [opt EXCEPT ![o] = n]
    /\ args' = SubSeq(args, 3, Len(args))
    /\ UNCHANGED <<pc, disk, offset, hd, tbl, table, end, bytesWritten, before, runs, cryptoVars>>

IllegalNumber ==
    /\ \E a \in DOMAIN Option :
          /\ Reading(a) /\ Option[a] # "listfile"
          /\ Len(args) > 1
          /\ ~Legal(Option[a], Kept(Option[a], Atoi[args[2]]))
    /\ Exit("0")
    /\ UNCHANGED disk

TakeListfile ==
    /\ Reading("--listfile") \/ Reading("-l")
    /\ Len(args) > 1
    /\ opt' = [opt EXCEPT !.listfile = args[2]]
    /\ args' = SubSeq(args, 3, Len(args))
    /\ UNCHANGED <<pc, disk, offset, hd, tbl, table, end, bytesWritten, before, runs, cryptoVars>>

TakeCache ==
    /\ Reading("--cache") \/ Reading("-c")
    /\ opt' = [opt EXCEPT !.cache = TRUE]
    /\ args' = Tail(args)
    /\ UNCHANGED <<pc, disk, offset, hd, tbl, table, end, bytesWritten, before, runs, cryptoVars>>

Help ==
    /\ Reading("--help") \/ Reading("-h")
    /\ Exit("0")
    /\ UNCHANGED disk

NotAnOption ==
    /\ pc = "options"
    /\ args # <<>> =>
          args[1] \notin DOMAIN Option \union {"--cache", "-c", "--help", "-h"}

TooFewPaths ==
    /\ NotAnOption
    /\ Len(args) < 2
    /\ Exit("0")
    /\ UNCHANGED disk

\* fopen with "wb" empties the output, which may be the input.
Open ==
    /\ NotAnOption
    /\ Len(args) >= 2
    /\ disk' = [disk EXCEPT ![Out] = Blank]
    /\ pc' = "cache"
    /\ UNCHANGED <<args, opt, offset, hd, tbl, table, end, bytesWritten, before, runs, cryptoVars>>

OpenFails ==
    /\ NotAnOption
    /\ Len(args) >= 2
    /\ Exit("1")
    /\ UNCHANGED disk

-----------------------------------------------------------------------------
(* Reading an archive. *)

UseCache ==
    /\ pc = "cache"
    /\ pc' = "read"
    /\ UNCHANGED <<args, opt, disk, offset, hd, tbl, table, end, bytesWritten, before, runs, cryptoVars>>

InitCacheFails ==
    /\ pc = "cache"
    /\ opt.cache
    /\ Exit("1")
    /\ UNCHANGED disk

\* Sys_ReadFile complains.
CannotRead ==
    /\ pc = "read"
    /\ disk[In] = NoFile
    /\ Exit("1")
    /\ UNCHANGED disk

NotAnArchive ==
    /\ pc = "read"
    /\ disk[In] # NoFile
    /\ FindHeader(disk[In]) = -1
    /\ Exit("1")
    /\ UNCHANGED disk

\* The words of table t, which the header h leads to, up to the end of the file.
Slice(file, h, t) ==
    LET first == h.pos[t] - HeaderWords
    IN  SubSeq(file.words, first + 1, Min({first + EntryWords * h.size[t], Len(file.words)}))

BeginTable(file, h, t) ==
    /\ table' = t
    /\ BeginDecrypt(Slice(file, h, t), KeyOf(t), file.meant.tbl[t])

ReadInMpq ==
    LET file == disk[In]
    IN  /\ pc = "read"
        /\ file # NoFile
        /\ FindHeader(file) # -1 /\ ~Stray(file)
        /\ offset' = FindHeader(file)
        /\ hd' = file.header
        /\ BeginTable(file, file.header, "ht")
        /\ pc' = "open"
        /\ UNCHANGED <<args, opt, disk, tbl, end, bytesWritten, before, runs>>

\* The words behind the magic number are taken for a header, and what they
\* lead to for tables.
ReadStray ==
    LET file == disk[In]
    IN  /\ pc = "read"
        /\ file # NoFile
        /\ Stray(file)
        /\ offset' = FindHeader(file)
        /\ hd' \in Strays
        /\ tbl' \in [ht : {b \in Blocks : Len(b) = EntryWords * hd'.size.ht},
                     bt : {b \in Blocks : Len(b) = EntryWords * hd'.size.bt}]
        /\ pc' = "names"
        /\ UNCHANGED <<args, opt, disk, table, end, bytesWritten, before, runs, cryptoVars>>

DecryptStep ==
    /\ pc = "open"
    /\ DecryptWord
    /\ UNCHANGED mainVars

DecryptEnds ==
    /\ pc = "open"
    /\ Finished
    /\ tbl' = [tbl EXCEPT ![table] = block]
    /\ IF table = "ht"
       THEN BeginTable(disk[In], hd, "bt") /\ UNCHANGED pc
       ELSE pc' = "names" /\ UNCHANGED <<table, cryptoVars>>
    /\ UNCHANGED <<args, opt, disk, offset, hd, end, bytesWritten, before, runs>>

\* hash(path, HashOffset) % htSize in FindBTE, with no slots.
DivideByZero ==
    /\ pc = "names"
    /\ opt.listfile \in Listfiles \union {""}
    /\ hd.size.ht = 0
    /\ Exit("crash")
    /\ UNCHANGED disk

\* Such tables lead anywhere.
WildAccess ==
    /\ pc = "names"
    /\ Stray(disk[In])
    /\ Exit("crash")
    /\ UNCHANGED disk

\* Sys_ReadFile in PopulateListfile complains.
NoListfile ==
    /\ pc = "names"
    /\ opt.listfile \notin Listfiles \union {""}
    /\ Exit("1")
    /\ UNCHANGED disk

\* The listfiles name every file: the archive's own, or the external one, which
\* is taken to be complete when it can be read.
Sufficient == disk[In].named \/ opt.listfile \in Listfiles \/ hd.size.bt = 0

InsufficientListfile ==
    /\ pc = "names"
    /\ opt.listfile \in Listfiles \union {""}
    /\ hd.size.ht # 0
    /\ ~Sufficient \/ Stray(disk[In])
    /\ Exit("0")
    /\ UNCHANGED disk

-----------------------------------------------------------------------------
(* mkmpq: with a negative number of threads thread_args is no memory.      *)
(* Otherwise the threads pack the files (see Repack), without the listfile *)
(* and the attributes.                                                     *)

Packing ==
    /\ pc = "names"
    /\ opt.listfile \in Listfiles \union {""}
    /\ hd.size.ht # 0
    /\ Sufficient \/ Stray(disk[In])

CopyPreMPQData == [k \in 1 .. offset |-> Piece(disk[In], k)]

\* What has reached the disk of a file when its writer is gone: a part of it.
Reached(file) ==
    {[file EXCEPT !.words = SubSeq(file.words, 1, n)] : n \in 0 .. Len(file.words)} \union
    {[Blank EXCEPT !.pieces = SubSeq(file.pieces, 1, n)] : n \in 0 .. Len(file.pieces)}

NoThreads ==
    /\ Packing
    /\ 2 * opt.threads >= SizeWord
    /\ Exit("crash")
    /\ \E file \in Reached([Blank EXCEPT !.pieces = CopyPreMPQData]) :
          disk' = [disk EXCEPT ![Out] = file]

\* The output with the data of n files, behind the room mkmpq leaves for the header.
PackedFiles(n) ==
    {[Blank EXCEPT !.pieces = CopyPreMPQData \o <<"hole">>, !.words = files] :
        files \in {b \in Blocks : Len(b) = n}}

\* A file cannot be extracted (see Repack).
PackingFails ==
    /\ Packing
    /\ 2 * opt.threads < SizeWord
    /\ Exit("1")
    /\ \E n \in 0 .. hd.size.bt : \E file \in PackedFiles(n) : disk' = [disk EXCEPT ![Out] = file]

PackFiles ==
    /\ Packing
    /\ 2 * opt.threads < SizeWord
    /\ \E n \in 0 .. hd.size.bt :
          /\ \E file \in PackedFiles(n) : disk' = [disk EXCEPT ![Out] = file]
          /\ bytesWritten' = HeaderWords + n
          /\ tbl' \in [ht : {b \in Blocks : Len(b) = EntryWords * NextPowerOf2(hd.size.bt)},
                       bt : {b \in Blocks : Len(b) = EntryWords * n}]
    /\ pc' = "seal"
    /\ table' = "ht"
    /\ UNCHANGED <<args, opt, offset, hd, end, before, runs, cryptoVars>>

-----------------------------------------------------------------------------
(* WriteHT and WriteBT, and WriteHeader at last. *)

BeginSeal ==
    /\ pc = "seal"
    /\ BeginEncrypt(tbl[table], KeyOf(table))
    /\ pc' = "sealing"
    /\ UNCHANGED <<args, opt, disk, offset, hd, tbl, table, end, bytesWritten, before, runs>>

EncryptStep ==
    /\ pc = "sealing"
    /\ EncryptWord
    /\ UNCHANGED mainVars

ThenHeader(t) == "header"         \* mutant: WriteBT is forgotten

\* What comes after WriteHT, and after WriteBT.
Then(t) == IF t = "ht" THEN "seal" ELSE "header"

WriteTable ==
    /\ pc = "sealing"
    /\ Finished
    /\ disk' = [disk EXCEPT ![Out].words = @ \o block]
    /\ pc' = Then(table)
    /\ table' = "bt"
    /\ UNCHANGED <<args, opt, offset, hd, tbl, end, bytesWritten, before, runs, cryptoVars>>

\* How many entries table t has.
Size(t) == Len(tbl[t]) \div EntryWords

HeaderSwapped ==                  \* mutant: the block table is looked for in front of the other
    [pos |-> [ht |-> bytesWritten + EntryWords * Size("bt"), bt |-> bytesWritten],
     size |-> [t \in Tables |-> Size(t)],
     shift |-> opt.shift]

Header ==
    [pos |-> [ht |-> bytesWritten, bt |-> bytesWritten + EntryWords * Size("ht")],
     size |-> [t \in Tables |-> Size(t)],
     shift |-> opt.shift]

WriteHeader ==
    /\ pc = "header"
    /\ disk' = [disk EXCEPT ![Out].pieces[offset + 1] = "magic",
                            ![Out].header = Header,
                            ![Out].meant = [offset |-> offset, shift |-> opt.shift, tbl |-> tbl]]
    /\ pc' = "ended"
    /\ end' = "0"
    /\ UNCHANGED <<args, opt, offset, hd, tbl, table, bytesWritten, before, runs, cryptoVars>>

\* The user interrupts the program, which may take hours.
Kill ==
    /\ pc # "ended"
    /\ runs > 0
    /\ Exit("kill")
    /\ IF pc \in {"seal", "sealing", "header"}
       THEN \E file \in Reached(disk[Out]) : disk' = [disk EXCEPT ![Out] = file]
       ELSE UNCHANGED disk

Next ==
    \/ Start \/ Kill
    \/ NoArgument \/ TakeNumber \/ IllegalNumber \/ TakeListfile \/ TakeCache \/ Help
    \/ TooFewPaths \/ Open \/ OpenFails
    \/ UseCache \/ InitCacheFails
    \/ CannotRead \/ NotAnArchive \/ ReadInMpq \/ ReadStray \/ DecryptStep \/ DecryptEnds
    \/ DivideByZero \/ WildAccess \/ NoListfile \/ InsufficientListfile
    \/ NoThreads \/ PackingFails \/ PackFiles
    \/ BeginSeal \/ EncryptStep \/ WriteTable \/ WriteHeader

Spec == Init /\ [][Next]_vars

-----------------------------------------------------------------------------
Options == [threads : 1 .. SizeWord - 1, shift : 0 .. 15, cache : BOOLEAN,
            listfile : Paths \union {""},
            numiterations : Nat \ {0}, blocksplittingmax : Nat \ {0}]

\* The values of the variables; whatever the arguments are, the options are legal.
MainTypeOK ==
    /\ pc \in {"options", "cache", "read", "open", "names", "seal", "sealing", "header", "ended"}
    /\ args \in Seq(Paths)
    /\ pc \notin {"options", "ended"} => Len(args) >= 2
    /\ opt \in Options
    /\ disk \in [Paths -> Files \union {NoFile}]
    /\ offset \in Nat
    /\ hd \in Headers \union {NoHeader}
    /\ tbl \in [Tables -> Seq(Words)]
    /\ bytesWritten \in Nat
    /\ table \in Tables
    /\ runs \in 0 .. MaxRuns

\* An archive that was finished is read back as it was meant by whoever wrote
\* it, however many runs came before: FindHeader finds its offset and not
\* something in the data copied from in front of the older archive, be it the
\* data of an output that was never finished, and the header leads to the
\* tables, which decrypt to what was encrypted.
Reopened ==
    pc = "names" /\ disk[In].header # NoHeader =>
        LET meant == disk[In].meant
        IN  /\ offset = meant.offset
            /\ hd.shift = meant.shift
            /\ tbl = meant.tbl

\* The header leads to both tables, and they are there to the end.
HasTables(file) ==
    \A t \in Tables : Len(Slice(file, file.header, t)) = EntryWords * file.header.size[t]

\* However a run ends, it leaves every file but its output as it was, and the
\* output too if it complained about its options.  When the next run takes an
\* output for an archive, it is one, with room for both of its tables, if the
\* exit status said so.  Otherwise no header was written to it: the next run
\* is misled by the magic number in the data of a file, or in a table, where
\* a piece begins.
OutputWholeOrHeaderless ==
    pc = "ended" /\ runs > 0 =>
        \A p \in Paths : disk[p] # before[p] =>
            /\ p = Out
            /\ FindHeader(disk[p]) # -1 =>
                  IF end = "0" THEN ~Stray(disk[p]) /\ HasTables(disk[p])
                               ELSE Stray(disk[p]) /\ disk[p].header = NoHeader

\* No header has been written, nor the magic number to where it would lie.
Headless(file) ==
    /\ file.header = NoHeader
    /\ \A i \in 1 .. Len(file.pieces) : file.pieces[i] # "magic"

\* An archive leads its reader to what its writer meant.
WellWritten(file) ==
    /\ file.header \in Headers /\ file.meant \in Meanings
    /\ FindHeader(file) = file.meant.offset
    /\ file.meant.offset < Len(file.pieces)
    /\ file.header.shift = file.meant.shift
    /\ \A t \in Tables :
          /\ Slice(file, file.header, t) = Encrypted(file.meant.tbl[t], KeyOf(t))
          /\ Len(file.meant.tbl[t]) = EntryWords * file.header.size[t]

DiskInv ==
    \A p \in Paths :
        disk[p] \in Files => Headless(disk[p]) \/ WellWritten(disk[p])

\* The output stays empty until the input has been read, which cannot be it.
ReaderInv ==
    /\ pc \in {"cache", "read", "open", "names"} => disk[Out] = Blank
    /\ pc \in {"open", "names"} =>
          /\ disk[In] \in Files
          /\ FindHeader(disk[In]) # -1
          /\ offset = FindHeader(disk[In])
          /\ hd \in Headers
          /\ Headless(disk[In]) \/ hd = disk[In].header
    /\ pc = "open" =>
          /\ ~Headless(disk[In])
          /\ mode = "decrypt"
          /\ plain = disk[In].meant.tbl[table]
          /\ table = "bt" => tbl["ht"] = disk[In].meant.tbl["ht"]
    /\ pc = "names" => Headless(disk[In]) \/ tbl = disk[In].meant.tbl

\* What lies behind the files in the output.
Stored(t) ==
    IF pc = "header" \/ (t = "ht" /\ table = "bt") THEN Encrypted(tbl[t], KeyOf(t)) ELSE <<>>

WriterInv ==
    pc \in {"seal", "sealing", "header"} =>
        /\ disk[Out] \in Files
        /\ Headless(disk[Out])
        /\ Len(disk[Out].pieces) = offset + 1
        /\ \E files \in Seq(Words) :
              /\ bytesWritten = HeaderWords + Len(files)
              /\ disk[Out].words = files \o Stored("ht") \o Stored("bt")
        /\ \A t \in Tables : Len(tbl[t]) = EntryWords * Size(t)
        /\ pc = "sealing" => mode = "encrypt" /\ plain = tbl[table] /\ start = KeyOf(table)
        /\ pc = "header" => table = "bt"

\* What a run has changed; when it has succeeded its output is an archive, or empty.
BeforeInv ==
    /\ pc = "options" => disk = before
    /\ runs > 0 =>
          \A p \in Paths : disk[p] # before[p] =>
              /\ p = Out
              /\ disk[p] \in Files
              /\ Headless(disk[p]) \/ (pc = "ended" /\ end = "0")
              /\ pc = "ended" /\ end = "0" => disk[p] = Blank \/ ~Headless(disk[p])

\* The inductive invariant behind Reopened and OutputWholeOrHeaderless, together
\* with that of the loops, CryptoInv.
MainInv == MainTypeOK /\ DiskInv /\ ReaderInv /\ WriterInv /\ BeforeInv
=============================================================================
