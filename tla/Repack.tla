------------------------------- MODULE Repack -------------------------------
(***************************************************************************)
(* mkmpq and its workers: PackFiles on every thread, the work queue of     *)
(* queue.c, the locks and threads of thread.c, the tables of table.c and   *)
(* the output file, from the moment main has filled the queue to the end   *)
(* of the process.                                                         *)
(*                                                                         *)
(* Thread NumThreads - 1 is the thread of main: it starts the others, runs *)
(* PackFiles itself, joins them and finishes the file.  A queued path is   *)
(* known by its position in the queue.  The output file is the list of     *)
(* the writes made to it, and a reader sees the last write to a range.     *)
(* Extraction, compression and the cache are steps with the results that   *)
(* matter here: the data, its packed size, or failure.                     *)
(*                                                                         *)
(* ExtractFile decrypts sectors where they lie in the image of the input.  *)
(* What a second decryption of a file does is undefined: it follows        *)
(* offsets that are no offsets any more.  Here it garbles the file, may    *)
(* hit other files of the image, fail, or kill the process.                *)
(***************************************************************************)
EXTENDS Table

CONSTANTS
    NumThreads,  \* the option --threads
    QueueSize,   \* paths in the queue: cnt of main
    NameOf,      \* [0 .. QueueSize - 1 -> Names]: the path after ConvertSlashes
    NormalSize,  \* unpacked size of a file: a field of the input archive
    PackedSizes, \* sizes its packed form can have (packed now, or cached)
    Encrypted,   \* files with encrypted sectors, decrypted where they lie
    Corrupt,     \* files whose extraction may fail: damaged, or unpacked
                 \* from uninitialised memory (see Sectors)
    Offset,      \* where the archive begins in the file
    Word,        \* a field of the format holds 0 .. Word - 1 (2^32)
    Listfiles,   \* which queued path, if any, is "(listfile)" in another
                 \* spelling: main skips it in the usual one only
    None

Threads == 0 .. NumThreads - 1
Main == NumThreads - 1
Elems == 0 .. QueueSize - 1

ASSUME RepackAssumption ==
    /\ NumThreads \in Nat \ {0}
    /\ QueueSize \in Nat
    /\ QueueSize <= NumEntries
    /\ NameOf \in [Elems -> Names]
    /\ NormalSize \in [Elems -> 0 .. Word - 1]
    /\ PackedSizes \in [Elems -> SUBSET (Nat \ {0})]
    /\ \A p \in Elems : PackedSizes[p] # {}
    /\ Encrypted \subseteq Elems
    /\ Corrupt \subseteq Elems
    /\ Offset \in Nat
    /\ Word \in Nat \ {0}
    /\ None \notin Int
    /\ Listfiles \subseteq Elems \union {None}

HeaderSize == 32                 \* 0x20
EntrySize == 16                  \* of a hash entry and of a block entry

VARIABLES
    process,        \* "running", "returned", "exited" (by exit(1)) or "killed"
    pc,             \* where each thread is
    started,        \* loop counter of mkmpq: threads created so far
    joined,         \* loop counter of mkmpq: threads joined so far
    cur, qlock,     \* work_queue.cur and work_queue.lock (its holder)
    lock,           \* globals.lock (its holder)
    item,           \* locals of PackFiles, per thread: the popped path,
    content,        \*   the extracted data,
    outsize,        \*   its packed size,
    bte,            \*   and the block table entry
    listfile,       \* the queued path that is the listfile of the input
    decrypted,      \* input files whose sectors a decryption has changed
    disk, fpos,     \* the writes to mpq_file, and its position
    bytesWritten, totalOutSize, filesProceeded

queueVars == <<cur, qlock, item>>
workVars == <<content, outsize, bte, decrypted>>
fileVars == <<disk, fpos>>
countVars == <<bytesWritten, totalOutSize, filesProceeded>>
mainVars == <<process, started, joined, listfile>>
vars == <<ht, bt, names, process, pc, started, joined, cur, qlock, lock, item, content,
          outsize, bte, listfile, decrypted, disk, fpos, bytesWritten, totalOutSize,
          filesProceeded>>

NoEntry == [filePos |-> 0, compressedSize |-> 0, normalSize |-> 0]

\* Data of file p: as it was packed into the input, or garbled.
DataOf(p) == [file : {p}, intact : BOOLEAN]

Contents == UNION {DataOf(p) : p \in Elems}

FileData(d) == [kind |-> "file", value |-> d]

\* PopulateListfile has extracted the listfile when the threads start, and
\* decrypted it if it is encrypted.
Spoilt == Encrypted \intersect {listfile}

\* main: PopulateListfile, CopyPreMPQData, then mkmpq leaves room for the header.
Init ==
    /\ InitTable
    /\ process = "running"
    /\ pc = [t \in Threads |-> IF t = Main THEN "create" ELSE "unborn"]
    /\ started = 0
    /\ joined = 0
    /\ cur = 0
    /\ qlock = None
    /\ lock = None
    /\ item = [t \in Threads |-> None]
    /\ content = [t \in Threads |-> None]
    /\ outsize = [t \in Threads |-> 0]
    /\ bte = [t \in Threads |-> NoEntry]
    /\ listfile \in Listfiles
    /\ decrypted = Spoilt
    /\ disk = <<[pos |-> 0, len |-> Offset, data |-> [kind |-> "pre", value |-> 0]]>>
    /\ fpos = Offset + HeaderSize
    /\ bytesWritten = HeaderSize
    /\ totalOutSize = 0
    /\ filesProceeded = 1

At(t, label) == process = "running" /\ pc[t] = label

Goto(t, label) == pc' = [pc EXCEPT ![t] = label]

-----------------------------------------------------------------------------
(* mkmpq starts the other threads, then becomes a worker itself. *)

CreateThread ==
    /\ At(Main, "create")
    /\ started < NumThreads - 1
    /\ pc' = [pc EXCEPT ![started] = "pop"]
    /\ started' = started + 1
    /\ UNCHANGED <<tableVars, process, joined, listfile, queueVars, lock, workVars, fileVars, countVars>>

AllCreated ==
    /\ At(Main, "create")
    /\ started = NumThreads - 1
    /\ Goto(Main, "pop")
    /\ UNCHANGED <<tableVars, mainVars, queueVars, lock, workVars, fileVars, countVars>>

-----------------------------------------------------------------------------
(* pop: the queue has a lock of its own. *)

PopUnlocked(t) ==                 \* mutant: the queue has no lock
    /\ At(t, "pop")
    /\ qlock' = t
    /\ Goto(t, "read")
    /\ UNCHANGED <<tableVars, mainVars, cur, item, lock, workVars, fileVars, countVars>>

PopLock(t) ==
    /\ At(t, "pop")
    /\ qlock = None
    /\ qlock' = t
    /\ Goto(t, "read")
    /\ UNCHANGED <<tableVars, mainVars, cur, item, lock, workVars, fileVars, countVars>>

PopReadOneMore(t) ==              \* mutant: cur > size
    /\ At(t, "read")
    /\ item' = [item EXCEPT ![t] = IF cur > QueueSize THEN None ELSE cur]
    /\ Goto(t, IF cur > QueueSize THEN "leave" ELSE "advance")
    /\ UNCHANGED <<tableVars, mainVars, cur, qlock, lock, workVars, fileVars, countVars>>

\* cur is read: its element, or NULL when the queue is used up.
PopRead(t) ==
    /\ At(t, "read")
    /\ item' = [item EXCEPT ![t] = IF cur >= QueueSize THEN None ELSE cur]
    /\ Goto(t, IF cur >= QueueSize THEN "leave" ELSE "advance")
    /\ UNCHANGED <<tableVars, mainVars, cur, qlock, lock, workVars, fileVars, countVars>>

PopAdvance(t) ==
    /\ At(t, "advance")
    /\ cur' = item[t] + 1
    /\ Goto(t, "leave")
    /\ UNCHANGED <<tableVars, mainVars, qlock, item, lock, workVars, fileVars, countVars>>

AfterPop(t) ==
    IF item[t] # None THEN "extract" ELSE IF t = Main THEN "join" ELSE "done"

PopUnlock(t) ==
    /\ At(t, "leave")
    /\ qlock' = None
    /\ Goto(t, AfterPop(t))
    /\ UNCHANGED <<tableVars, mainVars, cur, item, lock, workVars, fileVars, countVars>>

-----------------------------------------------------------------------------
(* ExtractFile and PackFile work on private buffers, without a lock; but   *)
(* ExtractFile decrypts sectors in the shared image of the input, so that  *)
(* a second extraction of the same file decrypts them again.               *)

\* The second decryption of p goes by a garbled table: it may hit any file.
Decrypt(p) ==
    \E hit \in IF p \in Encrypted \intersect decrypted THEN SUBSET Elems ELSE {{}} :
        decrypted' = decrypted \union (Encrypted \intersect {p}) \union hit

Extract(t) ==
    /\ At(t, "extract")
    /\ content' = [content EXCEPT ![t] = [file |-> item[t], intact |-> item[t] \notin decrypted]]
    /\ Decrypt(item[t])
    /\ Goto(t, "pack")
    /\ UNCHANGED <<tableVars, mainVars, queueVars, lock, outsize, bte, fileVars, countVars>>

SkipFile(t) ==                    \* mutant: an unreadable file is left out
    /\ At(t, "extract")
    /\ item[t] \in Corrupt \union decrypted
    /\ Decrypt(item[t])
    /\ item' = [item EXCEPT ![t] = None]
    /\ Goto(t, "pop")
    /\ UNCHANGED <<tableVars, mainVars, cur, qlock, lock, content, outsize, bte, fileVars, countVars>>

ExtractAgain(t) ==                \* mutant: an unreadable file is tried again
    /\ At(t, "extract")
    /\ item[t] \in Corrupt \union decrypted
    /\ Decrypt(item[t])
    /\ UNCHANGED <<tableVars, mainVars, pc, queueVars, lock, content, outsize, bte, fileVars, countVars>>

\* ExtractFile returned NULL: exit(1), which ends the process a little later.
ExtractFails(t) ==
    /\ At(t, "extract")
    /\ item[t] \in Corrupt \union decrypted
    /\ Decrypt(item[t])
    /\ Goto(t, "exiting")
    /\ UNCHANGED <<tableVars, mainVars, queueVars, lock, content, outsize, bte, fileVars, countVars>>

\* The offsets or sizes of a file decrypted twice lead out of the memory.
Crash(t) ==
    /\ At(t, "extract")
    /\ item[t] \in decrypted
    /\ process' = "killed"
    /\ UNCHANGED <<tableVars, pc, started, joined, listfile, queueVars, lock, workVars, fileVars,
                   countVars>>

Pack(t) ==
    /\ At(t, "pack")
    /\ \E size \in PackedSizes[item[t]] : outsize' = [outsize EXCEPT ![t] = size]
    /\ Goto(t, "lock")
    /\ UNCHANGED <<tableVars, mainVars, queueVars, lock, content, bte, decrypted, fileVars, countVars>>

-----------------------------------------------------------------------------
(* The critical section of PackFiles. *)

NoLock(t) ==                      \* mutant: the output has no lock
    /\ At(t, "lock")
    /\ lock' = t
    /\ Goto(t, "write")
    /\ UNCHANGED <<tableVars, mainVars, queueVars, workVars, fileVars, countVars>>

Lock(t) ==
    /\ At(t, "lock")
    /\ lock = None
    /\ lock' = t
    /\ Goto(t, "write")
    /\ UNCHANGED <<tableVars, mainVars, queueVars, workVars, fileVars, countVars>>

\* fwrite appends at the position of the FILE.
Fwrite(len, data) ==
    /\ disk' = Append(disk, [pos |-> fpos, len |-> len, data |-> data])
    /\ fpos' = fpos + len

WriteFile(t) ==
    /\ At(t, "write")
    /\ Fwrite(outsize[t], FileData(content[t]))
    /\ bte' = [bte EXCEPT ![t] = [filePos |-> bytesWritten % Word,
                                  compressedSize |-> outsize[t] % Word,
                                  normalSize |-> NormalSize[item[t]] % Word]]
    /\ Goto(t, "insert")
    /\ UNCHANGED <<tableVars, mainVars, queueVars, lock, content, outsize, decrypted, countVars>>

InsertFile(t) ==
    /\ At(t, "insert")
    /\ Insert(NameOf[item[t]], bte[t])
    /\ Goto(t, "account")
    /\ UNCHANGED <<mainVars, queueVars, lock, workVars, fileVars, countVars>>

AccountUnpacked(t) ==             \* mutant: insize where outsize belongs
    /\ At(t, "account")
    /\ bytesWritten' = bytesWritten + NormalSize[item[t]]
    /\ totalOutSize' = totalOutSize + NormalSize[item[t]]
    /\ filesProceeded' = filesProceeded + 1
    /\ Goto(t, "unlock")
    /\ UNCHANGED <<tableVars, mainVars, queueVars, lock, workVars, fileVars>>

Account(t) ==
    /\ At(t, "account")
    /\ bytesWritten' = bytesWritten + outsize[t]
    /\ totalOutSize' = totalOutSize + outsize[t]
    /\ filesProceeded' = filesProceeded + 1
    /\ Goto(t, "unlock")
    /\ UNCHANGED <<tableVars, mainVars, queueVars, lock, workVars, fileVars>>

\* The buffers are freed and the next round of the loop begins.
Unlock(t) ==
    /\ At(t, "unlock")
    /\ lock' = None
    /\ item' = [item EXCEPT ![t] = None]
    /\ content' = [content EXCEPT ![t] = None]
    /\ outsize' = [outsize EXCEPT ![t] = 0]
    /\ bte' = [bte EXCEPT ![t] = NoEntry]
    /\ Goto(t, "pop")
    /\ UNCHANGED <<tableVars, mainVars, cur, qlock, decrypted, fileVars, countVars>>

-----------------------------------------------------------------------------
(* mkmpq after its own PackFiles: join, the tables, the header. *)

Join ==
    /\ At(Main, "join")
    /\ joined < NumThreads - 1
    /\ pc[joined] = "done"
    /\ joined' = joined + 1
    /\ UNCHANGED <<tableVars, process, pc, started, listfile, queueVars, lock, workVars, fileVars,
                   countVars>>

NoneJoined ==                     \* mutant: mkmpq does not wait
    /\ At(Main, "join")
    /\ Goto(Main, "hash table")
    /\ UNCHANGED <<tableVars, mainVars, queueVars, lock, workVars, fileVars, countVars>>

AllJoined ==
    /\ At(Main, "join")
    /\ joined = NumThreads - 1
    /\ Goto(Main, "hash table")
    /\ UNCHANGED <<tableVars, mainVars, queueVars, lock, workVars, fileVars, countVars>>

WriteHT ==
    /\ At(Main, "hash table")
    /\ Fwrite(EntrySize * HtSize, [kind |-> "hash table", value |-> ht])
    /\ Goto(Main, "block table")
    /\ UNCHANGED <<tableVars, mainVars, queueVars, lock, workVars, countVars>>

WriteBT ==
    /\ At(Main, "block table")
    /\ IF bt = <<>>
         THEN UNCHANGED fileVars
         ELSE Fwrite(EntrySize * Len(bt), [kind |-> "block table", value |-> bt])
    /\ Goto(Main, "header")
    /\ UNCHANGED <<tableVars, mainVars, queueVars, lock, workVars, countVars>>

Header ==
    [htPos |-> bytesWritten % Word,
     btPos |-> (bytesWritten + EntrySize * HtSize) % Word,
     archiveSize |-> (bytesWritten + EntrySize * HtSize + EntrySize * Len(bt)) % Word,
     htSize |-> HtSize,
     btSize |-> Len(bt)]

\* The header goes where the archive begins, over the room left for it.
WriteHeader ==
    /\ At(Main, "header")
    /\ disk' = Append(disk, [pos |-> Offset, len |-> HeaderSize,
                             data |-> [kind |-> "header", value |-> Header]])
    /\ fpos' = Offset + HeaderSize
    /\ Goto(Main, "close")
    /\ UNCHANGED <<tableVars, mainVars, queueVars, lock, workVars, countVars>>

\* fclose, and main returns.
Close ==
    /\ At(Main, "close")
    /\ process' = "returned"
    /\ Goto(Main, "done")
    /\ UNCHANGED <<tableVars, started, joined, listfile, queueVars, lock, workVars, fileVars,
                   countVars>>

\* exit(1) takes effect: until now the other threads went on.
Exit(t) ==
    /\ At(t, "exiting")
    /\ process' = "exited"
    /\ UNCHANGED <<tableVars, pc, started, joined, listfile, queueVars, lock, workVars, fileVars,
                   countVars>>

-----------------------------------------------------------------------------
MainStep ==
    \/ CreateThread
    \/ AllCreated
    \/ Join
    \/ AllJoined
    \/ WriteHT
    \/ WriteBT
    \/ WriteHeader
    \/ Close

WorkerStep(t) ==
    \/ PopLock(t)
    \/ PopRead(t)
    \/ PopAdvance(t)
    \/ PopUnlock(t)
    \/ Extract(t)
    \/ ExtractFails(t)
    \/ Crash(t)
    \/ Pack(t)
    \/ Lock(t)
    \/ WriteFile(t)
    \/ InsertFile(t)
    \/ Account(t)
    \/ Unlock(t)
    \/ Exit(t)

Next == MainStep \/ \E t \in Threads : WorkerStep(t)

\* The operating system runs every thread that can run.  The mutexes need no
\* fairness of their own: each is taken finitely often, so the last waiter
\* finds it free for good.
Fairness ==
    /\ WF_vars(MainStep)
    /\ \A t \in Threads : WF_vars(WorkerStep(t))

Spec == Init /\ [][Next]_vars /\ Fairness

-----------------------------------------------------------------------------
(* A reader of the output file: what a range holds is the data of the last *)
(* write to it, if that write covered exactly the range.                   *)

Disjoint(a, b) == a.pos + a.len <= b.pos \/ b.pos + b.len <= a.pos

\* Write k is intact: no later write touched its bytes.
Intact(k) == \A j \in k + 1 .. Len(disk) : Disjoint(disk[k], disk[j])

Reads(pos, len, data) ==
    \E k \in 1 .. Len(disk) :
        disk[k] = [pos |-> pos, len |-> len, data |-> data] /\ Intact(k)

OnDisk(kind) ==
    {disk[k].data.value : k \in {i \in 1 .. Len(disk) : disk[i].data.kind = kind}}

Sealed == OnDisk("header") # {}

\* From the header to the tables, from the hash table to the block, from the
\* block to the data.
LeadsTo(n, d) ==
    \E hd \in OnDisk("header"), h \in OnDisk("hash table"), b \in OnDisk("block table") :
        /\ Reads(Offset, HeaderSize, [kind |-> "header", value |-> hd])
        /\ Reads(Offset + hd.htPos, EntrySize * hd.htSize, [kind |-> "hash table", value |-> h])
        /\ Reads(Offset + hd.btPos, EntrySize * hd.btSize, [kind |-> "block table", value |-> b])
        /\ FindBTE(h, n) # NoBlock
        /\ LET e == b[FindBTE(h, n) + 1]
           IN  /\ Reads(Offset + e.filePos, e.compressedSize, FileData(d))
               /\ e.normalSize = NormalSize[d.file]

CONSTANT Unpublished

ASSUME UnpublishedAssumption == Unpublished \notin [Names -> SUBSET Contents]

View ==
    IF Sealed
    THEN [n \in Names |-> {d \in Contents : LeadsTo(n, d)}]
    ELSE Unpublished

Denotes(n, f) == Key[NameOf[f]] = Key[n]

Promise == INSTANCE Archive WITH
    Files <- Elems,
    view <- View,
    sound <- Spoilt = {},
    outcome <- IF process = "running" THEN "working" ELSE process

-----------------------------------------------------------------------------
BlockEntries == [filePos : 0 .. Word - 1, compressedSize : 0 .. Word - 1,
                 normalSize : 0 .. Word - 1]

WorkerLabels == {"pop", "read", "advance", "leave", "extract", "pack", "lock", "write",
                 "insert", "account", "unlock", "exiting", "done"}
MainLabels == {"create", "join", "hash table", "block table", "header", "close"}

Labels == WorkerLabels \union MainLabels \union {"unborn"}

\* Only main finishes the file.
PcOK ==
    /\ pc \in [Threads -> Labels]
    /\ \A t \in Threads : pc[t] \in MainLabels => t = Main

\* The locals of a thread are set where its program counter says so.
LocalsOK(t) ==
    /\ pc[t] \in {"advance", "extract", "pack", "lock", "write", "insert", "account",
                  "unlock", "exiting"} => item[t] \in Elems
    /\ pc[t] \in {"pack", "lock", "write", "insert", "account", "unlock"} =>
          content[t] \in Contents
    /\ pc[t] \in {"lock", "write", "insert", "account", "unlock"} => outsize[t] > 0

ThreadsOK ==
    /\ item \in [Threads -> Elems \union {None}]
    /\ content \in [Threads -> Contents \union {None}]
    /\ outsize \in [Threads -> Nat]
    /\ bte \in [Threads -> BlockEntries]
    /\ \A t \in Threads : LocalsOK(t)

SharedOK ==
    /\ process \in {"running", "returned", "exited", "killed"}
    /\ started \in 0 .. NumThreads - 1
    /\ joined \in 0 .. NumThreads - 1
    /\ cur \in 0 .. QueueSize
    /\ qlock \in Threads \union {None}
    /\ lock \in Threads \union {None}
    /\ listfile \in Elems \union {None}
    /\ decrypted \subseteq Elems
    /\ bytesWritten \in Nat
    /\ totalOutSize \in Nat
    /\ filesProceeded \in Nat

HashTables == [Slots -> [key : {Key[n] : n \in Names} \union {NoKey}, block : Int]]

Data ==
    [kind : {"pre"}, value : {0}]
    \union [kind : {"file"}, value : Contents]
    \union [kind : {"hash table"}, value : HashTables]
    \union [kind : {"block table"}, value : Seq(BlockEntries)]
    \union [kind : {"header"}, value : [htPos : Nat, btPos : Nat, archiveSize : Nat,
                                       htSize : Nat, btSize : Nat]]

Writes == [pos : Nat, len : Nat, data : Data]

FileOK ==
    /\ disk \in Seq(Writes)
    /\ fpos \in Nat

TablesOK ==
    /\ ht \in HashTables
    /\ bt \in Seq(BlockEntries)
    /\ names \in Seq(Names)

\* The values of the variables, and what each label of a thread says of its
\* locals: a thread that writes has a path, data and a size to write.
TypeOK == PcOK /\ ThreadsOK /\ SharedOK /\ FileOK /\ TablesOK

\* The threads exist and end in the order of mkmpq's loops.
StartInv ==
    /\ \A t \in Threads \ {Main} : t >= started => pc[t] = "unborn"
    /\ \A t \in Threads \ {Main} : t < joined => pc[t] = "done"
    /\ pc[Main] # "create" => started = NumThreads - 1
    /\ pc[Main] \in {"hash table", "block table", "header", "close", "done"} => joined = NumThreads - 1

\* Both mutexes are held exactly where the program counters say so.
LockInv ==
    \A t \in Threads :
        /\ pc[t] \in {"write", "insert", "account", "unlock"} <=> lock = t
        /\ pc[t] \in {"read", "advance", "leave"} <=> qlock = t

\* What two threads hold differs, and was taken from the queue.
QueueInv ==
    \A t \in Threads :
        /\ pc[t] \notin {"advance", "leave", "extract", "pack", "lock", "write", "insert",
                         "account", "unlock", "exiting"} => item[t] = None
        /\ pc[t] = "advance" => item[t] = cur
        /\ pc[t] # "advance" /\ item[t] # None => item[t] < cur
        /\ \A u \in Threads : t # u /\ item[t] # None => item[t] # item[u]

\* The listfile was decrypted before the queue was filled, is in the queue
\* again and has been taken from it.
Harmed == \E p \in Spoilt : p < cur

\* Data d are garbled when they come from the listfile that main extracted
\* before, and are not before that file has been taken from the queue.
SoundData(d) ==
    /\ d.file \in Spoilt => ~ d.intact
    /\ d.intact \/ Harmed

\* No file is decrypted before its extraction, the listfile apart.
ContentInv ==
    /\ Spoilt \subseteq decrypted
    /\ Harmed \/ decrypted \subseteq Spoilt \union (0 .. cur - 1)
    /\ \A t \in Threads :
          /\ pc[t] \in {"leave", "extract"} => item[t] \notin decrypted \/ Harmed
          /\ pc[t] \in {"pack", "lock", "write", "insert", "account", "unlock"} =>
                content[t] \in DataOf(item[t]) /\ SoundData(content[t])
    /\ \A k \in 1 .. Len(disk), d \in Contents : disk[k].data = FileData(d) => SoundData(d)

\* Thread t has popped path p and not written it yet.
InHand(t, p) ==
    item[t] = p /\ pc[t] \in {"leave", "extract", "pack", "lock", "write", "exiting"}

Filed(k, p) == \E d \in DataOf(p) : disk[k].data = FileData(d)

FiledInv ==
    /\ \A k \in 1 .. Len(disk), p \in Elems : Filed(k, p) => p < cur
    /\ \A t \in Threads, k \in 1 .. Len(disk), p \in Elems :
          InHand(t, p) => ~ Filed(k, p)
    /\ \A j, k \in 1 .. Len(disk), p \in Elems : Filed(j, p) /\ Filed(k, p) => j = k
    /\ \A p \in 0 .. cur - 1 :
          \/ \E t \in Threads : InHand(t, p)
          \/ \E k \in 1 .. Len(disk) : Filed(k, p)

\* Why no path is taken twice: the inductive invariant behind EachInOnePlace,
\* from the two mutexes through the queue to what is written.
PlaceInv == StartInv /\ LockInv /\ QueueInv /\ ContentInv /\ FiledInv

\* Every path taken from the queue is in one place, however the threads
\* interleave and also when one of them ends the process: in the hands of one
\* thread that has not written it yet, or in the output file, once.
EachInOnePlace ==
    \A p \in 0 .. cur - 1 :
        /\ (\E t \in Threads : InHand(t, p)) <=> \A k \in 1 .. Len(disk) : ~ Filed(k, p)
        /\ \A t, u \in Threads : InHand(t, p) /\ InHand(u, p) => t = u
        /\ \A j, k \in 1 .. Len(disk) : Filed(j, p) /\ Filed(k, p) => j = k

\* No file is decrypted twice, by two threads or by one that tries again: the
\* data in the threads' hands and in the output file are those of the paths
\* they were extracted for, and intact.  The one exception is the listfile that
\* main extracted before: encrypted and spelled otherwise it is queued, always
\* comes out garbled, and from then on any other file may.
DecryptedOnce ==
    /\ \A t \in Threads :
          pc[t] \in {"pack", "lock", "write", "insert", "account", "unlock"} =>
              content[t].file = item[t] /\ SoundData(content[t])
    /\ \A k \in 1 .. Len(disk) :
          disk[k].data.kind = "file" => SoundData(disk[k].data.value)

\* Outside the critical section the file, the tables and the counters agree:
\* the next byte goes where bytesWritten says, after exactly the data of the
\* files counted, each with one entry in each table.
Consistent ==
    lock = None /\ pc[Main] \notin MainLabels \ {"create", "join"} /\ ~ Sealed =>
        /\ fpos = Offset + bytesWritten
        /\ bytesWritten = HeaderSize + totalOutSize
        /\ filesProceeded = 1 + Len(bt)
        /\ Len(disk) = 1 + Len(bt)
        /\ Cardinality({s \in Slots : ht[s].block # NoBlock}) = Len(bt)

\* The archive has not outgrown the fields of the format.
Fits == \A k \in 1 .. Len(disk) : disk[k].pos + disk[k].len < Offset + Word

RangeOf(i) == [pos |-> bt[i].filePos, len |-> bt[i].compressedSize]

\* The order of the writes: each begins where the earlier ones end or later,
\* except that of the header, which is the last.
DiskInv ==
    /\ Len(disk) > 0
    /\ fpos >= Offset + HeaderSize
    /\ \A k \in 1 .. Len(disk) : disk[k].data.kind = "header" =>
          /\ k = Len(disk)
          /\ disk[k].pos = Offset
          /\ disk[k].len = HeaderSize
          /\ pc[Main] \in {"close", "done"}
    /\ \A k \in 2 .. Len(disk) :
          disk[k].data.kind # "header" => disk[k].pos >= Offset + HeaderSize
    /\ \A j, k \in 1 .. Len(disk) :
          j < k /\ disk[k].data.kind # "header" => disk[j].pos + disk[j].len <= disk[k].pos
    /\ pc[Main] \notin {"close", "done"} =>
          \A k \in 1 .. Len(disk) : disk[k].pos + disk[k].len <= fpos

\* Block table entry i describes write i + 1.
EntryInv ==
    /\ Len(names) = Len(bt)
    /\ Len(disk) > Len(bt)
    /\ \A i \in 1 .. Len(bt) : \E p \in Elems :
          /\ Filed(i + 1, p)
          /\ names[i] = NameOf[p]
          /\ bt[i].filePos = (disk[i + 1].pos - Offset) % Word
          /\ bt[i].compressedSize = disk[i + 1].len % Word
          /\ bt[i].normalSize = NormalSize[p]

\* What the critical section has done so far.
Writing == {t \in Threads : pc[t] \in {"insert", "account"}}

PhaseInv ==
    /\ \A t \in Threads : pc[t] = "insert" =>
          /\ Len(disk) = Len(bt) + 2
          /\ disk[Len(disk)] = [pos |-> Offset + bytesWritten, len |-> outsize[t],
                                data |-> FileData(content[t])]
          /\ bte[t] = [filePos |-> bytesWritten % Word, compressedSize |-> outsize[t] % Word,
                       normalSize |-> NormalSize[item[t]]]
          /\ fpos = Offset + bytesWritten + outsize[t]
    /\ \A t \in Threads : pc[t] = "account" =>
          /\ Len(disk) = Len(bt) + 1
          /\ fpos = Offset + bytesWritten + outsize[t]
    /\ Writing = {} /\ pc[Main] \notin {"block table", "header", "close", "done"} =>
          /\ Len(disk) = Len(bt) + 1
          /\ fpos = Offset + bytesWritten

\* Why the blocks stay whole: the inductive invariant behind
\* BlocksHoldTheirFiles, on the order of the writes and the state of the
\* critical section.
LayoutInv == DiskInv /\ EntryInv /\ PhaseInv

Finishing == {"hash table", "block table", "header", "close", "done"}

\* A thread stops taking paths at the end of the queue only, and ends the
\* process over an unreadable file only, or one harmed with the listfile.
DrainInv ==
    \A t \in Threads :
        /\ pc[t] = "leave" /\ item[t] = None => cur = QueueSize
        /\ pc[t] \in {"join"} \union Finishing => cur = QueueSize
        /\ pc[t] = "exiting" => item[t] \in Corrupt \/ Spoilt # {}

\* The counters agree with the tables but for what the critical section has
\* not counted yet.
CountInv ==
    /\ bytesWritten = HeaderSize + totalOutSize
    /\ \A t \in Threads : pc[t] = "account" => filesProceeded = Len(bt)
    /\ (\A t \in Threads : pc[t] # "account") => filesProceeded = 1 + Len(bt)

\* The data of files are the writes 2 .. Len(bt) + 1, and beside them only the
\* one that a thread is about to insert.
FilesInv ==
    \A k \in 1 .. Len(disk), p \in Elems : Filed(k, p) =>
        /\ k >= 2
        /\ k <= Len(bt) + 1 \/ \E t \in Threads : pc[t] = "insert"

\* What main writes at last.
HTWrite == [pos |-> Offset + bytesWritten, len |-> EntrySize * HtSize,
            data |-> [kind |-> "hash table", value |-> ht]]
BTWrite == [pos |-> Offset + (bytesWritten + EntrySize * HtSize), len |-> EntrySize * Len(bt),
            data |-> [kind |-> "block table", value |-> bt]]
HeaderWrite == [pos |-> Offset, len |-> HeaderSize, data |-> [kind |-> "header", value |-> Header]]

Written(kind) == {k \in 1 .. Len(disk) : disk[k].data.kind = kind}

\* The tables and the header are written by main alone, when it finishes the
\* file, and they are those of the program's memory.
TailInv ==
    /\ \A k \in 2 .. Len(disk) : disk[k].len > 0
    /\ \A k \in Written("hash table") :
          disk[k] = HTWrite /\ pc[Main] \in Finishing \ {"hash table"}
    /\ \A k \in Written("block table") :
          disk[k] = BTWrite /\ pc[Main] \in {"header", "close", "done"}
    /\ \A k \in Written("header") : disk[k] = HeaderWrite /\ pc[Main] \in {"close", "done"}
    /\ pc[Main] \in Finishing \ {"hash table"} => Written("hash table") # {}
    /\ pc[Main] \in {"header", "close", "done"} /\ bt # <<>> => Written("block table") # {}
    /\ pc[Main] \in {"close", "done"} => Written("header") # {}
    /\ pc[Main] = "block table" => fpos = Offset + (bytesWritten + EntrySize * HtSize)

\* The inductive invariant behind everything this module promises: each file
\* in one place, the blocks where their entries say, the tables searchable,
\* and the archive complete by the time its header is written.
IInv == PlaceInv /\ LayoutInv /\ TableInv /\ DrainInv /\ CountInv /\ FilesInv /\ TailInv

\* Unless the archive outgrows the fields of the format, the range of every
\* block entry holds, to the end and whatever is written later, the data of
\* the file it was inserted for, and no two ranges overlap.  The data are not
\* garbled, unless the encrypted listfile was extracted a second time.
BlocksHoldTheirFiles ==
    Fits =>
        /\ \A i \in 1 .. Len(bt) : \E p \in Elems :
              /\ \E d \in DataOf(p) :
                    /\ Reads(Offset + bt[i].filePos, bt[i].compressedSize, FileData(d))
                    /\ d.intact \/ Harmed
              /\ names[i] = NameOf[p]
              /\ bt[i].normalSize = NormalSize[p]
        /\ \A i, j \in 1 .. Len(bt) : i # j => Disjoint(RangeOf(i), RangeOf(j))

\* The header is the last thing written: only when every thread is done, every
\* queued file is in and both locks are free; and nothing is written after it.
SealedLast ==
    [][/\ Sealed => UNCHANGED <<disk, ht, bt>>
       /\ Sealed' => /\ \A t \in Threads \ {Main} : pc[t] = "done"
                     /\ Len(bt) = QueueSize
                     /\ lock = None /\ qlock = None]_vars

\* The program delivers what Archive promises: a complete archive at once, or
\* none because a file is unreadable; and it does come to one of these ends.
\* With an encrypted listfile in the queue, garbled data or a crash as well.
ImplementsArchive == Promise!Spec
=============================================================================
