------------------------------- MODULE Cache -------------------------------
(***************************************************************************)
(* The persistent cache ./cache (InitCache, CreateCacheLock,               *)
(* ReleaseCacheLock, ReadCache, CachePacked, and the round of PackFiles    *)
(* that calls them), shared by every run of the program in one directory,  *)
(* at once or one after the other.  A run may be killed anywhere, or end   *)
(* by the exit(1) of another of its threads: its lock files stay.          *)
(*                                                                         *)
(* An entry stands for a pair of a path and a content: the name of the     *)
(* cache file is made of the two and of nothing else.  The workers of one  *)
(* run never meet on an entry, because the paths in a queue differ, so a   *)
(* run has one worker here.  What a cache file holds is the first len      *)
(* bytes of what PackFile makes of the entry with the options by.          *)
(***************************************************************************)
EXTENDS Integers, FiniteSets

CONSTANTS
    Runs,       \* the runs that share the directory
    Entries,    \* path and content, the key of a cache file
    Options,    \* --shift-size, --iterations, --block-splitting-max
    PackedSize, \* [Entries -> [Options -> size]]: what PackFile makes of it
    Tries,      \* attempts of CreateCacheLock (100)
    Failing,    \* calls that may fail: a subset of {"open", "write"}
    MaxRestarts \* bound: how often a run is started again

ASSUME CacheAssumption ==
    /\ PackedSize \in [Entries -> [Options -> Nat \ {0}]]
    /\ Tries \in Nat \ {0}
    /\ Failing \subseteq {"open", "write"}
    /\ MaxRestarts \in Nat

VARIABLES
    dir,        \* does ./cache exist?
    lockFile,   \* the entries whose lock file exists
    cacheFile,  \* the cache file of each entry
    options,    \* per run: its options,
    todo,       \*   the files left in its queue,
    pc,         \*   where it is,
    entry,      \*   the file at hand,
    tries,      \*   attempts left in CreateCacheLock,
    out,        \*   *outsize and the bytes of out: size, by and len,
    restarts,   \*   how often it was started again
    orphans     \* history: locks whose holder was killed

localVars == <<options, todo, entry, tries, out, restarts>>
vars == <<dir, lockFile, cacheFile, pc, orphans, localVars>>

Absent == [by |-> "nobody", len |-> -1]
Bytes(o, n) == [by |-> o, len |-> n]
NoData == [by |-> "nobody", size |-> 0, len |-> 0]

Whole(e, o) == [by |-> o, size |-> PackedSize[e][o], len |-> PackedSize[e][o]]

Init ==
    /\ dir = FALSE
    /\ lockFile = {}
    /\ cacheFile = [e \in Entries |-> Absent]
    /\ options \in [Runs -> Options]
    /\ todo = [w \in Runs |-> Entries]
    /\ pc = [w \in Runs |-> "stat"]
    /\ entry \in [Runs -> Entries]
    /\ tries = [w \in Runs |-> 0]
    /\ out = [w \in Runs |-> NoData]
    /\ restarts = [w \in Runs |-> 0]
    /\ orphans = {}

At(w, label) == pc[w] = label

Goto(w, label) == pc' = [pc EXCEPT ![w] = label]

Files == <<dir, lockFile, cacheFile, orphans>>

-----------------------------------------------------------------------------
(* InitCache: mkdir after stat; that it exists by then is an error. *)

Stat(w) ==
    /\ At(w, "stat")
    /\ Goto(w, IF dir THEN "pop" ELSE "mkdir")
    /\ UNCHANGED <<Files, localVars>>

Mkdir(w) ==
    /\ At(w, "mkdir")
    /\ dir' = TRUE
    /\ Goto(w, IF dir THEN "failed" ELSE "pop")
    /\ UNCHANGED <<lockFile, cacheFile, orphans, localVars>>

-----------------------------------------------------------------------------
(* One round of PackFiles, up to what it adds to the archive. *)

Pop(w) ==
    /\ At(w, "pop")
    /\ \E e \in todo[w] :
          /\ entry' = [entry EXCEPT ![w] = e]
          /\ todo' = [todo EXCEPT ![w] = @ \ {e}]
    /\ tries' = [tries EXCEPT ![w] = Tries]
    /\ out' = [out EXCEPT ![w] = NoData]
    /\ Goto(w, "lock to read")
    /\ UNCHANGED <<Files, options, restarts>>

Finish(w) ==
    /\ At(w, "pop")
    /\ todo[w] = {}
    /\ Goto(w, "finished")
    /\ UNCHANGED <<Files, localVars>>

\* A miss of any kind: PackFile, with the options of this run.
Pack(w) ==
    /\ At(w, "pack")
    /\ out' = [out EXCEPT ![w] = Whole(entry[w], options[w])]
    /\ tries' = [tries EXCEPT ![w] = Tries]
    /\ Goto(w, "lock to write")
    /\ UNCHANGED <<Files, options, todo, entry, restarts>>

\* The data goes into the archive: Repack.
Add(w) ==
    /\ At(w, "add")
    /\ Goto(w, "pop")
    /\ UNCHANGED <<Files, localVars>>

-----------------------------------------------------------------------------
(* CreateCacheLock and ReleaseCacheLock. *)

LockAnyway(w, from, to) ==        \* mutant: without O_EXCL
    /\ At(w, from)
    /\ tries[w] > 0
    /\ lockFile' = lockFile \union {entry[w]}
    /\ Goto(w, to)
    /\ UNCHANGED <<dir, cacheFile, orphans, localVars>>

CreateCacheLock(w, from, to) ==
    /\ At(w, from)
    /\ tries[w] > 0
    /\ entry[w] \notin lockFile
    /\ lockFile' = lockFile \union {entry[w]}
    /\ Goto(w, to)
    /\ UNCHANGED <<dir, cacheFile, orphans, localVars>>

WaitForever(w) ==                 \* mutant: the attempts are not counted
    /\ pc[w] \in {"lock to read", "lock to write"}
    /\ tries[w] > 0
    /\ entry[w] \in lockFile
    /\ UNCHANGED <<Files, pc, localVars>>

\* The lock file exists: sleep, and one attempt less.
Wait(w) ==
    /\ pc[w] \in {"lock to read", "lock to write"}
    /\ tries[w] > 0
    /\ entry[w] \in lockFile
    /\ tries' = [tries EXCEPT ![w] = @ - 1]
    /\ UNCHANGED <<Files, pc, options, todo, entry, out, restarts>>

WriteAnyway(w) ==                 \* mutant: CachePacked goes on without the lock
    /\ tries[w] = 0
    /\ \/ At(w, "lock to read") /\ Goto(w, "pack")
       \/ At(w, "lock to write") /\ Goto(w, "open to write")
    /\ UNCHANGED <<Files, localVars>>

\* "Cache file is locked": ReadCache misses, CachePacked does nothing.
GiveUp(w) ==
    /\ tries[w] = 0
    /\ \/ At(w, "lock to read") /\ Goto(w, "pack")
       \/ At(w, "lock to write") /\ Goto(w, "add")
    /\ UNCHANGED <<Files, localVars>>

ReleaseCacheLock(w, from, to) ==
    /\ At(w, from)
    /\ lockFile' = lockFile \ {entry[w]}
    /\ Goto(w, to)
    /\ UNCHANGED <<dir, cacheFile, orphans, localVars>>

-----------------------------------------------------------------------------
(* ReadCache with the lock held. *)

LeaveLocked(w) ==                 \* mutant: a miss leaves the lock file
    /\ At(w, "open to read")
    /\ \/ cacheFile[entry[w]] = Absent /\ Goto(w, "pack")
       \/ cacheFile[entry[w]] # Absent /\ Goto(w, "size")
    /\ UNCHANGED <<Files, localVars>>

OpenToRead(w) ==
    /\ At(w, "open to read")
    /\ \/ /\ cacheFile[entry[w]] = Absent \/ "open" \in Failing
          /\ Goto(w, "miss")
       \/ /\ cacheFile[entry[w]] # Absent
          /\ Goto(w, "size")
    /\ UNCHANGED <<Files, localVars>>

\* fseek and ftell.
ReadSize(w) ==
    /\ At(w, "size")
    /\ out' = [out EXCEPT ![w] = [by |-> "nobody", size |-> cacheFile[entry[w]].len, len |-> 0]]
    /\ Goto(w, "read")
    /\ UNCHANGED <<Files, options, todo, entry, tries, restarts>>

\* fread reads what is there, up to the size seen before.
ReadData(w) ==
    /\ At(w, "read")
    /\ LET file == cacheFile[entry[w]]
       IN  out' = [out EXCEPT ![w].by = file.by,
                              ![w].len = IF file.len < @ THEN file.len ELSE out[w].size]
    /\ Goto(w, "hit")
    /\ UNCHANGED <<Files, options, todo, entry, tries, restarts>>

-----------------------------------------------------------------------------
(* CachePacked with the lock held. *)

\* fopen "wb": an older file is emptied.
OpenToWrite(w) ==
    /\ At(w, "open to write")
    /\ \/ /\ cacheFile' = [cacheFile EXCEPT ![entry[w]] = Bytes(options[w], 0)]
          /\ Goto(w, "write")
       \/ /\ "open" \in Failing
          /\ Goto(w, "wrote")
          /\ UNCHANGED cacheFile
    /\ UNCHANGED <<dir, lockFile, orphans, localVars>>

\* Until fclose any part of the data may be in the buffer only.
Write(w) ==
    /\ At(w, "write")
    /\ \E n \in 0 .. out[w].size :
          /\ cacheFile' = [cacheFile EXCEPT ![entry[w]].len = n]
          /\ \/ Goto(w, "close")
             \/ "write" \in Failing /\ n < out[w].size /\ Goto(w, "remove")
    /\ UNCHANGED <<dir, lockFile, orphans, localVars>>

Close(w) ==
    /\ At(w, "close")
    /\ cacheFile' = [cacheFile EXCEPT ![entry[w]].len = out[w].size]
    /\ Goto(w, "wrote")
    /\ UNCHANGED <<dir, lockFile, orphans, localVars>>

KeepTorn(w) ==                    \* mutant: a failed write is not removed
    /\ At(w, "remove")
    /\ Goto(w, "wrote")
    /\ UNCHANGED <<Files, localVars>>

\* fwrite fell short: fclose and remove.
Remove(w) ==
    /\ At(w, "remove")
    /\ cacheFile' = [cacheFile EXCEPT ![entry[w]] = Absent]
    /\ Goto(w, "wrote")
    /\ UNCHANGED <<dir, lockFile, orphans, localVars>>

-----------------------------------------------------------------------------
Ended == {"finished", "failed", "killed"}

\* Where a run holds the lock of its entry.
Holding == {"open to read", "size", "read", "hit", "miss", "open to write", "write", "close",
            "remove", "wrote"}

\* The run ends where it is: nobody takes its lock file away.
Kill(w) ==
    /\ pc[w] \notin Ended
    /\ Goto(w, "killed")
    /\ orphans' = IF pc[w] \in Holding THEN orphans \union {entry[w]} ELSE orphans
    /\ UNCHANGED <<dir, lockFile, cacheFile, localVars>>

\* The next run in the directory, with options of its own.
Restart(w) ==
    /\ pc[w] \in Ended
    /\ restarts[w] < MaxRestarts
    /\ restarts' = [restarts EXCEPT ![w] = @ + 1]
    /\ \E o \in Options : options' = [options EXCEPT ![w] = o]
    /\ todo' = [todo EXCEPT ![w] = Entries]
    /\ tries' = [tries EXCEPT ![w] = 0]
    /\ out' = [out EXCEPT ![w] = NoData]
    /\ Goto(w, "stat")
    /\ UNCHANGED <<Files, entry>>

Step(w) ==
    \/ Stat(w)
    \/ Mkdir(w)
    \/ Pop(w)
    \/ Finish(w)
    \/ CreateCacheLock(w, "lock to read", "open to read")
    \/ CreateCacheLock(w, "lock to write", "open to write")
    \/ Wait(w)
    \/ GiveUp(w)
    \/ OpenToRead(w)
    \/ ReadSize(w)
    \/ ReadData(w)
    \/ ReleaseCacheLock(w, "hit", "add")
    \/ ReleaseCacheLock(w, "miss", "pack")
    \/ Pack(w)
    \/ OpenToWrite(w)
    \/ Write(w)
    \/ Close(w)
    \/ Remove(w)
    \/ ReleaseCacheLock(w, "wrote", "add")
    \/ Add(w)

Next == \E w \in Runs : Step(w) \/ Kill(w) \/ Restart(w)

\* The operating system runs every process; none has to be killed or started.
Spec == Init /\ [][Next]_vars /\ \A w \in Runs : WF_vars(Step(w))

-----------------------------------------------------------------------------
Labels == Ended \union Holding
    \union {"stat", "mkdir", "pop", "lock to read", "pack", "lock to write", "add"}

CacheFiles == [by : Options \union {"nobody"}, len : Int]
Results == [by : Options \union {"nobody"}, size : Int, len : Int]

FilesOK ==
    /\ dir \in BOOLEAN
    /\ lockFile \subseteq Entries
    /\ orphans \subseteq Entries
    /\ cacheFile \in [Entries -> CacheFiles]
    /\ \A e \in Entries :
          \/ cacheFile[e] = Absent
          \/ cacheFile[e].by \in Options /\ cacheFile[e].len \in 0 .. PackedSize[e][cacheFile[e].by]

\* The values of the variables; no cache file is longer than what its writer
\* meant to write.
CacheTypeOK ==
    /\ FilesOK
    /\ options \in [Runs -> Options]
    /\ todo \in [Runs -> SUBSET Entries]
    /\ pc \in [Runs -> Labels]
    /\ entry \in [Runs -> Entries]
    /\ tries \in [Runs -> 0 .. Tries]
    /\ out \in [Runs -> Results]
    /\ restarts \in [Runs -> 0 .. MaxRestarts]

\* An entry is in the hands of one run at a time, and a lock file that nobody
\* is responsible for is one a killed run left behind: no path through
\* ReadCache or CachePacked forgets to release.
LocksAccounted ==
    /\ \A v, w \in Runs : pc[v] \in Holding /\ pc[w] \in Holding /\ v # w => entry[v] # entry[w]
    /\ lockFile = {entry[w] : w \in {v \in Runs : pc[v] \in Holding}} \union orphans

FileIsWhole(e) ==
    cacheFile[e] # Absent => cacheFile[e].len = PackedSize[e][cacheFile[e].by]

\* A cache file that can be locked is whole, whatever run was killed or could
\* not write while it was made: the lock file left behind keeps a torn file
\* from every later run.
UnlockedIsWhole ==
    \A e \in Entries \ lockFile : FileIsWhole(e)

\* What goes into the archive is the whole result of one PackFile of that very
\* entry, never the size of one version with bytes of another.
AddedIsWhole ==
    \A w \in Runs : At(w, "add") =>
        \E o \in Options : out[w] = Whole(entry[w], o)

\* Why these hold: what the holder of a lock finds, and what it has in hand.
HolderOK(w) ==
    /\ pc[w] \in Holding => entry[w] \notin orphans
    /\ pc[w] \in Holding \ {"write", "close", "remove"} => FileIsWhole(entry[w])
    /\ pc[w] \in {"size", "read"} => cacheFile[entry[w]] # Absent
    /\ pc[w] = "read" => out[w].size = cacheFile[entry[w]].len
    /\ pc[w] = "hit" => \E o \in Options : out[w] = Whole(entry[w], o)
    /\ pc[w] \in {"lock to write", "open to write", "write", "close", "remove", "wrote"} =>
          out[w] = Whole(entry[w], options[w])
    /\ pc[w] \in {"write", "close"} =>
          cacheFile[entry[w]] # Absent /\ cacheFile[entry[w]].by = options[w]

HolderInv == \A w \in Runs : HolderOK(w)

\* The inductive invariant behind the three properties above: who holds a lock
\* finds a whole file, and has the size of that very file in hand.
CacheInv == CacheTypeOK /\ LocksAccounted /\ UnlockedIsWhole /\ AddedIsWhole /\ HolderInv

\* A run that is not killed ends, whatever locks other runs hold or left.
RunsEnd == \A w \in Runs : pc[w] \notin Ended ~> pc[w] \in Ended

\* Readme.md on --shift-size: "Sets the mpqs blocksize to `512*2^(shiftsize)`";
\* so what a run adds to its archive is packed with its own options.
AddedWithOwnOptions ==
    \A w \in Runs : At(w, "add") => out[w].by = options[w]
=============================================================================
