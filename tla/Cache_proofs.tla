---------------------------- MODULE Cache_proofs ----------------------------
(***************************************************************************)
(* Proofs about Cache, for any number of runs, entries, options, attempts  *)
(* and restarts: CacheInv is inductive.  HolderInv is what UnlockedIsWhole *)
(* and AddedIsWhole need: what the holder of a lock finds and has in hand. *)
(***************************************************************************)
EXTENDS Cache, TLAPS

\* What PackFile makes of an entry is never empty.
LEMMA SizeFacts ==
    \A e \in Entries, o \in Options : PackedSize[e][o] \in Nat \ {0}
BY CacheAssumption

\* No cache file with a length is the absent one.
LEMMA AbsentFacts ==
    /\ Absent.len = -1
    /\ Absent \in CacheFiles
    /\ \A f \in CacheFiles : f.len >= 0 => f # Absent
BY DEF Absent, CacheFiles

\* What a run may have in hand is of the right type.
LEMMA ResultFacts ==
    /\ NoData \in Results
    /\ \A e \in Entries, o \in Options : Whole(e, o) \in Results
BY SizeFacts DEF NoData, Results, Whole

\* A file that was opened to write exists, and is what was put into it.
LEMMA NewFile ==
    \A o \in Options, n \in Nat :
        /\ Bytes(o, n) \in CacheFiles
        /\ Bytes(o, n) # Absent
        /\ Bytes(o, n).by = o
        /\ Bytes(o, n).len = n
BY DEF Bytes, CacheFiles, Absent

\* The size of the whole result is that of PackFile.
LEMMA WholeSize == \A e \in Entries, o \in Options : Whole(e, o).size = PackedSize[e][o]
BY DEF Whole

\* An attempt less is still a number of attempts.
LEMMA TriesFacts == \A t \in 0 .. Tries : t > 0 => t - 1 \in 0 .. Tries
<1>1. Tries \in Nat
  BY CacheAssumption
<1>2. QED
  BY <1>1

\* The first and the last value of the counter of attempts.
LEMMA TriesRange == 0 \in 0 .. Tries /\ Tries \in 0 .. Tries
<1>1. Tries \in Nat
  BY CacheAssumption
<1>2. QED
  BY <1>1

\* CacheInv holds when the runs begin.
LEMMA CacheInit == Init => CacheInv
<1> SUFFICES ASSUME Init PROVE CacheInv
  OBVIOUS
<1>1. CacheTypeOK
  <2>1. FilesOK
    BY AbsentFacts DEF Init, FilesOK
  <2>2. pc \in [Runs -> Labels] /\ out \in [Runs -> Results]
    BY ResultFacts DEF Init, Labels
  <2>3. tries \in [Runs -> 0 .. Tries] /\ restarts \in [Runs -> 0 .. MaxRestarts]
    <3>1. MaxRestarts \in Nat
      BY CacheAssumption
    <3>2. QED
      BY <3>1, TriesRange DEF Init
  <2>4. todo \in [Runs -> SUBSET Entries]
    BY DEF Init
  <2>5. QED
    BY <2>1, <2>2, <2>3, <2>4 DEF Init, CacheTypeOK
<1>2. \A w \in Runs : pc[w] = "stat"
  BY DEF Init
<1>3. LocksAccounted
  <2>1. {v \in Runs : pc[v] \in Holding} = {}
    BY <1>2 DEF Holding
  <2>2. QED
    BY <2>1 DEF LocksAccounted, Init
<1>4. UnlockedIsWhole
  BY DEF Init, UnlockedIsWhole, FileIsWhole
<1>5. AddedIsWhole
  BY <1>2 DEF AddedIsWhole, At
<1>6. HolderInv
  BY <1>2 DEF HolderInv, HolderOK, Holding
<1>7. QED
  BY <1>1, <1>3, <1>4, <1>5, <1>6 DEF CacheInv

\* Steps after which every run that held a lock still holds it and no other
\* does leave the locks accounted for.
LEMMA LocksSame ==
    ASSUME LocksAccounted, UNCHANGED <<lockFile, orphans>>,
           \A w \in Runs : pc'[w] \in Holding <=> pc[w] \in Holding,
           \A w \in Runs : pc[w] \in Holding => entry'[w] = entry[w]
    PROVE  LocksAccounted'
<1>1. {v \in Runs : pc'[v] \in Holding} = {v \in Runs : pc[v] \in Holding}
  OBVIOUS
<1>2. {entry'[w] : w \in {v \in Runs : pc'[v] \in Holding}}
      = {entry[w] : w \in {v \in Runs : pc[v] \in Holding}}
  BY <1>1
<1>3. QED
  BY <1>2 DEF LocksAccounted

\* The holder of a lock is the only one, and the lock file exists.
LEMMA HeldFacts ==
    ASSUME LocksAccounted, NEW w \in Runs, pc[w] \in Holding
    PROVE  /\ entry[w] \in lockFile
           /\ \A v \in Runs : v # w /\ pc[v] \in Holding => entry[v] # entry[w]
BY DEF LocksAccounted

\* The holder of an entry's lock changes its file.
LEMMA FileChanged ==
    ASSUME FilesOK, NEW e \in Entries,
           UNCHANGED <<dir, lockFile, orphans>>,
           cacheFile' \in [Entries -> CacheFiles],
           \A d \in Entries : d # e => cacheFile'[d] = cacheFile[d],
           \/ cacheFile'[e] = Absent
           \/ /\ cacheFile'[e].by \in Options
              /\ cacheFile'[e].len \in 0 .. PackedSize[e][cacheFile'[e].by]
    PROVE  FilesOK'
BY DEF FilesOK

\* A change to a file that is locked leaves the unlocked ones whole.
LEMMA UnlockedKept ==
    ASSUME UnlockedIsWhole, NEW e \in lockFile, lockFile' = lockFile,
           \A d \in Entries : d # e => cacheFile'[d] = cacheFile[d]
    PROVE  UnlockedIsWhole'
BY DEF UnlockedIsWhole, FileIsWhole

\* A step of one run leaves what the others know of their files true.
LEMMA HolderSame ==
    ASSUME NEW v \in Runs, HolderOK(v),
           pc'[v] = pc[v], entry'[v] = entry[v], out'[v] = out[v], options'[v] = options[v],
           pc[v] \in Holding => /\ cacheFile'[entry[v]] = cacheFile[entry[v]]
                                /\ entry[v] \notin orphans'
    PROVE  HolderOK(v)'
BY DEF HolderOK, Holding, FileIsWhole

\* Every step of a run, a kill and a restart keep CacheInv.
LEMMA CacheStep == CacheInv /\ [Next]_vars => CacheInv'
<1> SUFFICES ASSUME CacheInv, [Next]_vars PROVE CacheInv'
  OBVIOUS
<1> USE DEF CacheInv
<1>1. ASSUME NEW w \in Runs, Stat(w) PROVE CacheInv'
  <2> USE <1>1 DEF Stat, At, Goto, Files, localVars
  <2>1. CacheTypeOK'
    <3>1. FilesOK'
      BY DEF FilesOK, CacheTypeOK
    <3>2. QED
      BY <3>1, ResultFacts, CacheAssumption DEF CacheTypeOK, Labels, Ended, Holding
  <2>2. LocksAccounted'
    BY LocksSame DEF CacheTypeOK, Holding
  <2>3. UnlockedIsWhole'
    BY DEF UnlockedIsWhole, FileIsWhole
  <2>4. AddedIsWhole'
    BY DEF AddedIsWhole, CacheTypeOK, At
  <2>5. HolderInv'
    <3>1. ASSUME NEW v \in Runs, v # w PROVE HolderOK(v)'
      <4>1. HolderOK(v)
        BY DEF HolderInv
      <4>2. pc'[v] = pc[v] /\ entry'[v] = entry[v] /\ out'[v] = out[v] /\ options'[v] = options[v]
        BY <3>1 DEF CacheTypeOK
      <4>3. pc[v] \in Holding => cacheFile'[entry[v]] = cacheFile[entry[v]] /\ entry[v] \notin orphans'
        BY <4>1 DEF HolderOK
      <4>4. QED
        BY <4>1, <4>2, <4>3, HolderSame
    <3>2. HolderOK(w)'
      BY DEF HolderInv, HolderOK, CacheTypeOK, Holding, FileIsWhole
    <3>3. QED
      BY <3>1, <3>2 DEF HolderInv
  <2>6. QED
    BY <2>1, <2>2, <2>3, <2>4, <2>5
<1>2. ASSUME NEW w \in Runs, Mkdir(w) PROVE CacheInv'
  <2> USE <1>2 DEF Mkdir, At, Goto, Files, localVars
  <2>1. CacheTypeOK'
    <3>1. FilesOK'
      BY DEF FilesOK, CacheTypeOK
    <3>2. QED
      BY <3>1, ResultFacts, CacheAssumption DEF CacheTypeOK, Labels, Ended, Holding
  <2>2. LocksAccounted'
    BY LocksSame DEF CacheTypeOK, Holding
  <2>3. UnlockedIsWhole'
    BY DEF UnlockedIsWhole, FileIsWhole
  <2>4. AddedIsWhole'
    BY DEF AddedIsWhole, CacheTypeOK, At
  <2>5. HolderInv'
    <3>1. ASSUME NEW v \in Runs, v # w PROVE HolderOK(v)'
      <4>1. HolderOK(v)
        BY DEF HolderInv
      <4>2. pc'[v] = pc[v] /\ entry'[v] = entry[v] /\ out'[v] = out[v] /\ options'[v] = options[v]
        BY <3>1 DEF CacheTypeOK
      <4>3. pc[v] \in Holding => cacheFile'[entry[v]] = cacheFile[entry[v]] /\ entry[v] \notin orphans'
        BY <4>1 DEF HolderOK
      <4>4. QED
        BY <4>1, <4>2, <4>3, HolderSame
    <3>2. HolderOK(w)'
      BY DEF HolderInv, HolderOK, CacheTypeOK, Holding, FileIsWhole
    <3>3. QED
      BY <3>1, <3>2 DEF HolderInv
  <2>6. QED
    BY <2>1, <2>2, <2>3, <2>4, <2>5
<1>3. ASSUME NEW w \in Runs, Pop(w) PROVE CacheInv'
  <2> USE <1>3 DEF Pop, At, Goto, Files, localVars
  <2>1. CacheTypeOK'
    <3>1. FilesOK'
      BY DEF FilesOK, CacheTypeOK
    <3>2. todo' \in [Runs -> SUBSET Entries]
      BY DEF CacheTypeOK
    <3>3. pc' \in [Runs -> Labels]
      BY DEF CacheTypeOK, Labels, Holding
    <3>4. entry' \in [Runs -> Entries]
      BY ZenonT(40) DEF CacheTypeOK
    <3>5. tries' \in [Runs -> 0 .. Tries]
      BY TriesRange DEF CacheTypeOK
    <3>6. out' \in [Runs -> Results]
      BY ResultFacts DEF CacheTypeOK
    <3>7. QED
      BY <3>1, <3>2, <3>3, <3>4, <3>5, <3>6 DEF CacheTypeOK, Labels, Ended, Holding
  <2>2. LocksAccounted'
    BY LocksSame DEF CacheTypeOK, Holding
  <2>3. UnlockedIsWhole'
    BY DEF UnlockedIsWhole, FileIsWhole
  <2>4. AddedIsWhole'
    BY DEF AddedIsWhole, CacheTypeOK, At
  <2>5. HolderInv'
    <3>1. ASSUME NEW v \in Runs, v # w PROVE HolderOK(v)'
      <4>1. HolderOK(v)
        BY DEF HolderInv
      <4>2. pc'[v] = pc[v] /\ entry'[v] = entry[v] /\ out'[v] = out[v] /\ options'[v] = options[v]
        BY <3>1 DEF CacheTypeOK
      <4>3. pc[v] \in Holding => cacheFile'[entry[v]] = cacheFile[entry[v]] /\ entry[v] \notin orphans'
        BY <4>1 DEF HolderOK
      <4>4. QED
        BY <4>1, <4>2, <4>3, HolderSame
    <3>2. HolderOK(w)'
      BY DEF HolderInv, HolderOK, CacheTypeOK, Holding, FileIsWhole
    <3>3. QED
      BY <3>1, <3>2 DEF HolderInv
  <2>6. QED
    BY <2>1, <2>2, <2>3, <2>4, <2>5
<1>4. ASSUME NEW w \in Runs, Finish(w) PROVE CacheInv'
  <2> USE <1>4 DEF Finish, At, Goto, Files, localVars
  <2>1. CacheTypeOK'
    <3>1. FilesOK'
      BY DEF FilesOK, CacheTypeOK
    <3>2. QED
      BY <3>1, ResultFacts, CacheAssumption DEF CacheTypeOK, Labels, Ended, Holding
  <2>2. LocksAccounted'
    BY LocksSame DEF CacheTypeOK, Holding
  <2>3. UnlockedIsWhole'
    BY DEF UnlockedIsWhole, FileIsWhole
  <2>4. AddedIsWhole'
    BY DEF AddedIsWhole, CacheTypeOK, At
  <2>5. HolderInv'
    <3>1. ASSUME NEW v \in Runs, v # w PROVE HolderOK(v)'
      <4>1. HolderOK(v)
        BY DEF HolderInv
      <4>2. pc'[v] = pc[v] /\ entry'[v] = entry[v] /\ out'[v] = out[v] /\ options'[v] = options[v]
        BY <3>1 DEF CacheTypeOK
      <4>3. pc[v] \in Holding => cacheFile'[entry[v]] = cacheFile[entry[v]] /\ entry[v] \notin orphans'
        BY <4>1 DEF HolderOK
      <4>4. QED
        BY <4>1, <4>2, <4>3, HolderSame
    <3>2. HolderOK(w)'
      BY DEF HolderInv, HolderOK, CacheTypeOK, Holding, FileIsWhole
    <3>3. QED
      BY <3>1, <3>2 DEF HolderInv
  <2>6. QED
    BY <2>1, <2>2, <2>3, <2>4, <2>5
<1>5. ASSUME NEW w \in Runs, CreateCacheLock(w, "lock to read", "open to read") PROVE CacheInv'
  <2> USE <1>5 DEF CreateCacheLock, At, Goto, Files, localVars
  <2>1. CacheTypeOK'
    <3>1. FilesOK'
      BY DEF FilesOK, CacheTypeOK
    <3>2. QED
      BY <3>1, ResultFacts, CacheAssumption DEF CacheTypeOK, Labels, Ended, Holding
  <2>2. LocksAccounted'
    <3>1. ~ (pc[w] \in Holding) /\ pc'[w] \in Holding /\ entry[w] \notin lockFile /\ entry' = entry
      BY DEF Holding, CacheTypeOK
    <3>2. \A v \in Runs : v # w => pc'[v] = pc[v]
      BY DEF CacheTypeOK
    <3>3. {v \in Runs : pc'[v] \in Holding} = {v \in Runs : pc[v] \in Holding} \union {w}
      BY <3>1, <3>2
    <3>4. \A v \in Runs : pc[v] \in Holding => entry[v] # entry[w]
      BY <3>1 DEF LocksAccounted
    <3>5. lockFile' = {entry'[v] : v \in {x \in Runs : pc'[x] \in Holding}} \union orphans'
      BY <3>1, <3>3 DEF LocksAccounted
    <3>6. \A u, v \in Runs : pc'[u] \in Holding /\ pc'[v] \in Holding /\ u # v => entry'[u] # entry'[v]
      BY <3>1, <3>2, <3>4 DEF LocksAccounted
    <3>7. QED
      BY <3>5, <3>6 DEF LocksAccounted
  <2>3. UnlockedIsWhole'
    BY DEF UnlockedIsWhole, FileIsWhole
  <2>4. AddedIsWhole'
    BY DEF AddedIsWhole, CacheTypeOK, At
  <2>5. HolderInv'
    <3>1. ASSUME NEW v \in Runs, v # w PROVE HolderOK(v)'
      <4>1. HolderOK(v)
        BY DEF HolderInv
      <4>2. pc'[v] = pc[v] /\ entry'[v] = entry[v] /\ out'[v] = out[v] /\ options'[v] = options[v]
        BY <3>1 DEF CacheTypeOK
      <4>3. pc[v] \in Holding => cacheFile'[entry[v]] = cacheFile[entry[v]] /\ entry[v] \notin orphans'
        BY <4>1 DEF HolderOK
      <4>4. QED
        BY <4>1, <4>2, <4>3, HolderSame
    <3>2. HolderOK(w)'
      <4>1. entry[w] \notin lockFile /\ entry[w] \in Entries
        BY DEF CacheTypeOK
      <4>2. FileIsWhole(entry[w]) /\ entry[w] \notin orphans
        BY <4>1 DEF UnlockedIsWhole, LocksAccounted
      <4>3. QED
        BY <4>2 DEF HolderInv, HolderOK, CacheTypeOK, Holding, FileIsWhole
    <3>3. QED
      BY <3>1, <3>2 DEF HolderInv
  <2>6. QED
    BY <2>1, <2>2, <2>3, <2>4, <2>5
<1>6. ASSUME NEW w \in Runs, CreateCacheLock(w, "lock to write", "open to write") PROVE CacheInv'
  <2> USE <1>6 DEF CreateCacheLock, At, Goto, Files, localVars
  <2>1. CacheTypeOK'
    <3>1. FilesOK'
      BY DEF FilesOK, CacheTypeOK
    <3>2. QED
      BY <3>1, ResultFacts, CacheAssumption DEF CacheTypeOK, Labels, Ended, Holding
  <2>2. LocksAccounted'
    <3>1. ~ (pc[w] \in Holding) /\ pc'[w] \in Holding /\ entry[w] \notin lockFile /\ entry' = entry
      BY DEF Holding, CacheTypeOK
    <3>2. \A v \in Runs : v # w => pc'[v] = pc[v]
      BY DEF CacheTypeOK
    <3>3. {v \in Runs : pc'[v] \in Holding} = {v \in Runs : pc[v] \in Holding} \union {w}
      BY <3>1, <3>2
    <3>4. \A v \in Runs : pc[v] \in Holding => entry[v] # entry[w]
      BY <3>1 DEF LocksAccounted
    <3>5. lockFile' = {entry'[v] : v \in {x \in Runs : pc'[x] \in Holding}} \union orphans'
      BY <3>1, <3>3 DEF LocksAccounted
    <3>6. \A u, v \in Runs : pc'[u] \in Holding /\ pc'[v] \in Holding /\ u # v => entry'[u] # entry'[v]
      BY <3>1, <3>2, <3>4 DEF LocksAccounted
    <3>7. QED
      BY <3>5, <3>6 DEF LocksAccounted
  <2>3. UnlockedIsWhole'
    BY DEF UnlockedIsWhole, FileIsWhole
  <2>4. AddedIsWhole'
    BY DEF AddedIsWhole, CacheTypeOK, At
  <2>5. HolderInv'
    <3>1. ASSUME NEW v \in Runs, v # w PROVE HolderOK(v)'
      <4>1. HolderOK(v)
        BY DEF HolderInv
      <4>2. pc'[v] = pc[v] /\ entry'[v] = entry[v] /\ out'[v] = out[v] /\ options'[v] = options[v]
        BY <3>1 DEF CacheTypeOK
      <4>3. pc[v] \in Holding => cacheFile'[entry[v]] = cacheFile[entry[v]] /\ entry[v] \notin orphans'
        BY <4>1 DEF HolderOK
      <4>4. QED
        BY <4>1, <4>2, <4>3, HolderSame
    <3>2. HolderOK(w)'
      <4>1. entry[w] \notin lockFile /\ entry[w] \in Entries
        BY DEF CacheTypeOK
      <4>2. FileIsWhole(entry[w]) /\ entry[w] \notin orphans
        BY <4>1 DEF UnlockedIsWhole, LocksAccounted
      <4>3. QED
        BY <4>2 DEF HolderInv, HolderOK, CacheTypeOK, Holding, FileIsWhole
    <3>3. QED
      BY <3>1, <3>2 DEF HolderInv
  <2>6. QED
    BY <2>1, <2>2, <2>3, <2>4, <2>5
<1>7. ASSUME NEW w \in Runs, Wait(w) PROVE CacheInv'
  <2> USE <1>7 DEF Wait, At, Goto, Files, localVars
  <2>1. CacheTypeOK'
    <3>1. FilesOK'
      BY DEF FilesOK, CacheTypeOK
    <3>2. tries' \in [Runs -> 0 .. Tries]
      <4>1. tries[w] \in 0 .. Tries /\ tries[w] - 1 \in 0 .. Tries
        BY TriesFacts DEF CacheTypeOK
      <4>2. QED
        BY <4>1 DEF CacheTypeOK
    <3>3. QED
      BY <3>1, <3>2 DEF CacheTypeOK, Labels, Ended, Holding
  <2>2. LocksAccounted'
    BY LocksSame DEF CacheTypeOK, Holding
  <2>3. UnlockedIsWhole'
    BY DEF UnlockedIsWhole, FileIsWhole
  <2>4. AddedIsWhole'
    BY DEF AddedIsWhole, CacheTypeOK, At
  <2>5. HolderInv'
    <3>1. ASSUME NEW v \in Runs, v # w PROVE HolderOK(v)'
      <4>1. HolderOK(v)
        BY DEF HolderInv
      <4>2. pc'[v] = pc[v] /\ entry'[v] = entry[v] /\ out'[v] = out[v] /\ options'[v] = options[v]
        BY <3>1 DEF CacheTypeOK
      <4>3. pc[v] \in Holding => cacheFile'[entry[v]] = cacheFile[entry[v]] /\ entry[v] \notin orphans'
        BY <4>1 DEF HolderOK
      <4>4. QED
        BY <4>1, <4>2, <4>3, HolderSame
    <3>2. HolderOK(w)'
      BY DEF HolderInv, HolderOK, CacheTypeOK, Holding, FileIsWhole
    <3>3. QED
      BY <3>1, <3>2 DEF HolderInv
  <2>6. QED
    BY <2>1, <2>2, <2>3, <2>4, <2>5
<1>8. ASSUME NEW w \in Runs, GiveUp(w) PROVE CacheInv'
  <2> USE <1>8 DEF GiveUp, At, Goto, Files, localVars
  <2>1. CacheTypeOK'
    <3>1. FilesOK'
      BY DEF FilesOK, CacheTypeOK
    <3>2. QED
      BY <3>1, ResultFacts, CacheAssumption DEF CacheTypeOK, Labels, Ended, Holding
  <2>2. LocksAccounted'
    BY LocksSame DEF CacheTypeOK, Holding
  <2>3. UnlockedIsWhole'
    BY DEF UnlockedIsWhole, FileIsWhole
  <2>4. AddedIsWhole'
    BY ZenonT(40) DEF AddedIsWhole, HolderInv, HolderOK, CacheTypeOK, At
  <2>5. HolderInv'
    <3>1. ASSUME NEW v \in Runs, v # w PROVE HolderOK(v)'
      <4>1. HolderOK(v)
        BY DEF HolderInv
      <4>2. pc'[v] = pc[v] /\ entry'[v] = entry[v] /\ out'[v] = out[v] /\ options'[v] = options[v]
        BY <3>1 DEF CacheTypeOK
      <4>3. pc[v] \in Holding => cacheFile'[entry[v]] = cacheFile[entry[v]] /\ entry[v] \notin orphans'
        BY <4>1 DEF HolderOK
      <4>4. QED
        BY <4>1, <4>2, <4>3, HolderSame
    <3>2. HolderOK(w)'
      BY DEF HolderInv, HolderOK, CacheTypeOK, Holding, FileIsWhole
    <3>3. QED
      BY <3>1, <3>2 DEF HolderInv
  <2>6. QED
    BY <2>1, <2>2, <2>3, <2>4, <2>5
<1>9. ASSUME NEW w \in Runs, OpenToRead(w) PROVE CacheInv'
  <2> USE <1>9 DEF OpenToRead, At, Goto, Files, localVars
  <2>1. CacheTypeOK'
    <3>1. FilesOK'
      BY DEF FilesOK, CacheTypeOK
    <3>2. QED
      BY <3>1, ResultFacts, CacheAssumption DEF CacheTypeOK, Labels, Ended, Holding
  <2>2. LocksAccounted'
    BY LocksSame DEF CacheTypeOK, Holding
  <2>3. UnlockedIsWhole'
    BY DEF UnlockedIsWhole, FileIsWhole
  <2>4. AddedIsWhole'
    BY DEF AddedIsWhole, CacheTypeOK, At
  <2>5. HolderInv'
    <3>1. ASSUME NEW v \in Runs, v # w PROVE HolderOK(v)'
      <4>1. HolderOK(v)
        BY DEF HolderInv
      <4>2. pc'[v] = pc[v] /\ entry'[v] = entry[v] /\ out'[v] = out[v] /\ options'[v] = options[v]
        BY <3>1 DEF CacheTypeOK
      <4>3. pc[v] \in Holding => cacheFile'[entry[v]] = cacheFile[entry[v]] /\ entry[v] \notin orphans'
        BY <4>1 DEF HolderOK
      <4>4. QED
        BY <4>1, <4>2, <4>3, HolderSame
    <3>2. HolderOK(w)'
      BY DEF HolderInv, HolderOK, CacheTypeOK, Holding, FileIsWhole
    <3>3. QED
      BY <3>1, <3>2 DEF HolderInv
  <2>6. QED
    BY <2>1, <2>2, <2>3, <2>4, <2>5
<1>10. ASSUME NEW w \in Runs, ReadSize(w) PROVE CacheInv'
  <2> USE <1>10 DEF ReadSize, At, Goto, Files, localVars
  <2>1. CacheTypeOK'
    <3>1. FilesOK'
      BY DEF FilesOK, CacheTypeOK
    <3>2. out' \in [Runs -> Results]
      <4>1. cacheFile[entry[w]].len \in Int
        BY DEF CacheTypeOK, FilesOK, CacheFiles
      <4>2. QED
        BY <4>1 DEF CacheTypeOK, Results
    <3>3. QED
      BY <3>1, <3>2 DEF CacheTypeOK, Labels, Ended, Holding
  <2>2. LocksAccounted'
    BY LocksSame DEF CacheTypeOK, Holding
  <2>3. UnlockedIsWhole'
    BY DEF UnlockedIsWhole, FileIsWhole
  <2>4. AddedIsWhole'
    <3>1. \A v \in Runs : pc'[v] = "add" => v # w /\ pc[v] = "add" /\ out'[v] = out[v]
      BY DEF CacheTypeOK
    <3>2. QED
      BY <3>1 DEF AddedIsWhole, At
  <2>5. HolderInv'
    <3>1. ASSUME NEW v \in Runs, v # w PROVE HolderOK(v)'
      <4>1. HolderOK(v)
        BY DEF HolderInv
      <4>2. pc'[v] = pc[v] /\ entry'[v] = entry[v] /\ out'[v] = out[v] /\ options'[v] = options[v]
        BY <3>1 DEF CacheTypeOK
      <4>3. pc[v] \in Holding => cacheFile'[entry[v]] = cacheFile[entry[v]] /\ entry[v] \notin orphans'
        BY <4>1 DEF HolderOK
      <4>4. QED
        BY <4>1, <4>2, <4>3, HolderSame
    <3>2. HolderOK(w)'
      BY DEF HolderInv, HolderOK, CacheTypeOK, Holding, FileIsWhole
    <3>3. QED
      BY <3>1, <3>2 DEF HolderInv
  <2>6. QED
    BY <2>1, <2>2, <2>3, <2>4, <2>5
<1>11. ASSUME NEW w \in Runs, ReadData(w) PROVE CacheInv'
  <2> USE <1>11 DEF ReadData, At, Goto, Files, localVars
  <2>1. CacheTypeOK'
    <3>1. FilesOK'
      BY DEF FilesOK, CacheTypeOK
    <3>2. out' \in [Runs -> Results]
      <4>1. cacheFile[entry[w]] \in CacheFiles /\ out[w] \in Results
        BY DEF CacheTypeOK, FilesOK
      <4>2. QED
        BY <4>1 DEF CacheTypeOK, Results, CacheFiles
    <3>3. QED
      BY <3>1, <3>2 DEF CacheTypeOK, Labels, Ended, Holding
  <2>2. LocksAccounted'
    BY LocksSame DEF CacheTypeOK, Holding
  <2>3. UnlockedIsWhole'
    BY DEF UnlockedIsWhole, FileIsWhole
  <2>4. AddedIsWhole'
    <3>1. \A v \in Runs : pc'[v] = "add" => v # w /\ pc[v] = "add" /\ out'[v] = out[v]
      BY DEF CacheTypeOK
    <3>2. QED
      BY <3>1 DEF AddedIsWhole, At
  <2>5. HolderInv'
    <3>1. ASSUME NEW v \in Runs, v # w PROVE HolderOK(v)'
      <4>1. HolderOK(v)
        BY DEF HolderInv
      <4>2. pc'[v] = pc[v] /\ entry'[v] = entry[v] /\ out'[v] = out[v] /\ options'[v] = options[v]
        BY <3>1 DEF CacheTypeOK
      <4>3. pc[v] \in Holding => cacheFile'[entry[v]] = cacheFile[entry[v]] /\ entry[v] \notin orphans'
        BY <4>1 DEF HolderOK
      <4>4. QED
        BY <4>1, <4>2, <4>3, HolderSame
    <3>2. HolderOK(w)'
      <4>1. HolderOK(w)
        BY DEF HolderInv
      <4>2. /\ FileIsWhole(entry[w]) /\ cacheFile[entry[w]] # Absent
            /\ out[w].size = cacheFile[entry[w]].len /\ entry[w] \notin orphans
        BY <4>1 DEF HolderOK, Holding
      <4>3. /\ cacheFile[entry[w]].by \in Options
            /\ cacheFile[entry[w]].len = PackedSize[entry[w]][cacheFile[entry[w]].by]
            /\ cacheFile[entry[w]].len \in Int
        BY <4>2 DEF FileIsWhole, CacheTypeOK, FilesOK, CacheFiles
      <4>4. out[w] \in Results
        BY DEF CacheTypeOK
      <4>5. out'[w] = Whole(entry[w], cacheFile[entry[w]].by)
        BY <4>2, <4>3, <4>4 DEF Whole, Results, CacheTypeOK
      <4>6. pc'[w] = "hit" /\ entry'[w] = entry[w] /\ FileIsWhole(entry[w])'
        BY <4>2 DEF CacheTypeOK, FileIsWhole
      <4>7. QED
        BY <4>2, <4>3, <4>5, <4>6 DEF HolderOK, Holding
    <3>3. QED
      BY <3>1, <3>2 DEF HolderInv
  <2>6. QED
    BY <2>1, <2>2, <2>3, <2>4, <2>5
<1>12. ASSUME NEW w \in Runs, ReleaseCacheLock(w, "hit", "add") PROVE CacheInv'
  <2> USE <1>12 DEF ReleaseCacheLock, At, Goto, Files, localVars
  <2>1. CacheTypeOK'
    <3>1. FilesOK'
      BY DEF FilesOK, CacheTypeOK
    <3>2. QED
      BY <3>1, ResultFacts, CacheAssumption DEF CacheTypeOK, Labels, Ended, Holding
  <2>2. LocksAccounted'
    <3>1. pc[w] \in Holding /\ ~ (pc'[w] \in Holding) /\ entry' = entry
      BY DEF Holding, CacheTypeOK
    <3>2. \A v \in Runs : v # w => pc'[v] = pc[v]
      BY DEF CacheTypeOK
    <3>3. {v \in Runs : pc'[v] \in Holding} = {v \in Runs : pc[v] \in Holding} \ {w}
      BY <3>1, <3>2
    <3>4. entry[w] \notin orphans
      BY <3>1 DEF HolderInv, HolderOK
    <3>5. lockFile' = {entry'[v] : v \in {x \in Runs : pc'[x] \in Holding}} \union orphans'
      BY <3>1, <3>3, <3>4 DEF LocksAccounted
    <3>6. \A u, v \in Runs : pc'[u] \in Holding /\ pc'[v] \in Holding /\ u # v => entry'[u] # entry'[v]
      BY <3>1, <3>2 DEF LocksAccounted
    <3>7. QED
      BY <3>5, <3>6 DEF LocksAccounted
  <2>3. UnlockedIsWhole'
    <3>1. FileIsWhole(entry[w])
      BY DEF HolderInv, HolderOK, Holding
    <3>2. QED
      BY <3>1 DEF UnlockedIsWhole, FileIsWhole
  <2>4. AddedIsWhole'
    BY DEF AddedIsWhole, HolderInv, HolderOK, CacheTypeOK, At
  <2>5. HolderInv'
    <3>1. ASSUME NEW v \in Runs, v # w PROVE HolderOK(v)'
      <4>1. HolderOK(v)
        BY DEF HolderInv
      <4>2. pc'[v] = pc[v] /\ entry'[v] = entry[v] /\ out'[v] = out[v] /\ options'[v] = options[v]
        BY <3>1 DEF CacheTypeOK
      <4>3. pc[v] \in Holding => cacheFile'[entry[v]] = cacheFile[entry[v]] /\ entry[v] \notin orphans'
        BY <4>1 DEF HolderOK
      <4>4. QED
        BY <4>1, <4>2, <4>3, HolderSame
    <3>2. HolderOK(w)'
      BY DEF HolderInv, HolderOK, CacheTypeOK, Holding, FileIsWhole
    <3>3. QED
      BY <3>1, <3>2 DEF HolderInv
  <2>6. QED
    BY <2>1, <2>2, <2>3, <2>4, <2>5
<1>13. ASSUME NEW w \in Runs, ReleaseCacheLock(w, "miss", "pack") PROVE CacheInv'
  <2> USE <1>13 DEF ReleaseCacheLock, At, Goto, Files, localVars
  <2>1. CacheTypeOK'
    <3>1. FilesOK'
      BY DEF FilesOK, CacheTypeOK
    <3>2. QED
      BY <3>1, ResultFacts, CacheAssumption DEF CacheTypeOK, Labels, Ended, Holding
  <2>2. LocksAccounted'
    <3>1. pc[w] \in Holding /\ ~ (pc'[w] \in Holding) /\ entry' = entry
      BY DEF Holding, CacheTypeOK
    <3>2. \A v \in Runs : v # w => pc'[v] = pc[v]
      BY DEF CacheTypeOK
    <3>3. {v \in Runs : pc'[v] \in Holding} = {v \in Runs : pc[v] \in Holding} \ {w}
      BY <3>1, <3>2
    <3>4. entry[w] \notin orphans
      BY <3>1 DEF HolderInv, HolderOK
    <3>5. lockFile' = {entry'[v] : v \in {x \in Runs : pc'[x] \in Holding}} \union orphans'
      BY <3>1, <3>3, <3>4 DEF LocksAccounted
    <3>6. \A u, v \in Runs : pc'[u] \in Holding /\ pc'[v] \in Holding /\ u # v => entry'[u] # entry'[v]
      BY <3>1, <3>2 DEF LocksAccounted
    <3>7. QED
      BY <3>5, <3>6 DEF LocksAccounted
  <2>3. UnlockedIsWhole'
    <3>1. FileIsWhole(entry[w])
      BY DEF HolderInv, HolderOK, Holding
    <3>2. QED
      BY <3>1 DEF UnlockedIsWhole, FileIsWhole
  <2>4. AddedIsWhole'
    BY DEF AddedIsWhole, HolderInv, HolderOK, CacheTypeOK, At
  <2>5. HolderInv'
    <3>1. ASSUME NEW v \in Runs, v # w PROVE HolderOK(v)'
      <4>1. HolderOK(v)
        BY DEF HolderInv
      <4>2. pc'[v] = pc[v] /\ entry'[v] = entry[v] /\ out'[v] = out[v] /\ options'[v] = options[v]
        BY <3>1 DEF CacheTypeOK
      <4>3. pc[v] \in Holding => cacheFile'[entry[v]] = cacheFile[entry[v]] /\ entry[v] \notin orphans'
        BY <4>1 DEF HolderOK
      <4>4. QED
        BY <4>1, <4>2, <4>3, HolderSame
    <3>2. HolderOK(w)'
      BY DEF HolderInv, HolderOK, CacheTypeOK, Holding, FileIsWhole
    <3>3. QED
      BY <3>1, <3>2 DEF HolderInv
  <2>6. QED
    BY <2>1, <2>2, <2>3, <2>4, <2>5
<1>14. ASSUME NEW w \in Runs, Pack(w) PROVE CacheInv'
  <2> USE <1>14 DEF Pack, At, Goto, Files, localVars
  <2>1. CacheTypeOK'
    <3>1. FilesOK'
      BY DEF FilesOK, CacheTypeOK
    <3>2. tries' \in [Runs -> 0 .. Tries]
      BY TriesRange DEF CacheTypeOK
    <3>3. out' \in [Runs -> Results]
      BY ResultFacts DEF CacheTypeOK
    <3>4. QED
      BY <3>1, <3>2, <3>3 DEF CacheTypeOK, Labels, Ended, Holding
  <2>2. LocksAccounted'
    BY LocksSame DEF CacheTypeOK, Holding
  <2>3. UnlockedIsWhole'
    BY DEF UnlockedIsWhole, FileIsWhole
  <2>4. AddedIsWhole'
    BY DEF AddedIsWhole, CacheTypeOK, At
  <2>5. HolderInv'
    <3>1. ASSUME NEW v \in Runs, v # w PROVE HolderOK(v)'
      <4>1. HolderOK(v)
        BY DEF HolderInv
      <4>2. pc'[v] = pc[v] /\ entry'[v] = entry[v] /\ out'[v] = out[v] /\ options'[v] = options[v]
        BY <3>1 DEF CacheTypeOK
      <4>3. pc[v] \in Holding => cacheFile'[entry[v]] = cacheFile[entry[v]] /\ entry[v] \notin orphans'
        BY <4>1 DEF HolderOK
      <4>4. QED
        BY <4>1, <4>2, <4>3, HolderSame
    <3>2. HolderOK(w)'
      BY DEF HolderInv, HolderOK, CacheTypeOK, Holding, FileIsWhole
    <3>3. QED
      BY <3>1, <3>2 DEF HolderInv
  <2>6. QED
    BY <2>1, <2>2, <2>3, <2>4, <2>5
<1>15. ASSUME NEW w \in Runs, OpenToWrite(w) PROVE CacheInv'
  <2> USE <1>15 DEF OpenToWrite, At, Goto, Files, localVars
  <2>0. /\ pc[w] \in Holding /\ entry[w] \in lockFile /\ entry[w] \in Entries
        /\ \A v \in Runs : v # w /\ pc[v] \in Holding => entry[v] # entry[w]
    BY HeldFacts DEF Holding, CacheTypeOK
  <2>h. /\ out[w] = Whole(entry[w], options[w]) /\ entry[w] \notin orphans
        /\ out[w].size = PackedSize[entry[w]][options[w]]
        /\ options[w] \in Options /\ PackedSize[entry[w]][options[w]] \in Nat \ {0}
    <3>1. HolderOK(w)
      BY DEF HolderInv
    <3>2. out[w] = Whole(entry[w], options[w]) /\ entry[w] \notin orphans
      BY <3>1 DEF HolderOK, Holding
    <3>3. options[w] \in Options /\ entry[w] \in Entries
      BY DEF CacheTypeOK
    <3>4. out[w].size = PackedSize[entry[w]][options[w]]
      BY <3>2, <3>3, WholeSize
    <3>5. PackedSize[entry[w]][options[w]] \in Nat \ {0}
      BY <3>3, SizeFacts
    <3>6. QED
      BY <3>2, <3>3, <3>4, <3>5
  <2>f. /\ cacheFile' \in [Entries -> CacheFiles]
        /\ \A d \in Entries : d # entry[w] => cacheFile'[d] = cacheFile[d]
        /\ \/ cacheFile'[entry[w]] = Absent
           \/ /\ cacheFile'[entry[w]].by \in Options
              /\ cacheFile'[entry[w]].len \in 0 .. PackedSize[entry[w]][cacheFile'[entry[w]].by]
    <3>1. CASE /\ cacheFile' = [cacheFile EXCEPT ![entry[w]] = Bytes(options[w], 0)]
               /\ pc' = [pc EXCEPT ![w] = "write"]
      <4>1. Bytes(options[w], 0) \in CacheFiles
        BY <2>h, NewFile
      <4>2. cacheFile'[entry[w]] = Bytes(options[w], 0)
        BY <3>1, <2>0 DEF CacheTypeOK, FilesOK
      <4>3. cacheFile' \in [Entries -> CacheFiles]
            /\ \A d \in Entries : d # entry[w] => cacheFile'[d] = cacheFile[d]
        BY <3>1, <4>1, <2>0 DEF CacheTypeOK, FilesOK
      <4>4. options[w] \in Options /\ 0 \in 0 .. PackedSize[entry[w]][options[w]]
        <5> HIDE DEF OpenToWrite
        <5>1. QED
          BY <2>h
      <4>5. /\ cacheFile'[entry[w]].by \in Options
            /\ cacheFile'[entry[w]].len \in 0 .. PackedSize[entry[w]][cacheFile'[entry[w]].by]
        <5>1. cacheFile'[entry[w]].by = options[w] /\ cacheFile'[entry[w]].len = 0
          BY <4>2, <2>h, NewFile, ZenonT(40)
        <5>2. QED
          BY <5>1, <4>4
      <4>6. QED
        BY <4>3, <4>5
    <3>2. CASE UNCHANGED cacheFile
      <4>1. UNCHANGED cacheFile
        BY <3>2
      <4>2. QED
        BY <4>1, <2>0 DEF CacheTypeOK, FilesOK
    <3>3. QED
      BY <3>1, <3>2
  <2>1. CacheTypeOK'
    <3>1. FilesOK'
      BY <2>0, <2>f, FileChanged DEF CacheTypeOK
    <3>2. QED
      BY <3>1 DEF CacheTypeOK, Labels, Ended, Holding
  <2>2. LocksAccounted'
    BY LocksSame DEF CacheTypeOK, Holding
  <2>3. UnlockedIsWhole'
    BY <2>0, <2>f, UnlockedKept
  <2>4. AddedIsWhole'
    BY DEF AddedIsWhole, CacheTypeOK, At
  <2>5. HolderInv'
    <3>1. ASSUME NEW v \in Runs, v # w PROVE HolderOK(v)'
      <4>1. HolderOK(v)
        BY DEF HolderInv
      <4>2. pc'[v] = pc[v] /\ entry'[v] = entry[v] /\ out'[v] = out[v] /\ options'[v] = options[v]
        BY <3>1 DEF CacheTypeOK
      <4>3. pc[v] \in Holding => cacheFile'[entry[v]] = cacheFile[entry[v]] /\ entry[v] \notin orphans'
        BY <2>0, <2>f, <3>1, <4>1 DEF HolderOK, CacheTypeOK
      <4>4. QED
        BY <4>1, <4>2, <4>3, HolderSame
    <3>2. HolderOK(w)'
      <4>0. Bytes(options[w], 0) # Absent
        BY <2>h, NewFile
      <4>1. CASE /\ cacheFile' = [cacheFile EXCEPT ![entry[w]] = Bytes(options[w], 0)]
                 /\ pc' = [pc EXCEPT ![w] = "write"]
        <5>1. cacheFile'[entry[w]] = Bytes(options[w], 0)
          BY <4>1, <2>0 DEF CacheTypeOK, FilesOK
        <5>2. cacheFile'[entry[w]] # Absent /\ cacheFile'[entry[w]].by = options[w]
          BY <5>1, <4>0, <2>h, NewFile, ZenonT(40)
        <5>3. QED
          BY <4>1, <5>2, <2>h DEF HolderOK, Holding, CacheTypeOK
      <4>2. CASE pc' = [pc EXCEPT ![w] = "wrote"] /\ UNCHANGED cacheFile
        BY <4>2, <2>h DEF HolderInv, HolderOK, Holding, CacheTypeOK, FileIsWhole
      <4>3. QED
        BY <4>1, <4>2
    <3>3. QED
      BY <3>1, <3>2 DEF HolderInv
  <2>6. QED
    BY <2>1, <2>2, <2>3, <2>4, <2>5
<1>16. ASSUME NEW w \in Runs, Write(w) PROVE CacheInv'
  <2> USE <1>16 DEF Write, At, Goto, Files, localVars
  <2>0. /\ pc[w] \in Holding /\ entry[w] \in lockFile /\ entry[w] \in Entries
        /\ \A v \in Runs : v # w /\ pc[v] \in Holding => entry[v] # entry[w]
    BY HeldFacts DEF Holding, CacheTypeOK
  <2>h. /\ out[w] = Whole(entry[w], options[w]) /\ entry[w] \notin orphans
        /\ out[w].size = PackedSize[entry[w]][options[w]]
        /\ options[w] \in Options /\ PackedSize[entry[w]][options[w]] \in Nat \ {0}
    <3>1. HolderOK(w)
      BY DEF HolderInv
    <3>2. out[w] = Whole(entry[w], options[w]) /\ entry[w] \notin orphans
      BY <3>1 DEF HolderOK, Holding
    <3>3. options[w] \in Options /\ entry[w] \in Entries
      BY DEF CacheTypeOK
    <3>4. out[w].size = PackedSize[entry[w]][options[w]]
      BY <3>2, <3>3, WholeSize
    <3>5. PackedSize[entry[w]][options[w]] \in Nat \ {0}
      BY <3>3, SizeFacts
    <3>6. QED
      BY <3>2, <3>3, <3>4, <3>5
  <2>f. /\ cacheFile' \in [Entries -> CacheFiles]
        /\ \A d \in Entries : d # entry[w] => cacheFile'[d] = cacheFile[d]
        /\ \/ cacheFile'[entry[w]] = Absent
           \/ /\ cacheFile'[entry[w]].by \in Options
              /\ cacheFile'[entry[w]].len \in 0 .. PackedSize[entry[w]][cacheFile'[entry[w]].by]
    <3>0. cacheFile \in [Entries -> CacheFiles]
      BY DEF CacheTypeOK, FilesOK
    <3>1. cacheFile[entry[w]] = [by |-> options[w], len |-> cacheFile[entry[w]].len]
      <4>1. cacheFile[entry[w]].by = options[w]
        BY DEF HolderInv, HolderOK
      <4>2. cacheFile[entry[w]] \in CacheFiles
        BY <3>0, <2>0
      <4>3. QED
        BY <4>1, <4>2 DEF CacheFiles
    <3>2. PICK n \in 0 .. out[w].size : cacheFile' = [cacheFile EXCEPT ![entry[w]].len = n]
      OBVIOUS
    <3>3. cacheFile'[entry[w]] = [by |-> options[w], len |-> n] /\ n \in Int
      BY <3>0, <3>1, <3>2, <2>0, <2>h
    <3>4. [by |-> options[w], len |-> n] \in CacheFiles
      BY <3>3, <2>h DEF CacheFiles
    <3>5. cacheFile' \in [Entries -> CacheFiles]
          /\ \A d \in Entries : d # entry[w] => cacheFile'[d] = cacheFile[d]
      BY <3>0, <3>2, <3>3, <3>4
    <3>6. QED
      BY <3>3, <3>5, <2>h
  <2>1. CacheTypeOK'
    <3>1. FilesOK'
      BY <2>0, <2>f, FileChanged DEF CacheTypeOK
    <3>2. QED
      BY <3>1 DEF CacheTypeOK, Labels, Ended, Holding
  <2>2. LocksAccounted'
    BY LocksSame DEF CacheTypeOK, Holding
  <2>3. UnlockedIsWhole'
    BY <2>0, <2>f, UnlockedKept
  <2>4. AddedIsWhole'
    BY DEF AddedIsWhole, CacheTypeOK, At
  <2>5. HolderInv'
    <3>1. ASSUME NEW v \in Runs, v # w PROVE HolderOK(v)'
      <4>1. HolderOK(v)
        BY DEF HolderInv
      <4>2. pc'[v] = pc[v] /\ entry'[v] = entry[v] /\ out'[v] = out[v] /\ options'[v] = options[v]
        BY <3>1 DEF CacheTypeOK
      <4>3. pc[v] \in Holding => cacheFile'[entry[v]] = cacheFile[entry[v]] /\ entry[v] \notin orphans'
        BY <2>0, <2>f, <3>1, <4>1 DEF HolderOK, CacheTypeOK
      <4>4. QED
        BY <4>1, <4>2, <4>3, HolderSame
    <3>2. HolderOK(w)'
      <4>1. cacheFile'[entry[w]] # Absent /\ cacheFile'[entry[w]].by = options[w]
        <5>1. cacheFile[entry[w]].by = options[w] /\ cacheFile \in [Entries -> CacheFiles]
          BY DEF HolderInv, HolderOK, CacheTypeOK, FilesOK
        <5>2. PICK n \in 0 .. out[w].size : cacheFile' = [cacheFile EXCEPT ![entry[w]].len = n]
          OBVIOUS
        <5>3. cacheFile'[entry[w]].by = options[w] /\ cacheFile'[entry[w]].len = n
          BY <5>1, <5>2, <2>0 DEF CacheFiles
        <5>4. n >= 0 /\ n \in Int
          BY <2>h
        <5>5. QED
          BY <5>3, <5>4, AbsentFacts
      <4>2. QED
        BY <4>1, <2>h DEF HolderOK, Holding, CacheTypeOK
    <3>3. QED
      BY <3>1, <3>2 DEF HolderInv
  <2>6. QED
    BY <2>1, <2>2, <2>3, <2>4, <2>5
<1>17. ASSUME NEW w \in Runs, Close(w) PROVE CacheInv'
  <2> USE <1>17 DEF Close, At, Goto, Files, localVars
  <2>0. /\ pc[w] \in Holding /\ entry[w] \in lockFile /\ entry[w] \in Entries
        /\ \A v \in Runs : v # w /\ pc[v] \in Holding => entry[v] # entry[w]
    BY HeldFacts DEF Holding, CacheTypeOK
  <2>h. /\ out[w] = Whole(entry[w], options[w]) /\ entry[w] \notin orphans
        /\ out[w].size = PackedSize[entry[w]][options[w]]
        /\ options[w] \in Options /\ PackedSize[entry[w]][options[w]] \in Nat \ {0}
    <3>1. HolderOK(w)
      BY DEF HolderInv
    <3>2. out[w] = Whole(entry[w], options[w]) /\ entry[w] \notin orphans
      BY <3>1 DEF HolderOK, Holding
    <3>3. options[w] \in Options /\ entry[w] \in Entries
      BY DEF CacheTypeOK
    <3>4. out[w].size = PackedSize[entry[w]][options[w]]
      BY <3>2, <3>3, WholeSize
    <3>5. PackedSize[entry[w]][options[w]] \in Nat \ {0}
      BY <3>3, SizeFacts
    <3>6. QED
      BY <3>2, <3>3, <3>4, <3>5
  <2>f. /\ cacheFile' \in [Entries -> CacheFiles]
        /\ \A d \in Entries : d # entry[w] => cacheFile'[d] = cacheFile[d]
        /\ \/ cacheFile'[entry[w]] = Absent
           \/ /\ cacheFile'[entry[w]].by \in Options
              /\ cacheFile'[entry[w]].len \in 0 .. PackedSize[entry[w]][cacheFile'[entry[w]].by]
    <3>0. cacheFile \in [Entries -> CacheFiles]
      BY DEF CacheTypeOK, FilesOK
    <3>1. cacheFile[entry[w]] = [by |-> options[w], len |-> cacheFile[entry[w]].len]
      <4>1. cacheFile[entry[w]].by = options[w]
        BY DEF HolderInv, HolderOK
      <4>2. cacheFile[entry[w]] \in CacheFiles
        BY <3>0, <2>0
      <4>3. QED
        BY <4>1, <4>2 DEF CacheFiles
    <3>2. cacheFile'[entry[w]] = [by |-> options[w], len |-> out[w].size]
      BY <3>0, <3>1, <2>0
    <3>3. [by |-> options[w], len |-> out[w].size] \in CacheFiles
      BY <2>h DEF CacheFiles
    <3>4. cacheFile' \in [Entries -> CacheFiles]
          /\ \A d \in Entries : d # entry[w] => cacheFile'[d] = cacheFile[d]
      BY <3>0, <3>2, <3>3
    <3>5. QED
      BY <3>2, <3>4, <2>h
  <2>1. CacheTypeOK'
    <3>1. FilesOK'
      BY <2>0, <2>f, FileChanged DEF CacheTypeOK
    <3>2. QED
      BY <3>1 DEF CacheTypeOK, Labels, Ended, Holding
  <2>2. LocksAccounted'
    BY LocksSame DEF CacheTypeOK, Holding
  <2>3. UnlockedIsWhole'
    BY <2>0, <2>f, UnlockedKept
  <2>4. AddedIsWhole'
    BY DEF AddedIsWhole, CacheTypeOK, At
  <2>5. HolderInv'
    <3>1. ASSUME NEW v \in Runs, v # w PROVE HolderOK(v)'
      <4>1. HolderOK(v)
        BY DEF HolderInv
      <4>2. pc'[v] = pc[v] /\ entry'[v] = entry[v] /\ out'[v] = out[v] /\ options'[v] = options[v]
        BY <3>1 DEF CacheTypeOK
      <4>3. pc[v] \in Holding => cacheFile'[entry[v]] = cacheFile[entry[v]] /\ entry[v] \notin orphans'
        BY <2>0, <2>f, <3>1, <4>1 DEF HolderOK, CacheTypeOK
      <4>4. QED
        BY <4>1, <4>2, <4>3, HolderSame
    <3>2. HolderOK(w)'
      <4>1. cacheFile[entry[w]].by = options[w] /\ cacheFile \in [Entries -> CacheFiles]
        BY DEF HolderInv, HolderOK, CacheTypeOK, FilesOK
      <4>2. cacheFile'[entry[w]].by = options[w] /\ cacheFile'[entry[w]].len = out[w].size
        BY <4>1, <2>0 DEF CacheFiles
      <4>3. FileIsWhole(entry[w])'
        BY <4>2, <2>h DEF FileIsWhole
      <4>4. QED
        BY <4>3, <2>h DEF HolderOK, Holding, CacheTypeOK
    <3>3. QED
      BY <3>1, <3>2 DEF HolderInv
  <2>6. QED
    BY <2>1, <2>2, <2>3, <2>4, <2>5
<1>18. ASSUME NEW w \in Runs, Remove(w) PROVE CacheInv'
  <2> USE <1>18 DEF Remove, At, Goto, Files, localVars
  <2>0. /\ pc[w] \in Holding /\ entry[w] \in lockFile /\ entry[w] \in Entries
        /\ \A v \in Runs : v # w /\ pc[v] \in Holding => entry[v] # entry[w]
    BY HeldFacts DEF Holding, CacheTypeOK
  <2>h. /\ out[w] = Whole(entry[w], options[w]) /\ entry[w] \notin orphans
        /\ out[w].size = PackedSize[entry[w]][options[w]]
        /\ options[w] \in Options /\ PackedSize[entry[w]][options[w]] \in Nat \ {0}
    <3>1. HolderOK(w)
      BY DEF HolderInv
    <3>2. out[w] = Whole(entry[w], options[w]) /\ entry[w] \notin orphans
      BY <3>1 DEF HolderOK, Holding
    <3>3. options[w] \in Options /\ entry[w] \in Entries
      BY DEF CacheTypeOK
    <3>4. out[w].size = PackedSize[entry[w]][options[w]]
      BY <3>2, <3>3, WholeSize
    <3>5. PackedSize[entry[w]][options[w]] \in Nat \ {0}
      BY <3>3, SizeFacts
    <3>6. QED
      BY <3>2, <3>3, <3>4, <3>5
  <2>f. /\ cacheFile' \in [Entries -> CacheFiles]
        /\ \A d \in Entries : d # entry[w] => cacheFile'[d] = cacheFile[d]
        /\ \/ cacheFile'[entry[w]] = Absent
           \/ /\ cacheFile'[entry[w]].by \in Options
              /\ cacheFile'[entry[w]].len \in 0 .. PackedSize[entry[w]][cacheFile'[entry[w]].by]
    <3>1. cacheFile'[entry[w]] = Absent
      BY <2>0 DEF CacheTypeOK, FilesOK
    <3>2. QED
      BY <3>1, <2>0, AbsentFacts DEF CacheTypeOK, FilesOK
  <2>1. CacheTypeOK'
    <3>1. FilesOK'
      BY <2>0, <2>f, FileChanged DEF CacheTypeOK
    <3>2. QED
      BY <3>1 DEF CacheTypeOK, Labels, Ended, Holding
  <2>2. LocksAccounted'
    BY LocksSame DEF CacheTypeOK, Holding
  <2>3. UnlockedIsWhole'
    BY <2>0, <2>f, UnlockedKept
  <2>4. AddedIsWhole'
    BY DEF AddedIsWhole, CacheTypeOK, At
  <2>5. HolderInv'
    <3>1. ASSUME NEW v \in Runs, v # w PROVE HolderOK(v)'
      <4>1. HolderOK(v)
        BY DEF HolderInv
      <4>2. pc'[v] = pc[v] /\ entry'[v] = entry[v] /\ out'[v] = out[v] /\ options'[v] = options[v]
        BY <3>1 DEF CacheTypeOK
      <4>3. pc[v] \in Holding => cacheFile'[entry[v]] = cacheFile[entry[v]] /\ entry[v] \notin orphans'
        BY <2>0, <2>f, <3>1, <4>1 DEF HolderOK, CacheTypeOK
      <4>4. QED
        BY <4>1, <4>2, <4>3, HolderSame
    <3>2. HolderOK(w)'
      BY <2>0, <2>h, <2>f DEF HolderOK, CacheTypeOK, FilesOK, Holding, FileIsWhole
    <3>3. QED
      BY <3>1, <3>2 DEF HolderInv
  <2>6. QED
    BY <2>1, <2>2, <2>3, <2>4, <2>5
<1>19. ASSUME NEW w \in Runs, ReleaseCacheLock(w, "wrote", "add") PROVE CacheInv'
  <2> USE <1>19 DEF ReleaseCacheLock, At, Goto, Files, localVars
  <2>1. CacheTypeOK'
    <3>1. FilesOK'
      BY DEF FilesOK, CacheTypeOK
    <3>2. QED
      BY <3>1, ResultFacts, CacheAssumption DEF CacheTypeOK, Labels, Ended, Holding
  <2>2. LocksAccounted'
    <3>1. pc[w] \in Holding /\ ~ (pc'[w] \in Holding) /\ entry' = entry
      BY DEF Holding, CacheTypeOK
    <3>2. \A v \in Runs : v # w => pc'[v] = pc[v]
      BY DEF CacheTypeOK
    <3>3. {v \in Runs : pc'[v] \in Holding} = {v \in Runs : pc[v] \in Holding} \ {w}
      BY <3>1, <3>2
    <3>4. entry[w] \notin orphans
      BY <3>1 DEF HolderInv, HolderOK
    <3>5. lockFile' = {entry'[v] : v \in {x \in Runs : pc'[x] \in Holding}} \union orphans'
      BY <3>1, <3>3, <3>4 DEF LocksAccounted
    <3>6. \A u, v \in Runs : pc'[u] \in Holding /\ pc'[v] \in Holding /\ u # v => entry'[u] # entry'[v]
      BY <3>1, <3>2 DEF LocksAccounted
    <3>7. QED
      BY <3>5, <3>6 DEF LocksAccounted
  <2>3. UnlockedIsWhole'
    <3>1. FileIsWhole(entry[w])
      BY DEF HolderInv, HolderOK, Holding
    <3>2. QED
      BY <3>1 DEF UnlockedIsWhole, FileIsWhole
  <2>4. AddedIsWhole'
    BY DEF AddedIsWhole, HolderInv, HolderOK, CacheTypeOK, At
  <2>5. HolderInv'
    <3>1. ASSUME NEW v \in Runs, v # w PROVE HolderOK(v)'
      <4>1. HolderOK(v)
        BY DEF HolderInv
      <4>2. pc'[v] = pc[v] /\ entry'[v] = entry[v] /\ out'[v] = out[v] /\ options'[v] = options[v]
        BY <3>1 DEF CacheTypeOK
      <4>3. pc[v] \in Holding => cacheFile'[entry[v]] = cacheFile[entry[v]] /\ entry[v] \notin orphans'
        BY <4>1 DEF HolderOK
      <4>4. QED
        BY <4>1, <4>2, <4>3, HolderSame
    <3>2. HolderOK(w)'
      BY DEF HolderInv, HolderOK, CacheTypeOK, Holding, FileIsWhole
    <3>3. QED
      BY <3>1, <3>2 DEF HolderInv
  <2>6. QED
    BY <2>1, <2>2, <2>3, <2>4, <2>5
<1>20. ASSUME NEW w \in Runs, Add(w) PROVE CacheInv'
  <2> USE <1>20 DEF Add, At, Goto, Files, localVars
  <2>1. CacheTypeOK'
    <3>1. FilesOK'
      BY DEF FilesOK, CacheTypeOK
    <3>2. QED
      BY <3>1, ResultFacts, CacheAssumption DEF CacheTypeOK, Labels, Ended, Holding
  <2>2. LocksAccounted'
    BY LocksSame DEF CacheTypeOK, Holding
  <2>3. UnlockedIsWhole'
    BY DEF UnlockedIsWhole, FileIsWhole
  <2>4. AddedIsWhole'
    BY DEF AddedIsWhole, CacheTypeOK, At
  <2>5. HolderInv'
    <3>1. ASSUME NEW v \in Runs, v # w PROVE HolderOK(v)'
      <4>1. HolderOK(v)
        BY DEF HolderInv
      <4>2. pc'[v] = pc[v] /\ entry'[v] = entry[v] /\ out'[v] = out[v] /\ options'[v] = options[v]
        BY <3>1 DEF CacheTypeOK
      <4>3. pc[v] \in Holding => cacheFile'[entry[v]] = cacheFile[entry[v]] /\ entry[v] \notin orphans'
        BY <4>1 DEF HolderOK
      <4>4. QED
        BY <4>1, <4>2, <4>3, HolderSame
    <3>2. HolderOK(w)'
      BY DEF HolderInv, HolderOK, CacheTypeOK, Holding, FileIsWhole
    <3>3. QED
      BY <3>1, <3>2 DEF HolderInv
  <2>6. QED
    BY <2>1, <2>2, <2>3, <2>4, <2>5
<1>21. ASSUME NEW w \in Runs, Kill(w) PROVE CacheInv'
  <2> USE <1>21 DEF Kill, At, Goto, Files, localVars
  <2>1. CacheTypeOK'
    <3>1. FilesOK'
      BY DEF FilesOK, CacheTypeOK
    <3>2. QED
      BY <3>1, ResultFacts, CacheAssumption DEF CacheTypeOK, Labels, Ended, Holding
  <2>2. LocksAccounted'
    <3>0. entry' = entry /\ lockFile' = lockFile /\ ~ (pc'[w] \in Holding)
          /\ \A v \in Runs : v # w => pc'[v] = pc[v]
      BY DEF CacheTypeOK, Holding
    <3>1. {v \in Runs : pc'[v] \in Holding} = {v \in Runs : pc[v] \in Holding} \ {w}
      BY <3>0
    <3>2. lockFile' = {entry'[v] : v \in {x \in Runs : pc'[x] \in Holding}} \union orphans'
      BY <3>0, <3>1 DEF LocksAccounted
    <3>3. \A u, v \in Runs : pc'[u] \in Holding /\ pc'[v] \in Holding /\ u # v => entry'[u] # entry'[v]
      BY <3>0 DEF LocksAccounted
    <3>4. QED
      BY <3>2, <3>3 DEF LocksAccounted
  <2>3. UnlockedIsWhole'
    BY DEF UnlockedIsWhole, FileIsWhole
  <2>4. AddedIsWhole'
    BY DEF AddedIsWhole, CacheTypeOK, At
  <2>5. HolderInv'
    <3>1. ASSUME NEW v \in Runs, v # w PROVE HolderOK(v)'
      <4>1. HolderOK(v)
        BY DEF HolderInv
      <4>2. pc'[v] = pc[v] /\ entry'[v] = entry[v] /\ out'[v] = out[v] /\ options'[v] = options[v]
        BY <3>1 DEF CacheTypeOK
      <4>3. pc[v] \in Holding => cacheFile'[entry[v]] = cacheFile[entry[v]] /\ entry[v] \notin orphans'
        <5>1. pc[v] \in Holding /\ pc[w] \in Holding => entry[v] # entry[w]
          BY <3>1 DEF LocksAccounted
        <5>2. QED
          BY <4>1, <5>1 DEF HolderOK
      <4>4. QED
        BY <4>1, <4>2, <4>3, HolderSame
    <3>2. HolderOK(w)'
      BY DEF HolderInv, HolderOK, CacheTypeOK, Holding, FileIsWhole
    <3>3. QED
      BY <3>1, <3>2 DEF HolderInv
  <2>6. QED
    BY <2>1, <2>2, <2>3, <2>4, <2>5
<1>22. ASSUME NEW w \in Runs, Restart(w) PROVE CacheInv'
  <2> USE <1>22 DEF Restart, At, Goto, Files, localVars
  <2>1. CacheTypeOK'
    <3>1. FilesOK'
      BY DEF FilesOK, CacheTypeOK
    <3>2. options' \in [Runs -> Options]
      BY DEF CacheTypeOK
    <3>3. todo' \in [Runs -> SUBSET Entries]
      BY DEF CacheTypeOK
    <3>4. tries' \in [Runs -> 0 .. Tries]
      BY TriesRange DEF CacheTypeOK
    <3>5. out' \in [Runs -> Results]
      BY ResultFacts DEF CacheTypeOK
    <3>6. restarts' \in [Runs -> 0 .. MaxRestarts]
      BY CacheAssumption DEF CacheTypeOK
    <3>7. QED
      BY <3>1, <3>2, <3>3, <3>4, <3>5, <3>6 DEF CacheTypeOK, Labels, Ended, Holding
  <2>2. LocksAccounted'
    BY LocksSame DEF CacheTypeOK, Holding, Ended
  <2>3. UnlockedIsWhole'
    BY DEF UnlockedIsWhole, FileIsWhole
  <2>4. AddedIsWhole'
    BY DEF AddedIsWhole, CacheTypeOK, At
  <2>5. HolderInv'
    <3>1. ASSUME NEW v \in Runs, v # w PROVE HolderOK(v)'
      <4>1. HolderOK(v)
        BY DEF HolderInv
      <4>2. pc'[v] = pc[v] /\ entry'[v] = entry[v] /\ out'[v] = out[v] /\ options'[v] = options[v]
        BY <3>1 DEF CacheTypeOK
      <4>3. pc[v] \in Holding => cacheFile'[entry[v]] = cacheFile[entry[v]] /\ entry[v] \notin orphans'
        BY <4>1 DEF HolderOK
      <4>4. QED
        BY <4>1, <4>2, <4>3, HolderSame
    <3>2. HolderOK(w)'
      BY DEF HolderInv, HolderOK, CacheTypeOK, Holding, FileIsWhole
    <3>3. QED
      BY <3>1, <3>2 DEF HolderInv
  <2>6. QED
    BY <2>1, <2>2, <2>3, <2>4, <2>5
<1>23. ASSUME UNCHANGED vars PROVE CacheInv'
  <2> USE <1>23 DEF vars, Files, localVars
  <2>1. CacheTypeOK'
    BY DEF CacheTypeOK, FilesOK
  <2>2. LocksAccounted'
    BY LocksSame
  <2>3. UnlockedIsWhole' /\ AddedIsWhole'
    BY DEF UnlockedIsWhole, FileIsWhole, AddedIsWhole, At
  <2>4. HolderInv'
    BY DEF HolderInv, HolderOK, FileIsWhole
  <2>5. QED
    BY <2>1, <2>2, <2>3, <2>4
<1>24. QED
  BY <1>1, <1>2, <1>3, <1>4, <1>5, <1>6, <1>7, <1>8, <1>9, <1>10, <1>11, <1>12, <1>13, <1>14, <1>15, <1>16, <1>17, <1>18, <1>19, <1>20, <1>21, <1>22, <1>23 DEF Next, Step

\* The cache, for any number of runs of the program, at once, after one
\* another or killed anywhere: no lock is forgotten, and an entry has one
\* holder (CreateCacheLock, ReleaseCacheLock).
THEOREM LocksNeverLeak == Spec => []LocksAccounted
<1>1. CacheInv => LocksAccounted
  BY DEF CacheInv
<1>2. QED
  BY CacheInit, CacheStep, <1>1, PTL DEF Spec

\* No run ever meets a torn cache file it could lock (CachePacked, ReadCache).
THEOREM NoTornFile == Spec => []UnlockedIsWhole
<1>1. CacheInv => UnlockedIsWhole
  BY DEF CacheInv
<1>2. QED
  BY CacheInit, CacheStep, <1>1, PTL DEF Spec

\* What PackFiles adds is the whole packed data of the file at hand.
THEOREM OnlyWholeDataAdded == Spec => []AddedIsWhole
<1>1. CacheInv => AddedIsWhole
  BY DEF CacheInv
<1>2. QED
  BY CacheInit, CacheStep, <1>1, PTL DEF Spec

\* Every run stays within its labels and attempts, and what lies in the cache
\* is either absent or a file that somebody's PackFile wrote, wholly or in part.
THEOREM CacheTyped == Spec => []CacheTypeOK
<1>1. CacheInv => CacheTypeOK
  BY DEF CacheInv
<1>2. QED
  BY CacheInit, CacheStep, <1>1, PTL DEF Spec
=============================================================================
