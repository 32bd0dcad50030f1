------------------------------ MODULE Listfile ------------------------------
(***************************************************************************)
(* How main finds the paths it queues: the listfiles are cut into names    *)
(* (strtok_l, ReadListfile, PopulateListfile), a name the archive knows is *)
(* put into an open-addressing table (listfile.c), main stops if an entry  *)
(* of the archive is left without a name (ListfileSufficient), and the     *)
(* table becomes the queue.                                                *)
(*                                                                         *)
(* A text is a sequence of letters and delimiters, a name a sequence of    *)
(* letters; names of one key differ in case only.  That FindBTE finds a    *)
(* name exactly if its key is in the archive is LookupIsFirst of Table.    *)
(***************************************************************************)
EXTENDS Integers, Sequences, FiniteSets, SequencesExt

CONSTANTS
    Chars,      \* the letters of names
    KeyOf,      \* name -> hashA and hashB as one number
    HtSize,     \* of the archive: slots of its hash table, and of the listfile
    Delim,      \* any of "\r\n;"
    ListName,   \* "(listfile)"
    AttrName,   \* "(attributes)"
    Archives,   \* the sets of keys an archive may contain
    Externals,  \* the texts --listfile may name, or NoText
    Internals,  \* the texts of the file "(listfile)", or NoText: it is unreadable
    NoText, NoPath

Names == DOMAIN KeyOf
Keys == {KeyOf[n] : n \in Names}

Texts == Seq(Chars \union {Delim})

\* No name has the hash 0, which marks a free element of the list, and the keys
\* of an archive are those in the slots of its hash table.
ASSUME ListfileAssumption ==
    /\ HtSize \in Nat \ {0}
    /\ Keys \subseteq Nat \ {0}
    /\ Names \subseteq Seq(Chars) /\ Delim \notin Chars
    /\ {ListName, AttrName} \subseteq Names /\ NoPath \notin Names
    /\ \A keys \in Archives :
          keys \subseteq Keys /\ IsFiniteSet(keys) /\ Cardinality(keys) <= HtSize
    /\ (Externals \union Internals) \ {NoText} \subseteq Texts

VARIABLES
    pc,
    present,    \* keys of the archive: the used slots of its hash table
    texts,      \* the texts still to be read
    text, idx,  \* input and idx of strtok_l: the statics, idx from 0
    list,       \* listfile.list: slots 0 .. HtSize - 1
    pathes, cnt,\* the array main fills, and the i of its loop
    tokens,     \* history: where the names strtok_l cut from this text lie
    seen        \* history: the keys of all names looked up

vars == <<pc, present, texts, text, idx, list, pathes, cnt, tokens, seen>>

Free == [hash |-> 0, path |-> NoPath]

\* PopulateListfile: "(listfile);(attributes)", with its final zero.
InternalNames == ListName \o <<Delim>> \o AttrName \o <<Delim>>

Init ==
    /\ pc = "populate"
    /\ present \in Archives
    /\ \E ext \in Externals, int \in Internals :
          texts = (IF ext = NoText THEN <<>> ELSE <<ext>>)
                  \o (IF KeyOf[ListName] \in present /\ int # NoText THEN <<int>> ELSE <<>>)
                  \o <<InternalNames>>
    /\ text = <<>>
    /\ idx = 0
    /\ list = [i \in 0 .. HtSize - 1 |-> Free]
    /\ pathes = <<>>
    /\ cnt = 0
    /\ tokens = <<>>
    /\ seen = {}

-----------------------------------------------------------------------------
(* strtok_l: skip delimiters, then take what is up to the next one. *)

size == Len(text)

\* The first position from i on that is no delimiter, or the end.
StartFrom(i) == Min({j \in i .. size : j < size => text[j + 1] # Delim})

\* The position of the delimiter that ends the name begun at s, or the end.
EndFrom(s) == Min({j \in s .. size : j < size => text[j + 1] = Delim})

Ends == StartFrom(idx) = size

\* The first and the last letter of the name.
Token == <<StartFrom(idx) + 1, EndFrom(StartFrom(idx))>>

Result == SubSeq(text, Token[1], Token[2])

\* At the end of the text there is no delimiter to write the final zero over:
\* the name goes on into whatever the memory behind it holds.
Unterminated == EndFrom(StartFrom(idx)) = size

\* What strtok_l returns, as FindBTE reads it: <<>> is a name of no entry.
Readings ==
    IF Unterminated THEN {n \in Names : IsPrefix(Result, n)} \union {<<>>} ELSE {Result}

NextIdxStuck ==                   \* mutant: idx is not moved behind the name
    IF Unterminated THEN size ELSE StartFrom(idx)

NextIdx == IF Unterminated THEN size ELSE EndFrom(StartFrom(idx)) + 1

-----------------------------------------------------------------------------
(* listfile.c *)

Elem(hash, d) == list[((hash % HtSize) + d) % HtSize]

\* AddPath stops at the first element that is free or has the hash.
StopsAt(hash, d) ==
    /\ Elem(hash, d).hash \in {0, hash}
    /\ \A e \in 0 .. d - 1 : Elem(hash, e).hash \notin {0, hash}

AddPathFirstSlot(hash, path) ==   \* mutant: no probing
    list' = IF Elem(hash, 0).hash = 0
            THEN [list EXCEPT ![hash % HtSize] = [hash |-> hash, path |-> path]]
            ELSE list

AddPathAgain(hash, path) ==       \* mutant: an equal hash does not stop the probe
    IF \E d \in 0 .. HtSize - 1 : Elem(hash, d).hash = 0
    THEN LET d == CHOOSE d \in 0 .. HtSize - 1 :
                      /\ Elem(hash, d).hash = 0
                      /\ \A e \in 0 .. d - 1 : Elem(hash, e).hash # 0
         IN  list' = [list EXCEPT ![((hash % HtSize) + d) % HtSize] =
                         [hash |-> hash, path |-> path]]
    ELSE UNCHANGED list

AddPath(hash, path) ==
    IF \E d \in 0 .. HtSize - 1 : StopsAt(hash, d)
    THEN LET d == CHOOSE d \in 0 .. HtSize - 1 : StopsAt(hash, d)
         IN  list' = [list EXCEPT ![((hash % HtSize) + d) % HtSize] =
                         IF @.hash = 0 THEN [hash |-> hash, path |-> path] ELSE @]
    ELSE UNCHANGED list

\* FindPath goes once around, free elements or not.
FindPath(hash) ==
    LET hits == {d \in 0 .. HtSize - 1 : Elem(hash, d).hash = hash}
    IN  IF hits = {} THEN NoPath ELSE Elem(hash, Min(hits)).path

-----------------------------------------------------------------------------
\* PopulateListfile takes the next text: the first call of strtok_l.
NextText ==
    /\ pc = "populate"
    /\ texts # <<>>
    /\ text' = Head(texts)
    /\ texts' = Tail(texts)
    /\ idx' = 0
    /\ tokens' = <<>>
    /\ pc' = "read"
    /\ UNCHANGED <<present, list, pathes, cnt, seen>>

ReadNameAgain ==                  \* mutant: the next call begins where this one did
    /\ pc = "read"
    /\ ~ Ends
    /\ \E n \in Readings :
          IF n \in Names /\ KeyOf[n] \in present
          THEN /\ AddPath(KeyOf[n], n)
               /\ seen' = seen \union {KeyOf[n]}
          ELSE UNCHANGED <<list, seen>>
    /\ idx' = StartFrom(idx)
    /\ UNCHANGED <<pc, present, texts, text, pathes, cnt, tokens>>

\* ReadListfile: a name that is found in the archive is remembered.
ReadName ==
    /\ pc = "read"
    /\ ~ Ends
    /\ \E n \in Readings :
          IF n \in Names /\ KeyOf[n] \in present
          THEN /\ AddPath(KeyOf[n], n)
               /\ seen' = seen \union {KeyOf[n]}
          ELSE UNCHANGED <<list, seen>>
    /\ tokens' = Append(tokens, Token)
    /\ idx' = NextIdx
    /\ UNCHANGED <<pc, present, texts, text, pathes, cnt>>

EndText ==
    /\ pc = "read"
    /\ Ends
    /\ idx' = size
    /\ pc' = IF texts = <<>> THEN "check" ELSE "populate"
    /\ UNCHANGED <<present, texts, text, list, pathes, cnt, tokens, seen>>

ListfileSufficient == \A k \in present : FindPath(k) # NoPath

\* "Insufficient listfile.": exit(0).
GiveUp ==
    /\ pc = "check"
    /\ ~ ListfileSufficient
    /\ pc' = "insufficient"
    /\ UNCHANGED <<present, texts, text, idx, list, pathes, cnt, tokens, seen>>

\* The loop of main over the list begins.
Fill ==
    /\ pc = "check"
    /\ ListfileSufficient
    /\ pc' = "fill"
    /\ cnt' = 0
    /\ UNCHANGED <<present, texts, text, idx, list, pathes, tokens, seen>>

QueuedAll(elem) == elem.hash # 0  \* mutant: the special files are queued as well

\* strcmp takes the case into account.
Queued(elem) == elem.hash # 0 /\ elem.path \notin {ListName, AttrName}

FillPath ==
    /\ pc = "fill"
    /\ cnt # HtSize
    /\ pathes' = IF Queued(list[cnt]) THEN Append(pathes, list[cnt].path) ELSE pathes
    /\ cnt' = cnt + 1
    /\ UNCHANGED <<pc, present, texts, text, idx, list, tokens, seen>>

InitQueue ==
    /\ pc = "fill"
    /\ cnt = HtSize
    /\ pc' = "queued"
    /\ UNCHANGED <<present, texts, text, idx, list, pathes, cnt, tokens, seen>>

Next == NextText \/ ReadName \/ EndText \/ GiveUp \/ Fill \/ FillPath \/ InitQueue

Safety == Init /\ [][Next]_vars

Spec == Safety /\ WF_vars(Next)

-----------------------------------------------------------------------------
Elems == [hash : Nat, path : Names \union {NoPath}]

\* The values of the variables; the list holds names under their own hash,
\* each hash once.
ListfileTypeOK ==
    /\ pc \in {"populate", "read", "check", "insufficient", "fill", "queued"}
    /\ present \in Archives
    /\ texts \in Seq(Texts)
    /\ text \in Texts
    /\ idx \in 0 .. size
    /\ list \in [0 .. HtSize - 1 -> Elems]
    /\ \A i \in 0 .. HtSize - 1 :
          \/ list[i] = Free
          \/ list[i].path \in Names /\ list[i].hash = KeyOf[list[i].path]
    /\ \A i, j \in 0 .. HtSize - 1 : list[i].hash = list[j].hash /\ i # j => list[i] = Free
    /\ pathes \in Seq(Names)
    /\ cnt \in 0 .. HtSize
    /\ tokens \in Seq(Nat \X Nat)
    /\ seen \subseteq present

\* The names of a text by definition: the longest runs without a delimiter.
RunsOf(t) ==
    {r \in (1 .. Len(t)) \X (1 .. Len(t)) :
        /\ r[1] <= r[2]
        /\ \A i \in r[1] .. r[2] : t[i] # Delim
        /\ r[1] = 1 \/ t[r[1] - 1] = Delim
        /\ r[2] = Len(t) \/ t[r[2] + 1] = Delim}

\* strtok_l returns the names of a text in order, none twice, none missed, and
\* the last one even without a delimiter behind it.
TokensAreWords ==
    /\ \A i \in 1 .. Len(tokens) : tokens[i] \in RunsOf(text)
    /\ \A i, j \in 1 .. Len(tokens) : i < j => tokens[i][2] < tokens[j][1]
    /\ \A r \in RunsOf(text) :
          r[2] <= idx \/ pc = "check" => \E i \in 1 .. Len(tokens) : tokens[i] = r

\* The list has room: no name that was looked up successfully is ever lost to
\* colliding hashes, so main gives up only over an entry nobody has named.
NamesRemembered ==
    /\ \A k \in seen : FindPath(k) # NoPath
    /\ pc = "insufficient" => present # seen

\* Every file of the archive is queued once, under a name of its own, but for
\* the listfile and the attributes where they are spelled in lower case.
QueueComplete ==
    pc = "queued" =>
        /\ \A k \in present :
              \/ FindPath(k) \in {ListName, AttrName}
              \/ \E i \in 1 .. Len(pathes) : KeyOf[pathes[i]] = k
        /\ \A i \in 1 .. Len(pathes) :
              KeyOf[pathes[i]] \in present /\ pathes[i] \notin {ListName, AttrName}
        /\ \A i, j \in 1 .. Len(pathes) : i # j => KeyOf[pathes[i]] # KeyOf[pathes[j]]

Slots == 0 .. HtSize - 1

\* strtok_l is between two names, or at the end.
TokensInv ==
    /\ TokensAreWords
    /\ idx = 0 \/ idx = size \/ text[idx] = Delim
    /\ \A i \in 1 .. Len(tokens) : tokens[i][2] <= idx
    /\ pc \notin {"populate", "read"} => idx = size

\* The probe for the hash in slot i comes by it after d slots in use.
ChainAt(i, d) ==
    /\ ((list[i].hash % HtSize) + d) % HtSize = i
    /\ \A e \in 0 .. d - 1 : Elem(list[i].hash, e) # Free

\* The list holds the names that were looked up, and no others, where a probe
\* finds them before it finds a free element.
ListInv ==
    /\ \A i \in Slots : list[i] = Free \/ \E d \in Slots : ChainAt(i, d)
    /\ \A i \in Slots : list[i] = Free \/ list[i].hash \in seen
    /\ \A k \in seen : \E i \in Slots : list[i].hash = k
    /\ pc = "insufficient" => \E k \in present : k \notin seen
    /\ pc \in {"fill", "queued"} => present \subseteq seen

\* The queue holds what the first cnt slots of the list hold.
PathesInv ==
    /\ pc \notin {"fill", "queued"} => pathes = <<>>
    /\ pc = "queued" => cnt = HtSize
    /\ pc \in {"fill", "queued"} =>
          /\ \A i \in 0 .. cnt - 1 : Queued(list[i]) =>
                \E j \in 1 .. Len(pathes) : pathes[j] = list[i].path
          /\ \A j \in 1 .. Len(pathes) : \E i \in 0 .. cnt - 1 :
                Queued(list[i]) /\ pathes[j] = list[i].path
          /\ \A i, j \in 1 .. Len(pathes) : i # j => KeyOf[pathes[i]] # KeyOf[pathes[j]]

\* The inductive invariant behind the properties above.
ListfileInv == ListfileTypeOK /\ TokensInv /\ ListInv /\ PathesInv

\* Reading the texts ends, with a queue or with the complaint.
Decides == <>(pc \in {"queued", "insufficient"})
=============================================================================
