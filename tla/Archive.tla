------------------------------ MODULE Archive ------------------------------
(***************************************************************************)
(* What compressmpq promises of its output file, whatever the number of    *)
(* worker threads: for a reader that looks names up in it the archive is   *)
(* either not there yet or complete.  It appears in one step, in which     *)
(* every name resolves to the data of a file queued under that name: no    *)
(* file is left out because it could not be read.  The program may give up *)
(* instead, without having published anything, but only over such a file.  *)
(* Only of an input that is sound the data are promised to be intact: one  *)
(* whose encrypted listfile is known by another spelling of its name may   *)
(* give garbled data, or no archive.                                       *)
(***************************************************************************)
CONSTANTS
    Names,        \* every name a reader may look up
    Files,        \* the files of the input archive
    Denotes(_, _),\* Denotes(n, f): the format takes n for the name of file f
    Corrupt,      \* the files whose extraction may fail
    Unpublished   \* the view of a reader who finds no archive

VARIABLES
    sound,        \* no encrypted listfile goes by another spelling
    view,         \* name -> what a reader finds: {} or {data}, or Unpublished
    outcome       \* "working", "returned" (status 0), "exited" (status 1)
                  \* or "killed"

archiveVars == <<sound, view, outcome>>

Init == sound \in BOOLEAN /\ view = Unpublished /\ outcome = "working"

\* What a complete archive may answer for the name n.
Answers(n) ==
    LET named == {f \in Files : Denotes(n, f)}
    IN  IF named = {}
        THEN {{}}
        ELSE {{d} : d \in [file : named, intact : IF sound THEN {TRUE} ELSE BOOLEAN]}

Publish ==
    /\ view = Unpublished
    /\ outcome = "working"
    /\ view' \in [Names -> UNION {Answers(n) : n \in Names}]
    /\ \A n \in Names : view'[n] \in Answers(n)
    /\ UNCHANGED <<sound, outcome>>

Return ==
    /\ view # Unpublished
    /\ outcome = "working"
    /\ outcome' = "returned"
    /\ UNCHANGED <<sound, view>>

GiveUp ==
    /\ view = Unpublished
    /\ outcome = "working"
    /\ Corrupt # {} \/ ~ sound
    /\ outcome' = "exited"
    /\ UNCHANGED <<sound, view>>

Crash ==
    /\ view = Unpublished
    /\ outcome = "working"
    /\ ~ sound
    /\ outcome' = "killed"
    /\ UNCHANGED <<sound, view>>

Next == Publish \/ Return \/ GiveUp \/ Crash

Safety == Init /\ [][Next]_archiveVars

Spec == Safety /\ WF_archiveVars(Next)
=============================================================================
