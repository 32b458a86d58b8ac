------------------------------- MODULE LogTail -------------------------------
(***************************************************************************)
(* The watcher of one session log (internal/watcher/watcher.go) and the    *)
(* goroutines that wait in its WatchOnce.  The agent appends records, one  *)
(* JSON line each; the watcher is told of writes by fsnotify, reads from   *)
(* its offset to the end of the file and remembers where it came to.  The  *)
(* offset has no lock: two goroutines on one watcher (the liveness check   *)
(* and a wait for the log may both have started one) share it.             *)
(***************************************************************************)
EXTENDS Naturals, Sequences, FiniteSets, SequencesExt

CONSTANTS
    Readers,        \* goroutines that call WatchOnce
    Records,        \* 1..n, in the order of writing
    Halves,         \* may one record reach the file in two writes?
    Huge            \* records beyond the scanner's 1 MB

TailAssumption ==
    /\ Records = 1..Cardinality(Records)
    /\ Huge \subseteq Records
    /\ Halves \in BOOLEAN

VARIABLES
    file,       \* the pieces in the file: the body of a record, its end with the newline
    created,    \* "new", "sized", "ready", "stopped": New, then Stop
    offset,     \* Watcher.offset, in pieces
    start,      \* history: the offset New begins with, and the end of the file
                \* when the watch was added
    told,       \* write events fsnotify has for the watcher
    at,         \* at[r]: "waiting", "opened", "read", "handing", "failed", "done"
    from, to,   \* where the open file of reader r stands, before and after
    batch,      \* the events r has parsed
    got         \* got[r]: what the handlers were given by r, in order

writerVars == <<file, told>>
readerVars == <<at, from, to, batch, got>>
vars == <<writerVars, created, offset, start, readerVars>>

Body(n) == [record |-> n, ends |-> FALSE]
End(n) == [record |-> n, ends |-> TRUE]
Written == {n \in Records : \E p \in DOMAIN file : file[p] = End(n)}
Begun == {n \in Records : \E p \in DOMAIN file : file[p] = Body(n)}

Init ==
    /\ file = <<>> /\ told = 0
    /\ created = "new" /\ offset = 0 /\ start = [offset |-> 0, added |-> 0]
    /\ at = [r \in Readers |-> "waiting"]
    /\ from = [r \in Readers |-> 0] /\ to = [r \in Readers |-> 0]
    /\ batch = [r \in Readers |-> <<>>] /\ got = [r \in Readers |-> <<>>]

-----------------------------------------------------------------------------
(* The agent *)

\* A write to a watched file is told; equal events in succession may be one.
Tell ==
    told' \in IF created # "ready" THEN {told}
              ELSE IF told > 0 THEN {told, told + 1} ELSE {1}

WriteRecord(n) ==
    /\ n = Cardinality(Written) + 1 /\ Begun = Written
    /\ file' = file \o <<Body(n), End(n)>>
    /\ Tell
    /\ UNCHANGED <<created, offset, start, readerVars>>

WriteHalf(n) ==
    /\ Halves
    /\ n = Cardinality(Written) + 1
    /\ file' = Append(file, IF n \in Begun THEN End(n) ELSE Body(n))
    /\ Tell
    /\ UNCHANGED <<created, offset, start, readerVars>>

-----------------------------------------------------------------------------
(* New and Stop *)

\* New asks for the size of the file, ...
Size ==
    /\ created = "new"
    /\ created' = "sized"
    /\ offset' = Len(file) /\ start' = [start EXCEPT !.offset = Len(file)]
    /\ UNCHANGED <<writerVars, readerVars>>

\* ... and then adds it to the file watcher.
AddWatch ==
    /\ created = "sized"
    /\ created' = "ready"
    /\ start' = [start EXCEPT !.added = Len(file)]
    /\ UNCHANGED <<writerVars, offset, readerVars>>

\* done is closed, and the events of fsnotify end.
Stop ==
    /\ created = "ready"
    /\ created' = "stopped"
    /\ told' = 0
    /\ UNCHANGED <<file, offset, start, readerVars>>

-----------------------------------------------------------------------------
(* WatchOnce and readNewLines *)

\* A write event: the file is opened and the reader seeks to the offset.
WakeUp(r) ==
    /\ created = "ready" /\ at[r] = "waiting" /\ told > 0
    /\ told' = told - 1
    /\ at' = [at EXCEPT ![r] = "opened"]
    /\ from' = [from EXCEPT ![r] = offset]
    /\ UNCHANGED <<file, created, offset, start, to, batch, got>>

\* The lines between two places: a record counts when the place it is read from is
\* not within it and its JSON is whole, whether its newline is there or not.
Lines(i, j) ==
    SelectSeq([n \in 1..Cardinality(Records) |-> n],
              LAMBDA n : \E p \in (i + 1)..j : file[p] = Body(n)
                         /\ p + 1 \in (i + 1)..j /\ file[p + 1] = End(n))
\* The scanner stops at a line that is too long.
Fits(lines) == SelectInSeq(lines, LAMBDA n : n \in Huge) = 0

\* To the end of the file; what the parser refuses is skipped.
ReadLines(r) ==
    /\ at[r] = "opened"
    /\ to' = [to EXCEPT ![r] = Len(file)]
    /\ batch' = [batch EXCEPT ![r] = Lines(from[r], Len(file))]
    /\ at' = [at EXCEPT ![r] = "read"]
    /\ UNCHANGED <<writerVars, created, offset, start, from, got>>

\* Bug for comparison: the offset is set to the size the file has now.
KeepSize(r) ==
    /\ at[r] = "read"
    /\ offset' = Len(file)
    /\ at' = [at EXCEPT ![r] = IF ~Fits(batch[r]) THEN "failed"
                               ELSE IF batch[r] = <<>> THEN "waiting" ELSE "handing"]
    /\ UNCHANGED <<writerVars, created, start, from, to, batch, got>>
\* Bug for comparison: the reader waits on with the events in hand.
KeepBatch(r) ==
    /\ at[r] = "read"
    /\ offset' = to[r]
    /\ at' = [at EXCEPT ![r] = "waiting"]
    /\ UNCHANGED <<writerVars, created, start, from, to, batch, got>>
\* Bug for comparison: the offset is not moved on.
KeepOffset(r) ==
    /\ at[r] = "read"
    /\ at' = [at EXCEPT ![r] = IF batch[r] = <<>> THEN "waiting" ELSE "handing"]
    /\ UNCHANGED <<writerVars, created, offset, start, from, to, batch, got>>
\* The offset is where the file stands now.  Without events WatchOnce waits on; an
\* error of the scanner drops them and ends the watch (WatcherErrorMsg).
SetOffset(r) ==
    /\ at[r] = "read"
    /\ offset' = to[r]
    /\ at' = [at EXCEPT ![r] = IF ~Fits(batch[r]) THEN "failed"
                               ELSE IF batch[r] = <<>> THEN "waiting" ELSE "handing"]
    /\ UNCHANGED <<writerVars, created, start, from, to, batch, got>>

\* The events go to handleAgentEvent, which calls WatchOnce again.
Hand(r) ==
    /\ at[r] = "handing"
    /\ got' = [got EXCEPT ![r] = @ \o batch[r]]
    /\ batch' = [batch EXCEPT ![r] = <<>>]
    /\ at' = [at EXCEPT ![r] = "waiting"]
    /\ UNCHANGED <<writerVars, created, offset, start, from, to>>

\* Bug for comparison: the reader learns of Stop with the next write only.
WatchEndsTold(r) ==
    /\ created = "stopped" /\ at[r] = "waiting" /\ told > 0
    /\ at' = [at EXCEPT ![r] = "done"]
    /\ UNCHANGED <<writerVars, created, offset, start, from, to, batch, got>>
WatchEnds(r) ==
    /\ created = "stopped" /\ at[r] = "waiting"
    /\ at' = [at EXCEPT ![r] = "done"]
    /\ UNCHANGED <<writerVars, created, offset, start, from, to, batch, got>>

ReaderStep(r) == WakeUp(r) \/ ReadLines(r) \/ SetOffset(r) \/ Hand(r) \/ WatchEnds(r)

Next ==
    \/ \E n \in Records : WriteRecord(n) \/ WriteHalf(n)
    \/ Size \/ AddWatch \/ Stop
    \/ \E r \in Readers : ReaderStep(r)

Spec == Init /\ [][Next]_vars
\* Goroutines that can go on do; the agent and Stop promise nothing.
FairSpec == Spec /\ WF_vars(AddWatch) /\ \A r \in Readers : WF_vars(ReaderStep(r))

-----------------------------------------------------------------------------
(* Properties *)

\* The kinds of the variables: no reader waits with events, and no offset is beyond
\* the file.
TailTypeOK ==
    /\ file \in Seq({Body(n) : n \in Records} \cup {End(n) : n \in Records})
    /\ created \in {"new", "sized", "ready", "stopped"}
    /\ offset \in 0..Len(file) /\ told \in 0..Len(file)
    /\ start \in [offset : 0..Len(file), added : 0..Len(file)]
    /\ at \in [Readers -> {"waiting", "opened", "read", "handing", "failed", "done"}]
    /\ \A r \in Readers :
          /\ from[r] \in 0..Len(file) /\ to[r] \in 0..Len(file)
          /\ batch[r] \in Seq(Records) /\ got[r] \in Seq(Records)
          /\ at[r] \in {"waiting", "done"} => batch[r] = <<>>

HandedTo(n) == {r \in Readers : n \in ToSet(got[r])}
NewRecords == {n \in Written : \E p \in (start.offset + 1)..Len(file) : file[p] = Body(n)}

\* One goroutine on the log: what the handlers see is new, in the order of the file
\* and never seen twice, however the writes fall between open, read and the offset.
ReportedInOrder ==
    \A r \in Readers :
        /\ ToSet(got[r]) \subseteq NewRecords
        /\ \A i, j \in DOMAIN got[r] : i < j => got[r][i] < got[r][j]

\* No record is lost between the reads: once every write is worked off, each record
\* written since New took the size of the file was handed to somebody, also with two
\* goroutines that set the offset one behind the other.  A record written between
\* the size and the watch waits for the next write, therefore "added".
NothingLost ==
    (created = "ready" /\ told = 0 /\ Len(file) > start.added
     /\ \A r \in Readers : at[r] = "waiting")
    => \A n \in NewRecords : HandedTo(n) # {}

\* The same as a promise to the one who looks at the screen: a record written while
\* the watch is on is handed to a handler, unless the watch is stopped.
EveryRecordIsHanded ==
    \A n \in Records :
        (n \in NewRecords /\ created = "ready" /\ Len(file) > start.added)
            ~> (HandedTo(n) # {} \/ created = "stopped")

\* After Stop no goroutine is left in WatchOnce, wherever it was.
StopEnds ==
    \A r \in Readers : created = "stopped" ~> at[r] \in {"done", "failed"}

=============================================================================
