------------------------------ MODULE LogTail -------------------------------
(***************************************************************************)
(* How the agent follows nginx's access log: logTail in                    *)
(* src/internal/collectors/nginx/accesslog.go, with the file system, nginx *)
(* and logrotate around it.                                                *)
(*                                                                         *)
(* A file is the sequence of pieces written to it; offsets and sizes count *)
(* pieces instead of bytes.  A piece has the position at which it was      *)
(* written in the whole history of the log and says whether it ends a      *)
(* line.  A line is written as one piece or as several, between which the  *)
(* reader may come.  The reader's system calls are separate steps.         *)
(***************************************************************************)
EXTENDS Integers, Sequences

CONSTANTS
    MaxBytesPerTick,    \* catch-up window of one tick
    MaxLineBytes,       \* longest unfinished line that is kept
    MaxPieces,          \* bound: pieces nginx writes
    MaxFiles,           \* bound: files that bear the log's name over time
    MaxTruncations,     \* bound: copytruncate runs
    MaxRestarts,        \* bound: restarts of the agent
    MaxFaults           \* bound: system calls that fail for no lasting reason

ASSUME BoundsAssumption ==
    /\ MaxBytesPerTick \in Nat \ {0}
    /\ MaxLineBytes \in Nat
    /\ MaxPieces \in Nat /\ MaxFiles \in Nat \ {0}
    /\ MaxTruncations \in Nat /\ MaxRestarts \in Nat /\ MaxFaults \in Nat

None == 0               \* no file; also logTail.inode before the first open
Files == 1..MaxFiles

VARIABLES
    \* the file system, nginx and logrotate
    content,    \* content[f]: the pieces in file f
    gen,        \* gen[f]: how often f was truncated
    path,       \* the file that bears the log's name, or None
    writer,     \* the file nginx has open
    written,    \* pieces written so far
    midLine,    \* nginx has written part of a line
    restarts, faults,
    \* the agent: where readNewLines is, and the fields of logTail
    pc, file, inode, offset, partial,
    \* history
    reported,   \* every piece handed to Collect inside a line
    from,       \* the offset at which the current stretch began
    mark,       \* Len(reported) at that point
    readGen     \* gen[file] at that point

log == <<content, gen, path, writer, written, midLine>>
tail == <<file, inode, offset, partial>>
history == <<reported, from, mark, readGen>>
vars == <<log, restarts, faults, pc, tail, history>>

Piece == [at : 1..MaxPieces, ends : BOOLEAN]
Size(f) == Len(content[f])
Fresh == {f \in Files : f > writer /\ f > path}

TypeOK ==
    /\ content \in [Files -> Seq(Piece)]
    /\ gen \in [Files -> 0..MaxTruncations]
    /\ path \in Files \cup {None}
    /\ writer \in Files
    /\ written \in 0..MaxPieces
    /\ midLine \in BOOLEAN
    /\ restarts \in 0..MaxRestarts
    /\ faults \in 0..MaxFaults
    /\ pc \in {"idle", "open", "measure", "read"}
    /\ file \in Files \cup {None}
    /\ inode \in Files \cup {None}
    /\ offset \in Nat
    /\ partial \in Seq(Piece)
    /\ reported \in Seq(Piece)
    /\ from \in Nat
    /\ mark \in 0..Len(reported)
    /\ readGen \in 0..MaxTruncations

Init ==
    /\ content = [f \in Files |-> <<>>]
    /\ gen = [f \in Files |-> 0]
    /\ path = 1
    /\ writer = 1
    /\ written = 0
    /\ midLine = FALSE
    /\ restarts = 0
    /\ faults = 0
    /\ pc = "idle"
    /\ file = None
    /\ inode = None
    /\ offset = 0
    /\ partial = <<>>
    /\ reported = <<>>
    /\ from = 0
    /\ mark = 0
    /\ readGen = 0
-----------------------------------------------------------------------------
(* nginx and logrotate.  A line is not torn apart by a rename, a reopen or *)
(* a truncation.                                                           *)
Write(ends) ==
    /\ written < MaxPieces
    /\ written' = written + 1
    /\ content' = [content EXCEPT ![writer] =
                      Append(@, [at |-> written + 1, ends |-> ends])]
    /\ midLine' = ~ends
    /\ UNCHANGED <<gen, path, writer, restarts, faults, pc, tail, history>>

(* logrotate renames the log; nginx goes on writing to it. *)
Rename ==
    /\ path # None
    /\ Fresh # {}
    /\ ~midLine
    /\ path' = None
    /\ UNCHANGED <<content, gen, writer, written, midLine, restarts, faults,
                   pc, tail, history>>

(* logrotate creates the new log before it signals nginx. *)
Create ==
    /\ path = None
    /\ \E f \in Fresh : path' = f
    /\ UNCHANGED <<content, gen, writer, written, midLine, restarts, faults,
                   pc, tail, history>>

(* nginx reopens its log. *)
Reopen ==
    /\ path # None
    /\ path # writer
    /\ ~midLine
    /\ writer' = path
    /\ UNCHANGED <<content, gen, path, written, midLine, restarts, faults,
                   pc, tail, history>>

(* copytruncate; nginx appends, so it goes on at the new end. *)
Truncate ==
    /\ path # None
    /\ content[path] # <<>>
    /\ gen[path] < MaxTruncations
    /\ ~midLine
    /\ content' = [content EXCEPT ![path] = <<>>]
    /\ gen' = [gen EXCEPT ![path] = @ + 1]
    /\ UNCHANGED <<path, writer, written, midLine, restarts, faults,
                   pc, tail, history>>
-----------------------------------------------------------------------------
(* The agent process dies and starts again with a new logTail. *)
Restart ==
    /\ restarts < MaxRestarts
    /\ restarts' = restarts + 1
    /\ pc' = "idle"
    /\ file' = None
    /\ inode' = None
    /\ offset' = 0
    /\ partial' = <<>>
    /\ UNCHANGED <<log, faults, history>>

(* A stretch begins: from here on every piece has to be accounted for. *)
Stretch(f, at) ==
    /\ from' = at
    /\ mark' = Len(reported)
    /\ readGen' = gen[f]

Fault ==
    /\ faults < MaxFaults
    /\ faults' = faults + 1

(* Mutant: identity is the path, not the inode. *)
CheckByName ==
    /\ pc = "idle"
    /\ \/ /\ file # None /\ path # None
          /\ pc' = "measure"
          /\ UNCHANGED <<faults, file>>
       \/ /\ file = None \/ path = None
          /\ file' = None
          /\ pc' = "open"
          /\ UNCHANGED faults
    /\ UNCHANGED <<log, restarts, inode, offset, partial, history>>

(* A tick.  ensureOpen keeps the file it has if the path still leads to    *)
(* it, and closes it if not, or if os.Stat of the path fails.              *)
Check ==
    /\ pc = "idle"
    /\ \/ /\ file # None /\ path = file
          /\ pc' = "measure"
          /\ UNCHANGED <<faults, file>>
       \/ /\ file = None \/ path # file
          /\ file' = None
          /\ pc' = "open"
          /\ UNCHANGED faults
       \/ /\ file # None /\ path = file
          /\ Fault
          /\ file' = None
          /\ pc' = "open"
    /\ UNCHANGED <<log, restarts, inode, offset, partial, history>>

(* Mutant: the first open reads from the start, as a reopening does. *)
OpenFromStart ==
    /\ pc = "open"
    /\ path # None
    /\ file' = path
    /\ inode' = path
    /\ partial' = <<>>
    /\ offset' = 0
    /\ Stretch(path, 0)
    /\ pc' = "measure"
    /\ UNCHANGED <<log, restarts, faults, reported>>

(* The rest of ensureOpen.  The first open starts at the end of the file,  *)
(* every other one at its start.                                           *)
Open ==
    /\ pc = "open"
    /\ path # None
    /\ file' = path
    /\ inode' = path
    /\ partial' = <<>>
    /\ offset' = IF inode = None THEN Size(path) ELSE 0
    /\ Stretch(path, offset')
    /\ pc' = "measure"
    /\ UNCHANGED <<log, restarts, faults, reported>>

(* os.Open fails: there is no such file now, or for another reason. *)
OpenFails ==
    /\ pc = "open"
    /\ \/ path = None /\ UNCHANGED faults
       \/ path # None /\ Fault
    /\ pc' = "idle"
    /\ UNCHANGED <<log, restarts, tail, history>>

(* Mutant: the window is taken from the end of every file. *)
MeasureAlwaysSkips ==
    /\ pc = "measure"
    /\ offset' = Size(file) - MaxBytesPerTick
    /\ partial' = <<>>
    /\ Stretch(file, offset')
    /\ pc' = "read"
    /\ UNCHANGED <<log, restarts, faults, file, inode, reported>>

(* readNewLines looks at the size: a file that shrank is read from its     *)
(* start, one that did not grow not at all, and of one that grew beyond    *)
(* the window only the window is read.                                     *)
Measure ==
    /\ pc = "measure"
    /\ LET size == Size(file)
           shrank == size < offset
           start == IF shrank THEN 0 ELSE offset
           far == size - start > MaxBytesPerTick
       IN  /\ offset' = IF far THEN size - MaxBytesPerTick ELSE start
           /\ IF shrank \/ far
              THEN partial' = <<>> /\ Stretch(file, offset')
              ELSE UNCHANGED <<partial, from, mark, readGen>>
           /\ pc' = IF size = start THEN "idle" ELSE "read"
    /\ UNCHANGED <<log, restarts, faults, file, inode, reported>>

(* file.Stat or file.Seek fails and the file is closed. *)
MeasureFails ==
    /\ pc = "measure"
    /\ Fault
    /\ file' = None
    /\ pc' = "idle"
    /\ UNCHANGED <<log, restarts, inode, offset, partial, history>>

(* The complete lines of text are its first last pieces. *)
SplitsAt(text, last) ==
    /\ last > 0 => text[last].ends
    /\ \A i \in (last + 1)..Len(text) : ~text[i].ends

Rest(s, n) == SubSeq(s, n + 1, Len(s))

(* Mutant: the unfinished line is forgotten between two ticks. *)
ReadForgetful ==
    /\ pc = "read"
    /\ LET chunk == Rest(content[file], offset)
       IN  /\ \E last \in 0..Len(chunk) :
                 /\ SplitsAt(chunk, last)
                 /\ reported' = reported \o SubSeq(chunk, 1, last)
           /\ partial' = <<>>
           /\ offset' = offset + Len(chunk)
    /\ pc' = "idle"
    /\ UNCHANGED <<log, restarts, faults, file, inode, from, mark, readGen>>

(* The rest of readNewLines: everything there is by now, in lines; what    *)
(* follows the last line's end is kept for the next tick unless it is too  *)
(* long.                                                                   *)
Read ==
    /\ pc = "read"
    /\ LET chunk == Rest(content[file], offset)
           text == partial \o chunk
       IN  /\ offset' = offset + Len(chunk)
           /\ \E last \in 0..Len(text) :
                 /\ SplitsAt(text, last)
                 /\ reported' = reported \o SubSeq(text, 1, last)
                 /\ IF Len(text) - last > MaxLineBytes
                    THEN /\ partial' = <<>>
                         /\ from' = offset'
                         /\ mark' = Len(reported')
                    ELSE /\ partial' = Rest(text, last)
                         /\ UNCHANGED <<from, mark>>
    /\ pc' = "idle"
    /\ UNCHANGED <<log, restarts, faults, file, inode, readGen>>

Reader == Check \/ Open \/ OpenFails \/ Measure \/ MeasureFails \/ Read

Next ==
    \/ \E ends \in BOOLEAN : Write(ends)
    \/ Rename \/ Create \/ Reopen \/ Truncate
    \/ Restart
    \/ Reader

(* Only the agent is scheduled; whatever happens to the log may happen. *)
Spec == Init /\ [][Next]_vars /\ WF_vars(Reader)
-----------------------------------------------------------------------------
(* Within a stretch the lines handed over and the unfinished line kept are *)
(* exactly what the file holds from the start of the stretch up to the     *)
(* offset: no gap, no repetition, no line cut or joined, whenever nginx    *)
(* wrote between the reader's calls and whatever failed                    *)
(* (accesslog.go:397-417).  A truncation the reader has not seen ends the  *)
(* claim.                                                                  *)
ByteExact ==
    file # None /\ readGen = gen[file] =>
        SubSeq(content[file], from + 1, offset) =
            Rest(reported, mark) \o partial

(* Nothing is reported twice or out of the order in which it was written,  *)
(* across rotations, truncations and restarts of the agent, as long as no  *)
(* system call fails for no lasting reason (accesslog.go:422-453).         *)
InOrderOnce ==
    faults = 0 =>
        \A i, j \in DOMAIN reported : i < j => reported[i].at < reported[j].at

(* Once the log keeps its name, the reader comes to hold the file of that  *)
(* name and to have read it to its end, whatever rotations, truncations    *)
(* and failures came before (accesslog.go:368-454).                        *)
CatchesUp ==
    <>[](path # None) => <>[](file # None /\ file = path /\ offset = Size(file))

(* "NginxLogEvery drains whatever the access log gained since the last     *)
(* tick" (settings.go:21-22): the reader leaves a file only after it has   *)
(* read the lines in it.                                                   *)
DrainsBeforeLeaving ==
    [][inode # None /\ inode' \notin {None, inode} =>
          \A i \in DOMAIN content[inode] : content[inode][i].ends => i <= offset]_vars

(* "A rotated file is read from its start: it is the new, nearly empty     *)
(* one" (accesslog.go:450): what is read from its start has not been       *)
(* reported before.                                                        *)
NoReplay ==
    \A i, j \in DOMAIN reported : reported[i] = reported[j] => i = j
=============================================================================
