------------------------------ MODULE LogArchive ----------------------------
(***************************************************************************)
(* The body archives (logarchive/archive.go).  A request or response body  *)
(* is a capture: the handler's goroutine queues its bytes without waiting, *)
(* the capture's own goroutine compresses them into a temporary file,      *)
(* renames it and settles the metadata row.  Instances bound the bytes     *)
(* queued and stored; rows and files expire; a restart cleans up.          *)
(*                                                                         *)
(* Bytes are counted in chunks: the queue holds chunks, and a chunk adds   *)
(* at most one unit to the file, closing it one more.                      *)
(***************************************************************************)
EXTENDS Naturals, FiniteSets, Collections

CONSTANTS
  Instances,    \* processes that use the directory
  Captures,     \* captures that may be begun
  MaxBody,      \* maxBody: chunks taken of one body
  MaxTotal,     \* maxTotal: units stored
  BufferLimit,  \* bufferLimit: chunks queued by all captures of an instance
  ChanCap,      \* capacity of a capture's channel
  MaxReceived,  \* bound: chunks of a body
  MaxCrashes    \* bound: stops of an instance

ASSUME ArchiveAssumption ==
  /\ {MaxBody, MaxTotal, BufferLimit, ChanCap, MaxReceived, MaxCrashes} \subseteq Nat
  /\ IsFiniteSet(Captures) /\ "none" \notin Instances

VARIABLES
  inst,     \* instances: running, bytes buffered, bytes used, stops
  cap,      \* captures
  row,      \* LogBody metadata
  file,     \* files of the directory, by capture
  aged,     \* captures older than the retention
  purging   \* what the purge of an instance is at

vars == <<inst, cap, row, file, aged, purging>>

None == [kind |-> "none", size |-> 0]
NoRow == [st |-> "none", saved |-> 0, received |-> 0]
Fresh == [st |-> "none", owner |-> "none", received |-> 0, accepted |-> 0, saved |-> 0,
          reason |-> "none", complete |-> FALSE, closed |-> FALSE, todo |-> 0,
          reserved |-> FALSE, queued |-> 0, err |-> FALSE, qw |-> FALSE, written |-> 0]

Init ==
  /\ inst \in [Instances -> [up: BOOLEAN, buffered: {0}, used: {0}, crashes: {0}]]
  /\ cap = [c \in Captures |-> Fresh]
  /\ row = [c \in Captures |-> NoRow]
  /\ file = [c \in Captures |-> None]
  /\ aged = {} /\ purging = [i \in Instances |-> "idle"]

Stored(files, kinds) ==
  SumOver([c \in Captures |-> IF files[c].kind \in kinds THEN files[c].size ELSE 0], Captures)
-----------------------------------------------------------------------------
Swept(files) == [c \in Captures |-> IF files[c].kind = "tmp" THEN None ELSE files[c]]

\* New: temporary files go, the others are counted, open rows are interrupted.
New(i) ==
  /\ ~inst[i].up
  /\ file' = Swept(file)
  /\ inst' = [inst EXCEPT ![i].up = TRUE, ![i].used = Stored(file', {"gz"}), ![i].buffered = 0]
  /\ row' = [c \in Captures |-> IF row[c].st = "saving" THEN [row[c] EXCEPT !.st = "error"]
                                ELSE row[c]]
  /\ UNCHANGED <<cap, aged, purging>>

\* The process stops; its goroutines and counters are gone.
Crash(i) ==
  /\ inst[i].up /\ inst[i].crashes < MaxCrashes
  /\ inst' = [inst EXCEPT ![i].up = FALSE, ![i].crashes = @ + 1]
  /\ cap' = [c \in Captures |-> IF cap[c].owner = i
                                THEN [Fresh EXCEPT !.st = "lost"] ELSE cap[c]]
  /\ purging' = [purging EXCEPT ![i] = "idle"]
  /\ UNCHANGED <<row, file, aged>>

Begin(i, c) ==
  /\ inst[i].up /\ cap[c].st = "none"
  /\ cap' = [cap EXCEPT ![c].st = "new", ![c].owner = i]
  /\ UNCHANGED <<inst, row, file, aged, purging>>
-----------------------------------------------------------------------------
Running(c) == cap[c].st \in {"new", "open", "drain", "settle"}

(* Write takes the capture's mutex until it has queued or refused its      *)
(* bytes; meanwhile the other goroutine may consume them.                  *)
Write(c, n) ==
  /\ Running(c) /\ ~cap[c].closed /\ cap[c].todo = 0
  /\ cap[c].received + n <= MaxReceived
  /\ cap' = [cap EXCEPT ![c].received = @ + n, ![c].todo = n]
  /\ UNCHANGED <<inst, row, file, aged, purging>>

Refuse(c, why) == [cap EXCEPT ![c].todo = 0, ![c].reserved = FALSE, ![c].reason = why]

Room(c) == cap[c].accepted < MaxBody

\* A chunk is accepted if the body and the instance's buffer have room ...
reserve(c) ==
  /\ Running(c) /\ cap[c].todo > 0 /\ ~cap[c].reserved
  /\ LET i == cap[c].owner
     IN  IF cap[c].reason # "none" THEN cap' = Refuse(c, cap[c].reason) /\ UNCHANGED inst
         ELSE IF ~Room(c)
         THEN cap' = Refuse(c, "size_limit") /\ UNCHANGED inst
         ELSE IF inst[i].buffered + 1 > BufferLimit
         THEN cap' = Refuse(c, "queue_full") /\ UNCHANGED inst
         ELSE /\ cap' = [cap EXCEPT ![c].reserved = TRUE]
              /\ inst' = [inst EXCEPT ![i].buffered = @ + 1]
  /\ UNCHANGED <<row, file, aged, purging>>

Returned(n) == n - 1

\* ... and the channel has.
send(c) ==
  /\ Running(c) /\ cap[c].reserved
  /\ IF cap[c].queued < ChanCap
     THEN /\ cap' = [cap EXCEPT ![c].reserved = FALSE, ![c].queued = @ + 1,
                                ![c].accepted = @ + 1, ![c].todo = @ - 1]
          /\ UNCHANGED inst
     ELSE /\ cap' = Refuse(c, "queue_full")
          /\ inst' = [inst EXCEPT ![cap[c].owner].buffered = Returned(@)]
  /\ UNCHANGED <<row, file, aged, purging>>

Ends == {[complete |-> TRUE, reason |-> "none"],
         [complete |-> FALSE, reason |-> "stream_interrupted"],
         [complete |-> FALSE, reason |-> "binary_omitted"]}

\* Mutant: the end of the body hides what was refused of it.
Reason_Of_End(old, end) == end

\* The first reason stays.
Reason(old, end) == IF old = "none" THEN end ELSE old

\* Finish; of an omitted body the length it really had is set first.
Finish(c, end) ==
  /\ Running(c) /\ ~cap[c].closed /\ cap[c].todo = 0
  /\ cap' = [cap EXCEPT ![c].closed = TRUE, ![c].complete = end.complete,
               ![c].reason = Reason(@, end.reason),
               ![c].received = IF end.reason = "binary_omitted" THEN MaxReceived ELSE @]
  /\ UNCHANGED <<inst, row, file, aged, purging>>
-----------------------------------------------------------------------------
\* run's goroutine; fail waits for a Write that holds the mutex.
Failed(c, why) ==
  [cap[c] EXCEPT !.err = TRUE, !.reason = IF cap[c].reason = "none" THEN why ELSE cap[c].reason]

create(c, stored, known) ==
  /\ cap[c].st = "new" /\ (known => stored) /\ (known \/ cap[c].todo = 0)
  /\ row' = IF stored THEN [row EXCEPT ![c].st = "saving"] ELSE row
  /\ cap' = [cap EXCEPT ![c] = [(IF known THEN cap[c] ELSE Failed(c, "metadata_write_failed"))
                                EXCEPT !.st = "open"]]
  /\ UNCHANGED <<inst, file, aged, purging>>

open(c, ok) ==
  /\ cap[c].st = "open"
  /\ IF cap[c].err THEN cap' = [cap EXCEPT ![c].st = "drain"] /\ UNCHANGED file
     ELSE IF ok
     THEN /\ file' = [file EXCEPT ![c] = [kind |-> "tmp", size |-> 0]]
          /\ cap' = [cap EXCEPT ![c].st = "drain", ![c].qw = TRUE]
     ELSE /\ cap[c].todo = 0 /\ UNCHANGED file
          /\ cap' = [cap EXCEPT ![c] = [Failed(c, "storage_error") EXCEPT !.st = "drain"]]
  /\ UNCHANGED <<inst, row, aged, purging>>

Fits(i, n) == inst[i].used + n <= MaxTotal

(* quotaWriter: n units reach the file if they fit and the disk takes      *)
(* them.  A file removed under its writer still takes bytes.               *)
Grown(c, n) == IF file[c].kind = "tmp" THEN [file EXCEPT ![c].size = @ + n] ELSE file

\* A chunk leaves the queue; n units of what the compressor holds are written.
drain(c, n, ok) ==
  /\ cap[c].st = "drain" /\ cap[c].queued > 0
  /\ LET i == cap[c].owner
         good == ~cap[c].err /\ ok /\ Fits(i, n)
     IN  /\ (~cap[c].err /\ ~good) => cap[c].todo = 0
         /\ cap' = [cap EXCEPT ![c] =
              [(IF good THEN [cap[c] EXCEPT !.saved = @ + 1, !.written = @ + n]
                ELSE IF cap[c].err THEN cap[c] ELSE Failed(c, "storage_or_quota_error"))
               EXCEPT !.queued = @ - 1]]
         /\ file' = IF good THEN Grown(c, n) ELSE file
         /\ inst' = [inst EXCEPT ![i].buffered = @ - 1,
                                 ![i].used = IF good THEN @ + n ELSE @]
  /\ UNCHANGED <<row, aged, purging>>

\* Mutant: what a failed capture wrote stays counted.
GivenBack_Not(used, written) == used

GivenBack(used, written) == used - written

(* The channel is closed and empty: the compressor writes its rest, the    *)
(* file is renamed.  After any error it is removed and given back.  A file *)
(* that is no longer there cannot be renamed.                              *)
close(c, ok) ==
  /\ cap[c].st = "drain" /\ cap[c].closed /\ cap[c].queued = 0
  /\ LET i == cap[c].owner
         good == ~cap[c].err /\ ok /\ Fits(i, 1) /\ file[c].kind = "tmp"
     IN  IF good
         THEN /\ file' = [file EXCEPT ![c] = [kind |-> "gz", size |-> file[c].size + 1]]
              /\ inst' = [inst EXCEPT ![i].used = @ + 1]
              /\ cap' = [cap EXCEPT ![c].st = "settle", ![c].written = @ + 1]
         ELSE /\ file' = IF file[c].kind = "tmp" THEN [file EXCEPT ![c] = None] ELSE file
              /\ inst' = IF cap[c].qw
                         THEN [inst EXCEPT ![i].used = GivenBack(@, cap[c].written)] ELSE inst
              /\ cap' = [cap EXCEPT ![c] = [Failed(c, "storage_or_quota_error")
                                            EXCEPT !.st = "settle", !.saved = 0]]
  /\ UNCHANGED <<row, aged, purging>>

Status(c) ==
  CASE cap[c].err -> "error"
    [] ~cap[c].err /\ cap[c].reason = "binary_omitted" -> "omitted"
    [] ~cap[c].err /\ cap[c].reason # "binary_omitted"
         /\ (~cap[c].complete \/ cap[c].reason # "none") -> "partial"
    [] OTHER -> "complete"

\* The final update of the row, which may not be there.
settle(c, stored) ==
  /\ cap[c].st = "settle"
  /\ row' = IF stored /\ row[c].st # "none"
            THEN [row EXCEPT ![c] = [st |-> Status(c), saved |-> cap[c].saved,
                                     received |-> cap[c].received]]
            ELSE row
  /\ cap' = [cap EXCEPT ![c] = [Fresh EXCEPT !.st = "done"]]
  /\ UNCHANGED <<inst, file, aged, purging>>
-----------------------------------------------------------------------------
\* The retention passes; it is far longer than any capture.
Age(c) ==
  /\ cap[c].st \in {"done", "lost"} /\ c \notin aged
  /\ aged' = aged \cup {c}
  /\ UNCHANGED <<inst, cap, row, file, purging>>

\* Mutant: rows that were never settled are kept.
Expired_Settled == {c \in aged : row[c].st \notin {"none", "saving"}}

Expired == {c \in aged : row[c].st # "none"}

Removed(i, c) ==
  /\ file' = [file EXCEPT ![c] = None]
  /\ inst' = [inst EXCEPT ![i].used = @ - file[c].size]

\* Purge: of an expired row the file goes first ...
purgeFile(i, c) ==
  /\ inst[i].up /\ purging[i] = "idle" /\ c \in Expired
  /\ IF file[c].kind = "gz" THEN Removed(i, c) ELSE UNCHANGED <<file, inst>>
  /\ purging' = [purging EXCEPT ![i] = c]
  /\ UNCHANGED <<cap, row, aged>>

\* ... then the row, unless the statement fails.
purgeRow(i, ok) ==
  /\ purging[i] # "idle"
  /\ row' = IF ok THEN [row EXCEPT ![purging[i]] = NoRow] ELSE row
  /\ purging' = [purging EXCEPT ![i] = "idle"]
  /\ UNCHANGED <<inst, cap, file, aged>>

\* When no expired row is left, old files without a row.
sweep(i, c) ==
  /\ inst[i].up /\ purging[i] = "idle" /\ Expired = {}
  /\ c \in aged /\ file[c].kind # "none"
  /\ Removed(i, c)
  /\ UNCHANGED <<cap, row, aged, purging>>
-----------------------------------------------------------------------------
run(c) ==
  \/ \E stored, known \in BOOLEAN : create(c, stored, known)
  \/ \E ok \in BOOLEAN : open(c, ok) \/ close(c, ok) \/ settle(c, ok)
  \/ \E n \in 0..1, ok \in BOOLEAN : drain(c, n, ok)

writer(c) == reserve(c) \/ send(c) \/ \E end \in Ends : Finish(c, end)

Next ==
  \/ \E i \in Instances : New(i) \/ Crash(i) \/ \E c \in Captures : Begin(i, c)
  \/ \E c \in Captures : (\E n \in 1..MaxReceived : Write(c, n)) \/ writer(c) \/ run(c) \/ Age(c)
  \/ \E i \in Instances, c \in Captures : purgeFile(i, c) \/ sweep(i, c)
  \/ \E i \in Instances, ok \in BOOLEAN : purgeRow(i, ok)

Spec == Init /\ [][Next]_vars

(* Handlers return and goroutines run; a stopped instance is restarted; in *)
(* one instance the purge is run every hour and its statements do not fail *)
(* for ever.                                                               *)
Diligent == CHOOSE i \in Instances : TRUE
ArchiveFairness ==
  /\ \A c \in Captures : WF_vars(writer(c)) /\ WF_vars(run(c)) /\ WF_vars(Age(c))
  /\ \A i \in Instances : WF_vars(New(i)) /\ \A c \in Captures : WF_vars(sweep(i, c))
  /\ SF_vars(purgeRow(Diligent, TRUE)) /\ \A c \in Captures : SF_vars(purgeFile(Diligent, c))
-----------------------------------------------------------------------------
(* Counters never fall below zero, sizes stay within the body's limit.     *)
TypeOK ==
  /\ \A i \in Instances : inst[i].buffered \in 0..BufferLimit /\ inst[i].used \in 0..MaxTotal
  /\ \A c \in Captures :
       /\ cap[c].accepted \in 0..MaxBody /\ cap[c].queued \in 0..ChanCap
       /\ cap[c].saved <= cap[c].accepted /\ cap[c].accepted <= cap[c].received
       /\ row[c].st \in {"none", "saving", "complete", "partial", "omitted", "error"}
       /\ file[c].kind \in {"none", "tmp", "gz"}

\* Chunks that the captures of instance i have queued or reserved.
Queued(i) ==
  SumOver([c \in Captures |-> IF cap[c].owner = i THEN cap[c].queued + (IF cap[c].reserved THEN 1 ELSE 0)
                              ELSE 0], Captures)

(* The queue budget counts what is queued, no more and no less, whichever  *)
(* way captures end: otherwise every later body is refused as queue_full.  *)
(* The quota counts the files that are there, across failed captures,      *)
(* purges and restarts, and no more is stored than log_bodies_max_bytes    *)
(* allows.  A temporary file belongs to a capture under way, or to an      *)
(* instance that has not been restarted (quotaWriter, run, New, Purge).    *)
QuotasExact ==
  /\ TypeOK
  /\ \A i \in Instances : inst[i].up => inst[i].buffered = Queued(i)
  /\ \A i \in Instances : inst[i].up => inst[i].used = Stored(file, {"tmp", "gz"})
  /\ Stored(file, {"tmp", "gz"}) <= MaxTotal
  /\ \A c \in Captures : file[c].kind = "tmp" => Running(c) \/ \E i \in Instances : ~inst[i].up

(* "Incomplete archives are explicitly marked" (request-log-archives.md):  *)
(* a row that says complete has a file with every byte received, until it  *)
(* is purged.                                                              *)
CompleteIsComplete ==
  \A c \in Captures : row[c].st = "complete" =>
    /\ row[c].saved = row[c].received
    /\ file[c].kind = "gz" \/ c \in aged

(* No row is shown as being saved for ever, and no file outlives the       *)
(* retention, also when its row was lost (run, New, Purge).                *)
NothingKeptForEver ==
  \A c \in Captures : /\ row[c].st = "saving" ~> row[c].st # "saving"
                      /\ c \in aged ~> file[c].kind = "none"
=============================================================================
