------------------------------ MODULE Restart ------------------------------
(***************************************************************************)
(* What survives the end of the process: the records an output has not     *)
(* written yet, saved by nx_logqueue_to_file() and restored by             *)
(* nx_logqueue_from_file() (src/common/logqueue.c), and the position up to *)
(* which im_file has read its source, kept by nx_config_cache_write() and  *)
(* nx_config_cache_read() (src/common/config_cache.c).  nxlog_shutdown()   *)
(* and nxlog_reload() (src/core/nxlog.c) save the queues first and the     *)
(* positions after them; main() reads the positions first and the queues   *)
(* after them.  A reload is a Stop followed by a Start.                    *)
(*                                                                         *)
(* One input with SavePos TRUE, one output queue.  A record is the number  *)
(* of its line in the source, to which others append at any time.  The     *)
(* faults are a crash between any two steps and the I/O errors the code    *)
(* has a path for.  The panic level is the default, SOFT: a failed ASSERT  *)
(* throws.                                                                 *)
(***************************************************************************)
EXTENDS Naturals, Sequences

CONSTANTS
  MaxRecords,   \* bound: lines in the source
  QueueLimit,   \* flow control: the input is paused by a queue this long
  MaxFaults,    \* bound: crashes and I/O errors
  MaxRuns       \* bound: orderly stops

ASSUME BoundsAssumption ==
  /\ MaxRecords \in Nat /\ QueueLimit \in Nat \ {0} /\ MaxFaults \in Nat /\ MaxRuns \in Nat

VARIABLES
  readfromlast,  \* im_file's directive: without a saved position, begin at
                 \* the end (nobody changes it)
  lines,     \* the lines in the source
  phase,     \* what the main thread is doing
  pos,       \* im_file: lines read so far
  queue,     \* the output's queue in memory
  at,        \* records of the queue file read, or of the queue written, so far
  qfile,     \* <name>.q: its records, Torn for an incomplete one; empty
             \* and absent are the same
  ccfile,    \* configcache.dat: the position in it and whether it is intact
  out,       \* what the output has written
  faults, runs,
  restored,  \* history: records that came from a queue file
  spoiled,   \* history: records an I/O error cut off from the queue file
  skipped    \* history: lines im_file began behind

history == <<restored, spoiled, skipped>>
state == <<lines, phase, pos, queue, at, qfile, ccfile, out, faults, runs, history>>
vars  == <<readfromlast, state>>
io    == <<lines, pos, out, runs>>

Records == 1..MaxRecords
Torn    == 0                \* what is left of a record that was cut short
Mangled == MaxRecords + 1   \* a record made of the bytes of several
Whole   == Records \cup {Mangled}

(* A cache file with a position; without one, or absent; cut short.        *)
Cache(p)  == [good |-> TRUE, position |-> p]
NoCache   == Cache(0)
TornCache == [good |-> FALSE, position |-> 0]

Phases  == {"down", "restore", "up", "save", "saved", "truncated"}

Elements(s) == {s[i] : i \in 1..Len(s)}

Init ==
  /\ readfromlast \in BOOLEAN
  /\ lines = 0 /\ phase = "down" /\ pos = 0 /\ queue = <<>> /\ at = 0
  /\ qfile = <<>> /\ ccfile = NoCache /\ out = <<>>
  /\ faults = 0 /\ runs = 0 /\ restored = {} /\ spoiled = {} /\ skipped = {}

(* The application that writes the source.                                 *)
Log ==
  /\ lines < MaxRecords
  /\ lines' = lines + 1
  /\ UNCHANGED <<phase, pos, queue, at, qfile, ccfile, out, faults, runs, history>>

Fault == faults < MaxFaults /\ faults' = faults + 1

-----------------------------------------------------------------------------
(* nx_config_cache_read(), and the position im_file_add_file() gets.       *)
(* im_file_input_open() takes the position 0 for none.                     *)
Beginning ==
  IF ccfile.position > 0 \/ ~readfromlast THEN ccfile.position ELSE lines

Start ==
  /\ phase = "down" /\ ccfile.good
  /\ phase' = "restore" /\ pos' = Beginning /\ at' = 0
  /\ skipped' = skipped \cup ((ccfile.position + 1)..Beginning)
  /\ UNCHANGED <<lines, queue, qfile, ccfile, out, faults, runs, restored, spoiled>>

(* Mutant of StartFails: the bad file is kept.                             *)
StartFailsKeeps ==
  /\ phase = "down" /\ ~ccfile.good
  /\ UNCHANGED state

(* A file that cannot be read is removed, and the program exits.           *)
StartFails ==
  /\ phase = "down"
  /\ \/ ~ccfile.good /\ UNCHANGED faults
     \/ ccfile.good /\ Fault
  /\ ccfile' = NoCache
  /\ UNCHANGED <<io, phase, queue, at, qfile, history>>

-----------------------------------------------------------------------------
(* nx_logqueue_from_file(), called by nx_ctx_restore_queues().             *)

(* Mutant of RestoreRecord: an incomplete record is taken for a whole one. *)
RestoreRecordUnchecked ==
  /\ phase = "restore" /\ at < Len(qfile)
  /\ queue' = Append(queue, qfile[at + 1])
  /\ restored' = restored \cup {qfile[at + 1]}
  /\ at' = at + 1
  /\ UNCHANGED <<io, phase, qfile, ccfile, faults, spoiled, skipped>>

RestoreRecord ==
  /\ phase = "restore" /\ at < Len(qfile) /\ qfile[at + 1] # Torn
  /\ queue' = Append(queue, qfile[at + 1])
  /\ restored' = restored \cup {qfile[at + 1]}
  /\ at' = at + 1
  /\ UNCHANGED <<io, phase, qfile, ccfile, faults, spoiled, skipped>>

(* An incomplete record with others after it: the bytes it lacks are taken *)
(* from theirs, and so on at the wrong offset, once or more often, until   *)
(* that ends with an exception or, by accident, at the end of the file.    *)
RestoreMangled ==
  /\ phase = "restore" /\ at + 1 < Len(qfile) /\ qfile[at + 1] = Torn
  /\ \E n \in 1..(Len(qfile) - at - 1) : queue' = queue \o [i \in 1..n |-> Mangled]
  /\ spoiled' = spoiled \cup (Elements(SubSeq(qfile, at + 1, Len(qfile))) \ {Torn})
  /\ at' = Len(qfile)
  /\ phase' \in {"restore", "up"}
  /\ UNCHANGED <<io, qfile, ccfile, faults, restored, skipped>>

(* An exception: the records read so far stay in the queue, the file stays *)
(* where it is, the program goes on.                                       *)
RestoreThrows ==
  /\ phase = "restore" /\ at < Len(qfile)
  /\ \/ qfile[at + 1] = Torn /\ UNCHANGED faults
     \/ qfile[at + 1] # Torn /\ Fault
  /\ spoiled' = spoiled \cup (Elements(SubSeq(qfile, at + 1, Len(qfile))) \ {Torn})
  /\ phase' = "up"
  /\ UNCHANGED <<io, queue, at, qfile, ccfile, restored, skipped>>

(* Mutant of RestoreEnd: the file is not removed.                          *)
RestoreEndKeeps ==
  /\ phase = "restore" /\ at = Len(qfile)
  /\ phase' = "up"
  /\ UNCHANGED <<io, queue, at, qfile, ccfile, faults, history>>

(* The end of the file: it is removed; nobody looks whether that worked.   *)
RestoreEnd ==
  /\ phase = "restore" /\ at = Len(qfile)
  /\ phase' = "up"
  /\ \/ qfile' = <<>> /\ UNCHANGED faults
     \/ Fault /\ UNCHANGED qfile
  /\ UNCHANGED <<io, queue, at, ccfile, history>>

-----------------------------------------------------------------------------
(* im_file_read() and the output, as Pipeline has them in detail.          *)
Read ==
  /\ phase = "up" /\ pos < lines /\ Len(queue) < QueueLimit
  /\ pos' = pos + 1
  /\ queue' = Append(queue, pos + 1)
  /\ UNCHANGED <<lines, phase, at, qfile, ccfile, out, faults, runs, history>>

Write ==
  /\ phase = "up" /\ queue # <<>>
  /\ out' = Append(out, Head(queue))
  /\ queue' = Tail(queue)
  /\ UNCHANGED <<lines, phase, pos, at, qfile, ccfile, faults, runs, history>>

-----------------------------------------------------------------------------
(* Mutant of Stop: the positions are written before the queues.            *)
StopPositionFirst ==
  /\ phase = "up" /\ runs < MaxRuns
  /\ runs' = runs + 1
  /\ at' = 0 /\ ccfile' = Cache(pos)
  /\ \/ queue = <<>> /\ phase' = "saved" /\ UNCHANGED qfile
     \/ queue # <<>> /\ phase' = "save" /\ qfile' = <<>>
  /\ UNCHANGED <<lines, pos, queue, out, faults, history>>

(* nxlog_shutdown() after the modules have stopped and the threads ended.  *)
(* An empty queue leaves the file alone, and so does a file that cannot be *)
(* opened; otherwise nx_logqueue_to_file() truncates it first.             *)
Stop ==
  /\ phase = "up" /\ runs < MaxRuns
  /\ runs' = runs + 1
  /\ at' = 0
  /\ \/ queue = <<>> /\ phase' = "saved" /\ UNCHANGED <<qfile, faults, spoiled>>
     \/ /\ queue # <<>> /\ phase' = "save" /\ qfile' = <<>>
        /\ UNCHANGED <<faults, spoiled>>
     \/ /\ queue # <<>> /\ phase' = "saved" /\ Fault
        /\ spoiled' = spoiled \cup Elements(queue) /\ UNCHANGED qfile
  /\ UNCHANGED <<lines, pos, queue, ccfile, out, restored, skipped>>

SaveRecord ==
  /\ phase = "save" /\ at < Len(queue)
  /\ qfile' = Append(qfile, queue[at + 1])
  /\ at' = at + 1
  /\ UNCHANGED <<io, phase, queue, ccfile, faults, history>>

(* apr_file_write() writes less than it was asked to: nobody compares.     *)
SaveShort ==
  /\ phase = "save" /\ at < Len(queue) /\ Fault
  /\ qfile' = Append(qfile, Torn)
  /\ spoiled' = spoiled \cup Elements(SubSeq(queue, at + 1, Len(queue)))
  /\ at' = at + 1
  /\ UNCHANGED <<io, phase, queue, ccfile, restored, skipped>>

(* It fails: the exception is logged and the shutdown goes on.             *)
SaveThrows ==
  /\ phase = "save" /\ at < Len(queue) /\ Fault
  /\ spoiled' = spoiled \cup Elements(SubSeq(queue, at + 1, Len(queue)))
  /\ phase' = "saved"
  /\ UNCHANGED <<io, queue, at, qfile, ccfile, restored, skipped>>

SaveEnd ==
  /\ phase = "save" /\ at = Len(queue)
  /\ phase' = "saved"
  /\ UNCHANGED <<io, queue, at, qfile, ccfile, faults, history>>

-----------------------------------------------------------------------------
(* nx_config_cache_write() truncates the file and writes the table; then   *)
(* the process ends.                                                       *)
TruncateCache ==
  /\ phase = "saved"
  /\ ccfile' = NoCache /\ phase' = "truncated"
  /\ UNCHANGED <<io, queue, at, qfile, faults, history>>

(* The file cannot be opened: it stays as it is.                           *)
CacheUnwritten ==
  /\ phase = "saved" /\ Fault
  /\ phase' = "down" /\ queue' = <<>>
  /\ UNCHANGED <<io, at, qfile, ccfile, history>>

WriteCache ==
  /\ phase = "truncated"
  /\ ccfile' = Cache(pos) /\ phase' = "down" /\ queue' = <<>>
  /\ UNCHANGED <<io, at, qfile, faults, history>>

(* A crash, possibly in the middle of a write; an exception while the      *)
(* table is written ends the process in the same way.                      *)
Crash ==
  /\ phase # "down" /\ Fault
  /\ phase' = "down" /\ queue' = <<>>
  /\ \/ UNCHANGED <<qfile, ccfile>>
     \/ phase = "save" /\ at < Len(queue) /\ qfile' = Append(qfile, Torn) /\ UNCHANGED ccfile
     \/ phase = "truncated" /\ ccfile' = TornCache /\ UNCHANGED qfile
  /\ UNCHANGED <<io, at, history>>

-----------------------------------------------------------------------------
Restore == RestoreRecord \/ RestoreMangled \/ RestoreThrows \/ RestoreEnd
Shutdown == SaveRecord \/ SaveShort \/ SaveThrows \/ SaveEnd
            \/ TruncateCache \/ CacheUnwritten \/ WriteCache

Next ==
  /\ Log \/ Start \/ StartFails \/ Restore \/ Read \/ Write \/ Stop \/ Shutdown \/ Crash
  /\ UNCHANGED readfromlast

(* The main thread runs, and whoever starts the program keeps trying.      *)
Fairness == WF_state(Start) /\ WF_state(StartFails) /\ WF_state(Restore) /\ WF_state(Shutdown)

Spec == Init /\ [][Next]_vars /\ Fairness

-----------------------------------------------------------------------------
(* Type invariant.                                                         *)
TypeOK ==
  /\ readfromlast \in BOOLEAN
  /\ phase \in Phases
  /\ lines \in 0..MaxRecords /\ pos \in 0..lines
  /\ queue \in Seq(Whole)
  /\ at \in Nat
  /\ qfile \in Seq(Whole \cup {Torn})
  /\ ccfile \in [good : BOOLEAN, position : 0..MaxRecords]
  /\ out \in Seq(Whole)
  /\ faults \in 0..MaxFaults /\ runs \in 0..MaxRuns
  /\ restored \subseteq Whole /\ spoiled \subseteq Whole /\ skipped \subseteq Records

(* What can still be read of a queue file q after its first n records.     *)
Readable(q, n) ==
  LET good == {k \in n..Len(q) : \A i \in (n + 1)..k : q[i] # Torn}
  IN  SubSeq(q, n + 1, CHOOSE k \in good : \A l \in good : l <= k)

(* The records the output has still to get, and the position from which    *)
(* the input goes on, now or after the next start.                         *)
Held == CASE phase \in {"down", "saved", "truncated"} -> Readable(qfile, 0)
          [] phase = "restore" -> queue \o Readable(qfile, at)
          [] OTHER -> queue
GoesOnFrom == IF phase = "down" THEN ccfile.position ELSE pos

Increasing(s) == \A i, j \in 1..Len(s) : i < j => s[i] < s[j]

(* As long as nothing fails, every line of the source reaches the output   *)
(* once and in order, however often the program is stopped and started,    *)
(* except for those that were there when im_file began at the end.         *)
ExactlyOnce ==
  faults = 0 => /\ Increasing(out \o Held)
                /\ Elements(out \o Held) = (1..GoesOnFrom) \ skipped

(* Whatever fails and whenever the program crashes, during the shutdown    *)
(* too, a line that never reaches the output either was restored from a    *)
(* queue file before (and the file removed), or was cut off by an I/O      *)
(* error, or was there when im_file began at the end of its source.        *)
MissingExplained ==
  \A r \in 1..GoesOnFrom :
     r \in Elements(out) \cup Elements(Held) \cup restored \cup spoiled \cup skipped

(* No state the files can be left in keeps the program from coming up      *)
(* again.                                                                  *)
ComesUp == []<>(phase = "up")
=============================================================================
