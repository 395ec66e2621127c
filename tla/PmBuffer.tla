------------------------------ MODULE PmBuffer ------------------------------
(***************************************************************************)
(* pm_buffer: a processor that keeps what it cannot forward, in a second   *)
(* queue (Mem) or in numbered chunk files (Disk), across restarts of the   *)
(* program.  Records are numbered in the order of their arrival and have   *)
(* size 1.  The module's own queue, the one that follows and the queue     *)
(* files are those of Pipeline and Restart, seen from here.                *)
(***************************************************************************)
EXTENDS Integers, Sequences, FiniteSets

LOCAL INSTANCE SequencesExt

CONSTANTS
  push_limit,  \* records in a chunk
  BfMaxSize,   \* buffer_maxsize
  BfLimit,     \* limit of the queue of the next module
  BfRecords,   \* bound on the records that arrive
  BfRestarts,  \* bound on restarts and crashes
  BfFaults     \* bound on crashes and failed stores

ASSUME BufferAssumption ==
  /\ {push_limit, BfMaxSize, BfLimit} \subseteq Nat \ {0}
  /\ {BfRecords, BfRestarts, BfFaults} \subseteq Nat

(* The fields of modconf that only a Disk buffer uses, and the counters.   *)
NoConf == [push_open |-> FALSE, push_id |-> 0, push_count |-> 0,
           pop_open |-> FALSE, pop_id |-> 0, pop_pos |-> 0, pop_count |-> 0,
           size |-> 0, buffer_size |-> 0]

VARIABLE bf
(***************************************************************************)
(* bf.type      "mem" or "disk"                                            *)
(* bf.up        the module is running (or paused: it does the same work)   *)
(* bf.pc        the handler: "idle", "loop", "peek"; "jammed" for ever     *)
(* bf.can_send  as the loop of pm_buffer_data_available() left it          *)
(* bf.event     DATA_AVAILABLE is pending                                  *)
(* bf.queue     module->queue, bf.needpop its flag                         *)
(* bf.mem       modconf->queue                                             *)
(* bf.files     the chunk files, by id; -r is record r written in part     *)
(* bf.conf      the rest of modconf, see NoConf                            *)
(* bf.next      the number of records in the queue of the next module      *)
(* bf.arrived   history: the number of records that have arrived           *)
(* bf.high      history: the newest record that was forwarded              *)
(* bf.fresh     history: no event was handled since the start              *)
(* bf.restarts, bf.faults   how many there have been                       *)
(***************************************************************************)

BufferInit ==
  \E type \in {"mem", "disk"} :
    bf = [type |-> type, up |-> FALSE, pc |-> "idle", can_send |-> FALSE,
          event |-> FALSE, queue |-> <<>>, needpop |-> FALSE, mem |-> <<>>,
          files |-> <<>>, conf |-> NoConf, next |-> 0, arrived |-> 0, high |-> 0,
          fresh |-> TRUE, restarts |-> 0, faults |-> 0]

Disk == bf.type = "disk"
CanForward == bf.next < BfLimit
ChunkRemoved(files, id) == [k \in DOMAIN files \ {id} |-> files[k]]
ChunkWritten(files, id, s) ==
  [k \in DOMAIN files \cup {id} |-> IF k = id THEN s ELSE files[k]]

-----------------------------------------------------------------------------
KeptChunks == {id \in DOMAIN bf.files : bf.files[id] # <<>>}
Newest == CHOOSE i \in KeptChunks : \A k \in KeptChunks : k <= i
Oldest == CHOOSE i \in KeptChunks : \A k \in KeptChunks : i <= k

(* Mutant of PushId: the newest chunk is written again.                    *)
PushIdNewest == IF KeptChunks = {} THEN 1 ELSE Newest

PushId == IF KeptChunks = {} THEN 1 ELSE Newest + 1

(* pm_buffer_start(): empty chunks are removed, the records of the others  *)
(* are counted, and a new chunk is begun after them.  START is followed by *)
(* DATA_AVAILABLE only if the module's own queue has records.              *)
BufferStart ==
  LET found == Cardinality(UNION {{id} \X DOMAIN bf.files[id] : id \in KeptChunks})
      kept  == [id \in KeptChunks |-> bf.files[id]]
      disk  == [NoConf EXCEPT !.push_open = TRUE, !.push_id = PushId,
                  !.pop_id = IF KeptChunks = {} THEN 1 ELSE Oldest,
                  !.size = found, !.buffer_size = found]
      mem   == [NoConf EXCEPT !.buffer_size = Len(bf.mem)]
  IN  /\ ~bf.up
      /\ bf' = [bf EXCEPT !.up = TRUE, !.fresh = TRUE, !.event = bf.queue # <<>>,
                  !.files = IF Disk THEN ChunkWritten(kept, PushId, <<>>) ELSE @,
                  !.conf = IF Disk THEN disk ELSE mem]

(* pm_buffer_stop(), and the program ends: with nothing left the chunk     *)
(* being read is removed, otherwise the place in it is forgotten.  The     *)
(* queues are saved and restored; the next program begins with NoConf.     *)
BufferStop ==
  /\ bf.up /\ bf.pc = "idle" /\ bf.restarts < BfRestarts
  /\ bf' = [bf EXCEPT !.up = FALSE, !.event = FALSE, !.needpop = FALSE,
              !.conf = NoConf, !.restarts = @ + 1,
              !.files = IF Disk /\ bf.conf.size = 0 /\ bf.conf.pop_open
                        THEN ChunkRemoved(@, bf.conf.pop_id) ELSE @]

(* A crash leaves only the chunk files.                                    *)
BufferCrash ==
  /\ bf.up /\ bf.restarts < BfRestarts /\ bf.faults < BfFaults
  /\ bf' = [bf EXCEPT !.up = FALSE, !.pc = "idle", !.event = FALSE, !.queue = <<>>,
              !.needpop = FALSE, !.mem = <<>>, !.conf = NoConf, !.next = 0,
              !.restarts = @ + 1, !.faults = @ + 1]

-----------------------------------------------------------------------------
(* The module before this one pushes a record.                             *)
BufferArrive ==
  /\ bf.up /\ bf.arrived < BfRecords /\ bf.pc # "jammed"
  /\ bf' = [bf EXCEPT !.arrived = @ + 1, !.event = TRUE,
              !.queue = Append(@, bf.arrived + 1)]

(* The next module takes a record; resume_senders() notifies this one when *)
(* the queue is below 70 per cent.                                         *)
BufferDrain ==
  /\ bf.up /\ bf.next > 0
  /\ bf' = [bf EXCEPT !.next = @ - 1,
              !.event = @ \/ 10 * (bf.next - 1) < 7 * BfLimit]

-----------------------------------------------------------------------------
(* pm_buffer_event() and pm_buffer_data_available(), in a worker.  READ is *)
(* never posted: only its own handler would post it again.                 *)
BufferEvent ==
  /\ bf.up /\ bf.pc = "idle" /\ bf.event
  /\ bf' = [bf EXCEPT !.event = FALSE, !.pc = "loop", !.fresh = FALSE]

(* The handler is left by an exception.                                    *)
Throws(c, files) == [conf |-> c, files |-> files, record |-> -1]

(* One read of a chunk file: [conf, files, record], record 0 at its end.   *)
(* Behind a record that was written in part nothing can be made out.       *)
ReadAt(c, files) ==
  IF c.pop_pos = Len(files[c.pop_id]) THEN [conf |-> c, files |-> files, record |-> 0]
  ELSE IF files[c.pop_id][c.pop_pos + 1] < 0
  THEN Throws([c EXCEPT !.pop_pos = Len(files[c.pop_id])], files)
  ELSE [conf |-> [c EXCEPT !.pop_pos = @ + 1, !.pop_count = @ + 1, !.size = @ - 1],
        files |-> files, record |-> files[c.pop_id][c.pop_pos + 1]]

(* Mutant of NextChunk: the count of records read is not reset.            *)
NextChunkKeepsCount(c) == [c EXCEPT !.pop_id = @ + 1, !.pop_pos = 0]

NextChunk(c) == [c EXCEPT !.pop_id = @ + 1, !.pop_pos = 0, !.pop_count = 0]

(* pm_buffer_pop_disk(): at the end of a chunk the file is removed and the *)
(* next one opened; pop_count is reset only when that has succeeded.       *)
PopDisk ==
  LET c == IF bf.conf.pop_open THEN bf.conf
           ELSE [bf.conf EXCEPT !.pop_open = TRUE, !.pop_pos = 0]
      next == NextChunk(c)
      left == ChunkRemoved(bf.files, c.pop_id)
      Nothing(d) == [conf |-> d, files |-> bf.files, record |-> 0]
  IN  IF ~bf.conf.pop_open /\ c.pop_id > c.push_id THEN Nothing(bf.conf)
      ELSE IF c.pop_id \notin DOMAIN bf.files THEN Throws(bf.conf, bf.files)
      ELSE IF c.push_id = c.pop_id /\ c.pop_count = c.push_count THEN Nothing(c)
      ELSE IF c.push_id < c.pop_id \/ (c.push_id = c.pop_id /\ c.pop_count > c.push_count)
      THEN Throws(c, bf.files)
      ELSE IF ReadAt(c, bf.files).record # 0 THEN ReadAt(c, bf.files)
      ELSE IF c.push_id = c.pop_id THEN Throws(c, bf.files)
      ELSE IF next.pop_id \in DOMAIN left THEN ReadAt(next, left)
      ELSE Throws([c EXCEPT !.pop_open = FALSE, !.pop_id = @ + 1], left)

PopMem == [conf |-> bf.conf, files |-> bf.files,
           record |-> IF bf.mem = <<>> THEN 0 ELSE Head(bf.mem)]

Popped == IF Disk THEN PopDisk ELSE PopMem

Higher(r) == IF r > bf.high THEN r ELSE bf.high

(* A buffered record is forwarded.  If a failed store has left needpop     *)
(* set, nx_module_progress_logdata() takes it for the first record of the  *)
(* module's queue: an assertion fails while the queue's lock is held.      *)
SendBuffered ==
  /\ bf.pc = "loop" /\ CanForward /\ Popped.record > 0
  /\ LET rest == [bf EXCEPT !.conf = [Popped.conf EXCEPT !.buffer_size = @ - 1],
                    !.files = Popped.files, !.mem = IF Disk THEN @ ELSE Tail(@)]
     IN  bf' = IF bf.needpop THEN [rest EXCEPT !.pc = "jammed"]
               ELSE [rest EXCEPT !.next = @ + 1, !.high = Higher(Popped.record)]

(* The buffer is empty; or its next file cannot be opened, which ends the  *)
(* handler.                                                                *)
NoneBuffered ==
  /\ bf.pc = "loop" /\ CanForward /\ Popped.record <= 0
  /\ bf' = [bf EXCEPT !.conf = Popped.conf, !.files = Popped.files,
              !.can_send = TRUE,
              !.pc = IF Popped.record = 0 THEN "peek" ELSE "idle"]

CannotSend ==
  /\ bf.pc = "loop" /\ ~CanForward
  /\ bf' = [bf EXCEPT !.can_send = FALSE,
              !.pc = IF bf.conf.buffer_size >= BfMaxSize THEN "idle" ELSE "peek"]

(* nx_module_logqueue_peek() finds nothing.                                *)
NoneArrived ==
  /\ bf.pc = "peek" /\ bf.queue = <<>>
  /\ bf' = [bf EXCEPT !.pc = "idle"]

(* It finds a record, and posts DATA_AVAILABLE for what may follow.        *)
Peeked == bf.pc = "peek" /\ bf.queue # <<>>
AfterPeek == [bf EXCEPT !.pc = "idle", !.event = TRUE]
AfterPop  == [AfterPeek EXCEPT !.queue = Tail(@), !.needpop = FALSE]

(* Mutant of SendNew: the new record is sent whatever the loop has seen.   *)
SendNewAlways ==
  /\ Peeked
  /\ bf' = [AfterPop EXCEPT !.next = @ + 1, !.high = Higher(Head(bf.queue))]

SendNew ==
  /\ Peeked /\ bf.can_send
  /\ bf' = [AfterPop EXCEPT !.next = @ + 1, !.high = Higher(Head(bf.queue))]

(* pm_buffer_push_disk(): a full chunk is closed ...                       *)
PushConf ==
  IF bf.conf.push_count >= push_limit
  THEN [bf.conf EXCEPT !.push_open = FALSE, !.push_id = @ + 1, !.push_count = 0]
  ELSE bf.conf

(* ... and the record written to the current one, or a part of it: how     *)
(* much apr_file_write() has written is not looked at.                     *)
BufferStore ==
  LET c   == PushConf
      r   == Head(bf.queue)
      old == IF c.push_open THEN bf.files[c.push_id] ELSE <<>>
      Stored(piece) ==
        [AfterPop EXCEPT !.files = ChunkWritten(@, c.push_id, Append(old, piece)),
           !.conf = [c EXCEPT !.push_open = TRUE, !.push_count = @ + 1,
                              !.size = @ + 1, !.buffer_size = @ + 1]]
  IN  /\ Peeked /\ ~bf.can_send
      /\ IF Disk
         THEN \/ bf' = Stored(r)
              \/ bf.faults < BfFaults /\ bf' = [Stored(-r) EXCEPT !.faults = @ + 1]
         ELSE bf' = [AfterPop EXCEPT !.mem = Append(@, r), !.conf.buffer_size = @ + 1]

(* The chunk cannot be opened, or not written: the exception leaves the    *)
(* record where it is, with needpop set.                                   *)
StoreFails ==
  LET c      == PushConf
      failed == [AfterPeek EXCEPT !.needpop = TRUE, !.faults = @ + 1]
  IN  /\ Peeked /\ ~bf.can_send /\ Disk /\ bf.faults < BfFaults
      /\ \/ ~c.push_open /\ bf' = [failed EXCEPT !.conf = c]
         \/ bf' = [failed EXCEPT !.conf = [c EXCEPT !.push_open = TRUE],
                     !.files = IF c.push_open THEN @ ELSE ChunkWritten(@, c.push_id, <<>>)]

BufferNext ==
  \/ BufferStart \/ BufferStop \/ BufferCrash \/ BufferArrive \/ BufferDrain
  \/ BufferEvent \/ SendBuffered \/ NoneBuffered \/ CannotSend
  \/ NoneArrived \/ SendNew \/ BufferStore \/ StoreFails

BufferSpec == BufferInit /\ [][BufferNext]_bf
-----------------------------------------------------------------------------
(* What has been stored and not yet read, in the order of reading.         *)
Chunks(from) ==
  FlattenSeq([k \in 1..Cardinality({i \in DOMAIN bf.files : i >= from}) |->
                bf.files[from + k - 1]])
Unread ==
  LET all == Chunks(bf.conf.pop_id)
  IN  IF ~Disk THEN bf.mem
      ELSE SubSeq(all, 1 + (IF bf.conf.pop_open THEN bf.conf.pop_pos ELSE 0), Len(all))

(* Type invariant.                                                         *)
BufferTypeOK ==
  /\ bf.pc \in {"idle", "loop", "peek", "jammed"} /\ bf.next \in 0..BfLimit
  /\ bf.queue \in Seq(1..BfRecords) /\ bf.mem \in Seq(1..BfRecords)
  /\ \A id \in DOMAIN bf.files : id \in Nat /\ bf.files[id] \in Seq(-BfRecords..BfRecords)
  /\ \A f \in DOMAIN NoConf \ {"push_open", "pop_open"} : bf.conf[f] \in Nat

(* However records come and go, and whatever is restarted: as long as no   *)
(* write fails and nothing crashes, the records not yet forwarded are all  *)
(* in the buffer or behind it in the module's queue, in their order.  Only *)
(* a restart puts old ones before them, those read already from the chunk  *)
(* that was being read: with a Disk buffer, at most a chunk is repeated.   *)
NothingSkipped ==
  LET rest     == Unread \o bf.queue
      repeated == Cardinality({i \in DOMAIN rest : rest[i] <= bf.high})
  IN  bf.up /\ bf.faults = 0 =>
        /\ bf.pc # "jammed"
        /\ SubSeq(rest, repeated + 1, Len(rest))
             = [i \in 1..bf.arrived - bf.high |-> bf.high + i]
        /\ repeated <= IF Disk /\ bf.restarts > 0 THEN push_limit ELSE 0

(* The size that decides whether the buffer is full is that of what is     *)
(* stored; it stays within MaxSize, and a chunk that is read again after a *)
(* restart.  Even after crashes and failed writes the order is kept.       *)
BufferBounded ==
  LET rest == SelectSeq(Unread \o bf.queue, LAMBDA r : r > 0)
  IN  bf.up /\ bf.pc # "jammed" =>
        /\ \A i \in 1..Len(rest) - 1 : rest[i] < rest[i + 1]
        /\ bf.faults = 0 =>
             /\ bf.conf.buffer_size = Len(Unread)
             /\ Disk => bf.conf.size = Len(Unread)
             /\ bf.conf.buffer_size
                  <= BfMaxSize + IF bf.restarts > 0 THEN push_limit ELSE 0

(* Nothing lies in the buffer while the next module has room and nobody    *)
(* will look, except right after a start: the chunks of the last run wait  *)
(* for the first event.                                                    *)
NotLeftLying ==
  bf.up /\ bf.pc = "idle" /\ bf.faults = 0 /\ 10 * bf.next < 7 * BfLimit
    /\ Unread # <<>> => bf.event \/ bf.fresh
=============================================================================
