------------------------------- MODULE Stores -------------------------------
(***************************************************************************)
(* Modules that read from, or write to, a store of their own: a database   *)
(* (im_dbi, om_dbi) or a Kafka broker (im_kafka, om_kafka)                 *)
(* (src/modules/input/dbi, src/modules/output/dbi, src/modules/input/kafka,*)
(* src/modules/output/kafka).  libdbi and librdkafka are seen by what they *)
(* return.  A handler is one step, but im_kafka_read() is a loop that      *)
(* lasts.                                                                  *)
(***************************************************************************)
EXTENDS Integers, Sequences, FiniteSets, FiniteSetsExt

CONSTANTS DbRows,     \* bound: rows, or records, or messages
          DbLimit,    \* rows of one query with LIMIT (10 in the code)
          DbFaults    \* bound: failures, pauses, restarts

ASSUME StoresAssumption == DbRows \in Nat /\ DbLimit \in Nat \ {0} /\ DbFaults \in Nat

VARIABLE db
(***************************************************************************)
(* kind     the module                                                     *)
(* driver   "mysql", "pgsql" or another driver of libdbi                   *)
(* status   of the module                                                  *)
(* events   READ events, or is there a DATA_AVAILABLE (0, 1)               *)
(* later    the RECONNECTs pending                                         *)
(* failed   history: a handler threw and left no event                     *)
(* table, spoilt, late   the rows to be seen, those im_dbi cannot convert, *)
(*          those that came with an id already passed                      *)
(* last, saved, savepos  imconf->last_id, the one in the cache, SavePos    *)
(* got      records added to the route, in order                           *)
(* redone   history: a position was lost, rows are read again              *)
(* queue    the records of an output                                       *)
(* stored, local, undelivered   what the store has, what librdkafka holds, *)
(*          what it gave up                                                *)
(* reading  im_kafka_read() is in its loop; run: the static variable       *)
(* handle   the consumer of im_kafka exists                                *)
(* ended    history: im_kafka met an unknown topic or partition             *)
(* crashed  a handle is used that was destroyed                            *)
(***************************************************************************)
StoresInit ==
  \E kind \in {"im_dbi", "om_dbi", "im_kafka", "om_kafka"},
     driver \in {"mysql", "pgsql", "sqlite"}, savepos \in BOOLEAN :
    /\ (kind \in {"im_kafka", "om_kafka"} => driver = "mysql")
    /\ (kind # "im_dbi" => savepos)
    /\ db = [kind |-> kind, driver |-> driver, status |-> "STOPPED", events |-> 0, later |-> 0,
             failed |-> FALSE, table |-> {}, spoilt |-> {}, late |-> {},
             last |-> -1, saved |-> -1, savepos |-> savepos, got |-> <<>>, redone |-> FALSE,
             queue |-> IF kind \in {"om_dbi", "om_kafka"} THEN [i \in 1..DbRows |-> i] ELSE <<>>,
             stored |-> <<>>, local |-> <<>>, undelivered |-> {},
             reading |-> FALSE, run |-> 1, handle |-> TRUE, ended |-> FALSE, crashed |-> FALSE,
             faults |-> 0]

DbMayFail  == db.faults < DbFaults
DbFault(d) == [d EXCEPT !.faults = @ + 1]
DbAll(s)   == {s[i] : i \in DOMAIN s}

-----------------------------------------------------------------------------
(* im_dbi.  A row is committed, perhaps after one with a greater id, and   *)
(* perhaps with a column im_dbi has no type for; old rows may be deleted.  *)
RowCommitted(id, spoilt) ==
  /\ db.kind = "im_dbi" /\ id \notin db.table \cup db.late \cup DbAll(db.got)
  /\ (spoilt \/ \E r \in db.table : r > id) => DbMayFail
  /\ LET d == IF spoilt \/ \E r \in db.table : r > id THEN DbFault(db) ELSE db
     IN  db' = [d EXCEPT !.table = @ \cup {id}, !.spoilt = IF spoilt THEN @ \cup {id} ELSE @,
                         !.late = IF id <= db.last THEN @ \cup {id} ELSE @]
RowDeleted(id) ==
  /\ db.kind = "im_dbi" /\ id \in db.table /\ id <= db.last /\ DbMayFail
  /\ db' = DbFault([db EXCEPT !.table = @ \ {id}])

(* The query of im_dbi_read(): rows with an id beyond the last one; the    *)
(* LIMIT is appended for two of the drivers.                               *)
RowsAfterFrom(d) == {r \in d.table : r >= d.last}
RowsAfter(d) == {r \in d.table : r > d.last}
DbQuery(d) ==
  LET rows == RowsAfter(d)
  IN  IF d.driver \in {"mysql", "pgsql"}
      THEN {r \in rows : Cardinality({s \in rows : s < r}) < DbLimit} ELSE rows

(* The loop over the rows.  im_dbi_set_logdata_field() keeps the id in     *)
(* last_id before it looks at the other columns; one it cannot convert     *)
(* ends the read with an exception, the rows before it were added.         *)
SetLogdataField(d, rows) ==
  LET bad  == rows \cap d.spoilt
      upto == IF bad = {} THEN rows ELSE {r \in rows : r <= Min(bad)}
      good == upto \ bad
      nth(i) == CHOOSE r \in good : Cardinality({s \in good : s <= r}) = i
  IN  [d EXCEPT !.got = @ \o [i \in 1..Cardinality(good) |-> nth(i)],
                !.last = IF upto = {} THEN @ ELSE Max(upto)]

(* READ: im_dbi_read().  A query that fails, or a column that does, leaves *)
(* the module running without an event.                                    *)
DbReadFails(d) == [d EXCEPT !.failed = TRUE]
DbRead(fails) ==
  /\ db.kind = "im_dbi" /\ db.events > 0
  /\ LET d    == [db EXCEPT !.events = @ - 1]
         rows == DbQuery(d)
     IN  IF d.status # "RUNNING" THEN ~fails /\ db' = d
         ELSE /\ (fails => DbMayFail)
              /\ db' = IF fails THEN DbReadFails(DbFault(d))
                       ELSE IF rows \cap d.spoilt # {} THEN DbReadFails(SetLogdataField(d, rows))
                       ELSE [SetLogdataField(d, rows) EXCEPT !.events = @ + 1]

(* im_dbi_start(), im_dbi_test_savedpos(): where the row of the saved id   *)
(* is gone all is read again.                                              *)
TestSavedpos(d) == IF d.last # -1 /\ d.last \notin d.table THEN [d EXCEPT !.last = -1, !.redone = TRUE] ELSE d
DbStart ==
  /\ db.kind = "im_dbi" /\ db.status = "STOPPED"
  /\ db' = [TestSavedpos([db EXCEPT !.last = IF db.savepos THEN db.saved ELSE -1]) EXCEPT
              !.status = "RUNNING", !.events = @ + 1, !.failed = FALSE]

(* im_dbi_stop(), and a crash that forgets the position; the events end    *)
(* with the process.                                                       *)
DbStopForgets(crash) ==
  /\ db.kind = "im_dbi" /\ db.status # "STOPPED" /\ DbMayFail
  /\ db' = DbFault([db EXCEPT !.status = "STOPPED", !.events = 0])
DbStop(crash) ==
  /\ db.kind = "im_dbi" /\ db.status # "STOPPED" /\ DbMayFail
  /\ db' = DbFault([db EXCEPT !.status = "STOPPED", !.events = 0,
                              !.saved = IF db.savepos /\ ~crash THEN db.last ELSE @,
                              !.redone = @ \/ crash \/ ~db.savepos])

(* A pause comes after records filled a queue.                             *)
(* im_dbi_pause() removes the READ, im_dbi_resume() adds one if there is   *)
(* none.                                                                   *)
DbPause ==
  /\ db.kind = "im_dbi" /\ db.status = "RUNNING" /\ db.got # <<>> /\ DbMayFail
  /\ db' = DbFault([db EXCEPT !.status = "PAUSED", !.events = 0])
DbResume ==
  /\ db.kind = "im_dbi" /\ db.status = "PAUSED"
  /\ db' = [db EXCEPT !.status = "RUNNING", !.failed = FALSE, !.events = IF @ = 0 THEN 1 ELSE @]

-----------------------------------------------------------------------------
(* om_dbi.  om_dbi_error(): what looks like a lost connection stops the    *)
(* module and asks for a RECONNECT, any other error only throws.           *)
LooksLost(d, error) ==
  \/ error = "closed" /\ d.driver # "sqlite"
  \/ error = "client" /\ d.driver = "mysql"
DbError(d, error) ==
  IF LooksLost(d, error) THEN [d EXCEPT !.status = "STOPPED", !.later = @ + 1]
  ELSE [d EXCEPT !.failed = TRUE]

(* START or RECONNECT: om_dbi_start(), om_dbi_connect().  A client error   *)
(* of mysql asks for one more RECONNECT.                                   *)
DbConnect(error) ==
  /\ db.kind = "om_dbi" /\ db.status = "STOPPED" /\ (db.later = 0 => ~db.failed)
  /\ LET d == [db EXCEPT !.later = IF @ = 0 THEN 0 ELSE @ - 1]
     IN  IF error = "none"
         THEN db' = [d EXCEPT !.status = "RUNNING", !.events = IF d.queue # <<>> THEN 1 ELSE @]
         ELSE DbMayFail /\ db' = DbFault(DbError(d, error))

DbWriteResult(d, error) ==
  IF error = "none"
  THEN [d EXCEPT !.stored = Append(@, d.queue[1]), !.queue = Tail(@),
                 !.events = IF Len(d.queue) > 1 THEN 1 ELSE 0]
  ELSE DbError(d, error)
DbWrite(error, done) ==
  /\ db.kind = "om_dbi" /\ db.events > 0
  /\ LET d == [db EXCEPT !.events = 0]
     IN  IF d.status # "RUNNING" \/ d.queue = <<>> THEN error = "none" /\ ~done /\ db' = d
         ELSE IF error = "none" THEN ~done /\ db' = DbWriteResult(d, error)
         ELSE /\ DbMayFail
              /\ db' = DbFault(DbWriteResult(IF done THEN [d EXCEPT !.stored = Append(@, d.queue[1])] ELSE d,
                                             error))

-----------------------------------------------------------------------------
(* im_kafka.  Messages come in; READ enters the loop of im_kafka_read(),   *)
(* which polls while `run' is not 0 and does not come back to the module's *)
(* events.  An unknown topic or partition sets `run' to 0.                 *)
MessageArrives ==
  /\ db.kind = "im_kafka" /\ Cardinality(db.table) < DbRows
  /\ db' = [db EXCEPT !.table = @ \cup {Cardinality(db.table) + 1}]
KafkaStart ==
  /\ db.kind = "im_kafka" /\ db.status = "STOPPED"
  /\ db' = [db EXCEPT !.status = "RUNNING", !.events = 1]
KafkaRead ==
  /\ db.kind = "im_kafka" /\ db.events > 0 /\ ~db.reading
  /\ db' = [db EXCEPT !.events = 0, !.reading = db.status = "RUNNING" /\ db.run # 0,
                      !.crashed = db.status = "RUNNING" /\ db.run # 0 /\ ~db.handle]
KafkaPoll(unknown) ==
  /\ db.kind = "im_kafka" /\ db.reading
  /\ \/ unknown /\ DbMayFail /\ db' = DbFault([db EXCEPT !.run = 0, !.reading = FALSE, !.ended = TRUE])
     \/ /\ ~unknown /\ Len(db.got) < Cardinality(db.table)
        /\ db' = [db EXCEPT !.got = Append(@, Len(@) + 1)]

(* im_kafka_pause() is im_kafka_stop(): the consumer is destroyed, and     *)
(* `run' counts down from 5 while it waits for that.                       *)
KafkaStopped(d) == [d EXCEPT !.handle = FALSE, !.run = 4, !.events = 0]
KafkaPause ==
  /\ db.kind = "im_kafka" /\ ~db.reading /\ db.status = "RUNNING" /\ db.got # <<>> /\ DbMayFail
  /\ db' = DbFault([KafkaStopped(db) EXCEPT !.status = "PAUSED"])
KafkaResume ==
  /\ db.kind = "im_kafka" /\ ~db.reading /\ db.status = "PAUSED"
  /\ db' = [db EXCEPT !.status = "RUNNING", !.events = 1]

(* om_kafka_write(): a record librdkafka takes is let go, what becomes of  *)
(* it is only logged by msg_delivered(); one it has no room for stays, and *)
(* no event is left for it.                                                *)
ProduceStart ==
  /\ db.kind = "om_kafka" /\ db.status = "STOPPED"
  /\ db' = [db EXCEPT !.status = "RUNNING", !.events = IF db.queue # <<>> THEN 1 ELSE 0]
Produced(d) ==
  [d EXCEPT !.local = Append(@, d.queue[1]), !.queue = Tail(@),
            !.events = IF Len(d.queue) > 1 THEN 1 ELSE 0]
Produce(full) ==
  /\ db.kind = "om_kafka" /\ db.events > 0 /\ db.status = "RUNNING"
  /\ (full => DbMayFail) /\ db.queue # <<>>
  /\ db' = IF full THEN DbFault([db EXCEPT !.events = 0, !.failed = TRUE]) ELSE Produced(db)
MsgDelivered(error) ==
  /\ db.kind = "om_kafka" /\ db.local # <<>> /\ (error => DbMayFail)
  /\ db' = IF error THEN DbFault([db EXCEPT !.local = Tail(@), !.undelivered = @ \cup {db.local[1]}])
           ELSE [db EXCEPT !.local = Tail(@), !.stored = Append(@, db.local[1])]

StoresNext ==
  /\ ~db.crashed
  /\ \/ \E id \in 1..DbRows, b \in BOOLEAN : RowCommitted(id, b)
     \/ \E id \in 1..DbRows : RowDeleted(id)
     \/ \E b \in BOOLEAN : DbRead(b) \/ DbStop(b) \/ KafkaPoll(b) \/ Produce(b) \/ MsgDelivered(b)
     \/ DbStart \/ DbPause \/ DbResume
     \/ \E e \in {"none", "closed", "client", "other"} : DbConnect(e)
     \/ \E e \in {"none", "closed", "client", "other"}, done \in BOOLEAN : DbWrite(e, done)
     \/ MessageArrives \/ KafkaStart \/ KafkaRead \/ KafkaPause \/ KafkaResume \/ ProduceStart

StoresSpec == StoresInit /\ [][StoresNext]_db

-----------------------------------------------------------------------------
(* The values of the variables.                                            *)
StoresTypeOK ==
  /\ db.status \in {"STOPPED", "RUNNING", "PAUSED"} /\ db.events \in 0..2
  /\ db.last \in -1..DbRows /\ db.saved \in -1..DbRows /\ db.later \in 0..DbFaults
  /\ db.table \subseteq 1..DbRows /\ db.run \in {0, 1, 4}

(* im_dbi reads each row once and in the order of the ids, whatever pauses *)
(* and restarts there are, unless the saved position is lost; it passes by *)
(* rows that were committed after one with a greater id was read, and one  *)
(* it cannot convert.                                                      *)
RowsReadOnce ==
  (db.kind = "im_dbi" /\ ~db.redone) =>
    /\ \A i, j \in DOMAIN db.got : i < j => db.got[i] < db.got[j]
    /\ \A r \in db.table : r <= db.last => r \in DbAll(db.got) \cup db.late \cup db.spoilt

(* An output lets go of a record only after the store took it: om_dbi's    *)
(* records are all in the table, in order, some twice where an answer was  *)
(* lost; om_kafka's are in the topic or with librdkafka or reported as     *)
(* failed.                                                                 *)
StoredOrQueued ==
  /\ db.kind = "om_dbi" =>
       /\ \A i, j \in DOMAIN db.stored : i < j => db.stored[i] <= db.stored[j]
       /\ 1..DbRows = DbAll(db.stored) \cup DbAll(db.queue)
       /\ Len(db.stored) + Len(db.queue) <= DbRows + db.faults
  /\ db.kind = "om_kafka" =>
       1..DbRows = DbAll(db.stored) \cup DbAll(db.local) \cup db.undelivered \cup DbAll(db.queue)

(* im_dbi has one READ while it runs, so that no two chains of polls grow, *)
(* and an output with records has an event or a RECONNECT to come; both    *)
(* only until a handler fails.  The consumer im_kafka polls is there       *)
(* unless a pause found the loop ended.                                    *)
StoresGoOn ==
  /\ db.kind = "im_dbi" => db.events <= 1
  /\ (db.kind = "im_dbi" /\ db.status = "RUNNING" /\ ~db.failed) => db.events = 1
  /\ (db.kind \in {"om_dbi", "om_kafka"} /\ db.queue # <<>> /\ ~db.failed) =>
       db.events = 1 \/ db.later > 0 \/ (db.status = "STOPPED" /\ db.faults = 0)
  /\ (db.kind = "im_kafka" /\ (db.crashed \/ (db.status = "RUNNING" /\ db.events = 0 /\ ~db.reading)))
       => db.ended
=============================================================================
