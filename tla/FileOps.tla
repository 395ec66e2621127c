------------------------------ MODULE FileOps ------------------------------
(***************************************************************************)
(* Files that are written while they are renamed and removed: om_file      *)
(* (src/modules/output/file) or the internal logger on one side, and the   *)
(* procedures of xm_fileop and om_file's rotate_to() and reopen() on the   *)
(* other.  A name leads to an inode; an open file is an inode, whatever    *)
(* name it has by then.  All of it runs in the writer's own job; the       *)
(* procedures may come between a failed or short write and the next        *)
(* attempt.  A record is two halves, so that a write can be short: the     *)
(* halves of record r are the numbers 2r - 1 and 2r.                       *)
(***************************************************************************)
EXTENDS Naturals, Sequences, FiniteSets

CONSTANTS
  FsRecords,   \* bound: records written
  FsOps,       \* bound: procedures called
  FsFaults     \* bound: system calls that fail

ASSUME FileOpsAssumption == {FsRecords, FsOps, FsFaults} \subseteq Nat

(* The file, what file_cycle() makes of it, and another file.              *)
Gen     == <<"f1", "f2", "f3">>
FsNames == {"f", "g"} \cup {Gen[i] : i \in 1..3}

Halves(r) == <<2 * r - 1, 2 * r>>
RecordOf(h) == (h + 1) \div 2

VARIABLE fs
(***************************************************************************)
(* fs.writer   "static" and "dynamic": om_file with a fixed File, and with *)
(*             an expression; "logger"                                     *)
(* fs.truncate, fs.sync   om_file's directives                             *)
(* fs.names    what the File expression is for each record                 *)
(* fs.dir      the inode of each name, 0 for none                          *)
(* fs.data     the contents of the inodes: halves of records               *)
(* fs.fd       the inode the writer has open, 0 for none                   *)
(* fs.name     omconf->filename, "" before the first record of a dynamic   *)
(* fs.running  om_file's status                                            *)
(* fs.buf      what is still to be written of the record in the buffer     *)
(* fs.taken    how many records have been put into the buffer              *)
(* fs.crashed  the process was ended by the use of a file that is not open *)
(* fs.ops, fs.faults                                                       *)
(* fs.sent     history: the records that are done with, and the file name  *)
(* fs.again    history: the records an error made om_file write again that *)
(*             were written, or half of which was                          *)
(* fs.clashed  history: file_cycle() could not rename a generation         *)
(* fs.touched  history: something other than cycling and reopening was     *)
(*             done to the files                                           *)
(* fs.detached history: the file was taken away from the logger            *)
(***************************************************************************)

FileOpsInit ==
  \E w \in {"static", "dynamic", "logger"}, tr, sy \in BOOLEAN,
     names \in [1..FsRecords -> {"f", "g"}] :
    /\ w = "logger" => ~tr /\ ~sy
    /\ w # "dynamic" => \A r \in 1..FsRecords : names[r] = "f"
    /\ fs = [writer |-> w, truncate |-> tr, sync |-> sy, names |-> names,
             dir |-> [n \in FsNames |-> IF n = "f" /\ w # "dynamic" THEN 1 ELSE 0],
             data |-> IF w # "dynamic" THEN <<<<>>>> ELSE <<>>,
             fd |-> IF w # "dynamic" THEN 1 ELSE 0,
             name |-> IF w # "dynamic" THEN "f" ELSE "",
             running |-> TRUE, buf |-> <<>>, taken |-> 0, crashed |-> FALSE,
             ops |-> 0, faults |-> 0, sent |-> <<>>, again |-> {}, clashed |-> FALSE,
             touched |-> FALSE, detached |-> FALSE]

(* om_file_open(), and the logger's: append, create if missing.            *)
Opened(s, n) ==
  IF s.dir[n] # 0 THEN [s EXCEPT !.fd = s.dir[n]]
  ELSE [s EXCEPT !.data = Append(@, <<>>), !.dir[n] = Len(s.data) + 1,
                 !.fd = Len(s.data) + 1]

(* om_file_close()                                                         *)
OmClose(s) == [s EXCEPT !.fd = 0]

Fault(s) == [s EXCEPT !.faults = @ + 1]

(* What can happen in one turn of the loop of om_file_write(): all goes    *)
(* well, the write is short, or a call throws: opening the file,           *)
(* truncating it, writing, syncing it after all was written, syncing it or *)
(* watching it for POLLOUT after half was written (a file on disk cannot   *)
(* be watched).                                                            *)
Fates == {"ok", "short", "noopen", "notruncate", "nowrite", "nosync", "nopoll"}

(* Mutants of Written: the record is dropped with the error; the rest of a *)
(* short write is forgotten.                                               *)
WrittenOrDropped(s, fate) ==
  LET r == RecordOf(s.buf[1])
  IN  IF fate = "ok" THEN [s EXCEPT !.data[s.fd] = @ \o s.buf, !.buf = <<>>,
                                    !.sent = Append(@, <<r, s.name>>)]
      ELSE [Fault(s) EXCEPT !.buf = <<>>]

WrittenShort(s, fate) ==
  LET r == RecordOf(s.buf[1])
  IN  IF fate = "ok" \/ Len(s.buf) = 1
      THEN [s EXCEPT !.data[s.fd] = @ \o s.buf, !.buf = <<>>, !.sent = Append(@, <<r, s.name>>)]
      ELSE [Fault(s) EXCEPT !.data[s.fd] = Append(@, s.buf[1]), !.buf = <<>>,
                            !.sent = Append(@, <<r, s.name>>)]

(* apr_file_write() and what follows it.  What was written leaves the      *)
(* buffer after the sync and the watching for POLLOUT only, so an error    *)
(* there has it written again.  (in_pollset, which spares watching twice,  *)
(* is left out.)                                                           *)
Written(s, fate) ==
  LET r == RecordOf(s.buf[1])
      n == CASE fate \in {"ok", "nosync"} -> Len(s.buf) [] fate = "nowrite" -> 0 [] OTHER -> 1
      o == [s EXCEPT !.data[s.fd] = @ \o SubSeq(s.buf, 1, n)]
      rest == SubSeq(s.buf, n + 1, Len(s.buf))
  IN  CASE fate = "ok" -> [o EXCEPT !.buf = <<>>, !.sent = Append(@, <<r, s.name>>)]
        [] fate = "short" -> [Fault(o) EXCEPT !.buf = rest]
        [] fate = "nowrite" -> Fault(o)
        [] OTHER -> [Fault(o) EXCEPT !.again = @ \cup {r}]

OpenIfClosed(s) == IF s.fd = 0 THEN Opened(s, s.name) ELSE s

(* om_file_write(): a record that is not in the buffer yet is peeked.  If  *)
(* om_file_update_filename() gives another name, the file is closed and    *)
(* the new one opened; the file is truncated; the record is put into the   *)
(* buffer.  It is then written to the open file, which is opened first if  *)
(* it is not.  Only a new name opens the file before it is truncated.      *)
FsWrite(fate) ==
  LET fresh == fs.buf = <<>>
      named == fresh /\ fs.writer = "dynamic" /\ fs.names[fs.taken + 1] # fs.name
      s == IF named THEN OmClose([fs EXCEPT !.name = fs.names[fs.taken + 1]]) ELSE fs
      o == IF named THEN OpenIfClosed(s) ELSE s
      load(t) == IF fresh THEN [t EXCEPT !.buf = Halves(t.taken + 1), !.taken = @ + 1] ELSE t
      cut(t) == IF fresh /\ t.truncate THEN [t EXCEPT !.data[t.fd] = <<>>] ELSE t
  IN  /\ fs.running /\ ~fs.crashed
      /\ fs.buf # <<>> \/ fs.taken < FsRecords
      /\ fate = "ok" \/ (fs.faults < FsFaults /\ fs.writer # "logger")
      /\ \/ /\ fresh /\ fs.truncate /\ o.fd = 0 /\ fate = "ok"
            /\ fs' = [o EXCEPT !.crashed = TRUE]
         \/ fate = "noopen" /\ named /\ fs' = Fault(s)
         \/ fate = "notruncate" /\ fresh /\ fs.truncate /\ o.fd # 0 /\ fs' = Fault(o)
         \/ /\ ~(fresh /\ fs.truncate /\ o.fd = 0)
            /\ \/ fate = "noopen" /\ ~named /\ o.fd = 0 /\ fs' = Fault(load(cut(o)))
               \/ /\ fate \in {"ok", "short", "nowrite", "nosync", "nopoll"}
                  /\ fate = "nosync" => fs.sync
                  /\ fate \in {"short", "nopoll"} => Len(load(o).buf) = 2
                  /\ fs' = Written(OpenIfClosed(load(cut(o))), fate)

(* om_file->reopen(): the opening may fail, the next write tries again.    *)
Reopen(ok) ==
  /\ fs.running /\ ~fs.crashed /\ fs.name # "" /\ fs.writer # "logger"
  /\ fs.ops < FsOps /\ (ok \/ fs.faults < FsFaults)
  /\ LET s == [OmClose(fs) EXCEPT !.ops = @ + 1]
     IN  fs' = IF ok THEN Opened(s, s.name) ELSE Fault(s)

(* om_file->rotate_to(): stop, rename, start.  If the file is not there or *)
(* cannot be renamed, the module stays stopped.                            *)
RotateTo(n, ok) ==
  /\ fs.running /\ ~fs.crashed /\ fs.name \notin {"", n} /\ fs.writer # "logger"
  /\ fs.ops < FsOps /\ (ok \/ fs.faults < FsFaults)
  /\ LET s == [OmClose(fs) EXCEPT !.ops = @ + 1, !.touched = TRUE]
         moved == [s EXCEPT !.dir = [@ EXCEPT ![n] = s.dir[s.name], ![s.name] = 0]]
     IN  fs' = IF ~ok THEN [Fault(s) EXCEPT !.running = FALSE]
               ELSE IF s.dir[s.name] = 0 THEN [s EXCEPT !.running = FALSE]
               ELSE IF s.writer = "dynamic" THEN moved ELSE Opened(moved, s.name)

(* Mutant of ReopenLogfile: the logger keeps the file it has.              *)
ReopenLogfileNot(s, n) == s

(* _reopen_logfile()                                                       *)
ReopenLogfile(s, n) == IF s.writer = "logger" /\ n = "f" THEN Opened(s, n) ELSE s

(* How many of f.1, f.2, ... there are before the first that is missing.   *)
Generations(dir) ==
  CHOOSE k \in 0..3 : /\ \A i \in 1..k : dir[Gen[i]] # 0
                      /\ k < 3 => dir[Gen[k + 1]] = 0

(* Mutant of Cycled: the generations are moved oldest last.                *)
CycledForward(dir, max, failed) ==
  [n \in FsNames |-> IF n = "f" THEN 0 ELSE IF n = "g" THEN dir[n] ELSE dir["f"]]

(* file_cycle(): with a max, the generations from max on are removed; the  *)
(* others move up by one, the last first, and the file becomes f.1.  A     *)
(* rename that fails leaves its file where it is, to be overwritten by the *)
(* next one.                                                               *)
Cycled(dir, max, failed) ==
  LET k == Generations(dir)
      last == IF max > 0 /\ k >= max THEN max - 1 ELSE k
      at(i) == IF i = 0 THEN dir["f"] ELSE dir[Gen[i]]
      left(i) == IF i \in (last + 1)..k THEN 0 ELSE at(i)
      after(i) == IF i - 1 > last THEN left(i)
                  ELSE IF i - 1 \notin failed THEN at(i - 1)
                  ELSE IF i > last THEN left(i) ELSE 0
  IN  [n \in FsNames |-> IF n = "g" THEN dir[n]
                         ELSE IF n = "f" THEN IF 0 \in failed THEN dir["f"] ELSE 0
                         ELSE after(CHOOSE i \in 1..3 : Gen[i] = n)]

(* The procedures of xm_fileop run in any statement of the module.         *)
MayCall == fs.ops < FsOps /\ ~fs.crashed

FileCycle(max, failed) ==
  /\ MayCall /\ fs.dir["f"] # 0
  /\ max > 0 \/ Generations(fs.dir) < 3
  /\ fs.faults + Cardinality(failed) <= FsFaults
  /\ fs' = ReopenLogfile([fs EXCEPT !.ops = @ + 1, !.faults = @ + Cardinality(failed),
                                    !.clashed = @ \/ failed # {}, !.dir = Cycled(@, max, failed)], "f")

Touch(s) == [s EXCEPT !.ops = @ + 1, !.touched = TRUE]

(* Taking the logger's file away, or putting another in its place.         *)
Away(s, n) == [s EXCEPT !.detached = @ \/ (s.writer = "logger" /\ n = "f")]

(* file_rename(): only the old name is looked at for the logger.           *)
FileRename(a, b) ==
  /\ MayCall /\ fs.dir[a] # 0
  /\ fs' = ReopenLogfile(Away([Touch(fs) EXCEPT !.dir = [@ EXCEPT ![b] = fs.dir[a], ![a] = 0]],
                              b), a)

(* file_copy(), file_append() and file_write() change the inode behind b,  *)
(* or create it; file_truncate() empties it; file_link() adds a name.      *)
Put(s, b, content) ==
  IF s.dir[b] # 0 THEN [s EXCEPT !.data[s.dir[b]] = content]
  ELSE [s EXCEPT !.data = Append(@, content), !.dir[b] = Len(s.data) + 1]

Content(s, n) == IF s.dir[n] = 0 THEN <<>> ELSE s.data[s.dir[n]]

FileCopy(a, b) ==
  /\ MayCall /\ fs.dir[a] \notin {0, fs.dir[b]}
  /\ fs' = Put(Touch(fs), b, Content(fs, a))

FileAppend(a, b) ==
  /\ MayCall /\ fs.dir[a] \notin {0, fs.dir[b]}
  /\ fs' = Put(Touch(fs), b, Content(fs, b) \o Content(fs, a))

FileWrite(b) == MayCall /\ fs' = Put(Touch(fs), b, Append(Content(fs, b), 0))

FileTruncate(b) == MayCall /\ fs' = Put(Touch(fs), b, <<>>)

FileLink(a, b) ==
  /\ MayCall /\ fs.dir[a] # 0 /\ fs.dir[b] = 0
  /\ fs' = [Touch(fs) EXCEPT !.dir[b] = fs.dir[a]]

(* file_remove(): only with a wildcard is the logger looked after.         *)
FileRemove(n, wildcard) ==
  /\ MayCall /\ fs.dir[n] # 0
  /\ LET s == [Touch(fs) EXCEPT !.dir[n] = 0]
     IN  fs' = IF wildcard THEN ReopenLogfile(s, n) ELSE Away(s, n)

FileOpsNext ==
  \/ \E fate \in Fates : FsWrite(fate)
  \/ \E ok \in BOOLEAN : Reopen(ok) \/ RotateTo("g", ok)
  \/ \E max \in {0, 1, 2}, failed \in {{}} \cup {{i} : i \in 0..Generations(fs.dir)} :
       FileCycle(max, failed)
  \/ \E a, b \in {"f", "g"} :
       a # b /\ (FileRename(a, b) \/ FileCopy(a, b) \/ FileAppend(a, b) \/ FileLink(a, b))
  \/ \E n \in {"f", "g"} : FileWrite(n) \/ FileTruncate(n) \/ \E w \in BOOLEAN : FileRemove(n, w)

FileOpsSpec == FileOpsInit /\ [][FileOpsNext]_fs
-----------------------------------------------------------------------------
(* Type invariant.                                                         *)
FileOpsTypeOK ==
  /\ \A n \in FsNames : fs.dir[n] \in 0..Len(fs.data)
  /\ fs.fd \in 0..Len(fs.data) /\ fs.running \in BOOLEAN /\ Len(fs.buf) <= 2

(* What is found in f.3, f.2, f.1 and f, read in this order.               *)
OldestFirst == Content(fs, "f3") \o Content(fs, "f2") \o Content(fs, "f1") \o Content(fs, "f")

(* However cycling, reopening, short and failing writes are mixed, the     *)
(* files together hold the records in the order they were taken, and a     *)
(* piece is there twice only if an error made om_file write that record    *)
(* again.  Unless a generation could not be renamed or the file is         *)
(* truncated on purpose, nothing is missing but whole generations at the   *)
(* old end: the rest of a short write follows its first half.              *)
CyclesKeepOrder ==
  (fs.writer # "dynamic" /\ ~fs.touched) =>
    /\ \A i, j \in 1..Len(OldestFirst) : i < j =>
         \/ OldestFirst[i] < OldestFirst[j]
         \/ RecordOf(OldestFirst[i]) = RecordOf(OldestFirst[j])
            /\ RecordOf(OldestFirst[i]) \in fs.again
    /\ (~fs.clashed /\ ~fs.truncate) =>
         /\ \A i \in 1..(Len(OldestFirst) - 1) : OldestFirst[i + 1] <= OldestFirst[i] + 1
         /\ OldestFirst # <<>> =>
              OldestFirst[Len(OldestFirst)] >= IF fs.buf = <<>> THEN 2 * fs.taken
                                               ELSE fs.buf[1] - 1

(* The records in a file.                                                  *)
RecordsIn(i) == {RecordOf(fs.data[i][k]) : k \in 1..Len(fs.data[i])}
FsPieces(i) == {fs.data[i][k] : k \in 1..Len(fs.data[i])}

(* om_file is done with the records one by one and in order.  As long as   *)
(* nobody else renames or reopens files, each is written as a whole to the *)
(* file its own expression named and nowhere else, although a short write  *)
(* leaves the rest to a later event and other names come in between; and a *)
(* file that is to be truncated holds the last of its records.  om_file    *)
(* only stops by itself when a rotation fails, and dies only of truncating *)
(* a file that rotating or an error left closed.                           *)
EachToItsFile ==
  /\ \A i \in 1..Len(fs.sent) : fs.sent[i][1] = i
  /\ (fs.ops = 0 /\ fs.writer = "dynamic") =>
       \A i \in 1..Len(fs.sent) :
         LET d == fs.dir[fs.sent[i][2]]
             final == \A k \in (i + 1)..fs.taken : fs.names[k] # fs.sent[i][2]
         IN  /\ fs.sent[i][2] = fs.names[i]
             /\ \A e \in 1..Len(fs.data) \ {d} : i \notin RecordsIn(e)
             /\ ~fs.truncate => {2 * i - 1, 2 * i} \subseteq FsPieces(d)
             /\ (fs.truncate /\ final) => /\ {2 * i - 1, 2 * i} \subseteq FsPieces(d)
                                          /\ fs.running => RecordsIn(d) = {i}
  /\ ~fs.running => fs.touched /\ fs.fd = 0
  /\ fs.crashed => fs.truncate /\ fs.fd = 0 /\ (fs.ops > 0 \/ fs.faults > 0)

(* The logger's messages go to the file of its name as long as nobody      *)
(* takes it away by a plain file_remove() or by renaming another over it.  *)
LogFollowed ==
  (fs.writer = "logger" /\ ~fs.detached) => fs.fd # 0 /\ fs.fd = fs.dir["f"]
=============================================================================
