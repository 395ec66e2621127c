------------------------------- MODULE ImFile -------------------------------
(***************************************************************************)
(* im_file (src/modules/input/file/im_file.c) with the linebased reader    *)
(* (src/common/readerfuncs.c): which files it knows, which of them it has  *)
(* open, where it is in each, and how it finds out that one was extended,  *)
(* truncated, replaced, deleted or renamed.  The files change between any  *)
(* two handlers and between two turns of the read loop.                    *)
(*                                                                         *)
(* A line is two pieces, <<r, 1>> and <<r, 2>>, the second with the line   *)
(* feed; sizes and positions count pieces.  Delayed events are due at any  *)
(* time.  SavePos is TRUE and File is a constant.                          *)
(***************************************************************************)
EXTENDS Naturals, Sequences, FiniteSets

CONSTANTS FiNames,     \* names of files; without a wildcard, File is FiWatched
          FiWatched,
          None,        \* no file
          active_files, IM_FILE_MAX_READ,
          bufsize,     \* pieces in the buffer
          FiLines,     \* bound: lines written
          FiOps        \* bound: files truncated, deleted or renamed, calls that
                       \* fail, stops and pauses

ASSUME ImFileAssumption ==
  /\ FiWatched \in FiNames /\ None \notin FiNames
  /\ {active_files, IM_FILE_MAX_READ, bufsize} \subseteq Nat \ {0}
  /\ {FiLines, FiOps} \subseteq Nat

VARIABLE fi
(***************************************************************************)
(* wild, renamecheck, closewhenidle, readfromlast   the configuration      *)
(* disk, data   the file a name stands for (0: none); of each file its     *)
(*              contents and its mtime                                     *)
(* files    imconf->files: NoFile, or what is known of the file            *)
(* open, inp    imconf->open_files, and the input of each: descriptor,     *)
(*              offset, buffer, and the incomplete line in input->ctx      *)
(* currsrc, modified   imconf->currsrc and imconf->non_active_modified     *)
(* cache    the positions in the config cache, 0 without one               *)
(* status, poll, dircheck, pausing   module status; its events             *)
(* phase, origin, todo, at, num, evcnt    the handler that runs            *)
(* lines, ops     counted for the bounds                                   *)
(* got      history: records added to the route, as pieces                 *)
(* dropped  history: incomplete lines closed with their input              *)
(* skipped  history: pieces passed over by ReadFromLast, and whether that  *)
(*          was at the start                                               *)
(* worst    history: the worst that happened to a file, "write", "delete"  *)
(*          or "other"                                                     *)
(* rounds   history: reads followed by a check of the directory, counted   *)
(*          twice, since anything changed, while worst is "write"          *)
(***************************************************************************)

Inodes == 1..(Cardinality(FiNames) + FiOps)
NoFile  == [inode |-> 0, pos |-> 0, size |-> 0, new_size |-> 0, mtime |-> 0, eof |-> 0,
            black |-> "none"]
NoInput == [inode |-> 0, off |-> 0, buf |-> <<>>, held |-> <<>>]
Pieces  == (1..FiLines) \X {1, 2}

FiElements(s) == {s[i] : i \in DOMAIN s}
Known(s)     == {n \in FiNames : s.files[n] # NoFile}

FiRounds == 6   \* what rounds is counted to

ImFileInit ==
  \E wild, renamecheck, closewhenidle, readfromlast \in BOOLEAN :
    /\ renamecheck => wild /\ ~readfromlast
    /\ closewhenidle => wild /\ ~readfromlast /\ ~renamecheck
    /\ fi = [wild |-> wild, renamecheck |-> renamecheck, closewhenidle |-> closewhenidle,
          readfromlast |-> readfromlast,
          disk |-> [n \in FiNames |-> 0], data |-> [i \in Inodes |-> [tok |-> <<>>, mtime |-> 0]],
          files |-> [n \in FiNames |-> NoFile], open |-> <<>>, inp |-> [n \in FiNames |-> NoInput],
          currsrc |-> None, modified |-> FALSE, cache |-> [n \in FiNames |-> 0],
          status |-> "STOPPED", poll |-> FALSE, dircheck |-> FALSE, pausing |-> FALSE,
          phase |-> "idle", origin |-> "start", todo |-> {}, at |-> None, num |-> 0, evcnt |-> 0,
          lines |-> 0, ops |-> 0,
          got |-> <<>>, dropped |-> {}, skipped |-> {}, worst |-> "write", rounds |-> 0]

-----------------------------------------------------------------------------
(* Those who write, truncate, delete and rename the files.                 *)
Fresh == CHOOSE i \in Inodes : (\A n \in FiNames : fi.disk[n] # i) /\ fi.data[i].mtime = 0

HalfWritten(tok) == tok # <<>> /\ tok[Len(tok)][2] = 1

FiQuiet == fi.phase \in {"idle", "read"}

FiWrite(n) ==
  LET i   == IF fi.disk[n] = 0 THEN Fresh ELSE fi.disk[n]
      tok == fi.data[i].tok
      p   == IF HalfWritten(tok) THEN <<tok[Len(tok)][1], 2>> ELSE <<fi.lines + 1, 1>>
  IN  /\ p[1] <= FiLines /\ FiQuiet
      /\ fi' = [fi EXCEPT !.disk[n] = i, !.data[i] = [tok |-> Append(tok, p), mtime |-> @.mtime + 1],
                          !.lines = IF p[2] = 1 THEN @ + 1 ELSE @, !.rounds = 0]

FiDisturb(n) == FiQuiet /\ fi.ops < FiOps /\ fi.disk[n] # 0

FiTruncate(n) ==
  /\ FiDisturb(n)
  /\ fi' = [fi EXCEPT !.data[fi.disk[n]] = [tok |-> <<>>, mtime |-> @.mtime + 1],
                      !.ops = @ + 1, !.worst = "other", !.rounds = 0]

FiDelete(n) ==
  /\ FiDisturb(n)
  /\ fi' = [fi EXCEPT !.disk[n] = 0, !.ops = @ + 1, !.rounds = 0,
                      !.worst = IF @ = "write" THEN "delete" ELSE @]

FiRename(n, m) ==
  /\ FiDisturb(n) /\ n # m
  /\ fi' = [fi EXCEPT !.disk = [@ EXCEPT ![n] = 0, ![m] = fi.disk[n]],
                      !.ops = @ + 1, !.worst = "other", !.rounds = 0]

-----------------------------------------------------------------------------
Size(s, i) == Len(s.data[i].tok)

After(open, n) ==
  LET later == {k \in 2..Len(open) : open[k - 1] = n}
  IN  IF later = {} THEN None ELSE open[CHOOSE k \in later : TRUE]

(* im_file_input_get_filepos()                                             *)
FileposLast(s, n) == s.files[n].pos
Filepos(s, n) ==
  LET i == s.inp[n] IN IF i.off >= Len(i.buf) THEN i.off - Len(i.buf) ELSE i.off

(* im_file_input_close(); the linebased reader has no flush function.      *)
InputClose(s, n) ==
  IF n \notin FiElements(s.open) THEN s
  ELSE [s EXCEPT !.open = SelectSeq(@, LAMBDA m : m # n), !.inp[n] = NoInput,
                 !.currsrc = IF @ = n THEN After(s.open, n) ELSE @,
                 !.files[n].pos = Filepos(s, n),
                 !.dropped = @ \cup FiElements(s.inp[n].held)]

(* im_file_input_blacklist(): no look at the file "until" some time, which *)
(* is then "past".                                                         *)
Blacklist(s, n) == [InputClose(s, n) EXCEPT !.files[n].black = "until"]
BlackPasses(n) ==
  /\ fi.files[n].black = "until" /\ fi.phase = "idle"
  /\ fi' = [fi EXCEPT !.files[n].black = "past", !.rounds = 0]

Forget(s, n) == [InputClose(s, n) EXCEPT !.files[n] = NoFile, !.cache[n] = 0]

(* im_file_input_open(): the file is opened at its position, or at its end *)
(* for ReadFromLast, unless it is open already, and looked at.             *)
Descriptor(s, n, last) ==
  LET i    == s.disk[n]
      from == IF s.files[n].pos > 0 THEN s.files[n].pos
              ELSE IF last THEN Size(s, i) ELSE 0
  IN  [s EXCEPT !.open = Append(@, n), !.inp[n] = [NoInput EXCEPT !.inode = i, !.off = from],
                !.files[n].pos = from, !.files[n].black = "none",
                !.skipped = IF s.files[n].pos = 0
                            THEN @ \cup {<<s.data[i].tok[k], s.origin>> : k \in 1..from} ELSE @]

LookedAt(s, n) ==
  LET i    == s.inp[n].inode
      size == Size(s, i)
      back == s.files[n].pos > size
  IN  [s EXCEPT !.files[n].inode = i, !.files[n].mtime = s.data[i].mtime, !.files[n].size = size,
                !.files[n].new_size = size, !.files[n].eof = 0,
                !.files[n].pos = IF back THEN 0 ELSE @, !.inp[n].off = IF back THEN 0 ELSE @]

InputOpenUnlimited(s, n, last, existed, fails) ==
  LET isopen == n \in FiElements(s.open)
      o      == LookedAt(IF isopen THEN s ELSE Descriptor(s, n, last), n)
  IN  IF s.files[n].black = "until" THEN s
      ELSE IF fails THEN Blacklist(s, n)
      ELSE IF ~isopen /\ s.disk[n] = 0 THEN (IF existed THEN Forget(s, n) ELSE Blacklist(s, n))
      ELSE o
InputOpen(s, n, last, existed, fails) ==
  LET isopen == n \in FiElements(s.open)
      o      == LookedAt(IF isopen THEN s ELSE Descriptor(s, n, last), n)
  IN  IF s.files[n].black = "until" THEN s
      ELSE IF fails THEN Blacklist(s, n)
      ELSE IF ~isopen /\ s.disk[n] = 0 THEN (IF existed THEN Forget(s, n) ELSE Blacklist(s, n))
      ELSE IF ~isopen /\ Len(o.open) > active_files THEN InputClose(o, n) ELSE o

(* im_file_input_check_close()                                             *)
AtEof(s)     == {k \in DOMAIN s.open : s.files[s.open[k]].eof > 0}
CanOpen(s)   == Len(s.open) < active_files \/ AtEof(s) # {}
CheckCloseNever(s) == s
CheckClose(s) ==
  IF Len(s.open) < active_files \/ AtEof(s) = {} THEN s
  ELSE InputClose(s, s.open[CHOOSE k \in AtEof(s) : \A j \in AtEof(s) : k <= j])

(* What im_file_check_file() makes of apr_stat(): a changed inode closes   *)
(* the file and begins at 0, as does a size below the position.            *)
Replaced(s, n) == s.files[n].inode # s.disk[n]
Changed(s, n) ==
  LET f == s.files[n]
      i == s.disk[n]
  IN  \/ f.inode # i \/ f.mtime # s.data[i].mtime \/ f.size < Size(s, i)
      \/ f.pos > Size(s, i) \/ f.pos < Size(s, i)
Stated(s, n) ==
  LET size  == Size(s, s.disk[n])
      r     == [InputClose(s, n) EXCEPT !.cache[n] = 0, !.files[n].pos = 0, !.files[n].inode = 0]
      t     == IF Replaced(s, n) THEN r ELSE s
      short == t.files[n].pos > size
  IN  [t EXCEPT !.files[n].size = IF short THEN 0 ELSE @, !.cache[n] = IF short THEN 0 ELSE @,
                !.files[n].new_size = size]

(* im_file_check_file(): [s, new].                                         *)
CheckFile(s, n, fails) ==
  LET f == s.files[n]
  IN  IF f.black = "until" THEN [s |-> s, new |-> FALSE]
      ELSE IF f.new_size > f.pos
      THEN [s |-> IF CanOpen(s) THEN InputOpen(CheckClose(s), n, FALSE, TRUE, fails) ELSE s,
            new |-> TRUE]
      ELSE IF s.disk[n] = 0
      THEN [s |-> IF f.black = "past" /\ ~s.wild THEN Blacklist(s, n) ELSE Forget(s, n),
            new |-> FALSE]
      ELSE IF fails THEN [s |-> Blacklist(s, n), new |-> FALSE]
      ELSE IF f.inode = 0
      THEN [s |-> InputOpen(CheckClose(s), n, FALSE, TRUE, FALSE), new |-> FALSE]
      ELSE IF Changed(s, n)
      THEN [s |-> InputOpen(CheckClose(Stated(s, n)), n, FALSE, TRUE, FALSE), new |-> TRUE]
      ELSE [s |-> s, new |-> FALSE]

(* im_file_check_rename() and im_file_add_file().                          *)
Renamed(s, n) == {m \in Known(s) : /\ s.disk[n] # 0 /\ s.files[m].inode = s.disk[n]
                                   /\ s.files[m].size = Size(s, s.disk[n])}
Fetched(s, n) ==
  LET t == [s EXCEPT !.files[n] = [NoFile EXCEPT !.pos = s.cache[n], !.black = "past"]]
  IN  IF s.renamecheck /\ Renamed(s, n) # {}
      THEN LET m == CHOOSE m \in Renamed(s, n) : TRUE
               u == [t EXCEPT !.files[n].pos = s.files[m].pos]
           IN  [InputClose(u, m) EXCEPT !.files[m] = NoFile]
      ELSE t
AddFile(s, n, last, fails) ==
  LET t == InputOpen(CheckClose(Fetched(s, n)), n, last, s.cache[n] > 0, fails)
  IN  IF n \in Known(s) THEN s ELSE t

-----------------------------------------------------------------------------
FiFail(fails) == fails => fi.ops < FiOps
FilesCounted(s, fails) == [s EXCEPT !.ops = IF fails THEN @ + 1 ELSE @]

(* im_file_start(), and the begin of im_file_dircheck_event_cb(): each     *)
(* does im_file_check_new() first.                                         *)
FiStart ==
  /\ fi.phase = "idle" /\ fi.status = "STOPPED"
  /\ fi' = [fi EXCEPT !.status = "RUNNING", !.phase = "new",
                      !.todo = IF fi.wild THEN FiNames ELSE {FiWatched}]

Dircheck ==
  /\ fi.phase = "idle" /\ fi.dircheck
  /\ fi' = [fi EXCEPT !.dircheck = FALSE, !.phase = "new", !.origin = "dircheck",
                      !.modified = @ \/ Cardinality(Known(fi)) > Len(fi.open),
                      !.todo = IF fi.wild THEN FiNames ELSE {FiWatched}]

(* A directory entry of im_file_glob_dir(), or the one file.               *)
CheckNew(n, fails) ==
  /\ fi.phase = "new" /\ n \in fi.todo /\ FiFail(fails)
  /\ fi' = FilesCounted([(IF fi.wild /\ fi.disk[n] = 0 THEN fi
                     ELSE AddFile(fi, n, fi.readfromlast /\ (fi.wild => fi.origin = "start"), fails))
                    EXCEPT !.todo = fi.todo \ {n}], fails)

Head1(s) == IF s = <<>> THEN None ELSE s[1]

NewDone ==
  /\ fi.phase = "new" /\ fi.todo = {}
  /\ fi' = IF fi.origin = "start"
           THEN [fi EXCEPT !.phase = "idle", !.poll = TRUE, !.dircheck = TRUE]
           ELSE [fi EXCEPT !.phase = "open", !.at = Head1(fi.open), !.num = 0]

(* im_file_check_files(): the open files, and then the others.             *)
CheckOpen(fails) ==
  /\ fi.phase = "open" /\ fi.at # None /\ FiFail(fails)
  /\ LET c == CheckFile(fi, fi.at, fails)
     IN  fi' = FilesCounted([c.s EXCEPT !.at = After(fi.open, fi.at),
                                   !.num = IF c.new THEN @ + 1 ELSE @], fails)

OpenDone ==
  /\ fi.phase = "open" /\ fi.at = None
  /\ fi' = [fi EXCEPT !.phase = "closed", !.todo = Known(fi), !.modified = FALSE]

Full == fi.modified /\ fi.num >= active_files

CheckClosed(n, fails) ==
  /\ fi.phase = "closed" /\ n \in fi.todo /\ ~Full /\ FiFail(fails)
  /\ LET c    == CheckFile(fi, n, fails)
         look == fi.files[n] # NoFile /\ n \notin FiElements(fi.open)
     IN  /\ fails => look
         /\ fi' = FilesCounted([(IF look THEN c.s ELSE fi) EXCEPT
                             !.todo = fi.todo \ {n},
                             !.modified = @ \/ (look /\ c.new),
                             !.num = IF look /\ c.new THEN @ + 1 ELSE @], fails)

(* The end of im_file_dircheck_event_cb() and of im_file_read().           *)
ClosedDone ==
  /\ fi.phase = "closed" /\ (fi.todo = {} \/ Full)
  /\ fi' = [fi EXCEPT !.phase = "idle", !.todo = {}, !.num = 0, !.dircheck = TRUE,
                      !.poll = @ \/ fi.origin = "read" \/ fi.num > 0,
                      !.rounds = IF fi.origin = "dircheck" /\ @ % 2 = 1 THEN @ + 1 ELSE @,
                      !.origin = "none"]

-----------------------------------------------------------------------------
(* nx_module_input_func_linereader() on an input: [rec, inp].              *)
LineFeeds(buf) == {k \in DOMAIN buf : buf[k][2] = 2}
LineForgets(i) ==
  IF LineFeeds(i.buf) = {}
  THEN [rec |-> <<>>, inp |-> [i EXCEPT !.held = i.buf, !.buf = <<>>]]
  ELSE LET k == CHOOSE k \in LineFeeds(i.buf) : \A j \in LineFeeds(i.buf) : k <= j
       IN  [rec |-> SubSeq(i.buf, 1, k),
            inp |-> [i EXCEPT !.held = <<>>, !.buf = SubSeq(@, k + 1, Len(@))]]
Line(i) ==
  IF LineFeeds(i.buf) = {}
  THEN [rec |-> <<>>, inp |-> [i EXCEPT !.held = @ \o i.buf, !.buf = <<>>]]
  ELSE LET k == CHOOSE k \in LineFeeds(i.buf) : \A j \in LineFeeds(i.buf) : k <= j
       IN  [rec |-> i.held \o SubSeq(i.buf, 1, k),
            inp |-> [i EXCEPT !.held = <<>>, !.buf = SubSeq(@, k + 1, Len(@))]]

(* im_file_fill_buffer() on an empty buffer.                               *)
Filled(s, n) ==
  LET i == s.inp[n]
      e == IF i.off + bufsize < Size(s, i.inode) THEN i.off + bufsize ELSE Size(s, i.inode)
  IN  [i EXCEPT !.buf = SubSeq(s.data[i.inode].tok, i.off + 1, e), !.off = IF e > @ THEN e ELSE @]

FiRead ==
  /\ fi.phase = "idle" /\ fi.poll
  /\ fi' = [fi EXCEPT !.poll = FALSE, !.phase = "read", !.evcnt = 0, !.origin = "read",
                      !.currsrc = IF @ = None THEN Head1(fi.open) ELSE @]

GoesOn == fi.status = "RUNNING" /\ fi.evcnt < IM_FILE_MAX_READ /\ fi.currsrc # None

Emitted(s, n, l) ==
  [s EXCEPT !.inp[n] = l.inp, !.got = Append(@, l.rec), !.evcnt = @ + 1]

(* An end of file without a record: on to the next file.                   *)
Eof(s) ==
  LET n == s.currsrc
      t == [s EXCEPT !.files[n].size = IF s.files[n].new_size > 0 THEN s.files[n].new_size ELSE @,
                     !.files[n].pos = IF s.files[n].new_size > 0 THEN s.files[n].new_size ELSE @,
                     !.files[n].eof = IF @ < 2 THEN @ + 1 ELSE @,
                     !.currsrc = After(s.open, n)]
  IN  IF s.closewhenidle THEN InputClose(t, n) ELSE t

(* One turn of the loop of im_file_read().                                 *)
ReadOne(fails) ==
  /\ fi.phase = "read" /\ GoesOn /\ FiFail(fails)
  /\ LET n    == fi.currsrc
         l    == Line(fi.inp[n])
         save == [fi EXCEPT !.inp[n] = l.inp, !.files[n].pos = l.inp.off, !.cache[n] = l.inp.off]
         fill == [save EXCEPT !.inp[n] = Filled(save, n), !.files[n].black = "none"]
         bad  == Blacklist(save, n)
         m    == bad.currsrc
         again(s, k) == Line(s.inp[k])
     IN  fi' = FilesCounted(
           IF l.rec # <<>> THEN [Emitted(fi, n, l) EXCEPT !.files[n].eof = 0]
           ELSE IF fails
           THEN IF m = None THEN bad
                ELSE IF again(bad, m).rec # <<>> THEN Emitted(bad, m, again(bad, m))
                ELSE Eof([bad EXCEPT !.inp[m] = again(bad, m).inp])
           ELSE IF fill.inp[n].buf = <<>> THEN Eof(fill)
           ELSE IF again(fill, n).rec # <<>>
           THEN [Emitted(fill, n, again(fill, n)) EXCEPT !.files[n].eof = 0]
           ELSE [fill EXCEPT !.inp[n] = again(fill, n).inp, !.files[n].eof = 0],
           fails /\ l.rec = <<>>)

ReadDone ==
  /\ fi.phase = "read" /\ ~GoesOn
  /\ LET s == [fi EXCEPT !.evcnt = 0,
                          !.rounds = IF fi.worst = "write" /\ @ % 2 = 0 /\ @ < FiRounds
                                     THEN @ + 1 ELSE @]
     IN  fi' = IF fi.status # "RUNNING" THEN [s EXCEPT !.phase = "idle"]
               ELSE IF fi.evcnt < IM_FILE_MAX_READ /\ fi.modified
               THEN [s EXCEPT !.phase = "closed", !.num = 0, !.todo = Known(fi), !.modified = FALSE]
               ELSE [s EXCEPT !.phase = "idle", !.poll = TRUE]

(* A full queue posts PAUSE while a record is added; the event is handled  *)
(* later, and takes the poll event away.  Later on the module is resumed.  *)
FiPausePosted ==
  /\ fi.status = "RUNNING" /\ fi.phase = "read" /\ fi.evcnt > 0 /\ fi.ops < FiOps
  /\ ~fi.pausing
  /\ fi' = [fi EXCEPT !.pausing = TRUE, !.ops = @ + 1]

FiPause ==
  /\ fi.pausing /\ fi.phase = "idle"
  /\ fi' = IF fi.status = "RUNNING"
           THEN [fi EXCEPT !.pausing = FALSE, !.status = "PAUSED", !.poll = FALSE, !.rounds = 0]
           ELSE [fi EXCEPT !.pausing = FALSE]

FiResume ==
  /\ fi.status = "PAUSED" /\ fi.phase = "idle"
  /\ fi' = [fi EXCEPT !.status = "RUNNING", !.poll = TRUE, !.rounds = 0]

(* im_file_stop()                                                          *)
FiStop ==
  /\ fi.status # "STOPPED" /\ fi.phase = "idle" /\ fi.ops < FiOps
  /\ LET pos(n) == IF n \in FiElements(fi.open) THEN Filepos(fi, n) ELSE fi.files[n].pos
     IN  fi' = [fi EXCEPT !.status = "STOPPED", !.open = <<>>, !.currsrc = None,
                  !.inp = [n \in FiNames |-> NoInput], !.files = [n \in FiNames |-> NoFile],
                  !.cache = [n \in FiNames |-> IF n \in Known(fi) THEN pos(n) ELSE @[n]],
                  !.dropped = @ \cup UNION {FiElements(fi.inp[n].held) : n \in FiNames},
                  !.poll = FALSE, !.dircheck = FALSE, !.origin = "start",
                  !.ops = @ + 1, !.rounds = 0]

FiHandler ==
  \/ FiStart \/ Dircheck \/ NewDone \/ OpenDone \/ ClosedDone \/ FiRead \/ ReadDone
  \/ \E fails \in BOOLEAN :
       \/ CheckOpen(fails) \/ ReadOne(fails)
       \/ \E n \in FiNames : CheckNew(n, fails) \/ CheckClosed(n, fails)

ImFileNext ==
  \/ FiHandler \/ FiPausePosted \/ FiPause \/ FiResume \/ FiStop
  \/ \E n \in FiNames :
       \/ FiWrite(n) \/ FiTruncate(n) \/ FiDelete(n) \/ BlackPasses(n)
       \/ \E m \in FiNames : FiRename(n, m)

ImFileSpec == ImFileInit /\ [][ImFileNext]_fi

-----------------------------------------------------------------------------
(* The values of the variables.                                            *)
ImFileTypeOK ==
  /\ fi.disk \in [FiNames -> Inodes \cup {0}]
  /\ fi.open \in Seq(FiNames) /\ fi.currsrc \in FiNames \cup {None}
  /\ fi.status \in {"STOPPED", "RUNNING", "PAUSED"}
  /\ fi.phase \in {"idle", "new", "open", "closed", "read"}
  /\ fi.cache \in [FiNames -> Nat]
  /\ fi.dropped \subseteq Pieces

(* No more than ActiveFiles files are open; the current source is one of   *)
(* them; what is open is known.                                            *)
OpenFilesBounded ==
  /\ Len(fi.open) <= active_files
  /\ fi.currsrc # None => fi.currsrc \in FiElements(fi.open)
  /\ FiElements(fi.open) \subseteq Known(fi)
  /\ \A n \in FiNames : (fi.inp[n] # NoInput) <=> (n \in FiElements(fi.open))

GotPieces == UNION {FiElements(fi.got[k]) : k \in DOMAIN fi.got}
SkippedPieces == {x[1] : x \in fi.skipped}

(* Unless a file is truncated or renamed to another watched name, however  *)
(* often files are replaced, closed for others, fail to open or the module *)
(* is stopped, no piece of a line is read twice.                           *)
ReadOnce ==
  fi.worst # "other" =>
    \A j, k \in DOMAIN fi.got : FiElements(fi.got[j]) \cap FiElements(fi.got[k]) # {} => j = k

(* While files are only written to, a record is one line, whole unless its *)
(* first half was dropped with its input or passed over at the start.      *)
LinesWhole ==
  fi.worst = "write" =>
    \A k \in DOMAIN fi.got : \E r \in 1..FiLines :
      \/ fi.got[k] = <<<<r, 1>>, <<r, 2>>>>
      \/ fi.got[k] = <<<<r, 2>>>> /\ <<r, 1>> \in fi.dropped \cup SkippedPieces

(* doc/.../input/file.adoc, ActiveFiles: "all data should be collected     *)
(* eventually".  When files are only written to and nothing has changed    *)
(* for a number of checks and reads, every line has been read, is held for *)
(* its second half, was dropped or was there before ReadFromLast.          *)
FilesCollected ==
  (fi.worst = "write" /\ fi.status = "RUNNING" /\ fi.rounds >= FiRounds
   /\ \A n \in FiNames : fi.files[n].black # "until") =>
    \A n \in {n \in FiNames : fi.disk[n] # 0 /\ (fi.wild \/ n = FiWatched)} :
      FiElements(fi.data[fi.disk[n]].tok)
        \subseteq GotPieces \cup SkippedPieces \cup fi.dropped \cup FiElements(fi.inp[n].held)
=============================================================================
