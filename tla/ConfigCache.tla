---------------------------- MODULE ConfigCache -----------------------------
(***************************************************************************)
(* configcache.dat over several lives of the process, reloads among them   *)
(* (src/common/config_cache.c): a table in memory that is read at the      *)
(* start and written at the end, and the positions and line counts that    *)
(* im_file keeps in it (im_file_add_file(), im_file_input_open(),          *)
(* im_file_read(), im_file_stop()).  Two decisions make it more than a     *)
(* map: what nobody asked for in a life is not written again, and a table  *)
(* with nothing in it is not written at all.  How the file is cut short by *)
(* a crash is in Restart.                                                  *)
(***************************************************************************)
EXTENDS Integers, FiniteSets

CONSTANTS
  CcFiles,   \* the files im_file may read
  CcBits,    \* width of the int a position is cast to
  CcMaxPos,  \* bound: a position
  CcLives,   \* bound: starts and reloads
  CcOps      \* bound: what happens in one life

ASSUME ConfigCacheAssumption ==
  CcBits \in Nat \ {0} /\ CcMaxPos \in Nat /\ CcLives \in Nat /\ CcOps \in Nat

CcKeys == CcFiles \X {"pos", "count"}
Absent == <<>>

VARIABLE cc
(***************************************************************************)
(* cc.up      the process runs                                             *)
(* cc.nocache, cc.savepos  the directives NoCache and SavePos of this life *)
(* cc.table   ctx->config_cache: no item, or a value and item->used        *)
(* cc.file    configcache.dat: a value or none for each key                *)
(* cc.files   imconf->files: position and line count of the known files    *)
(* cc.lives, cc.ops  starts, and operations in this life                   *)
(* cc.truth   history: how far each file was read, Absent when it is new   *)
(* cc.dirty   history: files whose truth changed in this life              *)
(* cc.asked   history: files whose position was asked for or saved in it   *)
(* cc.lost    history: files of which the last that happened was not saved *)
(* cc.dropped history: files not asked for in a life that was saved        *)
(* cc.apart   history: files whose position went back without the count    *)
(* cc.got     history: what a file was just opened with                    *)
(***************************************************************************)

ConfigCacheInit ==
  cc = [up |-> FALSE, nocache |-> FALSE, savepos |-> TRUE,
        table |-> [k \in CcKeys |-> Absent], file |-> [k \in CcKeys |-> Absent],
        files |-> [f \in CcFiles |-> Absent], lives |-> 0, ops |-> 0,
        truth |-> [f \in CcFiles |-> Absent], dirty |-> {}, asked |-> {}, lost |-> {},
        dropped |-> {}, apart |-> {}, got |-> Absent]

(* (int) of a position.                                                    *)
ToInt(p) == ((p + 2^(CcBits - 1)) % (2^CcBits)) - 2^(CcBits - 1)

(* nx_config_cache_get_int(): what is read is used.                        *)
CcValue(s, k) == IF s.table[k] = Absent THEN Absent ELSE <<s.table[k][1].value>>
CcGet(s, k) == IF s.table[k] = Absent THEN s ELSE [s EXCEPT !.table[k][1].used = TRUE]

(* Mutant of CcSet: only what is read is used.                             *)
CcSetUnmarked(s, k, v) ==
  [s EXCEPT !.table[k] = <<[value |-> v, used |-> @ # Absent /\ @[1].used]>>]

(* nx_config_cache_set_int().                                              *)
CcSet(s, k, v) == [s EXCEPT !.table[k] = <<[value |-> v, used |-> TRUE]>>]

(* Mutant of CcRemove: the item stays in the table.                        *)
CcRemoveMarks(s, k) == [s EXCEPT !.files = [f \in CcFiles |-> IF f = k[1] THEN Absent ELSE @[f]]]

(* nx_config_cache_remove().                                               *)
CcRemove(s, k) == [s EXCEPT !.table[k] = Absent]

(* nx_config_cache_read(), for a new context.                              *)
CacheRead(s) ==
  [s EXCEPT !.table = [k \in CcKeys |-> IF s.nocache \/ s.file[k] = Absent THEN Absent
                                        ELSE <<[value |-> s.file[k][1], used |-> FALSE]>>]]

(* The process, or a reload, starts with the table of the file.            *)
CacheStart ==
  /\ ~cc.up /\ cc.lives < CcLives
  /\ \E nocache, savepos \in BOOLEAN :
       cc' = CacheRead([cc EXCEPT !.up = TRUE, !.nocache = nocache, !.savepos = savepos,
                                  !.lives = @ + 1])

(* im_file_add_file(): where reading goes on, from the start when there is *)
(* no position above 0.                                                    *)
CcAddFile(f) ==
  LET pos   == CcValue(cc, <<f, "pos">>)
      count == CcValue(cc, <<f, "count">>)
      from  == [pos   |-> IF pos # Absent /\ pos[1] > 0 THEN pos[1] ELSE 0,
                count |-> IF count # Absent THEN count[1] ELSE 0]
      saved == [CcGet(CcGet(cc, <<f, "pos">>), <<f, "count">>) EXCEPT
                  !.files[f] = <<from>>, !.asked = @ \cup {f},
                  !.got = <<[file |-> f, pos |-> pos, count |-> count]>>,
                  !.apart = IF pos # Absent /\ pos[1] < 0 THEN @ \cup {f} ELSE @]
      anew  == [cc EXCEPT !.files[f] = <<[pos |-> 0, count |-> 0]>>, !.got = Absent]
  IN  /\ cc.up /\ cc.files[f] = Absent /\ cc.ops < CcOps
      /\ cc' = [IF cc.savepos THEN saved ELSE anew EXCEPT !.ops = @ + 1]

(* Mutant of SavePosition: only the position is saved.                     *)
SavePositionOnly(s, f) == CcSet(s, <<f, "pos">>, ToInt(s.files[f][1].pos))

(* How far a file was read, and the number of lines, a line a position.    *)
SavePosition(s, f) ==
  CcSet(CcSet(s, <<f, "pos">>, ToInt(s.files[f][1].pos)), <<f, "count">>, s.files[f][1].count)

CcHappened(s, f, truth) ==
  [s EXCEPT !.ops = @ + 1, !.truth[f] = truth, !.dirty = @ \cup {f}, !.asked = @ \cup {f},
            !.dropped = @ \ {f}, !.got = Absent]

(* im_file_read() has read up to p and saves it, whatever SavePos says.    *)
ReadOn(f, p) ==
  /\ cc.up /\ cc.ops < CcOps /\ cc.files[f] # Absent /\ p > cc.files[f][1].pos
  /\ LET read == [cc EXCEPT !.files[f] = <<[pos |-> p, count |-> @[1].count + p - @[1].pos]>>]
     IN  read.files[f][1].count <= CcMaxPos /\ cc' = CcHappened(SavePosition(read, f), f, <<p>>)

(* im_file_check_file() finds another file of that name: both are set to   *)
(* 0, but the count that im_file itself keeps goes on.                     *)
FileReplaced(f) ==
  /\ cc.up /\ cc.ops < CcOps /\ cc.files[f] # Absent
  /\ LET zero == CcSet(CcSet(cc, <<f, "pos">>, 0), <<f, "count">>, 0)
     IN  cc' = CcHappened([zero EXCEPT !.files[f][1].pos = 0, !.apart = @ \cup {f}], f, <<0>>)

(* The file is gone: found out in im_file_check_file(), or, and then       *)
(* without its count of lines, in im_file_input_open().                    *)
FileDeleted(f, half) ==
  LET s == CcRemove(cc, <<f, "pos">>)
      t == IF half THEN [s EXCEPT !.apart = @ \cup {f}] ELSE CcRemove(s, <<f, "count">>)
  IN  /\ cc.up /\ cc.ops < CcOps /\ cc.files[f] # Absent
      /\ cc' = CcHappened([t EXCEPT !.files[f] = Absent], f, Absent)

(* im_file_stop(): all known files, unless SavePos is FALSE.               *)
StopFiles(s) ==
  LET known == {f \in CcFiles : s.savepos /\ s.files[f] # Absent}
      item(k) == IF k[2] = "pos" THEN ToInt(s.files[k[1]][1].pos) ELSE s.files[k[1]][1].count
  IN  [s EXCEPT !.table = [k \in CcKeys |->
                             IF k[1] \in known THEN <<[value |-> item(k), used |-> TRUE]>> ELSE @[k]],
                !.truth = [f \in CcFiles |-> IF f \in known THEN <<s.files[f][1].pos>> ELSE @[f]],
                !.dirty = @ \cup known]

(* Mutant of CacheWrite: the test of item->used the wrong way round.       *)
CacheWriteUnused(s, opens) ==
  IF s.nocache \/ ~opens THEN [s EXCEPT !.lost = @ \cup s.dirty]
  ELSE LET out == {k \in CcKeys : s.table[k] = Absent \/ s.table[k][1].used}
       IN  [s EXCEPT !.file = [k \in CcKeys |->
                                 IF k \in out THEN Absent ELSE <<s.table[k][1].value>>],
                     !.lost = {}]

(* nx_config_cache_write(): not for NoCache, not for an empty table, not   *)
(* if the file cannot be opened; and then what was used.                   *)
CacheWrite(s, opens) ==
  IF s.nocache \/ ~opens \/ \A k \in CcKeys : s.table[k] = Absent
  THEN [s EXCEPT !.lost = @ \cup s.dirty]
  ELSE LET out == {k \in CcKeys : s.table[k] = Absent \/ ~s.table[k][1].used}
       IN  [s EXCEPT !.file = [k \in CcKeys |->
                                 IF k \in out THEN Absent ELSE <<s.table[k][1].value>>],
                     !.lost = {},
                     !.dropped = @ \cup {f \in CcFiles : f \notin s.asked /\ s.truth[f] # Absent}]

(* The end of a life: nxlog_shutdown(), nxlog_reload(), or a crash.        *)
LifeEnds(s) ==
  [s EXCEPT !.up = FALSE, !.table = [k \in CcKeys |-> Absent],
            !.files = [f \in CcFiles |-> Absent], !.dirty = {}, !.asked = {},
            !.ops = 0, !.got = Absent]
CacheStop ==
  /\ cc.up
  /\ \E opens \in BOOLEAN : cc' = LifeEnds(CacheWrite(StopFiles(cc), opens))
CacheCrash == cc.up /\ cc' = LifeEnds([cc EXCEPT !.lost = @ \cup cc.dirty])

ConfigCacheNext ==
  \/ CacheStart \/ CacheStop \/ CacheCrash
  \/ \E f \in CcFiles : CcAddFile(f) \/ FileReplaced(f)
  \/ \E f \in CcFiles, p \in 1..CcMaxPos : ReadOn(f, p)
  \/ \E f \in CcFiles, half \in BOOLEAN : FileDeleted(f, half)

ConfigCacheSpec == ConfigCacheInit /\ [][ConfigCacheNext]_cc
-----------------------------------------------------------------------------
(* The values of the variable.                                             *)
ConfigCacheTypeOK ==
  /\ cc.up \in BOOLEAN /\ cc.nocache \in BOOLEAN /\ cc.lives \in 0..CcLives
  /\ DOMAIN cc.table = CcKeys /\ DOMAIN cc.file = CcKeys
  /\ UNION {cc.dirty, cc.lost, cc.dropped, cc.apart} \subseteq CcFiles
  /\ ~cc.up => \A k \in CcKeys : cc.table[k] = Absent

(* A file is read on from where reading it ended, however many lives ago   *)
(* and whatever else was read in between; it is read from its start only   *)
(* if it is new, a life went by in which it was not read, or NoCache is    *)
(* set.  Otherwise its last position was not saved (a crash, NoCache, a    *)
(* cache file that could not be opened, a table with nothing left in it),  *)
(* or did not fit in an int (config_cache.c:212-236, 252-255,              *)
(* im_file.c:960).                                                         *)
ReadsOn ==
  cc.got # Absent =>
    LET g == cc.got[1]
        t == cc.truth[g.file]
    IN  \/ g.file \in cc.lost
        \/ g.pos = t
        \/ g.pos = Absent /\ (g.file \in cc.dropped \/ cc.nocache)
        \/ t # Absent /\ t[1] >= 2^(CcBits - 1)

(* A file's count of lines is that of the position it is read from, unless *)
(* its position went back to the start without the count: the file was     *)
(* replaced, was found deleted when it was opened (im_file.c:325, 420), or *)
(* its position did not fit in an int.                                     *)
CountsWithPosition ==
  cc.got # Absent =>
    LET g == cc.got[1]
    IN  \/ g.file \in cc.apart
        \/ g.pos = Absent /\ g.count = Absent
        \/ g.pos # Absent /\ g.count = g.pos
=============================================================================
