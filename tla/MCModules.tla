---------------------------- MODULE MCModules -------------------------------
(***************************************************************************)
(* The modules that process, write and read records, checked one beside    *)
(* the other in one run, as MCCore does it: a behaviour is about one of    *)
(* them, its subject, and the variables of the others never change.        *)
(***************************************************************************)
EXTENDS FileOps, PmBuffer, Norepeat, Evcorr, PatternDb, OmHttp,
        SslLink, Datagram, ExecModules, Stores, ConfigCache, ImFile


VARIABLE subject

Subjects == {"fileops", "buffer", "norepeat", "evcorr", "pattern", "http",
             "ssl", "datagram", "exec", "stores", "cache", "file"}

Unused == "unused"
About(s) == subject = s

ModulesInit ==
  /\ subject \in Subjects
  /\ IF About("fileops") THEN FileOpsInit ELSE fs = Unused
  /\ IF About("buffer") THEN BufferInit ELSE bf = Unused
  /\ IF About("norepeat") THEN NorepeatInit ELSE nr = Unused
  /\ IF About("evcorr") THEN EvcorrInit ELSE ev = Unused
  /\ IF About("pattern") THEN PatternDbInit ELSE pd = Unused
  /\ IF About("http") THEN OmHttpInit ELSE ht = Unused
  /\ IF About("ssl") THEN SslInit ELSE sl = Unused
  /\ IF About("datagram") THEN DatagramInit ELSE dg = Unused
  /\ IF About("exec") THEN ExecInit ELSE xe = Unused
  /\ IF About("stores") THEN StoresInit ELSE db = Unused
  /\ IF About("cache") THEN ConfigCacheInit ELSE cc = Unused
  /\ IF About("file") THEN ImFileInit ELSE fi = Unused

ModulesNext ==
  /\ UNCHANGED subject
  /\ IF About("fileops") THEN FileOpsNext ELSE UNCHANGED fs
  /\ IF About("buffer") THEN BufferNext ELSE UNCHANGED bf
  /\ IF About("norepeat") THEN NorepeatNext ELSE UNCHANGED nr
  /\ IF About("evcorr") THEN EvcorrNext ELSE UNCHANGED ev
  /\ IF About("pattern") THEN PatternDbNext ELSE UNCHANGED pd
  /\ IF About("http") THEN OmHttpNext ELSE UNCHANGED ht
  /\ IF About("ssl") THEN SslNext ELSE UNCHANGED sl
  /\ IF About("datagram") THEN DatagramNext ELSE UNCHANGED dg
  /\ IF About("exec") THEN ExecNext ELSE UNCHANGED xe
  /\ IF About("stores") THEN StoresNext ELSE UNCHANGED db
  /\ IF About("cache") THEN ConfigCacheNext ELSE UNCHANGED cc
  /\ IF About("file") THEN ImFileNext ELSE UNCHANGED fi

modulesVars == <<subject, fs, bf, nr, ev, pd, ht, sl, dg, xe, db, cc, fi>>
ModulesSpec == ModulesInit /\ [][ModulesNext]_modulesVars
-----------------------------------------------------------------------------
(* Every component stays within its types.                                 *)
ModuleTypes ==
  /\ About("fileops") => FileOpsTypeOK
  /\ About("buffer") => BufferTypeOK
  /\ About("norepeat") => NorepeatTypeOK
  /\ About("evcorr") => EvcorrTypeOK
  /\ About("pattern") => PatternDbTypeOK
  /\ About("http") => OmHttpTypeOK
  /\ About("ssl") => SslTypeOK
  /\ About("datagram") => DatagramTypeOK
  /\ About("exec") => ExecTypeOK
  /\ About("stores") => StoresTypeOK
  /\ About("cache") => ConfigCacheTypeOK
  /\ About("file") => ImFileTypeOK

(* The processors that remember. PmBuffer: records are kept, in order,     *)
(* within the limit and never left lying; Norepeat: output and count       *)
(* together are the input; Evcorr: the rules execute when the history of   *)
(* records says so; PatternDb: databases are complete and captured fields  *)
(* are those of the pattern that matched (pm_buffer.c, pm_norepeat.c,      *)
(* pm_evcorr.c, patterndb_parser.c, patterndb.c).                          *)
ProcessorsSound ==
  /\ About("buffer") => NothingSkipped /\ BufferBounded /\ NotLeftLying
  /\ About("norepeat") => NorepeatLossless
  /\ About("evcorr") => EvcorrDecides /\ AbsenceReported
  /\ About("pattern") => LoadedComplete /\ CapturesOwn

(* Files that are written, rotated and read. FileOps, whose writes may be  *)
(* short or fail halfway: generations stay in order, each record is in its *)
(* file as a whole unless somebody else puts another file in its place     *)
(* meanwhile, doubled only after an error that had it written again, and   *)
(* the log goes where its name is;                                         *)
(* ImFile, whose files grow and are renamed, removed, truncated and        *)
(* replaced: the number of open files is bounded, no piece of a line is    *)
(* read twice, records are lines, and all lines are collected in the end;  *)
(* ConfigCache: over several lives a file is read on from where it was     *)
(* left (xm_fileop_funcproc_cb.c, om_file.c, error_debug.c, im_file.c,     *)
(* config_cache.c).                                                        *)
FilesSound ==
  /\ About("fileops") => CyclesKeepOrder /\ EachToItsFile /\ LogFollowed
  /\ About("file") => OpenFilesBounded /\ ReadOnce /\ LinesWhole /\ FilesCollected
  /\ About("cache") => ReadsOn /\ CountsWithPosition


=============================================================================
