------------------------------- MODULE PidFile -------------------------------
(***************************************************************************)
(* Starting, stopping and crashing instances of nxlog around one pid file, *)
(* and `nxlog -s' and `nxlog -r' (src/core/main-unix.c).  Between two      *)
(* system calls other processes go on, so each call on the pid file is a   *)
(* step.  The lock is a lock of fcntl(): it belongs to a process and goes  *)
(* when that closes the file or ends.                                      *)
(***************************************************************************)
EXTENDS Naturals, Sequences, FiniteSets

CONSTANTS PfInstances,   \* the instances, 1..PfInstances
          PfTries,       \* NX_MAX_PIDFILE_LOCK_TRIES, 15 in the code
          PfStarts,      \* bound: starts of instances
          PfTools,       \* bound: calls of nxlog -s
          PfFaults       \* bound: crashes and failed starts

ASSUME PidFileAssumption ==
  /\ PfInstances \in Nat /\ PfTries \in Nat \ {0}
  /\ PfStarts \in Nat /\ PfTools \in Nat /\ PfFaults \in Nat

Tool == PfInstances + 1
PfProcs == 1..Tool

VARIABLE pf
(***************************************************************************)
(* pc       what each process is at                                        *)
(* fd       the file each has open as nxlog->pidf (0: none)                *)
(* fg       runs in the foreground                                         *)
(* pid      the pid each one read from the file (0: none)                  *)
(* tries    left for the lock                                              *)
(* path     the file that has the name of the pid file (0: none)           *)
(* text, lock    of each file: the pid in it, the process that has locked  *)
(* dropped  the instance has given up its privileges                       *)
(* term     instances with nxlog->terminate_request set                    *)
(* open     the directory can be written without privileges                *)
(* raced    history: the name was removed from a file that another had     *)
(*          open and the remover had not locked, or an instance goes on to *)
(*          run with the lock of a file without the name                   *)
(* over     history: a pid was written into a file another had locked      *)
(***************************************************************************)
PfFiles == 1..2 * PfStarts + PfTools
PidFileInit ==
  \E open \in BOOLEAN, fg \in [1..PfInstances -> BOOLEAN] :
    pf = [pc |-> [p \in PfProcs |-> "down"], fd |-> [p \in PfProcs |-> 0], fg |-> fg,
          pid |-> [p \in PfProcs |-> 0], tries |-> [p \in PfProcs |-> 0], path |-> 0, made |-> 0,
          text |-> [f \in PfFiles |-> 0], lock |-> [f \in PfFiles |-> 0], dropped |-> {}, term |-> {},
          open |-> open, raced |-> FALSE, over |-> FALSE, starts |-> 0, tools |-> 0, faults |-> 0]

PfAt(p, pc) == pf.pc[p] = pc
PfGo(s, p, pc) == [s EXCEPT !.pc[p] = pc]

(* The calls on the file.                                                  *)
PfMayCreate(s, p) == s.path # 0 \/ s.open \/ p \notin s.dropped
OpenPid(s, p) ==
  IF s.path # 0 THEN [s EXCEPT !.fd[p] = s.path]
  ELSE [s EXCEPT !.made = @ + 1, !.path = s.made + 1, !.fd[p] = s.made + 1]
Lockable(s, p) == s.lock[s.fd[p]] \in {0, p}
LockPid(s, p) == [s EXCEPT !.lock[s.fd[p]] = p]
LockToRun(s, p) == [LockPid(s, p) EXCEPT !.raced = @ \/ s.path # s.fd[p]]
ClosePid(s, p) ==
  IF s.fd[p] = 0 THEN s
  ELSE [s EXCEPT !.lock[s.fd[p]] = IF @ = p THEN 0 ELSE @, !.fd[p] = 0]
RemovePid(s, p) ==
  IF s.path = 0 \/ (~s.open /\ p \in s.dropped) THEN s
  ELSE [s EXCEPT !.raced = @ \/ (s.lock[s.path] # p /\ \E q \in PfProcs \ {p} : s.fd[q] = s.path),
                 !.path = 0]
WritePid(s, p) ==
  [s EXCEPT !.text[s.fd[p]] = p, !.over = @ \/ s.lock[s.fd[p]] \notin {0, p}]

-----------------------------------------------------------------------------
(* main(): nxlog_check_pidfile() looks at the pid in the file, opens it,   *)
(* and tries the lock only where there was a pid.                          *)
Launch(p) ==
  /\ PfAt(p, "down") /\ pf.starts < PfStarts
  /\ pf' = PfGo([pf EXCEPT !.starts = @ + 1,
                           !.pid[p] = IF pf.path = 0 THEN 0 ELSE pf.text[pf.path]], p, "open")
PidfileOpen(p) ==
  /\ PfAt(p, "open")
  /\ pf' = PfGo(OpenPid(pf, p), p, "check")
CheckLock(p) ==
  /\ PfAt(p, "check")
  /\ pf' = IF pf.pid[p] = 0 THEN PfGo(pf, p, "print")
           ELSE IF Lockable(pf, p) THEN PfGo(LockPid(pf, p), p, "print") ELSE PfGo(pf, p, "exit")
CheckPrint(p) ==
  /\ PfAt(p, "print")
  /\ pf' = PfGo(WritePid(pf, p), p, "config")

(* The modules are configured; nxlog_daemonize() gives the lock up,        *)
(* removes the pid file if it can be had again, and closes it; an error    *)
(* leads to nxlog_exit(1).                                                 *)
PidfileConfig(p, fails) ==
  /\ PfAt(p, "config") /\ (fails => pf.faults < PfFaults)
  /\ pf' = IF fails THEN PfGo([pf EXCEPT !.faults = @ + 1], p, "exit")
           ELSE PfGo(pf, p, IF pf.fg[p] THEN "privs" ELSE "daemon")
DaemonUnlock(p) ==
  /\ PfAt(p, "daemon")
  /\ pf' = PfGo([pf EXCEPT !.lock[pf.fd[p]] = IF @ = p THEN 0 ELSE @], p, "relock")
DaemonLock(p) ==
  /\ PfAt(p, "relock")
  /\ pf' = IF Lockable(pf, p) THEN PfGo(LockPid(pf, p), p, "unlink")
           ELSE PfGo(ClosePid(pf, p), p, "privs")
DaemonRemove(p) ==
  /\ PfAt(p, "unlink")
  /\ pf' = PfGo(RemovePid(pf, p), p, "detach")
DaemonDetach(p) ==
  /\ PfAt(p, "detach")
  /\ pf' = PfGo(ClosePid(pf, p), p, "privs")

(* nx_ctx_init_modules() and nxlog_drop_privs(), with a User or without.   *)
DropPrivs(p, user) ==
  /\ PfAt(p, "privs")
  /\ pf' = PfGo([pf EXCEPT !.dropped = IF user THEN @ \cup {p} ELSE @,
                           !.tries[p] = PfTries], p, "create")

(* nxlog_create_pidfile()                                                  *)
CreateOpen(p) ==
  /\ PfAt(p, "create") /\ pf.fd[p] = 0
  /\ pf' = IF PfMayCreate(pf, p) THEN OpenPid(pf, p) ELSE PfGo(pf, p, "exit")
CreateLockAnyway(p) ==
  /\ PfAt(p, "create") /\ pf.fd[p] # 0
  /\ pf' = IF Lockable(pf, p) THEN PfGo(LockToRun(pf, p), p, "write")
           ELSE IF pf.tries[p] = 1 THEN PfGo(pf, p, "write")
           ELSE [pf EXCEPT !.tries[p] = @ - 1]
CreateLock(p) ==
  /\ PfAt(p, "create") /\ pf.fd[p] # 0
  /\ pf' = IF Lockable(pf, p) THEN PfGo(LockToRun(pf, p), p, "write")
           ELSE IF pf.tries[p] = 1 THEN PfGo(pf, p, "exit")
           ELSE [pf EXCEPT !.tries[p] = @ - 1]
CreateWriteNot(p) ==
  /\ PfAt(p, "write")
  /\ pf' = PfGo(pf, p, "running")
CreateWrite(p) ==
  /\ PfAt(p, "write")
  /\ pf' = PfGo(WritePid(pf, p), p, "running")

(* nxlog_exit() with nxlog_remove_pidfile(): after SIGTERM or an error.    *)
Terminate(p) ==
  /\ PfAt(p, "running") /\ p \in pf.term
  /\ pf' = PfGo(pf, p, "exit")
ExitLock(p) ==
  /\ PfAt(p, "exit")
  /\ pf' = IF pf.fd[p] # 0 /\ Lockable(pf, p) THEN PfGo(LockPid(pf, p), p, "remove")
           ELSE PfGo([ClosePid(pf, p) EXCEPT !.dropped = @ \ {p}, !.term = @ \ {p}], p, "down")
ExitRemove(p) ==
  /\ PfAt(p, "remove")
  /\ pf' = PfGo(RemovePid(pf, p), p, "close")
ExitClose(p) ==
  /\ PfAt(p, "close")
  /\ pf' = PfGo([ClosePid(pf, p) EXCEPT !.dropped = @ \ {p}, !.term = @ \ {p}], p, "down")

(* A crash, or SIGTERM before nxlog_setup_signals().                       *)
Killed(s, p) == PfGo([ClosePid(s, p) EXCEPT !.dropped = @ \ {p}, !.term = @ \ {p}], p, "down")
Crash(p) ==
  /\ ~PfAt(p, "down") /\ pf.faults < PfFaults
  /\ pf' = Killed([pf EXCEPT !.faults = @ + 1], p)

-----------------------------------------------------------------------------
(* nxlog_stop() and nxlog_send_sighup(): a file that can be locked is      *)
(* stale and removed, after it was closed; else the pid in it gets the     *)
(* signal, and nxlog_stop() waits for the lock.  Where there is no such    *)
(* process, or it does not end in time, nxlog_stop() throws with the file  *)
(* open, and nxlog_exit() takes it for its own.                            *)
ToolOpen ==
  /\ PfAt(Tool, "down") /\ pf.path # 0 /\ pf.tools < PfTools
  /\ pf' = PfGo([pf EXCEPT !.tools = @ + 1, !.tries[Tool] = PfTries], Tool, "open")
ToolReopen ==
  /\ PfAt(Tool, "open")
  /\ pf' = PfGo(OpenPid(pf, Tool), Tool, "check")
ToolLock ==
  /\ PfAt(Tool, "check")
  /\ pf' = IF Lockable(pf, Tool) THEN PfGo(ClosePid(pf, Tool), Tool, "stale")
           ELSE PfGo([pf EXCEPT !.pid[Tool] = pf.text[pf.fd[Tool]]], Tool, "signal")
ToolRemove ==
  /\ PfAt(Tool, "stale")
  /\ pf' = PfGo(RemovePid(pf, Tool), Tool, "down")
HasHandler(p) == pf.pc[p] \in {"privs", "create", "write", "running"}
ToolTerm ==
  /\ PfAt(Tool, "signal")
  /\ LET p == pf.pid[Tool]
     IN  pf' = IF p = 0 THEN PfGo(ClosePid(pf, Tool), Tool, "down")
               ELSE IF PfAt(p, "down") THEN PfGo(pf, Tool, "exit")
               ELSE IF HasHandler(p) THEN PfGo([pf EXCEPT !.term = @ \cup {p}], Tool, "wait")
               ELSE PfGo(Killed(pf, p), Tool, "wait")
ToolHup ==
  /\ PfAt(Tool, "signal")
  /\ pf' = PfGo(ClosePid(pf, Tool), Tool, "down")
ToolWait ==
  /\ PfAt(Tool, "wait")
  /\ pf' = IF Lockable(pf, Tool) THEN PfGo(ClosePid(pf, Tool), Tool, "down")
           ELSE IF pf.tries[Tool] = 1 THEN PfGo(pf, Tool, "exit")
           ELSE [pf EXCEPT !.tries[Tool] = @ - 1]

PidFileNext ==
  \/ \E p \in 1..PfInstances :
       \/ Launch(p) \/ PidfileOpen(p) \/ CheckLock(p) \/ CheckPrint(p)
       \/ DaemonUnlock(p) \/ DaemonLock(p) \/ DaemonRemove(p) \/ DaemonDetach(p)
       \/ CreateOpen(p) \/ CreateLock(p) \/ CreateWrite(p)
       \/ Terminate(p) \/ ExitLock(p) \/ ExitRemove(p) \/ ExitClose(p) \/ Crash(p)
       \/ \E b \in BOOLEAN : PidfileConfig(p, b) \/ DropPrivs(p, b)
  \/ ExitLock(Tool) \/ ExitRemove(Tool) \/ ExitClose(Tool)
  \/ ToolOpen \/ ToolReopen \/ ToolLock \/ ToolRemove \/ ToolTerm \/ ToolHup \/ ToolWait

PidFileSpec == PidFileInit /\ [][PidFileNext]_pf

-----------------------------------------------------------------------------
(* The values of the variables.                                            *)
PidFileTypeOK ==
  /\ \A p \in PfProcs : pf.fd[p] \in 0..pf.made /\ pf.pid[p] \in 0..PfInstances
  /\ pf.path \in 0..pf.made /\ pf.dropped \subseteq 1..PfInstances
  /\ \A f \in PfFiles : pf.text[f] \in 0..PfInstances /\ pf.lock[f] \in 0..Tool

(* Of the instances around one pid file one runs at a time, whatever       *)
(* starts, stops and crashes there are, unless the file was taken from     *)
(* under one that had it open: nxlog_daemonize() of an instance that       *)
(* looked at the file before, or `nxlog -s' that found it not yet locked,  *)
(* removes the name; or the lock is had on a file that was removed.        *)
OneInstance == Cardinality({p \in 1..PfInstances : PfAt(p, "running")}) <= 1 \/ pf.raced

(* The pid file of the instance that runs holds its pid, so that           *)
(* `nxlog -s' stops it, unless another one that found the file empty wrote *)
(* its own into it.                                                        *)
PidfileNamesRunner ==
  \A p \in 1..PfInstances :
    PfAt(p, "running") =>
      /\ pf.lock[pf.fd[p]] = p
      /\ pf.over \/ pf.raced \/ (pf.path = pf.fd[p] /\ pf.text[pf.path] = p)
=============================================================================
