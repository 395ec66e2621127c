----------------------------- MODULE ExecModules -----------------------------
(***************************************************************************)
(* Programs run by modules: im_exec reads the output of one, om_exec       *)
(* writes to one, exec_async() of xm_exec starts others and xm_exec waits  *)
(* for those that ended (src/modules/input/exec/im_exec.c,                 *)
(* src/modules/output/exec/om_exec.c, src/modules/extension/exec/).  The   *)
(* build is the Unix one.  A handler is one step, except im_exec_stop(),   *)
(* whose turns of a tenth of a second let the others go on.                *)
(***************************************************************************)
EXTENDS Naturals, Sequences, FiniteSets

CONSTANTS XeChildren,  \* bound: programs started
          XeLines,     \* bound: lines the programs of im_exec print
          XeRecords,   \* records to be written by om_exec
          XePatience,  \* turns of im_exec_stop() before SIGTERM (30 in the code)
          XeTurns,     \* turns of im_exec_stop() in all (50 in the code)
          XeFaults     \* bound: stops and failures

ASSUME ExecAssumption ==
  /\ XeChildren \in Nat /\ XeLines \in Nat /\ XeRecords \in Nat /\ XeFaults \in Nat
  /\ XePatience \in Nat /\ XeTurns \in Nat /\ XePatience + 3 <= XeTurns

VARIABLE xe
(***************************************************************************)
(* kids     the programs started: whose, "alive", "zombie" or "gone"       *)
(*          (waited for), and the lines in its pipe                        *)
(* module   im_exec or om_exec, beside xm_exec                             *)
(* restart  directive Restart of im_exec                                   *)
(* status, kid, reads, events, due, running, turn    of im_exec: the       *)
(*          program it reads (0: none), the one imconf->proc names, its    *)
(*          events in order, the STARTs to come, imconf->running, the turn *)
(*          of im_exec_stop() (0: not in it)                               *)
(* got      lines read; lost: lines in a pipe that was closed              *)
(* ostatus, okid, open, queue, output, data, panic    of om_exec: its      *)
(*          program, is the pipe open, the bytes left of the record in its *)
(*          buffer, DATA_AVAILABLE and POLL are pending, nx_panic()        *)
(* xstatus, armed    of xm_exec: its MODULE_SPECIFIC events                *)
(* hup      history: programs whose output im_exec saw closed              *)
(* stray    history: a signal went to a pid that was waited for before     *)
(* others   history: programs waited for by xm_exec or exec_async()        *)
(***************************************************************************)
ExecInit ==
  \E restart \in BOOLEAN, module \in {"im", "om"} :
    xe = [kids |-> <<>>, restart |-> restart, module |-> module,
          status |-> "STOPPED", kid |-> 0, reads |-> 0,
          events |-> IF module = "im" THEN <<"START">> ELSE <<>>, due |-> 0, running |-> FALSE,
          turn |-> 0, got |-> <<>>, lost |-> {}, made |-> 0,
          ostatus |-> "STOPPED", okid |-> 0, open |-> FALSE,
          queue |-> [i \in 1..XeRecords |-> i], output |-> 0, data |-> {}, panic |-> FALSE,
          written |-> <<>>, popped |-> <<>>,
          xstatus |-> "STOPPED", armed |-> 0, hup |-> {}, stray |-> FALSE, others |-> {},
          faults |-> 0]

XeMayFail  == xe.faults < XeFaults
XeFault(x) == [x EXCEPT !.faults = @ + 1]

(* apr_proc_create(), and the look whether it is gone at once.             *)
Spawned(x, whose) ==
  [x EXCEPT !.kids = Append(@, [of |-> whose, state |-> "alive", closed |-> FALSE, pipe |-> <<>>])]
SetKid(x, k, state) == [x EXCEPT !.kids[k].state = state]
MaySpawn == Len(xe.kids) < XeChildren

-----------------------------------------------------------------------------
(* What a program may do: print a line, close its output, end.             *)
KidPrints(k) ==
  /\ xe.kids[k].of = "im" /\ xe.kids[k].state = "alive" /\ ~xe.kids[k].closed
  /\ xe.made < XeLines /\ xe.reads = k
  /\ xe' = [xe EXCEPT !.made = @ + 1, !.kids[k].pipe = Append(@, xe.made + 1)]
KidCloses(k) ==
  /\ xe.kids[k].of = "im" /\ xe.kids[k].state = "alive" /\ ~xe.kids[k].closed
  /\ xe' = [xe EXCEPT !.kids[k].closed = TRUE]
KidEnds(k) ==
  /\ xe.kids[k].state = "alive"
  /\ xe' = [xe EXCEPT !.kids[k].state = "zombie", !.kids[k].closed = TRUE]

-----------------------------------------------------------------------------
(* im_exec_start(): a program that cannot be run, or has ended when it is  *)
(* looked at, makes nx_module_start_self() fail, and nothing tries again.  *)
ImStart(fails) ==
  /\ xe.turn = 0 /\ xe.events # <<>> /\ xe.events[1] = "START"
  /\ LET x == [xe EXCEPT !.events = Tail(@)]
         n == Len(x.kids) + 1
     IN  IF x.status = "RUNNING" THEN ~fails /\ xe' = x
         ELSE /\ MaySpawn /\ (fails => XeMayFail)
              /\ xe' = IF fails
                       THEN XeFault([SetKid(Spawned(x, "im"), n, "gone") EXCEPT !.kid = n])
                       ELSE [Spawned(x, "im") EXCEPT
                               !.status = "RUNNING", !.kid = n, !.reads = n, !.running = TRUE,
                               !.events = Append(@, "POLL")]
ImStartDue ==
  /\ xe.due > 0
  /\ xe' = [xe EXCEPT !.due = @ - 1, !.events = Append(@, "START")]

(* nx_module_stop_self() with im_exec_stop() up to its loop: the pipe is   *)
(* closed first.  The loop is entered only where the program is thought to *)
(* run.                                                                    *)
ImExecStop(x) ==
  IF x.status = "STOPPED" THEN x
  ELSE [x EXCEPT !.status = "STOPPED", !.reads = 0,
                 !.lost = @ \cup (IF x.reads = 0 THEN {}
                                  ELSE {x.kids[x.reads].pipe[i] : i \in DOMAIN x.kids[x.reads].pipe}),
                 !.turn = IF x.running THEN 1 ELSE 0]

(* im_exec_add_restart_event()                                             *)
AddRestartNever(x) == ImExecStop(x)
AddRestart(x) == [ImExecStop(x) EXCEPT !.due = IF x.restart THEN @ + 1 ELSE @]

ImStopped ==
  /\ xe.turn = 0 /\ xe.status = "RUNNING" /\ XeMayFail
  /\ xe' = XeFault(ImExecStop(xe))

(* One turn of im_exec_stop(): wait for the program; from turn XePatience  *)
(* on SIGTERM, then SIGKILL.  Someone else may have waited for it: then    *)
(* apr_proc_wait() fails in each turn and the signals go to its old pid.   *)
StopSignal(x) ==
  IF x.turn <= XePatience THEN x
  ELSE IF x.kids[x.kid].state = "gone" THEN [x EXCEPT !.stray = TRUE]
  ELSE IF x.turn = XePatience + 1 THEN x
  ELSE [x EXCEPT !.kids[x.kid].state = "zombie", !.kids[x.kid].closed = TRUE]

StopTurnGently ==
  /\ xe.turn > 0
  /\ xe' = IF xe.kids[xe.kid].state = "zombie" THEN [SetKid(xe, xe.kid, "gone") EXCEPT !.turn = 0]
           ELSE [xe EXCEPT !.turn = IF xe.turn = XeTurns THEN 0 ELSE xe.turn + 1]
StopTurn ==
  /\ xe.turn > 0
  /\ xe' = IF xe.kids[xe.kid].state = "zombie" THEN [SetKid(xe, xe.kid, "gone") EXCEPT !.turn = 0]
           ELSE [StopSignal(xe) EXCEPT !.turn = IF xe.turn = XeTurns THEN 0 ELSE xe.turn + 1]

(* READ: im_exec_read() with im_exec_fill_buffer().  The read blocks while *)
(* the pipe is empty and open; at its end the module restarts.  One line   *)
(* is one buffer.                                                          *)
FillBuffer(x) ==
  [x EXCEPT !.got = Append(@, x.kids[x.reads].pipe[1]), !.kids[x.reads].pipe = Tail(@)]
ImRead ==
  /\ xe.turn = 0 /\ xe.events # <<>> /\ xe.events[1] = "READ"
  /\ LET x == [xe EXCEPT !.events = Tail(@)]
     IN  \/ x.status # "RUNNING" /\ xe' = x
         \/ x.status = "RUNNING" /\ x.kids[x.reads].pipe # <<>> /\ xe' = FillBuffer(x)
         \/ /\ x.status = "RUNNING" /\ x.kids[x.reads].pipe = <<>> /\ x.kids[x.reads].closed
            /\ xe' = AddRestart([x EXCEPT !.hup = @ \cup {x.reads}])

(* POLL: nx_module_pollset_poll(module, TRUE), POLLIN and POLLHUP of the   *)
(* pipe become READ and DISCONNECT, in this order.                         *)
ImPoll ==
  /\ xe.turn = 0 /\ xe.events # <<>> /\ xe.events[1] = "POLL"
  /\ LET x   == [xe EXCEPT !.events = Tail(@)]
         has == x.kids[x.reads].pipe # <<>>
         end == x.kids[x.reads].closed
     IN  xe' = IF x.status # "RUNNING" THEN x
               ELSE [x EXCEPT !.events = @ \o (IF has THEN <<"READ">> ELSE <<>>)
                                           \o (IF end THEN <<"DISCONNECT">> ELSE <<>>) \o <<"POLL">>]

(* DISCONNECT: the program counts as ended, so that nobody waits for it.   *)
ImDisconnect ==
  /\ xe.turn = 0 /\ xe.events # <<>> /\ xe.events[1] = "DISCONNECT"
  /\ xe' = AddRestart([xe EXCEPT !.events = Tail(@), !.running = FALSE, !.hup = @ \cup ({xe.reads} \ {0})])

-----------------------------------------------------------------------------
(* om_exec_start(): the descriptor is never set to NULL again, so that a   *)
(* restarted module goes on with the closed one.                           *)
OmStart(fails) ==
  /\ xe.module = "om" /\ xe.ostatus = "STOPPED" /\ ~xe.panic
  /\ IF xe.okid # 0 THEN ~fails /\ xe' = [xe EXCEPT !.ostatus = "RUNNING", !.data = @ \cup {"DATA"}]
     ELSE /\ MaySpawn /\ (fails => XeMayFail)
          /\ LET n == Len(xe.kids) + 1
             IN  xe' = IF fails THEN XeFault(SetKid(Spawned(xe, "om"), n, "gone"))
                       ELSE [Spawned(xe, "om") EXCEPT !.ostatus = "RUNNING", !.okid = n, !.open = TRUE,
                                                      !.data = @ \cup {"DATA"}]
OmStop ==
  /\ xe.ostatus = "RUNNING" /\ XeMayFail /\ ~xe.panic
  /\ xe' = XeFault([xe EXCEPT !.ostatus = "STOPPED", !.open = FALSE])

(* DATA_AVAILABLE: om_exec_write(), the loop in one step: all records go   *)
(* to a program that lives; a write that comes back short asks for POLLOUT *)
(* and POLL; one into a closed pipe fails and leaves the record in the     *)
(* buffer.                                                                 *)
OmPeek(x) == IF x.output = 0 /\ x.queue # <<>> THEN [x EXCEPT !.output = x.queue[1]] ELSE x
OmWrote(x) ==
  IF x.output = 0 THEN x
  ELSE [x EXCEPT !.written = Append(@, x.output), !.popped = Append(@, x.output),
                 !.queue = Tail(@), !.output = 0]
OmAlive(x) == x.okid # 0 /\ x.kids[x.okid].state = "alive" /\ x.open
OmTurnPopsFirst(x) ==
  LET p == OmPeek(x)
  IN  IF OmAlive(x) \/ p.output = 0 THEN OmWrote(p)
      ELSE [p EXCEPT !.popped = Append(@, p.output), !.queue = Tail(@), !.output = 0]
OmTurn(x) == IF OmAlive(x) THEN OmWrote(OmPeek(x)) ELSE OmPeek(x)
OmWriteLoop(x) ==
  LET w[n \in 0..XeRecords] == IF n = 0 THEN x ELSE OmTurn(w[n - 1])
  IN  w[XeRecords]
OmWrite(short) ==
  /\ "DATA" \in xe.data /\ ~xe.panic
  /\ LET x == [xe EXCEPT !.data = @ \ {"DATA"}]
     IN  /\ (short => XeMayFail /\ x.ostatus = "RUNNING" /\ OmAlive(x) /\ OmPeek(x).output # 0)
         /\ xe' = IF x.ostatus # "RUNNING" THEN x
                  ELSE IF short THEN XeFault([OmPeek(x) EXCEPT !.data = @ \cup {"POLL"}])
                  ELSE OmWriteLoop(x)

(* POLL: the pipe is writable, and om_exec_event() does not know WRITE.    *)
OmPoll ==
  /\ "POLL" \in xe.data /\ ~xe.panic
  /\ xe' = IF xe.ostatus # "RUNNING" THEN [xe EXCEPT !.data = @ \ {"POLL"}]
           ELSE [xe EXCEPT !.data = @ \ {"POLL"}, !.panic = TRUE]

-----------------------------------------------------------------------------
(* exec(): the caller waits for the end of the program, and for nothing    *)
(* else.  exec_async(): the caller goes on; all that ended are waited for, *)
(* whoever started them.                                                   *)
Reaped(x) ==
  [x EXCEPT !.others = @ \cup {k \in DOMAIN x.kids : x.kids[k].state = "zombie"},
            !.kids = [k \in DOMAIN x.kids |->
       IF x.kids[k].state = "zombie" THEN [x.kids[k] EXCEPT !.state = "gone"] ELSE x.kids[k]]]
ProcExec ==
  /\ MaySpawn
  /\ xe' = SetKid(Spawned(xe, "exec"), Len(xe.kids) + 1, "gone")
ProcExecAsync ==
  /\ MaySpawn
  /\ xe' = Reaped(Spawned(xe, "async"))

(* xm_exec_start(), xm_exec_stop() and xm_exec_reap(), which first removes *)
(* what is pending of its own events.                                      *)
XmStart ==
  /\ xe.xstatus = "STOPPED"
  /\ xe' = [xe EXCEPT !.xstatus = "RUNNING", !.armed = @ + 1]
XmStop ==
  /\ xe.xstatus = "RUNNING" /\ XeMayFail
  /\ xe' = XeFault([xe EXCEPT !.xstatus = "STOPPED", !.armed = @ - 1])
XmReapOnce ==
  /\ xe.armed > 0
  /\ xe' = [Reaped(xe) EXCEPT !.armed = 0]
XmReap ==
  /\ xe.armed > 0
  /\ xe' = [Reaped(xe) EXCEPT !.armed = 1]

ExecNext ==
  \/ \E k \in DOMAIN xe.kids : KidPrints(k) \/ KidCloses(k) \/ KidEnds(k)
  \/ \E fails \in BOOLEAN : ImStart(fails) \/ OmStart(fails) \/ OmWrite(fails)
  \/ ImStartDue \/ ImStopped \/ StopTurn \/ ImRead \/ ImPoll \/ ImDisconnect
  \/ OmStop \/ OmPoll \/ ProcExec \/ ProcExecAsync \/ XmStart \/ XmStop \/ XmReap

ExecSpec == ExecInit /\ [][ExecNext]_xe

-----------------------------------------------------------------------------
XeAll(s) == {s[i] : i \in DOMAIN s}

(* The values of the variables.                                            *)
ExecTypeOK ==
  /\ \A k \in DOMAIN xe.kids : xe.kids[k].state \in {"alive", "zombie", "gone"}
  /\ xe.kid \in 0..Len(xe.kids) /\ xe.reads \in {0, xe.kid} /\ xe.turn \in 0..XeTurns
  /\ XeAll(xe.events) \subseteq {"START", "POLL", "READ", "DISCONNECT"}

(* After im_exec_stop() the program it ran is dead, and waited for, unless *)
(* its closed output was taken for its end; so no two programs of im_exec  *)
(* run at a time.  A signal goes to a pid waited for before only where     *)
(* exec_async() or xm_exec were the ones to wait.  While xm_exec runs it   *)
(* looks for ended programs again and again, once at a time.               *)
ChildrenEnded ==
  /\ \A k \in DOMAIN xe.kids :
       (xe.kids[k].of = "im" /\ xe.kids[k].state # "gone" /\ (k # xe.kid \/ xe.status = "STOPPED"))
         => k \in xe.hup \/ (k = xe.kid /\ xe.turn > 0)
  /\ (xe.xstatus = "RUNNING" => xe.armed = 1) /\ xe.armed <= 1
  /\ xe.stray => \E k \in xe.others : xe.kids[k].of = "im"

(* im_exec reads the lines in order and once, and misses those in a pipe   *)
(* it closed; with Restart TRUE the end of the program's output is         *)
(* followed by a START; om_exec lets go of what it wrote, in order.        *)
ExecRecordsKept ==
  /\ \A i, j \in DOMAIN xe.got : i < j => xe.got[i] < xe.got[j]
  /\ XeAll(xe.got) \cap xe.lost = {}
  /\ XeAll(xe.got) \cup xe.lost \cup
       (IF xe.reads = 0 THEN {} ELSE XeAll(xe.kids[xe.reads].pipe)) = 1..xe.made
  /\ (xe.restart /\ xe.status = "STOPPED" /\ xe.kid \in xe.hup /\ xe.faults = 0)
       => xe.due > 0 \/ "START" \in XeAll(xe.events)
  /\ xe.popped = xe.written /\ xe.popped \o xe.queue = [i \in 1..XeRecords |-> i]
=============================================================================
