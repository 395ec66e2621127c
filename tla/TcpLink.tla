------------------------------ MODULE TcpLink ------------------------------
(***************************************************************************)
(* An om_tcp that connects to an im_tcp: the sender's write and reconnect  *)
(* logic (modules/output/tcp/om_tcp.c, Listen FALSE), the line format      *)
(* (common/writerfuncs.c, common/readerfuncs.c), the receiver's accept,    *)
(* read and close logic (modules/input/tcp/im_tcp.c) and the events both   *)
(* get from nx_module_pollset_poll().  The connections between them lose   *)
(* what is in flight when they are cut, and either side may restart.       *)
(*                                                                         *)
(* Record r is RecLen bytes <<r, 1>> .. <<r, RecLen>>, the last of them    *)
(* the line feed.  A handler is one step, except that om_tcp_write() makes *)
(* a step of every round of its loop and that poll() takes time.           *)
(***************************************************************************)
EXTENDS EventQueue, SequencesExt, FiniteSetsExt

CONSTANTS
  NumRecords,   \* records that reach the sender's queue
  RecLen,       \* bytes of a record with its line feed
  Window,       \* bytes a connection holds before send() returns EAGAIN
  MaxConns,     \* bound on the connections ever made
  MaxFaults,    \* bound on cuts, failed connects and reconnect() calls
  MaxInterval   \* OM_TCP_MAX_RECONNECT_INTERVAL (200 in the code)

ASSUME TcpAssumption ==
  /\ {NumRecords, Window, MaxConns, MaxInterval} \subseteq Nat \ {0}
  /\ RecLen \in Nat /\ RecLen >= 2 /\ MaxFaults \in Nat

Conns  == 1..MaxConns
Bytes  == (1..NumRecords) \X (1..RecLen)
IsLF(b) == b[2] = RecLen

VARIABLES
  status,      \* the sender's module->status
  events,      \* its job's events
  pc,          \* its handler: "idle", "write" (om_tcp_write), "poll"
  queue,       \* its log queue
  pushed,      \* the records pushed to the queue so far
  output,      \* module->output: [logdata, bufstart, buflen]
  sock,        \* omconf->sock, 0 for NULL; connected is sock # 0 here
  want,        \* the events sock is in the pollset for
  reconnect,   \* omconf->reconnect
  delayed,     \* RECONNECT events waiting in ctx->events
  link,        \* link[c]: "none", "up", "fin" (closed by the sender), "cut"
  wire,        \* wire[c]: the bytes in flight
  listening,   \* the receiver runs: imconf->listensock # NULL
  connections, \* imconf->connections
  rpoll,       \* the receiver is in poll()
  revents,     \* the events of the receiver's job
  partial,     \* partial[c]: input->ctx, the incomplete line
  lines,       \* history: the lines read from each connection
  sent,        \* history: the bytes send() has accepted, in order
  faults       \* faults that may still happen

sender   == <<status, events, pc, queue, pushed, output, sock, want, reconnect,
              delayed, sent>>
network  == <<link, wire>>
receiver == <<listening, connections, rpoll, revents, partial, lines>>
vars     == <<sender, network, receiver, faults>>

Ev(type)         == [type |-> type, data |-> 0]
EvOn(type, c)    == [type |-> type, data |-> c]
Listen           == MaxConns + 1   \* stands for imconf->listensock in events
Empty            == [logdata |-> 0, bufstart |-> 0, buflen |-> 0]

PostIf(q, cond, e) == IF cond THEN Enqueue(q, e) ELSE q
Pending(q, types) == \E i \in DOMAIN q : q[i].type \in types

Init ==
  /\ status = "STOPPED" /\ events = <<Ev("START")>> /\ pc = "idle"
  /\ queue = <<>> /\ pushed = 0 /\ output = Empty
  /\ sock = 0 /\ want = {} /\ reconnect = 0 /\ delayed = 0
  /\ link = [c \in Conns |-> "none"] /\ wire = [c \in Conns |-> <<>>]
  /\ listening = FALSE /\ connections = {} /\ rpoll = FALSE
  /\ revents = <<Ev("START")>>
  /\ partial = [c \in Conns |-> <<>>] /\ lines = [c \in Conns |-> <<>>]
  /\ sent = <<>> /\ faults = MaxFaults

-----------------------------------------------------------------------------
(* The sender.                                                             *)

(* Mutant of Backoff: the interval is not limited.                         *)
BackoffUnlimited(r) == IF r = 0 THEN 1 ELSE 2 * r

(* om_tcp_add_reconnect_event(): the waiting time doubles up to a limit.   *)
Backoff(r) == Min({IF r = 0 THEN 1 ELSE 2 * r, MaxInterval})

AddReconnectEvent == reconnect' = Backoff(reconnect) /\ delayed' = delayed + 1

(* Mutant of CloseSock: the output buffer is reset with the socket.        *)
CloseSockResets ==
  /\ sock' = 0 /\ want' = {}
  /\ link' = [c \in Conns |-> IF c = sock /\ link[c] = "up" THEN "fin" ELSE link[c]]
  /\ output' = [output EXCEPT !.bufstart = 0, !.buflen = @ + output.bufstart]

(* om_tcp_stop(): the socket is closed; what is in flight still arrives.   *)
(* The output buffer is kept, with the rest of a half-sent record.         *)
CloseSock ==
  /\ sock' = 0 /\ want' = {}
  /\ link' = [c \in Conns |-> IF c = sock /\ link[c] = "up" THEN "fin" ELSE link[c]]
  /\ UNCHANGED output

(* Mutant of IoErr: no reconnection is scheduled.                          *)
IoErrGivesUp ==
  /\ status' = "STOPPED" /\ CloseSock /\ pc' = "idle"
  /\ UNCHANGED <<queue, pushed, wire, receiver, sent, reconnect, delayed>>

(* io_err_handler(): the exception is logged by the worker and the module  *)
(* waits for RECONNECT.                                                    *)
IoErr ==
  /\ status' = "STOPPED" /\ CloseSock /\ AddReconnectEvent /\ pc' = "idle"
  /\ UNCHANGED <<queue, pushed, wire, receiver, sent>>

(* A sender of this module pushes a record and notifies it.                *)
Push ==
  /\ pushed < NumRecords
  /\ pushed' = pushed + 1 /\ queue' = Append(queue, pushed')
  /\ events' = Enqueue(events, Ev("DATA_AVAILABLE"))
  /\ UNCHANGED <<status, pc, output, sock, want, reconnect, delayed, sent,
                 network, receiver, faults>>

(* The event thread: a RECONNECT is due.                                   *)
Due ==
  /\ delayed > 0
  /\ delayed' = delayed - 1
  /\ events' = Enqueue(events, Ev("RECONNECT"))
  /\ UNCHANGED <<status, pc, queue, pushed, output, sock, want, reconnect, sent,
                 network, receiver, faults>>

(* nx_expr_proc__om_tcp_reconnect(): reconnect() called by a Schedule or   *)
(* Exec block.                                                             *)
ReconnectProc ==
  /\ faults > 0 /\ faults' = faults - 1
  /\ events' = Enqueue(events, Ev("DISCONNECT"))
  /\ UNCHANGED <<status, pc, queue, pushed, output, sock, want, reconnect,
                 delayed, sent, network, receiver>>

(* A worker takes the first event.                                         *)
Handling(types) ==
  /\ pc = "idle" /\ events # <<>> /\ Head(events).type \in types

(* START and RECONNECT: nx_module_start_self() of a stopped module calls   *)
(* om_tcp_start().                                                         *)
Starting == Handling({"START", "RECONNECT"}) /\ status = "STOPPED"

(* nx_module_start_self() posts a second DATA_AVAILABLE for a queue that   *)
(* is not empty.                                                           *)
Connect ==
  /\ Starting /\ listening
  /\ \E c \in Conns :
        /\ link[c] = "none" /\ \A d \in 1..c - 1 : link[d] # "none"
        /\ link' = [link EXCEPT ![c] = "up"]
        /\ sock' = c
  /\ want' = {"IN", "HUP"} /\ reconnect' = 0 /\ status' = "RUNNING"
  /\ events' = PostIf(Enqueue(Enqueue(Tail(events), Ev("DATA_AVAILABLE")), Ev("POLL")),
                      queue # <<>>, Ev("DATA_AVAILABLE"))
  /\ UNCHANGED <<pc, queue, pushed, output, delayed, sent, wire, receiver, faults>>

(* The host is not reachable, or nobody listens; om_tcp_start() throws.    *)
ConnectFails ==
  /\ Starting
  /\ \/ ~listening /\ UNCHANGED faults
     \/ listening /\ faults > 0 /\ faults' = faults - 1
  /\ events' = Tail(events)
  /\ IoErr

(* RECONNECT of a running module: a second one that was still waiting.     *)
AlreadyRunning ==
  /\ Handling({"START", "RECONNECT"}) /\ status = "RUNNING"
  /\ events' = Tail(events)
  /\ UNCHANGED <<status, pc, queue, pushed, output, sock, want, reconnect,
                 delayed, sent, network, receiver, faults>>

(* DISCONNECT: nx_module_stop_self(), which does nothing to a stopped      *)
(* module, and a RECONNECT in either case.                                 *)
Disconnect ==
  /\ Handling({"DISCONNECT"})
  /\ events' = Tail(events)
  /\ status' = "STOPPED" /\ CloseSock /\ AddReconnectEvent
  /\ UNCHANGED <<pc, queue, pushed, sent, wire, receiver, faults>>

(* Events that a stopped module ignores: om_tcp_write(), om_tcp_read() and *)
(* the POLL handler look at the status or at omconf->connected first.      *)
Ignore ==
  /\ Handling({"READ", "WRITE", "DATA_AVAILABLE", "POLL"}) /\ status = "STOPPED"
  /\ events' = Tail(events)
  /\ UNCHANGED <<status, pc, queue, pushed, output, sock, want, reconnect,
                 delayed, sent, network, receiver, faults>>

(* READ: om_tcp_read() reads until there is nothing (EAGAIN) or finds that *)
(* the connection has ended.  im_tcp never sends; a live connection is     *)
(* read only because of an event left over from the one before it, when a  *)
(* second RECONNECT was already in the list.                               *)
Read ==
  /\ Handling({"READ"}) /\ status = "RUNNING"
  /\ \/ /\ link[sock] = "cut"
        /\ events' = Tail(events)
        /\ IoErr
     \/ /\ link[sock] = "up"
        /\ events' = Enqueue(Tail(events), Ev("POLL"))
        /\ want' = {"IN", "HUP"}
        /\ UNCHANGED <<status, pc, queue, pushed, output, sock, reconnect,
                       delayed, sent, network, receiver>>
  /\ UNCHANGED faults

(* DATA_AVAILABLE and WRITE: om_tcp_write() begins.                        *)
Write ==
  /\ Handling({"WRITE", "DATA_AVAILABLE"}) /\ status = "RUNNING"
  /\ events' = Tail(events) /\ pc' = "write"
  /\ UNCHANGED <<status, queue, pushed, output, sock, want, reconnect, delayed,
                 sent, network, receiver, faults>>

Unsent == [i \in 1..output.buflen |-> <<output.logdata, output.bufstart + i>>]

(* Mutant of Blocked: POLLOUT is not asked for.                            *)
BlockedUnwatched(n) ==
  /\ output' = [output EXCEPT !.bufstart = @ + n, !.buflen = @ - n]
  /\ want' = {"IN", "HUP"}
  /\ events' = Enqueue(events, Ev("POLL")) /\ pc' = "idle"
  /\ UNCHANGED queue

(* send() took n bytes and more remain: POLLOUT is added and the handler   *)
(* ends.                                                                   *)
Blocked(n) ==
  /\ output' = [output EXCEPT !.bufstart = @ + n, !.buflen = @ - n]
  /\ want' = {"IN", "OUT", "HUP"}
  /\ events' = Enqueue(events, Ev("POLL")) /\ pc' = "idle"
  /\ UNCHANGED queue

(* nx_module_logqueue_peek(), then the line writer fills the buffer.       *)
Peek(q) ==
  /\ queue' = q
  /\ IF q = <<>>
     THEN pc' = "idle" /\ output' = Empty /\ UNCHANGED events
     ELSE /\ events' = Enqueue(events, Ev("DATA_AVAILABLE"))
          /\ output' = [logdata |-> Head(q), bufstart |-> 0, buflen |-> RecLen]
          /\ UNCHANGED pc

(* Mutant of Sent: the record is not popped.                               *)
SentUnpopped == Peek(queue) /\ UNCHANGED want

(* All of the record was sent: it is popped and the next one taken up.     *)
Sent == Peek(Tail(queue)) /\ UNCHANGED want

(* One round of om_tcp_write()'s loop: send() takes what the connection    *)
(* has room for.  A connection that was cut may still accept data, which   *)
(* nobody will get, before it reports the error.                           *)
Send ==
  /\ pc = "write" /\ output.buflen > 0
  /\ LET n == IF link[sock] = "up"
              THEN Min({output.buflen, Window - Len(wire[sock])}) ELSE output.buflen
     IN  /\ wire' = IF link[sock] = "up"
                    THEN [wire EXCEPT ![sock] = @ \o SubSeq(Unsent, 1, n)] ELSE wire
         /\ sent' = sent \o SubSeq(Unsent, 1, n)
         /\ IF n < output.buflen THEN Blocked(n) ELSE Sent
  /\ UNCHANGED <<status, pushed, sock, reconnect, delayed, link, receiver, faults>>

SendFails ==
  /\ pc = "write" /\ output.buflen > 0 /\ link[sock] = "cut"
  /\ IoErr /\ UNCHANGED <<events, faults>>

FirstPeek ==
  /\ pc = "write" /\ output.buflen = 0
  /\ want' = {"IN", "HUP"} /\ Peek(queue)
  /\ UNCHANGED <<status, pushed, sock, reconnect, delayed, sent, network,
                 receiver, faults>>

(* POLL: nx_module_pollset_poll(module, FALSE).                            *)
PollEnter ==
  /\ Handling({"POLL"}) /\ status = "RUNNING"
  /\ IF Tail(events) = <<>>
     THEN events' = <<>> /\ pc' = "poll"
     ELSE events' = Enqueue(Tail(events), Ev("POLL")) /\ UNCHANGED pc
  /\ UNCHANGED <<status, queue, pushed, output, sock, want, reconnect, delayed,
                 sent, network, receiver, faults>>

(* poll() returns: events for what is ready, or POLL again after a         *)
(* timeout or a wake-up.  POLLHUP may or may not come with the end.        *)
Writable == "OUT" \in want /\ (link[sock] = "cut" \/ Len(wire[sock]) < Window)

PollReturn ==
  /\ pc = "poll" /\ pc' = "idle"
  /\ \E hup \in BOOLEAN :
        /\ hup => link[sock] = "cut"
        /\ events' = IF link[sock] = "cut" \/ Writable
                     THEN PostIf(PostIf(PostIf(events, link[sock] = "cut", EvOn("READ", sock)),
                                        Writable, EvOn("WRITE", sock)),
                                 hup, EvOn("DISCONNECT", sock))
                     ELSE Enqueue(events, Ev("POLL"))
  /\ UNCHANGED <<status, queue, pushed, output, sock, want, reconnect, delayed,
                 sent, network, receiver, faults>>

-----------------------------------------------------------------------------
(* The network.                                                            *)
Cut(c) ==
  /\ faults > 0 /\ faults' = faults - 1
  /\ link[c] \in {"up", "fin"}
  /\ link' = [link EXCEPT ![c] = "cut"] /\ wire' = [wire EXCEPT ![c] = <<>>]
  /\ UNCHANGED <<sender, receiver>>

-----------------------------------------------------------------------------
(* The receiver.                                                           *)

RHandling(type) == ~rpoll /\ revents # <<>> /\ Head(revents).type = type
About == Head(revents).data

Backlog == {c \in Conns : link[c] \in {"up", "fin"} /\ c \notin connections}

(* Mutant of FreeInputs: the events of the connections stay in the list.   *)
FreeInputsOnly(cs, gone) ==
  /\ connections' = connections \ cs
  /\ revents' = Tail(revents)
  /\ link' = [c \in Conns |-> IF c \in gone THEN "cut" ELSE link[c]]
  /\ wire' = [c \in Conns |-> IF c \in gone THEN <<>> ELSE wire[c]]

(* im_tcp_free_input() of the connections cs, after the event at hand was  *)
(* taken: their events are removed and the sockets in gone closed.         *)
Freed(q, cs) ==
  LET left[n \in 0..MaxConns] ==
        IF n = 0 THEN q ELSE IF n \in cs THEN Without(left[n - 1], n) ELSE left[n - 1]
  IN  left

FreeInputs(cs, gone) ==
  /\ connections' = connections \ cs
  /\ revents' = Freed(Tail(revents), cs)[MaxConns]
  /\ link' = [c \in Conns |-> IF c \in gone THEN "cut" ELSE link[c]]
  /\ wire' = [c \in Conns |-> IF c \in gone THEN <<>> ELSE wire[c]]

(* im_tcp_start(), im_tcp_stop().  A receiver that was shut down may come  *)
(* up again as a new process.  Closing the listening socket also ends the  *)
(* connections nobody has accepted.                                        *)
RStart ==
  /\ RHandling("START")
  /\ listening' = TRUE /\ revents' = Tail(revents)
  /\ UNCHANGED <<sender, network, connections, rpoll, partial, lines, faults>>

RStopPosted ==
  /\ listening /\ ~Pending(revents, {"STOP"})
  /\ faults > 0 /\ faults' = faults - 1
  /\ revents' = Enqueue(revents, Ev("STOP"))
  /\ UNCHANGED <<sender, network, listening, connections, rpoll, partial, lines>>

RStop ==
  /\ RHandling("STOP")
  /\ listening' = FALSE
  /\ FreeInputs(connections, connections \cup Backlog)
  /\ UNCHANGED <<sender, rpoll, partial, lines, faults>>

RRestart ==
  /\ ~listening /\ ~Pending(revents, {"START"})
  /\ revents' = <<Ev("START")>>
  /\ UNCHANGED <<sender, network, listening, connections, rpoll, partial, lines,
                 faults>>

(* nx_module_pollset_poll(module, TRUE): POLL is always pending again.     *)
RPollEnter ==
  /\ listening /\ ~rpoll /\ revents = <<>> /\ rpoll' = TRUE
  /\ UNCHANGED <<sender, network, listening, connections, revents, partial,
                 lines, faults>>

RReady == {c \in connections : wire[c] # <<>> \/ link[c] # "up"}
          \cup (IF Backlog # {} THEN {Listen} ELSE {})

(* The loop over the descriptors poll() has found ready.                   *)
Announced(q, order, hup) ==
  LET after[n \in 0..Len(order)] ==
        IF n = 0 THEN q
        ELSE PostIf(Enqueue(after[n - 1], EvOn("READ", order[n])),
                    order[n] \in hup, EvOn("DISCONNECT", order[n]))
  IN  after

RPollReturn ==
  /\ rpoll /\ rpoll' = FALSE
  /\ \E order \in SetToSeqs(RReady), hup \in SUBSET {c \in connections : link[c] = "cut"} :
        revents' = Announced(revents, order, hup)[Len(order)]
  /\ UNCHANGED <<sender, network, listening, connections, partial, lines, faults>>

(* READ of the listening socket: im_tcp_accept().                          *)
RAccept ==
  /\ RHandling("READ") /\ About = Listen
  /\ connections' = IF listening /\ Backlog # {} THEN connections \cup {Min(Backlog)}
                    ELSE connections
  /\ revents' = Tail(revents)
  /\ UNCHANGED <<sender, network, listening, rpoll, partial, lines, faults>>

(* Mutant of Feed: the incomplete line is used but not cleared.            *)
FeedKeeps(r, b) ==
  IF IsLF(b) THEN [r EXCEPT !.lines = Append(@, r.ctx)]
  ELSE [r EXCEPT !.ctx = Append(@, b)]

(* nx_module_input_func_linereader(), byte by byte: a line feed ends the   *)
(* line, which began in this or an earlier buffer.                         *)
Feed(r, b) ==
  IF IsLF(b) THEN [lines |-> Append(r.lines, r.ctx), ctx |-> <<>>]
  ELSE [r EXCEPT !.ctx = Append(@, b)]

Fed(r, bytes) ==
  LET after[n \in 0..Len(bytes)] == IF n = 0 THEN r ELSE Feed(after[n - 1], bytes[n])
  IN  after

(* READ of a connection: im_tcp_read() gets some of the bytes in flight.   *)
RRead ==
  /\ RHandling("READ") /\ About \in connections /\ wire[About] # <<>>
  /\ \E n \in 1..Len(wire[About]) :
        LET r == Fed([lines |-> lines[About], ctx |-> partial[About]], wire[About])[n]
        IN  /\ lines' = [lines EXCEPT ![About] = r.lines]
            /\ partial' = [partial EXCEPT ![About] = r.ctx]
            /\ wire' = [wire EXCEPT ![About] = SubSeq(@, n + 1, Len(@))]
  /\ revents' = Tail(revents)
  /\ UNCHANGED <<sender, link, listening, connections, rpoll, faults>>

(* The end of the connection (READ) or DISCONNECT: the input is freed with *)
(* the incomplete line it holds.                                           *)
REnd ==
  /\ \/ RHandling("READ") /\ About \in connections
        /\ wire[About] = <<>> /\ link[About] # "up"
     \/ RHandling("DISCONNECT")
  /\ FreeInputs({About}, {About})
  /\ partial' = [partial EXCEPT ![About] = <<>>]
  /\ UNCHANGED <<sender, listening, rpoll, lines, faults>>

-----------------------------------------------------------------------------
SenderStep ==
  \/ Connect \/ ConnectFails \/ AlreadyRunning \/ Disconnect \/ Ignore \/ Read
  \/ Write \/ Send \/ SendFails \/ FirstPeek \/ PollEnter \/ PollReturn

ReceiverStep ==
  \/ RStart \/ RStop \/ RPollEnter \/ RPollReturn \/ RAccept \/ RRead \/ REnd

Next ==
  \/ SenderStep \/ Due \/ ReceiverStep \/ RRestart
  \/ Push \/ ReconnectProc \/ RStopPosted \/ \E c \in Conns : Cut(c)

Spec ==
  /\ Init /\ [][Next]_vars
  /\ WF_vars(SenderStep) /\ WF_vars(Due) /\ WF_vars(ReceiverStep)
  /\ WF_vars(RRestart) /\ WF_vars(Push)
-----------------------------------------------------------------------------
(* Type invariant.  The events of the listening socket and those of        *)
(* connections carry what they are about, the others do not.               *)
SenderEvents ==
  {Ev(t) : t \in {"START", "RECONNECT", "DISCONNECT", "DATA_AVAILABLE", "POLL"}}
  \cup {EvOn(t, c) : t \in {"READ", "WRITE", "DISCONNECT"}, c \in Conns}

ReceiverEvents ==
  {Ev("START"), Ev("STOP"), EvOn("READ", Listen)}
  \cup {EvOn(t, c) : t \in {"READ", "DISCONNECT"}, c \in Conns}

TypeOK ==
  /\ events \in Seq(SenderEvents) /\ revents \in Seq(ReceiverEvents)
  /\ status \in {"STOPPED", "RUNNING"} /\ pc \in {"idle", "write", "poll"}
  /\ queue \in Seq(1..NumRecords) /\ pushed \in 0..NumRecords
  /\ output \in [logdata : 0..NumRecords, bufstart : 0..RecLen, buflen : 0..RecLen]
  /\ sock \in 0..MaxConns /\ want \subseteq {"IN", "OUT", "HUP"}
  /\ reconnect \in 0..MaxInterval /\ delayed \in Nat
  /\ link \in [Conns -> {"none", "up", "fin", "cut"}]
  /\ wire \in [Conns -> Seq(Bytes)] /\ \A c \in Conns : Len(wire[c]) <= Window
  /\ listening \in BOOLEAN /\ connections \subseteq Conns /\ rpoll \in BOOLEAN
  /\ partial \in [Conns -> Seq(Bytes)] /\ lines \in [Conns -> Seq(Seq(Bytes))]
  /\ sent \in Seq(Bytes)
  /\ faults \in 0..MaxFaults
  /\ (status = "RUNNING") <=> (sock # 0)

(* Over short writes, EAGAIN, errors and reconnections om_tcp hands every  *)
(* byte of the records over exactly once and in order, and a record leaves *)
(* the queue exactly when its last byte was handed over.                   *)
HandedOverOnce ==
  /\ \A i \in DOMAIN sent : sent[i] \in Bytes /\ i = RecLen * (sent[i][1] - 1) + sent[i][2]
  /\ Len(sent) = RecLen * (pushed - Len(queue)) + output.bufstart

(* A record is split only by the end of a connection: on each connection   *)
(* all lines but the first are whole records, and the first is the end of  *)
(* one.  (The beginning of that one is lost with the old connection.)      *)
OnlyFirstTorn ==
  \A c \in Conns : \A i \in DOMAIN lines[c] :
     \E r \in 1..NumRecords, k \in 1..RecLen :
        /\ lines[c][i] = [j \in 1..RecLen - k |-> <<r, k + j - 1>>]
        /\ i > 1 => k = 1

(* A sender without a connection has not been forgotten: it is about to    *)
(* be started or a RECONNECT is waiting for its time.                      *)
NeverStranded ==
  status = "STOPPED" =>
     delayed > 0 \/ Pending(events, {"START", "RECONNECT", "DISCONNECT"})

(* While part of a record is unsent the sender will try again: it writes,  *)
(* has an event that makes it write, or waits for POLLOUT.                 *)
BlockedIsWatched ==
  status = "RUNNING" /\ output.buflen > 0 =>
     \/ pc = "write" \/ Pending(events, {"WRITE", "DATA_AVAILABLE", "READ", "DISCONNECT"})
     \/ "OUT" \in want /\ (pc = "poll" \/ Pending(events, {"POLL"}))

(* Both: om_tcp always has something that will bring it on, through        *)
(* errors, disconnections, partial writes and pauses of the network.       *)
SenderGoesOn == NeverStranded /\ BlockedIsWatched

(* "if this is null there is a race/double free in event handling": the    *)
(* event of a connection is never handled after the connection was freed.  *)
EventsHaveInputs ==
  \A i \in DOMAIN revents : revents[i].data \in connections \cup {0, Listen}

(* Liveness: every record is handed over to a connection in the end, if    *)
(* connections can be made again.                                          *)
AllHandedOver == <>(pushed = NumRecords /\ queue = <<>>)
=============================================================================
