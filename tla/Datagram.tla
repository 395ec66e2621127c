------------------------------ MODULE Datagram ------------------------------
(***************************************************************************)
(* Datagrams: om_udp to im_udp and om_uds to im_uds                        *)
(* (src/modules/output/udp/om_udp.c, src/modules/input/udp/im_udp.c,       *)
(* src/modules/output/uds/om_uds.c, src/modules/input/uds/im_uds.c).  Over *)
(* UDP a datagram that finds no receiver, or a full one, is gone, and the  *)
(* next send may report that; a Unix socket refuses it instead.  A handler *)
(* is one step.  Events of a module are a set: which of them comes first   *)
(* does not matter here.                                                   *)
(***************************************************************************)
EXTENDS Naturals, Sequences, FiniteSets

CONSTANTS DgRecords,   \* bound: records to be sent
          DgBuffer,    \* datagrams a socket holds
          DgFaults     \* bound: failures, stops and pauses

ASSUME DatagramAssumption == DgRecords \in Nat /\ DgBuffer \in Nat \ {0} /\ DgFaults \in Nat

VARIABLE dg
(***************************************************************************)
(* kind     "udp" or "uds"                                                 *)
(* queue, output    of the sender: records, and the one in its buffer      *)
(*          (0: none)                                                      *)
(* status, sock, events, want, later     of the sender: for uds, the       *)
(*          receiver's socket it is connected to, for udp, 1 or, if it was *)
(*          not connected, 2 (0: none); POLLOUT is asked for, the          *)
(*          RECONNECTs pending                                             *)
(* error    udp: the socket has an error for the next send                 *)
(* rstatus, rsock, revents    of the receiver: its socket's number         *)
(* net      the datagrams in the receiver's socket                         *)
(* got      records added to the receiver's route                          *)
(* popped, gone   history: records the sender let go; datagrams lost       *)
(* made     sockets of the receiver so far                                 *)
(* failed   since the sender last started, a send has failed, or its start *)
(*          did, and no handler repeats it                                 *)
(***************************************************************************)
DatagramInit ==
  \E kind \in {"udp", "uds"} :
    dg = [kind |-> kind, queue |-> [i \in 1..DgRecords |-> i], output |-> 0,
          status |-> "STOPPED", sock |-> 0, events |-> {"START"}, want |-> FALSE, later |-> 0,
          error |-> FALSE, rstatus |-> "STOPPED", rsock |-> 0, revents |-> {},
          net |-> <<>>, got |-> <<>>, popped |-> <<>>, gone |-> {}, made |-> 0,
          failed |-> FALSE, faults |-> 0]

DgFault(d) == [d EXCEPT !.faults = @ + 1]
MayFail    == dg.faults < DgFaults

-----------------------------------------------------------------------------
(* START or RECONNECT: nx_module_start_self() with om_udp_connect() or     *)
(* om_uds_start().  A Unix socket nobody is bound to ends the start of     *)
(* om_uds early but not with an exception, so that the module runs without *)
(* a socket.  A start that throws leaves the module stopped; om_udp's may  *)
(* leave a socket that is not connected, which the next one takes for its  *)
(* own and which refuses to send.                                          *)
Connected(d) == d.sock # 0
UdpConnected(d) == IF Connected(d) THEN d ELSE [d EXCEPT !.sock = 1, !.error = FALSE]
UdsConnected(d) == IF Connected(d) THEN d ELSE [d EXCEPT !.sock = d.rsock, !.error = FALSE]
Unconnected(d)  == [d EXCEPT !.sock = 2]
Running(d) ==
  [d EXCEPT !.status = "RUNNING", !.failed = FALSE,
            !.events = IF d.queue # <<>> THEN @ \cup {"DATA"} ELSE @]
DgStart(fails) ==
  \E e \in dg.events \cap {"START", "RECONNECT"} :
    LET d == [dg EXCEPT !.events = @ \ {e}]
        Thrown(f) == DgFault([f EXCEPT !.failed = TRUE])
    IN  IF fails
        THEN /\ MayFail /\ d.status = "STOPPED" /\ ~Connected(d)
             /\ \/ dg' = Thrown(d)
                \/ d.kind = "udp" /\ dg' = Thrown(Unconnected(d))
        ELSE dg' = IF d.status = "RUNNING" THEN d
                   ELSE Running(IF d.kind = "udp" THEN UdpConnected(d) ELSE UdsConnected(d))

(* om_udp_stop(), om_uds_stop(); a STOP event does not wake it again.      *)
SockClosed(d) == [d EXCEPT !.sock = 0, !.want = FALSE, !.error = FALSE]
DgStop ==
  /\ dg.status = "RUNNING" /\ MayFail
  /\ dg' = DgFault([SockClosed(dg) EXCEPT !.status = "STOPPED", !.events = @ \cup {"START"}])

(* io_err_handler() and om_udp_add_reconnect_event()                       *)
IoErrHandlerPops(d) ==
  [SockClosed(d) EXCEPT !.status = "STOPPED", !.later = @ + 1, !.queue = Tail(@),
                        !.popped = Append(@, d.output), !.output = 0]
IoErrHandler(d) == [SockClosed(d) EXCEPT !.status = "STOPPED", !.later = @ + 1]
DgDue ==
  /\ dg.later > 0
  /\ dg' = [dg EXCEPT !.later = @ - 1, !.events = @ \cup {"RECONNECT"}]

(* apr_socket_send(): what it makes of one datagram, or a fault of the     *)
(* system.  Without a socket, the assertion before it throws.              *)
Delivers(d) == d.rsock # 0 /\ (d.kind = "udp" \/ d.sock = d.rsock)
SendFaults == {"EAGAIN", "EPIPE"}
SendResult(d, fault) ==
  IF ~Connected(d) THEN "throws"
  ELSE IF fault \in SendFaults THEN fault
  ELSE IF d.kind = "udp" THEN IF d.error \/ d.sock = 2 THEN "throws" ELSE "sent"
  ELSE IF ~Delivers(d) THEN "throws"
  ELSE IF Len(d.net) < DgBuffer THEN "sent" ELSE "EAGAIN"
Sent(d) ==
  LET arrives == Delivers(d) /\ Len(d.net) < DgBuffer
  IN  [d EXCEPT !.net = IF arrives THEN Append(@, d.output) ELSE @,
                !.gone = IF arrives THEN @ ELSE @ \cup {d.output},
                !.error = d.rsock = 0]

(* One turn of the loop of om_udp_write(), om_uds_write(): send what is in *)
(* the buffer, let go of the record, take the next one, for which          *)
(* nx_module_logqueue_peek() posts DATA_AVAILABLE.  stop: how the loop     *)
(* ends there.                                                             *)
DgPopped(d) == [d EXCEPT !.queue = Tail(@), !.popped = Append(@, d.output), !.output = 0]
DgPeeked(d) == IF d.output = 0 /\ d.queue # <<>>
               THEN [d EXCEPT !.output = d.queue[1], !.events = @ \cup {"DATA"}] ELSE d

WriteTurn(d, fault) ==
  IF d.output = 0 THEN [d |-> DgPeeked(d), stop |-> ""]
  ELSE IF SendResult(d, fault) = "sent" THEN [d |-> DgPeeked(DgPopped(Sent(d))), stop |-> ""]
  ELSE [d |-> d, stop |-> SendResult(d, fault)]

(* The loop, with a fault in one of its turns.                             *)
WriteLoop(d, turn, fault) ==
  LET w[n \in 0..DgRecords + 1] ==
        IF n = 0 THEN [d |-> d, stop |-> ""]
        ELSE IF w[n - 1].stop # "" THEN w[n - 1]
        ELSE WriteTurn(w[n - 1].d, IF n = turn THEN fault ELSE "")
  IN  w[DgRecords + 1]

(* Mutant of Blocked: the POLL event is forgotten.                         *)
BlockedUnpolled(d) == [d EXCEPT !.want = TRUE]

Blocked(d) == [d EXCEPT !.want = TRUE, !.events = @ \cup {"POLL"}]

(* DATA_AVAILABLE and WRITE.  Only om_udp's DATA_AVAILABLE handles an I/O  *)
(* error; the others leave the record in the buffer, as EPIPE does.        *)
DgWrite ==
  \E e \in dg.events \cap {"DATA", "WRITE"}, turn \in 0..DgRecords + 1, fault \in SendFaults :
    LET d == [dg EXCEPT !.events = @ \ {e}]
        w == WriteLoop(d, turn, fault)
        f == IF turn = 0 THEN w.d ELSE DgFault(w.d)
    IN  /\ turn > 0 => MayFail /\ w.stop = fault
        /\ dg' = IF d.status # "RUNNING" THEN d
                 ELSE CASE w.stop = ""       -> f
                        [] w.stop = "EAGAIN" -> Blocked(f)
                        [] w.stop = "EPIPE"  -> [f EXCEPT !.failed = TRUE]
                        [] w.stop = "throws" ->
                             IF d.kind = "udp" /\ e = "DATA" THEN IoErrHandler(f)
                             ELSE [f EXCEPT !.failed = TRUE, !.error = FALSE]

(* POLL of the sender: nx_module_pollset_poll(module, FALSE).              *)
Writable(d) == d.want /\ (d.kind = "uds" /\ Delivers(d) => Len(d.net) < DgBuffer)
DgPoll ==
  /\ "POLL" \in dg.events
  /\ dg' = IF dg.status # "RUNNING" THEN [dg EXCEPT !.events = @ \ {"POLL"}]
           ELSE IF Writable(dg) THEN [dg EXCEPT !.events = (@ \ {"POLL"}) \cup {"WRITE"}] ELSE dg

-----------------------------------------------------------------------------
(* im_udp_start(), im_uds_start(): a socket, in the pollset, and a POLL.   *)
UdpBound(d) == [d EXCEPT !.made = @ + 1, !.rsock = d.made + 1]
UdsBound(d) == [d EXCEPT !.made = @ + 1, !.rsock = d.made + 1]
ReceiverStart ==
  /\ dg.rstatus = "STOPPED"
  /\ dg' = [(IF dg.rsock # 0 THEN dg ELSE IF dg.kind = "udp" THEN UdpBound(dg) ELSE UdsBound(dg)) EXCEPT
               !.rstatus = "RUNNING", !.revents = @ \cup {"POLL"}]

(* im_udp_close_socket()                                                   *)
ReceiverClosed(d) ==
  [d EXCEPT !.rsock = 0, !.net = <<>>, !.gone = @ \cup {d.net[i] : i \in DOMAIN d.net}]
ReceiverStop ==
  /\ dg.rstatus # "STOPPED" /\ MayFail
  /\ dg' = DgFault([ReceiverClosed(dg) EXCEPT !.rstatus = "STOPPED"])

ReceiverPause ==
  /\ dg.rstatus = "RUNNING" /\ MayFail
  /\ dg' = DgFault([dg EXCEPT !.rstatus = "PAUSED"])
ReceiverResume ==
  /\ dg.rstatus = "PAUSED"
  /\ dg' = [dg EXCEPT !.rstatus = "RUNNING", !.revents = @ \cup {"POLL"}]

(* READ: im_udp_read(), im_uds_read() with the dgram reader, one datagram. *)
DgReceived(d) == [d EXCEPT !.net = Tail(@), !.got = Append(@, d.net[1])]
ReceiverRead(fails) ==
  /\ "READ" \in dg.revents /\ (fails => MayFail /\ dg.rstatus = "RUNNING" /\ dg.rsock # 0)
  /\ LET d == [dg EXCEPT !.revents = @ \ {"READ"}]
     IN  dg' = IF d.rstatus # "RUNNING" \/ d.rsock = 0 THEN d
               ELSE IF fails THEN DgFault(ReceiverClosed(d))
               ELSE IF d.net = <<>> THEN [d EXCEPT !.revents = @ \cup {"POLL"}]
               ELSE DgReceived(d)

(* POLL: nx_module_pollset_poll(module, TRUE) comes back in any case.      *)
ReceiverPollOnce ==
  /\ "POLL" \in dg.revents
  /\ dg' = IF dg.rstatus # "RUNNING" THEN [dg EXCEPT !.revents = @ \ {"POLL"}]
           ELSE IF dg.net # <<>> THEN [dg EXCEPT !.revents = (@ \ {"POLL"}) \cup {"READ"}] ELSE dg
ReceiverPoll ==
  /\ "POLL" \in dg.revents
  /\ dg' = IF dg.rstatus # "RUNNING" THEN [dg EXCEPT !.revents = @ \ {"POLL"}]
           ELSE IF dg.net # <<>> THEN [dg EXCEPT !.revents = @ \cup {"READ"}] ELSE dg

DatagramNext ==
  \/ DgStop \/ DgDue \/ DgWrite \/ DgPoll
  \/ ReceiverStart \/ ReceiverStop \/ ReceiverPause \/ ReceiverResume \/ ReceiverPoll
  \/ \E fails \in BOOLEAN : DgStart(fails) \/ ReceiverRead(fails)

DatagramSpec == DatagramInit /\ [][DatagramNext]_dg

-----------------------------------------------------------------------------
DgElements(s) == {s[i] : i \in DOMAIN s}

(* The values of the variables.                                            *)
DatagramTypeOK ==
  /\ dg.output \in 0..DgRecords /\ dg.sock \in 0..dg.made + 2 /\ dg.rsock \in 0..dg.made
  /\ dg.status \in {"RUNNING", "STOPPED"} /\ dg.rstatus \in {"RUNNING", "STOPPED", "PAUSED"}
  /\ dg.events \subseteq {"START", "RECONNECT", "DATA", "WRITE", "POLL"}
  /\ dg.revents \subseteq {"POLL", "READ"} /\ Len(dg.net) <= DgBuffer

(* What om_udp and om_uds let go of went out as one datagram each, in      *)
(* order and once; what did not arrive had no receiver with room for it,   *)
(* and over a Unix socket only the end of the receiver loses any.          *)
DatagramsAccounted ==
  LET went == [i \in 1..Len(dg.got) + Len(dg.net) |->
                 IF i <= Len(dg.got) THEN dg.got[i] ELSE dg.net[i - Len(dg.got)]]
  IN  /\ \A i, j \in DOMAIN went : i < j => went[i] < went[j]
      /\ dg.popped = [i \in 1..Len(dg.popped) |-> i]
      /\ DgElements(dg.popped) = DgElements(went) \cup dg.gone
      /\ (dg.kind = "uds" /\ dg.made <= 1 /\ dg.rsock # 0) => dg.gone = {}

(* Unless its start has failed, or a send since, outside of om_udp's       *)
(* handler, a sender with records has an event or a RECONNECT to come, and *)
(* what waits for room is polled for; a receiver that runs with a socket   *)
(* keeps polling.                                                          *)
DatagramsGoOn ==
  /\ (~dg.failed /\ dg.queue # <<>>) => dg.events # {} \/ dg.later > 0
  /\ (~dg.failed /\ dg.status = "RUNNING" /\ dg.output # 0) =>
       dg.events \cap {"DATA", "WRITE"} # {} \/ (dg.want /\ "POLL" \in dg.events)
  /\ (dg.rstatus = "RUNNING" /\ dg.rsock # 0) => dg.revents # {}
=============================================================================
