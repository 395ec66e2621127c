------------------------------ MODULE SslLink -------------------------------
(***************************************************************************)
(* om_ssl sending to im_ssl (src/modules/output/ssl/om_ssl.c,              *)
(* src/modules/input/ssl/im_ssl.c, src/common/ssl.c): which readiness each *)
(* side asks the poll loop for while the SSL library wants to read or to   *)
(* write, in the handshake and after it.  A handler is one step.  A POLL   *)
(* event is always pending in a running module of either kind, so that     *)
(* polling is what it does when it has no other event.                     *)
(***************************************************************************)
EXTENDS Naturals, Sequences, FiniteSets

CONSTANTS SlRecords,   \* bound: records to be sent
          SlConns,     \* bound: connections
          SlWindow,    \* bound: pieces one direction of a connection holds
          SlRenews,    \* bound: handshakes begun on a connection that had one
          SlFails      \* bound: failures of om_ssl_connect()

ASSUME SslAssumption ==
  /\ SlRecords \in Nat /\ SlConns \in Nat \ {0} /\ SlWindow \in Nat \ {0}
  /\ SlRenews \in Nat /\ SlFails \in Nat

(* The library (external).  A handshake is four flights of two pieces, the *)
(* client's first; a side is p pieces into it.  A later handshake is one   *)
(* piece of the client and the last flight.                                *)
SslPieces == 8
SslRenewed == 5
Owner(k) == IF ((k - 1) \div 2) % 2 = 0 THEN "client" ELSE "server"

VARIABLE sl
(***************************************************************************)
(* queue, output   of om_ssl: records, and the one in its buffer (0: none) *)
(* status, sock, ssl, events, want, later    of om_ssl: sock and omconf's  *)
(*          connection (0: none), ssl its position in the handshake, want  *)
(*          what the pollset watches, later the RECONNECTs pending         *)
(* inputs   of im_ssl: for each connection its position, what is watched,  *)
(*          and whether it is "new", "open" or "freed"                     *)
(* revents  its events, as <<type, connection>>                            *)
(* up       per connection: it has not been broken                         *)
(* to, fro  what is in flight to the server and to the client              *)
(* got      records im_ssl has read, in their order                        *)
(* popped, lost   history: records om_ssl has let go; those that went down *)
(*          with a connection                                              *)
(* renews, fails  handshakes begun anew and failures so far                *)
(***************************************************************************)
Links == 1..SlConns

InFlight(c) == {sl.to[c][i] : i \in DOMAIN sl.to[c]} \ {0}

SslInit ==
  sl = [queue |-> [i \in 1..SlRecords |-> i], output |-> 0, status |-> "STOPPED", sock |-> 0,
        ssl |-> 0, events |-> <<"RECONNECT">>, want |-> {}, later |-> 0,
        inputs |-> [c \in Links |-> [p |-> 0, want |-> {}, state |-> "none"]], revents |-> <<>>,
        up |-> [c \in Links |-> FALSE], to |-> [c \in Links |-> <<>>],
        fro |-> [c \in Links |-> <<>>], got |-> <<>>, popped |-> {}, lost |-> {},
        renews |-> 0, fails |-> 0]

(* One piece of SSL_do_handshake(): s is [p, in, out].                     *)
Advance(side, s) ==
  IF s.p < SslPieces /\ Owner(s.p + 1) = side
  THEN IF Len(s.out) < SlWindow THEN [s EXCEPT !.p = @ + 1, !.out = Append(@, 0)] ELSE s
  ELSE IF s.p < SslPieces /\ s.in # <<>> THEN [s EXCEPT !.p = @ + 1, !.in = Tail(@)] ELSE s

Handshake(side, s) ==
  LET after[n \in 0..SslPieces] == IF n = 0 THEN s ELSE Advance(side, after[n - 1])
  IN  after[SslPieces]

(* What nx_ssl_check_io_error() makes of an unfinished handshake.          *)
HandshakeError(side, s) ==
  IF Owner(s.p + 1) = side THEN "WANT_WRITE" ELSE "WANT_READ"
-----------------------------------------------------------------------------
(* om_ssl.  It works on its view of the state.                             *)
SlAdd(s, type) == IF s.events # <<>> /\ s.events[Len(s.events)] = type THEN s
                  ELSE [s EXCEPT !.events = Append(@, type)]
SlTakes(types) == sl.events # <<>> /\ Head(sl.events) \in types
SlRest == [sl EXCEPT !.events = Tail(@)]

(* nx_module_stop_self() with om_ssl_stop(), which a stopped module skips, *)
(* and om_ssl_add_reconnect_event().  The peer sees the end.               *)
SslStop(s) ==
  [s EXCEPT !.status = "STOPPED", !.sock = 0, !.ssl = 0, !.want = {}, !.later = @ + 1,
            !.up = [c \in Links |-> c # s.sock /\ s.up[c]]]

SslConnected(s, c) ==
  [s EXCEPT !.sock = c, !.ssl = 0, !.want = {"IN", "OUT"}, !.up[c] = TRUE,
            !.inputs[c].state = "new"]

(* Mutant of SslConnectFails: nothing is tried again.                      *)
SslConnectFailsQuietly(s, c) == {[s EXCEPT !.fails = @ + 1]}

(* om_ssl_connect() throws before there is a connection or after: through  *)
(* io_err_handler() what there is is closed, and tried again later.        *)
SslConnectFails(s, c) ==
  IF s.fails = SlFails THEN {}
  ELSE {SslStop([t EXCEPT !.fails = @ + 1]) : t \in {s, SslConnected(s, c)}}

(* RECONNECT: nx_module_start_self(), om_ssl_connect().                    *)
SslConnect ==
  /\ SlTakes({"RECONNECT"})
  /\ IF sl.status = "RUNNING" THEN sl' = SlRest
     ELSE \E c \in Links :
            /\ sl.inputs[c].state = "none" /\ \A d \in 1..c - 1 : sl.inputs[d].state # "none"
            /\ LET s == [SslConnected(SlRest, c) EXCEPT !.status = "RUNNING"]
               IN  \/ sl' = IF s.queue # <<>> THEN SlAdd(s, "DATA_AVAILABLE") ELSE s
                   \/ sl' \in SslConnectFails(SlRest, c)

SslReconnectDue == sl.later > 0 /\ sl' = SlAdd([sl EXCEPT !.later = @ - 1], "RECONNECT")

(* The client's part of the handshake, as far as it goes.                  *)
Shaken(s) ==
  LET h == Handshake("client", [p |-> s.ssl, in |-> s.fro[s.sock], out |-> s.to[s.sock]])
  IN  [s EXCEPT !.ssl = h.p, !.fro[s.sock] = h.in, !.to[s.sock] = h.out]

(* Mutant of Watched: WANT_WRITE is not told from WANT_READ.               *)
WatchedIn(s) == [s EXCEPT !.want = {"IN"}]

(* WANT_WRITE and WANT_READ: what is watched then.                         *)
Watched(s) ==
  [s EXCEPT !.want = IF HandshakeError("client", [p |-> s.ssl]) = "WANT_WRITE"
                     THEN {"OUT"} ELSE {"IN"}]

(* do_handshake() of a connection that is up.                              *)
DoHandshake(s) ==
  LET t == Shaken(s)
  IN  IF s.ssl = SslPieces THEN s
      ELSE IF t.ssl = SslPieces
      THEN SlAdd([t EXCEPT !.want = {"IN", "OUT"}], "DATA_AVAILABLE")
      ELSE Watched(t)

(* The library begins a new handshake inside a call of SSL_write() or of   *)
(* SSL_read() that has nothing left to flush: the call wants to write, or  *)
(* to read.                                                                *)
Renew(s) == Watched(Shaken([s EXCEPT !.ssl = SslRenewed, !.renews = @ + 1]))

(* Mutant of SslWriteLoop: more room is not waited for.                    *)
SslWriteLoopDeaf(s, renew) ==
  LET c == s.sock
      round[n \in 0..SlRecords] ==
        IF n = 0 THEN [s EXCEPT !.want = {"IN"}]
        ELSE LET r == round[n - 1]
             IN  IF r.queue = <<>> \/ Len(r.to[c]) = SlWindow THEN r
                 ELSE [r EXCEPT !.to[c] = Append(@, Head(r.queue)), !.output = 0,
                                !.popped = @ \cup {Head(r.queue)}, !.queue = Tail(@)]
  IN  round[SlRecords]

(* Mutant of SslWriteLoop: a record that had to wait is not popped.        *)
SslWriteLoopUnpopped(s, renew) ==
  LET c == s.sock
      r == [s EXCEPT !.to[c] = Append(@, Head(s.queue)), !.want = {"OUT"},
                     !.popped = @ \cup {Head(s.queue)}]
  IN  IF s.queue = <<>> THEN [s EXCEPT !.want = {"IN"}]
      ELSE IF Len(s.to[c]) = SlWindow THEN [s EXCEPT !.output = Head(s.queue), !.want = {"OUT"}]
      ELSE IF s.output # 0 THEN [r EXCEPT !.output = 0]
      ELSE [r EXCEPT !.queue = Tail(@), !.output = 1]

(* The loop of om_ssl_write(): SSL_write() takes a record as a whole, or   *)
(* wants to write; in round renew, it begins a handshake instead, and      *)
(* wants to write or to read.  nx_module_logqueue_peek() posts an event.   *)
SslWriteLoop(s, renew) ==
  LET c == s.sock
      round[n \in 0..SlRecords] ==
        IF n = 0 THEN IF s.output = 0 THEN [s EXCEPT !.want = {"IN"}] ELSE s
        ELSE LET d == round[n - 1]
                 r == IF d.output = 0 THEN SlAdd(d, "DATA_AVAILABLE") ELSE d
             IN  IF d.queue = <<>> \/ d.ssl < SslPieces THEN d
                 ELSE IF n = renew /\ r.output = 0
                 THEN [Renew(r) EXCEPT !.output = Head(r.queue)]
                 ELSE IF Len(r.to[c]) < SlWindow
                 THEN [r EXCEPT !.to[c] = Append(@, Head(r.queue)), !.output = 0,
                                !.popped = @ \cup {Head(r.queue)}, !.queue = Tail(@)]
                 ELSE [r EXCEPT !.output = Head(r.queue), !.want = {"OUT"}]
  IN  round[SlRecords]

(* DATA_AVAILABLE and WRITE.  On a broken connection the library reports   *)
(* its end or an error: both stop the module.                              *)
SslWrite ==
  /\ SlTakes({"DATA_AVAILABLE", "WRITE"})
  /\ \E renew \in IF sl.renews < SlRenews THEN 0..SlRecords ELSE {0} :
       sl' = IF sl.sock = 0 THEN SlRest
             ELSE IF ~sl.up[sl.sock] THEN SslStop(SlRest)
             ELSE LET s == DoHandshake(SlRest)
                  IN  IF s.ssl < SslPieces THEN s ELSE SslWriteLoop(s, renew)

(* READ: the peer never sends after the handshake, so that reading finds   *)
(* the end or wants to read; or it begins a handshake.                     *)
SslRead ==
  /\ SlTakes({"READ"})
  /\ \E renew \in BOOLEAN :
       /\ renew => sl.renews < SlRenews /\ sl.output = 0
       /\ sl' = IF sl.sock = 0 THEN SlRest
                ELSE IF ~sl.up[sl.sock] THEN SslStop(SlRest)
                ELSE LET s == DoHandshake(SlRest)
                     IN  IF s.ssl < SslPieces THEN s
                         ELSE IF renew THEN Renew(s) ELSE [s EXCEPT !.want = {"IN"}]

SslDisconnect == SlTakes({"DISCONNECT"}) /\ sl' = SslStop(SlRest)

(* POLL: what is ready of what is watched.                                 *)
SslReady ==
  IF sl.sock = 0 \/ sl.status # "RUNNING" THEN <<>>
  ELSE LET c == sl.sock
           gone == ~sl.up[c]
       IN  (IF "IN" \in sl.want /\ (gone \/ sl.fro[c] # <<>>) THEN <<"READ">> ELSE <<>>)
           \o (IF "OUT" \in sl.want /\ (gone \/ Len(sl.to[c]) < SlWindow) THEN <<"WRITE">>
               ELSE <<>>)
           \o (IF gone THEN <<"DISCONNECT">> ELSE <<>>)

SslPoll == sl.events = <<>> /\ SslReady # <<>> /\ sl' = [sl EXCEPT !.events = SslReady]
-----------------------------------------------------------------------------
(* im_ssl                                                                  *)
RTakes(type) == sl.revents # <<>> /\ Head(sl.revents)[1] = type
RConn == Head(sl.revents)[2]
RTail(s) == [s EXCEPT !.revents = Tail(@)]

(* im_ssl_free_input(): the events of the connection go with it.           *)
SslFree(s, c) ==
  [s EXCEPT !.inputs[c].state = "freed", !.inputs[c].want = {}, !.up[c] = FALSE,
            !.revents = SelectSeq(@, LAMBDA e : e[2] # c), !.to[c] = <<>>, !.fro[c] = <<>>,
            !.lost = @ \cup InFlight(c)]

(* im_ssl_accept()                                                         *)
SslAccept ==
  /\ sl.revents = <<>>
  /\ \E c \in Links :
       /\ sl.inputs[c].state = "new"
       /\ sl' = [sl EXCEPT !.inputs[c].state = "open", !.inputs[c].want = {"IN"}]

(* Where SSL_read() of the server is: a piece of a handshake on a          *)
(* connection that had one begins a new one.                               *)
ServerAt(c) ==
  IF sl.inputs[c].p = SslPieces /\ sl.to[c] # <<>> /\ Head(sl.to[c]) = 0
  THEN SslRenewed ELSE sl.inputs[c].p

(* im_ssl_fill_buffer(): one SSL_read(), which goes through the handshake  *)
(* first; im_ssl_read() reads the lines of what it got.                    *)
SslInput ==
  /\ RTakes("READ")
  /\ LET c == RConn
         h == Handshake("server", [p |-> ServerAt(c), in |-> sl.to[c], out |-> sl.fro[c]])
         s == [RTail(sl) EXCEPT !.inputs[c].p = h.p, !.to[c] = h.in, !.fro[c] = h.out]
     IN  sl' = IF h.p < SslPieces
               THEN IF ~sl.up[c] THEN SslFree(s, c)
                    ELSE [s EXCEPT !.inputs[c].want =
                            IF HandshakeError("server", h) = "WANT_WRITE" THEN {"OUT"} ELSE {"IN"}]
               ELSE IF h.in # <<>>
               THEN [s EXCEPT !.got = Append(@, Head(h.in)), !.to[c] = Tail(@),
                              !.inputs[c].want = {"IN"}]
               ELSE IF ~sl.up[c] THEN SslFree(s, c) ELSE [s EXCEPT !.inputs[c].want = {"IN"}]

(* im_ssl_write(): only to go on with the handshake.  What is watched does *)
(* not change when it finishes: the next WRITE, which there should not be, *)
(* asks for POLLIN.                                                        *)
SslOutput ==
  /\ RTakes("WRITE")
  /\ LET c == RConn
         h == Handshake("server", [p |-> sl.inputs[c].p, in |-> sl.to[c], out |-> sl.fro[c]])
         s == [RTail(sl) EXCEPT !.inputs[c].p = h.p, !.to[c] = h.in, !.fro[c] = h.out]
     IN  sl' = IF sl.inputs[c].p = SslPieces THEN [RTail(sl) EXCEPT !.inputs[c].want = {"IN"}]
               ELSE IF ~sl.up[c] THEN SslFree(s, c)
               ELSE IF h.p = SslPieces THEN s
               ELSE [s EXCEPT !.inputs[c].want =
                       IF HandshakeError("server", h) = "WANT_WRITE" THEN {"OUT"} ELSE {"IN"}]

SslInputEnds == RTakes("DISCONNECT") /\ sl' = SslFree(RTail(sl), RConn)

SslInputReady(c) ==
  LET i == sl.inputs[c]
  IN  IF i.state # "open" THEN <<>>
      ELSE (IF "IN" \in i.want /\ (sl.to[c] # <<>> \/ ~sl.up[c]) THEN <<<<"READ", c>>>> ELSE <<>>)
           \o (IF "OUT" \in i.want /\ (Len(sl.fro[c]) < SlWindow \/ ~sl.up[c])
               THEN <<<<"WRITE", c>>>> ELSE <<>>)

(* POLLHUP is not reported as long as there is something to read.          *)
SslInputPoll ==
  /\ sl.revents = <<>>
  /\ \E c \in Links :
       /\ SslInputReady(c) # <<>>
       /\ \/ sl' = [sl EXCEPT !.revents = SslInputReady(c)]
          \/ /\ ~sl.up[c] /\ sl.to[c] = <<>>
             /\ sl' = [sl EXCEPT !.revents = SslInputReady(c) \o <<<<"DISCONNECT", c>>>>]
-----------------------------------------------------------------------------
(* The network breaks the connection; what is in flight goes down with it. *)
SslCut(c) ==
  /\ sl.up[c]
  /\ sl' = [sl EXCEPT !.up[c] = FALSE, !.fro[c] = <<>>, !.to[c] = <<>>,
              !.lost = @ \cup InFlight(c)]

SslNext ==
  \/ SslConnect \/ SslReconnectDue \/ SslWrite \/ SslRead \/ SslDisconnect \/ SslPoll
  \/ SslAccept \/ SslInput \/ SslOutput \/ SslInputEnds \/ SslInputPoll
  \/ \E c \in Links : SslCut(c)

SslSpec == SslInit /\ [][SslNext]_sl
-----------------------------------------------------------------------------
(* Type invariant.                                                         *)
SslTypeOK ==
  /\ sl.status \in {"STOPPED", "RUNNING"} /\ sl.sock \in 0..SlConns /\ sl.ssl \in 0..SslPieces
  /\ sl.want \subseteq {"IN", "OUT"} /\ sl.later \in Nat
  /\ (sl.sock = 0) = (sl.status = "STOPPED")

(* Through handshake and data the two sides never wait for each other: as  *)
(* long as om_ssl has a record to send, one of them has an event or finds  *)
(* something ready of what it watches, or a reconnection is pending.       *)
NobodyWaits ==
  sl.queue # <<>> \/ (\E c \in Links : sl.to[c] # <<>>) =>
    \/ sl.events # <<>> \/ sl.revents # <<>> \/ sl.later > 0 \/ SslReady # <<>>
    \/ \E c \in Links : SslInputReady(c) # <<>> \/ sl.inputs[c].state = "new"

(* Every record gets to im_ssl at most once and in the order of the queue, *)
(* and one that does not get there went down with a connection.            *)
SslOnceInOrder ==
  /\ \A i, j \in DOMAIN sl.got : i < j => sl.got[i] < sl.got[j]
  /\ sl.popped \subseteq sl.lost \cup {sl.got[i] : i \in DOMAIN sl.got}
                         \cup UNION {InFlight(c) : c \in Links}
=============================================================================
