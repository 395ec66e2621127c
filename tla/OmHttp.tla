------------------------------- MODULE OmHttp -------------------------------
(***************************************************************************)
(* om_http (src/modules/output/http/om_http.c) over plain HTTP: one        *)
(* request at a time, a record leaves the queue when its answer has been   *)
(* read, and four ways of losing the connection.  A worker handles one     *)
(* event of the module's list after the other; the server and the clock    *)
(* act in between.  An event's being due and its being handled are one     *)
(* step.                                                                   *)
(***************************************************************************)
EXTENDS Naturals, Sequences, FiniteSets, EventQueue

CONSTANTS HtRecords,   \* bound: records that arrive
          HtFaults,    \* bound: failures, the server's errors, partial sends, timeouts
          HtReqLen,    \* length of a request; send() may take less
          HtLengths    \* Content-Length values of the server's answers

ASSUME OmHttpAssumption ==
  HtRecords \in Nat /\ HtFaults \in Nat /\ HtReqLen \in Nat \ {0} /\ HtLengths \subseteq Nat

VARIABLE ht
(***************************************************************************)
(* queue, events, status   of the module; later: RECONNECTs not yet due    *)
(* rec           modconf->logdata (0: NULL)                                *)
(* bio, req      the record whose request is in bio_req (0: NULL) and      *)
(*               reqbufsize, what is unsent; reqbuf points into bio_req,   *)
(*               and into freed memory when bio = 0 and req > 0            *)
(* wait          modconf->resp_wait                                        *)
(* connected, stale   modconf->connected; sock is left pointing to a       *)
(*               socket whose pool was cleared                             *)
(* backoff       modconf->reconnect                                        *)
(* want          POLLOUT is asked for                                      *)
(* timer         timeout_event is not NULL: a TIMEOUT is pending           *)
(* head, seen, state, body, expect   got_resp_head, bytes in               *)
(*               bio_resp_head, the CR LF automaton, bytes in              *)
(*               bio_resp_body, and content_length                         *)
(* peer, got, wire, torn   the server: "up" or "closed", how much of a     *)
(*               request it has, of which record, and whether it received  *)
(*               bytes that do not continue it                             *)
(* answer, length     what it has answered and is in flight, and the       *)
(*               Content-Length of the last answer                         *)
(* accepted, refused, popped   history: records the server took, those it  *)
(*               answered with an error, and how many left the queue       *)
(* wild          history: bytes of freed memory were sent                  *)
(***************************************************************************)

HtEv(type) == [type |-> type, data |-> IF type \in {"READ", "WRITE", "DISCONNECT"}
                                       THEN "sock" ELSE "NULL"]
HtAdd(h, type) == [h EXCEPT !.events = Enqueue(@, HtEv(type))]
HtTakes(type) == ht.events # <<>> /\ Head(ht.events).type = type /\ ht.status # "crashed"
HtRest == [ht EXCEPT !.events = Tail(@)]

OmHttpInit ==
  ht = [queue |-> <<>>, events |-> <<>>, status |-> "RUNNING", later |-> 0, rec |-> 0,
        bio |-> 0, req |-> 0, wait |-> FALSE, connected |-> FALSE, stale |-> FALSE,
        backoff |-> 0, want |-> FALSE, timer |-> FALSE, head |-> FALSE, seen |-> <<>>,
        state |-> <<>>, body |-> 0, expect |-> 0, peer |-> "closed", got |-> 0, wire |-> 0,
        torn |-> FALSE, answer |-> <<>>, length |-> 0, accepted |-> {}, refused |-> {},
        popped |-> 0, wild |-> FALSE, arrived |-> 0, faults |-> 0]

HtPush ==
  /\ ht.arrived < HtRecords /\ ht.status # "crashed"
  /\ ht' = HtAdd([ht EXCEPT !.arrived = @ + 1, !.queue = Append(@, ht.arrived + 1)],
                 "DATA_AVAILABLE")
-----------------------------------------------------------------------------
(* om_http_add_reconnect_event(): at once, or later after a failure.       *)
HtReconnectEvent(h) ==
  IF h.backoff = 0 THEN HtAdd(h, "RECONNECT") ELSE [h EXCEPT !.later = @ + 1]

HtClosed(h) == [h EXCEPT !.connected = FALSE, !.peer = "closed", !.want = FALSE,
                         !.got = 0, !.torn = FALSE, !.answer = <<>>]

(* Mutant of HttpDisconnect: it does not look at resp_wait.                *)
HttpDisconnectSentOnly(h) ==
  IF h.req > 0 THEN HtReconnectEvent(HtClosed(h)) ELSE HtClosed(h)

(* om_http_disconnect(module, TRUE)                                        *)
HttpDisconnect(h) ==
  IF h.req > 0 \/ h.wait THEN HtReconnectEvent(HtClosed(h)) ELSE HtClosed(h)

(* Mutant of HttpReset: the answer of the old connection is kept.          *)
HttpResetKeeps(h) == [h EXCEPT !.rec = 0, !.timer = FALSE, !.want = FALSE]

(* om_http_reset(): neither the request nor what is unsent of it.          *)
HttpReset(h) ==
  [h EXCEPT !.rec = 0, !.seen = <<>>, !.state = <<>>, !.body = 0, !.expect = 0,
            !.head = FALSE, !.timer = FALSE, !.want = FALSE]

(* io_err_handler() of a failed om_http_connect(): the delay is doubled,   *)
(* but it is 0 whenever om_http_connect() is called.  om_http_stop() does  *)
(* not clear the socket it did not connect.                                *)
ConnectFailed(h) ==
  HtReconnectEvent([HtClosed(h) EXCEPT !.backoff = IF @ = 0 THEN 1 ELSE 2 * @,
                                       !.status = "STOPPED", !.stale = TRUE])

(* om_http_connect()                                                       *)
HttpConnect(h) ==
  {HtAdd([h EXCEPT !.connected = TRUE, !.stale = FALSE, !.backoff = 0, !.peer = "up",
                   !.got = 0, !.answer = <<>>], "DATA_AVAILABLE")}
  \cup (IF h.faults < HtFaults THEN {ConnectFailed([h EXCEPT !.faults = @ + 1])} ELSE {})

(* n bytes from reqbuf are sent.  A server that is up receives them: they  *)
(* begin a request, continue the one it has, or are nothing it knows.      *)
HtSent(h, n) ==
  LET fits == h.bio # 0 /\ h.got = HtReqLen - h.req /\ (h.got = 0 \/ h.wire = h.bio)
  IN  IF n = 0 THEN h
      ELSE [h EXCEPT !.req = @ - n, !.wire = h.bio, !.wild = @ \/ h.bio = 0,
                     !.torn = h.peer = "up" /\ (@ \/ ~fits),
                     !.got  = IF h.peer = "up" THEN @ + n ELSE @]

Timed(h) == [h EXCEPT !.timer = TRUE]

Took(h, n) ==
  HtAdd([HtSent(Timed(h), n) EXCEPT !.want = n < h.req,
           !.faults = IF n < h.req THEN @ + 1 ELSE @], "POLL")

(* Mutant of SendReturns: a TIMEOUT that is pending is no obstacle.        *)
SendReturnsAgain(h) ==
  IF h.req = 0 THEN {Timed(h)}
  ELSE IF ~h.connected THEN {}
  ELSE {Took(h, n) : n \in IF h.faults < HtFaults THEN 0..h.req ELSE {h.req}}

(* om_http_send_request(), the ways to return.  It starts a timer.  The    *)
(* whole of the request is sent, or a part until EAGAIN; to a server that  *)
(* has gone, EPIPE stops the module.                                       *)
SendReturns(h) ==
  IF h.timer THEN {}
  ELSE IF h.req = 0 THEN {Timed(h)}
  ELSE IF ~h.connected THEN {}
  ELSE {Took(h, n) : n \in IF h.faults < HtFaults THEN 0..h.req ELSE {h.req}}
       \cup (IF h.peer = "closed" THEN {[HtClosed(Timed(h)) EXCEPT !.status = "STOPPED"]}
             ELSE {})

(* And to throw: the assertion that no timer is pending fails before       *)
(* anything is done, or send() fails otherwise after some of it was sent.  *)
(* Without a connection there is no socket to send to.                     *)
SendThrows(h) ==
  IF h.timer THEN {h}
  ELSE IF h.req = 0 THEN {}
  ELSE IF ~h.connected THEN {[h EXCEPT !.status = "crashed"]}
  ELSE IF h.peer = "closed"
  THEN {IF n = 0 THEN Timed(h) ELSE HtAdd(HtSent(Timed(h), n), "POLL") : n \in 0..h.req - 1}
  ELSE {}

(* om_http_create_request(): the assertion that there is no request fails, *)
(* with logdata already set.                                               *)
CreateRequest(h) ==
  IF h.bio # 0 THEN h ELSE [h EXCEPT !.bio = h.rec, !.req = HtReqLen, !.wait = TRUE]

(* om_http_data_available(): a new record is taken up when there is none;  *)
(* nx_module_logqueue_peek() posts the event again.  After sending, the    *)
(* request is freed, sent or not, unless sending has thrown.               *)
DataAvailable(h) ==
  LET peeked == HtAdd([h EXCEPT !.rec = Head(h.queue)], "DATA_AVAILABLE")
      work   == IF h.rec # 0 THEN h ELSE CreateRequest(peeked)
  IN  IF h.status # "RUNNING" \/ (h.rec = 0 /\ h.queue = <<>>) THEN {h}
      ELSE IF h.rec = 0 /\ h.bio # 0 THEN {work}
      ELSE IF ~work.connected
      THEN IF work.backoff = 0 THEN HttpConnect(work) ELSE {work}
      ELSE IF work.req = 0 THEN {[work EXCEPT !.bio = 0]}
      ELSE SendThrows(work) \cup {[s EXCEPT !.bio = 0] : s \in SendReturns(work)}

HtData == HtTakes("DATA_AVAILABLE") /\ ht' \in DataAvailable(HtRest)

HtWrite == HtTakes("WRITE") /\ ht' \in SendReturns(HtRest) \cup SendThrows(HtRest)

(* RECONNECT: nx_module_start_self(), the delay forgotten, and on.         *)
HtReconnect ==
  LET started == IF ht.status = "STOPPED" /\ ht.queue # <<>>
                 THEN HtAdd(HtRest, "DATA_AVAILABLE") ELSE HtRest
  IN  HtTakes("RECONNECT")
      /\ ht' \in DataAvailable([started EXCEPT !.status = "RUNNING", !.backoff = 0])

HtDue ==
  /\ ht.later > 0 /\ ht.status # "crashed"
  /\ ht' = HtAdd([ht EXCEPT !.later = @ - 1], "RECONNECT")

HtDisconnected ==
  /\ HtTakes("DISCONNECT")
  /\ ht' = IF ht.connected THEN HttpReset(HttpDisconnect(HtRest)) ELSE HtRest

(* TIMEOUT.  With a stale socket, it is closed twice.                      *)
HtTimeout ==
  /\ ht.timer /\ ht.status # "crashed" /\ ht.faults < HtFaults
  /\ \/ ht' = HttpDisconnect(HttpReset([ht EXCEPT !.faults = @ + 1]))
     \/ ht.stale /\ ht' = [ht EXCEPT !.status = "crashed"]
-----------------------------------------------------------------------------
(* The states of the automaton that looks for the end of the head.         *)
RespState(state, c) ==
  CASE c = "r" /\ state = <<>>              -> <<"r">>
    [] c = "n" /\ state = <<"r">>           -> <<"r", "n">>
    [] c = "r" /\ state = <<"r", "n">>      -> <<"r", "n", "r">>
    [] c = "n" /\ state = <<"r", "n", "r">> -> <<"r", "n", "r", "n">>
    [] OTHER -> <<>>

(* How far the loop of om_http_read_response() gets in what was received:  *)
(* at the end of the head it stops on the last line feed.                  *)
Scan(state, text) ==
  LET at[i \in 0..Len(text)] ==
        IF i = 0 THEN state
        ELSE IF Len(at[i - 1]) = 4 THEN at[i - 1] ELSE RespState(at[i - 1], text[i])
  IN  at

(* om_http_check_resp_head(): the head begins with a status that is OK.    *)
StatusOK(head) == head # <<>> /\ head[1] = "200"

(* Mutant of Answered: the body is not waited for, nor the head.           *)
AnsweredEarly(h) ==
  HtAdd(HtAdd(HttpReset([h EXCEPT !.wait = FALSE, !.popped = h.rec, !.queue = Tail(@)]),
              "DATA_AVAILABLE"), "POLL")

(* The answer is complete: the record is popped and the next one looked    *)
(* for.  The body in bio_resp_body begins with the head's last line feed.  *)
Answered(h) ==
  LET done == h.head /\ h.expect <= h.body
      after == IF done
               THEN HttpReset([h EXCEPT !.wait = FALSE, !.popped = h.rec, !.queue = Tail(@)])
               ELSE h
  IN  HtAdd(HtAdd(after, "DATA_AVAILABLE"), "POLL")

(* What om_http_read_response() makes of the bytes.  A status that is not  *)
(* OK leaves it by a throw: got_resp_head is set, content_length is not.   *)
Received(h, text) ==
  LET at   == Scan(h.state, text)
      last == at[Len(text)]
      i    == Cardinality({k \in 0..Len(text) - 1 : Len(at[k]) < 4})
      all  == h.seen \o SubSeq(text, 1, i - 1)
  IN  IF h.head THEN Answered([h EXCEPT !.body = @ + Len(text)])
      ELSE IF Len(last) < 4 THEN Answered([h EXCEPT !.seen = @ \o text, !.state = last])
      ELSE IF ~StatusOK(all) THEN [h EXCEPT !.head = TRUE, !.seen = all, !.state = last]
      ELSE Answered([h EXCEPT !.head = TRUE, !.seen = all, !.state = <<>>,
                              !.expect = h.length, !.body = Len(text) - i + 1])

(* READ: some of what the server has sent; nothing yet (EAGAIN); from a    *)
(* server that has closed, the end, or an error, which is thrown.          *)
HtRead ==
  /\ HtTakes("READ")
  /\ \/ ~ht.connected /\ ht' = HtRest
     \/ /\ ht.connected /\ ht.answer = <<>>
        /\ ht' = IF ht.peer = "closed" THEN HttpReset(HttpDisconnect(HtRest))
                 ELSE Received(HtRest, <<>>)
     \/ /\ ht.connected /\ ht.peer = "closed" /\ ht.faults < HtFaults
        /\ ht' = [HtRest EXCEPT !.faults = @ + 1]
     \/ /\ ht.connected
        /\ \E n \in 1..Len(ht.answer) :
             LET rest == [HtRest EXCEPT !.answer = SubSeq(@, n + 1, Len(@))]
             IN  ht' = IF ht.rec = 0 THEN HttpDisconnect(HttpReset(rest))
                       ELSE Received(rest, SubSeq(ht.answer, 1, n))

(* POLL, only with a socket: what is ready, and POLL again.                *)
HtPoll ==
  /\ HtTakes("POLL")
  /\ LET read  == IF ht.answer # <<>> \/ ht.peer = "closed" THEN HtAdd(HtRest, "READ") ELSE HtRest
         write == IF ht.want THEN HtAdd(read, "WRITE") ELSE read
         hup   == IF ht.peer = "closed" THEN HtAdd(write, "DISCONNECT") ELSE write
     IN  ht' = IF ht.status # "RUNNING" \/ ~(ht.connected \/ ht.stale) THEN HtRest
               ELSE HtAdd(IF HtRest.events = <<>> THEN hup ELSE HtRest, "POLL")
-----------------------------------------------------------------------------
(* The server takes a whole request, and answers; or refuses it, perhaps   *)
(* before it has all of it.  Bytes that are no request it can only refuse. *)
HtServe ==
  /\ ht.peer = "up" /\ ht.got > 0 /\ ht.status # "crashed"
  /\ \E k \in HtLengths, ok \in BOOLEAN :
       /\ IF ok THEN ht.got = HtReqLen /\ ~ht.torn ELSE ht.faults < HtFaults
       /\ ht' = [ht EXCEPT !.got = 0, !.length = k,
                   !.faults = IF ok THEN @ ELSE @ + 1,
                   !.answer = @ \o <<IF ok THEN "200" ELSE "500", "r", "n", "r", "n">>
                                \o [i \in 1..k |-> "b"],
                   !.accepted = IF ok THEN @ \cup {ht.wire} ELSE @,
                   !.refused  = IF ok THEN @ ELSE @ \cup {ht.wire}]

(* It closes; what it had answered is delivered or lost.                   *)
HtHangup ==
  /\ ht.peer = "up" /\ ht.faults < HtFaults /\ ht.status # "crashed"
  /\ \E kept \in {ht.answer, <<>>} :
       ht' = [ht EXCEPT !.peer = "closed", !.faults = @ + 1, !.got = 0, !.answer = kept]

OmHttpNext ==
  \/ HtPush \/ HtData \/ HtWrite \/ HtReconnect \/ HtDue \/ HtDisconnected \/ HtTimeout
  \/ HtRead \/ HtPoll \/ HtServe \/ HtHangup

OmHttpSpec == OmHttpInit /\ [][OmHttpNext]_ht
-----------------------------------------------------------------------------
(* Type invariant.  In particular the delay never grows beyond a second.   *)
OmHttpTypeOK ==
  /\ ht.status \in {"RUNNING", "STOPPED", "crashed"} /\ ht.backoff \in {0, 1}
  /\ ht.rec \in 0..HtRecords /\ ht.bio \in 0..HtRecords /\ ht.req \in 0..HtReqLen

(* A record leaves the queue only after the server has answered the        *)
(* request that carried it, with whatever timeouts, broken connections and *)
(* answers split over several reads; no answer is taken for that of        *)
(* another record, and records leave in their order.  (An answer that      *)
(* refuses the record, even with an error status, lets it go as well.)     *)
(* The one exception is behind a request that was freed with a part of it  *)
(* unsent: its rest is sent only once a server has refused a request       *)
(* before it had all of it, the assertion on the timer prevents it else.   *)
HttpAnswered ==
  /\ 1..ht.popped \subseteq ht.accepted \cup ht.refused \/ ht.wild
  /\ ht.wild => ht.refused # {}
  /\ ht.queue = [i \in 1..ht.arrived - ht.popped |-> ht.popped + i]

(* As long as there is a record, something is pending that will take it    *)
(* up: an event, the timeout, or a reconnection.                           *)
HttpGoesOn ==
  ht.queue # <<>> /\ ht.status # "crashed" =>
    \/ \E i \in DOMAIN ht.events : ht.events[i].type \in {"DATA_AVAILABLE", "RECONNECT"}
    \/ ht.timer \/ ht.later > 0

=============================================================================
