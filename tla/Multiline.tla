----------------------------- MODULE Multiline ------------------------------
(***************************************************************************)
(* xm_multiline: the bytes of an input, read in chunks cut anywhere, are   *)
(* made lines, and lines messages, by HeaderLine, EndLine and              *)
(* FixedLineCount.  A line has one letter, which says what it matches      *)
(* ("h": HeaderLine, "e": EndLine, "d": the Exec block drops it), and ends *)
(* in LF or CR LF.                                                         *)
(***************************************************************************)
EXTENDS Naturals, Sequences, FiniteSets

LOCAL INSTANCE SequencesExt

CONSTANTS MlLines,    \* bound: lines of the input
          MlFlushes   \* bound: times the reader is flushed

ASSUME MultilineAssumption == MlLines \in Nat /\ MlFlushes \in Nat

Newlines == {"CR", "LF"}
MlEnds   == {<<"LF">>, <<"CR", "LF">>}
Empty    == <<>>

VARIABLE ml
(***************************************************************************)
(* header, end, fixed  the configuration: HeaderLine, EndLine given,       *)
(*                     FixedLineCount (0: not given)                       *)
(* wire    bytes that have not been read      buf   the input buffer       *)
(* tmp     ctx->tmpline      data  ctx->logdata (empty: NULL)              *)
(* count   ctx->linecount    out   the records returned                    *)
(* lines   lines written so far               flushes   flushes so far     *)
(* written history: the letters of all lines                               *)
(* crlf    history: some line ended in CR LF                               *)
(***************************************************************************)
MultilineInit ==
  \E header \in BOOLEAN, end \in BOOLEAN, fixed \in {0, 2} :
    /\ header \/ end \/ fixed > 0
    /\ ml = [header |-> header, end |-> end, fixed |-> fixed, wire |-> Empty, buf |-> Empty,
             tmp |-> Empty, data |-> Empty, count |-> 0, out |-> <<>>, lines |-> 0, flushes |-> 0,
             written |-> Empty, crlf |-> FALSE]

(* The source writes a line; the input module fills its buffer.            *)
WriteLine(c, nl) ==
  /\ ml.lines < MlLines
  /\ ml' = [ml EXCEPT !.wire = @ \o <<c>> \o nl, !.lines = @ + 1, !.written = Append(@, c),
                      !.crlf = @ \/ Len(nl) > 1]
FillInput(n) ==
  /\ ml.buf = Empty /\ n \in 1..Len(ml.wire)
  /\ ml' = [ml EXCEPT !.buf = SubSeq(@ \o ml.wire, 1, n), !.wire = SubSeq(@, n + 1, Len(@))]

(* match_line(), of a line without its end                                 *)
StripCrlf(s) ==
  LET keep == {i \in 0..Len(s) : i = 0 \/ s[i] \notin Newlines}
  IN  SubSeq(s, 1, CHOOSE i \in keep : \A j \in keep : j <= i)
MatchLine(given, line, letter) == given /\ StripCrlf(line) = <<letter>>

MlReturn(m, record) == [m EXCEPT !.out = Append(@, StripCrlf(record))]

(* A line with no message begun: alone, or the first of one.               *)
LineFirst(m, header) ==
  IF m.fixed = 0 /\ ~header
  THEN [MlReturn(m, m.tmp) EXCEPT !.tmp = Empty, !.count = 0]
  ELSE [m EXCEPT !.data = m.tmp, !.tmp = Empty, !.count = @ + 1]

(* A line with a message begun: its last, the first of the next, or one    *)
(* more.                                                                   *)
LineNextDropsEnd(m, header, end) ==
  CASE end -> [MlReturn(m, m.data) EXCEPT !.data = Empty, !.tmp = Empty]
    [] ~end /\ header -> [MlReturn(m, m.data) EXCEPT !.data = m.tmp, !.tmp = Empty, !.count = @ + 1]
    [] OTHER -> [m EXCEPT !.data = @ \o m.tmp, !.tmp = Empty, !.count = @ + 1]
LineNext(m, header, end) ==
  CASE end -> [MlReturn(m, m.data \o m.tmp) EXCEPT !.data = Empty, !.tmp = Empty]
    [] ~end /\ header -> [MlReturn(m, m.data) EXCEPT !.data = m.tmp, !.tmp = Empty, !.count = @ + 1]
    [] OTHER -> [m EXCEPT !.data = @ \o m.tmp, !.tmp = Empty, !.count = @ + 1]

(* FixedLineCount is looked at last: it takes the place of a record that   *)
(* was to be returned.                                                     *)
FixedCountLate(before, m) ==
  IF m.fixed > 0 /\ m.count > m.fixed
  THEN [m EXCEPT !.out = Append(before.out, StripCrlf(m.data)), !.data = Empty, !.count = 0]
  ELSE m
FixedCount(before, m) ==
  IF m.fixed > 0 /\ m.count >= m.fixed
  THEN [m EXCEPT !.out = Append(before.out, StripCrlf(m.data)), !.data = Empty, !.count = 0]
  ELSE m

(* A complete line: the Exec block, then the above.                        *)
CompleteLine(m) ==
  LET header == MatchLine(m.header, m.tmp, "h")
      end    == MatchLine(m.end, m.tmp, "e")
  IN  IF StripCrlf(m.tmp) = <<"d">> THEN [m EXCEPT !.tmp = Empty]
      ELSE FixedCount(m, IF m.data = Empty THEN LineFirst(m, header) ELSE LineNext(m, header, end))

(* xm_multiline_input_func(), one turn of its loop.  Each CR and each LF   *)
(* ends a line.                                                            *)
LineEnd(s) ==
  LET ends == {i \in DOMAIN s : s[i] \in Newlines}
  IN  IF ends = {} THEN Len(s) ELSE CHOOSE i \in ends : \A j \in ends : i <= j
InputFunc ==
  /\ ml.buf # Empty
  /\ LET i    == LineEnd(ml.buf)
         read == [ml EXCEPT !.tmp = @ \o SubSeq(ml.buf, 1, i), !.buf = SubSeq(@, i + 1, Len(@))]
     IN  ml' = IF ml.buf[i] \in Newlines THEN CompleteLine(read) ELSE read

(* xm_multiline_flush_func(), called by im_file when nothing came for a    *)
(* while or the file is closed.                                            *)
FlushedData(m) ==
  IF m.data = Empty /\ m.tmp = Empty THEN m
  ELSE IF m.data = Empty THEN [MlReturn(m, m.tmp) EXCEPT !.tmp = Empty]
  ELSE [MlReturn(m, m.data) EXCEPT !.data = Empty, !.tmp = Empty]
Flushed(m) ==
  IF m.data = Empty /\ m.tmp = Empty THEN m
  ELSE IF m.data = Empty THEN [MlReturn(m, m.tmp) EXCEPT !.tmp = Empty]
  ELSE [MlReturn(m, m.data \o m.tmp) EXCEPT !.data = Empty, !.tmp = Empty]
FlushFunc ==
  /\ ml.buf = Empty /\ ml.flushes < MlFlushes
  /\ ml' = [Flushed(ml) EXCEPT !.flushes = @ + 1]

MultilineNext ==
  \/ \E c \in {"h", "e", "x", "d"}, nl \in MlEnds : WriteLine(c, nl)
  \/ \E n \in 1..Len(ml.wire) : FillInput(n)
  \/ InputFunc \/ FlushFunc
MultilineSpec == MultilineInit /\ [][MultilineNext]_ml
-----------------------------------------------------------------------------
(* The values of the variable.                                             *)
MultilineTypeOK ==
  /\ ml.count \in 0..2 * MlLines
  /\ \A i \in DOMAIN ml.out : ml.out[i] = StripCrlf(ml.out[i])

MlLetters(s) == SelectSeq(s, LAMBDA c : c \notin Newlines)
Undropped(s) == SelectSeq(s, LAMBDA c : c # "d")
AllOf(m) ==
  MlLetters(FlattenSeq(m.out) \o m.data \o m.tmp \o m.buf \o m.wire)

(* However the input is cut into chunks and whenever it is flushed, no     *)
(* line is lost, repeated or moved, but those the Exec block drops; with   *)
(* one exception, a FixedLineCount together with a HeaderLine.             *)
LinesKept ==
  ~(ml.header /\ ml.fixed > 0) => Undropped(AllOf(ml)) = Undropped(ml.written)

(* A message starts at a header and ends before the next one or at an end  *)
(* line, and has as many lines as FixedLineCount says, as long as nothing  *)
(* is flushed.                                                             *)
MessagesWhole ==
  ml.flushes = 0 =>
    \A k \in DOMAIN ml.out :
      LET r == MlLetters(ml.out[k])
      IN  /\ ml.header => \A i \in DOMAIN r : r[i] = "h" => i = 1
          /\ (ml.header /\ ml.fixed = 0 /\ Len(r) > 1) => r[1] = "h"
          /\ (ml.header /\ ml.end) => \A i \in DOMAIN r : (r[i] = "e" /\ i > 1) => i = Len(r)
          /\ (ml.fixed > 0 /\ ~ml.header /\ ~ml.end /\ ~ml.crlf) => Len(r) = ml.fixed
=============================================================================
