-------------------------------- MODULE Csv ---------------------------------
(***************************************************************************)
(* xm_csv (src/modules/extension/csv/csv.c): a record is written as a line *)
(* (nx_logdata_to_csv) and a line is read into the fields of a record      *)
(* (parse_fields), a character a step.  Characters are "x" (any other),    *)
(* "n" (which stands for a newline when escaped), "newline", "space", the  *)
(* delimiter ",", the quote "q" and the escape character "esc".            *)
(***************************************************************************)
EXTENDS Naturals, Sequences, FiniteSets

LOCAL INSTANCE SequencesExt

CONSTANTS CsFields,   \* num_field
          CsLength,   \* bound: characters of a value
          CsText      \* bound: characters of a line that was not written by to_csv()

ASSUME CsvAssumption == CsFields \in Nat \ {0} /\ CsLength \in Nat /\ CsText \in Nat

CsChars == {"x", "n", "newline", "space", ",", "q", "esc"}
CsMethods == {"STRING", "ALL", "NONE"}
CsUndef == <<"undef">>

(* escape_string()                                                         *)
EscapeQuotesOnly(s) ==
  FlattenSeq([i \in DOMAIN s |-> IF s[i] \in {"q", ","} THEN <<"esc", s[i]>> ELSE <<s[i]>>])
EscapeString(s) ==
  FlattenSeq([i \in DOMAIN s |->
    IF s[i] \in {"esc", "q", ","} THEN <<"esc", s[i]>>
    ELSE IF s[i] = "newline" THEN <<"esc", "n">> ELSE <<s[i]>>])

(* nx_logdata_to_csv().  A value is [string, s] (string: it is one for     *)
(* nx_value_t); nothing is written for one that is undefined, nor for the  *)
(* empty string.                                                           *)
CsQuoted(v, method) == IF v.string THEN method # "NONE" ELSE method = "ALL"
WriteValue(v, method) ==
  IF v.s \in {CsUndef, <<>>} THEN <<>>
  ELSE IF CsQuoted(v, method) THEN <<"q">> \o EscapeString(v.s) \o <<"q">>
  ELSE EscapeString(v.s)
ToCsv(record, method) ==
  FlattenSeq([i \in 1..CsFields |->
    (IF i > 1 THEN <<",">> ELSE <<>>) \o WriteValue(record[i], method)])

VARIABLE cs
(***************************************************************************)
(* src, pos   the line, and the characters read                            *)
(* state      "START", "INSIDE_FIELD", "QUOTE"                             *)
(* unescape   the last character was the escape character                  *)
(* dst        the value being put together                                 *)
(* field      currfield                                                    *)
(* got        the fields that were set                                     *)
(* status     "parsing", "done", "error"                                   *)
(* record     history: what was written, or <<>>                           *)
(* method     history: the quote method                                    *)
(***************************************************************************)
CsValues ==
  {[string |-> TRUE, s |-> s] : s \in {CsUndef} \cup UNION {[1..n -> CsChars] : n \in 0..CsLength}}
  \cup {[string |-> FALSE, s |-> <<"x">>]}
CsStart(src, record, method) ==
  [src |-> src, pos |-> 0, state |-> "START", unescape |-> FALSE, dst |-> <<>>, field |-> 0,
   got |-> [i \in 1..CsFields |-> CsUndef], status |-> "parsing", record |-> record, method |-> method]
CsvInit ==
  \/ \E record \in [1..CsFields -> CsValues], method \in CsMethods :
       cs = CsStart(ToCsv(record, method), record, method)
  \/ \E n \in 0..CsText : \E src \in [1..n -> CsChars] : cs = CsStart(src, <<>>, "none")

-----------------------------------------------------------------------------
(* unescape_string(): an escape before a character that needs none stays.  *)
UnescapeDropped(c, chr) ==
  [c EXCEPT !.unescape = FALSE,
            !.dst = @ \o (CASE chr = "n" -> <<"newline">>
                            [] chr \in {"esc", "q"} -> <<chr>> [] OTHER -> <<"esc", "esc", chr>>)]
UnescapeString(c, chr) ==
  [c EXCEPT !.unescape = FALSE,
            !.dst = @ \o (CASE chr = "n" -> <<"newline">>
                            [] chr \in {"esc", "q"} -> <<chr>> [] OTHER -> <<"esc", chr>>)]

(* add_logdata_field() and what goes with it.                              *)
CsFails(c) == [c EXCEPT !.status = "error"]
AddFieldUnchecked(c) ==
  [c EXCEPT !.got = IF c.field < CsFields THEN [@ EXCEPT ![c.field + 1] = c.dst] ELSE @,
            !.field = @ + 1, !.dst = <<>>, !.state = "START"]
AddField(c) ==
  IF c.field >= CsFields THEN CsFails(c)
  ELSE [c EXCEPT !.got[c.field + 1] = c.dst, !.field = @ + 1, !.dst = <<>>, !.state = "START"]
PassField(c) == IF c.field >= CsFields THEN CsFails(c) ELSE [c EXCEPT !.field = @ + 1]

(* parse_fields(): within quotes, behind the closing quote, elsewhere.     *)
CsTake(c, chr) == [c EXCEPT !.dst = Append(@, chr)]
InsideField(c, chr) ==
  CASE chr = "q" -> [c EXCEPT !.state = "QUOTE"]
    [] chr = "esc" -> [c EXCEPT !.unescape = TRUE]
    [] OTHER -> CsTake(c, chr)
AfterQuote(c, chr) ==
  CASE chr = "q" -> [CsTake(c, chr) EXCEPT !.state = "INSIDE_FIELD"]
    [] chr = "," -> AddField(c)
    [] chr = "esc" -> [c EXCEPT !.unescape = TRUE]
    [] chr = "space" -> c
    [] OTHER -> CsFails(c)
Outside(c, chr) ==
  CASE chr = "esc" -> [c EXCEPT !.unescape = TRUE]
    [] chr = "," -> IF c.dst = <<>> THEN PassField(c) ELSE AddField(c)
    [] chr = "space" /\ c.dst = <<>> -> c
    [] chr = "q" /\ c.dst = <<>> -> [c EXCEPT !.state = "INSIDE_FIELD"]
    [] OTHER -> CsTake(c, chr)
ParseChar ==
  /\ cs.status = "parsing" /\ cs.pos < Len(cs.src)
  /\ LET chr == cs.src[cs.pos + 1]
         c   == [cs EXCEPT !.pos = @ + 1]
     IN  cs' = CASE cs.unescape -> UnescapeString(c, chr)
                 [] ~cs.unescape /\ cs.state = "INSIDE_FIELD" -> InsideField(c, chr)
                 [] ~cs.unescape /\ cs.state = "QUOTE" -> AfterQuote(c, chr)
                 [] OTHER -> Outside(c, chr)

(* The end of the line.  The last field may be missing.                    *)
LastField(c) ==
  CASE c.state = "INSIDE_FIELD" -> CsFails(c)
    [] c.state = "QUOTE" -> AddField(c)
    [] OTHER -> IF c.dst = <<>> THEN c ELSE AddField(c)
FieldsCounted(c) ==
  IF c.status = "error" \/ c.field \notin {CsFields - 1, CsFields} THEN CsFails(c)
  ELSE [c EXCEPT !.status = "done"]
ParseEnd ==
  /\ cs.status = "parsing" /\ cs.pos = Len(cs.src)
  /\ cs' = FieldsCounted(LastField(cs))

CsvNext == ParseChar \/ ParseEnd
CsvSpec == CsvInit /\ [][CsvNext]_cs
-----------------------------------------------------------------------------
(* The values of the variable.                                             *)
CsvTypeOK ==
  /\ cs.state \in {"START", "INSIDE_FIELD", "QUOTE"} /\ cs.status \in {"parsing", "done", "error"}
  /\ cs.pos \in 0..Len(cs.src)

(* The buffer for a value is as long as the line, and the fields are as    *)
(* many as were configured: neither is ever exceeded, whatever the line.   *)
CsvInBounds == Len(cs.dst) <= cs.pos /\ cs.field <= CsFields

(* A value that is to be read back: not empty, without the delimiter and,  *)
(* where it is not quoted, without a space at its start.                   *)
Plain(v, method) ==
  /\ v.s # <<>> /\ \A i \in DOMAIN v.s : v.s[i] # ","
  /\ CsQuoted(v, method) \/ v.s[1] # "space"

(* parse_csv() reads what to_csv() wrote, field by field: no value is      *)
(* changed by the way it is quoted and escaped, nor gets into another      *)
(* field.                                                                  *)
CsvReadBack ==
  (cs.status # "parsing" /\ cs.record # <<>>
     /\ \A i \in DOMAIN cs.record : Plain(cs.record[i], cs.method)) =>
    cs.status = "done" /\ \A i \in 1..CsFields : cs.got[i] = cs.record[i].s
=============================================================================
