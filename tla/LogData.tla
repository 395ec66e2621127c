------------------------------ MODULE LogData -------------------------------
(***************************************************************************)
(* A record (src/common/logdata.c) as the statements, pattern captures,    *)
(* copies and saved queues of a route treat it.  Its fields are a list.    *)
(* Beside it there is logdata->raw_event, a second pointer to the string   *)
(* of the field of that name: expressions read the field, outputs write    *)
(* what the pointer points to, so each operation has two things to keep in *)
(* step.  A record belongs to one module at a time: an operation is a step.*)
(***************************************************************************)
EXTENDS Integers, Sequences, FiniteSets

CONSTANTS
  RcNames,  \* names of fields, without regard to case; "raw_event" is one
  RcLen,    \* bound: the length of a text
  RcOps     \* bound: operations on one record

ASSUME LogDataAssumption == "raw_event" \in RcNames /\ RcLen \in Nat /\ RcOps \in Nat

(* A name as it is spelled.  strcasecmp() compares names, strcmp() keys.   *)
RcKeys == [name : RcNames, lower : BOOLEAN]
RawKey == [name |-> "raw_event", lower |-> TRUE]
RcKeySize(k) == IF k.name = "raw_event" THEN 9 ELSE 1

(* nx_value_t: a text or a binary is its length, an integer one value.     *)
RcString(n) == [type |-> "string", defined |-> TRUE, len |-> n]
RcUndefString == [type |-> "string", defined |-> FALSE, len |-> 0]
RcInteger == [type |-> "integer", defined |-> TRUE, len |-> 0]
RcBinary(n) == [type |-> "binary", defined |-> TRUE, len |-> n]
RcUndef == [type |-> "unknown", defined |-> FALSE, len |-> 0]
RcValues == {RcString(1), RcUndefString, RcInteger, RcBinary(1), RcUndef}
IsText(v) == v.type = "string" /\ v.defined

VARIABLE rc
(***************************************************************************)
(* rc.fields  the fields: key, value, and whether logdata->raw_event is    *)
(*            the string of this value                                     *)
(* rc.raw     what logdata->raw_event is: a "field"'s string, a "loose"    *)
(*            string that no field has, "null", or "invalid": freed or     *)
(*            never set                                                    *)
(* rc.loose   the length of a loose string                                 *)
(* rc.threw   the last operation ended with an exception                   *)
(* rc.map     history: the record as a map from names to keys and values   *)
(* rc.odd     history: what was done to raw_event that sets field and      *)
(*            pointer apart                                                *)
(* rc.saved   history: the record was saved and read back                  *)
(* rc.ops     operations so far                                            *)
(***************************************************************************)

RcField(k, v, raw) == [key |-> k, value |-> v, raw |-> raw]
RcEntry(k, v) == [key |-> k, value |-> v]

(* nx_logdata_new(), nx_logdata_new_logline().                             *)
LogDataInit ==
  \E n \in 0..1 :
    rc = [fields |-> <<RcField(RawKey, RcString(n), TRUE)>>, raw |-> "field", loose |-> 0,
          threw |-> FALSE, map |-> [m \in {"raw_event"} |-> RcEntry(RawKey, RcString(n))],
          odd |-> {}, saved |-> FALSE, ops |-> 0]

(* The first field of that name, without and with regard to case, or 0.    *)
RcFirst(S) == IF S = {} THEN 0 ELSE CHOOSE i \in S : \A j \in S : i <= j
RcFind(s, k) == RcFirst({i \in DOMAIN s.fields : s.fields[i].key.name = k.name})
RcFindExact(s, k) == RcFirst({i \in DOMAIN s.fields : s.fields[i].key = k})
RcWithout(s, i) == [j \in 1..Len(s.fields) - 1 |-> s.fields[IF j < i THEN j ELSE j + 1]]

RcThrow(s) == [s EXCEPT !.threw = TRUE]

(* nx_logdata_append_field_value().                                        *)
RcAppend(s, k, v) == [s EXCEPT !.fields = Append(@, RcField(k, v, FALSE))]

(* logdata->raw_event is given a value: field i's string, or none's.       *)
RcRawTo(s, i, raw) ==
  [s EXCEPT !.fields = [j \in DOMAIN @ |-> [@[j] EXCEPT !.raw = j = i]], !.raw = raw, !.loose = 0]

(* nx_value_free(), and the value of field i is v.                         *)
RcReplaceValue(s, i, v) ==
  [s EXCEPT !.fields[i].value = v, !.fields[i].raw = FALSE,
            !.raw = IF s.fields[i].raw THEN "invalid" ELSE @]

(* Mutant of SetFieldValue: the pointer is left to the value it had.       *)
SetLeavesRaw(s, k, v) ==
  LET i == RcFind(s, k)
  IN  IF i = 0 THEN RcAppend(s, k, v)
      ELSE IF k = RawKey /\ ~IsText(v) THEN RcThrow(s)
      ELSE RcReplaceValue(s, i, v)

(* nx_logdata_set_field_value(), as assignments and most functions use it. *)
SetFieldValue(s, k, v) ==
  LET i == RcFind(s, k)
      r == RcReplaceValue(s, i, v)
  IN  IF i = 0 THEN RcAppend(s, k, v)
      ELSE IF k # RawKey THEN r
      ELSE IF IsText(v) THEN RcRawTo(r, i, "field")
      ELSE RcThrow(s)

(* Mutant of SetCaptured: each captured field is a new one.                *)
SetCapturedAppends(s, k, v) == RcAppend(s, k, v)

(* nx_logdata_set_field(), with which a pattern's captures are set: here   *)
(* it is the spelling of the field that is there which counts.             *)
SetCaptured(s, k, v) ==
  LET i == RcFind(s, k)
      r == RcReplaceValue(s, i, v)
  IN  IF i = 0 THEN RcAppend(s, k, v)
      ELSE IF s.fields[i].key # RawKey THEN r
      ELSE RcRawTo(r, IF IsText(v) THEN i ELSE 0, IF IsText(v) THEN "field" ELSE "loose")

RcRawLen(s) ==
  IF s.raw = "field" THEN (CHOOSE f \in {s.fields[i] : i \in DOMAIN s.fields} : f.raw).value.len
  ELSE s.loose

(* nx_string_set(), nx_string_append() on what the pointer points to.      *)
RcSetRaw(s, n) ==
  [s EXCEPT !.fields = [i \in DOMAIN @ |-> IF @[i].raw THEN [@[i] EXCEPT !.value.len = n] ELSE @[i]],
            !.loose = IF s.raw = "loose" THEN n ELSE @]

(* nx_logdata_delete_field() until it returns FALSE, in delete(): the text *)
(* of raw_event is emptied, and then the pointer is set to NULL.           *)
DeleteField(s, k) ==
  LET i    == RcFindExact(s, k)
      done == [s EXCEPT !.fields = RcWithout(s, i), !.raw = IF s.fields[i].raw THEN "invalid" ELSE @]
  IN  IF i = 0 THEN IF k = RawKey THEN RcRawTo(s, 0, "null") ELSE s
      ELSE IF k # RawKey THEN done
      ELSE IF ~IsText(s.fields[i].value) \/ s.raw = "null" THEN RcThrow(s)
      ELSE RcRawTo(RcSetRaw(s, 0), 0, "null")

(* Mutant of RenameField: the field that has the name already stays.       *)
RenameKeepsOther(s, old, new) ==
  LET i == RcFind(s, old)
  IN  IF old = RawKey THEN RcThrow(s)
      ELSE IF i = 0 THEN s
      ELSE [s EXCEPT !.fields[i].key = new]

(* nx_logdata_rename_field(): the field that has the new name is taken out *)
(* of the list, but not freed.                                             *)
RenameField(s, old, new) ==
  LET i      == RcFind(s, old)
      exists == IF old.name = new.name THEN 0 ELSE RcFind(s, new)
      v      == s.fields[i].value
      moved  == IF new # RawKey THEN s
                ELSE RcRawTo(s, IF v.defined THEN i ELSE 0, IF v.defined THEN "field" ELSE "invalid")
      left   == IF moved.fields[exists].raw
                THEN [moved EXCEPT !.raw = "loose", !.loose = moved.fields[exists].value.len]
                ELSE moved
      named(t, j) == [t EXCEPT !.fields[j].key = new]
  IN  IF old = RawKey THEN RcThrow(s)
      ELSE IF i = 0 THEN s
      ELSE IF exists = 0 THEN named(s, i)
      ELSE IF new = RawKey /\ v.type # "string" THEN RcThrow(s)
      ELSE [named(left, i) EXCEPT !.fields = RcWithout(named(left, i), exists)]

(* nx_value_clone(): only a defined value has contents.                    *)
CloneValue(v) == [v EXCEPT !.len = IF v.defined THEN @ ELSE 0]

(* Mutant of CloneRecord: the copy gets a string of its own.               *)
CloneForgetsRaw(s) == RcRawTo(s, 0, "loose")

(* nx_logdata_clone(): the copy's pointer is found by comparing pointers;  *)
(* the last line asserts that it was.                                      *)
CloneRecord(s) ==
  IF s.raw # "field" THEN RcThrow(s)
  ELSE [s EXCEPT !.fields = [i \in DOMAIN @ |-> [@[i] EXCEPT !.value = CloneValue(@)]]]

(* What a value takes (nx_value_serialized_size()), and a record.          *)
ValueSize(v) ==
  2 + (IF ~v.defined THEN 0 ELSE IF v.type \in {"string", "binary"} THEN 4 + v.len ELSE 8)
SerializedSize(fields) ==
  LET size[i \in 0..Len(fields)] ==
        IF i = 0 THEN 2
        ELSE size[i - 1] + 2 + RcKeySize(fields[i].key) + ValueSize(fields[i].value)
  IN  size[Len(fields)]

(* Mutant of ValueToMembuf: the header is counted twice.                   *)
ValueToMembufTight(v, bufsize) ==
  LET need == IF ~v.defined THEN 2 ELSE IF v.type = "integer" THEN 10 ELSE 8 + v.len
  IN  IF bufsize < need THEN 0 ELSE ValueSize(v)

(* nx_value_to_membuf(): the bytes written, 0 when there is no room.       *)
ValueToMembuf(v, bufsize) ==
  LET need == IF ~v.defined THEN 2 ELSE IF v.type = "integer" THEN 10 ELSE 6 + v.len
  IN  IF bufsize < need THEN 0 ELSE need

(* Mutant of ValueFromMembuf: what there is of a text is taken.            *)
ValueFromMembufShort(v, bufsize) ==
  IF bufsize < 2 THEN 0
  ELSE IF ~v.defined THEN 2
  ELSE IF v.type = "integer" THEN IF 10 <= bufsize THEN 10 ELSE 0
  ELSE IF 6 > bufsize THEN 0
  ELSE IF 6 + v.len <= bufsize THEN 6 + v.len ELSE bufsize

(* nx_value_from_membuf() on what was written for v: the bytes read, 0     *)
(* when it throws.                                                         *)
ValueFromMembuf(v, bufsize) ==
  IF bufsize < 2 THEN 0
  ELSE IF ~v.defined THEN 2
  ELSE IF v.type = "integer" THEN IF 10 <= bufsize THEN 10 ELSE 0
  ELSE IF 6 <= bufsize /\ 6 + v.len <= bufsize THEN 6 + v.len ELSE 0

(* nx_logdata_to_membuf(): the bytes written, 0 when a value had no room.  *)
ToMembuf(fields, bufsize) ==
  LET at[i \in 0..Len(fields)] ==
        IF i = 0 THEN 2
        ELSE LET val   == at[i - 1] + 2 + RcKeySize(fields[i].key)
                 bytes == ValueToMembuf(fields[i].value, bufsize - val)
             IN  IF at[i - 1] = 0 \/ bytes = 0 THEN 0 ELSE val + bytes
  IN  at[Len(fields)]

(* Mutant of FromMembuf: the end of the buffer ends the record.            *)
FromMembufLenient(fields, bufsize) ==
  LET at[i \in 0..Len(fields)] ==
        IF i = 0 THEN IF bufsize <= 1 THEN 0 ELSE 2
        ELSE LET o     == at[i - 1]
                 val   == o + 2 + RcKeySize(fields[i].key)
                 bytes == ValueFromMembuf(fields[i].value, bufsize - val)
             IN  IF o = 0 \/ o >= bufsize THEN o
                 ELSE IF val >= bufsize \/ bytes = 0 THEN 0 ELSE val + bytes
  IN  at[Len(fields)]

(* nx_logdata_from_membuf() on the first bufsize bytes of a record: how    *)
(* far it reads, 0 when it throws.                                         *)
FromMembuf(fields, bufsize) ==
  LET at[i \in 0..Len(fields)] ==
        IF i = 0 THEN IF bufsize <= 1 THEN 0 ELSE 2
        ELSE LET o     == at[i - 1]
                 val   == o + 2 + RcKeySize(fields[i].key)
                 bytes == ValueFromMembuf(fields[i].value, bufsize - val)
             IN  IF o = 0 \/ o >= bufsize \/ val >= bufsize \/ bytes = 0 THEN 0 ELSE val + bytes
  IN  at[Len(fields)]

(* Mutant of ReadBack: raw_event is always a string of its own.            *)
ReadBackApart(s) == RcRawTo(s, 0, "loose")

(* The record that is read: a binary gets its bytes but not its length,    *)
(* and the pointer the string of raw_event, or one of its own.             *)
ReadBack(s) ==
  LET raw == {i \in DOMAIN s.fields : s.fields[i].key = RawKey /\ IsText(s.fields[i].value)}
      t   == [s EXCEPT !.saved = TRUE,
                !.fields = [i \in DOMAIN @ |-> IF @[i].value.type = "binary"
                                               THEN [@[i] EXCEPT !.value.len = 0] ELSE @[i]]]
  IN  RcRawTo(t, RcFirst(raw), IF raw = {} THEN "loose" ELSE "field")
-----------------------------------------------------------------------------
(* The map that the record is meant to be.                                 *)
RcMapSet(s, k, v) ==
  [m \in DOMAIN s.map \cup {k.name} |->
     IF m # k.name THEN s.map[m]
     ELSE RcEntry(IF m \in DOMAIN s.map THEN s.map[m].key ELSE k, v)]
RcMapRemove(s, k) ==
  [m \in DOMAIN s.map \ (IF k.name \in DOMAIN s.map /\ s.map[k.name].key = k /\ k # RawKey
                         THEN {k.name} ELSE {}) |-> s.map[m]]
RcMapRename(s, old, new) ==
  IF old.name \notin DOMAIN s.map THEN s.map
  ELSE [m \in (DOMAIN s.map \ {old.name}) \cup {new.name} |->
          IF m = new.name THEN RcEntry(new, s.map[old.name].value) ELSE s.map[m]]

(* raw_event spelled in another way.                                       *)
OddSpelling(K) == IF \E k \in K : k.name = "raw_event" /\ k # RawKey THEN {"spelling"} ELSE {}

(* An operation on the record, and on the map unless it threw.             *)
RcDone(s, map, odd) ==
  LET t == [s EXCEPT !.odd = @ \cup odd, !.ops = @ + 1]
  IN  rc' = IF s.threw THEN t ELSE [t EXCEPT !.map = map]

Untold == [rc EXCEPT !.threw = FALSE]

(* $k = v, in nx_expr_statement_assignment_execute().                      *)
Assignment(k, v) ==
  RcDone(SetFieldValue(Untold, k, v), RcMapSet(rc, k, v), OddSpelling({k}))

(* A captured field of a pattern, in nx_patterndb_match_logdata().         *)
CapturedField(k, v) ==
  RcDone(SetCaptured(Untold, k, v), RcMapSet(rc, k, v),
         OddSpelling({k}) \cup IF k = RawKey /\ ~IsText(v) THEN {"captured"} ELSE {})

(* delete() and rename_field().                                            *)
ProcDelete(k) ==
  RcDone(DeleteField(Untold, k), RcMapRemove(rc, k),
         IF k = RawKey THEN {"deleted"} ELSE OddSpelling({k}))
ProcRenameField(old, new) ==
  LET i == RcFind(rc, old)
  IN  RcDone(RenameField(Untold, old, new), RcMapRename(rc, old, new),
             OddSpelling({old, new})
               \cup IF new = RawKey /\ i # 0 /\ rc.fields[i].value = RcUndefString
                    THEN {"undefined"} ELSE {})

(* A reader goes on with a record whose line was not complete.             *)
AppendLogline ==
  /\ rc.raw \in {"field", "loose"} /\ RcRawLen(rc) < RcLen
  /\ LET n == RcRawLen(rc) + 1
     IN  RcDone(RcSetRaw(Untold, n),
                IF rc.odd = {} THEN RcMapSet(rc, RawKey, RcString(n)) ELSE rc.map, {})

LogDataNext ==
  /\ rc.raw # "invalid" /\ rc.ops < RcOps
  /\ \/ \E k \in RcKeys, v \in RcValues : Assignment(k, v) \/ CapturedField(k, v)
     \/ \E k \in RcKeys : ProcDelete(k)
     \/ \E old, new \in RcKeys : ProcRenameField(old, new)
     \/ RcDone(CloneRecord(Untold), rc.map, {})
     \/ AppendLogline
     \/ RcDone(ReadBack(Untold), rc.map, {})

LogDataSpec == LogDataInit /\ [][LogDataNext]_rc
-----------------------------------------------------------------------------
(* The values of the variable.                                             *)
LogDataTypeOK ==
  /\ \A i \in DOMAIN rc.fields :
       /\ rc.fields[i].key \in RcKeys /\ rc.fields[i].raw \in BOOLEAN
       /\ rc.fields[i].value.len \in 0..RcLen
  /\ rc.raw \in {"field", "loose", "null", "invalid"} /\ rc.loose \in 0..RcLen
  /\ rc.raw = "field" <=> \E i \in DOMAIN rc.fields : rc.fields[i].raw
  /\ rc.odd \subseteq {"spelling", "captured", "deleted", "undefined"}

(* logdata->raw_event is the string of the field $raw_event, through all   *)
(* assignments, captures, renames, copies and saved queues, unless         *)
(* raw_event was spelled in another way, deleted, captured as something    *)
(* that is no text, or given an undefined field's name; it is NULL only    *)
(* after a delete(), and freed only after one of the others                *)
(* (logdata.c:156-236, 345-380, expr-core-funcproc-cb.c:1082-1086).        *)
RawIsField ==
  /\ rc.odd = {} =>
       LET i == RcFind(rc, RawKey)
       IN  i # 0 /\ rc.fields[i].key = RawKey /\ rc.fields[i].raw /\ IsText(rc.fields[i].value)
  /\ rc.raw = "null" => "deleted" \in rc.odd
  /\ rc.raw = "invalid" => rc.odd \cap {"spelling", "undefined"} # {}

(* A record is a map: each name is there once, with the value it was given *)
(* last; only a binary is not what it was after it was saved, and          *)
(* raw_event after one of the occasions above.                             *)
RecordIsMap ==
  /\ \A i, j \in DOMAIN rc.fields : rc.fields[i].key.name = rc.fields[j].key.name => i = j
  /\ "spelling" \notin rc.odd =>
       /\ {f.key.name : f \in {rc.fields[i] : i \in DOMAIN rc.fields}} = DOMAIN rc.map
       /\ \A i \in DOMAIN rc.fields :
            LET f == rc.fields[i]
            IN  \/ RcEntry(f.key, f.value) = rc.map[f.key.name]
                \/ f.key.name = "raw_event" /\ rc.odd # {}
                \/ f.value.type = "binary" /\ rc.saved

(* The bytes of a record are as many as are made room for, and are read    *)
(* back to the last one; a record that was cut short anywhere is refused   *)
(* (logqueue.c:215-220, 310, pm_buffer.c:75-79, writerfuncs.c:72-88).      *)
SavedWhole ==
  LET n == SerializedSize(rc.fields)
  IN  /\ ToMembuf(rc.fields, n) = n /\ FromMembuf(rc.fields, n) = n
      /\ \A m \in 0..n - 1 : FromMembuf(rc.fields, m) = 0
=============================================================================
