----------------------------- MODULE PatternDb -----------------------------
(***************************************************************************)
(* pm_pattern (src/modules/processor/pattern): the pattern database is     *)
(* read from XML by the handlers of patterndb_parser.c, which the parser   *)
(* calls for every start and end of an element, and records are matched    *)
(* against it by patterndb.c.  The two are the two kinds of behaviour of   *)
(* this module: a document that grows element by element, and a database   *)
(* of two patterns that meets one record after the other.                  *)
(***************************************************************************)
EXTENDS Naturals, Sequences, FiniteSets

LOCAL INSTANCE SequencesExt

CONSTANTS PdElements,   \* bound: number of the last element of a document
          PdRecords     \* bound: records matched

ASSUME PatternDbAssumption == PdElements \in Nat /\ PdRecords \in Nat

-----------------------------------------------------------------------------
(* init_occurrence(): the elements an element may hold, with how often     *)
(* they have to and may occur (0: any number).                             *)
Once == <<1, 1>>   Maybe == <<0, 1>>   Many == <<0, 0>>
Valued == [name |-> Once, type |-> Once, value |-> Once]
Leaves == {"type", "fieldname", "name", "description", "value", "id", "exec", "created", "version"}
init_occurrence ==
  [patterndb |-> [created |-> Maybe, version |-> Maybe, group |-> Many],
   group |-> [id |-> Once, name |-> Many, description |-> Maybe, pattern |-> Many,
              matchfield |-> Many],
   pattern |-> [id |-> Once, name |-> Once, description |-> Maybe, matchfield |-> Many,
                set |-> Many, exec |-> Many, testcase |-> Many],
   matchfield |-> [name |-> Once, type |-> Once, value |-> Once, capturedfield |-> Many],
   capturedfield |-> [name |-> Once, type |-> Once],
   field |-> Valued, capturedvalue |-> Valued,
   set |-> [field |-> Many], testcase |-> [field |-> Many, capturedvalue |-> Many]]
Inside(el) == IF el \in DOMAIN init_occurrence THEN init_occurrence[el] ELSE [c \in {} |-> Many]
KnownElement(el) == el \in DOMAIN init_occurrence \cup Leaves

(* What a <type> or <value> of a matchfield, or an <exec>, may say; the    *)
(* others' text does not matter.  A regular expression has 0 or 1          *)
(* capturing groups.                                                       *)
Texts(parent, el) ==
  CASE parent = "matchfield" /\ el = "type"  -> {"EXACT", "REGEXP", "bad"}
    [] parent = "matchfield" /\ el = "value" -> {"0", "1", "bad"}
    [] el = "exec"                           -> {"ok", "bad"}
    [] OTHER                                 -> {"ok"}

Blank == [id |-> FALSE, name |-> FALSE, type |-> "none", value |-> "none", caps |-> 0,
          mfs |-> <<>>, items |-> <<>>]
Node(el) == [el |-> el, seen |-> [c \in DOMAIN Inside(el) |-> 0], data |-> Blank]

VARIABLE pd
(***************************************************************************)
(* kind     "load" or "match"                                              *)
(* stack    the open elements; n of them were started so far               *)
(* state    "open", "loaded", or "failed": the start of pm_pattern throws; *)
(*          "undefined" after a read of memory nobody wrote                *)
(* db       of "match": the two patterns; guard: the matchfields of the    *)
(*          one group or the two, order: of their lists, count: the        *)
(*          patterns' matches                                              *)
(* rec      the record, matched the pattern it matched (0: none), fields   *)
(*          those captured for it                                          *)
(***************************************************************************)
PdFail(p) == [p EXCEPT !.state = "failed", !.stack = <<>>]
TopNode(p) == p.stack[Len(p.stack)]
Parent(p) == IF Len(p.stack) > 1 THEN p.stack[Len(p.stack) - 1].el ELSE "xml"

(* xcc_start_handler(): what is unknown, in the wrong place or there too   *)
(* often, or has an attribute, ends the load.  Only <patterndb> can be the *)
(* root: the other containers need a database (ASSERT), and nothing is     *)
(* done for a leaf there.                                                  *)
TooOften(p, el) == LET t == TopNode(p) IN Inside(t.el)[el][2] # 0 /\ t.seen[el] >= Inside(t.el)[el][2]
Allowed(p, el) ==
  IF p.stack = <<>> THEN el = "patterndb" ELSE el \in DOMAIN Inside(TopNode(p).el) /\ ~TooOften(p, el)
Counted(p, el) ==
  IF p.stack = <<>> THEN p ELSE [p EXCEPT !.stack[Len(p.stack)].seen[el] = @ + 1]

StartElement(el, attribute) ==
  /\ pd.kind = "load" /\ pd.state = "open" /\ pd.n < PdElements
  /\ (pd.stack = <<>>) => (pd.n = 3)
  /\ pd' = IF ~KnownElement(el) \/ ~Allowed(pd, el) \/ attribute THEN PdFail(pd)
           ELSE [Counted(pd, el) EXCEPT !.stack = Append(@, Node(el)), !.n = @ + 1]

(* xcc_end_handler(): an element that lacks something ends the load, and   *)
(* yet is handed to its parent.                                            *)
MissingNever(t) == FALSE
Missing(t) == \E c \in DOMAIN Inside(t.el) : t.seen[c] < Inside(t.el)[c][1]

(* nx_pattern_add_matchfield(), nx_patterngroup_add_matchfield(): exact    *)
(* matches go to the front, regular expressions to the end; one of a       *)
(* pattern that captures must name all it captures.                        *)
MatchfieldBad(parent, m) ==
  m.type = "REGEXP" /\
    (m.value \in {"bad", "none"} \/ (parent = "pattern" /\ m.caps # (IF m.value = "1" THEN 1 ELSE 0)))
AddMatchfield(mfs, m) == IF m.type = "REGEXP" THEN Append(mfs, m) ELSE <<m>> \o mfs

(* The two levels at which an element ends: leaf texts, then containers.   *)
LeafEnds(el, text, d) ==
  CASE el = "id"    -> [d EXCEPT !.id = TRUE]
    [] el = "name"  -> [d EXCEPT !.name = TRUE]
    [] el = "type"  -> [d EXCEPT !.type = text]
    [] el = "value" -> [d EXCEPT !.value = text]
    [] OTHER        -> d
ContainerEnds(t, d) ==
  CASE t.el = "matchfield"           -> [d EXCEPT !.mfs = AddMatchfield(@, t.data)]
    [] t.el = "capturedfield"        -> [d EXCEPT !.caps = @ + 1]
    [] t.el \in {"pattern", "group"} -> [d EXCEPT !.items = Append(@, t.data)]
    [] OTHER                         -> d

EndThrows(parent, t, text) ==
  \/ text = "bad" /\ t.el \in {"type", "exec"}
  \/ t.el = "matchfield" /\ MatchfieldBad(parent, t.data)
  \/ t.el = "pattern" /\ t.data.mfs = <<>>

(* A <field> of a <set> is allocated by malloc(): what was not there is    *)
(* garbage that is copied before the load fails.                           *)
Garbage(parent, t) == t.el \in {"field", "capturedvalue"} /\ Missing(t)

EndElement(text) ==
  /\ pd.kind = "load" /\ pd.state = "open" /\ pd.stack # <<>>
  /\ text \in Texts(Parent(pd), TopNode(pd).el)
  /\ LET t    == TopNode(pd)
         rest == [pd EXCEPT !.stack = SubSeq(@, 1, Len(@) - 1)]
         data == rest.stack[Len(rest.stack)].data
     IN  pd' = IF Garbage(Parent(pd), t) THEN [PdFail(pd) EXCEPT !.state = "undefined"]
               ELSE IF Missing(t) \/ EndThrows(Parent(pd), t, text) THEN PdFail(rest)
               ELSE IF rest.stack = <<>> THEN [rest EXCEPT !.state = "loaded", !.db = t.data.items]
               ELSE [rest EXCEPT !.stack[Len(rest.stack)].data =
                       IF t.el \in Leaves THEN LeafEnds(t.el, text, data) ELSE ContainerEnds(t, data)]

-----------------------------------------------------------------------------
(* Matching.  Field "s" of a record is a string, "i" an integer, "b" a    *)
(* boolean and "d" a date; each has the value 1, 2 or, as a string, 3, or  *)
(* 0: not there or not defined.  An EXACT match is for one value, a REGEXP *)
(* for that value and 3; it captures field <<name, value>>, and is an      *)
(* error where the value is 3: the group took no part in the match.  Of    *)
(* the booleans, 1 is true and 2 false; the EXACT match for 3, which is    *)
(* neither, takes both, and a REGEXP takes none.                           *)
Matchfields ==
  [name : {"s", "i", "d"}, type : {"EXACT", "REGEXP"}, value : {1, 2}]
    \cup [name : {"b"}, type : {"EXACT", "REGEXP"}, value : {1, 3}]
Records ==
  { r \in [s : 0..3, i : 0..1, b : 0..2, d : 0..1] :
      Cardinality({f \in DOMAIN r : r[f] # 0}) <= 2 }

Accepts(m, v) ==
  IF m.name = "b" THEN m.type = "EXACT" /\ m.value \in {v, 3}
  ELSE v = m.value \/ (m.type = "REGEXP" /\ v = 3)

(* nx_patterndb_match_matchfields(): "yes", "no" or "throw", and what was  *)
(* captured.  A regular expression on an integer, and any match of a date, *)
(* decides at once.                                                        *)
Decides(m) == m.name = "d" \/ (m.name = "i" /\ m.type = "REGEXP")
MatchStep(acc, m, rec) ==
  LET v == rec[m.name]
  IN  IF acc.result # "on" THEN acc
      ELSE IF v = 0 \/ ~Accepts(m, v) THEN [acc EXCEPT !.result = "no"]
      ELSE IF m.type = "REGEXP" /\ v = 3 THEN [acc EXCEPT !.result = "throw"]
      ELSE [fields |-> IF m.type = "REGEXP" THEN acc.fields \cup {<<m.name, m.value>>} ELSE acc.fields,
            result |-> IF Decides(m) THEN "yes" ELSE "on"]
nx_patterndb_match_matchfields(mfs, rec, fields) ==
  LET acc == FoldLeft(LAMBDA a, m : MatchStep(a, m, rec), [fields |-> fields, result |-> "on"], mfs)
  IN  IF acc.result = "on" THEN [acc EXCEPT !.result = "yes"] ELSE acc

(* The pattern that matched moves up by one in the list when it has        *)
(* matched more often than the one before it.                              *)
Advanced(order, count, p) ==
  LET i == CHOOSE j \in DOMAIN order : order[j] = p
  IN  IF i > 1 /\ count[order[i - 1]] < count[p]
      THEN [order EXCEPT ![i] = order[i - 1], ![i - 1] = p] ELSE order

(* nx_patterndb_match_logdata(): the groups in their order, of each that   *)
(* matches the patterns in the order of its list.  What a group captures   *)
(* has no list to go to (the ASSERT throws and is caught at once); what a  *)
(* pattern that did not match has captured is dropped.                     *)
ClearedNot(fields) == fields
Cleared(fields) == {}
MatchPattern(acc, i, p) ==
  IF acc.result # "no" THEN acc
  ELSE LET r == nx_patterndb_match_matchfields(p.db[i], p.rec, acc.fields)
       IN  [result |-> r.result, id |-> i,
            fields |-> IF r.result = "no" THEN Cleared(r.fields) ELSE r.fields]
MatchGroup(acc, g, p) ==
  IF acc.result # "no" THEN acc
  ELSE LET r == nx_patterndb_match_matchfields(p.guard[g], p.rec, {}).result
       IN  IF r = "yes" THEN FoldLeft(LAMBDA a, i : MatchPattern(a, i, p), acc, p.order[g])
           ELSE [acc EXCEPT !.result = r]
nx_patterndb_match_logdata(p) ==
  FoldLeft(LAMBDA a, g : MatchGroup(a, g, p), [result |-> "no", id |-> 0, fields |-> {}],
           [g \in DOMAIN p.order |-> g])

(* pm_pattern_data_available(): after an exception the record is still the *)
(* first of the queue, and the next event meets it again.                  *)
pm_pattern_data_available(rec) ==
  /\ pd.kind = "match" /\ pd.n < PdRecords
  /\ (pd.state = "again") => (rec = pd.rec)
  /\ LET p == [pd EXCEPT !.rec = rec, !.n = @ + 1]
         r == nx_patterndb_match_logdata(p)
         c == [p.count EXCEPT ![r.id] = @ + 1]
     IN  pd' = CASE r.result = "throw" -> [p EXCEPT !.state = "again", !.matched = 0, !.fields = {}]
                 [] r.result = "no"    -> [p EXCEPT !.state = "open", !.matched = 0, !.fields = {}]
                 [] r.result = "yes"   ->
                      [p EXCEPT !.state = "open", !.matched = r.id, !.fields = r.fields, !.count = c,
                                !.order = [g \in DOMAIN @ |-> IF r.id \in Range(@[g])
                                                              THEN Advanced(@[g], c, r.id) ELSE @[g]]]

(* A document starts empty (the first of its elements has number 4), or    *)
(* with a group and a pattern that have their ids and names.               *)
Begun ==
  <<[Node("patterndb") EXCEPT !.seen["group"] = 1],
    [Node("group") EXCEPT !.seen["id"] = 1, !.seen["pattern"] = 1, !.data.id = TRUE],
    [Node("pattern") EXCEPT !.seen["id"] = 1, !.seen["name"] = 1, !.data.id = TRUE, !.data.name = TRUE]>>
PatternDbInit ==
  \/ pd = [kind |-> "load", stack |-> <<>>, n |-> 3, state |-> "open", db |-> <<>>]
  \/ pd = [kind |-> "load", stack |-> Begun, n |-> 0, state |-> "open", db |-> <<>>]
  \/ \E a \in Matchfields, b \in {m \in Matchfields : m.value # 2},
        c \in {m \in Matchfields : m.name = "s" /\ m.value = 1},
        guard \in {<<>>, <<[name |-> "s", type |-> "REGEXP", value |-> 1]>>,
                          <<[name |-> "b", type |-> "EXACT", value |-> 1]>>},
        order \in {<<<<1, 2>>>>, <<<<1>>, <<2>>>>} :
       pd = [kind |-> "match", n |-> 0, state |-> "open",
             db |-> <<AddMatchfield(<<a>>, b), <<c>>>>, guard |-> <<guard, <<>>>>, order |-> order,
             count |-> <<0, 0>>, rec |-> [s |-> 0, i |-> 0, b |-> 0, d |-> 0], matched |-> 0,
             fields |-> {}]

PatternDbNext ==
  \/ \E el \in DOMAIN init_occurrence \cup Leaves \cup {"unknown"}, attribute \in BOOLEAN :
       StartElement(el, attribute)
  \/ \E text \in {"EXACT", "REGEXP", "bad", "0", "1", "ok"} : EndElement(text)
  \/ \E rec \in Records : pm_pattern_data_available(rec)

PatternDbSpec == PatternDbInit /\ [][PatternDbNext]_pd

-----------------------------------------------------------------------------
(* The values of the variables.                                            *)
PatternDbTypeOK ==
  IF pd.kind = "load"
  THEN pd.n \in 0..PdElements /\ pd.state \in {"open", "loaded", "failed", "undefined"}
  ELSE /\ pd.n \in 0..PdRecords /\ pd.state \in {"open", "again"} /\ pd.rec \in Records
       /\ pd.matched \in 0..2 /\ UNION {Range(pd.order[g]) : g \in DOMAIN pd.order} = {1, 2}

(* A database that was loaded is complete: each group has its id, each     *)
(* pattern an id, a name and a matchfield, each matchfield what it needs   *)
(* to be matched, with a name for everything it captures.                  *)
LoadedComplete ==
  (pd.kind = "load" /\ pd.state = "loaded") =>
    \A g \in Range(pd.db) :
      /\ g.id
      /\ \A p \in Range(g.items) :
           /\ p.id /\ p.name /\ p.mfs # <<>>
           /\ \A m \in Range(p.mfs) :
                /\ m.name /\ m.type \in {"EXACT", "REGEXP"} /\ m.value # "none"
                /\ m.type = "REGEXP" => m.value = (IF m.caps = 1 THEN "1" ELSE "0")

(* A record gets the fields that the pattern it matched has captured, and  *)
(* none of a group, or of a pattern tried before it.                       *)
CapturesOwn ==
  (pd.kind = "match") =>
    \A f \in pd.fields : \E m \in Range(pd.db[pd.matched]) :
      m.type = "REGEXP" /\ f = <<m.name, m.value>> /\ Accepts(m, pd.rec[m.name])

(* patterndb.c:624, "if we get here all fields matched, i.e. the pattern   *)
(* matches".                                                               *)
AllFieldsMatched ==
  (pd.kind = "match" /\ pd.matched # 0) =>
    \A m \in Range(pd.db[pd.matched]) : Accepts(m, pd.rec[m.name])
=============================================================================
