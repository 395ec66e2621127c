------------------------------- MODULE Regexp -------------------------------
(***************************************************************************)
(* The regular expression operators (=~, !~, s///) of src/common/expr.c in *)
(* a list of statements: what they leave in the captured strings ($0, $1)  *)
(* and in the field.  A string is a sequence of letters and a regular      *)
(* expression a sequence of letters too, found at its leftmost place; the  *)
(* last letter may be captured.                                            *)
(***************************************************************************)
EXTENDS Naturals, Sequences, FiniteSets

CONSTANTS RxLength,   \* bound: letters of a string
          RxOps,      \* bound: operations
          RxLimit     \* the 10000 substitutions after which a loop is taken for endless

ASSUME RegexpAssumption == RxLength \in Nat /\ RxOps \in Nat /\ RxLimit \in Nat \ {0}

RxStrings(n) == UNION {[1..k -> {"a", "b"}] : k \in 0..n}
RxPatterns == RxStrings(2) \ {<<>>}
NoString == <<"undef">>

VARIABLE rx
(***************************************************************************)
(* field     the field, a string or NoString                               *)
(* captured  eval_ctx->captured, $0 first                                  *)
(* result    of the last operation: "true", "false", "undef", "throw"      *)
(* ops       operations so far                                             *)
(* last      history: the last operation, [kind, of (what the field or     *)
(*           the literal was), pattern, group, global, text]               *)
(***************************************************************************)
NoOp == [kind |-> "none", of |-> NoString, pattern |-> <<>>, group |-> FALSE, global |-> FALSE,
         text |-> <<>>]
RegexpInit ==
  \E s \in RxStrings(RxLength) \cup {NoString} :
    rx = [field |-> s, captured |-> <<>>, result |-> "undef", ops |-> 0, last |-> NoOp]

(* pcre_exec(): where the pattern is found first, 0 for nowhere.           *)
Places(s, p) == {i \in 1..Len(s) : i + Len(p) - 1 <= Len(s) /\ SubSeq(s, i, i + Len(p) - 1) = p}
Place(s, p) == IF Places(s, p) = {} THEN 0 ELSE CHOOSE i \in Places(s, p) : \A j \in Places(s, p) : i <= j

(* nx_expr_new_regexp(): what is captured.                                 *)
Captures(p, group) == IF group THEN <<p, <<p[Len(p)]>>>> ELSE <<p>>

(* The captured strings of the operation before are dropped at once.       *)
ClearKept(x) == x
ClearCaptured(x) == [x EXCEPT !.captured = <<>>]

(* The operand: the field, a literal, or a captured string - which the     *)
(* operation has just dropped.                                             *)
Subject(x, of, literal) ==
  IF of = "field" THEN x.field
  ELSE IF of = "literal" THEN literal
  ELSE IF x.captured = <<>> THEN NoString ELSE x.captured[Len(x.captured)]

(* _regmatch(), _notregmatch() without a replacement                       *)
RegMatch(of, literal, p, group, negated) ==
  LET x     == ClearCaptured(rx)
      s     == Subject(x, of, literal)
      found == Place(s, p) > 0
  IN  IF s = NoString THEN [x EXCEPT !.result = "undef"]
      ELSE [x EXCEPT !.result = IF found = negated THEN "false" ELSE "true",
                     !.captured = IF found THEN Captures(p, group) ELSE <<>>]

(* _regmatch() with a replacement: the string is looked through from its   *)
(* start again after each substitution (match_global).  One more than the  *)
(* limit is an error, whether or not there is anything left to substitute. *)
ReplacedText(s, p, text) ==
  LET i == Place(s, p) IN SubSeq(s, 1, i - 1) \o text \o SubSeq(s, i + Len(p), Len(s))
SubstPasses(s, p, text, global) ==
  LET r[n \in 0..RxLimit + 1] ==
        IF n = 0 THEN [s |-> s, done |-> FALSE]
        ELSE LET before == r[n - 1]
             IN  IF before.done \/ Place(before.s, p) = 0 THEN [before EXCEPT !.done = TRUE]
                 ELSE [s |-> ReplacedText(before.s, p, text), done |-> ~global]
  IN  r[RxLimit + 1]
SubstOnce(p, text, global, group) ==
  LET x == ClearCaptured(rx)
  IN  IF x.field = NoString THEN [x EXCEPT !.result = "undef"]
      ELSE IF Place(x.field, p) = 0 THEN [x EXCEPT !.result = "false"]
      ELSE [x EXCEPT !.result = "true", !.captured = Captures(p, group), !.field = ReplacedText(@, p, text)]
Substitute(p, text, global, group) ==
  LET x == ClearCaptured(rx)
      r == SubstPasses(x.field, p, text, global)
  IN  IF x.field = NoString THEN [x EXCEPT !.result = "undef"]
      ELSE IF Place(x.field, p) = 0 THEN [x EXCEPT !.result = "false"]
      ELSE [x EXCEPT !.result = IF r.done THEN "true" ELSE "throw",
                     !.captured = Captures(p, group), !.field = r.s]

(* nx_expr_statement_assignment_execute(): $Field = $1.                    *)
AssignCaptured(n) ==
  IF n < Len(rx.captured) THEN [rx EXCEPT !.field = rx.captured[n + 1]]
  ELSE [rx EXCEPT !.field = NoString]

Did(kind, of, p, group, global, text) ==
  [kind |-> kind, of |-> of, pattern |-> p, group |-> group, global |-> global, text |-> text]
Operation(x, last) == rx' = [x EXCEPT !.ops = @ + 1, !.last = last]

(* A list of statements ends at an error.                                  *)
RegexpNext ==
  /\ rx.ops < RxOps /\ rx.result # "throw"
  /\ \/ \E of \in {"field", "literal", "captured"}, literal \in {<<"b">>}, p \in RxPatterns,
          group \in BOOLEAN, negated \in BOOLEAN :
          Operation(RegMatch(of, literal, p, group, negated),
                    Did(IF negated THEN "!~" ELSE "=~", Subject(ClearCaptured(rx), of, literal), p,
                        group, FALSE, <<>>))
     \/ \E p \in RxPatterns, text \in RxStrings(2), global \in BOOLEAN, group \in BOOLEAN :
          Operation(Substitute(p, text, global, group), Did("s", rx.field, p, group, global, text))
     \/ \E n \in 0..1 : Operation(AssignCaptured(n), [rx.last EXCEPT !.kind = "assign"])

RegexpSpec == RegexpInit /\ [][RegexpNext]_rx
-----------------------------------------------------------------------------
(* The values of the variable.                                             *)
RegexpTypeOK ==
  /\ rx.result \in {"true", "false", "undef", "throw"} /\ rx.ops \in 0..RxOps
  /\ Len(rx.captured) <= 2

(* What $0 and $1 hold comes from the last regular expression, whether it  *)
(* was =~, !~ or s///, and from none before it: where it did not match     *)
(* they are undefined.                                                     *)
CapturedIsLast ==
  rx.captured = IF rx.last.of # NoString /\ Place(rx.last.of, rx.last.pattern) > 0
                THEN Captures(rx.last.pattern, rx.last.group) ELSE <<>>

Letters(s) == {s[i] : i \in DOMAIN s}

(* The substitution as it is usually defined, left to right in one pass.   *)
OnePass(s, p, text) ==
  LET o[n \in 0..Len(s)] ==   \* of the last n letters
        LET rest == SubSeq(s, Len(s) - n + 1, Len(s))
        IN  IF n = 0 THEN <<>>
            ELSE IF n >= Len(p) /\ SubSeq(rest, 1, Len(p)) = p THEN text \o o[n - Len(p)]
            ELSE <<rest[1]>> \o o[n - 1]
  IN  o[Len(s)]

(* A global substitution that is no error leaves nothing to substitute,    *)
(* and is the usual one where the replacement cannot become part of a new  *)
(* match (it has no letter of the pattern, and is not empty); one that is  *)
(* not global changes one place.                                           *)
SubstitutesAll ==
  (rx.last.kind = "s" /\ rx.result = "true") =>
    /\ rx.last.global =>
         /\ Places(rx.field, rx.last.pattern) = {}
         /\ rx.last.text # <<>> /\ Letters(rx.last.text) \cap Letters(rx.last.pattern) = {} =>
              rx.field = OnePass(rx.last.of, rx.last.pattern, rx.last.text)
    /\ ~rx.last.global => rx.field = ReplacedText(rx.last.of, rx.last.pattern, rx.last.text)
=============================================================================
