------------------------------ MODULE WhenGuard ------------------------------
(***************************************************************************)
(* The guard expressions of task steps: the recursive-descent parser that  *)
(* evaluates while it parses, against the grammar its header gives.  The   *)
(* machine types one token after the other; every prefix is evaluated.     *)
(*                                                                         *)
(* A value keeps its printed form: equality in the code compares what      *)
(* Sprintf makes of the operands, so true equals 'true'.                   *)
(***************************************************************************)
EXTENDS Integers, Sequences

CONSTANTS WhenTokens, \* the tokens an expression is made of
          MaxTokens   \* bound on the length of an expression

ASSUME WhenAssumption == MaxTokens \in Nat

VARIABLE whenToks     \* the tokens typed so far

-----------------------------------------------------------------------------
(* Tokens.  "a" is a string literal, "fact" an identifier whose fact is    *)
(* "a", "nofact" one that no fact has, "file" a file.exists predicate.     *)

FactTable == [x \in {"fact"} |-> "a"]

Operands == {"a", "one", "true", "false", "fact", "nofact", "file"}

Bool(b) == [t |-> "bool", v |-> IF b THEN "true" ELSE "false"]
Str(s)  == [t |-> "str", v |-> s]

parseFilePredicateFrom == Bool(TRUE)

OperandValue(tok) ==
  CASE tok = "a" -> Str("a")
    [] tok = "one" -> [t |-> "num", v |-> "1"]
    [] tok \in {"true", "false"} -> Bool(tok = "true")
    [] tok = "file" -> parseFilePredicateFrom
    [] tok \in DOMAIN FactTable -> Str(FactTable[tok])

\* The truth of a value inside and, or and !.
asBool(x) == x.v \in {"true", "1"} \/ x = Str("yes")

equals(x, y) == x.v = y.v

compare(op, x, y) == Bool(IF op = "==" THEN equals(x, y) ELSE ~equals(x, y))

-----------------------------------------------------------------------------
(* The parser: a result is a value and the next position, or an error that *)
(* more tokens may mend ("eof"), or not ("bad", "unknown").                *)

Ok(val, pos) == [val |-> val, pos |-> pos, err |-> "none"]
Fail(why) == [val |-> Bool(FALSE), pos |-> 0, err |-> why]

Peek(s, p) == IF p <= Len(s) THEN s[p] ELSE "end"

parseOperand(s, p) ==
  LET tok == Peek(s, p) IN
  CASE tok = "end" -> Fail("eof")
    [] tok = "nofact" -> Fail("unknown")
    [] tok \in Operands \ {"nofact"} -> Ok(OperandValue(tok), p + 1)
    [] OTHER -> Fail("bad")

\* The items of a list literal, the bracket behind it included.
RECURSIVE ParseList(_, _, _, _)
ParseList(s, p, left, hit) ==
  IF Peek(s, p) = "]" THEN Ok(Bool(hit), p + 1)
  ELSE LET item == parseOperand(s, p) IN
       IF item.err # "none" THEN item
       ELSE LET found == hit \/ equals(left, item.val) IN
            CASE Peek(s, item.pos) = "," -> ParseList(s, item.pos + 1, left, found)
              [] Peek(s, item.pos) = "]" -> Ok(Bool(found), item.pos + 1)
              [] Peek(s, item.pos) = "end" -> Fail("eof")
              [] OTHER -> Fail("bad")

parseComparison(s, p) ==
  LET left == parseOperand(s, p) IN
  IF left.err # "none" THEN left
  ELSE CASE Peek(s, left.pos) \in {"==", "!="} ->
              LET right == parseOperand(s, left.pos + 1) IN
              IF right.err # "none" THEN right
              ELSE Ok(compare(Peek(s, left.pos), left.val, right.val), right.pos)
         [] Peek(s, left.pos) = "in" ->
              IF Peek(s, left.pos + 1) = "[" THEN ParseList(s, left.pos + 2, left.val, FALSE)
              ELSE Fail(IF Peek(s, left.pos + 1) = "end" THEN "eof" ELSE "bad")
         [] OTHER -> left

(* Where an operand is missing at the very end, the code answers false and *)
(* no error.                                                               *)
RECURSIVE parseOr(_, _), parseUnary(_, _), AndRest(_, _), OrRest(_, _)

parseUnary(s, p) ==
  CASE Peek(s, p) = "end" -> Ok(Bool(FALSE), p)
    [] Peek(s, p) = "!" ->
         LET x == parseUnary(s, p + 1) IN
         IF x.err # "none" THEN x ELSE Ok(Bool(~asBool(x.val)), x.pos)
    [] Peek(s, p) = "(" ->
         LET x == parseOr(s, p + 1) IN
         IF x.err # "none" THEN x
         ELSE CASE Peek(s, x.pos) = ")" -> Ok(x.val, x.pos + 1)
                [] Peek(s, x.pos) = "end" -> Fail("eof")
                [] OTHER -> Fail("bad")
    [] OTHER -> parseComparison(s, p)

AndRest(s, left) ==
  IF left.err # "none" \/ Peek(s, left.pos) # "and" THEN left
  ELSE LET right == parseUnary(s, left.pos + 1) IN
       IF right.err # "none" THEN right
       ELSE AndRest(s, Ok(Bool(asBool(left.val) /\ asBool(right.val)), right.pos))

parseAnd(s, p) == AndRest(s, parseUnary(s, p))

\* Bug: or binds as tightly as and.
OrRestFlat(s, left) ==
  IF left.err # "none" \/ Peek(s, left.pos) # "or" THEN left
  ELSE LET right == parseUnary(s, left.pos + 1) IN
       IF right.err # "none" THEN right
       ELSE OrRest(s, AndRest(s, Ok(Bool(asBool(left.val) \/ asBool(right.val)), right.pos)))

OrRest(s, left) ==
  IF left.err # "none" \/ Peek(s, left.pos) # "or" THEN left
  ELSE LET right == parseAnd(s, left.pos + 1) IN
       IF right.err # "none" THEN right
       ELSE OrRest(s, Ok(Bool(asBool(left.val) \/ asBool(right.val)), right.pos))

parseOr(s, p) == OrRest(s, parseAnd(s, p))

\* The answer for a step: "true", "false" or "error".
WhenEval(s) ==
  IF s = <<>> THEN "true"
  ELSE LET x == parseOr(s, 1) IN
       IF x.err # "none" \/ x.pos # Len(s) + 1 \/ x.val.t # "bool" THEN "error" ELSE x.val.v

-----------------------------------------------------------------------------
(* Typing: an expression that no continuation can mend is left alone. *)

Mendable(s) ==
  LET x == parseOr(s, 1) IN
  x.err \in {"eof", "unknown"} \/ (x.err = "none" /\ x.pos = Len(s) + 1)

WhenInit == whenToks = <<>>

WhenNext ==
  /\ Len(whenToks) < MaxTokens /\ (whenToks = <<>> \/ Mendable(whenToks))
  /\ \E tok \in WhenTokens : whenToks' = Append(whenToks, tok)

WhenSpec == WhenInit /\ [][WhenNext]_whenToks

-----------------------------------------------------------------------------
(* The reference: the values the grammar gives to a sequence of tokens, by *)
(* splitting it at its operators instead of reading it from the left.      *)

Part(s, i, j) == SubSeq(s, i, j)

KnownOperand(s) == Len(s) = 1 /\ s[1] \in Operands \ {"nofact"}

\* The items of a list: operands at the odd places, commas at the even ones.
ListOf(s) ==
  /\ \A i \in 1..Len(s) : IF i % 2 = 1 THEN KnownOperand(<<s[i]>>) ELSE s[i] = ","

RECURSIVE GrammarOr(_), GrammarAnd(_), GrammarUnary(_)

GrammarComparison(s) ==
  IF Len(s) = 3 /\ KnownOperand(Part(s, 1, 1)) /\ KnownOperand(Part(s, 3, 3))
                /\ s[2] \in {"==", "!="}
  THEN { (OperandValue(s[1]).v = OperandValue(s[3]).v) <=> (s[2] = "==") }
  ELSE IF Len(s) >= 4 /\ KnownOperand(Part(s, 1, 1)) /\ s[2] = "in" /\ s[3] = "["
                      /\ s[Len(s)] = "]" /\ ListOf(Part(s, 4, Len(s) - 1))
  THEN { \E i \in 4..(Len(s) - 1) :
           s[i] # "," /\ OperandValue(s[i]).v = OperandValue(s[1]).v }
  ELSE IF s \in {<<"true">>, <<"false">>, <<"file">>} THEN { s # <<"false">> }
  ELSE {}

GrammarUnary(s) ==
  IF s = <<>> THEN {}
  ELSE (IF s[1] = "!" THEN { ~b : b \in GrammarUnary(Tail(s)) } ELSE {})
       \cup (IF Len(s) > 2 /\ s[1] = "(" /\ s[Len(s)] = ")"
             THEN GrammarOr(Part(s, 2, Len(s) - 1)) ELSE {})
       \cup GrammarComparison(s)

GrammarAnd(s) ==
  GrammarUnary(s) \cup
  UNION { { l /\ r : l \in GrammarAnd(Part(s, 1, i - 1)), r \in GrammarUnary(Part(s, i + 1, Len(s))) }
          : i \in { k \in 1..Len(s) : s[k] = "and" } }

GrammarOr(s) ==
  GrammarAnd(s) \cup
  UNION { { l \/ r : l \in GrammarOr(Part(s, 1, i - 1)), r \in GrammarAnd(Part(s, i + 1, Len(s))) }
          : i \in { k \in 1..Len(s) : s[k] = "or" } }

-----------------------------------------------------------------------------
(* An expression of the grammar has one meaning, and the parser computes   *)
(* it: precedence of and over or, negation, parentheses, list membership.  *)
EvalFollowsGrammar ==
  \A b \in GrammarOr(whenToks) : WhenEval(whenToks) = IF b THEN "true" ELSE "false"

(* A guard that names a fact the host does not have is an error wherever   *)
(* the name stands: no short circuit skips it, so the step does not run.   *)
UnknownFactIsError ==
  (\E i \in 1..Len(whenToks) : whenToks[i] = "nofact") => WhenEval(whenToks) = "error"

(* A when guard means what its grammar says and fails closed on a fact the *)
(* host lacks (when.go, Eval).                                             *)
WhenInv == EvalFollowsGrammar /\ UnknownFactIsError

(* What the header says of everything outside the grammar: "Anything else  *)
(* is a parse/eval error ... (fail-closed for guards)".  A guard that      *)
(* breaks off behind an operator does not pass.                            *)
IncompleteFailsClosed ==
  (whenToks # <<>> /\ whenToks[Len(whenToks)] \in {"!", "and", "or", "==", "!=", "in", "("})
    => WhenEval(whenToks) # "true"
=============================================================================
