----------------------------- MODULE JsonParser -----------------------------
(***************************************************************************)
(* parse_json (json_parser.cpp) as a machine that reads one token after    *)
(* another: white space is gone, a string or a number is one token, and    *)
(* the tokens of Lexical are those on which a scanner of lexemes fails.    *)
(***************************************************************************)
EXTENDS Integers, FiniteSets, SequencesExt

CONSTANTS
  MaxDepth,   \* kJsonMaximumDepth
  MaxNodes,   \* kJsonMaximumNodes
  Strings,    \* well-formed strings, as values and as keys
  Scalars,    \* numbers, booleans, null
  MaxText     \* bound: tokens of a text, without its end

VARIABLES
  text,    \* the tokens read
  stack,   \* the containers being parsed, innermost last
  phase,   \* what is expected next
  nodes,   \* values begun
  code     \* JsonParseCode once parsing has ended, or "none"

parserVars == <<text, stack, phase, nodes, code>>

End   == "end"   \* no more text
Opens == [t \in {"{", "["} |-> IF t = "{" THEN "}" ELSE "]"]
Marks == {"{", "}", "[", "]", ",", ":", End}

(* What begins as a string and is none, with what parse_raw_string fails. *)
StringFaults ==
  [t \in {"broken string", "long string"} |->
     IF t = "long string" THEN "string_limit" ELSE "invalid_json"]

(* What begins as a number and is none that the protocol carries. *)
NumberFaults ==
  [t \in {"broken number", "fraction", "large number"} |->
     IF t = "broken number" THEN "invalid_json" ELSE "number_range"]

(* The tokens on which a scanner of lexemes fails; a word is no literal. *)
Lexical ==
  [t \in DOMAIN StringFaults \cup DOMAIN NumberFaults \cup {"word"} |->
     IF t \in DOMAIN StringFaults THEN StringFaults[t]
     ELSE IF t \in DOMAIN NumberFaults THEN NumberFaults[t] ELSE "invalid_json"]

Tokens == Marks \cup Strings \cup Scalars \cup DOMAIN Lexical

ASSUME ParserConstants ==
  /\ MaxDepth \in Nat \ {0} /\ MaxNodes \in Nat \ {0} /\ MaxText \in Nat
  /\ Strings \cap Scalars = {} /\ "none" \notin Strings
  /\ (Strings \cup Scalars) \cap (Marks \cup DOMAIN Lexical) = {}

ParserInit ==
  /\ text = << >> /\ stack = << >> /\ phase = "value"
  /\ nodes = 0 /\ code = "none"

-----------------------------------------------------------------------------
Fail(failure) == code' = failure /\ UNCHANGED <<stack, phase, nodes>>

(* Mutant: of two members with one key both are kept. *)
KeepsBoth(frame) == FALSE

(* The duplicate check, made when the value of the member is complete. *)
Duplicates(frame) == frame.key \in ToSet(frame.keys)

(* A value is complete: it becomes a member or an element of the innermost *)
(* of the containers in outer, or is the root.                             *)
Complete(outer, count) ==
  IF outer # << >> /\ Last(outer).kind = "{" /\ Duplicates(Last(outer))
  THEN Fail("duplicate_key")
  ELSE /\ stack' = IF outer = << >> \/ Last(outer).kind = "[" THEN outer
                   ELSE Append(Front(outer),
                          [Last(outer) EXCEPT !.keys = Append(@, Last(outer).key)])
       /\ phase' = "after" /\ nodes' = count
       /\ UNCHANGED code

(* parse_value and parse_dispatch: the limits first, then the token. *)
ValueToken(t) ==
  IF Len(stack) >= MaxDepth THEN Fail("depth_limit")
  ELSE IF nodes >= MaxNodes THEN Fail("node_limit")
  ELSE IF t \in DOMAIN Opens
  THEN /\ stack' = Append(stack, [kind |-> t, keys |-> << >>, key |-> "none"])
       /\ phase' = "first" /\ nodes' = nodes + 1
       /\ UNCHANGED code
  ELSE IF t \in Strings \cup Scalars THEN Complete(stack, nodes + 1)
  ELSE Fail(IF t \in DOMAIN Lexical THEN Lexical[t] ELSE "invalid_json")

(* The key of a member; what does not begin with a quote is no key. *)
KeyToken(t) ==
  IF t \in Strings
  THEN /\ stack' = Append(Front(stack), [Last(stack) EXCEPT !.key = t])
       /\ phase' = "colon"
       /\ UNCHANGED <<nodes, code>>
  ELSE Fail(IF t \in DOMAIN StringFaults THEN StringFaults[t] ELSE "invalid_json")

ItemToken(t) == IF Last(stack).kind = "{" THEN KeyToken(t) ELSE ValueToken(t)

Closes(t) == t = Opens[Last(stack).kind]

Expect(next) == phase' = next /\ UNCHANGED <<stack, nodes, code>>

(* parse_object and parse_array, from the token after the opening one to   *)
(* the closing one, and parse, from the root to the end of the text.       *)
ParseFirst(t) ==
  phase = "first" /\ IF Closes(t) THEN Complete(Front(stack), nodes) ELSE ItemToken(t)
ParseItem(t) == phase = "item" /\ ItemToken(t)
ParseColon(t) ==
  phase = "colon" /\ IF t = ":" THEN Expect("value") ELSE Fail("invalid_json")
ParseValue(t) == phase = "value" /\ ValueToken(t)
ParseAfter(t) ==
  /\ phase = "after" /\ stack # << >>
  /\ IF t = "," THEN Expect("item")
     ELSE IF Closes(t) THEN Complete(Front(stack), nodes)
     ELSE Fail("invalid_json")
ParseEnd(t) ==
  /\ phase = "after" /\ stack = << >>
  /\ Fail(IF t = End THEN "ok" ELSE "trailing_content")

ParserNext ==
  \E t \in Tokens :
    /\ code = "none"
    /\ Len(text) < MaxText \/ t = End
    /\ text' = Append(text, t)
    /\ \/ ParseValue(t) \/ ParseFirst(t) \/ ParseItem(t) \/ ParseColon(t)
       \/ ParseAfter(t) \/ ParseEnd(t)

-----------------------------------------------------------------------------
ParserTypeOK ==
  /\ text \in Seq(Tokens) /\ Len(text) <= MaxText + 1
  /\ \A i \in DOMAIN stack : stack[i].kind \in {"{", "["}
  /\ Len(stack) <= MaxDepth /\ nodes \in 0 .. MaxNodes
  /\ phase \in {"value", "first", "item", "colon", "after"}

(* The grammar, by length: values, comma lists of values, and comma lists  *)
(* of members with their keys.                                             *)
Member(k, v) == [keys |-> {k}, text |-> <<k, ":">> \o v]
Listed(v, rest) == {v \o <<",">> \o x : x \in rest}
Joined(a, rest) ==
  {[keys |-> a.keys \cup b.keys, text |-> a.text \o <<",">> \o b.text] :
     b \in {m \in rest : a.keys \cap m.keys = {}}}

Phrases(shorter, n) ==
  LET values ==
        (IF n = 1 THEN {<<s>> : s \in Strings \cup Scalars} ELSE {})
        \cup (IF n < 2 THEN {} ELSE
                {<<"[">> \o x \o <<"]">> : x \in shorter[n - 2].lists}
                \cup {<<"{">> \o m.text \o <<"}">> : m \in shorter[n - 2].members})
      longer == UNION {UNION {Listed(v, shorter[n - 1 - k].lists) :
                                v \in shorter[k].values} : k \in 1 .. n - 2}
      single == IF n < 3 THEN {} ELSE
                UNION {{Member(k, v) : v \in shorter[n - 2].values} : k \in Strings}
      joined == UNION {UNION {Joined(a, shorter[n - 1 - k].members) :
                                a \in shorter[k].singles} : k \in 3 .. n - 2}
  IN  [values |-> values, singles |-> single,
       lists |-> IF n = 0 THEN {<< >>} ELSE values \cup longer,
       members |-> IF n = 0 THEN {[keys |-> {}, text |-> << >>]}
                   ELSE single \cup joined]

Grammar[n \in 0 .. MaxText] == Phrases(Grammar, n)

(* A value inside MaxDepth containers, or one more than MaxNodes, is one   *)
(* too many; a string before a colon is a key.                             *)
Begins(t, i) ==
  t[i] \in DOMAIN Opens \cup Strings \cup Scalars /\ t[i + 1] # ":"
Around(t, i) ==
  Cardinality({j \in 1 .. i - 1 : t[j] \in {"{", "["}})
    - Cardinality({j \in 1 .. i - 1 : t[j] \in {"}", "]"}})
WithinLimits(t) ==
  LET begun == {i \in 1 .. Len(t) - 1 : Begins(t, i)}
  IN  Cardinality(begun) <= MaxNodes /\ \A i \in begun : Around(t, i) < MaxDepth

Documents ==
  {d \in {Append(v, End) : v \in UNION {Grammar[n].values : n \in 1 .. MaxText}} :
     WithinLimits(d)}
Beginnings == UNION {{SubSeq(d, 1, k) : k \in 1 .. Len(d)} : d \in Documents}

(* Of all texts the parser accepts only those of the grammar, with unique  *)
(* keys and within the limits of depth and nodes, and whatever it refuses  *)
(* is the beginning of no such text (json_parser.hpp, strict and bounded). *)
ParserIsExact ==
  /\ code = "ok" => text \in Documents
  /\ code \notin {"none", "ok"} => text \notin Beginnings
=============================================================================
