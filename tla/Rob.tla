-------------------------------- MODULE Rob --------------------------------
(***************************************************************************)
(* The command line rob (src/bin/rob.rs): parse_signature, which turns a   *)
(* signature and the words after it into a JSON value, and main, which     *)
(* calls, publishes or listens with it.  A signature is a sequence of      *)
(* characters.  JSON values are tagged tuples; an object is a function     *)
(* from keys to values.                                                    *)
(***************************************************************************)
EXTENDS Naturals, Sequences, SequencesExt

CONSTANTS
  Char,    \* characters of a signature
  Arg,     \* the words after the signature
  Flag,    \* words that are --help, -h, --version or -v
  Number,  \* the words that parse::<i64> accepts, with their value
  MaxSig,  \* bound: length of a signature
  MaxArgs  \* bound: number of words after it

ASSUME RobAssumption ==
  /\ {"s", "i", "n", "(", ")", "{", "}"} \subseteq Char
  /\ Flag \subseteq Arg /\ DOMAIN Number \subseteq Arg
  /\ MaxSig \in Nat /\ MaxArgs \in Nat

VARIABLES
  words,  \* command, object and method: too "few" words, a "flag" among them, or
          \* "enough" (the signature counts as one of them where it is a flag)
  sig,    \* the signature, empty if there is none
  args,   \* the words after it
  pc,     \* where main is
  value,  \* parsed_args
  sent,   \* what the broker was sent
  exit    \* what main returned

vars == <<words, sig, args, pc, value, sent, exit>>
input == <<words, sig, args>>

Null == <<"null">>
Nothing == <<"nothing">>

-----------------------------------------------------------------------------
(* parse_signature.  Each operator returns what it read and what is left   *)
(* of the signature and of the arguments.                                  *)

Ok(v, s, a) == [ok |-> TRUE, value |-> v, sig |-> s, args |-> a]
Err == [ok |-> FALSE, value |-> Nothing, sig |-> <<>>, args |-> <<>>]

\* map.insert.  Mutated first: a key that is there keeps its value.
InsertFirst(m, k, v) == [x \in DOMAIN m \cup {k} |-> IF x \in DOMAIN m THEN m[x] ELSE v]

Insert(m, k, v) == [x \in DOMAIN m \cup {k} |-> IF x = k THEN v ELSE m[x]]

RECURSIVE Parse(_, _), ParseMap(_, _, _), ParseList(_, _, _)

\* The function parse: one match on the next character.
Parse(s, a) ==
  IF s = <<>> THEN Err
  ELSE CASE Head(s) = "s" -> IF a = <<>> THEN Err ELSE Ok(<<"string", Head(a)>>, Tail(s), Tail(a))
         [] Head(s) = "i" -> IF a = <<>> \/ Head(a) \notin DOMAIN Number THEN Err
                             ELSE Ok(<<"number", Number[Head(a)]>>, Tail(s), Tail(a))
         [] Head(s) = "{" -> ParseMap(Tail(s), a, <<>>)
         [] Head(s) = "(" -> ParseList(Tail(s), a, <<>>)
         [] Head(s) = "n" -> Ok(Null, Tail(s), a)
         [] OTHER -> Err

\* Its two loops: each ends at the closing bracket or the end of the signature.
ParseMap(s, a, map) ==
  IF s = <<>> THEN Ok(<<"object", map>>, s, a)
  ELSE IF Head(s) = "}" THEN Ok(<<"object", map>>, Tail(s), a)
  ELSE IF a = <<>> THEN Err
  ELSE LET r == Parse(s, Tail(a)) IN
       IF r.ok THEN ParseMap(r.sig, r.args, Insert(map, Head(a), r.value)) ELSE Err

ParseList(s, a, list) ==
  IF s = <<>> THEN Ok(<<"array", list>>, s, a)
  ELSE IF Head(s) = ")" THEN Ok(<<"array", list>>, Tail(s), a)
  ELSE LET r == Parse(s, a) IN
       IF r.ok THEN ParseList(r.sig, r.args, Append(list, r.value)) ELSE Err

-----------------------------------------------------------------------------
(* main.                                                                   *)

Init ==
  /\ words \in {"few", "flag", "enough"}
  /\ sig \in IF words = "enough" THEN BoundedSeq(Char, MaxSig) ELSE {<<>>}
  /\ args \in IF words = "enough" THEN BoundedSeq(Arg, MaxArgs) ELSE {<<>>}
  /\ pc = "start" /\ value = Nothing /\ sent = Nothing /\ exit = "none"

Return(status) == pc' = "end" /\ exit' = status

\* --version or --help anywhere, or too few words.
Usage ==
  /\ pc = "start" /\ (words # "enough" \/ \E i \in DOMAIN args : args[i] \in Flag)
  /\ Return("ok")
  /\ UNCHANGED <<input, value, sent>>

\* The signature is parsed, and an error returned, whatever the command is.
ParseArgs ==
  /\ pc = "start" /\ words = "enough" /\ \A i \in DOMAIN args : args[i] \notin Flag
  /\ IF sig = <<>> THEN value' = Null /\ pc' = "parsed" /\ UNCHANGED exit
     ELSE IF Parse(sig, args).ok
     THEN value' = Parse(sig, args).value /\ pc' = "parsed" /\ UNCHANGED exit
     ELSE Return("InvalidInput") /\ UNCHANGED value
  /\ UNCHANGED <<input, sent>>

\* connect, which may fail, and a request; the response or the error is printed.
Request(kind) ==
  /\ pc = "parsed"
  /\ sent' \in {Nothing, <<kind, value>>}
  /\ Return("ok")
  /\ UNCHANGED <<input, value>>

Call == Request("Call")

Send == Request("Publish")

\* connect and subscribe_async, until Ctrl-C.
Listen ==
  /\ pc = "parsed"
  /\ \/ sent' = <<"subscribe">> /\ pc' = "listening" /\ UNCHANGED exit
     \/ Return("error") /\ UNCHANGED sent
  /\ UNCHANGED <<input, value>>

CtrlC ==
  /\ pc = "listening"
  /\ Return("ok")
  /\ UNCHANGED <<input, value, sent>>

UnknownCommand ==
  /\ pc = "parsed"
  /\ Return("ok")
  /\ UNCHANGED <<input, value, sent>>

Next ==
  \/ Usage \/ ParseArgs
  \/ Call \/ Send
  \/ Listen \/ CtrlC \/ UnknownCommand

Spec == Init /\ [][Next]_vars

-----------------------------------------------------------------------------
(* The reference: a signature is the text of a shape, a tree whose leaves  *)
(* are s, i and n, and the shape alone says which argument goes where.     *)

Leaf == {[tag |-> c, kids |-> <<>>, text |-> <<c>>, width |-> IF c = "n" THEN 0 ELSE 1] :
         c \in {"s", "i", "n"}}

\* A list or a map of the shapes in f; a map takes a key for each of them.
Bracket(f) ==
  {[tag |-> "list", kids |-> f.kids, text |-> <<"(">> \o f.text \o <<")">>, width |-> f.width],
   [tag |-> "map", kids |-> f.kids, text |-> <<"{">> \o f.text \o <<"}">>,
    width |-> f.width + Len(f.kids)]}

\* Sequences of shapes, of n nodes in all: a shape of k nodes and the others.
Forest[n \in 0..MaxSig] ==
  IF n = 0 THEN {[kids |-> <<>>, text |-> <<>>, width |-> 0]}
  ELSE UNION {{[kids |-> <<t>> \o f.kids, text |-> t.text \o f.text, width |-> t.width + f.width] :
               t \in (IF k = 1 THEN Leaf ELSE {}) \cup UNION {Bracket(g) : g \in Forest[k - 1]},
               f \in Forest[n - k]} : k \in 1..n}

Shape == {f.kids[1] : f \in {g \in UNION {Forest[n] : n \in 1..MaxSig} : Len(g.kids) = 1}}

Meaning == [s \in BoundedSeq(Char, MaxSig) |-> {t \in Shape : t.text = s}]

\* Where the arguments of the ith element of a list or map begin, its key first.
Key(t) == IF t.tag = "map" THEN 1 ELSE 0

Start(t, i) ==
  FoldFunctionOnSet(+, 1, [j \in DOMAIN t.kids |-> t.kids[j].width + Key(t)], 1..(i - 1))

ArgsOf(t, a, i) == SubSeq(a, Start(t, i) + Key(t), Start(t, i) + Key(t) + t.kids[i].width - 1)

RECURSIVE Numeric(_, _), ValueOf(_, _)

\* Every i of the shape gets a number.
Numeric(t, a) ==
  /\ t.tag = "i" => a[1] \in DOMAIN Number
  /\ \A i \in DOMAIN t.kids : Numeric(t.kids[i], ArgsOf(t, a, i))

\* The value of a shape with the arguments a; of equal keys the last counts.
ValueOf(t, a) ==
  LET element(i) == ValueOf(t.kids[i], ArgsOf(t, a, i))
      key(i) == a[Start(t, i)]
      last(k) == CHOOSE i \in DOMAIN t.kids :
                   key(i) = k /\ \A j \in DOMAIN t.kids : key(j) = k => j <= i
  IN CASE t.tag = "s" -> <<"string", a[1]>>
       [] t.tag = "i" -> <<"number", Number[a[1]]>>
       [] t.tag = "n" -> Null
       [] t.tag = "list" -> <<"array", [i \in DOMAIN t.kids |-> element(i)]>>
       [] t.tag = "map" -> <<"object", [k \in {key(i) : i \in DOMAIN t.kids} |-> element(last(k))]>>

-----------------------------------------------------------------------------
\* parse_signature gives every argument its place: where the signature is the text
\* of a shape, the words that fit the shape are accepted, and what the one pass
\* over both builds is what the shape says, nesting, key positions and repeated
\* keys included; words that are too few, or no integer where one is wanted, are
\* never accepted.
ParsesReference ==
  \A t \in Meaning[sig] :
    LET fits == Len(args) = t.width /\ Numeric(t, args) IN
    /\ exit = "InvalidInput" => ~fits
    /\ pc = "parsed" /\ Len(args) <= t.width => fits /\ value = ValueOf(t, args)
=============================================================================
