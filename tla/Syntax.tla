-------------------------------- MODULE Syntax --------------------------------
(***************************************************************************)
(* The parser (syntax.zig).  A source is a sequence of tokens: a token is  *)
(* the tuple of its kind and its text, <<"invalid">> what the lexer        *)
(* refuses.  A syntax node is the tuple of its kind and its parts, and the *)
(* node of a literal is its value.  A name is the sequence of the names    *)
(* that dots join, and begins with "." when it is absolute.                *)
(*                                                                         *)
(* Parser state p: each operator below consumes tokens of p, leaves what   *)
(* it has parsed in p.node, and passes p on when it has failed.            *)
(***************************************************************************)
EXTENDS Integers, Sequences

CONSTANTS
  LargestInt,    \* the largest int64
  Undecodable    \* texts of string literals with an escape that decode refuses

Bool(b) == <<"bool", b>>
Integer(n) == <<"int", n>>
Text(t) == <<"string", t>>

LiteralKinds == {"null", "bool", "int", "uint", "double", "string", "bytes"}

\* The absent target of a global call, or part of a comprehension.
NoNode == <<"none">>

\* error.InvalidSyntax of a macro.
Invalid == <<"invalid">>

Keywords == [true |-> Bool(TRUE), false |-> Bool(FALSE), null |-> <<"null">>]

Reserved ==
  DOMAIN Keywords \cup
  {"as", "break", "const", "continue", "else", "for", "function", "if", "import", "let",
   "loop", "package", "namespace", "return", "var", "void", "while"}

-----------------------------------------------------------------------------
(* The state of a parser *)

Parser(source) ==
  [tokens |-> source.tokens, limits |-> source.limits, pos |-> 0, depth |-> 0, nodes |-> 0,
   patterns |-> <<>>, node |-> NoNode, error |-> "none"]

Failed(p) == p.error # "none"

Fail(error, p) == IF Failed(p) THEN p ELSE [p EXCEPT !.error = error]

Result(item, p) == [p EXCEPT !.node = item]

\* The token after the one at position i.
Following(p, i) == IF i < Len(p.tokens) THEN p.tokens[i + 1] ELSE <<"eof">>

Token(p) == Following(p, p.pos - 1)

Is(kind, p) == Token(p)[1] = kind

Advance(p) ==
  IF Following(p, p.pos) = Invalid THEN Fail("InvalidSyntax", p)
  ELSE IF Failed(p) THEN p ELSE [p EXCEPT !.pos = @ + 1]

Consume(kind, p) == IF Is(kind, p) THEN Advance(p) ELSE Fail("InvalidSyntax", p)

\* Skip a token that may be there.
Skip(kind, p) == IF Is(kind, p) THEN Advance(p) ELSE p

Node(item, p) ==
  IF p.nodes >= p.limits.max_nodes THEN Fail("NodeLimitExceeded", p)
  ELSE IF Failed(p) THEN p ELSE Result(item, [p EXCEPT !.nodes = @ + 1])

-----------------------------------------------------------------------------
(* Names and literals *)

\* The names a chain of selections joins, or none: a qualified chain has no
\* quoted field.
RECURSIVE NamesOf(_, _)
NamesOf(node, qualified) ==
  CASE node[1] = "ident" -> node[2]
    [] node[1] = "select" /\ ~node[5] /\ (qualified => node[4]) ->
         IF NamesOf(node[2], qualified) = <<>> THEN <<>> ELSE NamesOf(node[2], qualified) \o node[3]
    [] OTHER -> <<>>

QualifiedName(node) == NamesOf(node, TRUE)

\* number accepts the literal.
Representable(literal) ==
  CASE literal[1] = "int" -> literal[2] <= LargestInt
    [] literal[1] = "uint" -> literal[2] <= 2 * LargestInt + 1
    [] literal[1] = "double" -> literal[2] # "inf"

\* The digits that only a minus sign makes an int.
LeastMagnitude == <<"number", Integer(LargestInt + 1)>>

Least == Integer(-(LargestInt + 1))

BindingName(node) == IF node[1] \in {"ident", "local_ident"} THEN node[2] ELSE <<>>

\* A variable of a macro: bindings of cel.bind may even be absolute.
IsVariable(name) == name # <<>> /\ name[1] # "."

IsIndex(node) == node[1] = "int" /\ node[2] >= 0

-----------------------------------------------------------------------------
(* Macros *)

ComprehensionKinds ==
  [all |-> "all", exists |-> "exists", exists_one |-> "exists_one", existsOne |-> "exists_one",
   map |-> "list", filter |-> "list", transformList |-> "list", transformMap |-> "map",
   transformMapEntry |-> "map_entries"]

IsQuantifier(macro) == ComprehensionKinds[macro] \in {"all", "exists", "exists_one"}

VariablesOf(macro, n) ==
  IF macro \in {"transformList", "transformMap", "transformMapEntry"} \/ (IsQuantifier(macro) /\ n = 3)
  THEN 2 ELSE 1

IsComprehension(macro, n) ==
  /\ macro \in DOMAIN ComprehensionKinds
  /\ n >= VariablesOf(macro, n) + 1
  /\ n <= VariablesOf(macro, n) + IF IsQuantifier(macro) \/ macro = "filter" THEN 1 ELSE 2
  /\ macro = "existsOne" => VariablesOf(macro, n) = 2

Comprehension(target, macro, variables, args) ==
  IF \E i \in DOMAIN variables :
       ~IsVariable(variables[i]) \/ \E j \in DOMAIN variables \ {i} : variables[j] = variables[i]
  THEN Invalid
  ELSE <<"comprehension", ComprehensionKinds[macro], target, variables,
         IF IsQuantifier(macro) \/ macro = "filter" \/ Len(args) = Len(variables) + 2
         THEN args[Len(variables) + 1] ELSE NoNode,
         IF IsQuantifier(macro) \/ macro = "filter" THEN NoNode ELSE args[Len(args)]>>

Presence(select) == IF select[1] = "select" THEN <<"presence", select[2], select[3]>> ELSE Invalid

Extension(macro, message, names) ==
  CASE names = <<>> -> Invalid
    [] macro = "hasExt" -> <<"presence", message, names>>
    [] macro = "getExt" -> <<"select", message, names, FALSE, FALSE>>

\* cel.block, cel.index, cel.iterVar and cel.accuVar
OfBlock(macro, args) ==
  CASE macro = "block" /\ Len(args) = 2 /\ args[1][1] = "list" ->
         <<"block", [i \in DOMAIN args[1][2] |-> args[1][2][i][1]], args[2]>>
    [] macro = "index" /\ Len(args) = 1 /\ IsIndex(args[1]) -> <<"block_index", args[1][2]>>
    [] macro \in {"iterVar", "accuVar"} /\ Len(args) = 2 /\ \A i \in DOMAIN args : IsIndex(args[i]) ->
         <<"local_ident", <<IF macro = "iterVar" THEN "@it" ELSE "@ac", args[1][2], args[2][2]>>>>
    [] OTHER -> Invalid

Bind(variable, initializer, body) ==
  IF variable = <<>> THEN Invalid ELSE <<"local_bind", variable, initializer, body>>

OptionalMap(target, macro, args) ==
  IF Len(args) # 2 \/ ~IsVariable(BindingName(args[1])) THEN Invalid
  ELSE <<"optional_map", target, BindingName(args[1]), args[2], macro = "optFlatMap">>

SortBy(target, variable, body) ==
  IF target[1] \in LiteralKinds \cup {"map", "message"} \/ ~IsVariable(variable) THEN Invalid
  ELSE <<"sort_by", target, variable, body>>

\* An argument of math.greatest or math.least that may be a number.
MayBeNumber(arg) == arg[1] \notin {"list", "map", "message", "null", "bool", "string", "bytes"}

Extrema(name, args) ==
  IF \/ args = <<>>
     \/ Len(args) = 1 /\ args[1][1] = "list"
          /\ (args[1][2] = <<>> \/ \E i \in DOMAIN args[1][2] : ~MayBeNumber(args[1][2][i][1]))
     \/ Len(args) = 1 /\ args[1][1] # "list" /\ ~MayBeNumber(args[1])
     \/ Len(args) > 1 /\ \E i \in DOMAIN args : ~MayBeNumber(args[i])
  THEN Invalid ELSE <<"call", NoNode, <<"math", name>>, args>>

IsIdent(node, name) == node = <<"ident", <<name>>>>

\* The node that a call of name with these arguments becomes.
Lowered(target, name, args) ==
  LET macro == IF target = NoNode THEN "none" ELSE name[1]
  IN  CASE target = NoNode /\ name = <<"has">> /\ Len(args) = 1 -> Presence(args[1])
        [] IsIdent(target, "proto") /\ macro \in {"hasExt", "getExt"} /\ Len(args) = 2 ->
             IF args[2][1] # "select" THEN Invalid
             ELSE Extension(macro, args[1], NamesOf(args[2], FALSE))
        [] IsIdent(target, "cel") /\ macro \in {"block", "index", "iterVar", "accuVar"} ->
             OfBlock(macro, args)
        [] IsIdent(target, "cel") /\ macro = "bind" /\ Len(args) = 3 ->
             Bind(BindingName(args[1]), args[2], args[3])
        [] macro \in {"optMap", "optFlatMap"} -> OptionalMap(target, macro, args)
        [] macro = "sortBy" /\ Len(args) = 2 -> SortBy(target, BindingName(args[1]), args[2])
        [] IsComprehension(macro, Len(args)) ->
             Comprehension(target, macro,
                           [i \in 1..VariablesOf(macro, Len(args)) |-> BindingName(args[i])], args)
        [] target \in {<<"ident", <<"math">>>>, <<"ident", <<".", "math">>>>}
             /\ macro \in {"greatest", "least"} -> Extrema(macro, args)
        [] OTHER -> <<"call", target, name, args>>

\* The literal pattern of a call of matches, which the program compiles.
PatternOf(node) ==
  IF /\ node[1] = "call"
     /\ node[3] \in {<<"matches">>} \cup IF node[2] = NoNode THEN {<<".", "matches">>} ELSE {}
     /\ Len(node[4]) = IF node[2] = NoNode THEN 2 ELSE 1
     /\ node[4][Len(node[4])][1] = "string"
  THEN <<node[4][Len(node[4])][2]>> ELSE <<>>

-----------------------------------------------------------------------------
(* Expressions *)

RECURSIVE Expression(_, _), Operators(_, _), Items(_, _, _, _), Arguments(_, _)

\* An element of a list, an entry of a map or a field of a message.
Item(kind, optional, p) ==
  CASE kind = "list" -> LET value == Expression(0, p) IN Result(<<value.node, optional>>, value)
    [] kind = "map" ->
         LET key == Expression(0, p)
             value == Expression(0, Consume(":", key))
         IN  Result(<<key.node, value.node, optional>>, value)
    [] kind = "message" /\ (Is("identifier", p) \/ Is("quoted_identifier", p)) ->
         LET value == Expression(0, Consume(":", Advance(p)))
         IN  Result(<<Token(p)[2], value.node, optional>>, value)
    [] OTHER -> Fail("InvalidSyntax", p)

\* Items up to the bracket that closes them, which a comma may precede.
Items(kind, close, items, p) ==
  IF Failed(p) \/ Is(close, p) THEN Consume(close, Result(items, p))
  ELSE LET item == Item(kind, Is("?", p), Skip("?", p))
           all == Append(items, item.node)
       IN  IF Is(",", item) THEN Items(kind, close, all, Advance(item))
           ELSE Consume(close, Result(all, item))

\* At least one argument.
Arguments(args, p) ==
  LET arg == Expression(0, p)
      all == Append(args, arg.node)
  IN  IF Failed(arg) THEN arg
      ELSE IF Is(",", arg) THEN Arguments(all, Advance(arg))
      ELSE Consume(")", Result(all, arg))

\* The macro or call, and its pattern.
Lower(target, name, p) ==
  LET node == IF Failed(p) THEN NoNode ELSE Lowered(target, name, p.node)
  IN  IF node = Invalid THEN Fail("InvalidSyntax", p)
      ELSE Node(node, [p EXCEPT !.patterns = @ \o PatternOf(node)])

\* call: at the opening parenthesis.
Call(target, name, p) ==
  Lower(target, name,
        LET opened == Consume("(", p)
        IN  IF Is(")", opened) THEN Advance(Result(<<>>, opened)) ELSE Arguments(<<>>, opened))

\* A name, or a call of it.
Named(name, p) == IF Is("(", p) THEN Call(NoNode, name, p) ELSE Node(<<"ident", name>>, p)

Wrap(op, p) == Node(<<"unary", op, p.node>>, p)

\* The token that prefix has consumed, and the state after it.
Primary(token, p) ==
  CASE token[1] = "number" ->
         IF Representable(token[2]) THEN Node(token[2], p) ELSE Fail("InvalidLiteral", p)
    [] token[1] \in {"string", "bytes"} ->
         IF token[2] \in Undecodable THEN Fail("InvalidLiteral", p) ELSE Node(token, p)
    [] token[1] = "identifier" ->
         CASE token[2] \in DOMAIN Keywords -> Node(Keywords[token[2]], p)
           [] token[2] \in Reserved -> Fail("InvalidSyntax", p)
           [] OTHER -> Named(<<token[2]>>, p)
    [] token[1] = "." ->
         IF ~Is("identifier", p) \/ Token(p)[2] \in Reserved THEN Fail("InvalidSyntax", p)
         ELSE Named(<<".", Token(p)[2]>>, Advance(p))
    [] token[1] = "-" /\ Token(p) = LeastMagnitude -> Node(Least, Advance(p))
    [] token[1] \in {"-", "!"} -> Wrap(token[1], Expression(7, p))
    [] token[1] = "(" -> Consume(")", Expression(0, p))
    [] token[1] = "[" ->
         LET list == Items("list", "]", <<>>, p) IN Node(<<"list", list.node>>, list)
    [] token[1] = "{" ->
         LET map == Items("map", "}", <<>>, p) IN Node(<<"map", map.node>>, map)
    [] OTHER -> Fail("InvalidSyntax", p)

Prefix(p) == IF Failed(Advance(p)) THEN Advance(p) ELSE Primary(Token(p), Advance(p))

\* A message of the type that left names.
Message(left, p) ==
  IF QualifiedName(left) = <<>> THEN Fail("InvalidSyntax", p)
  ELSE LET fields == Items("message", "}", <<>>, Advance(p))
       IN  Node(<<"message", QualifiedName(left), fields.node>>, fields)

\* A chain of unquoted names can be resolved as one name.
Select(left, name, quoted, optional, p) ==
  Node(<<"select", left, <<name>>,
         ~optional /\ ~quoted /\ (left[1] = "ident" \/ (left[1] = "select" /\ left[4])), optional>>, p)

\* After the dot, and the question mark of an optional selection.
Selection(left, optional, p) ==
  CASE Failed(p) -> p
    [] \/ ~Is("identifier", p) /\ ~Is("quoted_identifier", p)
       \/ Is("identifier", p) /\ Token(p)[2] \in DOMAIN Keywords
       \/ (Is("quoted_identifier", p) \/ optional) /\ Is("(", Advance(p)) -> Fail("InvalidSyntax", p)
    [] Is("(", Advance(p)) -> Call(left, <<Token(p)[2]>>, Advance(p))
    [] OTHER -> Select(left, Token(p)[2], Is("quoted_identifier", p), optional, Advance(p))

Index(left, optional, p) ==
  LET key == Expression(0, p)
  IN  Node(<<"index", left, key.node, optional>>, Consume("]", key))

Precedence(op) ==
  CASE op = "?" -> 1
    [] op = "||" -> 2
    [] op = "&&" -> 3
    [] op \in {"==", "!=", "<", "<=", ">", ">=", "in"} -> 4
    [] op \in {"+", "-"} -> 5
    [] op \in {"*", "/", "%"} -> 6
    [] OTHER -> -1

\* Faulty: the right operand takes operators of the same precedence.
RightAssociative(op, left, p) ==
  LET right == Expression(Precedence(op), p) IN Node(<<"binary", op, left, right.node>>, right)

Infix(op, left, p) ==
  LET right == Expression(Precedence(op) + 1, p) IN Node(<<"binary", op, left, right.node>>, right)

Ternary(left, p) ==
  LET yes == Expression(0, p)
      no == Expression(1, Consume(":", yes))
  IN  Node(<<"?:", left, yes.node, no.node>>, no)

\* The loop of expression: what follows what is parsed so far.
Operators(min_precedence, p) ==
  LET after == Advance(p)
  IN  CASE Failed(p) -> p
        [] Is("{", p) -> Operators(min_precedence, Message(p.node, p))
        [] Is(".", p) ->
             Operators(min_precedence, Selection(p.node, Is("?", after), Skip("?", after)))
        [] Is("[", p) ->
             Operators(min_precedence, Index(p.node, Is("?", after), Skip("?", after)))
        [] Precedence(Token(p)[1]) < min_precedence -> p
        [] Is("?", p) -> Operators(min_precedence, Ternary(p.node, after))
        [] OTHER -> Operators(min_precedence, Infix(Token(p)[1], p.node, after))

Expression(min_precedence, p) ==
  IF p.depth >= p.limits.max_depth THEN Fail("DepthLimitExceeded", p)
  ELSE IF Failed(p) THEN p
  ELSE [Operators(min_precedence, Prefix([p EXCEPT !.depth = @ + 1])) EXCEPT !.depth = p.depth]

\* A complete expression: its node, or the error.  A token counts as a byte.
Parse(source) ==
  LET p == Expression(0, Advance(Parser(source)))
      end == IF Is("eof", p) THEN p ELSE Fail("InvalidSyntax", p)
  IN  IF Len(source.tokens) > source.limits.max_source_bytes
      THEN [node |-> NoNode, patterns |-> <<>>, error |-> "SourceLimitExceeded"]
      ELSE [node |-> IF Failed(end) THEN NoNode ELSE end.node,
            patterns |-> IF Failed(end) THEN <<>> ELSE end.patterns, error |-> end.error]
=============================================================================
