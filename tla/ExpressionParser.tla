--------------------------- MODULE ExpressionParser ---------------------------
(***************************************************************************)
(* The parser of the Go engine and the pass over its tree (internal/       *)
(* parser/parser.go and process.go).                                       *)
(***************************************************************************)
EXTENDS ExpressionLexer

advance(p) ==
  LET next == LexNext(p.src, p.pos, p.infix)
  IN IF p.err # "ok" THEN p
     ELSE IF "error" \in DOMAIN next THEN Fail(p, next.error)
     ELSE [p EXCEPT !.tok = next.tok, !.pos = next.pos, !.infix = FALSE]
advancePrefix(p) == advance([p EXCEPT !.infix = FALSE])
AdvanceInfix(p) == advance([p EXCEPT !.infix = TRUE])
Expect(p, type) == IF Type(p) = type THEN p ELSE Fail(p, "S0202")
consume(p, type) == advance(Expect(p, type))
consumePrefix(p, type) == advancePrefix(Expect(p, type))
\* The token is consumed before the parser says that a value has ended.
ConsumeLate(p, type) == [consume(p, type) EXCEPT !.infix = TRUE]

bindingPower(type) ==
  CASE type \in {"(", "["} -> 80
    [] type \in {"@", "#", "."} -> 75
    [] type = "{" -> 70
    [] type \in {"*", "/", "%"} -> 60
    [] type \in {"+", "-", "&"} -> 50
    [] type = "~>" -> 45
    [] type \in {"!=", "<=", ">=", "=", "<", ">", "in", "^"} -> 40
    [] type = "and" -> 30
    [] type = "or" -> 25
    [] type \in {"..", "?", "?:", "??"} -> 20
    [] type = ":=" -> 10
    [] OTHER -> 0

RECURSIVE Expression(_, _), Infixes(_, _), Items(_, _, _, _), Blocks(_, _)

\* Items up to the closing token, a comma after each but perhaps the last.
WrongItem(kind, type) ==
  CASE kind = "array" /\ type \notin {")", "}", ":"} -> "S0204"
    [] kind = "call" /\ type = "EOF" -> "S0203"
    [] OTHER -> "S0202"
Item(p, kind) ==
  LET one == Expression(p, 0)
      value == Expression(consumePrefix(one.p, ":"), 0)
      directed == Type(p) \in {"<", ">"}
      term == Expression(IF directed THEN advancePrefix(p) ELSE p, 0)
  IN CASE kind = "lambda" -> Several(<<Node("variable", p.tok.v, <<>>)>>,
                               IF Type(p) = "variable" THEN advance(p) ELSE Fail(p, "S0208"))
       [] kind = "object" -> Several(<<one.node, value.node>>, value.p)
       [] kind = "sort" -> Several(<<Node("term", IF Type(p) = ">" THEN ">" ELSE "<", <<term.node>>)>>, term.p)
       [] OTHER -> Several(<<one.node>>, one.p)
Items(p, close, kind, done) ==
  LET item == Item(p, kind)
  IN IF Type(p) \in {close, "error"} THEN Several(done, p)
     ELSE IF Type(p) = "EOF" THEN Several(done, Fail(p, IF kind = "call" THEN "S0203" ELSE "S0202"))
     ELSE IF Type(item.p) = "," THEN Items(advancePrefix(item.p), close, kind, done \o item.nodes)
     ELSE IF Type(item.p) \in {close, "error"} THEN Several(done \o item.nodes, item.p)
     ELSE Several(done, Fail(item.p, WrongItem(kind, Type(item.p))))
Blocks(p, done) ==
  LET next == advancePrefix(p)
      item == Expression(next, 0)
  IN IF Type(p) # ";" THEN Several(done, p)
     ELSE IF Type(next) = ")" THEN Several(done, next)
     ELSE Blocks(item.p, Append(done, item.node))

-----------------------------------------------------------------------------
(* Prefix position                                                         *)

Leaf(p, node) == Parsed(node, AdvanceInfix(p))
\* The tokens of a signature, up to the > that closes it.
RECURSIVE parseSignatureString(_, _, _)
parseSignatureString(p, depth, raw) ==
  LET type == Type(p)
      left == CASE type = "<" -> depth + 1 [] type = ">" -> depth - 1 [] OTHER -> depth
  IN IF type \in {"EOF", "error"} THEN [raw |-> raw, p |-> Fail(p, "S0202")]
     ELSE IF left = 0 THEN [raw |-> raw, p |-> advance(p)]
     ELSE parseSignatureString(advance(p), left, raw \o p.tok.v)
parseLambda(p) ==
  LET params == Items(consume(p, "("), ")", "lambda", <<>>)
      after == advance(params.p)
      sig == IF Type(after) = "<" THEN parseSignatureString(advance(after), 1, "") ELSE [raw |-> "", p |-> after]
      body == Expression(consume(sig.p, "{"), 0)
  IN Parsed(Node("lambda", sig.raw, Append(params.nodes, body.node)), ConsumeLate(body.p, "}"))
parseParenOrBlock(p) ==
  LET open == advancePrefix(p)
      first == Expression(open, 0)
      all == Blocks(first.p, <<first.node>>)
  IN IF Type(open) = ")" THEN Parsed(Node("block", "", <<>>), AdvanceInfix(open))
     ELSE IF Type(first.p) = ")" THEN Parsed(Node("block", "", <<first.node>>), AdvanceInfix(first.p))
     ELSE Parsed(Node("block", "", all.nodes), ConsumeLate(all.p, ")"))
parseTransform(p) ==
  LET pattern == Expression(advancePrefix(p), 20)
      update == Expression(consumePrefix(pattern.p, "|"), 20)
      delete == Expression(advancePrefix(update.p), 20)
      deletes == Type(update.p) = ","
  IN Parsed(Node("transform", "", <<pattern.node, update.node>> \o (IF deletes THEN <<delete.node>> ELSE <<>>)),
            ConsumeLate(IF deletes THEN delete.p ELSE update.p, "|"))
\* A minus is folded into a number literal.
Negate(p) ==
  LET sub == Expression(advance(p), 70)
  IN Parsed(IF sub.node.type = "number"
            THEN [sub.node EXCEPT !.minus = ~@]
            ELSE Node("unary", "-", <<sub.node>>), sub.p)
Collected(p, close, type) ==
  LET all == Items(advancePrefix(p), close, type, <<>>)
  IN Parsed(Node(type, "", all.nodes), AdvanceInfix(all.p))

nud(p) ==
  LET type == Type(p)
      after == AdvanceInfix(p)
  IN CASE type = "name" /\ p.tok.v = "function" /\ Type(after) = "(" -> parseLambda(after)
       [] type \in {"variable", "string", "number", "value", "regex"}
            \/ (type = "name" /\ ~(p.tok.v = "function" /\ Type(after) = "(")) -> Leaf(p, Node(type, p.tok.v, <<>>))
       [] type \in {"and", "or", "in"} -> Leaf(p, Node("name", type, <<>>))
       [] type = "*" -> Leaf(p, Node("wildcard", type, <<>>))
       [] type = "**" -> Leaf(p, Node("descendant", type, <<>>))
       [] type = "%" -> Leaf(p, Node("parent", type, <<>>))
       [] type = "-" -> Negate(p)
       [] type = "[" -> Collected(p, "]", "array")
       [] type = "{" -> Collected(p, "}", "object")
       [] type = "(" -> parseParenOrBlock(p)
       [] type = "?" -> Parsed(Node("operator", "?", <<>>), advance(p))
       [] type = "|" -> parseTransform(p)
       [] type = "EOF" -> Parsed(NoNode, Fail(p, "S0201"))
       [] OTHER -> Parsed(NoNode, Fail(p, "S0211"))

-----------------------------------------------------------------------------
(* Infix position                                                          *)

\* Mutant: a chain of functions is read from the left.
LeftFirst_Chain == {"and", "or", "in", "=", "!=", "<", ">", "<=", ">=", "+", "-", "*", "/", "%", "&", "~>"}
LeftFirst == {"and", "or", "in", "=", "!=", "<", ">", "<=", ">=", "+", "-", "*", "/", "%", "&"}
RightFirst == {"~>", "?:", "??", ".."}
binaryRHS(p, bp, op) ==  \* these say S0207 when nothing follows
  LET right == Expression(p, bp)
  IN IF op \in {"=", "!=", "<", ">", "<=", "%"} /\ right.p.err = "S0201"
     THEN [right EXCEPT !.p.err = "S0207"] ELSE right
parseFunctionCall(p, left) ==
  LET args == Items(advancePrefix(p), ")", "call", <<>>)
      partial == \E i \in DOMAIN args.nodes : args.nodes[i].type = "operator"
  IN Parsed(Node(IF partial THEN "partial" ELSE "function", "", <<left>> \o args.nodes), AdvanceInfix(args.p))
parseSubscript(p, left) ==
  LET open == advancePrefix(p)
      inner == Expression(open, 0)
  IN IF left.grouped THEN Parsed(left, Fail(p, "S0209"))
     ELSE IF Type(open) = "]" THEN Parsed([left EXCEPT !.keep = TRUE], AdvanceInfix(open))
     ELSE Parsed(Binary("[", left, inner.node), ConsumeLate(inner.p, "]"))
parseSortExpr(p, left) ==
  LET terms == Items(consumePrefix(advance(p), "("), ")", "sort", <<>>)
  IN Parsed(Node("sort", "", <<left>> \o terms.nodes), AdvanceInfix(terms.p))
Grouping(p, left) ==
  LET pairs == Items(advance(p), "}", "object", <<>>)
  IN IF left.grouped THEN Parsed(left, Fail(p, "S0210"))
     ELSE Parsed([left EXCEPT !.group = pairs.nodes, !.grouped = TRUE], AdvanceInfix(pairs.p))
\* @ and # name a variable.
Bound(p, left) ==
  LET name == advance(p)
      node == IF Type(p) = "@" THEN [left EXCEPT !.focus = name.tok.v] ELSE [left EXCEPT !.index = name.tok.v]
  IN CASE Type(p) = "@" /\ left.type = "binary" /\ left.value = "[" -> Parsed(left, Fail(p, "S0215"))
       [] Type(p) = "@" /\ left.type = "sort" -> Parsed(left, Fail(p, "S0216"))
       [] Type(name) = "name" -> Parsed(left, Fail(name, "S0214"))
       [] OTHER -> Parsed(node, AdvanceInfix(Expect(name, "variable")))
Condition(p, left) ==
  LET then == Expression(advancePrefix(p), 0)
      else == Expression(advancePrefix(then.p), 0)
  IN IF Type(then.p) = ":" THEN Parsed(Node("condition", "", <<left, then.node, else.node>>), else.p)
     ELSE Parsed(Node("condition", "", <<left, then.node>>), then.p)
Assign(p, left) ==
  LET right == Expression(advancePrefix(p), 9)
  IN IF left.type # "variable" THEN Parsed(left, Fail(p, "S0212"))
     ELSE Parsed(Node("bind", "", <<left, right.node>>), right.p)

led(p, left) ==
  LET type == Type(p)
      Infix(bp) == LET right == binaryRHS(advance(p), bp, type)
                   IN Parsed(Binary(type, left, right.node), right.p)
  IN CASE type \in LeftFirst -> Infix(bindingPower(type))
       [] type \in RightFirst -> Infix(bindingPower(type) - 1)
       [] type = "." -> Infix(74)
       [] type = "(" -> parseFunctionCall(p, left)
       [] type = "[" -> parseSubscript(p, left)
       [] type = "{" -> Grouping(p, left)
       [] type = "^" -> parseSortExpr(p, left)
       [] type \in {"@", "#"} -> Bound(p, left)
       [] type = "?" -> Condition(p, left)
       [] type = ":=" -> Assign(p, left)

Infixes(left, bp) ==
  IF bindingPower(Type(left.p)) > bp THEN Infixes(led(left.p, left.node), bp) ELSE left
Expression(p, bp) == IF p.err # "ok" THEN Parsed(NoNode, p) ELSE Infixes(nud(p), bp)

\* The node, or the code of the first error.
Parse(src) ==
  LET whole == Expression(advance(Parser(src, 1, EOF, FALSE, "ok")), 0)
      end == IF Type(whole.p) = "EOF" THEN whole.p ELSE Fail(whole.p, "S0201")
  IN IF end.err = "ok" THEN [node |-> whole.node] ELSE LexError(end.err)

-----------------------------------------------------------------------------
(* The pass over the parsed tree                                           *)

RECURSIVE markTailCalls(_)
markTailCalls(n) ==
  CASE n.type = "function" -> [n EXCEPT !.thunk = TRUE]
    [] n.type = "condition" -> [n EXCEPT !.kids = [i \in DOMAIN n.kids |->
                                  IF i = 1 THEN n.kids[1] ELSE markTailCalls(n.kids[i])]]
    [] n.type = "block" /\ n.kids # <<>> -> [n EXCEPT !.kids[Len(n.kids)] = markTailCalls(@)]
    [] n.type = "bind" -> [n EXCEPT !.kids[2] = markTailCalls(@)]
    [] OTHER -> n

IsDot(n) == n.type = "binary" /\ n.value = "."
\* In a path a string is the name of a field.
Step(n) == IF n.type = "string" THEN Node("name", n.value, <<>>) ELSE n
\* Mutant: the variables of a dot replace those of its last step.
Bind_Replaces(n, from) == [n EXCEPT !.index = from.index, !.focus = from.focus]
Bind(n, from) == [n EXCEPT !.index = IF from.index # "" THEN from.index ELSE @,
                           !.focus = IF from.focus # "" THEN from.focus ELSE @]
KeepsArray(step) ==
  step.keep \/ (step.type = "binary" /\ step.value = "[" /\ step.kids[1].keep)

\* An array, an object or a block is no leaf, even without items.
IsLeaf(n) == n.kids = <<>> /\ n.type \notin {"array", "object", "block"}
RECURSIVE ProcessAST(_), collectPathSteps(_)
collectPathSteps(n) ==
  LET left == collectPathSteps(n.kids[1])
      one == ProcessAST(n)
  IN IF IsDot(n)
     THEN Append(Front(left), Bind(Last(left), n)) \o collectPathSteps(n.kids[2])
     ELSE IF one.type = "path" THEN one.kids ELSE <<Step(one)>>
ProcessAST(n) ==
  LET steps == collectPathSteps(n)
      group == [i \in DOMAIN n.group |-> ProcessAST(n.group[i])]
      kids == [i \in DOMAIN n.kids |-> ProcessAST(n.kids[i])]
  IN CASE IsDot(n) ->
            [Node("path", "", steps) EXCEPT !.keep = \E i \in DOMAIN steps : KeepsArray(steps[i]),
                                            !.group = group, !.grouped = n.grouped]
       [] n.type = "lambda" -> [n EXCEPT !.kids = Append(Front(kids), markTailCalls(Last(kids)))]
       [] OTHER -> [n EXCEPT !.kids = kids, !.group = IF IsLeaf(n) THEN group ELSE @]
=============================================================================
