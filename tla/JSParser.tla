-------------------------------- MODULE JSParser --------------------------------
(***************************************************************************)
(* The parser of the JavaScript engine, up to the tree that processAST     *)
(* passes over (src/parser.js). Its words are those of ExpressionLexer.    *)
(*                                                                         *)
(* A token is read in the call that leaves the one before it, and that     *)
(* call says whether a value has ended: prefix, as advance has it.         *)
(***************************************************************************)
EXTENDS ExpressionLexer

\* The powers that infix() gives: .., | and ** have one in the table only.
lbp(type) ==
  CASE type \in {"(", "[", "@", "#"} -> 80
    [] type = "." -> 75
    [] type = "{" -> 70
    [] type \in {"*", "/", "%"} -> 60
    [] type \in {"+", "-", "&"} -> 50
    [] type \in {"=", "!=", "<", ">", "<=", ">=", "in", "^", "~>", "?:", "??"} -> 40
    [] type = "and" -> 30
    [] type = "or" -> 25
    [] type = "?" -> 20
    [] type = ":=" -> 10
    [] OTHER -> 0

tokenizer(p, prefix) == LexNext(p.src, p.pos, prefix)
advance(p, prefix) ==
  LET next == tokenizer(p, prefix)
  IN IF p.err # "ok" THEN p
     ELSE IF "error" \in DOMAIN next THEN Fail(p, next.error)
     ELSE IF next.tok \in {Op("!"), Op("~")} THEN Fail(p, "S0204")
     ELSE [p EXCEPT !.tok = next.tok, !.pos = next.pos]
\* ... over the token that must stand here.
AdvanceOver(p, id, prefix) ==
  IF Type(p) = id THEN advance(p, prefix) ELSE Fail(p, IF Type(p) = "EOF" THEN "S0203" ELSE "S0202")

RECURSIVE expression(_, _), Led(_, _), Items(_, _, _), Expressions(_, _)

-----------------------------------------------------------------------------
(* Lists: at least one item, and another after every comma                 *)

Ranged(item) ==
  LET to == expression(advance(item.p, FALSE), 0)
  IN IF Type(item.p) = ".." THEN Parsed(Binary("..", item.node, to.node), to.p) ELSE item
Item(p, kind) ==
  LET one == expression(p, 0)
      value == expression(AdvanceOver(one.p, ":", FALSE), 0)
      directed == Type(p) \in {"<", ">"}
      term == expression(IF directed THEN advance(p, FALSE) ELSE p, 0)
  IN CASE kind = "function" /\ Type(p) = "?" -> Parsed(<<Node("operator", "?", <<>>)>>, advance(p, FALSE))
       [] kind = "array" -> LET item == Ranged(one) IN Parsed(<<item.node>>, item.p)
       [] kind = "object" -> Parsed(<<one.node, value.node>>, value.p)
       [] kind = "sort" -> Parsed(<<Node("term", IF Type(p) = ">" THEN ">" ELSE "<", <<term.node>>)>>, term.p)
       [] OTHER -> Parsed(<<one.node>>, one.p)
Items(p, kind, done) ==
  LET item == Item(p, kind)
  IN IF Type(item.p) = "," THEN Items(advance(item.p, FALSE), kind, done \o item.node)
     ELSE Several(done \o item.node, item.p)
ItemsTo(p, close, kind) ==
  LET items == IF Type(p) = close THEN Several(<<>>, p) ELSE Items(p, kind, <<>>)
  IN [items EXCEPT !.p = AdvanceOver(@, close, TRUE)]
Expressions(p, done) ==
  LET item == expression(p, 0)
  IN IF Type(p) = ")" THEN Several(done, p)
     ELSE IF Type(item.p) = ";" THEN Expressions(advance(item.p, FALSE), Append(done, item.node))
     ELSE Several(Append(done, item.node), item.p)

-----------------------------------------------------------------------------
(* Prefix position: t is the token, p where the next one is looked at      *)

Collected(p, close, type) ==
  LET items == ItemsTo(p, close, type) IN Parsed(Node(type, "", items.nodes), items.p)
Block(p) ==
  LET all == Expressions(p, <<>>)
  IN Parsed(Node("block", "", all.nodes), AdvanceOver(all.p, ")", TRUE))
Transform(p) ==
  LET pattern == expression(p, 0)
      update == expression(AdvanceOver(pattern.p, "|", FALSE), 0)
      delete == expression(advance(update.p, FALSE), 0)
  IN IF Type(update.p) = ","
     THEN Parsed(Node("transform", "", <<pattern.node, update.node, delete.node>>), AdvanceOver(delete.p, "|", FALSE))
     ELSE Parsed(Node("transform", "", <<pattern.node, update.node>>), AdvanceOver(update.p, "|", FALSE))
Negation(p) == LET sub == expression(p, 70) IN Parsed(Node("unary", "-", <<sub.node>>), sub.p)

nud(t, p) ==
  LET type == IF t.t = "op" THEN t.v ELSE t.t
  IN CASE type \in {"name", "variable", "string", "number", "value", "regex"} -> Parsed(Node(type, t.v, <<>>), p)
       [] type \in {"and", "or", "in"} -> Parsed(Node("name", type, <<>>), p)
       [] type = "*" -> Parsed(Node("wildcard", type, <<>>), p)
       [] type = "**" -> Parsed(Node("descendant", type, <<>>), p)
       [] type = "%" -> Parsed(Node("parent", type, <<>>), p)
       [] type = "EOF" -> Parsed(Node("end", "", <<>>), p)
       [] type = "-" -> Negation(p)
       [] type = "[" -> Collected(p, "]", "array")
       [] type = "{" -> Collected(p, "}", "object")
       [] type = "(" -> Block(p)
       [] type = "|" -> Transform(p)
       [] OTHER -> Parsed(NoNode, Fail(p, "S0211"))

-----------------------------------------------------------------------------
(* Infix position: p is after the operator                                 *)

RECURSIVE Signature(_, _, _)
Signature(p, depth, sig) ==
  LET tok == advance(p, FALSE)
      deeper == CASE Type(tok) = ">" -> depth - 1 [] Type(tok) = "<" -> depth + 1 [] OTHER -> depth
  IN IF depth = 0 \/ Type(p) \in {"{", "EOF", "error"} THEN [sig |-> sig, p |-> AdvanceOver(p, ">", FALSE)]
     ELSE Signature(tok, deeper, sig \o tok.tok.v)
Lambda(args, p) ==
  LET signed == IF Type(p) = "<" THEN Signature(p, 1, "<") ELSE [sig |-> "", p |-> p]
      body == expression(AdvanceOver(signed.p, "{", FALSE), 0)
      node == Node("lambda", signed.sig, Append(args, body.node))
  IN IF \A i \in DOMAIN args : args[i].type = "variable" THEN Parsed(node, AdvanceOver(body.p, "}", FALSE))
     ELSE Parsed(node, Fail(p, "S0208"))
Call(p, left) ==
  LET args == ItemsTo(p, ")", "function")
      partial == \E i \in DOMAIN args.nodes : args.nodes[i].type = "operator"
  IN IF left.type = "name" /\ left.value = "function" THEN Lambda(args.nodes, args.p)
     ELSE Parsed(Node(IF partial THEN "partial" ELSE "function", "", <<left>> \o args.nodes), args.p)
\* An empty predicate marks the step that the predicates before it select from.
RECURSIVE KeepArray(_)
KeepArray(n) ==
  IF n.type = "binary" /\ n.value = "[" THEN [n EXCEPT !.kids[1] = KeepArray(@)] ELSE [n EXCEPT !.keep = TRUE]
Filter(p, left) ==
  LET inner == expression(p, 0)
  IN IF Type(p) = "]" THEN Parsed(KeepArray(left), advance(p, FALSE))
     ELSE Parsed(Binary("[", left, inner.node), AdvanceOver(inner.p, "]", TRUE))
Sort(p, left) ==
  LET terms == Items(AdvanceOver(p, "(", FALSE), "sort", <<>>)
  IN Parsed(Node("sort", "", <<left>> \o terms.nodes), AdvanceOver(terms.p, ")", FALSE))
Grouping(p, left) ==
  LET pairs == ItemsTo(p, "}", "object")
  IN Parsed(Node("binary", "{", <<left>> \o pairs.nodes), pairs.p)
Condition(p, left) ==
  LET then == expression(p, 0)
      else == expression(advance(then.p, FALSE), 0)
  IN IF Type(then.p) = ":" THEN Parsed(Node("condition", "", <<left, then.node, else.node>>), else.p)
     ELSE Parsed(Node("condition", "", <<left, then.node>>), then.p)
Assign(p, left) ==
  LET right == expression(p, lbp(":=") - 1)
  IN IF left.type = "variable" THEN Parsed(Node("bind", "", <<left, right.node>>), right.p)
     ELSE Parsed(left, Fail(p, "S0212"))
Bound(p, op, left) ==
  LET name == expression(p, lbp(op))
  IN Parsed(Binary(op, left, name.node), IF name.node.type = "variable" THEN name.p ELSE Fail(name.p, "S0214"))
\* left ?: else and left ?? else are conditions on left and on its existence,
\* of which the tree is what JSON makes of left: a regular expression becomes an
\* empty object, a signature an object that cannot validate. (So does a number
\* that no double holds become an object; the words here have none.)
RECURSIVE Cloned(_)
Cloned(n) ==
  [n EXCEPT !.kids = [i \in DOMAIN @ |-> Cloned(@[i])],
            !.value = IF n.type = "regex" \/ (n.type = "lambda" /\ n.value # "") THEN "{}" ELSE @]
Otherwise(p, condition, left) ==
  LET else == expression(p, 0) IN Parsed(Node("condition", "", <<condition, left, else.node>>), else.p)
Exists(n) == Node("function", "", <<Node("variable", "exists", <<>>), n>>)

led(type, p, left) ==
  LET right == expression(p, lbp(type))
  IN CASE type = "(" -> Call(p, left)
       [] type = "[" -> Filter(p, left)
       [] type = "^" -> Sort(p, left)
       [] type = "{" -> Grouping(p, left)
       [] type = "?" -> Condition(p, left)
       [] type = ":=" -> Assign(p, left)
       [] type \in {"@", "#"} -> Bound(p, type, left)
       [] type = "?:" -> Otherwise(p, Cloned(left), left)
       [] type = "??" -> Otherwise(p, Exists(Cloned(left)), left)
       [] OTHER -> Parsed(Binary(type, left, right.node), right.p)

-----------------------------------------------------------------------------

Led(left, rbp) ==
  IF left.p.err = "ok" /\ rbp < lbp(Type(left.p))
  THEN Led(led(Type(left.p), advance(left.p, FALSE), left.node), rbp) ELSE left
expression(p, rbp) ==
  IF p.err # "ok" THEN Parsed(NoNode, p)
  ELSE Led(nud(p.tok, advance(p, Type(p) \notin {"(", "[", "{", "-", "|"})), rbp)

\* The tree, or the code of the first error; processAST refuses an end that
\* stands for an operand.
parser(source) ==
  LET whole == expression(advance(Parser(source, 1, EOF, FALSE, "ok"), FALSE), 0)
      end == IF Type(whole.p) = "EOF" THEN whole.p ELSE Fail(whole.p, "S0201")
  IN IF end.err # "ok" THEN LexError(end.err)
     ELSE IF \E n \in Within(whole.node) : n.type = "end" THEN LexError("S0207")
     ELSE [node |-> whole.node]
=============================================================================
