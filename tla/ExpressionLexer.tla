---------------------------- MODULE ExpressionLexer ----------------------------
(***************************************************************************)
(* Sources, their tokens and their trees: the lexer (internal/lexer), and  *)
(* what the parsers of the two engines, which take the same words, share.  *)
(*                                                                         *)
(* A source is a sequence of symbols [t, v]: a word that the lexer takes   *)
(* whole, t telling its kind, or a character, t = "op". The keywords and,  *)
(* or, in are characters here. Only / needs more than its neighbour: it    *)
(* divides after a value and opens a regular expression elsewhere, and it  *)
(* is the parser that tells the lexer where it stands.                     *)
(***************************************************************************)
EXTENDS Integers, Sequences, SequencesExt

Symbol(t, v) == [t |-> t, v |-> v]
Op(v) == Symbol("op", v)
Blank == Op(" ")
EOF == Op("EOF")

-----------------------------------------------------------------------------
(* The lexer                                                               *)

Doubles == << <<"..", ".", ".">>, <<":=", ":", "=">>, <<"!=", "!", "=">>, <<">=", ">", "=">>,
              <<"<=", "<", "=">>, <<"**", "*", "*">>, <<"~>", "~", ">">>, <<"?:", "?", ":">>,
              <<"??", "?", "?">> >>
Token(tok, pos) == [tok |-> tok, pos |-> pos]
LexError(code) == [error |-> code]

IsOp(symbol, v) == symbol.t = "op" /\ symbol.v = v
Here(src, pos, chars) ==
  /\ pos + Len(chars) - 1 <= Len(src)
  /\ \A k \in DOMAIN chars : IsOp(src[pos + k - 1], chars[k])
\* The first position from pos on where these characters are; 0 is nowhere.
Find(src, pos, chars) ==
  LET at == {i \in pos .. Len(src) : Here(src, i, chars)}
  IN IF at = {} THEN 0 ELSE CHOOSE i \in at : \A j \in at : i <= j
Joined(symbols) == FoldLeft(LAMBDA text, symbol : text \o symbol.v, "", symbols)

RECURSIVE LexNext(_, _, _)
LexNext(src, pos, infix) ==
  LET comment == Find(src, pos + 2, <<"*", "/">>)
      close == Find(src, pos + 1, <<"/">>)
      double == {d \in DOMAIN Doubles : Here(src, pos, Tail(Doubles[d]))}
  IN IF pos > Len(src) THEN Token(EOF, pos)
     ELSE IF IsOp(src[pos], " ") THEN LexNext(src, pos + 1, infix)
     ELSE IF Here(src, pos, <<"/", "*">>)
     THEN IF comment = 0 THEN LexError("S0106") ELSE LexNext(src, comment + 2, infix)
     ELSE IF IsOp(src[pos], "/") /\ ~infix
     THEN IF close = 0 THEN LexError("S0302")
          ELSE IF close = pos + 1 THEN LexError("S0301")
          ELSE Token(Symbol("regex", Joined(SubSeq(src, pos + 1, close - 1))), close + 1)
     ELSE IF double # {} THEN Token(Op(Doubles[CHOOSE d \in double : TRUE][1]), pos + 2)
     ELSE Token(src[pos], pos + 1)

-----------------------------------------------------------------------------
(* The parser: where it is, the token it looks at, whether the next one is *)
(* read as after a value, and the code of the first error                  *)

Parser(src, pos, tok, infix, err) == [src |-> src, pos |-> pos, tok |-> tok, infix |-> infix, err |-> err]
Fail(p, code) == IF p.err = "ok" THEN [p EXCEPT !.err = code] ELSE p
Type(p) == CASE p.err # "ok" -> "error"
             [] p.err = "ok" /\ p.tok.t = "op" -> p.tok.v
             [] OTHER -> p.tok.t

-----------------------------------------------------------------------------
(* Trees                                                                   *)

Node(type, value, kids) ==
  [type |-> type, value |-> value, kids |-> kids, minus |-> FALSE,
   keep |-> FALSE, focus |-> "", index |-> "", group |-> <<>>, grouped |-> FALSE, thunk |-> FALSE]
Binary(op, left, right) == Node("binary", op, <<left, right>>)
Parsed(node, p) == [node |-> node, p |-> p]
Several(nodes, p) == [nodes |-> nodes, p |-> p]
NoNode == Node("none", "", <<>>)
RECURSIVE Within(_)
Within(n) == {n} \union UNION {Within(n.kids[i]) : i \in DOMAIN n.kids}
               \union UNION {Within(n.group[i]) : i \in DOMAIN n.group}
=============================================================================
