----------------------------- MODULE MCFastPath -----------------------------
(* Bounded instances of FastPath: the expressions and texts TLC combines. *)
EXTENDS Engines

N(type, value, kids) == Syntax!Node(type, value, kids)
Op(op, x, y) == Syntax!Binary(op, x, y)
Name(x) == N("name", x, <<>>)
Var(x) == N("variable", x, <<>>)
Number(n) == N("number", n, <<>>)
Text(s) == N("string", s, <<>>)
Keep(n) == [n EXCEPT !.keep = TRUE]
Group(n, pairs) == [n EXCEPT !.grouped = TRUE, !.group = pairs]
Dot(x, y) == Op(".", x, y)
At0(x, y) == Op("[", x, y)
Call(fn, args) == N("function", "", <<Var(fn)>> \o args)
Block(kids) == N("block", "", kids)
Ordered(x, dir, y) == N("sort", "", <<x, N("term", dir, <<y>>)>>)
ByKey == <<Text("key"), Var("")>>

a == Name("a")
b == Name("b")
z == Name("z")
AB == Dot(a, b)

(* Expressions that are classified, and their neighbours that are not *)
Plain == {a, AB, Name("@m"), Dot(a, Name("x y"))}
Held == {Dot(a, Keep(b)), Group(a, ByKey)}
Literals == {N("value", "null", <<>>), N("value", "true", <<>>), Number(1), Text("s"), Text("")}
Calls1 == {Call(fn, <<p>>) : fn \in (FastKinds \ ({"contains"} \union Aggregates)) \union {"spread"}, p \in Plain \union Held}
Searches == {Call("contains", <<p, Text("s")>>) : p \in Plain \union Held}
ClassifiedAndNot ==
  Plain \union Held \union Calls1 \union Searches
    \union {Op(op, p, l) : op \in {"=", "!="}, p \in Plain \union Held, l \in Literals}

(* Queries: paths of two steps, and what stands alone *)
d == Name("d")
Hash(n, i) == [n EXCEPT !.index = i]
Focus(n, x) == [n EXCEPT !.focus = x]
BIsOne == Op("=", b, Number(1))
Array(kids) == N("array", "", kids)
Object(kids) == N("object", "", kids)
Star == N("wildcard", "*", <<>>)
Parent == N("parent", "%", <<>>)

Whole == {a, At0(a, Number(0)), At0(a, BIsOne), Block(<<a>>), Block(<<AB>>), Var(""), Star, Ordered(a, "<", b)}
Counted == {Hash(a, "i"), Hash(At0(a, BIsOne), "i"), Focus(a, "i")}
Inside == {b, Keep(b), Star, Block(<<b, d>>), Var("i"), Array(<<b, Number(1)>>), 
           At0(a, Op("=", Var("i"), Number(1))), Block(<<N("condition", "", <<b, d, Number(1)>>)>>)}
PerItem == {At0(b, Number(-1)), At0(b, BIsOne), Object(<<Text("k"), b>>), Call("keys", <<Var("")>>), Call("count", <<b>>), Block(<<Op("&", b, Text("x"))>>)}
\* Selection does not see the #$i of a#$i.b, and answers an empty b otherwise.
Paths == {Dot(x, y) : x \in Whole, y \in Inside \union PerItem}
  \union ({Dot(x, y) : x \in Counted, y \in Inside \ {Star}} \ {Dot(Hash(a, "i"), b)})

Operators == {Op(op, AB, Number(1)) : op \in {"+", "-", "*", "<", "<=", ">", ">=", "and", "or", "?:", "??"}}
  \union {Op("in", Number(1), AB), Array(<<Op("..", Number(1), Number(2))>>), N("unary", "-", <<AB>>),
          N("condition", "", <<AB, Number(1)>>), Block(<<N("bind", "", <<Var("x"), a>>), Dot(Var("x"), b)>>)}
Alone == Whole \union {Object(<<Text("k"), a>>), Array(<<AB>>), Array(<<Array(<<a>>), a>>),
  Ordered(Block(<<AB>>), "<", Var("")), Ordered(a, "<", d), At0(At0(a, Number(0)), Number(0)),
  Dot(At0(a, Array(<<Number(0), Number(-1)>>)), b),
  Group(a, <<Text("k"), b>>), Group(Ordered(a, "<", d), <<b, d>>), Group(Var(""), <<Text("k"), b, Text("m"), d>>),
  Dot(Dot(Hash(a, "i"), Hash(b, "j")), Array(<<Var("i"), Var("j")>>)),
  Dot(Ordered(Hash(a, "i"), "<", b), Var("i")),
  Dot(Dot(Focus(a, "x"), At0(Focus(a, "y"), Op("=", Dot(Var("x"), b), Dot(Var("y"), d)))), Dot(Var("y"), b))}
Parents == {Dot(Dot(x, Parent), y) : x \in {AB, Dot(a, Star), Dot(At0(a, BIsOne), b), Dot(Hash(a, "i"), b), Dot(a, Hash(b, "i")), b},
                                     y \in {d, Var("i"), Object(<<Text("k"), b>>)}}
Queries == Paths \union Operators \union Alone \union Parents

(* Programs: functions, and what is done with them *)
Lambda1(x, body) == N("lambda", "", <<Var(x), body>>)
Lambda2(x, y, body) == N("lambda", "", <<Var(x), Var(y), body>>)
Assign(x, n) == N("bind", "", <<Var(x), n>>)
If(test, then, else) == N("condition", "", <<test, then, else>>)
Pipe(x, y) == Op("~>", x, y)
PartOf(fn, args) == N("partial", "", <<Var(fn)>> \o args)
Open == N("operator", "?", <<>>)
X == Var("x")
Y == Var("y")
Less1(x) == Op("-", x, Number(1))

Plus == Lambda2("x", "y", Op("+", X, Y))
Adder == Lambda1("x", Lambda1("y", Op("+", X, Y)))
Factorial == Lambda1("x", If(Op("<=", X, Number(1)), Number(1), Op("*", X, Call("f", <<Less1(X)>>))))
\* Tail calls: of itself, through a block, of an argument, of a builtin.
Total == Lambda2("x", "y", If(Op("<=", X, Number(0)), Y, Call("f", <<Less1(X), Op("+", X, Y)>>)))
InBlock == Lambda2("x", "y", Block(<<Assign("z", Less1(X)), If(Op("<", Var("z"), Number(0)), Y, Call("f", <<Var("z"), Array(<<Y, X>>)>>))>>))
\* A binding that ends a function.
InBinding == Lambda1("x", If(Op("<=", X, Number(0)), X, Block(<<Assign("y", Call("f", <<Less1(X)>>))>>)))
Odd == Lambda2("x", "other", If(Op("=", X, Number(0)), Text("f"), Call("other", <<Less1(X), Var("f")>>)))
Even == Lambda2("x", "other", If(Op("=", X, Number(0)), Text("g"), Call("other", <<Less1(X), Var("g")>>)))
Twice == Lambda2("x", "y", Call("x", <<Call("x", <<Y>>)>>))

With(f, body) == Block(<<Assign("f", f), body>>)
Uses == {
  With(Plus, Call("f", <<Number(1), Number(2)>>)), With(Plus, Call("map", <<AB, PartOf("f", <<Open, Number(1)>>)>>)),
  With(Plus, Pipe(AB, Call("reduce", <<Var("f")>>))), With(Plus, Call("reduce", <<AB, Var("f"), Number(5)>>)),
  With(Plus, Pipe(Pipe(Number(1), PartOf("f", <<Number(3), Open>>)), Call("count", <<>>))),
  With(Adder, N("function", "", <<Call("f", <<Number(1)>>), Number(2)>>)), With(Adder, Call("map", <<AB, Call("f", <<Number(2)>>)>>)),
  With(Factorial, Call("f", <<Number(3)>>)), With(Factorial, Call("map", <<AB, Var("f")>>)),
  With(Total, Call("f", <<Number(3), Number(0)>>)), With(Total, Pipe(Number(2), Call("f", <<Number(1)>>))),
  With(Total, Call("map", <<AB, Var("f")>>)), With(InBlock, Call("f", <<Number(2), Number(7)>>)), With(InBinding, Op("+", Call("f", <<Number(2)>>), Number(1))),
  With(Odd, Block(<<Assign("g", Even), Call("f", <<Number(3), Var("g")>>)>>)),
  With(Twice, Call("f", <<Lambda1("x", Op("*", X, X)), Number(3)>>)), With(Twice, Call("f", <<Var("count"), a>>)),
  With(Lambda1("x", Call("count", <<X>>)), Call("f", <<AB>>)), With(Lambda1("x", Dot(X, b)), Call("f", <<a>>)),
  With(Lambda1("x", Dot(X, b)), Pipe(a, Pipe(Var("f"), Var("type")))), With(Lambda1("x", Call("keys", <<X>>)), Call("f", <<a>>)),
  \* The [] of a call of a function that ends another says nothing.
  With(Lambda1("x", Dot(X, b)), Block(<<Assign("g", Lambda1("x", Keep(Call("f", <<X>>)))), Call("g", <<a>>)>>)),
  With(Lambda1("x", Op("&", X, Dot(a, d))), Call("f", <<Text("s")>>)), With(Number(1), Call("f", <<Number(1)>>)),
  With(Pipe(Var("sum"), Lambda1("x", Op("*", X, X))), Call("f", <<AB>>)), With(Lambda1("x", X), Dot(a, Call("f", <<b>>))),
  With(Lambda1("x", X), N("function", "", <<Name("f"), Number(1)>>)), Call("f", <<Number(1)>>), Pipe(a, Number(1)), Pipe(a, Var("count")),
  Pipe(AB, Call("map", <<Lambda2("x", "y", Array(<<X, Y>>))>>)), Call("filter", <<AB, Lambda1("x", Op("=", X, Number(1)))>>),
  Call("filter", <<AB, Lambda2("x", "y", Op("=", Y, Number(0)))>>), Call("single", <<AB, Lambda1("x", Op("=", X, Number(1)))>>),
  Call("single", <<AB>>), Call("reduce", <<AB, Lambda1("x", X)>>), Dot(a, Call("map", <<b, Lambda1("x", Op("*", X, Number(2)))>>)),
  Block(<<Assign("f", Lambda1("x", Op("+", X, Number(1)))), Assign("g", Lambda1("x", Op("*", X, Number(2)))),
          Call("map", <<AB, Pipe(Var("f"), Var("g"))>>)>>)}

(* Programs whose functions have signatures *)
SignatureTexts ==
  [text \in {"n", "s", "b", "l", "o", "x", "j", "f", "a", "nn", "fn"} |->
     IF text = "nn" THEN <<"n", "n">> ELSE IF text = "fn" THEN <<"f", "n">> ELSE <<text>>]
  @@ ("nn:n" :> <<"n", "n", ":", "n">>) @@ ("sn?" :> <<"s", "n", "?">>) @@ ("n?" :> <<"n", "?">>) @@ ("n+" :> <<"n", "+">>)
  @@ ("n+s" :> <<"n", "+", "s">>) @@ ("nx-" :> <<"n", "x", "-">>) @@ ("j-" :> <<"j", "-">>) @@ ("(ns)" :> <<"(", "n", "s", ")">>)
  @@ ("a<n>:n" :> <<"a", "<", "n", ">", ":", "n">>) @@ ("a<s>" :> <<"a", "<", "s", ">">>)
  @@ ("a<a<n>>" :> <<"a", "<", "a", "<", "n", ">", ">">>) @@ ("f<n:n>n" :> <<"f", "<", "n", ":", "n", ">", "n">>)
  @@ ("n<n>" :> <<"n", "<", "n", ">">>) @@ ("(a<n>)" :> <<"(", "a", "<", "n", ">", ")">>)
  \* Those of builtins.
  @@ ("a:n" :> <<"a", ":", "n">>) @@ ("s-:s" :> <<"s", "-", ":", "s">>) @@ ("s-:n" :> <<"s", "-", ":", "n">>)
  @@ ("s-(sf):b" :> <<"s", "-", "(", "s", "f", ")", ":", "b">>) @@ ("af" :> <<"a", "f">>) @@ ("af?" :> <<"a", "f", "?">>)
  @@ ("afj?:j" :> <<"a", "f", "j", "?", ":", "j">>) @@ ("x-:a<s>" :> <<"x", "-", ":", "a", "<", "s", ">">>)
  @@ ("x-:a<o>" :> <<"x", "-", ":", "a", "<", "o", ">">>) @@ ("(oa):o" :> <<"(", "o", "a", ")", ":", "o">>)
  @@ ("x:b" :> <<"x", ":", "b">>) @@ ("a:a" :> <<"a", ":", "a">>)
  @@ ("x:s" :> <<"x", ":", "s">>) @@ ("x-:b" :> <<"x", "-", ":", "b">>) @@ ("xx:a" :> <<"x", "x", ":", "a">>)
  @@ ("x-s:x" :> <<"x", "-", "s", ":", "x">>) @@ ("a<o>:o" :> <<"a", "<", "o", ">", ":", "o">>) @@ ("x:x" :> <<"x", ":", "x">>)
  @@ ("a+" :> <<"a", "+">>) @@ ("o-f?:o" :> <<"o", "-", "f", "?", ":", "o">>) @@ ("o-f:a" :> <<"o", "-", "f", ":", "a">>)
  @@ ("af?:a" :> <<"a", "f", "?", ":", "a">>) @@ ("s?:x" :> <<"s", "?", ":", "x">>) @@ ("bs?:x" :> <<"b", "s", "?", ":", "x">>)
Signed(sig, f) == [f EXCEPT !.value = sig]
Same1 == Lambda1("x", X)
Pair == Lambda2("x", "y", Array(<<X, Y>>))
Null0 == N("value", "null", <<>>)
\* A function of one parameter, of what a record has and what it does not.
OneTyped == {With(Signed(sig, Same1), Call("f", <<arg>>)) :
               sig \in {"n", "s", "b", "l", "o", "x", "j", "a", "(ns)", "a<n>:n", "a<s>", "a<a<n>>", "n<n>", "(a<n>)"},
               arg \in {AB, a, z, Number(1), Text("s"), Null0, Op("=", AB, Number(1)), Array(<<Array(<<Number(1), Number(2)>>)>>)}}
PairTyped == {With(Signed(sig, Pair), Call("f", args)) :
                sig \in {"nn:n", "sn?", "n?", "n+", "nx-"},
                args \in {<<Number(1)>>, <<Text("s")>>, <<Number(1), Number(2)>>, <<Text("s"), Number(2)>>, <<Number(1), Text("s")>>,
                          <<Number(1), Number(2), Number(3)>>}}
FunctionTyped == {With(Signed(sig, Lambda1("x", Call("type", <<arg>>))), Call("f", <<arg>>)) :
                    sig \in {"f", "j", "x", "o"}, arg \in {Number(1), Null0, Same1, Var("count")}}
SignedUses == OneTyped \union PairTyped \union FunctionTyped \union {
  With(Signed("n+s", Pair), Call("f", <<Number(1), Number(2), Text("s")>>)),
  With(Signed("nx-", Pair), Dot(AB, Block(<<Call("f", <<Number(1)>>)>>))),
  With(Signed("j-", Same1), Dot(AB, Block(<<Call("f", <<>>)>>))), With(Signed("n?", Lambda1("x", Call("exists", <<X>>))), Call("f", <<>>)),
  With(Signed("a<n>:n", Lambda1("x", Call("sum", <<X>>))), Pipe(AB, Var("f"))),
  With(Signed("n", Lambda1("x", Op("+", X, Number(1)))), Call("map", <<AB, Var("f")>>)),
  With(Signed("nn:n", Total), Call("f", <<Number(3), Number(0)>>)), With(Signed("nn:n", Total), Call("f", <<Number(3), Text("s")>>)),
  With(Signed("fn", Twice), Call("f", <<Lambda1("x", Op("*", X, X)), Number(3)>>)),
  With(Signed("f<n:n>n", Twice), Call("f", <<Lambda1("x", Op("*", X, X)), Number(3)>>)),
  With(Signed("nn", Plus), Call("map", <<Array(<<Number(1), Number(2)>>), PartOf("f", <<Open, Number(1)>>)>>)),
  Dot(Block(<<Text("s")>>), Call("uppercase", <<>>)), Dot(Block(<<Text("s")>>), Block(<<Call("uppercase", <<>>)>>)),
  Call("uppercase", <<z>>), Call("uppercase", <<Text("s"), Text("s")>>), Pipe(Text("s"), Var("uppercase"))}

(* Transforms *)
Change(pattern, clauses) == N("transform", "", <<pattern>> \o clauses)
Set(x, v) == Object(<<Text(x), v>>)
Objects(x) == At0(x, Op("=", Call("type", <<Var("")>>), Text("object")))
Overlapping == Array(<<a, Objects(AB)>>)
Inner1 == Array(<<Objects(AB), a>>)
Changes == {
  Change(a, <<Set("n", Number(1))>>), Change(a, <<Object(<<Text("b"), d, Text("d"), b>>)>>),
  Change(a, <<Set("n", b), Text("b")>>), Change(a, <<Set("n", b), Array(<<Text("n"), Text("d")>>)>>),
  \* The delete clause sees the update.
  Change(a, <<Set("n", Text("d")), Name("n")>>), Change(a, <<Set("d", Number(0)), If(Op("=", d, Number(0)), Text("b"), z)>>),
  Change(a, <<z>>), Change(z, <<Set("n", Number(1))>>), Change(a, <<Number(1)>>), Change(a, <<Object(<<>>), Number(1)>>),
  Change(a, <<Object(<<>>), z>>), Change(Var(""), <<Set("n", Number(1))>>), Change(At0(a, BIsOne), <<Set("b", Number(5)), Text("d")>>),
  Change(Objects(AB), <<z>>), Change(Objects(Dot(a, Star)), <<Set("n", Call("count", <<Var("")>>))>>),
  \* A part and what holds it, in both orders; an object that two hold.
  Change(Overlapping, <<Set("n", Call("keys", <<b>>))>>), Change(Inner1, <<Set("n", Call("keys", <<b>>))>>),
  Change(Overlapping, <<Set("n", Call("count", <<b>>)), Text("b")>>), Change(Inner1, <<Set("n", Call("count", <<b>>)), Text("b")>>),
  Change(Overlapping, <<Set("n", b)>>), Change(Overlapping, <<Object(<<Text("n"), b, Text("m"), b>>)>>), Change(Array(<<a, a>>), <<Set("n", Op("+", Call("count", <<b>>), Call("count", <<Name("n")>>)))>>)}
Transforms == {Pipe(Var(""), change) : change \in Changes} \union {
  Pipe(Objects(AB), Change(Var(""), <<Set("n", Number(1))>>)), Pipe(z, Change(a, <<Set("n", Number(1))>>)),
  Pipe(Pipe(Var(""), Change(a, <<Set("b", Array(<<b, Number(1)>>))>>)), Change(a, <<Set("d", Call("count", <<b>>))>>)),
  With(Change(Var(""), <<Set("n", Number(1))>>), Call("map", <<a, Var("f")>>)), With(Change(Objects(b), <<Set("n", Number(1))>>), Dot(a, Call("f", <<Var("")>>))),
  \* What is copied stays as it was.
  Block(<<Assign("x", Pipe(Var(""), Change(a, <<Set("b", Number(0))>>))), Array(<<Dot(X, AB), AB>>)>>),
  With(Lambda1("x", Pipe(Var(""), Change(a, <<Set("b", X)>>))), Call("f", <<Number(7)>>))}

(* The library on arrays and objects *)
Behind == Lambda2("x", "y", Op(">", X, Y))
ByB == Lambda2("x", "y", Op("<", Dot(X, d), Dot(Y, d)))
NoneEmpty == {AB, Dot(a, d), a, z, Number(1)}
SomeLists == {AB, Dot(a, d), a, z, Array(<<AB, AB>>), Number(1), Array(<<Null0, a, a, Text("s"), Text("s")>>)}
Library == {Call("spread", <<x>>) : x \in NoneEmpty} \union {Call(fn, <<x>>) : fn \in {"distinct", "boolean", "not"}, x \in SomeLists}
  \union {Call(fn, <<x, y>>) : fn \in {"append", "zip"}, x, y \in {AB, Dot(a, d), z, Number(1)}}
  \union {Call("lookup", <<x, y>>) : x \in {a, Var(""), AB, Array(<<a, a>>)}, y \in {Text("b"), Text("a"), Text("d")}}
  \union {Call(fn, <<x>>) : fn \in Aggregates, x \in {z, Array(<<AB, Number(2)>>), Array(<<>>), Number(2)}}
  \union {Call("merge", <<x>>) : x \in {a, z, Array(<<a, Object(<<Text("b"), Number(7), Text("n"), AB>>)>>), Array(<<AB>>)}}
  \union {Call(fn, <<x, f>>) : fn \in {"sift", "each"}, x \in {At0(a, Number(0)), z, Object(<<Text("k"), AB, Text("m"), Number(0)>>)},
             f \in {Same1, Pair, Lambda2("x", "y", Op("=", Y, Text("b"))), Var("count"), Lambda1("x", Call("error", <<>>))}}
  \union {Call("sort", <<x>>) : x \in {AB, Array(<<AB>>), Array(<<Text("s"), Text("b"), Text("d")>>), Array(<<Number(2), Text("s")>>), z, a}}
  \union {Call("sort", <<AB, Behind>>), Call("sort", <<a, ByB>>), Call("sort", <<Array(<<Number(2), Number(1), Number(3)>>), Behind>>),
          Pipe(AB, Call("sort", <<Behind>>)), Call("sort", <<Array(<<Number(2), Text("s")>>), Behind>>),
          Call("map", <<AB, Var("not")>>), Call("reduce", <<AB, Var("append")>>), Call("filter", <<AB, Var("boolean")>>),
          Call("each", <<At0(a, Number(0)), Pair>>), Pipe(a, Pipe(Var("merge"), Var("keys"))), Dot(a, Call("append", <<b, d>>)),
          Dot(a, Call("spread", <<Var("")>>)), Dot(Call("spread", <<a>>), b), Call("assert", <<Op("=", AB, Number(1)), Text("s")>>),
          Call("error", <<Text("s")>>), Call("merge", <<Call("spread", <<At0(a, Number(0))>>)>>), Dot(a, Call("sift", <<Var(""), Same1>>))}

Leaves == {Null, Bool(TRUE), Bool(FALSE), Num(1), Num(2), Str("s"), Wide("w"),
           Arr(<<>>), Arr(<<Num(1)>>), Arr(<<Null, Str("s")>>), Arr(<<Arr(<<Num(1), Num(2)>>)>>)}
Inner == Leaves
  \union {Obj(<<>>)}
  \union {Obj(<< <<"b", v>> >>) : v \in Leaves}
  \union {Obj(<< <<"x y", v>>, <<"b", Null>> >>) : v \in {Num(1), Str("s")}}
  \union {Obj(<< <<"b", Num(1)>>, <<"b", Num(2)>> >>)}
Lists == {Arr(<<u, v>>) : u, v \in {Num(1), Obj(<< <<"b", Num(1)>> >>),
                                    Obj(<< <<"b", Arr(<<>>)>>, <<"c", Null>> >>),
                                    Obj(<< <<"b", Arr(<<Num(1), Null>>)>> >>)}}
JSONValues ==
  Leaves
    \union {Obj(<< <<"a", v>>, <<"z", Num(9)>> >>) : v \in Inner \union Lists}
    \union {Arr(<<Obj(<< <<"a", v>> >>), Num(1)>>) : v \in Inner}
    \union {Obj(<< <<"a", Num(1)>>, <<"z", Obj(<< <<"b", Null>>, <<"b", Null>> >>)>> >>),
            Obj(<< <<"@m", Num(1)>> >>)}

One(name, v) == Obj(<< <<name, v>> >>)
Rec(x, y) == Obj(<< <<"b", x>>, <<"d", y>> >>)
Records == {
  One("a", Rec(Num(1), Num(2))), One("a", Rec(Arr(<<Num(2), Num(1)>>), Num(3))),
  One("a", Arr(<<Rec(Num(3), Num(2)), Rec(Num(1), Num(4))>>)),
  One("a", Arr(<<Rec(Num(2), Num(1)), One("d", Num(4)), Rec(Num(1), Num(2))>>)),
  One("a", Arr(<<Rec(Num(1), Num(1)), Rec(Num(1), Num(2)), Rec(Num(0), Num(1))>>)),
  One("a", Arr(<<Rec(Str("s"), Num(2)), Rec(Str(""), Null)>>)),
  One("a", Arr(<<Rec(Arr(<<Num(1), Num(2)>>), Num(1)), Rec(Arr(<<Num(2), Num(3)>>), Null)>>)),
  One("a", Arr(<<Rec(Arr(<<Rec(Num(1), Num(7)), Rec(Num(2), Num(8))>>), Num(1)), Rec(Rec(Num(1), Num(9)), Num(2))>>)),
  Arr(<<Rec(Num(2), Num(2)), Rec(Num(1), Num(4))>>),
  Arr(<<One("a", Rec(Num(2), Num(2))), One("a", Arr(<<Rec(Num(1), Num(1)), Rec(Num(3), Num(1))>>))>>)}

Source(v) == [valid |-> TRUE, escapes |-> FALSE, value |-> v]
JSONTexts == {Source(v) : v \in JSONValues \union Records}
  \union {[Source(Obj(<< <<"a", Num(1)>> >>)) EXCEPT !.escapes = TRUE],
          [Source(Obj(<< <<"a", Num(1)>> >>)) EXCEPT !.valid = FALSE]}

AllCases == ((ClassifiedAndNot \union Queries) \X JSONTexts) \union ((Uses \union SignedUses \union Transforms \union Library) \X {Source(v) : v \in Records})
\* Expressions on which selection and evaluation differ.
GroupedCases == {Group(AB, ByKey)} \X JSONTexts

NoBindings == {{}}
Numerals == [n \in {"0", "1"} |-> IF n = "0" THEN 0 ELSE 1]
Codepoints == <<"", "b", "d", "s", "w", "x">>
=============================================================================
