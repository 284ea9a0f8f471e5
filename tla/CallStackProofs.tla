--------------------------- MODULE CallStackProofs ---------------------------
(***************************************************************************)
(* The counters of the evaluator are its nesting, tail calls take no       *)
(* stack, their sentinels end in the loop of a lambda, and the limits      *)
(* bound the height of the stack: for every program and every limit.       *)
(***************************************************************************)
EXTENDS CallStack, DataFacts, FiniteSetTheorems

\* The frames that do nothing with the result but hand it on, within a body.
Passes(fr) == HandsOn(fr) /\ Kind[fr.at] # "chain"

\* A frame that has another above it is executing.
InsideBusy(s) == \A i \in 1..Len(s) - 1 : s[i].is = "call" => s[i].busy

\* What a call frame may stand on.
MayCall(fr, f) ==
    \/ Executes(fr, Builtins)
    \/ /\ fr.is = "node" /\ IsCallNode(fr.at)
       /\ ~(Thunk(fr.at) /\ f \in Lambdas)
Linked(s) == \A j \in 2..Len(s) : s[j].is = "call" => MayCall(s[j - 1], s[j].fn)

\* A node that only passing frames separate from a body has been marked.
TailIsMarked(s) ==
    \A i, k \in 1..Len(s) :
        /\ i < k /\ Executes(s[i], Lambdas) /\ s[k].is = "node"
        /\ \A m \in 1..Len(s) : i < m /\ m < k => Passes(s[m])
        => s[k].at \in Marked

Shape(s) == InsideBusy(s) /\ Linked(s) /\ TailIsMarked(s)

\* The inductive invariant.
IInv ==
    /\ TypeOK /\ CountersAreNesting /\ Shape(stack)
    /\ result # Running /\ stack # <<>> /\ Top.is = "call" => Top.busy
    /\ result.is = "tail" => result.fn \in Lambdas
-----------------------------------------------------------------------------
(* Sequences of frames.                                                    *)

LEMMA AppendFrame ==
    ASSUME NEW s \in Seq(Frames), NEW fr \in Frames
    PROVE  /\ Append(s, fr) \in Seq(Frames)
           /\ Len(s) \in Nat
           /\ Len(Append(s, fr)) = Len(s) + 1
           /\ \A i \in 1..Len(s) : Append(s, fr)[i] = s[i]
           /\ Append(s, fr)[Len(s) + 1] = fr
           /\ Append(s, fr) # <<>>
  OBVIOUS

LEMMA SplitTop ==
    ASSUME stack \in Seq(Frames), stack # <<>>
    PROVE  /\ Below \in Seq(Frames) /\ Top \in Frames
           /\ stack = Append(Below, Top)
           /\ Len(stack) \in Nat \ {0} /\ Len(Below) = Len(stack) - 1
           /\ \A i \in 1..Len(Below) : Below[i] = stack[i]
  BY FrontAndLast DEF Top, Below

LEMMA LevelType ==
    ASSUME NEW s \in Seq(Frames), NEW fns
    PROVE  IsFiniteSet(Executing(s, fns)) /\ Level(s, fns) \in Nat
<1>1. IsFiniteSet(1..Len(s)) /\ DOMAIN s = 1..Len(s)
  BY FS_Interval
<1>2. Executing(s, fns) \in SUBSET (1..Len(s))
  BY <1>1 DEF Executing
<1>3. IsFiniteSet(Executing(s, fns))
  BY <1>1, <1>2, FS_Subset
<1> QED
  BY <1>3, FS_CardinalityType DEF Level

LEMMA LevelEmpty ==
    ASSUME NEW fns
    PROVE  Level(<<>>, fns) = 0
<1>1. Executing(<<>>, fns) = {}
  BY DEF Executing
<1> QED
  BY <1>1, FS_EmptySet DEF Level

\* What a frame adds to a level.
One(fr, fns) == IF Executes(fr, fns) THEN 1 ELSE 0

LEMMA LevelAppend ==
    ASSUME NEW s \in Seq(Frames), NEW fr \in Frames, NEW fns
    PROVE  /\ Level(Append(s, fr), fns) = Level(s, fns) + One(fr, fns)
           /\ Level(s, fns) \in Nat /\ One(fr, fns) \in {0, 1}
<1> DEFINE t == Append(s, fr)
<1>1. /\ DOMAIN t = 1..Len(s) + 1 /\ DOMAIN s = 1..Len(s) /\ Len(s) \in Nat
      /\ \A i \in 1..Len(s) : t[i] = s[i]
      /\ t[Len(s) + 1] = fr
  BY AppendFrame
<1>2. CASE Executes(fr, fns)
  <2>1. Executing(t, fns) = Executing(s, fns) \cup {Len(s) + 1}
    BY <1>1, <1>2 DEF Executing
  <2>2. Len(s) + 1 \notin Executing(s, fns)
    BY <1>1 DEF Executing
  <2> QED
    BY <1>2, <2>1, <2>2, LevelType, FS_AddElement DEF Level, One
<1>3. CASE ~Executes(fr, fns)
  <2>1. Executing(t, fns) = Executing(s, fns)
    BY <1>1, <1>3 DEF Executing
  <2> QED
    BY <1>3, <2>1, LevelType DEF Level, One
<1> QED
  BY <1>2, <1>3
-----------------------------------------------------------------------------
(* The shape of the stack.                                                 *)

LEMMA ShapeEmpty == Shape(<<>>)
  BY DEF Shape, InsideBusy, Linked, TailIsMarked

\* It survives the return of the top frame ...
LEMMA ShapePop ==
    ASSUME NEW s \in Seq(Frames), NEW fr \in Frames, Shape(Append(s, fr))
    PROVE  Shape(s)
<1> DEFINE t == Append(s, fr)
<1>1. /\ Len(t) = Len(s) + 1 /\ Len(s) \in Nat
      /\ \A i \in 1..Len(s) : t[i] = s[i]
  BY AppendFrame
<1> HIDE DEF t
<1>2. Shape(t)
  BY DEF t
<1>3. InsideBusy(s)
  BY <1>1, <1>2 DEF Shape, InsideBusy
<1>4. Linked(s)
  <2> SUFFICES ASSUME NEW j \in 2..Len(s), s[j].is = "call"
               PROVE  MayCall(s[j - 1], s[j].fn)
    BY DEF Linked
  <2>1. j \in 2..Len(t) /\ t[j] = s[j] /\ t[j - 1] = s[j - 1]
    BY <1>1
  <2> QED  BY <1>2, <2>1 DEF Shape, Linked
<1>5. TailIsMarked(s)
  <2> SUFFICES ASSUME NEW i \in 1..Len(s), NEW k \in 1..Len(s), i < k,
                      Executes(s[i], Lambdas), s[k].is = "node",
                      \A m \in 1..Len(s) : i < m /\ m < k => Passes(s[m])
               PROVE  s[k].at \in Marked
    BY DEF TailIsMarked
  <2>1. i \in 1..Len(t) /\ k \in 1..Len(t) /\ t[i] = s[i] /\ t[k] = s[k]
    BY <1>1
  <2>2. \A m \in 1..Len(t) : i < m /\ m < k => m \in 1..Len(s) /\ Passes(t[m])
    BY <1>1
  <2> QED  BY <1>2, <2>1, <2>2 DEF Shape, TailIsMarked
<1> QED
  BY <1>3, <1>4, <1>5 DEF Shape

\* ... a change of the top frame that leaves its kind and its node, unless it
\* makes a lambda of another function ...
LEMMA ShapeTop ==
    ASSUME NEW s \in Seq(Frames), NEW old \in Frames, NEW new \in Frames,
           Shape(Append(s, old)), new.is = old.is, new.at = old.at,
           new.fn = old.fn \/ old.is # "call" \/ old.fn \in Lambdas
    PROVE  Shape(Append(s, new))
<1> DEFINE t == Append(s, old)
           u == Append(s, new)
<1>1. /\ Len(t) = Len(s) + 1 /\ Len(u) = Len(s) + 1 /\ Len(s) \in Nat
      /\ \A i \in 1..Len(s) : u[i] = t[i]
      /\ t[Len(s) + 1] = old /\ u[Len(s) + 1] = new
  BY AppendFrame
<1> HIDE DEF t, u
<1>2. Shape(t)
  BY DEF t
<1>3. InsideBusy(u)
  BY <1>1, <1>2 DEF Shape, InsideBusy
<1>4. Linked(u)
  <2> SUFFICES ASSUME NEW j \in 2..Len(u), u[j].is = "call"
               PROVE  MayCall(u[j - 1], u[j].fn)
    BY DEF Linked
  <2>1. j \in 2..Len(t) /\ t[j].is = "call" /\ u[j - 1] = t[j - 1]
    BY <1>1
  <2>2. MayCall(t[j - 1], t[j].fn)
    BY <1>2, <2>1 DEF Shape, Linked
  <2>3. u[j].fn = t[j].fn \/ t[j].fn \in Lambdas
    BY <1>1, <2>1
  <2> QED  BY <2>1, <2>2, <2>3 DEF MayCall
<1>5. TailIsMarked(u)
  <2> SUFFICES ASSUME NEW i \in 1..Len(u), NEW k \in 1..Len(u), i < k,
                      Executes(u[i], Lambdas), u[k].is = "node",
                      \A m \in 1..Len(u) : i < m /\ m < k => Passes(u[m])
               PROVE  u[k].at \in Marked
    BY DEF TailIsMarked
  <2>1. i \in 1..Len(t) /\ k \in 1..Len(t) /\ t[i] = u[i]
    BY <1>1
  <2>2. t[k].is = u[k].is /\ t[k].at = u[k].at
    BY <1>1
  <2>3. \A m \in 1..Len(t) : i < m /\ m < k => Passes(t[m])
    BY <1>1
  <2> QED  BY <1>2, <2>1, <2>2, <2>3 DEF Shape, TailIsMarked
<1> QED
  BY <1>3, <1>4, <1>5 DEF Shape, u

\* ... and a new frame that may stand on the top one.
LEMMA ShapePush ==
    ASSUME NEW s \in Seq(Frames), NEW top \in Frames, NEW new \in Frames,
           Shape(Append(s, top)),
           top.is = "call" => top.busy,
           new.is = "call" => MayCall(top, new.fn),
           new.is = "node" /\ Executes(top, Lambdas) => new.at \in Marked,
           new.is = "node" /\ Passes(top) /\ top.at \in Marked => new.at \in Marked
    PROVE  Shape(Append(Append(s, top), new))
<1> DEFINE t == Append(s, top)
           u == Append(t, new)
           n == Len(s) + 1
<1>1. /\ t \in Seq(Frames) /\ Len(t) = n /\ t[n] = top /\ Len(s) \in Nat
  BY AppendFrame
<1>2. /\ Len(u) = n + 1 /\ u[n + 1] = new
      /\ \A i \in 1..n : u[i] = t[i]
  BY <1>1, AppendFrame
<1>3. Shape(t) /\ n \in Nat \ {0}
  BY <1>1
<1> HIDE DEF t, u, n
<1>4. InsideBusy(u)
  BY <1>1, <1>2, <1>3 DEF Shape, InsideBusy
<1>5. Linked(u)
  <2> SUFFICES ASSUME NEW j \in 2..Len(u), u[j].is = "call"
               PROVE  MayCall(u[j - 1], u[j].fn)
    BY DEF Linked
  <2>1. CASE j = n + 1
    <3>1. u[j] = new /\ u[j - 1] = top
      BY <1>1, <1>2, <1>3, <2>1
    <3> QED  BY <3>1
  <2>2. CASE j \in 2..n
    <3>1. u[j] = t[j] /\ u[j - 1] = t[j - 1]
      BY <1>2, <1>3, <2>2
    <3> QED  BY <1>1, <1>3, <2>2, <3>1 DEF Shape, Linked
  <2> QED  BY <1>2, <1>3, <2>1, <2>2
<1>6. TailIsMarked(u)
  <2> SUFFICES ASSUME NEW i \in 1..Len(u), NEW k \in 1..Len(u), i < k,
                      Executes(u[i], Lambdas), u[k].is = "node",
                      \A m \in 1..Len(u) : i < m /\ m < k => Passes(u[m])
               PROVE  u[k].at \in Marked
    BY DEF TailIsMarked
  <2>0. i \in 1..n /\ u[i] = t[i]
    BY <1>2, <1>3
  <2>1. CASE k \in 1..n
    <3>1. u[k] = t[k] /\ i \in 1..Len(t) /\ k \in 1..Len(t)
      BY <1>1, <1>2, <2>0, <2>1
    <3>2. \A m \in 1..Len(t) : i < m /\ m < k => Passes(t[m])
      BY <1>1, <1>2, <1>3
    <3> QED  BY <1>3, <2>0, <3>1, <3>2 DEF Shape, TailIsMarked
  <2>2. CASE k = n + 1
    <3>1. u[k] = new
      BY <1>2, <2>2
    <3>2. CASE i = n
      BY <1>1, <2>0, <3>1, <3>2
    <3>3. CASE i < n
      <4>1. n \in 1..Len(u) /\ u[n] = top /\ Passes(top)
        BY <1>1, <1>2, <1>3, <2>2, <3>3
      <4>2. n \in 1..Len(t) /\ t[n].is = "node" /\ t[i] = u[i] /\ i \in 1..Len(t)
        BY <1>1, <1>3, <2>0, <4>1 DEF Passes, HandsOn
      <4>3. \A m \in 1..Len(t) : i < m /\ m < n => Passes(t[m])
        BY <1>1, <1>2, <1>3, <2>2
      <4>4. top.at \in Marked
        BY <1>1, <1>3, <3>3, <4>2, <4>3 DEF Shape, TailIsMarked
      <4> QED  BY <3>1, <4>1, <4>4
    <3> QED  BY <1>3, <2>0, <3>2, <3>3
  <2> QED  BY <1>2, <1>3, <2>1, <2>2
<1> QED
  BY <1>4, <1>5, <1>6 DEF Shape, t, u
-----------------------------------------------------------------------------
(* The three ways in which a step changes the stack.                       *)
\* The counters follow the change of the top frame to another, or its end.
Counted(new) ==
    /\ depth' = depth - One(Top, Lambdas) + One(new, Lambdas)
    /\ evalDepth' = evalDepth - One(Top, Evals) + One(new, Evals)
Uncounted ==
    /\ depth' = depth - One(Top, Lambdas)
    /\ evalDepth' = evalDepth - One(Top, Evals)

\* The top frame returns.
LEMMA LeaveInv ==
    ASSUME IInv, stack # <<>>, NEW r \in Results,
           Leave(r), r.is # "running", r.is = "tail" => r.fn \in Lambdas,
           Uncounted, cancelled' \in BOOLEAN
    PROVE  IInv'
<1>1. /\ Below \in Seq(Frames) /\ Top \in Frames /\ stack = Append(Below, Top)
      /\ Len(stack) \in Nat \ {0} /\ Len(Below) = Len(stack) - 1
      /\ \A i \in 1..Len(Below) : Below[i] = stack[i]
  BY SplitTop DEF IInv, TypeOK
<1>2. stack' = Below /\ result' = r
  BY DEF Leave
<1>3. \A fns : /\ Level(stack, fns) = Level(Below, fns) + One(Top, fns)
               /\ Level(Below, fns) \in Nat
  BY <1>1, LevelAppend
<1>4. depth' = Level(Below, Lambdas) /\ evalDepth' = Level(Below, Evals)
  <2>1. depth = Level(stack, Lambdas) /\ evalDepth = Level(stack, Evals)
    BY DEF IInv, CountersAreNesting
  <2>2. One(Top, Lambdas) \in {0, 1} /\ One(Top, Evals) \in {0, 1}
    BY <1>1, LevelAppend
  <2> QED  BY <1>3, <2>1, <2>2 DEF Uncounted
<1>5. TypeOK' /\ CountersAreNesting'
  BY <1>1, <1>2, <1>3, <1>4 DEF TypeOK, CountersAreNesting
<1>6. Shape(stack)'
  BY <1>1, <1>2, ShapePop DEF IInv
<1>7. (stack # <<>> /\ Top.is = "call" => Top.busy)'
  <2> SUFFICES ASSUME Below # <<>>, Below[Len(Below)].is = "call"
               PROVE  Below[Len(Below)].busy
    BY <1>2 DEF Top
  <2>1. Len(Below) \in 1..Len(stack) - 1 /\ Below[Len(Below)] = stack[Len(Below)]
    BY <1>1, EmptySeq
  <2> QED  BY <2>1 DEF IInv, Shape, InsideBusy
<1> QED
  BY <1>2, <1>5, <1>6, <1>7 DEF IInv

\* The top frame changes and goes on.
LEMMA TopInv ==
    ASSUME IInv, stack # <<>>, NEW new \in Frames,
           stack' = With(new), new.is = Top.is, new.at = Top.at,
           new.fn = Top.fn \/ Top.is # "call" \/ Top.fn \in Lambdas,
           NEW r \in Results, result' = r,
           r = Running \/ (r.is # "tail" /\ (new.is = "call" => new.busy)),
           Counted(new), cancelled' \in BOOLEAN
    PROVE  IInv'
<1>1. /\ Below \in Seq(Frames) /\ Top \in Frames /\ stack = Append(Below, Top)
  BY SplitTop DEF IInv, TypeOK
<1>2. stack' = Append(Below, new)
  BY DEF With
<1>3. /\ stack' \in Seq(Frames) /\ stack' # <<>> /\ Top' = new
  BY <1>1, <1>2, AppendFrame DEF Top
<1>4. depth' = Level(stack', Lambdas) /\ evalDepth' = Level(stack', Evals)
  <2>1. depth = Level(stack, Lambdas) /\ evalDepth = Level(stack, Evals)
    BY DEF IInv, CountersAreNesting
  <2>2. \A fns : /\ Level(stack, fns) = Level(Below, fns) + One(Top, fns)
                 /\ Level(stack', fns) = Level(Below, fns) + One(new, fns)
                 /\ Level(Below, fns) \in Nat
                 /\ One(Top, fns) \in {0, 1} /\ One(new, fns) \in {0, 1}
    BY <1>1, <1>2, LevelAppend
  <2> QED  BY <2>1, <2>2 DEF Counted
<1>5. \A fns : Level(stack', fns) \in Nat
  BY <1>3, LevelType
<1>6. TypeOK' /\ CountersAreNesting'
  BY <1>3, <1>4, <1>5 DEF TypeOK, CountersAreNesting
<1>7. Shape(stack)'
  BY <1>1, <1>2, ShapeTop DEF IInv
<1>8. r.is # "tail"
  <2>1. Running.is = "running"
    BY DEF Running
  <2> QED  BY <2>1
<1>9. (result # Running /\ stack # <<>> /\ Top.is = "call" => Top.busy)'
  BY <1>3
<1> QED
  BY <1>6, <1>7, <1>8, <1>9 DEF IInv

\* The top frame changes and another is put on it.
LEMMA PushInv ==
    ASSUME IInv, stack # <<>>, NEW top \in Frames, NEW new \in Frames,
           top.is = Top.is, top.at = Top.at,
           top.fn = Top.fn \/ Top.is # "call" \/ Top.fn \in Lambdas,
           stack' = Append(With(top), new), result' = Running,
           ~new.busy, top.is = "call" => top.busy,
           new.is = "call" => MayCall(top, new.fn),
           new.is = "node" /\ Executes(top, Lambdas) => new.at \in Marked,
           new.is = "node" /\ Passes(top) /\ top.at \in Marked => new.at \in Marked,
           Counted(top), cancelled' \in BOOLEAN
    PROVE  IInv'
<1>1. /\ Below \in Seq(Frames) /\ Top \in Frames /\ stack = Append(Below, Top)
  BY SplitTop DEF IInv, TypeOK
<1>2. With(top) = Append(Below, top) /\ With(top) \in Seq(Frames)
  BY <1>1 DEF With
<1>3. /\ stack' \in Seq(Frames) /\ stack' # <<>> /\ Top' = new
  BY <1>2, AppendFrame DEF Top
<1>4. depth' = Level(stack', Lambdas) /\ evalDepth' = Level(stack', Evals)
  <2>1. depth = Level(stack, Lambdas) /\ evalDepth = Level(stack, Evals)
    BY DEF IInv, CountersAreNesting
  <2>2. \A fns : /\ Level(stack, fns) = Level(Below, fns) + One(Top, fns)
                 /\ Level(With(top), fns) = Level(Below, fns) + One(top, fns)
                 /\ Level(stack', fns) = Level(With(top), fns) + One(new, fns)
                 /\ Level(Below, fns) \in Nat
                 /\ One(Top, fns) \in {0, 1} /\ One(top, fns) \in {0, 1}
    BY ZenonT(40), <1>1, <1>2, LevelAppend
  <2>3. \A fns : One(new, fns) = 0
    BY DEF One, Executes
  <2> QED  BY <2>1, <2>2, <2>3 DEF Counted
<1>5. \A fns : Level(stack', fns) \in Nat
  BY <1>3, LevelType
<1>6. Running \in Results /\ Running.is = "running"
  BY DEF Running, Results
<1>7. TypeOK' /\ CountersAreNesting'
  BY <1>3, <1>4, <1>5, <1>6 DEF TypeOK, CountersAreNesting
<1>8. Shape(Append(Below, top))
  BY <1>1, ShapeTop DEF IInv
<1>9. Shape(stack)'
  BY <1>1, <1>2, <1>8, ShapePush
<1> QED
  BY <1>6, <1>7, <1>9 DEF IInv

\* Eval either enters the node or finds the context cancelled.
LEMMA EnterInv ==
    ASSUME IInv, stack # <<>>, NEW top \in Frames, NEW new \in Frames,
           top.is = Top.is, top.at = Top.at, top.fn = Top.fn,
           Enter(new, With(top)),
           ~new.busy, new.is # "call", top.is = "call" => top.busy,
           new.is = "node" /\ Executes(top, Lambdas) => new.at \in Marked,
           new.is = "node" /\ Passes(top) /\ top.at \in Marked => new.at \in Marked,
           Counted(top), cancelled' \in BOOLEAN
    PROVE  IInv'
<1>1. CASE cancelled
  <2>1. Error("cancelled") \in Results /\ Error("cancelled").is = "error"
    BY DEF Error, Results, Codes
  <2>2. stack' = With(top) /\ result' = Error("cancelled")
    BY <1>1 DEF Enter
  <2> QED  BY <2>1, <2>2, TopInv
<1>2. CASE ~cancelled
  <2>1. stack' = Append(With(top), new) /\ result' = Running
    BY <1>2 DEF Enter
  <2> QED  BY <2>1, PushInv
<1> QED
  BY <1>1, <1>2
-----------------------------------------------------------------------------
(* What the actions need to know.                                          *)

LEMMA MarkedIsClosed ==
    /\ Marked \subseteq Nodes
    /\ \A f \in Lambdas : Body[f] \in Marked
    /\ \A m \in Marked : TailKids(m) \subseteq Marked
<1>1. Marked \subseteq Nodes
  BY DEF Marked
<1>2. \A f \in Lambdas : Body[f] \in Marked
  BY FunctionAssumption DEF Marked, Closed
<1>3. ASSUME NEW m \in Marked PROVE TailKids(m) \subseteq Marked
  <2>1. m \in Nodes /\ Kids[m] \in Seq(Nodes) /\ Len(Kids[m]) \in Nat
    BY <1>1, TreeAssumption
  <2>2. \A i \in 1..Len(Kids[m]) : Kids[m][i] \in Nodes
    BY <2>1, ElementOfSeq
  <2>3. TailKids(m) \subseteq Nodes
    BY <2>1, <2>2, TreeAssumption DEF TailKids
  <2>4. \A S \in SUBSET Nodes : Closed(S) => TailKids(m) \subseteq S
    BY DEF Closed, Marked
  <2> QED  BY <2>3, <2>4 DEF Marked
<1> QED
  BY <1>1, <1>2, <1>3

\* A frame that executes neither a lambda nor $eval does not count.
LEMMA CountedSame ==
    ASSUME IInv, NEW new,
           \/ new.is # "call" /\ Top.is # "call"
           \/ new.is = Top.is /\ new.busy = Top.busy /\ new.fn = Top.fn
           \/ /\ ~Executes(Top, Lambdas) /\ ~Executes(Top, Evals)
              /\ ~Executes(new, Lambdas) /\ ~Executes(new, Evals),
           UNCHANGED <<depth, evalDepth>>
    PROVE  Counted(new)
<1>1. One(new, Lambdas) = One(Top, Lambdas) /\ One(new, Evals) = One(Top, Evals)
  BY DEF One, Executes
<1>2. One(Top, Lambdas) \in {0, 1} /\ One(Top, Evals) \in {0, 1}
  BY DEF One
<1>3. depth \in Nat /\ evalDepth \in Nat
  BY DEF IInv, TypeOK
<1>4. depth' = depth /\ evalDepth' = evalDepth
  OBVIOUS
<1>5. depth' = depth - One(Top, Lambdas) + One(new, Lambdas)
  BY <1>1, <1>2, <1>3, <1>4
<1>6. evalDepth' = evalDepth - One(Top, Evals) + One(new, Evals)
  BY <1>1, <1>2, <1>3, <1>4
<1> QED
  BY <1>5, <1>6 DEF Counted

LEMMA UncountedSame ==
    ASSUME IInv, ~Executes(Top, Lambdas), ~Executes(Top, Evals),
           UNCHANGED <<depth, evalDepth>>
    PROVE  Uncounted
<1>1. One(Top, Lambdas) = 0 /\ One(Top, Evals) = 0
  BY DEF One
<1>2. depth \in Nat /\ evalDepth \in Nat /\ depth' = depth /\ evalDepth' = evalDepth
  BY DEF IInv, TypeOK
<1> QED
  BY <1>1, <1>2 DEF Uncounted

\* The frames and results that the actions make are of their types.
LEMMA Types ==
    /\ Running \in Results /\ Running.is = "running"
    /\ Value \in Results /\ Value.is = "value"
    /\ \A code \in Codes : Error(code) \in Results /\ Error(code).is = "error"
    /\ \A r \in Results : r.is = "running" => r = Running
    /\ \A f \in Lambdas : TailCall(f) \in Results /\ TailCall(f).is = "tail" /\ TailCall(f).fn = f
    /\ \A n \in Nodes : /\ NodeFrame(n) \in Frames /\ NodeFrame(n).is = "node"
                        /\ NodeFrame(n).at = n /\ ~NodeFrame(n).busy
    /\ \A n \in Nodes : /\ Visit(n) \in Frames /\ Visit(n).is \in {"node", "group"}
                        /\ Visit(n).at = n /\ ~Visit(n).busy
    /\ \A f \in Fns, n \in Nodes : /\ CallFrame(f, n) \in Frames
                                   /\ CallFrame(f, n).is = "call" /\ CallFrame(f, n).fn = f
                                   /\ ~CallFrame(f, n).busy
<1>1. /\ Running \in Results /\ Running.is = "running"
      /\ Value \in Results /\ Value.is = "value"
      /\ \A code \in Codes : Error(code) \in Results /\ Error(code).is = "error"
      /\ \A r \in Results : r.is = "running" => r = Running
      /\ \A f \in Lambdas : TailCall(f) \in Results /\ TailCall(f).is = "tail" /\ TailCall(f).fn = f
  <2>1. Running.is = "running" /\ Value.is = "value"
    BY DEF Running, Value
  <2>2. \A code : Error(code).is = "error"
    BY DEF Error
  <2>3. \A f : TailCall(f).is = "tail" /\ TailCall(f).fn = f
    BY DEF TailCall
  <2>4. /\ Running \in Results /\ Value \in Results
        /\ \A code \in Codes : Error(code) \in Results
        /\ \A f \in Lambdas : TailCall(f) \in Results
    BY DEF Results
  <2>5. ASSUME NEW r \in Results, r.is = "running" PROVE r = Running
    <3>1. r # Value
      BY <2>1, <2>5
    <3>2. \A code \in Codes : r # Error(code)
      BY <2>2, <2>5
    <3>3. \A f \in Lambdas : r # TailCall(f)
      BY <2>3, <2>5
    <3> QED  BY <3>1, <3>2, <3>3 DEF Results
  <2> QED  BY <2>1, <2>2, <2>3, <2>4, <2>5
<1>2. /\ \A n \in Nodes : /\ NodeFrame(n) \in Frames /\ NodeFrame(n).is = "node"
                          /\ NodeFrame(n).at = n /\ ~NodeFrame(n).busy
      /\ \A n \in Nodes : /\ Visit(n) \in Frames /\ Visit(n).is \in {"node", "group"}
                          /\ Visit(n).at = n /\ ~Visit(n).busy
      /\ \A f \in Fns, n \in Nodes : /\ CallFrame(f, n) \in Frames
                                     /\ CallFrame(f, n).is = "call" /\ CallFrame(f, n).fn = f
                                     /\ ~CallFrame(f, n).busy
  BY DEF Fns, NodeFrame, Visit, CallFrame, Frames
<1> QED
  BY <1>1, <1>2

\* The frame on top.
LEMMA TopType ==
    ASSUME IInv, stack # <<>>
    PROVE  /\ Top \in Frames /\ Stepped \in Frames
           /\ Top.at \in Nodes /\ Top.fn \in Fns /\ Top.step \in Nat
           /\ Stepped.is = Top.is /\ Stepped.at = Top.at /\ Stepped.fn = Top.fn
           /\ Stepped.busy = Top.busy /\ Stepped.step = Top.step + 1
           /\ stack = With(Top) /\ result \in Results
<1>1. Top \in Frames /\ stack = With(Top)
  BY SplitTop DEF IInv, TypeOK, With
<1>2. result \in Results
  BY DEF IInv, TypeOK
<1>3. Top.at \in Nodes /\ Top.fn \in Fns /\ Top.step \in Nat
  BY <1>1 DEF Frames
<1>4. ASSUME NEW fr \in Frames
      PROVE  LET next == [fr EXCEPT !.step = @ + 1] IN
             /\ next \in Frames /\ next.is = fr.is /\ next.at = fr.at
             /\ next.fn = fr.fn /\ next.busy = fr.busy /\ next.step = fr.step + 1
  BY DEF Frames
<1> QED
  BY <1>1, <1>2, <1>3, <1>4 DEF Stepped
-----------------------------------------------------------------------------
(* Each action preserves the invariant.                                    *)

\* A node, a group, or a call that has not begun returns.
LEMMA ReturnInv ==
    ASSUME IInv, stack # <<>>, NEW r \in Results, Leave(r), r.is # "running",
           r.is = "tail" => r.fn \in Lambdas,
           Top.is # "call" \/ ~Top.busy \/ Top.fn \in Builtins,
           UNCHANGED <<depth, evalDepth>>, cancelled' \in BOOLEAN
    PROVE  IInv'
<1>1. ~Executes(Top, Lambdas) /\ ~Executes(Top, Evals)
  BY FunctionAssumption DEF Executes
<1>2. Uncounted
  BY <1>1, UncountedSame
<1> QED
  BY <1>2, LeaveInv

\* A node, a group or a builtin goes on with a new top frame.
LEMMA GoOnInv ==
    ASSUME IInv, stack # <<>>, NEW new \in Frames, stack' = With(new),
           new.is = Top.is, new.at = Top.at, new.busy = Top.busy,
           new.fn = Top.fn \/ Top.is # "call",
           result' = Running,
           UNCHANGED <<depth, evalDepth>>, cancelled' \in BOOLEAN
    PROVE  IInv'
<1>1. Counted(new)
  BY CountedSame
<1> QED
  BY <1>1, Types, TopInv

LEMMA DescendInv == ASSUME IInv, Descend PROVE IInv'
<1>1. /\ stack # <<>> /\ Top.is = "node" /\ ~Top.busy
      /\ UNCHANGED <<depth, evalDepth, cancelled>>
  BY DEF Descend, At
<1>2. PICK i \in Operands(Top) : Enter(Visit(Kids[Top.at][i]), With(Stepped))
  BY DEF Descend
<1>3. TypeOK /\ cancelled' \in BOOLEAN
  BY <1>1 DEF IInv, TypeOK
<1>4. /\ Stepped \in Frames /\ Stepped.is = "node" /\ Stepped.at = Top.at
      /\ Stepped.fn = Top.fn /\ Stepped.step = Top.step + 1
      /\ ~Stepped.busy /\ Top.at \in Nodes /\ Top.step \in Nat
  BY <1>1, TopType
<1> DEFINE kids == Kids[Top.at]
<1>5. /\ kids \in Seq(Nodes) /\ Len(kids) \in Nat
      /\ Kind[Top.at] = "bind" => Len(kids) = 1
      /\ Kind[Top.at] = "condition" => Len(kids) \in 2..3
  BY <1>4, TreeAssumption
<1>6. i \in 1..Len(kids)
  BY <1>2, <1>4, <1>5 DEF Operands
<1>7. kids[i] \in Nodes
  BY <1>5, <1>6, ElementOfSeq
<1>8. Passes(Stepped) /\ Stepped.at \in Marked => kids[i] \in Marked
  <2> SUFFICES ASSUME Passes(Stepped), Top.at \in Marked
               PROVE  kids[i] \in TailKids(Top.at)
    BY <1>4, MarkedIsClosed
  <2>1. CASE Kind[Top.at] = "block"
    <3>1. Top.step + 1 = Len(kids) /\ i = Top.step + 1
      BY <1>2, <1>4, <2>1 DEF Passes, HandsOn, Operands
    <3> QED  BY <1>4, <2>1, <3>1 DEF TailKids
  <2>2. CASE Kind[Top.at] = "condition"
    <3>1. Top.step = 1
      BY <1>4, <2>2 DEF Passes, HandsOn, IsCallNode
    <3>2. i \in 2..Len(kids)
      BY <1>2, <2>2, <3>1 DEF Operands
    <3> QED  BY <2>2, <3>2 DEF TailKids
  <2>3. CASE Kind[Top.at] = "bind"
    <3>0. Len(kids) = 1
      BY <1>5, <2>3
    <3>1. i = 1
      BY <1>6, <3>0
    <3> QED  BY <2>3, <3>1 DEF TailKids
  <2>4. Kind[Top.at] \in {"block", "condition", "bind"}
    BY <1>4 DEF Passes, HandsOn
  <2> QED  BY <2>1, <2>2, <2>3, <2>4
<1>9. Counted(Stepped)
  BY <1>1, <1>4, CountedSame
<1>10. /\ Visit(kids[i]) \in Frames /\ Visit(kids[i]).is # "call"
       /\ Visit(kids[i]).at = kids[i] /\ ~Visit(kids[i]).busy
  BY <1>7, Types
<1>11. ~Executes(Stepped, Lambdas)
  BY <1>4 DEF Executes
<1> HIDE DEF kids
<1>12. Enter(Visit(kids[i]), With(Stepped))
  BY <1>2 DEF kids
<1> QED
  BY <1>1, <1>3, <1>4, <1>8, <1>9, <1>10, <1>11, <1>12, EnterInv

LEMMA DescendGroupInv == ASSUME IInv, DescendGroup PROVE IInv'
<1>1. /\ stack # <<>> /\ Top.is = "group"
      /\ UNCHANGED <<depth, evalDepth, cancelled>>
  BY DEF DescendGroup, At
<1>2. cancelled' \in BOOLEAN
  BY <1>1 DEF IInv, TypeOK
<1>3. Top \in Frames /\ Top.at \in Nodes /\ Top.step \in Nat /\ Stepped \in Frames
  BY <1>1, TopType
<1>4. \A m \in Nat : [Top EXCEPT !.step = m] \in Frames
  BY <1>3 DEF Frames
<1>5. \E m \in Nat : \E new \in Frames :
        new.is # "call" /\ ~new.busy /\ Enter(new, With([Top EXCEPT !.step = m]))
  <2>1. CASE Top.step = 0
    <3>1. Stepped = [Top EXCEPT !.step = Top.step + 1] /\ Top.step + 1 \in Nat
      BY <1>3 DEF Stepped
    <3> QED  BY <1>3, <2>1, <3>1, Types DEF DescendGroup
  <2>2. CASE Top.step # 0
    <3>1. PICK i \in Top.step..Len(Pairs[Top.at]) :
            Enter(Visit(Pairs[Top.at][i]), With([Top EXCEPT !.step = i + 1]))
      BY <2>2 DEF DescendGroup
    <3>2. Pairs[Top.at] \in Seq(Nodes) /\ i \in 1..Len(Pairs[Top.at])
      BY <1>3, <2>2, <3>1, TreeAssumption
    <3>3. Pairs[Top.at][i] \in Nodes /\ i + 1 \in Nat
      BY <3>2, ElementOfSeq
    <3> QED  BY <3>1, <3>3, Types
  <2> QED  BY <2>1, <2>2
<1>6. PICK m \in Nat : \E new \in Frames :
        new.is # "call" /\ ~new.busy /\ Enter(new, With([Top EXCEPT !.step = m]))
  BY <1>5
<1> DEFINE top == [Top EXCEPT !.step = m]
<1>7. /\ top \in Frames /\ top.is = "group" /\ top.at = Top.at /\ top.fn = Top.fn
  BY <1>1, <1>3, <1>4 DEF Frames
<1> HIDE DEF top
<1>8. ~Executes(top, Lambdas) /\ ~Passes(top)
  BY <1>7 DEF Executes, Passes, HandsOn
<1>9. Counted(top)
  BY <1>1, <1>7, CountedSame
<1>10. \E new \in Frames : new.is # "call" /\ ~new.busy /\ Enter(new, With(top))
  BY <1>6 DEF top
<1> QED
  BY <1>1, <1>2, <1>7, <1>8, <1>9, <1>10, EnterInv

LEMMA FinishInv == ASSUME IInv, Finish PROVE IInv'
<1>1. /\ stack # <<>> /\ Top.is # "call"
      /\ UNCHANGED <<depth, evalDepth, cancelled>>
  BY DEF Finish, At
<1>2. cancelled' \in BOOLEAN
  BY <1>1 DEF IInv, TypeOK
<1>3. \E r \in Results : Leave(r) /\ r.is \in {"value", "error"}
  BY Types DEF Finish, Codes
<1> QED
  BY <1>1, <1>2, <1>3, ReturnInv

LEMMA ReceiveInv == ASSUME IInv, Receive PROVE IInv'
<1>1. /\ stack # <<>> /\ Top.is = "node" /\ result.is \in {"value", "tail"}
      /\ UNCHANGED <<depth, evalDepth, cancelled>>
  BY DEF Receive, Returned
<1>2. cancelled' \in BOOLEAN /\ (result.is = "tail" => result.fn \in Lambdas)
  BY <1>1 DEF IInv, TypeOK
<1>3. CASE HandsOn(Top)
  BY <1>1, <1>2, <1>3, TopType, ReturnInv DEF Receive
<1>4. CASE ~HandsOn(Top) /\ stack' = stack
  <2>1. stack' = With(Top) /\ Top \in Frames /\ result' = Running
    BY <1>1, <1>4, TopType DEF Receive
  <2> QED  BY <1>1, <1>2, <2>1, GoOnInv
<1>5. ASSUME ~HandsOn(Top), NEW f \in Callee[Top.at],
             stack' = With([Top EXCEPT !.fn = f])
      PROVE  IInv'
  <2>1. f \in Fns /\ Top \in Frames
    BY <1>1, TopType, TreeAssumption
  <2>2. /\ [Top EXCEPT !.fn = f] \in Frames
        /\ [Top EXCEPT !.fn = f].is = Top.is /\ [Top EXCEPT !.fn = f].at = Top.at
        /\ [Top EXCEPT !.fn = f].busy = Top.busy
    BY <2>1 DEF Frames
  <2>3. result' = Running
    BY <1>5 DEF Receive
  <2> QED  BY <1>1, <1>2, <1>5, <2>2, <2>3, GoOnInv
<1> QED
  BY <1>3, <1>4, <1>5 DEF Receive

LEMMA NoDefinitionInv == ASSUME IInv, NoDefinition PROVE IInv'
<1>1. /\ stack # <<>> /\ Top.is = "node" /\ Leave(Error("T1005"))
      /\ UNCHANGED <<depth, evalDepth, cancelled>>
  BY DEF NoDefinition, Returned
<1>2. cancelled' \in BOOLEAN
  BY <1>1 DEF IInv, TypeOK
<1>3. Error("T1005") \in Results /\ Error("T1005").is = "error"
  BY Types DEF Codes
<1> QED
  BY <1>1, <1>2, <1>3, ReturnInv

LEMMA ReceiveGroupInv == ASSUME IInv, ReceiveGroup PROVE IInv'
<1>1. /\ stack # <<>> /\ Top.is = "group" /\ result' = Running
      /\ UNCHANGED <<stack, depth, evalDepth, cancelled>>
  BY DEF ReceiveGroup, Returned
<1>2. cancelled' \in BOOLEAN
  BY <1>1 DEF IInv, TypeOK
<1>3. stack' = With(Top) /\ Top \in Frames
  BY <1>1, TopType
<1> QED
  BY <1>1, <1>2, <1>3, GoOnInv

LEMMA PropagateInv == ASSUME IInv, Propagate PROVE IInv'
<1>1. /\ stack # <<>> /\ Top.is \in {"node", "group"} /\ result.is = "error"
      /\ UNCHANGED <<depth, evalDepth, cancelled>>
  BY DEF Propagate, Returned
<1>2. cancelled' \in BOOLEAN
  BY <1>1 DEF IInv, TypeOK
<1>3. CASE Leave(result)
  BY <1>1, <1>2, <1>3, TopType, ReturnInv
<1>4. CASE stack' = With([Top EXCEPT !.fn = Undefined]) /\ result' = Running
  <2>1. Top \in Frames /\ Undefined \in Fns
    BY <1>1, TopType DEF Fns
  <2>2. /\ [Top EXCEPT !.fn = Undefined] \in Frames
        /\ [Top EXCEPT !.fn = Undefined].is = Top.is
        /\ [Top EXCEPT !.fn = Undefined].at = Top.at
        /\ [Top EXCEPT !.fn = Undefined].busy = Top.busy
    BY <2>1 DEF Frames
  <2> QED  BY <1>1, <1>2, <1>4, <2>2, GoOnInv
<1> QED
  BY <1>3, <1>4 DEF Propagate

LEMMA InvokeInv == ASSUME IInv, Invoke PROVE IInv'
<1>1. /\ stack # <<>> /\ Top.is = "node" /\ IsCallNode(Top.at)
      /\ UNCHANGED <<depth, evalDepth, cancelled>>
  BY DEF Invoke, At
<1>2. cancelled' \in BOOLEAN
  BY <1>1 DEF IInv, TypeOK
<1>3. Top \in Frames /\ Top.fn \in Fns /\ Top.at \in Nodes
  BY <1>1, TopType
<1>4. CASE Thunk(Top.at) /\ Top.fn \in Lambdas
  BY <1>1, <1>2, <1>3, <1>4, Types, ReturnInv DEF Invoke
<1>5. CASE ~(Thunk(Top.at) /\ Top.fn \in Lambdas)
  <2> DEFINE top == [Top EXCEPT !.busy = TRUE]
             new == CallFrame(Top.fn, Top.at)
  <2>1. top \in Frames /\ top.is = "node" /\ top.at = Top.at /\ top.fn = Top.fn
    BY <1>1, <1>3 DEF Frames
  <2>2. stack' = Append(With(top), new) /\ result' = Running
    BY <1>5 DEF Invoke, EnterCall
  <2>3. new \in Frames /\ new.is = "call" /\ new.fn = Top.fn /\ ~new.busy
    BY <1>3, Types
  <2> HIDE DEF top, new
  <2>4. MayCall(top, new.fn)
    BY <1>1, <1>5, <2>1, <2>3 DEF MayCall
  <2>5. Counted(top)
    BY <1>1, <2>1, CountedSame
  <2> QED  BY <1>1, <1>2, <2>1, <2>2, <2>3, <2>4, <2>5, PushInv
<1> QED
  BY <1>4, <1>5

LEMMA CallRefusedInv == ASSUME IInv, CallRefused PROVE IInv'
<1>1. /\ stack # <<>> /\ ~Top.busy /\ UNCHANGED <<depth, evalDepth, cancelled>>
  BY DEF CallRefused, At
<1>2. cancelled' \in BOOLEAN
  BY <1>1 DEF IInv, TypeOK
<1>3. \E r \in Results : Leave(r) /\ r.is = "error"
  BY Types DEF CallRefused, Codes
<1> QED
  BY <1>1, <1>2, <1>3, ReturnInv

\* The frame of a function that begins: it counts if the function is one of fns.
LEMMA Begins ==
    ASSUME IInv, stack # <<>>, Top.is = "call", ~Top.busy
    PROVE  LET top == [Top EXCEPT !.busy = TRUE] IN
           /\ top \in Frames /\ top.is = "call" /\ top.at = Top.at
           /\ top.fn = Top.fn /\ top.busy /\ ~Passes(top)
           /\ \A fns : One(Top, fns) = 0
           /\ \A fns : Top.fn \in fns => One(top, fns) = 1
           /\ \A fns : Top.fn \notin fns => One(top, fns) = 0
           /\ Executes(top, Lambdas) => Top.fn \in Lambdas
<1> DEFINE top == [Top EXCEPT !.busy = TRUE]
<1>1. Top \in Frames
  BY TopType
<1>2. /\ top \in Frames /\ top.is = "call" /\ top.at = Top.at
      /\ top.fn = Top.fn /\ top.busy
  BY <1>1 DEF Frames
<1> HIDE DEF top
<1>3. \A fns : ~Executes(Top, fns) /\ (Executes(top, fns) <=> Top.fn \in fns)
  BY <1>2 DEF Executes
<1>4. ~Passes(top)
  BY <1>2 DEF Passes, HandsOn
<1> QED
  BY <1>2, <1>3, <1>4 DEF One, top

LEMMA ApplyLambdaInv == ASSUME IInv, ApplyLambda PROVE IInv'
<1>1. /\ stack # <<>> /\ Top.is = "call" /\ ~Top.busy /\ Top.fn \in Lambdas
      /\ UNCHANGED <<evalDepth, cancelled>>
  BY DEF ApplyLambda, Applying, At
<1>2. cancelled' \in BOOLEAN /\ depth \in Nat /\ evalDepth \in Nat
  BY <1>1 DEF IInv, TypeOK
<1>3. CASE depth + 1 > MaxDepth
  <2>1. Error("U1001") \in Results /\ Error("U1001").is = "error"
    BY Types DEF Codes
  <2>2. Leave(Error("U1001")) /\ UNCHANGED depth
    BY <1>3 DEF ApplyLambda
  <2> QED  BY <1>1, <1>2, <2>1, <2>2, ReturnInv
<1>4. CASE ~(depth + 1 > MaxDepth)
  <2> DEFINE top == [Top EXCEPT !.busy = TRUE]
             new == Visit(Body[Top.fn])
  <2>1. Enter(new, With(top)) /\ depth' = depth + 1
    BY <1>4 DEF ApplyLambda
  <2>2. Body[Top.fn] \in Marked /\ Body[Top.fn] \in Nodes
    BY <1>1, MarkedIsClosed
  <2>3. new \in Frames /\ new.is # "call" /\ new.at \in Marked /\ ~new.busy
    BY <2>2, Types
  <2>4. Top.fn \notin Evals
    BY <1>1, FunctionAssumption
  <2>5. /\ top \in Frames /\ top.is = Top.is /\ top.at = Top.at
        /\ top.fn = Top.fn /\ top.busy
        /\ One(Top, Lambdas) = 0 /\ One(Top, Evals) = 0
        /\ One(top, Lambdas) = 1 /\ One(top, Evals) = 0
    BY <1>1, <2>4, Begins
  <2> HIDE DEF top, new
  <2>6. Counted(top)
    BY <1>1, <1>2, <2>1, <2>5 DEF Counted
  <2> QED  BY <1>1, <1>2, <2>1, <2>3, <2>5, <2>6, EnterInv
<1> QED
  BY <1>3, <1>4

LEMMA ArgumentsEndInv == ASSUME IInv, ArgumentsEnd PROVE IInv'
<1>1. /\ stack # <<>> /\ ~Top.busy /\ UNCHANGED <<depth, evalDepth, cancelled>>
  BY DEF ArgumentsEnd, Applying, At
<1>2. cancelled' \in BOOLEAN
  BY <1>1 DEF IInv, TypeOK
<1>3. \E r \in Results : Leave(r) /\ r.is \in {"error", "value"}
  BY Types DEF ArgumentsEnd, Codes
<1> QED
  BY <1>1, <1>2, <1>3, ReturnInv

LEMMA ApplyEvalInv == ASSUME IInv, ApplyEval PROVE IInv'
<1>1. /\ stack # <<>> /\ Top.is = "call" /\ ~Top.busy /\ Top.fn \in Evals
      /\ UNCHANGED <<depth, cancelled>>
  BY DEF ApplyEval, Applying, At
<1>2. cancelled' \in BOOLEAN /\ depth \in Nat /\ evalDepth \in Nat
  BY <1>1 DEF IInv, TypeOK
<1>3. CASE evalDepth + 1 > MaxEval
  <2>1. Error("D3121") \in Results /\ Error("D3121").is = "error"
    BY Types DEF Codes
  <2>2. Leave(Error("D3121")) /\ UNCHANGED evalDepth
    BY <1>3 DEF ApplyEval
  <2> QED  BY <1>1, <1>2, <2>1, <2>2, ReturnInv
<1>4. CASE ~(evalDepth + 1 > MaxEval)
  <2> DEFINE top == [Top EXCEPT !.busy = TRUE]
             new == Visit(Tree[Top.fn])
  <2>1. Enter(new, With(top)) /\ evalDepth' = evalDepth + 1
    BY <1>4 DEF ApplyEval
  <2>2. Tree[Top.fn] \in Nodes /\ Top.fn \notin Lambdas
    BY <1>1, FunctionAssumption
  <2>3. new \in Frames /\ new.is # "call" /\ ~new.busy
    BY <2>2, Types
  <2>4. /\ top \in Frames /\ top.is = Top.is /\ top.at = Top.at
        /\ top.fn = Top.fn /\ top.busy /\ ~Passes(top) /\ ~Executes(top, Lambdas)
        /\ One(Top, Lambdas) = 0 /\ One(Top, Evals) = 0
        /\ One(top, Lambdas) = 0 /\ One(top, Evals) = 1
    BY <1>1, <2>2, Begins
  <2> HIDE DEF top, new
  <2>5. Counted(top)
    BY <1>1, <1>2, <2>1, <2>4 DEF Counted
  <2> QED  BY <1>1, <1>2, <2>1, <2>3, <2>4, <2>5, EnterInv
<1> QED
  BY <1>3, <1>4

LEMMA ApplyBuiltinInv == ASSUME IInv, ApplyBuiltin PROVE IInv'
<1> DEFINE new == [Top EXCEPT !.busy = TRUE, !.step = 0]
<1>1. /\ stack # <<>> /\ Top.is = "call" /\ ~Top.busy /\ Top.fn \in Builtins
      /\ stack' = With(new) /\ result' = Running
      /\ UNCHANGED <<depth, evalDepth, cancelled>>
  BY DEF ApplyBuiltin, Applying, At
<1>2. cancelled' \in BOOLEAN
  BY <1>1 DEF IInv, TypeOK
<1>3. Top \in Frames
  BY <1>1, TopType
<1>4. new \in Frames /\ new.is = Top.is /\ new.at = Top.at /\ new.fn = Top.fn
  BY <1>3 DEF Frames
<1> HIDE DEF new
<1>5. Counted(new)
  <2>1. /\ ~Executes(Top, Lambdas) /\ ~Executes(Top, Evals)
        /\ ~Executes(new, Lambdas) /\ ~Executes(new, Evals)
    BY <1>1, <1>4, FunctionAssumption DEF Executes
  <2> QED  BY <1>1, <2>1, CountedSame
<1> QED
  BY <1>1, <1>2, <1>4, <1>5, Types, TopInv

LEMMA CallbackInv == ASSUME IInv, Callback PROVE IInv'
<1>1. /\ stack # <<>> /\ Top.is = "call" /\ Top.busy /\ Top.fn \in Builtins
      /\ UNCHANGED <<depth, evalDepth, cancelled>>
  BY DEF Callback, At
<1>2. PICK f \in Callbacks[Top.fn] : EnterCall(f, With(Stepped))
  BY DEF Callback
<1>3. cancelled' \in BOOLEAN
  BY <1>1 DEF IInv, TypeOK
<1>4. /\ Stepped \in Frames /\ Stepped.is = "call" /\ Stepped.at = Top.at
      /\ Stepped.fn = Top.fn /\ Stepped.busy /\ Top.at \in Nodes
  BY <1>1, TopType
<1>5. f \in Fns
  BY <1>1, FunctionAssumption
<1> DEFINE new == CallFrame(f, Top.at)
<1>6. /\ new \in Frames /\ new.is = "call" /\ new.fn = f /\ ~new.busy
      /\ stack' = Append(With(Stepped), new) /\ result' = Running
  BY <1>2, <1>4, <1>5, Types DEF EnterCall
<1> HIDE DEF new
<1>7. MayCall(Stepped, new.fn)
  BY <1>1, <1>4 DEF MayCall, Executes
<1>8. Counted(Stepped)
  BY <1>1, <1>4, CountedSame
<1> QED
  BY <1>1, <1>3, <1>4, <1>6, <1>7, <1>8, PushInv

LEMMA ReturnBuiltinInv == ASSUME IInv, ReturnBuiltin PROVE IInv'
<1>1. /\ stack # <<>> /\ Top.fn \in Builtins
      /\ UNCHANGED <<depth, evalDepth, cancelled>>
  BY DEF ReturnBuiltin, At
<1>2. cancelled' \in BOOLEAN
  BY <1>1 DEF IInv, TypeOK
<1>3. \E r \in Results : Leave(r) /\ r.is \in {"error", "value"}
  BY Types DEF ReturnBuiltin, Codes
<1> QED
  BY <1>1, <1>2, <1>3, ReturnInv

LEMMA BackToBuiltinInv == ASSUME IInv, BackToBuiltin PROVE IInv'
<1>1. /\ stack # <<>> /\ Top.is = "call" /\ Top.fn \in Builtins
      /\ UNCHANGED <<depth, evalDepth, cancelled>>
  BY DEF BackToBuiltin, Returned
<1>2. cancelled' \in BOOLEAN
  BY <1>1 DEF IInv, TypeOK
<1>3. CASE result.is = "error"
  BY <1>1, <1>2, <1>3, TopType, ReturnInv DEF BackToBuiltin
<1>4. CASE result.is # "error"
  <2>1. stack' = With(Top) /\ Top \in Frames /\ result' = Running
    BY <1>1, <1>4, TopType DEF BackToBuiltin
  <2> QED  BY <1>1, <1>2, <2>1, GoOnInv
<1> QED
  BY <1>3, <1>4

LEMMA BackToLambdaInv == ASSUME IInv, BackToLambda PROVE IInv'
<1>1. /\ stack # <<>> /\ Top.is = "call" /\ Top.fn \in Lambdas /\ result # Running
      /\ depth' = depth - 1 /\ UNCHANGED <<evalDepth, cancelled>>
  BY DEF BackToLambda, Returned
<1>2. /\ cancelled' \in BOOLEAN /\ depth \in Nat /\ evalDepth \in Nat /\ Top.busy
      /\ result.is = "tail" => result.fn \in Lambdas
  BY <1>1 DEF IInv, TypeOK
<1>3. One(Top, Lambdas) = 1 /\ One(Top, Evals) = 0
  <2>1. Executes(Top, Lambdas) /\ ~Executes(Top, Evals)
    BY <1>1, <1>2, FunctionAssumption DEF Executes
  <2> QED  BY <2>1 DEF One
<1>4. ASSUME NEW r \in Results, Leave(r), r.is \notin {"running", "tail"}
      PROVE  IInv'
  <2>1. Uncounted
    BY <1>1, <1>2, <1>3 DEF Uncounted
  <2> QED  BY <1>1, <1>2, <1>4, <2>1, LeaveInv
<1>5. CASE result.is # "tail"
  <2>1. result \in Results /\ result.is # "running"
    BY <1>1, TopType, Types
  <2>2. Leave(result)
    BY <1>5 DEF BackToLambda
  <2> QED  BY <1>4, <1>5, <2>1, <2>2
<1>6. CASE result.is = "tail" /\ Top.step + 1 > MaxIter
  <2>1. Error("U1001") \in Results /\ Error("U1001").is = "error"
    BY Types DEF Codes
  <2>2. Leave(Error("U1001"))
    BY <1>6 DEF BackToLambda
  <2> QED  BY <1>4, <2>1, <2>2
<1>7. CASE result.is = "tail" /\ ~(Top.step + 1 > MaxIter)
  <2> DEFINE new == [Stepped EXCEPT !.fn = result.fn, !.busy = FALSE]
  <2>1. stack' = With(new) /\ result' = Running
    BY <1>7 DEF BackToLambda
  <2>2. Stepped \in Frames /\ result.fn \in Fns /\ Stepped.is = Top.is /\ Stepped.at = Top.at
    BY <1>1, <1>2, <1>7, TopType DEF Fns
  <2>3. new \in Frames /\ new.is = Top.is /\ new.at = Top.at /\ ~new.busy
    BY <2>2 DEF Frames
  <2> HIDE DEF new
  <2>4. One(new, Lambdas) = 0 /\ One(new, Evals) = 0
    BY <2>3 DEF One, Executes
  <2>5. Counted(new)
    BY <1>1, <1>2, <1>3, <2>4 DEF Counted
  <2> QED  BY <1>1, <1>2, <2>1, <2>3, <2>5, Types, TopInv
<1> QED
  BY <1>5, <1>6, <1>7

LEMMA BackToEvalInv == ASSUME IInv, BackToEval PROVE IInv'
<1>1. /\ stack # <<>> /\ Top.is = "call" /\ Top.fn \in Evals /\ result # Running
      /\ evalDepth' = evalDepth - 1 /\ UNCHANGED <<depth, cancelled>>
  BY DEF BackToEval, Returned
<1>2. /\ cancelled' \in BOOLEAN /\ depth \in Nat /\ evalDepth \in Nat /\ Top.busy
      /\ result.is = "tail" => result.fn \in Lambdas
  BY <1>1 DEF IInv, TypeOK
<1>3. Uncounted
  <2>1. Executes(Top, Evals) /\ ~Executes(Top, Lambdas)
    BY <1>1, <1>2, FunctionAssumption DEF Executes
  <2>2. One(Top, Evals) = 1 /\ One(Top, Lambdas) = 0
    BY <2>1 DEF One
  <2> QED  BY <1>1, <1>2, <2>2 DEF Uncounted
<1>4. result \in Results /\ result.is # "running"
  BY <1>1, TopType, Types
<1>5. CASE Leave(result)
  BY <1>1, <1>2, <1>3, <1>4, <1>5, LeaveInv
<1>6. CASE Leave(Error("D3121"))
  <2>1. Error("D3121") \in Results /\ Error("D3121").is = "error"
    BY Types DEF Codes
  <2> QED  BY <1>1, <1>2, <1>3, <1>6, <2>1, LeaveInv
<1> QED
  BY <1>5, <1>6 DEF BackToEval

\* A stack of one frame that executes nothing.
LEMMA OneFrame ==
    ASSUME NEW fr \in Frames, fr.is # "call"
    PROVE  /\ <<fr>> \in Seq(Frames) /\ <<fr>> # <<>>
           /\ \A fns : Level(<<fr>>, fns) = 0
           /\ Shape(<<fr>>)
<1>1. <<fr>> = Append(<<>>, fr) /\ <<>> \in Seq(Frames)
  OBVIOUS
<1>2. \A fns : One(fr, fns) = 0
  BY DEF One, Executes
<1>3. ASSUME NEW fns PROVE Level(<<fr>>, fns) = 0
  <2>1. Level(Append(<<>>, fr), fns) = Level(<<>>, fns) + One(fr, fns)
    BY <1>1, LevelAppend
  <2>2. Level(<<>>, fns) = 0 /\ One(fr, fns) = 0
    BY <1>2, LevelEmpty
  <2> QED  BY <1>1, <2>1, <2>2
<1>4. Len(<<fr>>) = 1
  OBVIOUS
<1>5. Shape(<<fr>>)
  BY <1>4 DEF Shape, InsideBusy, Linked, TailIsMarked
<1> QED
  BY <1>3, <1>5

LEMMA StartInv == ASSUME IInv, Start PROVE IInv'
<1> DEFINE fr == Visit(Root)
<1>1. fr \in Frames /\ fr.is # "call"
  BY Types, TreeAssumption
<1>2. /\ stack' = <<fr>> /\ result' = Running /\ depth' = 0 /\ evalDepth' = 0
      /\ cancelled' = FALSE
  BY DEF Start
<1> HIDE DEF fr
<1>3. TypeOK' /\ CountersAreNesting' /\ Shape(stack)'
  BY ZenonT(40), <1>1, <1>2, OneFrame, Types DEF TypeOK, CountersAreNesting
<1>4. result' = Running /\ result'.is # "tail"
  BY <1>2, Types
<1> QED
  BY <1>3, <1>4 DEF IInv

LEMMA PanicInv == ASSUME IInv, Panic PROVE IInv'
<1>1. /\ stack # <<>> /\ stack' = <<>> /\ result' = Error("U_VALUE_LIMIT")
      /\ evalDepth' = evalDepth - Level(stack, Evals) /\ UNCHANGED <<depth, cancelled>>
  BY DEF Panic
<1>2. evalDepth = Level(stack, Evals) /\ evalDepth \in Nat /\ depth \in Nat /\ cancelled \in BOOLEAN
  BY <1>1 DEF IInv, TypeOK, CountersAreNesting
<1>3. Error("U_VALUE_LIMIT") \in Results /\ Error("U_VALUE_LIMIT").is = "error"
  BY Types DEF Codes
<1>4. evalDepth' = 0
  BY <1>1, <1>2
<1>5. TypeOK' /\ CountersAreNesting' /\ Shape(stack)'
  BY <1>1, <1>2, <1>3, <1>4, ShapeEmpty DEF TypeOK, CountersAreNesting
<1> QED
  BY <1>1, <1>3, <1>5 DEF IInv

LEMMA CancelInv == ASSUME IInv, Cancel \/ UNCHANGED vars PROVE IInv'
<1>1. /\ stack' = stack /\ result' = result /\ depth' = depth /\ evalDepth' = evalDepth
      /\ cancelled' \in BOOLEAN
  BY DEF IInv, TypeOK, Cancel, vars
<1>2. TypeOK' /\ CountersAreNesting' /\ Shape(stack)'
  BY <1>1 DEF IInv, TypeOK, CountersAreNesting
<1> QED
  BY <1>1, <1>2 DEF IInv, Top

LEMMA InitInv == Init => IInv
<1> SUFFICES ASSUME Init PROVE IInv
  OBVIOUS
<1>1. stack = <<>> /\ result = Value /\ depth = 0 /\ evalDepth = 0 /\ cancelled = FALSE
  BY DEF Init
<1>2. TypeOK
  <2>1. <<>> \in Seq(Frames)
    OBVIOUS
  <2> QED  BY <1>1, <2>1, Types DEF TypeOK
<1>3. CountersAreNesting /\ Shape(stack)
  BY <1>1, ShapeEmpty DEF CountersAreNesting
<1> QED
  BY <1>1, <1>2, <1>3, Types DEF IInv

LEMMA StepInv == ASSUME IInv, Step PROVE IInv'
  BY DescendInv, DescendGroupInv, FinishInv, ReceiveInv, NoDefinitionInv,
     ReceiveGroupInv, PropagateInv, InvokeInv, CallRefusedInv, ApplyLambdaInv,
     ArgumentsEndInv, ApplyEvalInv, ApplyBuiltinInv,
     CallbackInv, ReturnBuiltinInv, BackToBuiltinInv, BackToLambdaInv,
     BackToEvalInv
  DEF Step

\* The inductive invariant holds in every reachable state.
THEOREM InductiveInvariant == Spec => []IInv
<1>1. IInv /\ [Next]_vars => IInv'
  BY StartInv, StepInv, PanicInv, CancelInv DEF Next
<1> QED
  BY InitInv, <1>1, PTL DEF Spec

\* Every variable keeps its type: the counters never fall below zero.
THEOREM TypeCorrect == Spec => []TypeOK
<1>1. IInv => TypeOK
  BY DEF IInv
<1> QED
  BY InductiveInvariant, <1>1, PTL

\* callCounter.depth and evalDepth are the nesting of lambda bodies and of
\* $eval, whatever way each of them is left.
THEOREM CountersAlwaysNesting == Spec => []CountersAreNesting
<1>1. IInv => CountersAreNesting
  BY DEF IInv
<1> QED
  BY InductiveInvariant, <1>1, PTL

\* The marks of tailcall.go are complete: no lambda called as the last thing
\* another does is ever evaluated on top of it.
THEOREM TailCallsNeverNest == Spec => []TailCallsTakeNoStack
<1>1. ASSUME IInv PROVE TailCallsTakeNoStack
  <2> SUFFICES ASSUME NEW i \in Executing(stack, Lambdas),
                      NEW j \in Executing(stack, Lambdas), i < j,
                      \A k \in i + 1..j - 1 : Passes(stack[k])
               PROVE  FALSE
    BY DEF TailCallsTakeNoStack, Passes
  <2>1. /\ i \in 1..Len(stack) /\ j \in 1..Len(stack) /\ Len(stack) \in Nat
        /\ Executes(stack[i], Lambdas) /\ Executes(stack[j], Lambdas)
    BY <1>1 DEF IInv, TypeOK, Executing
  <2>2. stack[j].is = "call" /\ stack[j].fn \in Lambdas /\ j \in 2..Len(stack)
    BY <2>1 DEF Executes
  <2>3. MayCall(stack[j - 1], stack[j].fn)
    BY <1>1, <2>2 DEF IInv, Shape, Linked
  <2>4. j - 1 # i
    <3>1. stack[i].is = "call" /\ stack[i].fn \notin Builtins
      BY <2>1, FunctionAssumption DEF Executes
    <3> QED  BY <2>3, <3>1 DEF MayCall, Executes
  <2>5. Passes(stack[j - 1])
    BY <2>1, <2>4
  <2>6. /\ stack[j - 1].is = "node" /\ Kind[stack[j - 1].at] = "call"
        /\ stack[j - 1].at \notin Marked
    BY <2>2, <2>3, <2>5 DEF MayCall, Passes, HandsOn, Executes, IsCallNode, Thunk
  <2>7. j - 1 \in 1..Len(stack) /\ i < j - 1
    BY <2>1, <2>4
  <2>8. \A m \in 1..Len(stack) : i < m /\ m < j - 1 => Passes(stack[m])
    BY <2>1
  <2>9. stack[j - 1].at \in Marked
    BY <1>1, <2>1, <2>6, <2>7, <2>8 DEF IInv, Shape, TailIsMarked
  <2> QED  BY <2>6, <2>9
<1> QED
  BY InductiveInvariant, <1>1, PTL

\* Once the context is cancelled and Eval or callFunction has seen it, every
\* frame hands that error on, $eval included, to the bottom of the stack.
THEOREM CancellationIsKept == Spec => CancellationSurfaces
<1>1. /\ Error("cancelled").is = "error" /\ Error("cancelled").code = "cancelled"
      /\ Running.is = "running" /\ Value.is = "value"
      /\ Error("T1005").code = "T1005" /\ Error("T1006").code = "T1006"
  BY DEF Error, Running, Value
<1>2. ASSUME result = Error("cancelled"), stack # <<>>, [Next]_vars
      PROVE  result' = result
  <2>1. /\ result.is = "error" /\ result.code = "cancelled" /\ result # Running
        /\ result # Value /\ result \notin {Error("T1005"), Error("T1006")}
    BY <1>1, <1>2
  <2>2. CASE Propagate
    BY <2>1, <2>2 DEF Propagate, Leave
  <2>3. CASE BackToBuiltin
    BY <2>1, <2>3 DEF BackToBuiltin, Leave
  <2>4. CASE BackToLambda
    BY <2>1, <2>4 DEF BackToLambda, Leave
  <2>5. CASE BackToEval
    BY <2>1, <2>5 DEF BackToEval, Leave
  <2>6. CASE Cancel \/ UNCHANGED vars
    BY <2>6 DEF Cancel, vars
  <2>7. ~Start /\ ~Panic /\ ~Receive /\ ~ReceiveGroup /\ ~NoDefinition
    BY <1>2, <2>1 DEF Start, Panic, Receive, ReceiveGroup, NoDefinition
  <2>8. ~Descend /\ ~DescendGroup /\ ~Finish /\ ~Invoke /\ ~CallRefused
    BY <2>1 DEF Descend, DescendGroup, Finish, Invoke, CallRefused, At
  <2>9. /\ ~ApplyLambda /\ ~ArgumentsEnd /\ ~ApplyEval /\ ~ApplyBuiltin
        /\ ~Callback /\ ~ReturnBuiltin
    BY <2>1 DEF ApplyLambda, ArgumentsEnd, ApplyEval, ApplyBuiltin, Callback,
                ReturnBuiltin, Applying, At
  <2> QED
    BY <1>2, <2>2, <2>3, <2>4, <2>5, <2>6, <2>7, <2>8, <2>9 DEF Next, Step
<1>3. [Next]_vars => [result = Error("cancelled") /\ stack # <<>> => result' = result]_vars
  BY <1>2
<1> QED
  BY <1>3, PTL DEF Spec, CancellationSurfaces
-----------------------------------------------------------------------------
(* The way of a sentinel from a tail call to its trampoline.               *)

\* The trampoline, and the nodes on the way to it, which hand on what the
\* operand in tail position returns.
Catches(fr) ==
    \/ Executes(fr, Lambdas)
    \/ fr.is = "node" /\ fr.at \in Carriers /\ HandsOn(fr)
Supported(s) ==
    \A k \in 1..Len(s) :
        s[k].is # "call" /\ s[k].at \in Carriers =>
            s[k].is = "node" /\ k > 1 /\ Catches(s[k - 1])
Way ==
    /\ Supported(stack)
    /\ result.is = "tail" => stack # <<>> /\ Catches(Top)

\* A marked node is the body of a lambda or the tail of a marked node.
LEMMA MarkedFromAbove ==
    ASSUME NEW n \in Marked
    PROVE  (\E l \in Lambdas : Body[l] = n) \/ (\E m \in Marked : n \in TailKids(m))
<1> DEFINE S == {x \in Marked : (\E l \in Lambdas : Body[l] = x) \/ (\E m \in Marked : x \in TailKids(m))}
<1>1. Closed(S)
  <2>1. \A l \in Lambdas : Body[l] \in S
    BY MarkedIsClosed
  <2>2. \A m \in S : TailKids(m) \subseteq S
    BY MarkedIsClosed
  <2> QED  BY <2>1, <2>2 DEF Closed
<1>2. S \in SUBSET Nodes
  BY MarkedIsClosed
<1> HIDE DEF S
<1>3. n \in S
  BY <1>1, <1>2 DEF Marked
<1> QED
  BY <1>3 DEF S

LEMMA CarriersGoUp ==
    /\ Carriers \subseteq Marked
    /\ \A n \in Nodes : Thunk(n) => n \in Carriers
    /\ \A m \in Marked : TailKids(m) \cap Carriers # {} => m \in Carriers
<1>1. Carriers \subseteq Marked
  BY DEF Carriers
<1>2. \A n \in Nodes : Thunk(n) => n \in Carriers
  BY DEF Carriers, Upward, Thunk
<1>3. ASSUME NEW m \in Marked, TailKids(m) \cap Carriers # {} PROVE m \in Carriers
  <2>1. m \in Nodes
    BY MarkedIsClosed
  <2>2. ASSUME NEW S \in SUBSET Nodes, Upward(S) PROVE m \in S
    <3>1. TailKids(m) \cap S # {}
      BY <1>3, <2>2 DEF Carriers
    <3> QED  BY <2>1, <2>2, <3>1 DEF Upward
  <2> QED  BY <2>2 DEF Carriers
<1> QED
  BY <1>1, <1>2, <1>3

\* An operand that is a carrier is the tail of a carrier.
LEMMA CarrierOperand ==
    ASSUME NEW p \in Nodes, NEW i \in 1..Len(Kids[p]), Kids[p][i] \in Carriers
    PROVE  /\ p \in Carriers
           /\ \/ Kind[p] = "condition" /\ i \in 2..Len(Kids[p])
              \/ Kind[p] = "block" /\ i = Len(Kids[p])
              \/ Kind[p] = "bind"
<1> DEFINE n == Kids[p][i]
<1>1. n \in Carriers /\ n \in Marked /\ Kids[p] \in Seq(Nodes) /\ i \in DOMAIN Kids[p]
  BY CarriersGoUp, TreeAssumption
<1>2. ~\E l \in Lambdas : Body[l] = n
  BY <1>1, PlaceAssumption
<1>3. PICK m \in Marked : n \in TailKids(m)
  BY <1>1, <1>2, MarkedFromAbove
<1>4. m \in Nodes /\ Kids[m] \in Seq(Nodes) /\ Len(Kids[m]) \in Nat /\ DOMAIN Kids[m] = 1..Len(Kids[m])
  BY MarkedIsClosed, TreeAssumption
<1>5. PICK j \in 1..Len(Kids[m]) :
        /\ Kids[m][j] = n
        /\ \/ Kind[m] = "condition" /\ j \in 2..Len(Kids[m])
           \/ Kind[m] = "block" /\ j = Len(Kids[m])
           \/ Kind[m] = "bind"
  <2>1. CASE Kind[m] = "condition"
    <3>1. n \in {Kids[m][j] : j \in 2..Len(Kids[m])}
      BY <1>3, <2>1 DEF TailKids
    <3> QED  BY <1>4, <2>1, <3>1
  <2>2. CASE Kind[m] = "block"
    <3>1. n \in {Kids[m][j] : j \in {Len(Kids[m])} \ {0}}
      BY <1>3, <2>2 DEF TailKids
    <3> QED  BY <1>4, <2>2, <3>1
  <2>3. CASE Kind[m] = "bind"
    <3>1. n = Kids[m][1] /\ Len(Kids[m]) = 1
      BY <1>3, <1>4, <2>3, TreeAssumption DEF TailKids
    <3> QED  BY <2>3, <3>1
  <2>4. Kind[m] \in {"condition", "block", "bind"}
    BY <1>3 DEF TailKids
  <2> QED  BY <2>1, <2>2, <2>3, <2>4
<1>6. m = p /\ j = i
  <2> HIDE DEF n
  <2>1. Kids[p][i] = n /\ i \in DOMAIN Kids[p] /\ j \in DOMAIN Kids[m]
    BY <1>1, <1>4 DEF n
  <2> QED  BY <1>1, <1>4, <1>5, <2>1, PlaceAssumption
<1>7. p \in Carriers
  BY <1>1, <1>3, <1>6, CarriersGoUp
<1> QED
  BY <1>5, <1>6, <1>7

LEMMA SupportedPop ==
    ASSUME NEW s \in Seq(Frames), NEW fr \in Frames, Supported(Append(s, fr))
    PROVE  /\ Supported(s)
           /\ fr.is # "call" /\ fr.at \in Carriers =>
                fr.is = "node" /\ s # <<>> /\ Catches(s[Len(s)])
<1> DEFINE t == Append(s, fr)
<1>1. /\ Len(t) = Len(s) + 1 /\ Len(s) \in Nat
      /\ \A i \in 1..Len(s) : t[i] = s[i]
      /\ t[Len(s) + 1] = fr
  BY AppendFrame
<1> HIDE DEF t
<1>2. Supported(t)
  BY DEF t
<1>3. Supported(s)
  <2> SUFFICES ASSUME NEW k \in 1..Len(s), s[k].is # "call", s[k].at \in Carriers
               PROVE  s[k].is = "node" /\ k > 1 /\ Catches(s[k - 1])
    BY DEF Supported
  <2>1. k \in 1..Len(t) /\ t[k] = s[k] /\ (k > 1 => t[k - 1] = s[k - 1])
    BY <1>1
  <2> QED  BY <1>2, <2>1 DEF Supported
<1>4. ASSUME fr.is # "call", fr.at \in Carriers
      PROVE  fr.is = "node" /\ s # <<>> /\ Catches(s[Len(s)])
  <2> DEFINE n == Len(s) + 1
  <2>1. n \in 1..Len(t) /\ t[n] = fr
    BY <1>1
  <2>2. fr.is = "node" /\ n > 1 /\ Catches(t[n - 1])
    BY <1>2, <1>4, <2>1 DEF Supported
  <2>3. t[n - 1] = s[Len(s)] /\ Len(s) > 0
    BY <1>1, <2>2
  <2> QED  BY <2>2, <2>3
<1> QED
  BY <1>3, <1>4

LEMMA SupportedTop ==
    ASSUME NEW s \in Seq(Frames), NEW old \in Frames, NEW new \in Frames,
           Supported(Append(s, old)), new.is = old.is, new.at = old.at
    PROVE  Supported(Append(s, new))
<1> DEFINE t == Append(s, old)
           u == Append(s, new)
<1>1. /\ Len(t) = Len(s) + 1 /\ Len(u) = Len(s) + 1 /\ Len(s) \in Nat
      /\ \A i \in 1..Len(s) : u[i] = t[i]
      /\ t[Len(s) + 1] = old /\ u[Len(s) + 1] = new
  BY AppendFrame
<1> HIDE DEF t, u
<1>2. Supported(t)
  BY DEF t
<1> SUFFICES ASSUME NEW k \in 1..Len(u), u[k].is # "call", u[k].at \in Carriers
             PROVE  u[k].is = "node" /\ k > 1 /\ Catches(u[k - 1])
  BY DEF Supported, u
<1>3. k \in 1..Len(t) /\ t[k].is = u[k].is /\ t[k].at = u[k].at /\ (k > 1 => u[k - 1] = t[k - 1])
  BY <1>1
<1> QED
  BY <1>2, <1>3 DEF Supported

LEMMA SupportedPush ==
    ASSUME NEW s \in Seq(Frames), NEW top \in Frames, NEW new \in Frames,
           Supported(Append(s, top)),
           new.is # "call" /\ new.at \in Carriers => new.is = "node" /\ Catches(top)
    PROVE  Supported(Append(Append(s, top), new))
<1> DEFINE t == Append(s, top)
           u == Append(t, new)
           n == Len(s) + 1
<1>1. /\ t \in Seq(Frames) /\ Len(t) = n /\ t[n] = top /\ Len(s) \in Nat
  BY AppendFrame
<1>2. /\ Len(u) = n + 1 /\ u[n + 1] = new
      /\ \A i \in 1..n : u[i] = t[i]
  BY <1>1, AppendFrame
<1>3. Supported(t) /\ n \in Nat \ {0}
  BY <1>1
<1> HIDE DEF t, u, n
<1> SUFFICES ASSUME NEW k \in 1..Len(u), u[k].is # "call", u[k].at \in Carriers
             PROVE  u[k].is = "node" /\ k > 1 /\ Catches(u[k - 1])
  BY DEF Supported, u, t
<1>4. CASE k = n + 1
  <2>1. u[k] = new /\ u[k - 1] = top /\ k > 1
    BY <1>1, <1>2, <1>3, <1>4
  <2> QED  BY <2>1
<1>5. CASE k \in 1..n
  <2>1. k \in 1..Len(t) /\ u[k] = t[k] /\ (k > 1 => u[k - 1] = t[k - 1])
    BY <1>1, <1>2, <1>3, <1>5
  <2> QED  BY <1>3, <2>1 DEF Supported
<1> QED
  BY <1>2, <1>3, <1>4, <1>5

\* The top frame returns: what receives a sentinel is waiting for it.
LEMMA LeaveWay ==
    ASSUME IInv, Way, stack # <<>>, NEW r, Leave(r),
           r.is = "tail" => Top.is = "node" /\ Top.at \in Carriers
    PROVE  Way'
<1>1. /\ Below \in Seq(Frames) /\ Top \in Frames /\ stack = Append(Below, Top)
  BY SplitTop DEF IInv, TypeOK
<1>2. /\ Supported(Below)
      /\ r.is = "tail" => Below # <<>> /\ Catches(Below[Len(Below)])
  BY <1>1, SupportedPop DEF Way
<1>3. stack' = Below /\ result' = r
  BY DEF Leave
<1> QED
  BY <1>2, <1>3 DEF Way, Top

\* The top frame goes on, without a sentinel.
LEMMA TopWay ==
    ASSUME IInv, Way, stack # <<>>, NEW new \in Frames,
           stack' = With(new), new.is = Top.is, new.at = Top.at, result'.is # "tail"
    PROVE  Way'
<1>1. /\ Below \in Seq(Frames) /\ Top \in Frames /\ stack = Append(Below, Top)
  BY SplitTop DEF IInv, TypeOK
<1>2. stack' = Append(Below, new) /\ Supported(Append(Below, new))
  BY <1>1, SupportedTop DEF Way, With
<1> QED
  BY <1>2 DEF Way

\* A frame is put on the top one.
LEMMA PushWay ==
    ASSUME IInv, Way, stack # <<>>, NEW top \in Frames, NEW new \in Frames,
           top.is = Top.is, top.at = Top.at,
           stack' = Append(With(top), new), result' = Running,
           new.is # "call" /\ new.at \in Carriers => new.is = "node" /\ Catches(top)
    PROVE  Way'
<1>1. /\ Below \in Seq(Frames) /\ Top \in Frames /\ stack = Append(Below, Top)
  BY SplitTop DEF IInv, TypeOK
<1>2. stack' = Append(Append(Below, top), new) /\ Supported(Append(Below, top))
  BY <1>1, SupportedTop DEF Way, With
<1>3. Supported(stack')
  BY <1>1, <1>2, SupportedPush
<1> QED
  BY <1>3, Types DEF Way

LEMMA EnterWay ==
    ASSUME IInv, Way, stack # <<>>, NEW top \in Frames, NEW new \in Frames,
           top.is = Top.is, top.at = Top.at, Enter(new, With(top)),
           new.is # "call" /\ new.at \in Carriers => new.is = "node" /\ Catches(top)
    PROVE  Way'
<1>1. CASE cancelled
  <2>1. stack' = With(top) /\ result'.is # "tail"
    BY <1>1, Types DEF Enter, Codes
  <2> QED  BY <2>1, TopWay
<1>2. CASE ~cancelled
  <2>1. stack' = Append(With(top), new) /\ result' = Running
    BY <1>2 DEF Enter
  <2> QED  BY <2>1, PushWay
<1> QED
  BY <1>1, <1>2

\* A carrier is entered without a group.
LEMMA VisitCarrier ==
    ASSUME UngroupedTails, NEW n \in Carriers
    PROVE  Visit(n).is = "node"
  BY DEF UngroupedTails, Visit, NodeFrame

LEMMA DescendWay == ASSUME UngroupedTails, IInv, Way, Descend PROVE Way'
<1>1. stack # <<>> /\ Top.is = "node" /\ ~Top.busy
  BY DEF Descend, At
<1>2. PICK i \in Operands(Top) : Enter(Visit(Kids[Top.at][i]), With(Stepped))
  BY DEF Descend
<1>3. /\ Stepped \in Frames /\ Stepped.is = "node" /\ Stepped.at = Top.at
      /\ Stepped.step = Top.step + 1 /\ Top.at \in Nodes /\ Top.step \in Nat
  BY <1>1, TopType
<1>4. /\ Kids[Top.at] \in Seq(Nodes) /\ Len(Kids[Top.at]) \in Nat
      /\ Kind[Top.at] = "condition" => Len(Kids[Top.at]) \in 2..3
  BY <1>3, TreeAssumption
<1>5. i \in 1..Len(Kids[Top.at])
  BY <1>2, <1>3, <1>4 DEF Operands
<1> DEFINE n == Kids[Top.at][i]
<1>6. n \in Nodes
  BY <1>4, <1>5, ElementOfSeq
<1>7. /\ Visit(n) \in Frames /\ Visit(n).at = n
      /\ Enter(Visit(n), With(Stepped))
  BY <1>2, <1>6, Types
<1>8. ASSUME n \in Carriers PROVE Visit(n).is = "node" /\ Catches(Stepped)
  <2>1. /\ Top.at \in Carriers
        /\ \/ Kind[Top.at] = "condition" /\ i \in 2..Len(Kids[Top.at])
           \/ Kind[Top.at] = "block" /\ i = Len(Kids[Top.at])
           \/ Kind[Top.at] = "bind"
    BY <1>3, <1>5, <1>8, CarrierOperand
  <2>2. HandsOn(Stepped)
    <3>1. CASE Kind[Top.at] = "condition" /\ i \in 2..Len(Kids[Top.at])
      <4>1. Top.step = 1
        BY <1>2, <1>3, <1>4, <3>1 DEF Operands
      <4> QED  BY <1>3, <3>1, <4>1 DEF HandsOn
    <3>2. CASE Kind[Top.at] = "block" /\ i = Len(Kids[Top.at])
      <4>1. i = Top.step + 1
        BY <1>2, <3>2 DEF Operands
      <4> QED  BY <1>3, <3>2, <4>1 DEF HandsOn
    <3>3. CASE Kind[Top.at] = "bind"
      BY <1>3, <3>3 DEF HandsOn
    <3> QED  BY <2>1, <3>1, <3>2, <3>3
  <2> QED  BY <1>3, <1>8, <2>1, <2>2, VisitCarrier DEF Catches
<1> HIDE DEF n
<1> QED
  BY <1>1, <1>3, <1>7, <1>8, EnterWay

LEMMA DescendGroupWay == ASSUME UngroupedTails, IInv, Way, DescendGroup PROVE Way'
<1>1. stack # <<>> /\ Top.is = "group"
  BY DEF DescendGroup, At
<1>2. Top \in Frames /\ Top.at \in Nodes /\ Top.step \in Nat /\ Stepped \in Frames
      /\ Stepped.is = Top.is /\ Stepped.at = Top.at
  BY <1>1, TopType
<1>3. Top.at \notin Carriers
  <2>1. Len(stack) \in 1..Len(stack)
    BY <1>1, SplitTop DEF IInv, TypeOK
  <2> QED  BY <1>1, <2>1 DEF Way, Supported, Top
<1>4. CASE Top.step = 0
  <2>1. Enter(NodeFrame(Top.at), With(Stepped))
    BY <1>4 DEF DescendGroup
  <2>2. NodeFrame(Top.at) \in Frames /\ NodeFrame(Top.at).at = Top.at
    BY <1>2, Types
  <2> QED  BY <1>1, <1>2, <1>3, <2>1, <2>2, EnterWay
<1>5. CASE Top.step # 0
  <2>1. PICK i \in Top.step..Len(Pairs[Top.at]) :
          Enter(Visit(Pairs[Top.at][i]), With([Top EXCEPT !.step = i + 1]))
    BY <1>5 DEF DescendGroup
  <2>2. Pairs[Top.at] \in Seq(Nodes) /\ i \in 1..Len(Pairs[Top.at]) /\ i \in DOMAIN Pairs[Top.at]
    BY SMTT(40), <1>2, <1>5, <2>1, TreeAssumption
  <2>3. Pairs[Top.at][i] \in Nodes /\ Pairs[Top.at][i] \notin Carriers
    BY <1>2, <2>2, ElementOfSeq, PlaceAssumption
  <2> DEFINE top == [Top EXCEPT !.step = i + 1]
             new == Visit(Pairs[Top.at][i])
  <2>4. top \in Frames /\ top.is = Top.is /\ top.at = Top.at
    BY <1>2, <2>2 DEF Frames
  <2>5. new \in Frames /\ new.at \notin Carriers /\ Enter(new, With(top))
    BY <2>1, <2>3, Types
  <2> HIDE DEF top, new
  <2> QED  BY <1>1, <2>4, <2>5, EnterWay
<1> QED
  BY <1>4, <1>5

LEMMA ReceiveWay == ASSUME IInv, Way, Receive PROVE Way'
<1>1. stack # <<>> /\ Top.is = "node"
  BY DEF Receive, Returned
<1>2. CASE HandsOn(Top)
  <2>1. Leave(result)
    BY <1>2 DEF Receive
  <2>2. result.is = "tail" => Top.at \in Carriers
    BY <1>1 DEF Way, Catches, Executes
  <2> QED  BY <1>1, <2>1, <2>2, LeaveWay
<1>3. CASE ~HandsOn(Top)
  <2>1. result'.is # "tail"
    BY <1>3, Types DEF Receive
  <2>2. CASE stack' = stack
    BY <1>1, <2>1, <2>2, TopType, TopWay
  <2>3. ASSUME NEW f \in Callee[Top.at], stack' = With([Top EXCEPT !.fn = f])
        PROVE  Way'
    <3>1. f \in Fns /\ Top \in Frames
      BY <1>1, TopType, TreeAssumption
    <3>2. /\ [Top EXCEPT !.fn = f] \in Frames
          /\ [Top EXCEPT !.fn = f].is = Top.is /\ [Top EXCEPT !.fn = f].at = Top.at
      BY <3>1 DEF Frames
    <3> QED  BY <1>1, <2>1, <2>3, <3>2, TopWay
  <2> QED  BY <1>3, <2>2, <2>3 DEF Receive
<1> QED
  BY <1>2, <1>3

LEMMA InvokeWay == ASSUME IInv, Way, Invoke PROVE Way'
<1>1. stack # <<>> /\ Top.is = "node"
  BY DEF Invoke, At
<1>2. Top \in Frames /\ Top.fn \in Fns /\ Top.at \in Nodes
  BY <1>1, TopType
<1>3. CASE Thunk(Top.at) /\ Top.fn \in Lambdas
  <2>1. Leave(TailCall(Top.fn)) /\ Top.at \in Carriers
    BY <1>2, <1>3, CarriersGoUp DEF Invoke
  <2> QED  BY <1>1, <2>1, LeaveWay
<1>4. CASE ~(Thunk(Top.at) /\ Top.fn \in Lambdas)
  <2> DEFINE top == [Top EXCEPT !.busy = TRUE]
             new == CallFrame(Top.fn, Top.at)
  <2>1. top \in Frames /\ top.is = Top.is /\ top.at = Top.at
    BY <1>2 DEF Frames
  <2>2. stack' = Append(With(top), new) /\ result' = Running
    BY <1>4 DEF Invoke, EnterCall
  <2>3. new \in Frames /\ new.is = "call"
    BY <1>2, Types
  <2> HIDE DEF top, new
  <2> QED  BY <1>1, <2>1, <2>2, <2>3, PushWay
<1> QED
  BY <1>3, <1>4

\* The body of a lambda is entered from its trampoline ...
LEMMA ApplyLambdaWay == ASSUME UngroupedTails, IInv, Way, ApplyLambda PROVE Way'
<1>1. stack # <<>> /\ Top.is = "call" /\ ~Top.busy /\ Top.fn \in Lambdas
  BY DEF ApplyLambda, Applying, At
<1>2. CASE depth + 1 > MaxDepth
  <2>1. Leave(Error("U1001")) /\ Error("U1001").is # "tail"
    BY <1>2, Types DEF ApplyLambda, Codes
  <2> QED  BY <1>1, <2>1, LeaveWay
<1>3. CASE ~(depth + 1 > MaxDepth)
  <2> DEFINE top == [Top EXCEPT !.busy = TRUE]
             new == Visit(Body[Top.fn])
  <2>1. Enter(new, With(top))
    BY <1>3 DEF ApplyLambda
  <2>2. Body[Top.fn] \in Nodes
    BY <1>1, MarkedIsClosed
  <2>3. new \in Frames /\ new.at = Body[Top.fn]
    BY <2>2, Types
  <2>4. new.at \in Carriers => new.is = "node"
    BY <2>3, VisitCarrier
  <2>5. top \in Frames /\ top.is = Top.is /\ top.at = Top.at /\ top.fn = Top.fn /\ top.busy
    BY <1>1, Begins
  <2> HIDE DEF top, new
  <2>6. Catches(top)
    BY <1>1, <2>5 DEF Catches, Executes
  <2> QED  BY <1>1, <2>1, <2>3, <2>4, <2>5, <2>6, EnterWay
<1> QED
  BY <1>2, <1>3

\* ... and the text of $eval has no tail of the function it is called in.
LEMMA ApplyEvalWay == ASSUME IInv, Way, ApplyEval PROVE Way'
<1>1. stack # <<>> /\ Top.is = "call" /\ ~Top.busy /\ Top.fn \in Evals
  BY DEF ApplyEval, Applying, At
<1>2. CASE evalDepth + 1 > MaxEval
  <2>1. Leave(Error("D3121")) /\ Error("D3121").is # "tail"
    BY <1>2, Types DEF ApplyEval, Codes
  <2> QED  BY <1>1, <2>1, LeaveWay
<1>3. CASE ~(evalDepth + 1 > MaxEval)
  <2> DEFINE top == [Top EXCEPT !.busy = TRUE]
             new == Visit(Tree[Top.fn])
  <2>1. Enter(new, With(top))
    BY <1>3 DEF ApplyEval
  <2>2. Tree[Top.fn] \in Nodes /\ Tree[Top.fn] \notin Carriers
    BY <1>1, FunctionAssumption, PlaceAssumption
  <2>3. new \in Frames /\ new.at \notin Carriers
    BY <2>2, Types
  <2>4. top \in Frames /\ top.is = Top.is /\ top.at = Top.at
    BY <1>1, Begins
  <2> HIDE DEF top, new
  <2> QED  BY <1>1, <2>1, <2>3, <2>4, EnterWay
<1> QED
  BY <1>2, <1>3

\* Every step that returns something else than what it was given, or goes on.
LEMMA OtherWay ==
    ASSUME IInv, Way,
           Finish \/ NoDefinition \/ ReceiveGroup \/ Propagate \/ CallRefused
             \/ ArgumentsEnd \/ ApplyBuiltin \/ ReturnBuiltin
    PROVE  Way'
<1>1. stack # <<>>
  BY DEF Finish, NoDefinition, ReceiveGroup, Propagate, CallRefused, ArgumentsEnd,
         ApplyBuiltin, ReturnBuiltin, Applying, At, Returned
<1>2. ASSUME NEW r, Leave(r), r.is # "tail" PROVE Way'
  BY <1>1, <1>2, LeaveWay
<1>3. CASE Finish \/ NoDefinition \/ CallRefused \/ ArgumentsEnd \/ ReturnBuiltin
  <2>1. \E r : Leave(r) /\ r.is # "tail"
    BY <1>3, Types DEF Finish, NoDefinition, CallRefused, ArgumentsEnd, ReturnBuiltin, Codes
  <2> QED  BY <1>2, <2>1
<1>4. CASE ReceiveGroup
  BY <1>1, <1>4, TopType, Types, TopWay DEF ReceiveGroup
<1>5. CASE Propagate
  <2>1. CASE Leave(result)
    BY <1>2, <1>5, <2>1 DEF Propagate
  <2>2. CASE stack' = With([Top EXCEPT !.fn = Undefined]) /\ result' = Running
    <3>1. Top \in Frames /\ Undefined \in Fns
      BY <1>1, TopType DEF Fns
    <3>2. /\ [Top EXCEPT !.fn = Undefined] \in Frames
          /\ [Top EXCEPT !.fn = Undefined].is = Top.is
          /\ [Top EXCEPT !.fn = Undefined].at = Top.at
      BY <3>1 DEF Frames
    <3> QED  BY <1>1, <2>2, <3>2, Types, TopWay
  <2> QED  BY <1>5, <2>1, <2>2 DEF Propagate
<1>6. CASE ApplyBuiltin
  <2> DEFINE new == [Top EXCEPT !.busy = TRUE, !.step = 0]
  <2>1. stack' = With(new) /\ result' = Running
    BY <1>6 DEF ApplyBuiltin, Applying, At
  <2>2. Top \in Frames
    BY <1>1, TopType
  <2>3. new \in Frames /\ new.is = Top.is /\ new.at = Top.at
    BY <2>2 DEF Frames
  <2> HIDE DEF new
  <2> QED  BY <1>1, <2>1, <2>3, Types, TopWay
<1> QED
  BY <1>3, <1>4, <1>5, <1>6

LEMMA CallbackWay == ASSUME IInv, Way, Callback PROVE Way'
<1>1. stack # <<>> /\ Top.is = "call" /\ Top.fn \in Builtins
  BY DEF Callback, At
<1>2. PICK f \in Callbacks[Top.fn] : EnterCall(f, With(Stepped))
  BY DEF Callback
<1>3. Stepped \in Frames /\ Stepped.is = Top.is /\ Stepped.at = Top.at /\ Top.at \in Nodes
  BY <1>1, TopType
<1>4. f \in Fns
  BY <1>1, FunctionAssumption
<1> DEFINE new == CallFrame(f, Top.at)
<1>5. /\ new \in Frames /\ new.is = "call"
      /\ stack' = Append(With(Stepped), new) /\ result' = Running
  BY <1>2, <1>3, <1>4, Types DEF EnterCall
<1> HIDE DEF new
<1> QED
  BY <1>1, <1>3, <1>5, PushWay

\* Neither a builtin nor $eval is given a sentinel; a trampoline keeps its own.
LEMMA BackWay ==
    ASSUME IInv, Way, BackToBuiltin \/ BackToLambda \/ BackToEval
    PROVE  Way'
<1>1. stack # <<>> /\ Top.is = "call"
  BY DEF BackToBuiltin, BackToLambda, BackToEval, Returned
<1>2. ASSUME NEW r, Leave(r), r.is # "tail" PROVE Way'
  BY <1>1, <1>2, LeaveWay
<1>3. result.is = "tail" => Top.fn \in Lambdas
  BY <1>1 DEF Way, Catches, Executes
<1>4. CASE BackToBuiltin
  <2>1. CASE Leave(result) /\ result.is = "error"
    BY <1>2, <2>1
  <2>2. CASE result' = Running /\ stack' = stack
    BY <1>1, <2>2, TopType, Types, TopWay
  <2> QED  BY <1>4, <2>1, <2>2 DEF BackToBuiltin
<1>5. CASE BackToEval
  <2>1. result.is # "tail" /\ Error("D3121").is # "tail"
    BY <1>3, <1>5, Types, FunctionAssumption DEF BackToEval, Codes
  <2> QED  BY <1>2, <1>5, <2>1 DEF BackToEval
<1>6. CASE BackToLambda
  <2>1. CASE result.is # "tail"
    BY <1>2, <1>6, <2>1 DEF BackToLambda
  <2>2. CASE Leave(Error("U1001"))
    BY <1>2, <2>2, Types DEF Codes
  <2>3. CASE /\ result.is = "tail" /\ result' = Running
             /\ stack' = With([Stepped EXCEPT !.fn = result.fn, !.busy = FALSE])
    <3> DEFINE new == [Stepped EXCEPT !.fn = result.fn, !.busy = FALSE]
    <3>1. Stepped \in Frames /\ result.fn \in Fns /\ Stepped.is = Top.is /\ Stepped.at = Top.at
      BY <1>1, <2>3, TopType DEF IInv, Fns
    <3>2. new \in Frames /\ new.is = Top.is /\ new.at = Top.at
      BY <3>1 DEF Frames
    <3>3. stack' = With(new)
      BY <2>3
    <3> HIDE DEF new
    <3> QED  BY <1>1, <2>3, <3>2, <3>3, Types, TopWay
  <2> QED  BY <1>6, <2>1, <2>2, <2>3 DEF BackToLambda
<1> QED
  BY <1>4, <1>5, <1>6

LEMMA StartWay == ASSUME Start PROVE Way'
<1> DEFINE fr == Visit(Root)
<1>1. fr \in Frames /\ fr.at \notin Carriers
  BY Types, TreeAssumption, PlaceAssumption
<1>2. stack' = <<fr>> /\ result' = Running
  BY DEF Start
<1> HIDE DEF fr
<1>3. Len(<<fr>>) = 1 /\ <<fr>>[1] = fr
  OBVIOUS
<1>4. Supported(<<fr>>)
  BY <1>1, <1>3 DEF Supported
<1> QED
  BY <1>2, <1>4, Types DEF Way

LEMMA RestWay == ASSUME Way, Panic \/ Cancel \/ UNCHANGED vars PROVE Way'
<1>1. CASE Panic
  <2>1. Supported(<<>>)
    BY DEF Supported
  <2> QED  BY <1>1, <2>1, Types DEF Panic, Way, Codes
<1>2. CASE UNCHANGED <<stack, result>>
  BY <1>2 DEF Way, Top
<1> QED
  BY <1>1, <1>2 DEF Cancel, vars

\* In a program whose tail calls are not in a group, the sentinel of a tail
\* call comes to the loop of a lambda, never to a builtin, to $eval, to an
\* operand or to the caller, and all on its way hands it on.
THEOREM SentinelsAreCaught ==
    ASSUME UngroupedTails
    PROVE  Spec => []Way /\ SentinelReachesTrampoline
<1>1. Init => Way
  <2>1. Supported(<<>>)
    BY DEF Supported
  <2> QED  BY <2>1, Types DEF Init, Way
<1>2. IInv /\ Way /\ [Next]_vars => Way'
  BY DescendWay, DescendGroupWay, ReceiveWay, InvokeWay, ApplyLambdaWay, ApplyEvalWay,
     OtherWay, CallbackWay, BackWay, StartWay, RestWay DEF Next, Step
<1>3. ASSUME IInv, Way, Next, result.is = "tail"
      PROVE  result' = result \/ (stack # <<>> /\ Top.is = "call")
  <2>1. stack # <<>> /\ Catches(Top)
    BY <1>3 DEF Way
  <2>2. CASE Top.is = "call"
    BY <2>1, <2>2
  <2>3. CASE Top.is = "node" /\ HandsOn(Top)
    <3>1. result # Running /\ result # Value /\ result.is # "error"
      BY <1>3, Types
    <3>2. CASE Receive
      BY <2>3, <3>2 DEF Receive, Leave
    <3>3. ~Start /\ ~Panic /\ ~ReceiveGroup /\ ~NoDefinition /\ ~Propagate
      BY <2>1, <2>3, <3>1 DEF Start, Panic, ReceiveGroup, NoDefinition, Propagate, Returned
    <3>4. /\ ~Descend /\ ~DescendGroup /\ ~Finish /\ ~Invoke /\ ~CallRefused
          /\ ~ApplyLambda /\ ~ArgumentsEnd /\ ~ApplyEval /\ ~ApplyBuiltin
          /\ ~Callback /\ ~ReturnBuiltin
      BY <3>1 DEF Descend, DescendGroup, Finish, Invoke, CallRefused, ApplyLambda,
                  ArgumentsEnd, ApplyEval, ApplyBuiltin, Callback, ReturnBuiltin, Applying, At
    <3>5. ~BackToBuiltin /\ ~BackToLambda /\ ~BackToEval
      BY <2>3 DEF BackToBuiltin, BackToLambda, BackToEval, Returned
    <3>6. CASE Cancel
      BY <3>6 DEF Cancel
    <3> QED  BY <1>3, <3>2, <3>3, <3>4, <3>5, <3>6 DEF Next, Step
  <2> QED  BY <2>1, <2>2, <2>3 DEF Catches, Executes
<1>4. IInv /\ Way /\ [Next]_vars =>
        [result.is = "tail" => result' = result \/ (stack # <<>> /\ Top.is = "call")]_vars
  BY <1>3
<1> QED
  BY InductiveInvariant, <1>1, <1>2, <1>4, PTL DEF Spec, SentinelReachesTrampoline
-----------------------------------------------------------------------------
(* The height of the stack.                                                *)

\* The syntax is finite: each node is higher than its operands and pairs.
Heights(height, H) ==
    /\ H \in Nat /\ height \in [Nodes -> 0..H]
    /\ \A n \in Nodes : /\ \A i \in DOMAIN Kids[n] : height[Kids[n][i]] < height[n]
                        /\ \A i \in DOMAIN Pairs[n] : height[Pairs[n][i]] < height[n]

\* Builtins that builtins call back come to an end.
Orders(order, B) ==
    /\ B \in Nat /\ order \in [Builtins -> 0..B]
    /\ \A b \in Builtins : \A c \in Callbacks[b] \cap Builtins : order[c] < order[b]

\* How high the stack may grow on a frame until a body or a text is entered.
Room(height, order, B) ==
    [fr \in Frames |->
       CASE fr.is = "node" -> 2 * height[fr.at] + B + 2
         [] fr.is = "group" -> 2 * height[fr.at] + B + 3
         [] OTHER -> IF fr.fn \in Builtins THEN order[fr.fn] + 1 ELSE 0]

Loops == Lambdas \cup Evals
Entered(s) == Level(s, Loops)

\* Each frame stands within the room of the bodies and texts below it.
Fits(s, room, M) ==
    \A i \in 1..Len(s) : i + room[s[i]] <= Entered(SubSeq(s, 1, i - 1)) * (M + 1) + M + 1
Limits == depth <= MaxDepth /\ evalDepth <= MaxEval

\* What the steps need of the room: a frame leaves less to what it puts on it,
\* unless that is a body or a text, and what it keeps of itself fixes its own.
Suits(room, M) ==
    /\ M \in Nat
    /\ room \in [Frames -> 0..M]
    /\ \A fr, to \in Frames :
         /\ fr.is = to.is /\ fr.at = to.at
         /\ fr.is # "call" \/ fr.fn = to.fn \/ {fr.fn, to.fn} \cap Builtins = {}
         => room[fr] = room[to]
    /\ \A fr, to \in Frames : fr.is = "node" /\ to.is = "call" => room[to] < room[fr]
    /\ \A fr \in Frames : \A i \in DOMAIN Kids[fr.at] :
         fr.is = "node" => room[Visit(Kids[fr.at][i])] < room[fr]
    /\ \A fr \in Frames : \A i \in DOMAIN Pairs[fr.at] :
         fr.is = "group" => room[Visit(Pairs[fr.at][i])] < room[fr]
    /\ \A fr \in Frames : fr.is = "group" => room[NodeFrame(fr.at)] < room[fr]
    /\ \A fr, to \in Frames :
         /\ fr.is = "call" /\ fr.fn \in Builtins
         /\ to.is = "call" /\ to.fn \in Callbacks[fr.fn]
         => room[to] < room[fr]

LEMMA RoomSuits ==
    ASSUME NEW height, NEW H, Heights(height, H), NEW order, NEW B, Orders(order, B)
    PROVE  Suits(Room(height, order, B), 2 * H + B + 3)
<1> DEFINE room == Room(height, order, B)
<1>1. /\ H \in Nat /\ B \in Nat
      /\ \A n \in Nodes : height[n] \in 0..H
      /\ \A b \in Builtins : order[b] \in 0..B
  BY DEF Heights, Orders
<1>2. \A fr \in Frames : /\ fr.is \in {"node", "group", "call"} /\ fr.at \in Nodes
                         /\ fr.is = "node" => room[fr] = 2 * height[fr.at] + B + 2
                         /\ fr.is = "group" => room[fr] = 2 * height[fr.at] + B + 3
                         /\ fr.is = "call" /\ fr.fn \in Builtins => room[fr] = order[fr.fn] + 1
                         /\ fr.is = "call" /\ fr.fn \notin Builtins => room[fr] = 0
  BY DEF Room, Frames
<1>3. \A n \in Nodes :
        /\ \A i \in DOMAIN Kids[n] : Kids[n][i] \in Nodes /\ height[Kids[n][i]] < height[n]
        /\ \A i \in DOMAIN Pairs[n] : Pairs[n][i] \in Nodes /\ height[Pairs[n][i]] < height[n]
  BY TreeAssumption, ElementOfSeq DEF Heights
<1>4. DOMAIN room = Frames /\ room = [fr \in Frames |-> room[fr]]
  BY DEF Room
<1> HIDE DEF room
<1>5. 2 * H + B + 3 \in Nat
  BY <1>1
<1>6. ASSUME NEW fr \in Frames PROVE room[fr] \in 0..2 * H + B + 3
  <2>1. height[fr.at] \in 0..H /\ fr.is \in {"node", "group", "call"}
    BY <1>1, <1>2
  <2>2. CASE fr.is = "call" /\ fr.fn \in Builtins
    <3>1. order[fr.fn] \in 0..B /\ room[fr] = order[fr.fn] + 1
      BY <1>1, <1>2, <2>2
    <3> QED  BY <1>1, <3>1
  <2>3. CASE fr.is = "call" /\ fr.fn \notin Builtins
    BY <1>1, <1>2, <2>3
  <2>4. CASE fr.is = "node"
    <3>1. room[fr] = 2 * height[fr.at] + B + 2
      BY <1>2, <2>4
    <3> QED  BY <1>1, <2>1, <3>1
  <2>5. CASE fr.is = "group"
    <3>1. room[fr] = 2 * height[fr.at] + B + 3
      BY <1>2, <2>5
    <3> QED  BY <1>1, <2>1, <3>1
  <2> QED  BY <2>1, <2>2, <2>3, <2>4, <2>5
<1>7. room \in [Frames -> 0..2 * H + B + 3]
  BY <1>4, <1>6
<1>8. ASSUME NEW fr \in Frames, NEW to \in Frames, fr.is = to.is, fr.at = to.at,
             fr.is # "call" \/ fr.fn = to.fn \/ {fr.fn, to.fn} \cap Builtins = {}
      PROVE  room[fr] = room[to]
  <2>1. fr.is \in {"node", "group", "call"}
    BY <1>2
  <2> QED  BY <1>2, <1>8, <2>1
<1>9. ASSUME NEW fr \in Frames, NEW to \in Frames, fr.is = "node", to.is = "call"
      PROVE  room[to] < room[fr]
  <2>1. height[fr.at] \in Nat /\ room[fr] = 2 * height[fr.at] + B + 2
    BY <1>1, <1>2, <1>9
  <2>2. CASE to.fn \in Builtins
    <3>1. order[to.fn] \in 0..B /\ room[to] = order[to.fn] + 1
      BY <1>1, <1>2, <1>9, <2>2
    <3> QED  BY <1>1, <2>1, <3>1
  <2>3. CASE to.fn \notin Builtins
    <3>1. room[to] = 0
      BY <1>2, <1>9, <2>3
    <3> QED  BY <1>1, <2>1, <3>1
  <2> QED  BY <2>2, <2>3
<1>10. ASSUME NEW n \in Nodes, NEW m \in Nodes, height[m] < height[n]
       PROVE  /\ room[Visit(m)] < 2 * height[n] + B + 2
              /\ room[Visit(m)] < 2 * height[n] + B + 3
  <2>1. Visit(m) \in Frames /\ Visit(m).is \in {"node", "group"} /\ Visit(m).at = m
    BY Types
  <2>2. room[Visit(m)] \in {2 * height[m] + B + 2, 2 * height[m] + B + 3}
    BY <1>2, <2>1
  <2>3. height[m] \in Nat /\ height[n] \in Nat
    BY <1>1
  <2> QED  BY <1>1, <1>10, <2>2, <2>3
<1>11. ASSUME NEW fr \in Frames, NEW i \in DOMAIN Kids[fr.at], fr.is = "node"
       PROVE  room[Visit(Kids[fr.at][i])] < room[fr]
  BY <1>2, <1>3, <1>10, <1>11
<1>12. ASSUME NEW fr \in Frames, NEW i \in DOMAIN Pairs[fr.at], fr.is = "group"
       PROVE  room[Visit(Pairs[fr.at][i])] < room[fr]
  BY <1>2, <1>3, <1>10, <1>12
<1>13. ASSUME NEW fr \in Frames, fr.is = "group" PROVE room[NodeFrame(fr.at)] < room[fr]
  <2>1. fr.at \in Nodes /\ room[fr] = 2 * height[fr.at] + B + 3 /\ height[fr.at] \in Nat
    BY <1>1, <1>2, <1>13
  <2>2. room[NodeFrame(fr.at)] = 2 * height[fr.at] + B + 2
    BY <1>2, <2>1, Types
  <2> QED  BY <1>1, <2>1, <2>2
<1>14. ASSUME NEW fr \in Frames, NEW to \in Frames, fr.is = "call", fr.fn \in Builtins,
              to.is = "call", to.fn \in Callbacks[fr.fn]
       PROVE  room[to] < room[fr]
  <2>1. order[fr.fn] \in Nat /\ room[fr] = order[fr.fn] + 1
    BY <1>1, <1>2, <1>14
  <2>2. CASE to.fn \in Builtins
    <3>1. order[to.fn] \in Nat /\ room[to] = order[to.fn] + 1 /\ order[to.fn] < order[fr.fn]
      BY <1>1, <1>2, <1>14, <2>2 DEF Orders
    <3> QED  BY <2>1, <3>1
  <2>3. CASE to.fn \notin Builtins
    BY <1>2, <1>14, <2>1, <2>3
  <2> QED  BY <2>2, <2>3
<1> QED
  BY <1>5, <1>7, <1>8, <1>9, <1>11, <1>12, <1>13, <1>14 DEF room, Suits

LEMMA FitsAppend ==
    ASSUME NEW room, NEW M, NEW s \in Seq(Frames), NEW fr \in Frames
    PROVE  Fits(Append(s, fr), room, M) <=>
             /\ Fits(s, room, M)
             /\ Len(s) + 1 + room[fr] <= Entered(s) * (M + 1) + M + 1
<1> DEFINE t == Append(s, fr)
<1>1. /\ Len(t) = Len(s) + 1 /\ Len(s) \in Nat /\ t \in Seq(Frames)
      /\ \A i \in 1..Len(s) : t[i] = s[i]
      /\ t[Len(s) + 1] = fr
  BY AppendFrame
<1>2. SubSeq(t, 1, Len(s) + 1 - 1) = s
  BY <1>1
<1>3. ASSUME NEW i \in 1..Len(s) PROVE SubSeq(t, 1, i - 1) = SubSeq(s, 1, i - 1)
  BY <1>1
<1> HIDE DEF t
<1>4. 1..Len(t) = 1..Len(s) \cup {Len(s) + 1}
  BY <1>1
<1> DEFINE Limit(q) == Entered(q) * (M + 1) + M + 1
           In(q, i) == i + room[q[i]] <= Limit(SubSeq(q, 1, i - 1))
<1>5. \A i \in 1..Len(s) : In(t, i) <=> In(s, i)
  BY <1>1, <1>3
<1>6. In(t, Len(s) + 1) <=> Len(s) + 1 + room[fr] <= Limit(s)
  <2> DEFINE n == Len(s) + 1
  <2>1. t[n] = fr /\ SubSeq(t, 1, n - 1) = s
    BY <1>1, <1>2
  <2> HIDE DEF n, Limit
  <2>2. In(t, n) <=> n + room[fr] <= Limit(s)
    BY <2>1
  <2> QED  BY <2>2 DEF n
<1>7. /\ Fits(t, room, M) <=> \A i \in 1..Len(t) : In(t, i)
      /\ Fits(s, room, M) <=> \A i \in 1..Len(s) : In(s, i)
  BY DEF Fits
<1> HIDE DEF In
<1>8. Fits(t, room, M) <=> (\A i \in 1..Len(s) : In(t, i)) /\ In(t, Len(s) + 1)
  BY <1>4, <1>7
<1> QED
  BY <1>5, <1>6, <1>7, <1>8 DEF t

LEMMA FitsPush ==
    ASSUME NEW room, NEW M, Suits(room, M),
           NEW s \in Seq(Frames), NEW top \in Frames, NEW new \in Frames,
           Fits(Append(s, top), room, M),
           room[new] < room[top] \/ Executes(top, Loops)
    PROVE  Fits(Append(Append(s, top), new), room, M)
<1> DEFINE t == Append(s, top)
<1>1. t \in Seq(Frames) /\ Len(t) = Len(s) + 1 /\ Len(s) \in Nat
  BY AppendFrame
<1>2. /\ Entered(t) = Entered(s) + One(top, Loops)
      /\ Entered(s) \in Nat /\ One(top, Loops) \in {0, 1}
  BY LevelAppend DEF Entered
<1>3. /\ Fits(s, room, M)
      /\ Len(s) + 1 + room[top] <= Entered(s) * (M + 1) + M + 1
  BY FitsAppend
<1>4. M \in Nat /\ room[top] \in 0..M /\ room[new] \in 0..M
  BY DEF Suits
<1>5. Len(t) + 1 + room[new] <= Entered(t) * (M + 1) + M + 1
  <2>1. CASE Executes(top, Loops)
    <3>1. Entered(t) = Entered(s) + 1
      BY <1>2, <2>1 DEF One
    <3>2. Entered(t) * (M + 1) = Entered(s) * (M + 1) + (M + 1)
      BY <1>2, <1>4, <3>1
    <3>3. Entered(s) * (M + 1) \in Nat
      BY <1>2, <1>4
    <3> HIDE DEF t
    <3> QED  BY SMTT(40), <1>1, <1>3, <1>4, <3>2, <3>3
  <2>2. CASE ~Executes(top, Loops)
    <3>1. Entered(t) = Entered(s) /\ room[new] < room[top]
      BY <1>2, <2>2 DEF One
    <3>2. Entered(s) * (M + 1) \in Nat
      BY <1>2, <1>4
    <3> HIDE DEF t
    <3> QED  BY <1>1, <1>3, <1>4, <3>1, <3>2
  <2> QED  BY <2>1, <2>2
<1> QED
  BY <1>1, <1>5, FitsAppend

\* The three ways in which a step changes the stack.
LEMMA LeaveFits ==
    ASSUME NEW room, NEW M, IInv, stack # <<>>, Fits(stack, room, M), NEW r, Leave(r)
    PROVE  Fits(stack', room, M)
<1>1. /\ Below \in Seq(Frames) /\ Top \in Frames /\ stack = Append(Below, Top)
  BY SplitTop DEF IInv, TypeOK
<1> QED
  BY <1>1, FitsAppend DEF Leave

Keeps(new) ==
    /\ new.is = Top.is /\ new.at = Top.at
    /\ Top.is # "call" \/ Top.fn = new.fn \/ {Top.fn, new.fn} \cap Builtins = {}

LEMMA TopFits ==
    ASSUME NEW room, NEW M, Suits(room, M), IInv, stack # <<>>, Fits(stack, room, M),
           NEW new \in Frames, Keeps(new)
    PROVE  Fits(With(new), room, M) /\ room[new] = room[Top]
<1>1. /\ Below \in Seq(Frames) /\ Top \in Frames /\ stack = Append(Below, Top)
  BY SplitTop DEF IInv, TypeOK
<1>2. room[new] = room[Top]
  BY <1>1 DEF Suits, Keeps
<1> QED
  BY <1>1, <1>2, FitsAppend DEF With

LEMMA PushFits ==
    ASSUME NEW room, NEW M, Suits(room, M), IInv, stack # <<>>, Fits(stack, room, M),
           NEW top \in Frames, Keeps(top), NEW new \in Frames,
           room[new] < room[Top] \/ Executes(top, Loops),
           stack' = Append(With(top), new) \/ Enter(new, With(top))
    PROVE  Fits(stack', room, M)
<1>1. Below \in Seq(Frames)
  BY SplitTop DEF IInv, TypeOK
<1>2. Fits(With(top), room, M) /\ room[top] = room[Top]
  BY TopFits
<1>3. Fits(Append(With(top), new), room, M)
  BY <1>1, <1>2, FitsPush DEF With
<1> QED
  BY <1>2, <1>3 DEF Enter

\* An operand, a key or a value is lower than its node; a call is lower still.
LEMMA DescendFits ==
    ASSUME NEW room, NEW M, Suits(room, M), IInv, Fits(stack, room, M),
           Descend \/ DescendGroup \/ Invoke
    PROVE  Fits(stack', room, M)
<1>1. stack # <<>>
  BY DEF Descend, DescendGroup, Invoke, At
<1>2. Top \in Frames /\ Top.at \in Nodes /\ Top.fn \in Fns /\ Top.step \in Nat
  BY <1>1, TopType
<1>3. /\ Kids[Top.at] \in Seq(Nodes) /\ Pairs[Top.at] \in Seq(Nodes)
      /\ DOMAIN Kids[Top.at] = 1..Len(Kids[Top.at])
      /\ DOMAIN Pairs[Top.at] = 1..Len(Pairs[Top.at])
  BY <1>2, TreeAssumption
<1>4. Stepped \in Frames /\ Keeps(Stepped)
  BY <1>1, TopType DEF Keeps
<1>5. CASE Descend
  <2>1. Top.is = "node"
    BY <1>5 DEF Descend, At
  <2>2. PICK i \in Operands(Top) : Enter(Visit(Kids[Top.at][i]), With(Stepped))
    BY <1>5 DEF Descend
  <2>3. i \in DOMAIN Kids[Top.at]
    <3>1. CASE Kind[Top.at] = "condition"
      <4>1. Len(Kids[Top.at]) \in 2..3
        BY <1>2, <3>1, TreeAssumption
      <4>2. i \in {1} \cup 2..Len(Kids[Top.at])
        BY <2>2, <3>1 DEF Operands
      <4> QED  BY <1>3, <4>1, <4>2
    <3>2. CASE Kind[Top.at] # "condition"
      BY <1>3, <2>2, <3>2 DEF Operands
    <3> QED  BY <3>1, <3>2
  <2>4. Kids[Top.at][i] \in Nodes
    BY <1>3, <2>3
  <2>5. Visit(Kids[Top.at][i]) \in Frames /\ room[Visit(Kids[Top.at][i])] < room[Top]
    BY <1>2, <2>1, <2>3, <2>4, Types DEF Suits
  <2> QED  BY <1>1, <1>4, <2>2, <2>5, PushFits
<1>6. CASE DescendGroup
  <2>1. Top.is = "group"
    BY <1>6 DEF DescendGroup, At
  <2>2. CASE Top.step = 0
    <3>1. Enter(NodeFrame(Top.at), With(Stepped))
      BY <1>6, <2>2 DEF DescendGroup
    <3>2. NodeFrame(Top.at) \in Frames /\ room[NodeFrame(Top.at)] < room[Top]
      BY <1>2, <2>1, Types DEF Suits
    <3> QED  BY <1>1, <1>4, <3>1, <3>2, PushFits
  <2>3. CASE Top.step # 0
    <3>1. PICK i \in Top.step..Len(Pairs[Top.at]) :
            Enter(Visit(Pairs[Top.at][i]), With([Top EXCEPT !.step = i + 1]))
      BY <1>6, <2>3 DEF DescendGroup
    <3>2. i \in DOMAIN Pairs[Top.at] /\ i \in Nat
      BY <1>2, <1>3, <2>3, <3>1
    <3>3. Pairs[Top.at][i] \in Nodes
      BY <1>3, <3>2
    <3>4. Visit(Pairs[Top.at][i]) \in Frames /\ room[Visit(Pairs[Top.at][i])] < room[Top]
      BY <1>2, <2>1, <3>2, <3>3, Types DEF Suits
    <3> DEFINE top == [Top EXCEPT !.step = i + 1]
    <3>5. top \in Frames /\ Keeps(top)
      BY <1>2, <3>2 DEF Frames, Keeps
    <3> HIDE DEF top
    <3>6. Enter(Visit(Pairs[Top.at][i]), With(top))
      BY <3>1 DEF top
    <3> QED  BY <1>1, <3>4, <3>5, <3>6, PushFits
  <2> QED  BY <2>2, <2>3
<1>7. CASE Invoke
  <2>1. Top.is = "node"
    BY <1>7 DEF Invoke, At
  <2>2. CASE Thunk(Top.at) /\ Top.fn \in Lambdas
    <3>1. Leave(TailCall(Top.fn))
      BY <1>7, <2>2 DEF Invoke
    <3> QED  BY <1>1, <3>1, LeaveFits
  <2>3. CASE ~(Thunk(Top.at) /\ Top.fn \in Lambdas)
    <3> DEFINE top == [Top EXCEPT !.busy = TRUE]
               new == CallFrame(Top.fn, Top.at)
    <3>1. top \in Frames /\ Keeps(top)
      BY <1>2 DEF Frames, Keeps
    <3>2. stack' = Append(With(top), new)
      BY <1>7, <2>3 DEF Invoke, EnterCall
    <3>3. new \in Frames /\ room[new] < room[Top]
      BY <1>2, <2>1, Types DEF Suits
    <3> HIDE DEF top, new
    <3> QED  BY <1>1, <3>1, <3>2, <3>3, PushFits
  <2> QED  BY <2>2, <2>3
<1> QED
  BY <1>5, <1>6, <1>7

\* A body, a text or a callback is put on the call that it belongs to.
LEMMA ApplyFits ==
    ASSUME NEW room, NEW M, Suits(room, M), IInv, Fits(stack, room, M),
           ApplyLambda \/ ApplyEval \/ Callback
    PROVE  Fits(stack', room, M)
<1>1. stack # <<>> /\ Top.is = "call"
  BY DEF ApplyLambda, ApplyEval, Callback, Applying, At
<1>2. Top \in Frames /\ Top.at \in Nodes /\ Top.fn \in Fns
  BY <1>1, TopType
<1>3. ASSUME NEW r, Leave(r) PROVE Fits(stack', room, M)
  BY <1>1, <1>3, LeaveFits
<1> DEFINE top == [Top EXCEPT !.busy = TRUE]
<1>4. ASSUME Top.fn \in Loops, ~Top.busy
      PROVE  top \in Frames /\ Keeps(top) /\ Executes(top, Loops)
  <2>1. top \in Frames /\ top.is = "call" /\ top.at = Top.at /\ top.fn = Top.fn /\ top.busy
    BY <1>1, <1>4, Begins
  <2> HIDE DEF top
  <2> QED  BY <1>1, <1>4, <2>1 DEF Keeps, Executes
<1> HIDE DEF top
<1>5. CASE ApplyLambda
  <2>1. Top.fn \in Lambdas /\ ~Top.busy
    BY <1>5 DEF ApplyLambda, Applying
  <2>2. CASE depth + 1 > MaxDepth
    BY <1>3, <1>5, <2>2 DEF ApplyLambda
  <2>3. CASE ~(depth + 1 > MaxDepth)
    <3>1. Enter(Visit(Body[Top.fn]), With(top))
      BY <1>5, <2>3 DEF ApplyLambda, top
    <3>2. Visit(Body[Top.fn]) \in Frames
      BY <2>1, FunctionAssumption, Types
    <3> QED  BY <1>1, <1>4, <2>1, <3>1, <3>2, PushFits DEF Loops
  <2> QED  BY <2>2, <2>3
<1>6. CASE ApplyEval
  <2>1. Top.fn \in Evals /\ ~Top.busy
    BY <1>6 DEF ApplyEval, Applying
  <2>2. CASE evalDepth + 1 > MaxEval
    BY <1>3, <1>6, <2>2 DEF ApplyEval
  <2>3. CASE ~(evalDepth + 1 > MaxEval)
    <3>1. Enter(Visit(Tree[Top.fn]), With(top))
      BY <1>6, <2>3 DEF ApplyEval, top
    <3>2. Visit(Tree[Top.fn]) \in Frames
      BY <2>1, FunctionAssumption, Types
    <3> QED  BY <1>1, <1>4, <2>1, <3>1, <3>2, PushFits DEF Loops
  <2> QED  BY <2>2, <2>3
<1>7. CASE Callback
  <2>1. Top.fn \in Builtins
    BY <1>7 DEF Callback
  <2>2. PICK f \in Callbacks[Top.fn] : EnterCall(f, With(Stepped))
    BY <1>7 DEF Callback
  <2>3. f \in Fns
    BY <2>1, FunctionAssumption
  <2>4. Stepped \in Frames /\ Keeps(Stepped)
    BY <1>1, TopType DEF Keeps
  <2> DEFINE new == CallFrame(f, Top.at)
  <2>5. new \in Frames /\ new.is = "call" /\ new.fn = f /\ stack' = Append(With(Stepped), new)
    BY <1>2, <2>2, <2>3, Types DEF EnterCall
  <2> HIDE DEF new
  <2>6. room[new] < room[Top]
    BY <1>1, <1>2, <2>1, <2>5 DEF Suits
  <2> QED  BY <1>1, <2>4, <2>5, <2>6, PushFits
<1> QED
  BY <1>5, <1>6, <1>7

\* Every other step pops a frame or changes the top one.
LEMMA OtherFits ==
    ASSUME NEW room, NEW M, Suits(room, M), IInv, Fits(stack, room, M),
           \/ Finish \/ Receive \/ NoDefinition \/ ReceiveGroup \/ Propagate \/ CallRefused
           \/ ArgumentsEnd \/ ApplyBuiltin \/ ReturnBuiltin
           \/ BackToBuiltin \/ BackToLambda \/ BackToEval
    PROVE  Fits(stack', room, M)
<1>1. stack # <<>>
  BY DEF Finish, Receive, NoDefinition, ReceiveGroup, Propagate, CallRefused, ArgumentsEnd,
         ApplyBuiltin, ReturnBuiltin, BackToBuiltin, BackToLambda, BackToEval,
         Applying, At, Returned
<1>2. ASSUME NEW r, Leave(r) PROVE Fits(stack', room, M)
  BY <1>1, <1>2, LeaveFits
<1>3. ASSUME NEW new \in Frames, Keeps(new), stack' = With(new) PROVE Fits(stack', room, M)
  BY <1>1, <1>3, TopFits
<1>4. Top \in Frames /\ Top.at \in Nodes /\ Stepped \in Frames /\ Keeps(Stepped)
  BY <1>1, TopType DEF Keeps
<1>5. ASSUME NEW f \in Fns
      PROVE  [Top EXCEPT !.fn = f] \in Frames /\ (Top.is = "node" => Keeps([Top EXCEPT !.fn = f]))
  BY <1>4 DEF Frames, Keeps
<1>6. CASE Finish \/ NoDefinition \/ CallRefused \/ ArgumentsEnd \/ ReturnBuiltin \/ BackToEval
  <2>1. \E r : Leave(r)
    BY <1>6 DEF Finish, NoDefinition, CallRefused, ArgumentsEnd, ReturnBuiltin, BackToEval
  <2> QED  BY <1>2, <2>1
<1>7. CASE Receive
  <2>1. \/ Leave(result)
        \/ stack' = stack
        \/ \E f \in Callee[Top.at] : stack' = With([Top EXCEPT !.fn = f])
    BY <1>7 DEF Receive
  <2>2. Top.is = "node" /\ Callee[Top.at] \subseteq Fns
    BY <1>4, <1>7, TreeAssumption DEF Receive, Returned
  <2> QED  BY <1>2, <1>3, <1>5, <2>1, <2>2
<1>8. CASE ReceiveGroup
  BY <1>8 DEF ReceiveGroup
<1>9. CASE Propagate
  <2>1. \/ Leave(result)
        \/ Top.is = "node" /\ stack' = With([Top EXCEPT !.fn = Undefined])
    BY <1>9 DEF Propagate
  <2> QED  BY <1>2, <1>3, <1>5, <2>1 DEF Fns
<1>10. CASE ApplyBuiltin
  <2> DEFINE new == [Top EXCEPT !.busy = TRUE, !.step = 0]
  <2>1. new \in Frames /\ Keeps(new)
    BY <1>4 DEF Frames, Keeps
  <2>2. stack' = With(new)
    BY <1>10 DEF ApplyBuiltin
  <2> QED  BY <1>3, <2>1, <2>2
<1>11. CASE BackToBuiltin
  BY <1>2, <1>11 DEF BackToBuiltin
<1>12. CASE BackToLambda
  <2>1. CASE \E r : Leave(r)
    BY <1>2, <2>1
  <2>2. CASE /\ result.is = "tail"
             /\ stack' = With([Stepped EXCEPT !.fn = result.fn, !.busy = FALSE])
    <3> DEFINE new == [Stepped EXCEPT !.fn = result.fn, !.busy = FALSE]
    <3>1. result.fn \in Lambdas /\ Top.fn \in Lambdas
      BY <1>12, <2>2 DEF IInv, BackToLambda
    <3>2. new \in Frames /\ new.is = Top.is /\ new.at = Top.at /\ new.fn = result.fn
      BY <1>1, <1>4, <3>1, TopType DEF Frames, Fns
    <3>3. stack' = With(new)
      BY <2>2
    <3> HIDE DEF new
    <3>4. Keeps(new)
      BY <3>1, <3>2, FunctionAssumption DEF Keeps
    <3> QED  BY <1>3, <3>2, <3>3, <3>4
  <2> QED  BY <1>12, <2>1, <2>2 DEF BackToLambda
<1> QED
  BY <1>6, <1>7, <1>8, <1>9, <1>10, <1>11, <1>12

LEMMA RestFits ==
    ASSUME NEW room, NEW M, Suits(room, M), Fits(stack, room, M),
           Start \/ Panic \/ Cancel \/ UNCHANGED vars
    PROVE  Fits(stack', room, M)
<1>1. Fits(<<>>, room, M)
  BY DEF Fits
<1>2. CASE Start
  <2> DEFINE fr == Visit(Root)
  <2>1. fr \in Frames /\ stack' = <<fr>>
    BY <1>2, Types, TreeAssumption DEF Start
  <2> HIDE DEF fr
  <2>2. <<fr>> = Append(<<>>, fr) /\ Len(<<>>) = 0 /\ <<>> \in Seq(Frames)
    OBVIOUS
  <2>3. Entered(<<>>) = 0
    BY LevelEmpty DEF Entered
  <2>4. 0 + 1 + room[fr] <= 0 * (M + 1) + M + 1
    BY <2>1 DEF Suits
  <2>5. Fits(Append(<<>>, fr), room, M)
    BY <1>1, <2>1, <2>2, <2>3, <2>4, FitsAppend
  <2> QED  BY <2>1, <2>2, <2>5
<1>3. CASE Panic
  BY <1>1, <1>3 DEF Panic
<1>4. CASE Cancel \/ UNCHANGED vars
  BY <1>4 DEF Cancel, vars
<1> QED
  BY <1>2, <1>3, <1>4

\* The counters stay within their limits.
LEMMA LimitsStep == ASSUME IInv, Limits, [Next]_vars PROVE Limits'
<1>1. {MaxDepth, MaxEval} \subseteq Nat /\ depth \in Nat /\ evalDepth \in Nat
  BY LimitAssumption DEF IInv, TypeOK
<1>2. CASE UNCHANGED <<depth, evalDepth>>
  BY <1>2 DEF Limits
<1>3. CASE ApplyLambda \/ ApplyEval
  BY <1>1, <1>3 DEF ApplyLambda, ApplyEval, Limits
<1>4. CASE BackToLambda \/ BackToEval
  BY <1>1, <1>4 DEF BackToLambda, BackToEval, Limits
<1>5. CASE Start
  BY <1>1, <1>5 DEF Start, Limits
<1>6. CASE Panic
  <2>1. Level(stack, Evals) \in Nat
    BY LevelType DEF IInv, TypeOK
  <2> QED  BY <1>1, <1>6, <2>1 DEF Panic, Limits
<1> QED
  BY <1>2, <1>3, <1>4, <1>5, <1>6
     DEF Next, Step, vars, Descend, DescendGroup, Finish, Receive, NoDefinition, ReceiveGroup,
         Propagate, Invoke, CallRefused, ArgumentsEnd, ApplyBuiltin, Callback,
         ReturnBuiltin, BackToBuiltin, Cancel

\* The entered bodies and texts are those that the counters count.
LEMMA EnteredIsCounted ==
    ASSUME IInv, stack # <<>>
    PROVE  Entered(stack) = depth + evalDepth
<1>1. /\ IsFiniteSet(Executing(stack, Lambdas)) /\ IsFiniteSet(Executing(stack, Evals))
      /\ depth = Cardinality(Executing(stack, Lambdas))
      /\ evalDepth = Cardinality(Executing(stack, Evals))
      /\ depth \in Nat /\ evalDepth \in Nat
  BY LevelType DEF IInv, TypeOK, CountersAreNesting, Level
<1>2. Executing(stack, Loops) = Executing(stack, Lambdas) \cup Executing(stack, Evals)
  BY DEF Executing, Executes, Loops
<1>3. Executing(stack, Lambdas) \cap Executing(stack, Evals) = {}
  BY FunctionAssumption DEF Executing, Executes
<1>4. Cardinality({}) = 0
  BY FS_EmptySet
<1> QED
  BY <1>1, <1>2, <1>3, <1>4, FS_Union DEF Entered, Level

\* The limits on calls and on $eval bound the stack of the goroutine: for a
\* program of height H, whose builtins call each other back at most B deep, it
\* never has more frames than fit on the bodies and texts the limits allow,
\* whatever the tail calls, groups, callbacks, errors and panics on the way.
THEOREM StackIsBounded ==
    ASSUME NEW height, NEW H, Heights(height, H), NEW order, NEW B, Orders(order, B)
    PROVE  Spec => [](Len(stack) <= (MaxDepth + MaxEval + 1) * (2 * H + B + 4))
<1> DEFINE room == Room(height, order, B)
           M == 2 * H + B + 3
<1>1. Suits(room, M) /\ H \in Nat /\ B \in Nat
  BY RoomSuits DEF Heights, Orders
<1> HIDE DEF room
<1>2. Init => Fits(stack, room, M) /\ Limits
  BY LimitAssumption DEF Init, Fits, Limits
<1>3. IInv /\ Fits(stack, room, M) /\ Limits /\ [Next]_vars => Fits(stack, room, M)' /\ Limits'
  <2> SUFFICES ASSUME IInv, Fits(stack, room, M), Limits, [Next]_vars
               PROVE  Fits(stack', room, M)
    BY LimitsStep
  <2> HIDE DEF M
  <2> QED  BY <1>1, DescendFits, ApplyFits, OtherFits, RestFits DEF Next, Step
<1>4. ASSUME IInv, Fits(stack, room, M), Limits
      PROVE  Len(stack) <= (MaxDepth + MaxEval + 1) * (2 * H + B + 4)
  <2>1. /\ {MaxDepth, MaxEval} \subseteq Nat /\ depth \in Nat /\ evalDepth \in Nat
        /\ depth <= MaxDepth /\ evalDepth <= MaxEval /\ M \in Nat
    BY <1>1, <1>4, LimitAssumption DEF IInv, TypeOK, Limits
  <2>2. CASE stack = <<>>
    <3>1. (MaxDepth + MaxEval + 1) * (2 * H + B + 4) \in Nat
      BY <1>1, <2>1
    <3> QED  BY <2>2, <3>1
  <2>3. CASE stack # <<>>
    <3>1. /\ Below \in Seq(Frames) /\ Top \in Frames /\ stack = Append(Below, Top)
          /\ Len(stack) \in Nat /\ Len(Below) = Len(stack) - 1
      BY <1>4, <2>3, SplitTop DEF IInv, TypeOK
    <3>2. Len(stack) + room[Top] <= Entered(Below) * (M + 1) + M + 1
      <4>1. Len(Below) + 1 + room[Top] <= Entered(Below) * (M + 1) + M + 1
        BY <1>4, <3>1, FitsAppend
      <4> QED  BY <3>1, <4>1
    <3>3. Entered(Below) \in Nat /\ Entered(Below) <= Entered(stack)
      BY <3>1, LevelAppend DEF Entered
    <3>4. Entered(Below) <= MaxDepth + MaxEval
      BY <1>4, <2>1, <2>3, <3>3, EnteredIsCounted
    <3>5. room[Top] \in Nat
      BY <1>1, <3>1 DEF Suits
    <3> DEFINE e == Entered(Below)
               d == MaxDepth + MaxEval
    <3>6. e \in Nat /\ d \in Nat /\ e <= d /\ Len(stack) + room[Top] <= e * (M + 1) + M + 1
      BY <2>1, <3>2, <3>3, <3>4
    <3> HIDE DEF e, d, M
    <3>7. \A a, b, c \in Nat : a <= b => a * c <= b * c
      OBVIOUS
    <3>8. e * (M + 1) <= d * (M + 1) /\ e * (M + 1) \in Nat /\ d * (M + 1) \in Nat
      BY <2>1, <3>6, <3>7
    <3>9. Len(stack) <= d * (M + 1) + (M + 1)
      <4> DEFINE x == e * (M + 1)
                 y == d * (M + 1)
      <4>1. /\ x \in Nat /\ y \in Nat /\ x <= y
            /\ Len(stack) + room[Top] <= x + M + 1
        BY <3>6, <3>8
      <4> HIDE DEF x, y
      <4>2. Len(stack) <= y + (M + 1)
        BY <2>1, <3>1, <3>5, <4>1
      <4> QED  BY <4>2 DEF y
    <3>10. d * (M + 1) + (M + 1) = (d + 1) * (M + 1)
      BY <2>1, <3>6
    <3>11. M + 1 = 2 * H + B + 4
      BY <1>1 DEF M
    <3> QED  BY <3>9, <3>10, <3>11 DEF d
  <2> QED  BY <2>2, <2>3
<1> QED
  BY InductiveInvariant, <1>2, <1>3, <1>4, PTL DEF Spec

=============================================================================
