# Formal models of jsonata (Go and JavaScript)

This directory holds TLA+ models of the two JSONata implementations of this
repository, the TLC configurations that check them on small instances, and
TLAPS proofs of the results that hold for every value of the constants.

## 1. The system

The repository contains one language, JSONata, implemented twice with the same
observable contract.

* **Go** (`src/go`): a lexer, a Pratt parser, post-processing of the syntax
  tree, a recursive evaluator with its function library, and around it two
  concurrent front ends: `JSONExecutor` (one call, bounded, with a compile
  cache) and `StreamEvaluator` (many expressions over many documents, with a
  cache of per-schema plans).
* **JavaScript** (`src/javascript`): a parser, an asynchronous evaluator, a
  function library, `json-executor.js` (one bounded call), and
  `node-executor.js` (a pool of worker threads around it).

| component | source | state | operations | hard behaviour |
|---|---|---|---|---|
| node worker pool | `javascript/src/node-executor.js`, `json-worker.js` | pending set, queue, slots with task, reason and thread, closed flag | evaluate, cancel, drain, message/error/exit handlers, retire, close | events of several threads in any order, termination that takes time, hung and dying workers, limits |
| JavaScript evaluation runtime | `javascript/src/jsonata.js` `evaluate` | shared depth counter, deadline, signal | entry, yield, return, throw, Promise.all, $eval | branches that interleave at awaits and outlive their parent |
| Go JSON executor | `go/internal/engine/json_executor.go` | compile cache: list and map | Evaluate, compile | compilation outside the lock, expiry between phases |
| Go plan cache | `bounded_cache.go` | ring, head, count, snapshot | Get, Set, Invalidate | wrap-around; lock-free readers |
| Go stream evaluator | `stream.go` | published expressions, plan cache | Add, Replace, Remove, Reset, EvalMany | expressions and plans read at different moments |
| JavaScript closed executor | `json-executor.js`, `execution-options.js` | none between calls | evaluate | phases and their error classes |
| Go environments and calls | `evaluator/env.go`, `eval_function.go`, `tailcall.go` | scopes, depth and $eval counters | bind, lookup, call, trampoline | budget balance on every exit, tail calls |
| paths and sequences | `evaluator/path.go`, `value.go`, `list_value.go` | none | steps, filters, focus and index binding | singleton flattening, keep-array |
| operators | `eval_binary.go`, `eval_group.go`, `eval_sort.go`, `eval_range.go`, `eval_transform.go`, `eval_regex.go` | none | one evaluation rule each | order of evaluation and of errors |
| ordered map | `ordered_map.go` | key list and map | Set, Delete, Range | the two agree, in insertion order |
| signatures | `parser/signature.go`, `evaluator/signature.go`, `signature.js` | none | parse, match, coerce | optional and variadic arguments |
| fast paths | `gnata.go`, `func_fast.go`, `parser/analysis.go` | none | analyse, evaluate | must agree with full evaluation |
| JSON admission | `json_admission.go`, `json_value.go`, `jstring` | none | decode within budgets | duplicate members, budgets |
| numbers | `internal/numeric`, `numeric.js` | none | arithmetic and range decisions | exactness at boundaries |
| lexer and parser | `lexer`, `parser`, `parser.js` | token stream | parse, ancestor resolution, tail marks | precedence, recovery |
| function library | `functions`, `functions.js`, `datetime.js` | none | about 70 functions | boundary cases |

### What makes each part correct

* **Worker pool**: every accepted call settles exactly once, with its own
  reply or with the first reason that ended it; limits hold; no worker idles
  while a call waits; closing ends everything.
* **Evaluation runtime**: the depth guard means nesting; an abort reaches the
  caller with its code and nothing is entered after it.
* **Closed executor and caches (Go)**: a call works with the expression it
  asked for; list and map of the cache agree and stay within budget; the plan
  cache is first in, first out, and what readers see is the ring.
* **Stream evaluator**: no result of an expression is reported for another one;
  removal is seen; an evaluation sees one version of the list.
* **Calls**: counters are nesting on every way out; tail calls take no stack;
  the tail call's sentinel ends at the trampoline; a cancellation comes out as
  a cancellation.
* **Fast paths**: selecting from the bytes and evaluating the decoded text are
  one language.
* **Paths and operators**: the two engines are one language; the two ways the Go
  evaluator walks a path come to the same items; `%` is the context the step
  below was taken in.
* **Lexer and parser**: a tree is read back from its text, by a table of
  precedence the parser does not know; the pass over the tree loses nothing.
* **Numbers, pictures, dates**: what a writer writes, its reader reads back; a
  formatted number is the number, rounded once.
* **Signatures**: a call that one engine refuses, the other refuses, and the
  arguments they accept become the same parameters.
* **Ordered map, the rest of the library**: pure (section 8).

The lines where each can go wrong in a way a test would hardly show are listed
under `hazards` in `PROJECT.json`, with the properties that cover them.

## 2. Plan

Order of work, most important behaviour first. Done:

1. `BoundedExecutor` (abstract), `NodeExecutor`: the worker pool.
2. `FIFOCache` (abstract), `BoundedCache`, `StreamEvaluator`.
3. `JSONExecutor`, over the same `FIFOCache`.
4. `EvalRuntime`: asynchronous evaluation.
5. `CallStack`: calls, tail calls and budgets.
6. Proofs for 1, 2 (the cache), 3 and 5.
7. `ExpressionLexer`, `ExpressionParser`, `JSParser` and `ExpressionGrammar`;
   `NumericValue`, `NumberPicture`, `IntegerPicture`, `DatePicture`; `Language`, which
   calls them.
8. `Values`, `GoEvaluation`, `JSEvaluation`: what an expression evaluates to, in
   both engines; `FastPath`, selection against the first; `Engines`, the questions
   asked of all of them.
9. Functions of the language in both evaluators: closures, partial application,
   `~>`, higher-order builtins, and tail calls with their values.
10. `GoSignature`, `JSSignature`: signatures and the arguments of a call by them.
11. Transforms in both evaluators: a copy that is changed target by target.
12. `GoCollections`, `JSCollections`: the library on arrays and objects, with `$sort`,
    `$each` and `$sift` in the evaluators.
13. Proofs for the rest of 2, for the safety of 4, and of the refinement in 1.
14. Proofs that what 1 and 4 do is bounded and never stuck, that 5 catches every
    sentinel and bounds the stack, and about the decimals of 7.
15. `IntegerFunctions` and `NumberFunctions`, and the proofs that `$parseInteger`
    reads back what `$formatInteger` writes, and that the text of `$formatNumber` says
    its number.

Left, in this order:

16. Regular expressions in the evaluators; `%` in `JSEvaluation`; `/` and `%` on
    exact decimals.
17. The JavaScript closed executor (`json-executor.js`): its phases and error
    classes around `EvalRuntime`.

The number of runs is kept at a dozen. The pure modules share a run per family:
`Language.cfg` for texts, numbers and dates, `Executor.cfg` for what evaluates. In
each, an initial state or a first action picks the input.

## 3. Modules and their correspondence to the code

`map` in `PROJECT.json` gives the lines of every definition; this section gives
the reading.

**BoundedExecutor** is what a bounded pool promises: tasks are submitted while
open and below the limit, started, and finished once; `Shutdown` stops
admission.

**NodeExecutor** (`node-executor.js`). One event loop: `pc` is `"loop"` between
handlers and `"drain"` inside `drain()`, so a handler runs whole before the next
one, and `DrainStep` is one turn of the loop in `drain`. `Accept` and `Refuse` are
`evaluate()`; `Cancel` is the timer or the signal; `HandleMessage` and
`HandleEvent` are the slot's listeners; `RetireEnds` is the `finally` of
`retire()`; `Close` and `CloseResolves` are `close()`. The worker threads act
between handlers: `Reply` posts a message, `Crash` ends the thread, `Stop` is the
end of `terminate()`. Events of a slot that has been retired still arrive, and
are dropped by the code's own guards. A slot name is used again only after its
retirement ended, which a fresh object per slot gives for free.
`worker.terminate()` does not reject in Node, so the `catch` of that promise is the
same step as its success.

**FIFOCache** is a first-in-first-out cache as a sequence of pairs. **BoundedCache**
is the ring of `bounded_cache.go`: `entries`, `head`, `count`, and the `snapshot`
readers load without the lock. Its refinement mapping reads the ring from the
oldest entry. **JSONExecutor** implements the same abstraction with a list and a
map.

**StreamEvaluator** (`stream.go`) extends `BoundedCache`. Mutators take `mu`,
store a new slice, invalidate the cache and unlock (`Begin`, `Refused`, `Store`,
`InvalidateAndUnlock`); readers take no lock: `Load` reads the slice, `Hit` or
`Build` the plan, `SetPlan` publishes it, `Evaluate` runs one expression and
`Fail` ends with an error. Between any two of these another actor may act. The
variables `calm`, `held` and `overlapped` are history for the
properties.

**JSONExecutor** (`json_executor.go`). `Step(c)` is the next phase of call c:
entry, lookup under the lock, compilation outside it, insertion under it with
the second lookup, and evaluation; `Expire` is the deadline, at any moment.
Byte budgets are a nondeterministic refusal.

**EvalRuntime** (`jsonata.js` `evaluate`). A program is a tree of nodes; each node
is one activation of `evaluate`. Sequential parents run children in order,
parallel ones (`Promise.all`) start all of them. The shared `depth` is raised at
entry and lowered at exit, each activation yields at entry, and the signal and
the deadline are looked at where the code looks. A parallel parent rejects with
the first rejection while its other children go on.

**CallStack** (`eval_function.go`, `eval_chain.go`, `eval_group.go`, `env.go`,
`parser/tailcall.go`). The Go stack is a sequence of frames: nodes under
evaluation, groups, and calls. A frame's record says where it stands; `result`
is what the frame that ended last returned. `Enter`..`Leave` are `evalNode`;
`Invoke`, `ApplyLambda`, `BackToLambda` are the trampoline; `ApplyBuiltin`,
`Callback`, `BackToBuiltin`, `ReturnBuiltin` are higher-order builtins; `ApplyEval`
and `BackToEval` are `$eval`; `DescendGroup` and `ReceiveGroup` are grouping;
`Panic` is the budget panic recovered in `evalCore`. `Marked` is the least set
closed under the parser's marking. Abstractions: values are "a value", a function,
undefined, an error or the tail call's sentinel; a group evaluates each key and
value at most once; `MaxApply` bounds the callbacks of a builtin; signature errors
of builtins are part of `ReturnBuiltin`; partial application and composition are
builtins with a callback; the context checks of the call loop and of the node
entered next are one step.

**Values** is what both evaluators compute with: tagged records for JSON values,
undefined and errors, and Go's sequences; equality, order, truth, lookup and sorts
on them. An object keeps its members in order, duplicates included. Numbers are
integers; a string is ascii or not, and a string function of it is a term.

**GoEvaluation** (`internal/evaluator`) is `Eval` on the trees `ExpressionParser`
makes: one definition per node type, with the environment as a sequence of frames.
A path is walked in two ways, as in the code: `evalPathSimple` maps a step over
the items of a value, and `evalPathTuple` maps it over a list of contexts, each
with its own environment, which is where `#$i`, `@$v` and `%` live. The helpers
have the names of the code (`evalName`, `evalSubscript`, `evalGroupBy`...). A function
is a record: a lambda with its environment, a builtin, a partial application with
holes, or a composition. `evalFunction` returns a `TailCall` for a marked call of a
lambda, as the code does, and `callFunction` makes it (`Landed`).

**JSEvaluation** (`jsonata.js` and `processAST` in `parser.js`). The pass makes steps
with predicates, stages and groups out of the same trees, and `Evaluate` is
`evaluate()` on them. JavaScript marks its arrays (sequence, kept, constructed,
tuple stream, outer wrapper); a list here is a sequence with its set of marks.

**GoSignature** (`parser/signature.go`, `evaluator/signature.go`) and **JSSignature**
(`signature.js`) give the same texts two readings. A signature is the sequence of
its symbols, which the constant `Symbols` holds for each text of a program. Go makes
a list of parameters and gives them the arguments from left to right, one after
another; JavaScript makes a regular expression over the types of all arguments,
which may give an argument back to a later parameter. `callLambda` and `apply` call
them where the code does; in JavaScript builtins have signatures too, where Go's
builtins check for themselves. A signature that does not parse is an error of the
whole expression (`ParsedSigs`, `ParsedSignatures`).

**GoCollections** (`functions/*.go`) and **JSCollections** (`functions.js`) are the
library's functions on arrays and objects that call nothing of the program
(`$append`, `$distinct`, `$zip`, `$merge`, `$spread`, `$lookup`, `$sum`, `$max`, `$min`)
with `$boolean`, `$not`, `$assert` and `$error`. Those that call back (`$map`, `$filter`,
`$single`, `$reduce`, `$sort`, `$each`, `$sift`) are in the evaluators, which they call. A
comparator may answer anything, so `$sort` is a stable sort by what it says of
two items; one that is no order, on which a merge and Go's insertions may differ, is
left out. Go's functions look at their arguments themselves, JavaScript's signatures do.

A transform (`eval_transform.go`, `evaluateTransformExpression`) changes objects in
place, which values do not have. So the objects of its copy get an identity, where
they stood (`Identified`); a store holds the members of those that were changed;
and whatever is evaluated next is given the target as it is now (`Current`): a
clause sees what the one before it and the targets before did. An object keeps its
identity when an update puts it elsewhere. A pattern and an update that take an
object from outside the copy, an update that holds its own target, and the
`$clone` a host may bind are left out.

**FastPath** (`analysis.go`, `json_admission.go`, `gnata.go`, `func_fast.go`) extends
`GoEvaluation`. `AnalyzeFastPath` is the compiler's decision, `Admit` the validation
of the whole text, `TryPath`, `TryComparison`, `TryFunc` the cascade,
`EvaluateDecoded` the fallback, `Cancel` the context. `Full` is the evaluator. gjson
is external: a component names a member of an object, or an element of an array
if it is a numeral. For a string that is not ascii Go's byte-wise functions give
another term than the language, so that a missing check shows.

**Engines** asks three questions of an answer of `FastPath`: does `JSEvaluation`
give the same (`EnginesAgree`), does an unused position on a step, which turns the
walk over values into the walk over contexts, leave the items alone
(`TuplesAgree`), and does a path with `%` say what the path says that remembers the
context in a variable (`ParentIsContext`). `MCFastPath` combines the expressions
and texts; `MCJSONExecutor` joins it with the calls of `JSONExecutor`: a behaviour
is either concurrent calls, or one evaluation.

**ExpressionLexer** (`internal/lexer`, and the tokenizer of `parser.js`, which takes
the same words) is the lexer on symbols. It does not know whether `/` divides; the
parser tells it. **ExpressionParser** (`parser.go`, `process.go`) is the Pratt parser
with the code's numbers for binding powers, and `ProcessAST`; each `advance` is made
with the `infix` flag as the code has it at that moment. **JSParser** (`parser.js`) is
the other engine's, where the call that leaves a token says how the next one is
read. **ExpressionGrammar** is written from the other side: a grammar is a record
(`Go`, `JavaScript`), whose `table` orders the operators; `Writable` says which trees
need no parentheses in it, `Spell` writes them, and `JSTree` is a tree in JavaScript's
forms. Each engine's parser reads back the trees that can be written in its own
grammar; one that both let be written is one text, read alike by both.

**IntegerFunctions** calls `$formatInteger`, and `$parseInteger` on the text it
returned (`fnFormatInteger`, `fnParseInteger`). **NumberFunctions** calls `$formatNumber`
(`fnFormatNumber`), and holds the reader of its text (`ReadChar`, `Reading`). A picture
such as `0,%.0`, whose only separator of integer digits has no digit to its right, makes
the loop of `computeIntGroupPositions` (`string_format_number.go:358-360`) go round for
ever: the result is `endless`, and `Loop` is the only step left. **Language** goes on from
both: a tree is spelled, parsed and processed; an instant is written with a picture and
read back. All three are over the state of **LibraryCalls**: the call being made and what
the last one returned.

**NumericValue** (`internal/numeric`) is the decimal of a JSON number: every spelling
of a value is one `[negative, coefficient, adjusted]`. **DecimalNumerals** are the digits
of a natural number, and back. **NumberPicture**
(`string_format_number.go`), **IntegerPicture** (`string_format_integer.go`) and
**DatePicture** (`datetime_*.go`) are the writers and readers. A picture is a
sequence of parts, a text a sequence of what its reader tells apart: words come with
the blanks, commas and hyphens between them, and a word that a letter follows is not
read (`LetterAt`); the calendar
is the proleptic Gregorian one, with ISO weeks. The last word of an ordinal is its
cardinal and then `"th"`; a separator of a decimal picture is never a hyphen, which
`parseIntegerWithPicture` would take for a sign and refuse (D3137).

Abstractions of the evaluators: numbers are integers, so `/` and `%` are left out;
`:=` stands in a block, and a function keeps the bindings it was made with, and its
own name, so an expression that binds a name after the function that uses it is
left out; the JSON text `$string` and `&` make of an array or object is left out.

## 4. Runs

| run | bounds | shows |
|---|---|---|
| `NodePool.cfg` | 4 calls, 3 slot names, 2 workers, 3 pending, 2 closers | safety of the pool: accounting, limits, replies, work conservation, closing, first reason |
| `NodePoolLive.cfg` | 3 calls, 2 slot names, 1 worker, 2 pending, 1 closer | refinement of `BoundedExecutor`; every accepted call settles, closing completes |
| `StreamEval.cfg` | 2 mutators and 3 readers with one call each, calls under way weighing at most 4 (below); 2 expressions, 3 lists of indices, 2 schemas, a ring of 2 | what concurrent updates and evaluations guarantee; ring = snapshot = FIFO cache |
| `StreamReplace.cfg` | 2 mutators that only replace, 2 readers | a guarantee of the comments that fails (section 7) |
| `Executor.cfg` | 3 calls, 4 texts (one does not compile), budget 2; about 320 expressions on 100 texts, and about 380 programs with functions, signatures, transforms or the library, on 10 | compile cache under concurrent calls and expiry; selection, evaluation and the two engines give one meaning |
| `SelectGroup.cfg` | an expression `Executor.cfg` leaves out | its grouping is lost (section 7) |
| `EvalTree.cfg` | 11 nodes, sequential and parallel, stack 4 | guards, abort and settlement of asynchronous evaluation |
| `EvalFlat.cfg` | siblings of one `Promise.all`, stack 3 | depth is not nesting (section 7) |
| `Calls.cfg` | two recursive functions, a builtin with callbacks, `$eval`, groups; depth 3, 2 turns, `$eval` 2, 2 callbacks | counters, tail calls, sentinel, cancellation, termination |
| `GroupedTail.cfg` | the same program with a grouped tail call | the sentinel is lost (section 7) |
| `Language.cfg` | 60 integers, 8 instants, 12 decimals with the pictures of `MCLanguage`; every form of expression next to every other | readers read what writers wrote; each parser is its grammar |
| `SlashDivides.cfg` | quotients of every kind of dividend | a division is read as a regular expression (section 7) |

Why the bounds are enough:

* *Pool.* Two workers and a third slot name let one slot be retired while its
  replacement runs; three pending calls of four let one wait, two run and one be
  refused; two closers let `close()` be called while it is in progress. The live
  run needs a queue behind one worker and a spare slot, no more.
* *Stream.* Two readers may build the plan of one schema at the same time, and
  two mutators may follow each other between a reader's two loads. A third store on
  the ring of two evicts the oldest plan and moves the head, with a mutator or with
  other readers between its steps. `MCStreamEvaluator` bounds the calls that start
  (`WithinBound`): together they weigh at most 4, and one that stores no plan weighs
  twice, for it leaves the ring alone. Two mutators meet two readers, and one mutator
  meets three readers. For every capacity the ring is proved (section 6).
* *Compile cache.* Three calls can compile one text at once and evict it; a
  budget of two evicts with three good texts.
* *Evaluation tree.* A parallel node with a sequential descendant and `$eval`
  below it, and a stack of 4 that is reached by nesting and not by it alone.
* *Calls.* Depth 3 is two nested calls and one refused; two turns of the
  trampoline are one tail call and one refused.
* *Expressions and texts.* Paths of one and two steps reach every case of the
  selection's fold, and each kind of step meets each kind of step before it in
  both walks; texts hold null, empty, singleton, nested and mixed arrays,
  duplicate members inside and outside the selected part, and broken syntax;
  records repeat a value under one key, miss it, and nest once more. The programs
  have a tail call of a function itself, of another and back, in a block, in a
  binding, of an argument and of a builtin; closures; partial applications, chains
  and compositions; and callbacks of every arity. Every type of parameter meets an
argument of every type, optional, repeated and contextual parameters meet too few,
too many and misplaced arguments, and a signature is applied from a direct call, a
chain, a callback, a tail call and a partial application. The targets of a transform
hold each other, in both orders, stand in the list twice, and share an object that
an update put into both; its clauses read what was changed before.
* *Language.* Integers stand at every change of words and digits; instants at the
  ends of years, leap days and ISO weeks; decimals at halves and at carries; two
  instants put together in one text contradict themselves. An operator or form
  under another in each of its places is where precedence can go wrong.

The runs of evaluation end, so they do not check deadlock: calls return, an answer
is the last state, a settled promise stays settled.

`Executor.cfg` leaves out the expressions on which the code is known to disagree
with itself or with the other engine (section 7), and `EnginesAgree` the texts with
arrays of arrays, of one item or of none, on which JavaScript's marks and Go's
sequences differ; `OneMeaning` covers them. `GroupedCases` is what
`SelectGroup.cfg` runs.

## 5. Fairness

* **NodeExecutor**: the event loop takes its turns (`DrainStep`), armed timers
  fire (`Cancel` with `"timeout"`), `terminate()` completes (`Stop`, `RetireEnds`),
  promise continuations run (`CloseResolves`). Nothing is assumed of a worker: it
  may hang forever, and calls settle by their timers. `evaluate()` arms the timer
  for every accepted call, which is why this fairness is the code's.
* **EvalRuntime**: a microtask that can run, runs (`WF_vars(Step)`). The abort and
  the deadline may never come.
* **CallStack**: the goroutine keeps running (`WF_vars(Step)`). That evaluations
  end rests on the depth and iteration limits, with bounded callbacks.
* The other specifications state no liveness and assume no fairness.

## 6. Proofs

`tlapm` checks eight modules; nothing is assumed but the named assumptions on the
constants, which TLC evaluates in every run: the limits of
the pool, the compile cache and `EvalRuntime` and the digits of an index are positive, those of
`CallStack` natural, `MaxSchemas` is an integer, `None` is
outside the sets it stands beside, the trees of a program and its functions
are well formed and a node on the way of a tail call's result stands in one place,
the syntax of `EvalRuntime` is a finite tree, index lists are
sequences of integers, and `Keys` and `Plans` are those `StreamEvaluator` makes; the
scales of number words are different words for falling magnitudes down to a thousand, none a
word of a smaller number; the pictures of `IntegerCalls` are of one of the four kinds, and
`NumberCalls` are spellings of numbers with pictures of characters, none of which is the
digit it stands for. What
a single theorem needs besides is a hypothesis of it, named below.

* **NodeExecutorProofs.** `IInv` strengthens the type invariant with: slots and tasks
  in use are finite sets (`Finite`); element by element, each pending call is
  queued or held by exactly one slot and nothing else is (`Accounting`); a slot id
  that names no slot carries nothing over to the next slot of that name
  (`Unused`); only a living thread evaluates (`Working`); a closed executor has an
  empty queue and its closers await every slot (`Closing`). The checked invariants
  are not inductive alone: that a reply belongs to the task of its slot, for
  example, needs that a slot is not reused while a message is under way. Each
  action keeps `IInv`; task accounting, pool bound, no abandoned work, matching
  replies, work conservation and finality of close follow, and the two action
  properties (promises settle once, the first reason stands).
  `Spec => Executor!Spec`: the pool takes only the steps of
  `BoundedExecutor`. A call is waiting while it is queued and running while a slot has
  it, so the bound on what runs is that of the slots apart from the one about to be
  given a call (`RoomToRun`); a settled call is finished because a reply under way
  always says something (`RepliesSay`); `Close` finishes exactly what waits.
  Two theorems are what safety says of liveness, for finitely many calls, slots and
  closers. `WorkIsBounded`: a sum of what is left to do (`Left`: of a call until it
  settles, of a slot until its thread, its reply and its events are gone, of a close
  until it resolves, of `drain()`) falls with every step, so there are at most 12 steps a
  call and 2 a close. `NeverStuck`: while a call is pending or a close waits, the
  guard of something the host does by itself holds (`Moves`): a turn of `drain()`, a
  timer, `terminate()`, the end of a retirement, the answer of `close()`. It needs that
  a close awaits only slots that are being retired (`Awaited`). With the fairness of
  section 5 these are why `EveryTaskSettles` and `CloseCompletes` hold.
* **JSONExecutorProofs.** `IInv` adds to the checked invariants `Filed` (what is
  cached under a text was compiled from it) and `CallState` (a call past its entry
  has its text, an idle call holds no expression). From it: own expression,
  consistency of list and map within the budget, and, as action properties, that
  calls of one text converge on the expression already cached and that expiry
  ends a call; and the refinement of `FIFOCache`.
* **CallStackProofs.** `Shape` says who may stand on whom: everything inside an
  activation at work (`InsideBusy`), each call on a builtin or on a call node that
  is not a tail call of a lambda (`Linked`), and whatever stands between a lambda's
  body and a call it makes last is marked (`TailIsMarked`). `IInv` is types,
  `CountersAreNesting`, `Shape` and what the top frame may be given `result`.
  Counters are sums over the stack, so each push and pop changes both sides alike.
  From it: types (no counter below zero), counters = nesting, completeness of the
  marking, and that a cancellation reaches the bottom of the stack. `SentinelsAreCaught`
  adds `Way`: below a node on the way of a tail call's result (`Carriers`) stands either
  the lambda whose loop makes the call, or another such node, about to hand the result
  on (`Supported`). Its hypothesis `UngroupedTails` is that none of these nodes has a
  group; that a group keeps what comes to it is finding 3.
  `StackIsBounded` is about the Go stack itself, not the counters: each frame has a
  `Room`, how far the stack can grow on it until a lambda body or an `$eval` text is
  entered, and the counters bound how many of those there are, so `Len(stack)` is at most
  `(MaxDepth + MaxEval + 1) * (2 * H + B + 4)`. Its hypotheses are that the syntax is finite
  (`Heights`) and that builtins which call builtins back come to an end (`Orders`), as
  compositions and partial applications, which are made of functions made before,
  do. The program and all limits are arbitrary.
* **StreamEvaluatorProofs** begins with the plan cache. Its invariant `IInv` is
  arithmetic on the ring: the i-th oldest entry lies at `(head - count + i) % Capacity`,
  and the snapshot is that sequence. From it: types, snapshot = ring, distinct keys, and
  the refinement of `FIFOCache`. For the evaluator, `StreamInv` adds five parts to the invariant of the cache.
  `Mutex`: whoever is in the critical section holds the mutex and has loaded what is
  published. `Provenance`: whatever a list, a plan in hand or a cached plan has at an
  index was registered there; a key carries its indices, so a hit cannot bring a plan
  for others. `Calm`: a call no mutation overlaps works on what is published, and
  inside the critical section no call is calm. `BuiltFresh`: a call about to store a
  plan has built it from what is published, unless a store overlapped it. These are
  what `NoForeignResult`, `RemovedIsUndefined` and `PlansFollowExpressions` need to be
  inductive. Every step of the evaluator is a step of the cache or leaves it alone
  (`EvaluatorUsesTheCache`), so the theorems on the cache hold within it.
* **EvalRuntimeProofs.** The counter is not the nesting: it lies between the
  activations that go on or threw after their operands began (`Begun`) and all that go on
  or threw (`Held`): a throw never gives back what was taken, and one at the entry may
  have taken nothing. Above a
  node that has begun stands a chain, as long as its level, of nodes that have begun
  (`Chained`), so the counter is at least its level and the guardrail bounds it. When
  the root is done nothing is held, and the counter is zero. `Aborts` ties a rejection
  with "abort" to the signal and keeps it out of what `$eval` hides. `Reported` says that
  an operand that rejected has told its parent (`OperandsReport`). From it,
  `NeverStuck`: until the caller has its outcome and every activation left behind has
  ended, one of them can go on, found as the deepest that is active. `WorkIsBounded`:
  each step uses up one of `3 * Cardinality(Nodes) + 1` units of work, the abort and the
  deadline none. With `WF_vars(Step)` these are why `Settles` holds.
* **NumericValueProofs**, for digits of any number and exponents of any size.
  `FormatKeepsTheDecimal`: each of `Format`'s forms spells the decimal it was given.
  `ComparesNumbers`: comparing signs, leading exponents and then digits gives the sign
  of the difference of the two numbers, each taken as an integer at a common scale
  (`ValueAt`). `ComparisonIsAnOrder`: what sorting relies on.
  `FixedRoundsHalfToEven`: `Fixed` gives the nearest number of its last place, the even one
  of two. `EveryNumberSaysItsValue`: the text of `$formatNumber` is its number times the
  scale of its picture, rounded once, with as many digits as the picture allows. The
  invariant (`NumbersIInv`) says that the result is what the code returns for the arguments of
  the call under way, over `NumbersSpec`. Its proof splits the text by what a reader makes of
  it: prefix, suffix and separators are not read, and each digit is appended to the part
  being read (`Says`). Padding and the zeros taken off do not change the number that is
  read. The exponent of a mantissa is chosen before the mantissa is rounded, so rounding
  happens once. `Nearest` compares decimals as the code does, and `ComparesNumbers` says
  what that means. The one exception, `LostCarry`, is what the code does (section 7).
* **IntegerPictureProofs**, for every integer and every picture: `$parseInteger` answers
  to the text of `$formatInteger` what `IntegersReadBack` says (`EveryIntegerReadBack`).
  The invariant adds that the text waiting to be read is the one written for the call
  under way. The specification is `IntegersSpec`, whose `AnotherThan` is any step to the
  call of another function, as every other action of `Language` is; `Language` itself reaches
  recursive operators. `NumbersSpec` is made the same way. What the functions compute rests
  on three kinds of lemmas. A fold is turned into the position of a step after a sequence (`Along`), which goes through
  concatenation. A recursive function is shown to exist by its history
  (`CourseExists`), and from there on only its equation is used. Then, for each numeral,
  the least number that would not be read back is led to a smaller one:
  *words* (`WordsReadBack`) by saying what reading them adds wherever only greater scales
  have been read (`Reads`): a scale absorbs exactly the segments of its own quotient,
  although that may be named with scales too, as in "nine thousand and seven trillion";
  *letters* (`LettersReadBack`) and digits by taking off the last one;
  *Roman numerals* (`RomansReadBack`) by taking off the first entry and showing that no
  letter of it is counted against what follows.
  *Decimals* (`DecimalsReadBack`): separators, padding and the ordinal suffix are not read,
  and a sign is read only in front.
* **DataFacts** holds lemmas on numbers, on queues, on sequences and their folds (`Along`),
  and on recursive functions (`CourseExists`) such as `DecimalDigits`. `LeastNatural`
  (a set of numbers that is not empty has a least one) stands in for induction: a
  proof looks at the least number at which the claim fails.

Only model-checked:

* liveness, which needs ENABLED and is out of the prover's reach: `EveryTaskSettles`,
  `CloseCompletes`, `Settles`, `EveryEvaluationEnds`, and the fairness in
  `ImplementsExecutor`;
* what the recursive modules compute: `OneMeaning`, `EnginesAgree`, `TuplesAgree`,
  `ParentIsContext`, `DatesReadBack`, `TextsAreTheirTrees` and
  `PassKeepsEverything`. The evaluators, the grammar, the lexer
  and parsers, the signatures, the collections, the pictures of dates and
  `Values` are written with RECURSIVE operators, as the code recurses over trees, texts and
  values; the prover takes no theorem in a module that reaches one. Induction over numbers
  can be had from least counterexamples, as in `NumericValueProofs` and
  `IntegerPictureProofs`, where recursion is a recursive function; induction over trees and
  the library's induction theorems, which take an operator as a parameter, cannot.

## 7. Findings

Each is a violation run; `findings` in `PROJECT.json` quotes the lines.

1. `StreamReplace.cfg`: a plan built from the old list survives `Replace`. In the
   same window an evaluation that started before `Reset` can go on with the list
   published after it, where `stream.go:198-199` says it keeps its snapshot: the
   list and the plan are loaded at different moments.
2. `EvalFlat.cfg`: the depth shared by the operands of one `Promise.all` reports a
   stack overflow for an expression that does not nest.
3. `GroupedTail.cfg`: the sentinel of a grouped tail call becomes a group item.
4. `SelectGroup.cfg`: the grouping of a path of several steps is lost when the
   path is selected from the bytes.
5. `SlashDivides.cfg`: after the `]` of a subscript, and after the end of a block of
   several expressions, a lambda or a transform, `/` opens a regular expression.

Also seen while modelling, without a run of their own. Each is code the model
translates as it is; the runs leave the input out, or the property names it.

*Selection* (`FastPath`). A builtin's name bound by the caller is ignored, although
`gnata.go:318-320` says that a selected expression references no variable. A quoted
numeral names an element of an array in selection and a member in evaluation
(`analysis.go:312`). `[]` on a call over a path is lost (`analysis.go:166` does not
look at `KeepArray` of the call). The position of `a#$i.b` is not looked at, so an
empty `b` is answered and not mapped. `[]` on a single name forces an array in
neither Go route, and does in JavaScript (`parser.js:1310`).

*Parser*. The group of a node whose operands the pass does not visit keeps its raw
dots: `orders[0]{a.b: c}` fails with "unknown binary operator: ." at
`eval_binary.go:153`, and so does that of an array, object or block without items
(`UnvisitedGrouping`). The group of an inner path is dropped in
`a.b{k:v}.c` (`DroppedGrouping`). A function step of a path ignores its own `[]` and
group. Trailing commas are accepted. A condition without alternative cannot be an
object key. In JavaScript a `/` after `a[]`, a sort, a lambda or a transform opens a
regular expression (`MisreadQuotient`). There the condition of `?:` and `??` is a JSON copy
of the left operand (`parser.js:574` and 872), which loses what JSON has no form for: a
regular expression becomes `{}`, so that `$match(s, /x/) ?: a` tests another one than
it answers with; a lambda with a signature becomes one that fails with a TypeError when
it is called; a number that is kept exactly becomes an object (not modelled: the numbers
of a text are those JSON has). `LostInClone` keeps such
texts out of `TextsAreTheirTrees` for JavaScript, and `Cloned` in `JSParser` and
`JSEvaluation` makes the copy.

*Number pictures*. `"0,%.0"` does not end (`string_format_number.go:358-360`, `Endless`
and `Loop`). `.0e0` writes 0.99 as `.0` (`LostCarry`). An irregular
grouping can write a leading separator; `%` between digits is accepted; `".00"` of
0.5 is `"0.50"`.

*Date pictures*. A month's name in lower case with a width is written and not read;
`[zN]` with an offset other than zero is not read; nor are words from 100000 on, or
`[d01]` over day 99. A word that a letter follows is refused
(`datetime_parse.go:875`): by `[Ywo]T`, "two thousand and twenty-sixthT" is the year
2020 and a text that does not match. A numeral in letters may read on into a literal
of letters. `RunsOn` says both. A word that is missing is the number -1 with nothing
read, and the next part goes on from there. `[P]` alone is D3110; a fraction may carry a sign; a year "-0" is
read. `Legible` and `Determines` in `Language` say these of the pictures.

*Go evaluation.* `evalSubscript` evaluates a predicate on the first item to decide
whether it is an index, and again to filter, so it runs twice on that item. A
variable bound by `#$i` or `@$x` is lost after a sort of a path
(`a^(b)#$i.$i`), after a block (`(a.b)#$i.$i`), before a predicate
(`a#$i[0].$i`, `a@$x[0].$x`) and above the step of a `%` (`a.b#$i.%.$i`). A group of a
single step with a position is empty (`a#$i{'k':$i}`), and of a path merges equal
values (`a#$i.b{'k':$i}`). `a.[b,1]` is flattened by the walk over contexts and not by
the other, which is why `TuplesAgree` leaves array steps out. The parent branch of
`evalPathSimple` is never reached.

*JavaScript evaluation.* The grouping of an empty input array pushes undefined onto
the array it was given; `evaluatePath` sets `keepSingleton` on an input array; the
sort of more than one tuple loses the mark of the stream.

*Go and JavaScript differ* on:

* what a text means (`Go` and `JavaScript` in `ExpressionGrammar`). `~>` holds with
  45 and from the right in Go, with 40 and from the left in JavaScript: `x = y ~> $f` is
  `x = (y ~> $f)` in Go and `(x = y) ~> $f` in JavaScript. `??` and `?:` hold with 20 in Go
  and with 40 in JavaScript: `a or b ?: c` is `(a or b) ?: c` and `a or (b ?: c)`. `..`
  is an operator anywhere in Go, and stands in array items only in JavaScript; the
  parts of a transform may be conditions in JavaScript only;
* what is made of one item or none: `a[]` on an object or scalar; `a^(b)` and `a#$i`
  on an array of one or none; a mapped field of only empty arrays (Go `[]`, hence
  T2001, T2010 and `$exists` true; JavaScript undefined); `a{'k':[b]}`; `[a].b` and
  `a.[b].$` of nothing; `*` on an array of one; a grouping of undefined (Go undefined,
  JavaScript `{}`); `$.a` on `[{"a":[1]},1]`; `1..1`;
* undefined operands: `c + a` and `c < a` with an undefined left; a descending sort of
  undefined;
* predicates: `a[[0]]`; `nonexistent[[0,-1]]` (JavaScript two undefineds); a numeric
  predicate that depends on the item (Go decides on the first); an index after a
  step with `#` or `@` (JavaScript over the whole stream, Go per tuple);
* a first step that is a function, object or array on an array input (Go maps
  items, JavaScript takes the whole); `a@$x.{...}` and `a@$x.*` on an array input;
  `**`, which includes the input in JavaScript;
* functions: the context of a body is that of the call in Go and that of the
  definition in JavaScript; `x.$f(1)` gives the item to a lambda with a parameter to
  spare in Go only; `a ~> $f ~> $g` ends in Go when `$f` gives undefined; `[]` on a call
  of a builtin in tail position, and the sequence that one returns to a callback
  (`$map(a, function($x){ $keys($x) })`), are left as they are in JavaScript, whose
  thunk is applied without the end of `evaluate()`;
* signatures. Undefined for a parameter that has a type: the call is undefined in Go,
  for a function too, and JavaScript passes it on (T0410 for a function). The context
  that stands in for an argument (`-`) is checked in JavaScript only (T0411). `<n-n>` or
  `<n?n>` with one number: Go gives it to the first parameter and fails (T0410),
  JavaScript to the second. `<n+s>` without a number: Go calls, JavaScript fails. `a<x>`:
  JavaScript refuses every array but an empty one (T0412), as no value has the type x.
  Symbols that are not types: S0402 in Go, skipped in JavaScript. A partial application
  of a lambda keeps its signature in Go only. Of the builtins Go gives a signature to
  `$uppercase` and `$lowercase`, looked at in a direct call only; without an argument
  they fail with T0410 in Go and T0411 in JavaScript on a context that is not a string;
* errors of calls: of `a ~> $x` with `$x` undefined (Go T1006, JavaScript T2006), of a
  partial application of undefined (T1007, T1008), of a tail call of undefined (T1006,
  a TypeError), of a higher-order builtin without a function (T1006 when it is
  called, T0410); a partial application of a function that was passed as an argument
  fails in JavaScript, which wrapped it;
* the library: `$sum`, `$max` and `$min` of a value that is neither a number nor an array
  (Go T0410, JavaScript T0412); `$spread` of an empty array (Go `[]`, JavaScript
  undefined); `$zip()` (Go `[]`, JavaScript T0410) and `$assert` of undefined (Go T0410,
  JavaScript D3141);
* transforms: a match that is not an object. `eval_transform.go:129-130` keeps the copy
  as it is after looking at the clauses, by the "original jsonata-js behavior", and
  skips it beside objects; JavaScript assigns to it, a TypeError in strict mode. An
  update that is null, and a deletion that is null or holds other than strings: Go
  ignores them, JavaScript fails with T2011 and T2012.

## 8. Not modelled

Option validation, formatting of messages, metrics and statistics change nothing
the properties tell apart. Unicode tables, the casing tables and the vendored
regular expression engine are third-party or generated: they are most of the
repository's Go lines. Scripts, qualification vectors, website and playground are
not part of the program at run time. The reading and writing of JSON text, the
characters of words, strings and numbers in the lexer, and the functions of the
library on strings and single numbers are pure and left out. The parts planned in
section 2 are listed in `PROJECT.json` with what is left of each.

Two hazards have no property. A binding in tail position binds its name to the
sentinel (`eval_chain.go:113`), which a closure made before it in the same body could
read: `CallStack` has no values, and in `GoEvaluation` an environment is a value, in
which a function sees what was bound before it. That `[]` on a tail call is lost
(`eval_function.go:68`) is so in both engines: their agreement does not show it.
