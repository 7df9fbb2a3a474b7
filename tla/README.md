# A TLA+ model of the JJS virtual machine

JJS ("jitedjs") is a small JavaScript-like language: a parser generated by ANTLR builds a syntax
tree, a code generator turns each function body into 32-bit instructions, an interpreter runs them
on a value stack, one of the instructions (`Move`) is compiled to x86 code each time it runs, and
a mark-and-sweep collector frees objects when a program calls `collectgarbage`. Everything runs in
one thread. The modules here model the parts that have state or control of their own, state what
should be true of them, check it with TLC on small instances and prove the most important part for
instances of every size with TLAPS.

Run a check with `tlc -config HeapFiles.cfg MCHeap`, a proof with `tlapm HeapProofs.tla`.
`PROJECT.json` lists the runs, the source lines behind each definition, and the hazards of the
code with the properties that are about them.

## 1. Inventory

Paths are relative to `src/`.

| Component | State it keeps | Operations | What makes it correct |
|---|---|---|---|
| Object heap and collector: `runtime/GCObject.*` | `m_head` (list of all objects), `m_objCount`; each object's `type`, `state`, `next` | `link` from every object's constructor; `performFullGC` from `collectgarbage` and from `~JSVM` | nothing reachable is freed, everything unreachable is; marks are clear between collections; list and count agree |
| Strings: `runtime/JSString.*` | `m_strs`, a set of strings hashed by content | `get` (interning), `notifyValidGCObjects` after a collection | one string per content, because `==` on strings compares addresses; the table never hands out a freed string |
| Arrays: `runtime/JSArray.h` | `array` | `accessGCObjects` | every element is reported to the collector |
| Values: `runtime/JSValue.*` | type tag and union | `gcAccess`, equality, hash, text | exactly strings, arrays and functions are objects; the text of a number tells it as far as six decimals go |
| Functions and metas: `runtime/JSFunction.*` | `FuncMeta`: code, constant table, counts of locals and temporaries; function objects that share one | `callFromC`, `callFromVM`, `getConstIdx` | a callee sees its arguments and nil for the missing ones; constants live as long as code that names them |
| Virtual machine: `runtime/JSVM.*` | `m_globals`, `m_values`, `m_frames`, `m_metas` | push/pop of frames and of arguments, globals, registering metas, roots for the collector | frames nest and the stack is restored when a call ends or is unwound; every root is reported |
| Interpreter: `interpreter/Interpreter.cpp`, `Stubs.h` | `ip` of each frame | one handler per bytecode, `execute` with unwinding | a body runs to its end or to an exception, and leaves its result in its first slot |
| Move JIT: `interpreter/Stubs.h`, `jit-x86/*` | one buffer of 64 bytes | emit load and store, run them through a trampoline | the emitted code does what the interpreter's `Move` does, and gives back the registers |
| Code generator: `bytecode/ByteCode.cpp` | code and line table of a meta, the allocator of temporaries, lists of jumps to patch | visitors for statements and expressions | emitted code computes what the tree means |
| Encoding: `bytecode/common.h`, `ByteCodeDefines.h` | none | pack and unpack fields, `VarID` | unpacking gives back what was packed |
| Symbol table: `runtime/SymbolTable.*` | stack of tables, each a stack of blocks | push/pop of tables and blocks, declare, look up | a name resolves to the innermost declaration; live locals have distinct slots |
| Parser: `parser/JSMinus.g` | the generated parser's stack of rules, with what each has returned | a lexer rule per token, a parser rule per construct; actions build trees, open scopes, call the code generator | tokens are the longest lexemes; errors are reported exactly for what is no program; a load without errors builds whole trees |
| Builtins and program: `jjs.cpp` | `written` files, the buffer of `format` | 16 C functions, `loadFile`, `main` | builtins check their arguments, keep references valid, and texts are those of their values |
| Disassembler: `interpreter/Interpreter.cpp` | none | listing of a body and the bodies inside it | every instruction once, at its depth |
| ANTLR runtime, recognition: `tool/include/antlr3{lexer,parser,baserecognizer,exception,...}` | error state, follow sets, stack of exceptions | match, recover from a mismatch, resynchronise, report | no endless recovery, one report per mistake, the right place |
| ANTLR runtime, streams: `antlr3{input,intstream,tokenstream}` | place, marks, encoding; buffered tokens | consume, look ahead and behind, mark, rewind, seek; fill the buffer; push and pop streams | the same characters and tokens, in order, whatever was looked at and rewound |
| ANTLR runtime, collections: `antlr3{bitset,collections}` | words; tries; edges | sets of types, integer tries, rule memory, topological sorting | they are the sets, maps and orders their clients take them for |
| ANTLR runtime, trees and debugging | - | no grammar here uses them | - |

Unused: `parser/JScript.g`, the saved web pages in `doc/`.

How they interact. `main` creates the VM, registers the builtins as globals, and calls `loadFile`:
the lexer turns the file into tokens, the parser reads them with the recogniser of the ANTLR
runtime, its actions intern strings, fill constant tables, open and close scopes in the symbol
table, call the code generator at the end of each body and register the body's meta. The file's
function is called from C, then the VM is destroyed. The interpreter loop runs the frame on top
until the stack of frames is back to where `execute` started. A bytecode `Call` either pushes a
frame or calls a C function directly; C functions read and write the caller's slots.
`collectgarbage` is such a C function: the collector asks the VM for roots, then arrays for their
elements, then tells the string table what is left. `loadfile` enters the parser again.

What is hard about it: references are copied between stack, globals, arrays and constant tables
by every operation, and a collection may come between any two bytecodes; the sweep and the
rebuilding of the intern table pass through states in which the table names freed strings; frames
hold raw pointers into vectors; exceptions unwind several frames at once. A syntax error ends a
rule and skips the actions left in it, while others go on with what the rule did not return; the
state that silences and places error reports is shared by all rules. Generated code lives from
agreements between four parts (slots, temporaries, argument windows, jumps) nothing checks at run
time. The runtime's classes have several representations of one thing (words and sets, tries and
maps, buffers of units and characters) that have to stay in step. There are no threads, no messages
and nothing persistent, so there is no crash recovery and no timing.

## 2. Plan

Done, in this order:

1. `Heap` (with `HeapProperties`, `ManagedHeap`, `MCHeap`): objects, strings, arrays, functions,
   globals, stack and frames as holders of references, every bytecode and builtin that moves a
   reference, and the collector step by step. `ManagedHeap` is the abstract specification.
2. `HeapProofs`: the inductive invariant and the soundness of the collector, the intern table, the
   list of objects, constants, and the refinement of `ManagedHeap`.
3. `CallStack` (with `CallStackProperties`, `Activations`, `MCCallStack`): the value stack as
   memory, the frames, calls, returns, unwinding. `Activations` is the abstract specification.
   `CallStackProofs`: its inductive invariant, and the refinement.
4. `SymbolTable` (with `SymbolTableProperties`, `MCSymbolTable`): blocks, slots, and what the
   parser's rules and errors do to them. `SymbolTableProofs`: its three properties.
5. `JitMove` (with `JitMoveProperties`; `MCCallStack` runs it too): the bytes `compile` emits, run by
   a small x86 machine. `JitMoveProofs`: its three properties.
6. `AST`, `CodeGen`, `Bytecode`, `Meaning`, `BytecodeProperties`, `MCBytecode`: the generator with
   the encoding of its instructions, a machine that runs its code, and the reference it is compared
   with. `Induction`, `GeneratorProofs`: what code and machine keep to, for trees of any height.
7. `Lexer`, `Grammar`, `Recognizer`, `FrontEnd` (with `FrontEndProperties`, `Language`,
   `MCFrontEnd`): loading a file, from characters to the program's end action or a crash.
   `FrontEndProofs`: the state of the parser, the places and the reports, for any file.
8. `Bitset` with `TokenSets`, `IntTrie`, `RuleMemo`, `TrieDelete`, `Topo`, `CharInput`,
   `TokenBuffer`, `TokenSource`, `Builtins` (with `MCRuntime`): the rest of the runtime this program
   compiles or could compile, and the builtins that make text. `CollectionProofs`: bit sets, and the
   rule memory with the trie below it.

Left: the meaning of trees as a recursive function by height, as `CodeGen` has its visitors, so that
`CodeMeansTree` can be proved.

## 3. Modules

In every module the operators whose comment begins with "Mutant of" are not part of the model:
each is a variant of the definition that follows, with one plausible mistake in it, and shows that
a property notices. The MC modules give values to the constants.

### The heap

`Heap` - the machine. Objects are numbers handed out in order and never reused, so that a
reference to a freed object stays recognisable; an object's `kind` is "fresh" before its life and
"freed" after it. Values are objects, `Nil`, and `Num` for everything else. Strings have contents
from the set `Text`. The contents of a program are left open: at every step of a running body any
bytecode may come next, with any local, any entry of the body's constant table, nil or a number as
operand. This includes every real program, because code can name nothing else.

| Definition | Code |
|---|---|
| `kind`, `text`, `elems`, `meta`, `mark` | fields of `GCObject`, `JSString`, `JSArray`, `JSFunction` |
| `m_head`, `m_objCount`, `m_strs`, `m_globals`, `m_values`, `m_frames`, `m_metas` | the members of the same names; the list is a set, because no code depends on its order |
| `constTable` | the strings in each meta's table; other constants hold no reference |
| `RegisterBuildins`, `RunFile`, `DestroyInstance` | the program's start, call of the script and end |
| `Move`, `MakeString`, `NewArray`, `NewFunction`, `SetGlobal`, `GetGlobal`, `SetArray`, `GetArray`, `Call`, `Return` | the bytecodes; `Move` also stands for every operation whose result is a number, boolean or nil |
| `LoadFile`, `ArrayInsert`, `ArrayRemove`, `CollectGarbage` | the builtins that change the heap |
| `Throw` | a failed `ASSERT`: frames are unwound and the program ends without destroying the VM |
| `MarkStep`, `BeginSweep`, `Sweep`, `Keep`, `FinishGC` | `performFullGC`, one object at a time, and `notifyValidGCObjects` |
| `TouchFreed`, `ScanFreed` | use of a freed object, undefined behaviour; the model stops there |

`HeapProperties` - the properties, and the inductive invariant `IInv` with its parts.
`ManagedHeap` - the abstract specification: a set of objects, the roots and the references between
them; a program rewrites references to objects that exist, a collection removes exactly what the
roots do not reach. `HeapProperties!Managed` maps the machine to it: a collection happens when
marking has finished, and the sweep is invisible. `HeapProofs` - the proofs.

### Calls

`CallStack` - calls. `Heap` asks of a stack slot only which object it refers to; here slots are
memory. `m_values` is a function from the reserved slots to values, `m_size` the vector's size,
and pointers are offsets. `resize` writes nil over slots that come into being and nothing else,
so a slot may show what it held before. Frames have an instruction pointer, bodies a length and
no content but the number of arguments each call passes (`ArgsAt`): an instruction writes any
local, jumps anywhere in the body, calls a C function (`CallCFunction`) or a bytecode function
(`Call`), or fails (`Throw`). `Return` is the pop at the end of the loop in `_execute`,
`CallFromC` and `ReturnToC` the two halves of `callFromC`, `Unwind` and `Rethrow` the handler in
`execute`. When a vector outgrows its reserve it moves, every pointer the frames and the loop hold
dangles, and the model stops (`Overflow`). A call is assumed never to be the last instruction of a
body, which `GeneratorBalanced` shows of generated code.

`CallStackProperties` - its properties, `IInv`, and the mapping to `Activations`, the abstract
specification: each activation has locals of its own. A call keeps the caller's locals below the
arguments, a callee sees its arguments and nil for the missing ones and may find anything in its
other locals; a result is the first local, or nil without one.

### Slots

`SymbolTable` - `s_tables` is the static stack of tables, a table its blocks (functions from names
to slots), the number of slots in use and the most there were. `rules` are the program, bodies and
blocks the parser is inside of; `BeginProgram`, `BeginBlock`, `BeginBody`, `EndBlock`,
`EndFunction`, `VarDeclares`, `VarDefine` and `Reference` are the calls its actions make, in any
order the grammar allows. `SyntaxError` ends a rule and skips its closing action, so tables and
rules come apart. `used` counts the slots a body's tree names. `Redeclare`, `EndFunctionOpen` and
`NoBlock` are the ends: a failed `ASSERT` of a declaration or of a destructor, and a block asked of
a table that has none.
`SymbolTableProperties` has the properties and `IInv`, `SymbolTableProofs` the proofs.

### The JIT

`JitMove` - memory is words of 8 bytes, a value two of them. `Move` emits the bytes of one move
into `buffer` as the assembler does, in its order, and makes one page executable; then the
processor runs the trampoline and the bytes (`Execute`, `CallCode`, `ReturnBack`), decoding them
from the buffer. `expected` is what the interpreter's `Move` would leave. The interpreter's registers hold
arbitrary values (`Callers`) the callee may not lose. `JitMoveProperties` has the properties and
`JitInv`, which says for every place of the processor what is in registers, stack and memory;
`JitMoveProofs` the proofs. That the interpreter's own return address lies on the stack is
left out; so is the builder each Move allocates and nobody deletes. The local slots it moves are those
of one frame of the call stack, which is why `MCCallStack` extends both; the two share no variable, and a
run steps one of them (`part`).

### Code

`AST` has the nodes of the trees, and the trees themselves by height: `ExprsOf[n]` and `StmtsOf[n]`
are those that are at most n high. `CodeGen` encodes and decodes instructions as 4 bytes and operands
as `VarID` bytes, and has the two visitors as operators: they take the generator's state (code,
lines, allocator, lists of jumps to patch) and return the next; a failed `ASSERT` clears `ok`. Each
visits the children of a node with a function it is given; `ExprVisitor[n]` and `StmtVisitor[n]` are
the visitors of trees of height n, which are given those of height n - 1. That is how the code calls
itself, written as recursive functions. `Bytecode` is a machine that runs the code of one body. What
depends on the rest of the program - what a call returns, what a global is, how two numbers compare
- is an event with an answer, and any answer may come; arithmetic yields its operands. After a call,
what lies above the result in the argument window is `Junk`. An array index is a literal number or
refused.
`Meaning` is the reference: what a tree means in JavaScript, evaluated from left to right with the
answers the run had. `BytecodeProperties` compares the two.

### The front end

`Lexer` has the streams of characters and tokens the program uses and the lexer's rules, with the
decisions ANTLR makes by one or two characters; `Grammar` the parser's rules as lists of items
(tokens, sets, calls, choices, options, loops, predicates, actions); `Recognizer` follow sets,
predictions, predicates and what the runtime's recovery looks for. What the tokens are that items can
begin with, and whether items match under backtracking, are constants of it, `First` and `Try`: the
proofs use of them no more than `FirstAssumption`, and the run gives them the values the grammar has,
`FirstOf` and `TryOf` of module `Language`.

`FrontEnd` is the machine: `stack` holds the rules under way with what is left of each and the value
it has so far, `exception` and `newest` the error state, `p` the place in the tokens.
`MatchToken`, `DeleteToken`, `InsertToken` and `Mismatch` are the four ends of `match`;
`FailRule` is the end of a rule with an exception: report, recover, return what there is. Actions
see only whether a part was built: a value has a kind, and an action that needs a part that is not
there ends in `undefined` (NULL is used) or `terminated` (an `ASSERT` nobody catches). Names,
numbers and string contents are left out, so that names are never declared twice.
`FrontEndProperties` has what can be said of the state alone, `Language` the references and what is
compared with them: what a lexeme is and which is longest, and which sequences of tokens are
programs of the grammar, without lookahead or predicates.

The model was compared with a build of the program, its parser generated by the ANTLR 3.5.1 in
`tool/`: outcome, lexer errors, and parser errors with the place of each agree on 5067 of the 5072
texts of the run, on 3482 of 3500 random sequences of tokens, and on all 14641 texts of four
characters of the lexer's; the rest declare a made-up name twice, which fails an `ASSERT` of the
symbol table and is left out here. Two decisions that the grammar leaves to the generator or the
runtime were settled there. The predicate of `return` is asked before every token an expression can
begin with, not only where one token of lookahead is ambiguous: `return (1 ;` is reported at the
parenthesis. The text of an `assignOp` that failed is empty, because it starts at the token that was not
matched and stops at the one before (`antlr3parser.inl:540`, `antlr3tokenstream.inl:591`), so that
the action's `string2op` asserts.

### The runtime

These modules have the operations of a class as operators on its state and as actions that call
them in any order a client may; none shares state with another, and `MCRuntime` runs one of them
at a time.

| Module | Code | State |
|---|---|---|
| `Bitset`; `TokenSets` is its abstract specification | `antlr3bitset.inl` | sets as words and their ones |
| `IntTrie`, `RuleMemo`, `TrieDelete` | `antlr3collections.inl`, rule memory in `antlr3baserecognizer.inl` | tries as nodes by key; a rule's memory is a trie in a trie; the order in which the destructor deletes nodes |
| `Topo` | `antlr3collections.inl` | edges, the array, the stack of a cycle, the vector sorted in place |
| `CharInput` | `antlr3input.inl`, `antlr3intstream.inl` | bytes, place, line, column and marks of the streams that can be built, of 8-bit and of UTF-8 text |
| `TokenBuffer` | `antlr3tokenstream.inl`, `antlr3intstream.inl`, `antlr3parser.inl` | tokens filled all at once or in portions, channels, marks, rules that erase tokens when they end |
| `TokenSource` | `antlr3tokenstream.inl`, `antlr3lexer.inl` | a stack of streams, one pushed by each directive; plain and filtered lexers |
| `Builtins` | `runtime/JSValue.cpp`, `runtime/pch.cpp`, `jjs.cpp`, `interpreter/Interpreter.cpp` | files written, the static buffer of `format`, the last call with its result and output |

The program itself uses 8-bit streams, one fill, no directives and no memory; the other
representations are what its vendored runtime offers to a grammar that asks for them.

## 4. What the runs check

| Run | Instance | Shows |
|---|---|---|
| `heap_shared` | one file, one function; every literal also in the function | `ConstantsStayLive`, `NoUndefinedBehaviour`: no use of a freed object; `ImplementsManagedHeap`: refinement; `CollectionEnds`: every collection ends |
| `heap_files` | two files that load each other, one function, one command-line argument | `TypeOK`; `OnlyScriptConstantsDangle`: the only references that ever dangle are those to constants of top-level code; `InternCanonical`: one string per content, and no freed string in the table when it is searched; `ListIsHeap`: list, count and marks between and during collections; `SweptAreScanned`, `CleanShutdown`: the assertions in the collector and the destructors |
| `heap_constants` | one file, a literal in its top-level code only | `ConstantsStayLive` violated: finding 1 |
| `calls` | a script of three instructions and functions of two, windows of 3, 2 and 0 slots, six slots and four frames of reserve, two values | `TypeOK`, `FramesNest`, `LinesInRange`, `EndsRestored`: frames nest, unwinding finds a line for each, the stack is restored; `ImplementsActivations`: refinement. And, apart from that, locals 0, 1, 7, constants 0 and 7, two Moves, a buffer inside a page and one across two: `MovesLikeInterpreter`, `CalleeSaved`, `OnlyStraddlingFaults` (with the types): the code faults only if the buffer lies across two pages |
| `call_result` | the same, five slots | `ResultArrives` violated: finding 2 |
| `symbols` | two names, two tables, three open rules, one syntax error | `SlotsDense`: live locals have the first slots, each its own, parameters the first of all; `AssertionsHold`: the assertion of a table and the emptiness of its blocks fail only after a syntax error; `LocalsFit`: every slot a tree names is below the `localCount` where temporaries begin |
| `jit_ninth_local` | locals 0 and 8, one Move | `MovesLikeInterpreter` violated: finding 3 |
| `code` | every kind of expression over every kind, and loops around ifs and loops with every jump in every place but before an inner loop; at most six events | `TypeOK`; `CodeMeansTree`: same events, arrays, result, and line of a refused operation as the tree; `GeneratorBalanced`: no `ASSERT` of the generator fails, temporaries are given back, slots named are reserved, jumps stay inside, a call is followed by an instruction of its line |
| `code_nested_loops` | a `break` of a loop before a loop inside it | `CodeMeansTree` violated: finding 4 |
| `front_end` | all texts of up to three of 11 characters; 13 sentences that use every rule, with one token left out, replaced by or preceded by one of 13 | `TokensAreLongest`; `PlacesTrue`: types, and line and column of tokens and reports; `ErrorsAreReal`: a report exactly for what is no program; `FirstErrorTrue`: at the first token no program can have there; `CleanWithoutErrors`: whole trees and closed tables without reports; `ReportedOnce`; `LoadEnds` |
| `runtime` | seven parts, see below | `BitsetsSound`, `ImplementsTokenSets`, `MemoTrue`, `TriesFreed`, `TopoSorts`, `CharsTrue`, `TokensTrue`, `TokensInlined`, `TextsTrue` |
| `token_override` | the token buffer of `runtime` | `OverridesSeen` violated: finding 5 |

Bounds, and why they are enough.

* Heap: five objects - the name and the function of a builtin, the function of the script, and two
  more. That is enough for a literal and an array that holds it, for a cycle of an array with
  itself, for a string that dies and is interned again, for a closure in an array, and for several
  collections. Arrays have at most one element, bodies one slot or two, and there are three
  frames: a script, a function, and a call of a call.
* Calls: a function of one parameter is passed none or two arguments by the script and one by
  itself or another function; functions nest two deep before stack or frames run out, and a call
  can begin at any slot of the window. Two values suffice to tell slots apart, because every
  combination of contents is reached.
* Symbols: two names make a name that is declared twice in blocks and one that is not; three rules
  a block in a function in a program, one error each way they can come apart. Names are
  interchangeable (`SYMMETRY`).
* JIT: the first, the second and the last local and constant whose displacement is positive. The
  second Move overwrites the code of the first.
* Code: an expression of every kind has operands of every kind; that is where temporaries, argument
  windows and short circuits meet. Six events let a loop go round twice. The machine stops when
  they are used up, which no property judges. No tree of the run is more than eight high, no index
  above 127 (`MaxHeight`, `MaxIndex`); bodies have one or two locals, or none.
* Front end: three characters are one more than the lexer looks at. One mistake in a sentence
  reaches deletion, insertion, resynchronisation at every rule and every pair of a rule with the
  part it goes on without; the short texts add files of several mistakes.
* Runtime. Bit sets: bits in the first, the last, and the words behind the last of a new set, and
  tables of one, nine and sixteen words. Memory: tries of three bits, rules that fail, succeed and
  end anywhere. Sorter: all graphs of three nodes, two sorts. Character streams: characters of one
  to four bytes, lines and a byte order mark, two marks. Token buffer: two
  tokens to a portion, four settings of channels, two marks, two rules. Token source: files included
  in the middle, at once, twice, at the end, and without a token. Builtins: a buffer of ten
  characters and arguments that fill it, overfill it, and are of the wrong type; numbers in
  ten-millionths, one decimal more than `%lf` prints, so that some differ and have one text.

Fairness. `Heap!FairSpec` assumes only that the collector's next step is taken once `performFullGC`
has been entered: it is a straight-line function of a single-threaded program. Nothing is assumed
of programs, which may loop for ever. `FrontEnd!FairSpec` assumes that loading goes on: one thread,
no input that could keep it waiting. Its `Running` is the weak fairness of `Step`, written out
because `Step` is enabled until the load has ended (else there would be a deadlock, which is
checked) and always changes the state (each round of the lexer takes a character at least, which
`TokensAreLongest` checks).

Deadlock is checked in every run but `runtime` and `token_override`: a program can stop only by ending, and there is an
action for that (`Terminated`, `Stopped`, `Done`, `Full`). In these two the client of a class may
have nothing left to ask within the bounds - all sorts done, the end of the file given - and the
part then really stops.

Exclusions are part of the statement. `ErrorsAreReal` and `FirstErrorTrue` leave out a `return`
before a name: it takes an expression when it can. `TopoSorts` judges the first sort after a cycle
and vectors whose entries change places in pairs, `BitsetsSound` calls `equals` on the set that is
not shorter, bit sets have at most twice the words of a new one, `TokensTrue` with portions asks
for tokens on channel only and is about buffers without overrides, `CharsTrue` names the columns and
the upper case it does not claim, `TextsTrue` speaks of texts that fit the buffer, `TokensInlined` for directives that do not end their file: each
exception is code that does something else, and the comment of the property says what.

### Findings

1. *Constants of top-level code are freed* (`heap_constants`). `accessGCObjects`
   (`runtime/JSVM.cpp:23`) marks the constant tables of registered metas. Only `funcBody` in the
   grammar registers a meta; the meta of a file's top-level code is not registered, and a function
   object is not scanned for the table of its meta. So

       println("hello"); collectgarbage(); println("hello");

   frees the string "hello" and prints freed memory. `OnlyScriptConstantsDangle` says that nothing
   else can go wrong this way, and `heap_shared` that nothing goes wrong when each literal also
   occurs in a function.
2. *Bodies without a slot lose their result* (`call_result`). `return` leaves the result in local 0
   and the caller reads it there. A body with neither locals nor temporaries,
   `function five() { return 5 }`, has a window of no slots: `pushFrame` cuts the stack off right
   below local 0, and when `popFrame` grows it again, `resize` writes nil over the result
   (`runtime/JSVM.cpp:57,61`). `Activations` states what does hold: such a call yields nil.
3. *The JIT addresses the ninth local wrongly* (`jit_ninth_local`). The address of local n is a
   displacement of 16n in one byte, which the processor takes as signed: from 8 on, locals and
   constants are addressed 16 slots too low (`jit-x86/AssemblerX86.h:209`).
4. *A break before an inner loop ends the inner loop* (`code_nested_loops`). The lists of jumps
   belong to the function: the loop that ends first patches all of them
   (`bytecode/ByteCode.cpp:255`).
5. *A channel set for a token type is that of another* (`token_override`). `setTokenTypeChannel` keeps
   the channel under the type, `fillBuffer` looks it up under the type + 1
   (`tool/include/antlr3tokenstream.inl:803`). The tokens of the type stay where they are, those of the
   type before it are moved; the header (`antlr3tokenstream.hpp:311`) says the type's are.

Further disagreements, met while modelling, are in the models and have no run of their own:

* `x = y && x` overwrites `x` before it is read (`AndPrograms` in `MCBytecode`), and of 65 locals
  the last is the first (`ManyLocals`): as `Programs` of the run they violate `CodeMeansTree`.
* Loading goes on after errors. `x = && 1` dereferences NULL after its report; a file with `)` at
  top level skips the end of the program and calls a function without code; an `ASSERT` thrown by a
  failed compound assignment ends the load. Errors of the lexer count in the lexer only, so
  `a & b` loses three characters and is no error of the parser; `loadFile` asks neither count.
* An unwanted token's report says `<invalid>`, columns of the first line are one less than
  elsewhere, and a bad expression after `return` is blamed where it begins.
* `format` cuts a text at 255 characters and, for one of exactly 256, uses up its arguments twice;
  `%%` swallows what follows; a file that is missing reads as empty.
* In the runtime: `Bitset::equals` on the shorter set reads beyond it, the first entry of `toIntList` counts
  itself, where the header says it is the number of elements that follow (`antlr3bitset.hpp:158`; so
  `BitsetsSound` leaves the first entry open), or-ing makes too little room; a vector sorted by a cycle of three is out of order; the
  memory of place 0 is never found; `rewindLast` follows the last mark set though it has been released,
  and releases the mark it follows, which its header says it does not (`antlr3intstream.hpp:172`); a seek
  in UTF-8 text moves by bytes and counts them as columns; a rule that begins at the end of the file erases from token 1
  on; a directive that ends its stream leaves the pushed stream unread, and one whose file has no token fails for
  ever.

## 5. What is proved

Each theorem holds for every value of the constants that satisfies the module's assumption; the
runs check the same formulas on their instances, and the inductive invariants were checked there
before they were proved.

| Module | Theorem | States | Under |
|---|---|---|---|
| `HeapProofs` | `TypeCorrect`, `Dangling`, `SweepAssertion`, `InductiveInvariant` | `TypeOK`, `OnlyScriptConstantsDangle`, `SweptAreScanned`, `IInv` | |
| | `Canonical`, `ListTrue`, `Shutdown`, `BodyConstants`, `TablesInvariant` | `InternCanonical`, `ListIsHeap`, `CleanShutdown`, `BodiesStay`, `TablesInv` | |
| | `ConstantsStay`, `NoUndefined`, `Implements`, `SharedInvariant` | `ConstantsStayLive`, `NoUndefinedBehaviour`, `ImplementsManagedHeap`, `SharedInv` | `LiteralsShared` |
| `CallStackProofs` | `TypeCorrect`, `Nesting`, `Lines`, `Restored`, `InductiveInvariant` | `TypeOK`, `FramesNest`, `LinesInRange`, `EndsRestored`, `IInv` | |
| | `Implements` | `ImplementsActivations` | |
| `SymbolTableProofs` | `Dense`, `Assertions`, `Fit`, `Invariant` | `SlotsDense`, `AssertionsHold`, `LocalsFit`, `IInv` | |
| `JitMoveProofs` | `Saves`, `Straddles`, `Invariant` | `CalleeSaved`, `OnlyStraddlingFaults`, `JitInv` | |
| | `MovesRight` | `MovesLikeInterpreter` | `AllNear` |
| `CollectionProofs` | `Soundness`, `MemoryIsTrue` | `BitsetsSound`, `MemoTrue` | |
| | `Implements` | `ImplementsTokenSets` | `BitsFit` |
| `GeneratorProofs` | `CodeHasItsType`, `CodeIsBalanced` | `TypeOK`, `GeneratorBalanced` | `func.ok` |
| | `CodeIsMade` | `TypeOK`, `GeneratorBalanced` | `~TooLarge(func)` |
| `FrontEndProofs` | `TypeCorrect`, `PlacesAlwaysTrue`, `NoTokenReportedTwice`, `FrontAlwaysTrue` | `TypeOK`, `PlacesTrue`, `ReportedOnce`, `FrontTrue` | |

The conditions in the last column are hypotheses of the theorems, because the code breaks the
properties without them. `LiteralsShared` - every literal of a file's top-level code also occurs in
a function body of the file - holds in `heap_shared` and fails in `heap_constants`, where the
property is violated (finding 1). `AllNear` - all locals and constants are among the first eight of
their table - holds in `calls` and fails in `jit_ninth_local` (finding 3). `BitsFit` - all bits lie in
twice the words of a new set - holds in `runtime`; the comment in `Bitset` says what is lost
without it. The last two are about the body at hand: `func.ok` says that no `ASSERT` of the generator
failed, without which there is no code, and `TooLarge`, that the body needs more than the encoding
has room for - more than 64 slots, an offset of more than 16 bits, an index of more than 7.

### The heap

`HeapAssumption`: bounds are natural numbers, files and bodies are disjoint, each body is in one
file, there are finitely many builtins, their names and the arguments are among the texts, and the
markers `Nil`, `Num` and `None` are none of the things they are told apart from.

`OnlyScriptConstantsDangle` is not inductive: a mark step preserves it only if marks mean what they
should. `IInv` adds that (`MarksOK`): while marking, the work list is exactly the objects found and
not scanned, no root is unmarked, and a scanned object refers to marked ones only; while sweeping,
the objects that stay are closed under references and hold all roots. It also says who may hold what
(`HeldGood`), that frames run functions that stay (`FramesOK`, `BaseFrame`), that constants have been
allocated and those of function bodies are registered (`ConstsOK`), that the intern table names
existing objects outside the sweep (`StringsOK`), and that old and new list divide the heap
(`ListOK`). There is one lemma per action. Steps of the program that leave the heap alone go through
`SameHeap`, those that allocate through `GrowStep`, those that write arrays through `ArrayStep`, and
those of the collector that change no object through `SameObjects`; `ClosedHeld` turns closure into
`HeldGood` when the sweep begins.

`TablesInv` strengthens `IInv` for the tables: the count is that of the list at every step
(`CountOK`), constants of a registered body are among what stays (`RegisteredOK`, hence
`BodiesStay`: what finding 1 loses is only ever the constants of top-level code), and `~JSVM` leaves
an empty heap because a collection that returns to nobody has no roots (`DestroyedOK`, which rests
on `StackOK`). A step is one of the program that allocates nothing (`WorksStep`), one that
allocates, or one of the collector.

`SharedInv` follows constants for programs with `LiteralsShared`: while a frame exists, a top-level
constant is a constant of a registered body too (`SharedOK`), so nothing that a step may touch is
ever freed. For the refinement one more fact is needed, the converse of what `MarksOK` says:
whatever is marked is reachable (`MarkedReachable`). With both, the objects freed by a collection
are exactly the unreachable ones. `BeginSweep` maps to `ManagedHeap`'s collection, every other step
to a rewriting of references between objects that exist or to a stutter, `Keep` and `Sweep` among
the latter.

### Calls

`CallStackAssumption`: bodies are not empty, parameters have slots, the arguments and the window of
the script fit the reserve.

The four properties support one another. What `popFrame` restores is right because frames nest; that
no window outgrows the reserve (`WindowsFit`) makes the restored size a legal one; and the frame that
comes to the top is inside its body because the ip of a caller is (`LinesInRange`). `AdvanceStep`,
`PushStep`, `PopStep` and `PhaseStep` are the kinds of steps; each action is one of them.

For the refinement, what an activation has is read off the value stack: `LocalsOf(i)` is the part of
the i-th window below the next one. One fact is added to `IInv` (`BasesRise`): the windows of
callers end below the top one begins, so that a step that writes the top window leaves every other
activation alone (`SameLocals`, `CallerStays`). Instructions, calls, returns and ends then are a
case each. A return leaves the callee's first slot, its result, as the caller's next local; in a
body without slots that slot is one `resize` has written nil to, which is what `Activations` says
such a body yields (finding 2).

### Slots

`SymbolTableAssumption` only says that the bounds are natural numbers.

None of the three properties is inductive. `IInv` says of each table that its blocks hold the first
slots between them, in order (`Packed`: the blocks outside the i-th hold the first n for some n, no
two declarations share one), which every push, pop and declaration preserves; popping a block gives
back exactly the slots of its declarations (`PopCount` counts them). How rules and tables lie in
each other has three strengths: whatever the errors, there is a table for every function begun
(`RulesNest`); as long as no error has ended a body, that of a function knows all slots its tree
uses and has a block for each of its rules (`Nested`); without errors there are no others, and the
parameters are where the call puts the arguments (`Exact`). `LocalsFit` needs the second,
`AssertionsHold` and the part of `SlotsDense` about parameters the third. Tables are counted from
the innermost function outwards, so a rule's table is found by how many functions are begun
(`Rank`). `GrowBlock`, `GrowFunction` and `Shrink` are a rule more and less; `KeepNested` and
`KeepExact` carry the strengths over.

### The JIT

`JitMoveAssumption`: locals and constants are operand bytes, the buffer is at an address, the
interpreter's registers hold any integers.

The invariant goes by the place of the processor, as in a proof of assembly code. While a Move runs,
the buffer holds the bytes of `compiled(dest, src)` for some operands (`Holds`), and before every
instruction of trampoline and code `TrampolineAt` and `CodeAt` say how many words are on the stack,
which of them are saved registers, and which registers still hold the interpreter's values or the
frame; `Unmoved` and `DataAt` say where the two words of the source are. `CodeBytes` and `CodeIs`
compute the 41 bytes from the pieces the assembler emits, `Code` says which instruction the
processor decodes at each place of them, and there is one step per instruction. Only the steps that
use an address need `AllNear`: the displacement in one byte is the one meant. Stack depth and saved
registers do not depend on it.

### Bit sets

`WordAssumption`: words are not empty, a new set has one, and the tables the sets are loaded from
have room for their bits. The invariant is that every set has room for its bits; there is one lemma
per operation that gives the set it leaves. Or-ing loses no bit because a set that is enlarged has
at least twice the words of a new one.

### The rule memory

`MemoAssumption`: rules and places are keys of their tries, and no rule ends before it began.

`MemoTrue` says that a memory is found. Why it is found is a fact about the trie's shape, `TrieTrue`.
The keys that belong below a link are those that agree with its node in all bits above the one the
node tests, and have the link's side of that one (`Leads`). Where the link goes is one of them; if
it goes down, every key of the trie that belongs below it agrees with the node there in all bits
above that node's; if it goes up, there is no other (`LinkTrue`). `WalkTrue` follows the descent by
the number of its steps, `GetTrue` gives what `get` finds for any key, `AddTrue` that an insertion
keeps the shape, adds its key and keeps the data of all others. The new node tests the leftmost bit
in which its key differs from the one found; no other node tests that bit of the same keys (`Apart`).
On that rests
`MemoryTrue`: the trie of rules has exactly the rules with a list, each list says of a place what
the input says. One lemma per operation of the memory carries it over.

### The code generator

`BytecodeAssumption`, `CodeGenAssumption`, `ASTAssumption`: the trees of `Programs` are trees of
`StmtsOf[MaxHeight]` for their number of locals, nil has a constant, the bounds are natural numbers.

Induction over trees is out of the provers' direct reach: the library's induction theorems take an
operator as a parameter. Module `Induction` goes round that. Its lemma `Least` is induction as a
fact about sets - a set of numbers that is not empty has a least one - from the well-foundedness of
`<`; `Iteration` and `Unfolds` say that a function defined by recursion over numbers exists and obeys
its equation, with the step as a constant operator of the module, so that an INSTANCE proves it for
one definition. The proofs then argue by a smallest counterexample: the least height at which a
visitor breaks its contract, the least prefix of a list of statements or of operands.

`Sound(L, g)` is the invariant of the generator's state: code of words, a line for each, the
allocator between the locals and its maximum, and, while `ok`, instructions that are right in a body
of that size: operands below the maximum, jumps inside, calls followed by an instruction of their
line. `Grows(L, g, h)` says what becomes of one state: what is sound stays so, code and maximum only
grow, and `ok` is lost only if the body is too large. `Contract` is what a visitor of expressions
promises (`VisitTrue`): the result is in the place asked for, or in a temporary it has allocated and
that is on top, all other temporaries have been given back. `Done` is the same for statements. Every
`EMIT` has a lemma of its own that looks at the bits (`EmitsThree`, `EmitsCall`, ...), every node
one that shows the contract at height n + 1 from that at height n.

For the machine, `IInv` is `FuncTrue`, what is known of the function made, and `Inside`: the ip is in
the code, the locals are the slots reserved.

### The front end

`TextsAssumption`: files are sequences of characters none of which is the marker of the end.
`FirstAssumption`: the sets of first tokens of `var` and of `return ...` are what they are. Of `Try`
nothing is assumed: the theorems hold whatever a predicate says and however far it reads.

`PlacesTrue` and `ReportedOnce` are not inductive. `FrontTrue` has five parts; TLC checked them on
the instance of the run before they were proved.

* `LexTrue`: the character stream is where its text says, line and column included, and the tokens
  lie behind one another in what has been read. A round of the lexer reaches further in such a
  stream (`Reached`, one lemma per rule of the lexer; strings and comments, which go on for as long
  as they like, by `Induction`).
* `ShapeTrue`: what is left of each rule under way is made of items of the grammar, in the order the
  grammar has them (`Good`, `LeadsOn`), and a rule that waits has the call of the one above it at
  its head (`Waits`). `FrameTrue` gives the frame its types.
* `ExceptionTrue`: an outstanding exception is about the token at `p`, and, unless the parser is
  recovering, none of the reports is.
* `ReportsTrue`: reports name places of the file and come in the order of their tokens.
* `RecoveryTrue`: what makes the second half of `ExceptionTrue` true. Recovery ends when a token
  matches, and `p` moves past the reports (`Fresh`). It also ends in two places where `p` does
  not move. One is a predicate that has matched tokens and gone back to the first: then the
  alternative chosen begins with a match of that token, so no error can occur in between
  (`Committed`). The other is a match of the end of the file, after which the program's rule has
  nothing left (`EndsNow`). The predicate of `return` runs right after `return` has matched.

There is one lemma per action, most of them for a kind of step first: a rule's list goes on
(`EnterOption`, `Choose`), its actions run (`MatchToken`, `DeleteToken`, `RunAction`), it returns.

### Only model-checked

* `CollectionEnds` and `LoadEnds` are liveness, which is beyond the prover.
* `CodeMeansTree`, `TokensAreLongest`, `ErrorsAreReal`, `FirstErrorTrue`, `TopoSorts`, `CharsTrue`,
  `TokensTrue`, `TokensInlined`, `TextsTrue`, `TriesFreed`: the model or the reference it is compared
  with declares RECURSIVE operators, and a module that reaches one cannot be proved about. This is
  so of `Meaning`, `Language`, `TrieDelete`, `Topo`, `CharInput`, `TokenBuffer`, `TokenSource`,
  `Builtins` and all that extend them. Where a recursion can be written as a function of a number,
  as in `CodeGen` and `IntTrie`, `Induction` makes it provable; a text, a grammar or a graph has no
  such number at hand.
* `CleanWithoutErrors` reaches no such operator. Its invariant would follow, rule by rule, which
  values and blocks each prefix of a rule has made; TLC checks the property.

## 6. What is not modelled

* Trees of the ANTLR runtime (adaptors, parsers and rewriting of trees), cyclic decisions and
  debugging: no grammar of this program uses them, and the templates do not compile when they are
  instantiated. The same goes for `toString` and `getTokensSet` of the streams, and for `reset` of
  some.
* Streams of EBCDIC, UTF-16 and UTF-32 text: `InputStream` cannot be instantiated with their classes
  (`antlr3input.inl:70`, `:299` and `:487` and `antlr3filestream.inl:62` do not compile, nor does the
  lookahead of `antlr3intstream.inl:450`). `UTF8_IntStream` needs a compiler that lets a pointer to
  constant data become another one (`g++ -fpermissive`).
* `parser/JScript.g`, which no build uses; the assembler's instructions `Move` does not use.
* Names, numbers and the contents of strings in the front end (they are in `Heap` and
  `SymbolTable`), the wording of reports and messages, what a line of a listing looks like.
* Arithmetic: numbers are literals, ten-millionths or terms. The hashing of strings and values (only
  equality of contents matters), memory exhaustion, C++ objects other than those the collector
  owns.
* Clock, time and random numbers are any number; `exec` and printed output end at the system.
* In `Heap`, positions given to `insert` and `remove` are valid ones: the code does not check them,
  and what an invalid one does to a `std::vector` is not the heap's business. A file is loaded at
  most once and names no other than `Script`.
* A `break` or `continue` outside a loop: the grammar accepts it, JavaScript gives it no meaning.
