# cc51 in TLA+

cc51 (this repository) is a whole-program optimising C compiler for the 8051,
with an assembler, a linker and a simulator. Its generated code has no stack
frames: variables, parameters and temporaries of every function live at fixed
addresses, functions that are never active together share them, every function
has a register convention of its own, and interrupt handlers save only what
they and their callees change. Each of these is decided by one pass from facts
that other passes computed, and each is wrong only for programs of a certain
shape. The passes before them, from the typed tree to optimized intermediate
code, must keep the meaning of every function whatever they did to it before. A
unit test compiles one program; the models here take all programs of a small
family, and the proofs all programs.

Paths are relative to the repository root; `layout.rs:97` in a module means
`src/cg/layout.rs`, line 97.

## The system

Data flows one way: preprocessor → parser → IR → optimizer → code generation
(bottom up over the call graph: selection, register allocation, peephole) →
outlining → RAM layout and startup code → linker → image → simulator. The passes
share no mutable state except thread-local tables of `compile_with`. What
couples them are the facts about *other* functions a pass relies on.

| Component | State | Operations | Interaction | Hard behaviour | What makes it correct |
|---|---|---|---|---|---|
| Call graph and conventions (`cg/program.rs`) | summaries, clobber sets, recursion, roots | bottom-up visit, fix-point of summaries, `generate`, `expand_isr` | tells selection and allocation what a callee changes, tells layout who calls whom | cycles, calls through pointers, `naked` and `__using` functions, nested handlers | a caller's values survive a call; a handler is transparent; a convention is known before it is used |
| RAM layout (`cg/layout.rs`) | order, contexts, offsets, addresses | `topo`, marking, placing per area, translation to addresses | takes frames and callers, gives symbols to the linker and the start of the stack to the startup code | cyclic call graphs, shared functions, holes in RAM, out-of-RAM retry | live frames never overlap; every object is whole, reachable and clear of the stack |
| Startup code (`generate` in `cg/program.rs`) | RAM, R0, SP | clear loop, initializer writes, call of main | trusts where the layout put things | zero bytes that are not written, areas the loop does not reach | every global has its initial value |
| Selection (`cg/select.rs`, `cg/fold.rs`) | code, tracked machine state | one template per IR operation, calls, returns | uses conventions and allocation | saving frames around recursive calls, stale tracked facts, EA in critical sections | the code does what the IR says |
| Register allocation (`cg/alloc.rs`) | liveness, interference, locations | liveness, interference, colouring, slots | uses clobber sets | partial definitions, byte positions, copies | two live values never share a location |
| IR lowering (`ir/build.rs`) | blocks, open loops and critical sections, registers given out | one case per expression and statement | takes the typed tree, gives functions to the optimizer | what is evaluated when, and once; bit-fields, shared bytes of unions, special function registers; ways out of a critical section | the function does what C says; EA is what the program made it |
| Optimizer (`opt/*`) | flow graph, def-use facts, demanded bits, `changed`, round | passes to a fix-point, inlining between | takes and gives one function of the IR | facts stale after a rewrite, rewrites that undo each other, registers with several definitions | behaviour preserved, IR well formed, an end |
| Peephole and outlining (`cg/peep.rs`, `cg/outline.rs`) | instruction lists | local rewrites, extraction of common sequences | runs before relaxation | liveness of flags and registers, sequences using the stack | behaviour preserved |
| Linker (`link.rs`, `asm/*`) | addresses, forms of jumps | placement, relaxation, overlap check, encoding | - | forms and addresses depend on each other, pass limit | no two items share a byte, every jump reaches its target |
| Preprocessor (`pp/*`) | macro tables, conditional stack | directives, expansion | - | nesting across includes, rescanning | C semantics |
| Parser, types, constants (`parse/*`, `lex.rs`, `types.rs`, `ast.rs`) | scopes, union-find of address spaces | recursive descent; promotions, casts, folding of constants | gives the typed tree to lowering | a constant folded in one type and used in another, casts inserted or not; inference joins through casts and calls | every value has the type C gives it; one space per pointer |
| Simulator (`sim.rs`, `bin/*`) | CPU state, `in_isr`, `isr_delay` | fetch and execute, timers, interrupts | runs what the others produce | interrupts between any two instructions | behaves like the CPU, as far as tests use it |
| Driver (`main.rs`, `diag.rs`) | options | read, compile, write | - | - | - |
| Runtime library (`runtime/rt.s`, `libc.c`) | - | helpers with fixed register conventions | opaque to the convention analysis | - | arithmetic |

## Modules

| Module | Models | Proofs |
|---|---|---|
| `FrameOverlay` | `layout.rs`: `topo`, context marking, frame placement in virtual offsets; then the running program on these frames: calls, returns, nested interrupts, the pushes and pops around recursive calls (`select.rs`, `gen_call_ty`) | `FrameOverlayProofs` |
| `RamMap` | `layout.rs`: bits, globals, holes, upper RAM, physical addresses, errors; `program.rs`: which objects go to upper RAM, the retry, the startup code | `RamMapProofs` |
| `Clobbers` | `program.rs`: recursion check, bottom-up visit, summaries, `generate`'s clobber sets, `expand_isr`; `alloc.rs`: registers kept across calls; then the program running with register banks and nested interrupts | `ClobbersProofs` |
| `Critical` | `build.rs`: lowering of `__critical`; `select.rs`: its code; `expand_isr`: the PSW frame; `sim.rs`: interrupts, instruction by instruction | `CriticalProofs` |
| `Tracking` | `select.rs`: what the selector knows of A, B, C, DPTR and internal RAM, instruction by instruction; moves, loads and stores directly and through pointers, calls, labels; the machine that runs the code | `TrackingProofs` |
| `RegAlloc` | `alloc.rs` with the liveness of `dataflow.rs`: sweeps, backward walk, interference, byte positions, pointer sites, assignment of registers and slots | `RegAllocProofs` |
| `ParMove` | `par_move` of `select.rs`: simultaneous moves made one by one, with A as scratch; implements `Simultaneous` | `ParMoveProofs` |
| `Simultaneous` | what `par_move` promises: all moves in one step | - |
| `RegAllocRun` | the allocated function running: the reads and writes that `select.rs` generates for each kind of instruction, in their order; recursive calls with their saves | `RegAllocProofs` |
| `Relax` | `link.rs`: placement, relaxation, overlap check, encoding | `RelaxProofs` |
| `Typing` | `expr.rs`, `consteval.rs`, `stmt.rs`, `types.rs`: types of integer expressions, inserted casts, folding, statements; where `parse/mod.rs` puts fields | - |
| `Lower` | `ir/build.rs`: storage, expressions, conditions, calls, statements | - |
| `Ir` | `ir/mod.rs`: functions of the intermediate representation, `eval`, the verifier | - |
| `Combine` | `opt/combine.rs`: folding, rewrites of one instruction, fused tests | - |
| `Flow` | `opt/cfg.rs`, `dataflow.rs`, `dce.rs`, `sink.rs`: flow graph, copies and constants, dead code, sinking | - |
| `Narrow` | `opt/narrow.rs`: demanded bits, smaller types | - |
| `Loops` | `opt/loops.rs`, `inline.rs`: loop tests, strength reduction, inlining | - |
| `Optimize` | `opt/mod.rs`: the order of the passes and their rounds | - |
| `IrRun`, `CMeaning` | yardsticks: what a function of the IR does when it runs; what a program means in C | - |
| `Compile` | typing, lowering and optimizing of one function | - |

`FrameOverlay` and `RamMap` divide the layout between them: the first finds the
order of the functions and the interrupt context, which are inputs of the
second, and both place frames, once in offsets and once at addresses.
`FrameOverlay` and `Clobbers` divide a function call: memory in one, registers
in the other. `RegAllocRun` EXTENDS `RegAlloc` and `ParMove` and looks at one
function: what `Clobbers` takes as given (registers kept across a call) is
computed there from liveness, and the summaries of callees, computed in
`Clobbers`, are inputs. `Critical` refines what they call `Interrupt`: there an interrupt
comes between two steps of the program, here between two instructions and only
if EA lets it.

`Compile` EXTENDS the modules of the middle of the compiler: `Typing` turns the tree
of the grammar into the typed one, `Lower` that into a function of `Ir`, and the
actions of `Optimize` rewrite it with the operators of `Combine`, `Flow`, `Narrow` and
`Loops`. Two yardsticks close the circle. They translate no code: `CMeaning` reads the
program before any typing and knows only the language's rules (a type is a range of
values); `IrRun` runs functions of the IR. Both give the accesses to volatile memory
and the calls in their order, the object in memory, and the value returned.
`Allowed` compares: where the first is undefined the second is free.

Each `MC` module gives the families of programs that TLC enumerates. A module
describes the compiler first and then the compiled program, as one state
machine: `phase` goes through the passes in the order of the code, and in phase
"run" the actions are those of the program. So a property of the running
program ("what I wrote to my frame is still there") is a property of the
compiler.

### How state and actions correspond

* **FrameOverlay.** `queue`, `indeg`, `seen`, `order`: the locals of `topo`
  (`VisitTop`, `BreakCycle`, `EndOrder`); `isrCtx`: `isr_ctx`; `base` and
  `end`: symbols and `end_of` per area. `owner[a][c]` is the activation that
  wrote cell `c` last: memory itself, not the layout's numbers. An activation
  writes its whole frame when it starts and when it pops it back.
* **RamMap.** `placed` is `syms`, with the final addresses; `cursor`, `endOf`,
  `top`, `ctxEnd` the locals of `place` for all three areas; `phys` the table
  that `Phys::addr` is. `mem` starts as `Junk`, a value no program wrote.
  Bytes are zero, non-zero or junk.
* **Clobbers.** `seen`, `path` and `post` are the bottom-up visit; `known` and
  `clobbers` the summaries in `fn_info`; `total` is `total_clobbers`. `keeps[f][g]`
  are the registers in which the code of f may leave a value across a call of g.
  `mem` has one cell per register and bank, with the depth of the activation that
  wrote it last; `bank` is PSW. `stack` holds the live activations, each with the
  memory and bank at its entry (`at`): what its pushes restore, and what the
  properties compare with.
* **Critical.** A function is a sequence of tokens. `fn`, `pos`, `crit` and
  `loops` are the walk of `Builder::stmt` with its stacks (`crit`; `breaks` and the
  targets of `continue`); every token adds the instructions that `select.rs` makes of it to
  `code`. Then the CPU: one instruction per step, `inIsr` and `delay` are `in_isr` and
  `isr_delay`, `flags` the request flags, and timers overflow after any
  instruction. `want` is a history: the value the program itself last gave EA.
* **Relax.** `addr` and `reach` are the `addr` and form of every item, `pc` and
  `freePc` the two cursors of the address pass (sections at fixed addresses do
  not move the others), `iterations` its count; `lo` and `hi` the section bounds the
  overlap check compares. `settled` is a history: the last pass changed no form.
* **RegAlloc.** `liveIn` and `liveOut` per block, swept until nothing changes;
  then the walk from the last instruction of every block (`at`, `live`) fills
  `interf`, `aligned`, `forbid` and `sites` (`ptr_sites`). `locs` is the result. The order
  of colouring, the weights and the hints are heuristics: the model takes the
  virtual registers in any order and gives each any allowed register, or none, so
  that what holds for it holds for any heuristic.
* **RegAllocRun, ParMove.** `mem[l]` is the set of pairs (virtual register, byte)
  whose present value location l holds: a definition of v removes v's pairs everywhere
  else, a copy adds the pairs of its source. An instruction is a script of
  steps, each of which reads, ruins, writes, pushes or pops, or starts a batch of
  moves; `ReadsRight` compares every read with `mem`. `pending` and `acc` are the
  locals of `par_move`, `viaA` the pending moves whose source it has replaced by A,
  `batch` its argument and `start` the memory before it. Moves into A itself, which the code
  keeps for the end, and values that are folded into a move, which it makes
  first, are left out.
* **Tracking.** `st` is `State` of the selector; a fact is a constant, (the low byte of) an
  address that the linker will know, or another cell. `cpu` is the machine. Every
  operator on `[st, cpu]` named for an instruction has the effect of `transfer` on the
  one and that of the processor on the other, so code is compiled and executed in one
  step; operators named for functions of the selector choose the instructions, by
  looking at `st` only. `Become` is one operation of a basic block. The locations that
  register allocation may have chosen are inputs: any source, any destination, any
  pointer register that holds no other operand. `Delivers` and `Pointed` look one
  operation ahead.
* **Simultaneous.** `store` is `start` while moves are pending and `mem` otherwise,
  `moves` the batch while it is pending: so all steps but the last are stutters.
* **Typing, Lower.** Pure operators. A typed expression is a record with its operator,
  operands and type, as `Expr` in `ast.rs`. The builder is a record: blocks, the
  current block, types of registers, what labels, `break` and `continue` stand for, open
  critical sections, and the value and the place lowered last (`val`, `lv`). Every operator
  takes one and returns one, in the order in which the code emits. `rvalue`, `lvalue`,
  `effect`, `cond_branch` and `stmt` call each other: `Lower` stands for all five, and
  each has a definition of its own.
* **Optimize.** `f` is the function being rewritten, `pc` the pass that runs next. One
  step is one turn of a pass: `Repeat` for passes the code runs until they change
  nothing, `Once` for the others. `changed` and `round` are the locals of `optimize`.
  `InlineOne` inlines any call that may be inlined: which of them pay is an estimate of code
  size, and what holds for any choice holds for the code's. `src` and `meaning` are
  histories: the function as lowered, and what it does for each of its inputs.
* **Compile.** An initial state is a program typed and lowered, or one of the functions that
  are optimized directly because no program of the families gives them. `Faithful` is
  stated of the first step, the only one that starts from the function as lowered.

## Runs

Twelve runs. `CHECK_DEADLOCK FALSE` everywhere, because compilers, linkers and
programs end; where ending is not obvious it is a liveness property. A run that
expects a violation shows a finding (below).

| Run | Instances | Shows |
|---|---|---|
| `overlay_frames` | every acyclic call graph on 4 functions in 3 numberings, any handlers of one priority, no sharing; every program numbered top-down in which nothing calls main; 9 cells, 5 activations; laid out but not run: every call graph on 3 functions, cyclic or not, any handlers; 2 areas | `OrderComplete`, `CallersFirst`, `ContextsApart`, `LayoutEnds`; `Intact`: no live frame is overwritten by any interleaving of calls, returns, saves and interrupts |
| `overlay_hanoi` | one program of 4 functions, one of them a handler | violates `Intact` |
| `rammap_layout` | globals with and without initializers, fixed objects in and around the bit area, frames of both contexts, 1 or 2 banks, with and without upper RAM | `Apart`, `Reachable`, `StackClear`, `Initialized`, `Ends` |
| `clobbers_calls` | 3 functions calling each other in every way, plain, naked, opaque or by pointer; main, two nested handlers and a shared function, with and without banks that agree; 2 registers, 3 banks, 4 activations | `ConventionKnown`, `KeptValues`, `OwnBank`, `Transparent` |
| `critical_sections` | 7 main bodies, 2 helpers, 3 handler bodies for each of two sources, timers at any instruction | `Excluded`, `Restored`, `Completes` |
| `relax_link` | 3 jumps of every kind, target and distance in one section; a vector, 2 functions and a constant at an address in 4 sections | `EncodeFits`, `Paid`, `Apart` |
| `regalloc_reads` | 363 functions of up to 4 blocks on 3 registers: every kind of operation with operands that die or live on, redefinition while a copy lives, nested loops, pointers, calls that permute arguments, runtime helpers, recursion, bits | `Settled`, `ReadsRight`, `PointerReady`, `AtOnce`, `NeverNested` |
| `regalloc_generic` | a generic load of two bytes | violates `ReadsRight` |
| `select_tracking` | any two operations of a basic block, and any third one, on a machine with 2 registers, 2 bytes and a bit of RAM, an SFR and a bit of it, a symbol; 3 expressions, 3 offsets | `FactsTrue`: what the selector believes is so; `Delivers`: nothing it left out was needed; `Pointed`: pointers, bytes that wait in A and targets of calls are where they should be |
| `compile_programs` | 3342 programs: every operator on every pair of types, casts in a row, conditions, every place a variable may be in and every way to change it, `?:` `&&` `\|\|` `,` as values and conditions, calls, structures and unions, all statements; 3253 functions of the IR: two operations in a row with constants, comparisons, extended and cut values, tests that decide later ones, loops of every step and bound, volatile accesses before branches, calls that are inlined | `Faithful`: lowering does what C says; `Same`: so does what is left after every turn of every pass; `Verified`; `Ends`: the rewrites do not undo each other for ever |
| `compile_bits` | `++` and `+=` on bit-fields, their values used | violates `Faithful` |
| `opt_loops` | a loop in a loop, with one counter | violates `Same` |

Every module also has its `TypeOK`, in the first passing run that uses it.

**Why the bounds are enough.** *Overlay*: a wrong overlap needs two live frames
and a path that orders them; four functions give two paths that meet, and a
handler with a callee beside them. Depth 5 lets a recursive function run
twice below a handler. What is beyond, the proofs cover. *RamMap*: RAM is
scaled (banks of 2 bytes, a bit area of 2 bytes of 2 bits, 14 direct bytes, 22 in
all) so that every object can fall before, into, and behind each hole and run
out of each area; 8-byte banks add no case. *Clobbers*: one register tells what a
set of registers does, the second lets parameters and clobbers differ; three
banks are main's and one per handler. *Critical*: nesting two deep and two sources
reach every rule of `sim.rs`; bodies are straight except for one loop, as EA is
restored by the brackets, not by what lies between. *Relax*: the page (16) and the
reach (8) are small enough that each jump of the family can be in any of its
forms and be pushed across a page by any other. *RegAlloc*: three registers are the
two pointer registers and one other; values of two bytes already show all byte
positions, and two of them do not fit. Slots (6), bits and
argument bytes (3) are as many as the largest instance needs; words that live on across a
recursive call show that every byte of a frame is saved for itself; a function that needed
more could not be placed, which the run would report as a deadlock. *Tracking*: an unsound fact needs one operation that
makes it, one that should have ended it and one that uses it; the third is inside
`Delivers` and `Pointed`. Two cells of each kind that facts can name let a fact about
the other survive; four values of a byte are enough for
a carry and for addresses 2 and 3, which pointers of two bits reach. *Compile*: a byte has two bits, so that char, int
and long have 2, 4 and 8 and every value of a parameter is an input; a constant of the
code that is a width is scaled with them. Sign, carry, truncation and the bits nobody looks at all
occur at two bits as at eight. A run may enter 100 blocks (`Fuel`), more than any
program of the families needs when it ends; loops without an end are compared up to
there. `Rounds` (16) and `Sweeps` (30) are the code's own limits; one call may be
inlined (`Inlines`), after which all passes run again. Families cover a rule
together with those that prepare or undo it, two or three operations in all: the
rewrites look at one instruction and the definitions of its operands.

**Fairness.** `LayoutEnds` assumes WF of the layout's steps, `Ends` WF(Next) of the
layout and the startup code, `Ends` of `Optimize` WF of the passes: a single thread runs until
it is done. `Completes` assumes
WF(Next): the CPU goes on to execute instructions. Timers and interrupts are
choices inside a step and get no fairness: they may come always or never. The same holds of
`InlineOne`, which the code may find profitable or not.

## Proofs

TLAPS checks the theorems below for every value of the constants that meets the
`ASSUME`s of the module. These say what an input is (`SizesAssumption`,
`ProgramsAssumption`, `ConstantsAssumption`): sizes are naturals, programs have the shape
the passes before give them. TLC evaluates them on every run.

**FrameOverlayProofs.** In layers, each an inductive invariant.
`TypeInv` is `TypeOK` with the shape of activations. `OrderInv` adds that the order
holds no function twice (`Distinct`) and that `indeg` counts the callers not
yet listed, except for the function at which a cycle is just being broken (`Counted`). It says
of every listed function (`Before`) that all its callers are in front of it, or that a cycle
was broken there: then it was the first of the functions left, each of which
still had a caller among them. `LayoutInv` adds where frames are: `end` bounds what
was placed, the interrupt context starts above the main one, and a frame begins no
earlier than those of the callers in front of it in its context end (`Placement`). These
hold for every call graph.

The rest is about programs numbered top-down where they recurse (`TopDown`). A component of the call graph
is entered through its first function, its `Entry`. From `Before` and `TopDown` follows
(`OrderTopDown`) that callers from outside a component are in front of all of
it, and that every function but the entry has a caller of its component in front of
it; the first needs that functions in front of all cycles are never left when a cycle is broken, for
a set of such functions has one that none of the others calls (`FirstInFront`).
`MarkInv` adds that only functions a handler reaches are marked, and that marks have
followed the order (`Marks`). In a program numbered top-down every function a handler
reaches has a caller in front of it that one reaches as well, or is a handler
(`MarkedCaller`); so when the layout is finished exactly those are marked (`MarksExact`), and
`ContextsAreApart` follows. Sharing and priorities do not matter for it.

With no sharing and one priority (`ContextInv`), what can run of a component is in its entry's
context and lies no lower than its entry's frame (`EntryIsLowest`). For the run,
`RunInv` adds that the stack is a chain of calls below a chain of calls of one
handler (`Chained`), and that the frame of an activation that has not saved it ends below the *entry*
of the component of every later activation (`Nested`). The frames themselves cannot
be nested: inside a component they overlap. But a caller whose call stays in its
component has saved its frame, and when it pops it again it writes no lower than its
entry's frame, so it cannot reach what is live below.

* `TypeCorrect`, `OrderIsComplete`, `CallersComeFirst`: every call graph.
* `ContextsAreApart`: every program with `TopDown`, any handlers. Without it the statement is
  false: see `overlay_hanoi`.
* `FramesIntact`: every program with `Disciplined`: numbered top-down where it recurses
  (`TopDown`), no sharing, one priority. `AcyclicIsTopDown` shows that a program without recursion
  always meets the first; `overlay_frames` assumes that some of its recursive programs do
  (`SomeRecurse`). Each of the three conditions excludes programs for which `Intact` is
  false: see `overlay_hanoi` and the restrictions below.

**ClobbersProofs.** First the compiler: `Compiler` is `TypeInv`, that the visit
compiles each function once (`Visited`), and what the tables of compiled functions
say (`Conventions`): `total` is closed under the calls that code contains;
opaque functions and recursive ones have the full set. Then the run, for which
`RunInv` adds: a called activation keeps nothing that its callee may change
(`Links`); handlers are stacked in rising priority (`Ranks`); code in a bank other
than 0 runs below a handler of that bank (`Origins`); along a chain of calls the
sets only shrink and the bank stays (`Chains`); the bank selected is the one the
running code was compiled for (`Machinery`). The heart is `Current`: every cell an
activation relies on still has the value of the snapshot taken at its entry,
unless the handler pushed it or it belongs to a bank of handlers above; and
`Frozen`: the same of the memory a handler found, which is what it restores.

* `TypeCorrect`: every program. `KeptValuesCorrect`, `HandlersTransparent`,
  `OwnBankCorrect`: every program with `BanksAgree`, the assumption the code makes
  silently, which keeps a write by name and one by address in the same cell.

For `ConventionKnown`, on top of `TypeInv`, `Visited` and `Conventions`: each function on the
path of the visit reaches the ones behind it, and a listed function has its callees
listed before it unless they are recursive (`Ordered`). When the visit leaves a
function, a callee that was seen and not left is still on the path; so it reaches its
caller, and is recursive. Those have their summary from the start (`Summarised`).

* `ConventionIsKnown`: every call graph, every order of visits.

**RelaxProofs.** `FitInv`: behind the cursor of a reach pass every form that was not
changed fits the addresses of this pass; so a pass that changed nothing leaves only
forms that fit. For `Apart`, `Walk` says that the address pass writes item after item
without a gap inside a section, so a section is an interval, and the check that
sorted neighbours do not overlap carries over to all pairs (`InStep`: forms and
addresses are of one pass).

For `Paid`, a form only becomes larger, and for good (`PassGrows`), so the jumps that grew
before a pass and the one that made it grow are different ones.

* `TypeCorrect`; `SettledEncodes`: a relaxation at rest always encodes; `ItemsApart`, of
  relaxations at rest too (see the restrictions below for others);
  `PassesPaid`: the number of passes, from the second on, is at most that of the jumps
  which grew and those which grew twice.

**RamMapProofs.** Three invariants, one on top of the other. `PlaceInv` is that of the
layout: counters and tables (`PhaseInv`), every item placed is one of the program and
lies whole at some offset of its area (`KnownInv`), below the end of its frame or the
cursor (`PlacedInv`), what has had its turn is there (`NamesInv`), and two items that
can be live together share nothing (`PairsInv`). The last is not inductive without the one
before it: the next item goes above everything it can be live with because along a chain
of calls in one context the frames end one above the other (`ChainEnds`), which is where
the order of the functions and the rule for a start at the callers' ends are used. Offsets
become addresses by counting the free bytes: the table rises (`AscendingOrder`), so
`n` offsets whose last address is `n - 1` behind the first have no hole between them
(`WholeBytes`). `MachineInv` has the types of the machine and where the stack starts.
`MemoryInv` says of the startup code that what the loop has passed is zero, and after it
that every byte that is owed a value has it or a write of it is pending; that a byte
owed zero is one the loop reaches (`OwedZero`) needs the place of every kind of object,
that no write spoils it (`OwedAgree`) needs `Apart`.

* `LayoutInvariant`, `TypeCorrect`, `ReachableCorrect`, `StackClearCorrect`: every program,
  every size of banks, bit area, bytes and RAM.
* `ApartCorrect`: programs whose fixed objects are directly addressed (`FixedLow`). The
  layout does not look for others when it fills upper RAM: see the restrictions below.
* `InitializedCorrect`: in addition, fixed objects with initializers do not overlap
  (`FixedApart`): which of two the program means is not for the compiler to say.

**RegAllocProofs.** First the allocation, whose invariant `AllocInv` has a part for each
of its phases.

* Liveness: as long as a sweep has changed nothing, the blocks it has visited agree with
  their successors (`SweepInv`). A visit that changes nothing disturbs no agreement; the
  sweep that changes nothing at all is the last.
* The walk: what it has passed is recorded (`WalkInv`): what interferes at an instruction,
  which bytes must align, which registers are forbidden across it. The pointer sites are those of
  instructions (`SitesKnown`), and parameters with fixed locations are read by the
  copies of the entry alone (`SplitInv`).
* Assignment: what a value has at each stage (`PlaceInv`); that interfering values never
  share a location, aligned ones only bytes of one position, and no value sits in a
  register forbidden to it (`ApartInv`); that parameters are apart (`ParamsApart`), and that
  no pointer site is left without R0 and R1 (`SitesFree`).

The function that runs adds `RunInv`: types, and the invariant of `par_move`
(`P!MovesInv`), which needs that every script asks for batches with distinct destinations
(`ScriptSound`). `ReadsRight` is not inductive: it says nothing of values that are not read
now. `ValueInv` says, for every position in a script, where each live value is, or will
be when the pending moves are made (`WillHold`). Between instructions every value that is
live and defined is at all its places (`Present`). Within one (`Midway`) so are the
operands not read yet, the values that live across it, and the bytes of the result that
are written. Inside a call (`Calling`) the arguments reach the parameters, what lives on
is in registers that the callee keeps, in its own slots or, if the callee is this
function again, among the slots that were saved (`Kept`). That the recorded interference
is enough for each kind of instruction is a lemma per kind, and `EarlyInv` has what
`TypeOK` says of the time before the assignment.

The functions are those of `IsProgram`: operands and results have the sizes that the
instructions of `ir/mod.rs` give them (`IsTyped`), summaries have locations for the bytes they
are called with and no location twice (`CalleeFits`), and parameters with fixed
locations are split (`IsSplit`).

* `LivenessSettled`: every function, in every order of sweeping.
* `TypeCorrect`, `PointerReadyCorrect`: every function, number of registers and slots, and
  choice of registers.
* `ReadsRightCorrect`: every function whose loads through generic pointers have results of one
  byte (`NarrowGeneric`). Without that premise it is false: see `regalloc_generic`. The
  functions of `regalloc_reads` meet it (`FamiliesAreNarrow` of `MCRegAlloc`).
* `RunMovesAtOnce`, `RunNeverNested`: the two promises of `par_move` for the batches that
  an allocated function really asks for, not only for batches with distinct destinations.

**ParMoveProofs.** For any set of locations and values, any other code before and after,
and batches of any length of which no two moves have one destination. `MovesInv`: a
pending move still finds its byte, at its source or in A (`Waiting`); a move that was
made, or was none, has put it where it belongs (`Arrived`); nothing else has changed
(`Untouched`). A free move disturbs no other because nobody reads its destination,
and nobody else writes it.

* `MovesAtOnce`: `par_move` implements `Simultaneous`, with the refinement mapping that
  `regalloc_reads` checks.
* `NoNestedCycle`: the assertion at `select.rs:783`. If no pending move is free,
  each has a reader of its own that does not wait for A; so there are as many
  of those as there are pending moves, and none waits for A.

**TrackingProofs.** `Good`: the selector and the machine have their types, and every
fact is true (`Known`). Init has no facts; for each instruction a lemma shows that it
keeps `Good`, for the code of each operation another one that composes these, down to
`StepGood` over all operations. Three arguments carry it:

* A write to a cell (`WriteTrue`): `Forget` drops what leans on the old content, and a fact
  that does not name the cell means the same before and after (`Outlives`). So the new
  fact may be recorded only if it does not name the cell itself, or if nothing changed.
* A store through a pointer register: whatever way `set_rptr` takes, by `inc` or through
  A, the register ends at the pointer plus the offset modulo a byte (`SetRptrSets`), so
  the store hits one of the cells `ClobberMem` is told of (`StoreAtGood`).
* Code that ends where it began: after the byte of a store was brought to A, A's fact says
  at most a constant, which the moves of the pointer do not touch (`StoredFact`).

Assumed are disjoint kinds of cells, registers within a bank, a linker that places symbol
plus offset that far behind the symbol, and `StoredAssumption`, under which
`rptr_setup_needs_a` tells the truth (see the restrictions below).

* `TypeCorrect`, `FactsAreTrue`: any number of registers, bytes, bits and values, any
  sequence of operations.
* `MovesDeliver`: the instructions that are left deliver. Below it lies, for each way a
  byte gets to A, B, C or its place, a lemma that says what is there afterwards and what
  is as before (`LoadAValue`, `LoadCValue`, `LoadBThenAValue`, `MoveBytePuts`,
  `StoreBitPuts`). Where an instruction is left out, the fact that
  was the reason for it is true of the machine by `Good`, and two values of which one
  fact is true are equal (`KnownEqual`).
* `PointersPoint`: the sums that become addresses. A pointer register is the old one plus
  the offset modulo a byte; DPTR is the two bytes of a sum with a carry between them, which
  is that of a 16-bit addition (`NextQuotient`, `HighByte`), however it is formed: by
  `inc dptr`, by adding to the two halves or by the linker (`AddDptrPoints`,
  `IncDptrByPoints`, `SetDptrPoints`). The byte that waits in A or B meanwhile is
  still there (`SetRptrKeepsB`, `GenStorePuts`, `GenStoreXPoints`).

**CriticalProofs.** What `TypeOK` says of the running program, that a `ret` finds a call's
return address, a RETI an interrupt's and a POP PSW a saved PSW, rests on the code the
compiler wrote. `Linked` says what may stand next to what: the five instructions that open
a section, the two that close one, and `pop psw; reti` are never torn apart, a PUSH PSW
is the first instruction of a handler, loops have labels of their own, and a call goes to a
function that is no handler. It is kept when two pieces are joined (`Joined`), and each
piece has it. `Compiled` is the invariant of the compiler: what is written is `Shaped`, as
many sections and loops are open as the tokens so far opened, and jumps go to labels that
are there or belong to an open loop (`Written`), so that a function is `Complete` when the
walk is through. For the CPU, `Framed` says of the running code, and of each entry of
the stack, what lies below it (`Based`): a call for a function, an interrupt for a handler
before its PUSH PSW and at its RETI, and PSW over that interrupt in between. A jump
never arrives at a RETI (`ArrivesMid`), so a handler that goes on stays where it was in
this order.

* `TypeCorrect`: every program whose brackets match, with any functions, sections, loops,
  calls, handlers and jumps, also out of sections.
* `ExcludedCorrect`, `RestoredCorrect`: every such program that is `Disciplined`: `break`
  and `continue` stay in their section, loops and sections lie one inside the other, and
  no function that sections call, directly or not, assigns EA. `MCCritical` assumes it of
  its programs, so TLC shows that there are such.

The second pair needs to know which sections are open at every instruction. That is a
property of the text first: `Between` says that some assignment of sets of sections to the
positions agrees with every instruction (`Within`): `mov bit,c` adds its section and
`mov ea,c` takes the innermost away, the note `in` is set exactly where the set is not
empty, and a jump and its label have the set of the token they were written for
(`SetBefore`). `Sectioned` is the invariant of the compiler: what is written so far ends
with the sections in `crit`, which are those the tokens leave open (`Lists`). While the
code runs `SetAt` is that set at an address, and `Sound` the invariant of the CPU:

* `Here`: EA is on exactly outside of sections, if the program wants it and nobody below on
  the stack waits in a section; between the instructions of a bracket the carry stands for
  it. An interrupt may come between `setb c` and `jbc ea`, so the carry of an interrupted
  `jbc` is saved with PSW (`Served`);
* `Kept`: of the bits of the open sections only the outermost may be set, and it is
  what EA was. Nested sections restore "off" until the last one ends;
* `Waiting`: the same of every entry of the stack, with what lies below it;
* `Sheltered`: what runs while a section waits is a function of a higher number that sections
  may call. It neither assigns EA nor is it the waiting function, whose bits it would
  overwrite: bits of a function that is called again would be lost;
* `Served`: there is one interrupt at most and no section below it, which is `Excluded`.

### Model-checked only

* Liveness: `LayoutEnds`, `Ends`, `Completes`.
* That an allocation ends with every value placed, and that the function then returns or
  runs on: `regalloc_reads` checks that no state is stuck.
* All of `Compile` and what it extends. Trees are walked by RECURSIVE operators, which
  the provers do not take, and what such an operator computes needs induction over data.

## Findings

* **`overlay_hanoi`** – `topo` breaks a cycle at the unseen function with the lowest
  number. If a callee of a cycle is defined before it, that callee is ordered first, and its
  frame placed below the cycle's, on top of main's. In the run a handler calls the recursive
  function: since marks follow the same order (`layout.rs:97`) the callee is not marked either,
  it stays in main's context, and the interrupt overwrites what main has live. No function is
  shared and there is one handler. The same happens without any handler if main
  calls the recursive function.
* **`regalloc_generic`** – a load of several bytes through a generic pointer reads the
  pointer again for every byte, but its result may share a register with it.
* **`opt_loops`** – the counter of an inner loop that nothing sets anew starts its second
  time at the bound; the test at its end has become `!=`, and the loop runs on until
  the counter wraps.
* **`compile_bits`** – the value of `++`, `--` and compound assignments on a bit-field is the
  one before it was cut to the width of the field, unlike that of `=`.

Restrictions found while reading, which the models state as assumptions and no
run shows:

* frames of all handlers share one context, so a high-priority handler overwrites
  those of the low one it interrupts (`layout.rs:282`; `OnePriority`);
* a function that main and a handler both call is placed in the interrupt
  context, over frames of other handlers (`layout.rs:97`; `NoSharing`);
* `__at` constants in code are checked against the functions, and functions do not
  flow around them although `link.rs:12-13` says so: such a link fails;
* the page test of a conditional jump that has grown uses the address of the
  instruction as it was, so the form is not always the shortest (`link.rs:142`);
* `gen_memcopy` (`select.rs:3023`) takes R0 for the source even if the destination
  pointer that dies there is in it;
* `split_params` (`program.rs:1473`) copies parameters in block 0, which is right only
  because nothing jumps to block 0 (`IsProgram` of `RegAlloc` says so);
* a function without `__using` called from a handler with it is compiled for
  bank 0 (`program.rs:746`; `BanksAgree`);
* `break`, `continue` and `goto` out of a `__critical` block leave EA off: only
  `return` closes sections (`build.rs:1611` and `1635`). `Disciplined` of `Critical`
  says that jumps stay inside their section, and the programs of `MCCritical` are such;
* an assignment to EA inside a section is undone at its end (by design), so
  `ProgramsAssumption` of `Critical` excludes it, and `Disciplined` that of a function
  called from one;
* the clear loop's end is computed from the number of bits and ignores reserved
  bytes that bit numbers skip (`program.rs:1120`); zero bytes of initializers at
  fixed addresses behind it are not written. `Initialized` says exactly what holds;
* the search for upper RAM ignores fixed objects there (`layout.rs:184`), and the
  start of the stack ignores those above the last byte of data (`layout.rs:296`);
* initializers of `__bit` globals are dropped (`program.rs:942`);
* a handler without `__using` compiled for bank 0 does not select it, and runs in the bank
  of the handler it interrupts (`program.rs:1530`; `BanksAgree` excludes it);
* after 101 passes the linker encodes with addresses that no longer fit the forms
  (`link.rs:150`): the long form of a jump may lie over the instructions behind it, and nothing
  is reported. It takes conditional jumps each of which only reaches until the next one
  grows, a hundred in a row: `Relax` started with such a row links it with items that overlap.
  `SettledEncodes` and `ItemsApart` are about relaxations that came to rest;
* zero bytes of an initialized object in upper RAM are neither written nor cleared
  (`program.rs:1116`);
* the analysis of demanded bits stops after 30 sweeps (`opt/narrow.rs:39`) and narrows with
  what it has. A demand crosses one addition in a sweep, so of 31 in a row, each into a
  register of its own, the first is done in a byte although all of the sum is used:
  `Optimize` started with that function violates `Same`;
* narrowing and propagation may undo each other's work round after round: then the
  limit of sixteen rounds ends them (`Ends` counts this as an end);
* `a ?: b` evaluates `a` twice, as the comment at `parse/expr.rs:156` says;
* `x op= y` on a bit-field converts as if the field had its declared type
  (`parse/expr.rs:121`), `x op y` as if it had the smallest one it fits;
* a computed byte that is stored through a pointer at offset 3 is lost:
  `rptr_setup_needs_a` (`select.rs:1871`) says that pointing does not take A, but
  `set_rptr` increments for offsets 1 and 2 only and adds to A otherwise
  (`StoredAssumption` of `Tracking` excludes it; with 3 in `Offsets` and without the
  assumption TLC violates `Pointed` at once). `dptr_setup_needs_a` (`select.rs:1878`)
  misses negative offsets in the same way, which `Offsets` does not have;
* what is restored of A after the pointer is set (`select.rs:1790`) can name the register
  that has become the pointer, if the byte stored is the low one of a dead word in it
  (`StoredAssumption`);
* a volatile byte at a direct address is not read or written again if its
  value is known (`select.rs:1628` and `1763`, through `move_byte`), although
  `ir/mod.rs:523` says of volatile locals that loads and stores must be kept;
* the simulator has one interrupt level (`sim.rs:38` speaks of two), so nested
  handlers have never run on it.

## Not modelled

* The 256 opcodes, and the code of comparisons, shifts, divisions and wide arithmetic: local
  identities, best tested exhaustively. `Tracking` has the instructions that moves,
  sums and pointers need; generic and indexed pointers, copies of blocks and inline
  assembly are not in it.
* In `Tracking`: writes by the program to A, B, DPL, DPH and PSW as special function
  registers; the restored facts after a borrowed pointer register (`release_rptr`).
* In `Typing` and `Lower`: pointers, arrays and aggregates as values, floating point,
  variable arguments, statement expressions, inline assembly, initializers. In the optimizer:
  addresses as values, block copies, 64-bit and floating values, several address
  spaces of one pointer, and the estimates of the inliner.
* In `RegAlloc`: weights, preferences, hints and the `reserved` registers; values that
  the selector folds into their only consumer; pointers with an offset; the code that
  borrows a pointer register (`PointerReady` says when it is not needed); copies
  of blocks of memory.
* The grammar, formatting of the IR and listings, diagnostics, files, Intel HEX.
* The serial port's data and the video chip of `minitel_sim`: no control.
* The C library: ordinary programs.

## Plan

In order of weight:

1. Comparisons, shifts and switches in `Tracking`; folded values and borrowed pointer
   registers as an extension of `RegAllocRun`.
2. Pointers and aggregates in `Typing`, `Lower` and the optimizer; scopes and address-space
   inference (union-find) of the parser.
3. Preprocessor conditionals, includes and hidesets.
4. Peephole liveness and the stack discipline of outlined code; two assembler
   passes (`asm/*`).
5. An instruction set module from `sim.rs`, and the arithmetic templates of
   `select.rs` and `rt.s` against reference arithmetic at small width.
6. Section order, the shared argument area of calls through pointers against
   interrupts (`cg/mod.rs:70`), runtime closure.
7. An abstract specification, "every activation has private memory", that
   `FrameOverlay` and `RamMap` implement.
