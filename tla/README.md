# A TLA+ development for Zown

Zown is a dense, stack-based language for agents: a Rust virtual machine
(`zownc/crates/zown-vm`), a checker, a native runtime and three code generators,
a command line, and a Python oracle (`zown/`) that implements the same semantics
a second time. This directory holds TLA+ modules of the parts whose correctness
depends on the order of many steps or on rare operands, TLC configurations that
check them on small instances, and TLAPS proofs for every instance. The models
are translated from the Rust sources; paths below are relative to
`src/zownc/crates/zown-vm/src/` unless they name another crate or directory.

## 1. Inventory

| Part | State | Operations | Interacts with | What is hard | Modules |
| --- | --- | --- | --- | --- | --- |
| Block invocation (`lib.rs`) | `depth`, `stack`, `caps`, the handlers on the Rust call stack | `@`, `;`, `ty`, `gr`, lane vectors, word calls | everything that runs a block | faults that pass through several handlers, the depth limit, one VM reused by the repl | `Invoke`, `Authority` |
| Words and live swap (`stdwords.rs`) | `words`, `swap_undo` | `wd`, `sw`, `ts`, `pp`, `cs` | invocation, signatures | a swap whose test swaps, defines or faults | `Invoke` |
| Ownership (`lib.rs`, `buf.rs`, `value.rs`) | handles on the stacks, in `env` and in results; the allocations | dup, over, swap, rot, drop, bind, move, `bf` `bg` `bp` `ln` | `ty`, which puts stacks aside | one owner and no use after free over long chains of legal words | `Ownership` |
| Lanes and jobs (`lanes.rs`) | `bodies`, `pipes`, `jobs`, `requested`, `rr`, `lane`, `in_tick` | `~m` `~n` `^` `lc` `pm` `pn` `rn` | invocation, the host's CPU count | stealing, resizing with jobs queued, faults inside a tick | `Lanes` |
| Streams (`stream.rs`) | sockets, the names file and its lock, the backlog | `~o` `~l` `~c` `~s` `~r` `~w` | other processes | timeouts, killed peers, partial frames, stale names | `Names`, `Frames` |
| Snapshot file (`hostio.rs`) | `dest`, `dest.tmp` | `mm`, `ml` | graph, file system | crashes between system calls | `SnapshotFile` |
| Graph, bundles, log, tables (`store.rs`, `mesh.rs`) | `graph`, `log`, `table`, the content store | `gv` `ge` `gs` `gl` `mg` `sb` `sl` `so` `la` `lp` `~p` `~f` `»` `→` `«` `tc` `tu` `tq` | files, signatures, other VMs | merges in any order, cut and joined texts, proofs in trees of any size | `Store` |
| Collections (`coll.rs`) | list, queue, ring, heap, set, map, B-tree, trie, bloom filter, bit vector | `ps` `po` `pt` `gt` `hs` `sk` `px` `ln` and the drop of the owner | ownership | splits, limits, packed bits, stale handles | `Collections`, `CollContract` |
| Numbers (`bigint.rs`, `exact.rs`, `value.rs`, `lib.rs`) | none | ints, bigs, floats, decimals, Gaussian ints, widths, lane vectors | every arithmetic word | carries, rounding, widths, mixed comparison | `BigInt`, `Numbers` |
| Front end (`zown-lexer`, `zown-parser`, `zown-ast`, `zown-ir`) | none | text to tokens to nodes to IR | all back ends | token boundaries, nesting | `Source` |
| Tree-walker (`lib.rs` `exec`) | stack, names, words, capabilities | one pass over the nodes | all | the reference for the back ends | `Machine` |
| Checker (`zown-check`) | defined and moved names, granted capabilities | one pass over the nodes | parser | soundness against the VM | `Checker` |
| Native code (`zown-codegen`, `zown-rt`, `native.rs`) | its own depth counter, first error | compiled blocks | IR, VM | same results as the VM on every path | `NativeCode` |
| WebAssembly (`zown-wasm`) | tagged cells, `$err`, `$catch`, `$depth` | compiled blocks | IR | the same, in 64-bit words | `WasmCode` |
| Command line (`zown-cli`, `zown/cli.py`) | one VM | check, run, native, llvm, wat, repl | everything | the four ways to run one program agree | `Language` |
| Codecs (`opus*.rs`, `av1*.rs`, `media.rs`) | coder state inside one call | `oe` `op` `ve` `av` | buffers | carries, adaptation and contexts that must agree on both sides | `RangeCoder`, `Msac`, `Still`, `Media` |
| Telemetry (`tele.rs`) | events, wants, values, trace | `td` `tw` `ob` `df` and a line per fault | streams, faults | two peers that exchange traces at once | – |
| Paths and files (`hostio.rs`) | `roots` | `gd`, `fr`, `fw`, `mo` | `caps`, the file system | path resolution | roots in `Invoke` |
| Mesh (`zown/mesh.py`) | node ids, one bundle | hello, fetch, data over UDP | bundles | lost and reordered packets | – |
| Boot sector and kernel (`zown-bare`) | emitted code | boot image, kernel | IR | memory layout | – |
| Cryptography (`blake3.rs`, `chacha.rs`, `curve.rs`, `sha512.rs`, `crypt.rs`) | none | hash, seal, sign | bundles, swaps | word arithmetic | – |
| User interface (`ui.rs`) | widget list | words that add and lay out widgets | files | none across calls | – |
| Other tools (`lsp.py`, `pkg.py`, `stage.py`, ...), Python oracle | documents | commands | everything | a second implementation | – |

What makes each part correct is stated as its properties in section 3; the
hazards they answer, each at its line, are listed in `PROJECT.json`.

## 2. Plan

Written: everything named in the last column above. `Invoke`, `Ownership`,
`Lanes`, `Names`, `Frames` and `SnapshotFile` are state machines of steps that
interleave or fail. `Store` and `Collections` are state machines too, whose words
compute over logs, graphs, texts, trees and heaps; they write their recursion as
recursive functions, and so do `BigInt` and `Numbers`, whose words compute over
limbs, digits and lanes. These ten declare no RECURSIVE operator, so that they can
be proved about, and section 6 says what is proved of each. The others compare
algorithms with reference definitions, or several implementations of one
semantics with each other; they recurse over symbols, tokens and programs and are
checked by TLC only.

Next, in this order:

1. `Telemetry`: the wants and the trace of two peers, composed with `Frames`.
2. The path rules of `gd` as pure operators, and `mo`.

## 3. The modules

In the modules of pure functions, code that computes one thing after another is a
chain of operators, each applied to the result of the one before it (`AfterSkip`,
`AfterCond`, `DivScaled`): one operator for each statement the code makes of a
result it has just got.

### Invoke: blocks, faults and authority

`Invoke` has one action per word that runs a block. The Rust call stack is the
variable `frames`: one record per active handler with what the handler keeps in
its locals (`fresh` of `b_grant`, the saved stack of `b_attempt`, the count of
`b_pp`) and, as history, the authority it found (`snap`). `mode` says where
`Vm::invoke` is: `call` just before its depth check, `over` after a refusal,
`fault` while a `RunError` travels up. `stack` keeps only whether a value is
true, which is all that the words that run blocks look at. A word with a wrong
operand is `Trap`. `NextLine` is the repl of `zown/cli.py`, which reuses the VM.

`Authority` is the abstract specification: a stack of authorities that each
handler extends and puts back. `Invoke` implements it (`ImplementsScoping`)
with `now <- [caps, roots]` and `before <-` the snapshots of the handlers.

Properties: `AuthorityIsScoped` (the authority in force is what the active
handlers granted, level by level), `CleanWhenIdle`, `SwapAllOrNothing`, under
fairness `InnermostCatches`; and, proved only, `HandlerRestores`,
`DepthIsNesting` and `BodyAlwaysEnters`.

### Ownership: one owner, freed once

A value is an exclusive handle, a borrow or plain, inside `wrap` layers of
result. The stacks that pending `ty` bodies put aside and the current one are
one sequence cut at `bases`. Each action is a word: `Allocate` (`bf`), `Dup`,
`Over`, `Swap`, `Rot`, `Release` (`,` `.`), `Length` (`ln`), `GetByte`,
`PutByte`, `Bind`, `BareName`, `Move`, `Attempt`, `EndAttempt`, `Unwrap`,
`Forget`, `Fault`. `wrapped` is history: the allocations whose owner a `ty`
body returned, for which the promise does not hold (section 5).

Properties: `OneOwner`, `FreedHasNoOwner`, `NeverReowned`; proved only,
`OnlyOwnerFrees`.

### Lanes: ticks, lanes and compute jobs

`phase` is where the scheduler is; the words of a program (`Register`, `Spawn`,
`Request`, `Send`, `Pull`) are possible outside `rn`, inside a lane and inside a
job, so they interleave with the tick exactly where the code lets them.
`WorkerCounts` asks the host for its CPUs twice, as `ensure_workers` does, and
the host may answer differently. `rr` wraps as the code's counter does.

Properties: `FlagsMatchPhase`, `LanesBeforeJob`, `JobConservation`, and under
fairness `RnReturns` and `JobsStart` (for runs in which the number of workers
settles: a program that changes its grant for ever may keep an owner's turn from
coming up).

### Names: finding a peer

Peers are processes that share the names file, `names.lock` and the ports.
Each system call of `with_names`, `listen_on`, `accept_one`, `lookup` and
`connect_timeout` is a step, a peer may be killed between any two of them, a
rename may fail, and a file that cannot be read is an empty one
(`unwrap_or_default`; phase `blank`). The names file is a function from names to
entries: `register` removes every line of the name before it appends its own, so
a name has at most one line. `latest` and `crossed` are history.

Properties: `NoLostName`, under fairness `WordsEnd`; proved only, `LockHeld`.

### Frames: talking to a peer

Each byte of `write_frame` and `read_frame` is a step on a wire with `Room`
bytes of buffer. A write that finds the buffer full and a read that finds
nothing may time out; a word that fails leaves the bytes it moved moved and the
stream with the program, as `op_send_stream` and `op_recv_stream` do. Bytes in
the place of a header that are not a header may mean any length. Closing a
socket with unread data resets the connection and may lose what the other side
has not read. `op_relay` is an actor with four legs. `sent`, `got` and `torn`
are history.

Properties: `InOrder`, `RelayInOrder`, under fairness `WordsEnd`. The first two
are proved for every set of peers, wires, messages and buffer size.

### SnapshotFile: `mm` and `ml`

Every system call of `b_mm` is a step. A file has its contents as the system
shows them (`shown`) and as they are on the disk (`disk`); `destDisk` is what the
directory entry may be after a power loss. `PowerLoss` leaves of unsynced data
any prefix, whole or cut inside a line. `Parses` is `try_snapshot`: it cannot
see that lines at the end are missing.

Properties: `DestIsWhole`, `ReturnedIsDurable`; proved only, `LoadedWasSaved`.
With two processes that save to one path the first two do not hold: that they do
not is a hypothesis of the theorems (section 6).

### Store: graphs, bundles, log and tables

Several VMs hand each other the texts they made. A text is the sequence of its
lines; a program may join two texts, and what comes back from a file or a peer
may be cut at a line or inside one (`Cut`). Hashes and signatures are free
constructors, equal only when made from the same things. `merged`, `snapshot`,
`try_snapshot`, `seal`, `open_bundle`, `mth`, `audit_path` and `fold` are
operators, their recursion written as recursive functions on lengths; every word
is an action, faults included. `sealed` is history.

Properties: `OpenedWasSealed`, `ProofIffLogged`, `MergeConverges`. `NoPanic` does
not hold (section 5): a panic ends the run of the model.

### Collections and CollContract

`Collections` keeps each of the ten kinds as `CollStore` does: the B-tree of
minimum degree 2 with its splits on the way down, the trie, the heap with its
push counter, the ring, bits packed into bytes. `CollContract` is the abstract
specification: a sequence, a set, a bag or a function and what every word does
to it and answers. `CollWords` holds what both share: the kinds, the limits and
the replies. A node of the B-tree is a record with its pairs and its kids; the
functions on trees have as domain the trees of at most as many levels as a tree
may have keys (`Trees`), which are all a collection can hold. A trie is a function
from the path of each of its nodes to the flag that a word ends there. Sorting a
leaf after a push is putting the pair in its slot, since the leaf was sorted
before. `KeepsContract` is the refinement (`held <- Held`, which reads the
mathematical value off the stored one); words that only look are compared in
every state (`LooksAgree`). `TreeBalanced` and `NoFalseNegative` are about the
shapes themselves.

### BigInt and Numbers

`BigInt` is `bigint.rs` on limbs, with the rounding conversions to floats;
`Numbers` adds the values of the VM and a machine whose actions are the number
words on a stack of two operands. Floats are finite (sign, significand,
exponent), infinite or NaN and their operations are IEEE's, rounded to nearest
even, defined over integers counted in the smallest unit; `powf`, and `sqrt` of a
float, are external. Every width is a constant.

Properties: `ExactArithmetic`, `OrderIsExact`, `NearestFloat` (division of ints,
conversions and `rd`; quotients in the subnormal range excepted, section 5),
`WidthsHold`, `TextReadsBack`; `SqrtIsFloor` is violated (finding 1).

### Source, Machine, Checker, NativeCode, WasmCode, Language

`Language` types a text, chunk by chunk, on one of its keyboards; after each
chunk the text is lexed and parsed (`Source`), checked (`Checker`), run by the
tree-walker (`Machine`), and lowered to the IR and run as compiled code
(`NativeCode`, once with the inline integer code of Cranelift and once as the
LLVM text does it; `WasmCode`). One run is a function of the program: printed
values, the fault it ends in, and the places that completed.

* `Source` has a token per lexeme with its span, so that its properties can speak
  of characters; line and column numbers are left out.
* `Machine` has ints, strings, blocks, capabilities and results, names, words,
  capabilities, `ty`, `gr`, `ts`, `pp`, `wd`, `??`, `;`, `@`, `?`, moves. A value
  outside these (a float, a socket) ends the run as `OUTSIDE`; a run that uses up
  its `Fuel` ends as `FUEL`. Neither is compared.
* `NativeCode` keeps what differs natively: blocks are function numbers, the
  depth is counted by the runtime, integer operators are inline with an overflow
  check, a fault is a pending error tested after each call.
* `WasmCode` has wrapping 64-bit arithmetic with the tests of `$iadd` and `$imul`,
  operands popped before their tags are looked at, and the two globals of `ty`.
  Where the emitted code is known not to do what the tree-walker does, the run
  records a name in `odd`, and `WasmAgrees` is stated for runs with none: a
  disagreement that is not on the list of section 5 violates it.

Properties: `LexIsLongestMatch` (against a grammar of lexemes of its own),
`SourceRoundTrips`, `FindingIsFault`, `NativeAgrees`, `WasmAgrees`.
`FindingIsFault` is about `NAME_UNRESOLVED` and `CAP_DENIED`: the place a finding
names never completes. It leaves out missing names in programs that run blocks
through `ts`, `pp` or words of their own (`Overtaken`), for which it does not
hold (section 5).

### RangeCoder, Msac, Still, Media

`RangeCoder` is the entropy coder of Opus, encoder and decoder, with raw bits
from the end of the packet, the Laplace code of energies and the numbering of
pulse vectors. `Msac` is the adaptive coder of AV1. `Still` is the lossless
picture: prediction, the Walsh-Hadamard transform, coefficient contexts, block
order, the tile and the units around it, on both sides. `Media` is the machine:
an encoder writes symbols or blocks one at a time, the packet is closed, the
decoder reads them. Tables of initial frequencies are flat ones.

Properties: `SymbolsReadBack`, `SidesAgree` (range, bit count and tables after
every symbol), `PictureReadsBack`.

## 4. Runs

| Run | Configuration and bounds | What it shows |
| --- | --- | --- |
| `invoke` | two capabilities, a directory and a file under it, one word with two bodies, depth 3, stack 1, fairness | scoping, the refinement of `Authority`, swaps inside tests of swaps and how far faults travel. Three levels are an outer grant, an inner one and the block that faults; a swap only looks at the top of the undo list, so a swap in a swap in a try is the deepest case that differs. |
| `ownership` | two allocations, two names, three values, two nested `ty`, symmetry | ownership. Three values let rot and over act on both allocations. |
| `lanes` | 2 or 4 CPUs, request 0 or none, three jobs, two ticks, pipe of 1, `rr` modulo 12, fairness | one to four workers, so the deques grow, shrink and are stolen from; `rr` wraps at a multiple of every worker count that occurs. |
| `names` | two peers, two names, two words, two ports, fairness | every interleaving of two registrations, a registration and a lookup, and a kill at each step. Two peers are enough for a lost update and for an orphaned lock; the proofs cover more. |
| `frames` | two peers with a relay between them, messages of one and two bytes, one-byte header, buffer of 2, the first peer sends one frame more than the relay takes, fairness | partial frames, full and empty buffers, both reading, both writing, a reset behind the relay. |
| `snapshot` | one process, two graphs of two lines, four files, symmetry | every place of a kill, a failure and a power loss. Two lines let a file be cut at a line and inside one. |
| `store` | seven kinds of programs (merge, bundles, queries, the log, log and bundles, publishing, tables), two VMs, two words, texts of up to six lines, logs of up to five digests | a log of five has subtrees of 4 and 1, of three 2 and 1: both ways to fold a path. |
| `collections` | all ten kinds; limit 7 for the tree, 5 for bits, 3 for the rest; bytes of two bits | seven keys give a tree of three levels in every order of arrival; one key is also updated (`OneUpdated`), wherever it is when its node splits. Three bytes of bits have neighbours on both sides. |
| `numbers` | limbs of 2 bits, ints of 4, significands of 2, base 3, two decimal places, widths 2, 4 and 6; no big above `BigCap` is pushed | operands of up to three limbs and products of up to five, all pairs that programs reach: borrows, carries, quotient digits that are corrected, and ties. |
| `numbers_sqrt` | the same | finding 1 |
| `language` | ten keyboards, three of single characters (4 to 6 of them) and seven of tokens (5 to 7); `IntMax` 7, depth 3, fuel 40, significands of 2 bits | each keyboard holds the tokens of one feature (moves, grants, words, matches, blocks, loops, comparisons), so that all their short combinations are run. |
| `media` | symbols of 3 bits in a code of 9 (Opus), bytes of 2 bits and a range of 10 (AV1); packets of up to 5 symbols, one of 10; all Laplace values from -9 to 9; all vectors of up to 4 pulses in up to 4 places; pictures of the real size with up to five free blocks | carries run through held-back symbols, refills happen at every offset, tables slow down twice, blocks without coefficients lie beside full ones, at the edges and at the corners. |

`CHECK_DEADLOCK FALSE` is said where the system may stop: a program that has
used all its allocations, peers that were all killed, streams that were all
closed, a program that ended in a fault, a text that is typed, a packet that is
read.

Every property of a passing run has a mutant in `PROJECT.json`: a form of one
definition with a plausible bug (named in its comment) that breaks the property.

### Fairness

* `Invoke!FairSpec`: weak fairness of unwinding and of ending a faulted program.
  In Rust an `Err` is returned at once; nothing is assumed of programs.
* `Lanes!FairSpec`: weak fairness of the scheduler, which runs on the VM's only
  thread and never waits, and of the return of lane and job bodies, an
  assumption on the program stated in the property.
* `Names!FairSpec`, `Frames!FairSpec`: weak fairness of a process's next step
  inside a word. Every wait is a poll or a socket call that `WAIT` ends, so a
  step (progress or timeout) is always possible. A killed process has none.

The other modules state no liveness: their words are functions that return.

## 5. Findings

1. `numbers_sqrt`: `isqrt` starts Newton's iteration at `1 << (bit_len / 2)`,
   which lies below the root when the bit length is odd, and stops there: the
   root of 27 comes out as 4. The comment above it says "Integer square root
   (floor)" (`bigint.rs:329`).

Other places where the code and what is said of it differ, met while modelling.
The first five can be seen by checking the named definition; no run is kept.

* `Ownership.OneExclusive`: `op_dup` (`lib.rs:959`) clones a result with the
  exclusive handle inside it, so unwrapping both copies gives two owners;
  `docs/SPEC.md:886` says values have exactly one owner. One allocation shows it.
* `Names.SameProtocol`: a line of the names file outlives its listener, and a `~c`
  that checked the old protocol word reaches whoever listens on the port now;
  `docs/SPEC.md:638` says peers connect when the words are the same string. Three
  peers and one port show it.
* `Frames.ReadsOneFrame`: a `~r` that times out inside a frame loses what it read,
  and the next `~r` takes message bytes for a length; `docs/SPEC.md:611` says `~r`
  reads one frame and the stream stays.
* `SnapshotFile.LoadedWasSaved`: two processes that save to one path share
  `dest.tmp`, and a file that lost whole lines at its end loads;
  `docs/SPEC.md:1284` says a short file is `INTEGRITY_FAIL`. Two processes and
  five files show it.
* `Store.NoPanic` (with `Programs <- MCTables`): `tq` of a column added by `tc`
  after a row was put by `tu` indexes past the row and panics (`b_tq`);
  `docs/SPEC.md:785` gives every operation a value, a trap or a rejection.
* The checker refuses `[f] [] $f$ wd @` as `NAME_UNRESOLVED`, though the word is
  there when the block runs, and keeps names as moved after `ts`, `pp`, `sw`, `rn`
  or a word of the program may have bound them again.
* Native code and the tree-walker differ in the identity of a block literal that
  is evaluated twice, in `wd` of a builtin's name, in `mx`, `mn` and `cl` at the
  depth limit, in the order of the checks of `1 1 wd`, in the text of large floats
  and in the telemetry line of a refused invocation. The keyboards leave these
  out.
* WebAssembly and the tree-walker differ where `odd` says so: operands of a wrong
  type on a short stack (`order`), loops, `mx` and `mn` at the depth limit
  (`depth`), `==`, `mx` and `mn` of ints that no float holds (`float`), `==` of
  results, which compares addresses (`result`), a printed block (`block`), a string
  as a pattern (`string`), `??` without a subject inside `ty` (`subject`), a binding
  called `ty` (`attempt`). `?`, `;` and `??` use payloads without a look at the tag;
  the model does not follow those runs.
* `true_div_f64` is "Correctly rounded" (`bigint.rs:394`) but for quotients in the
  subnormal range, which are rounded twice.
* `Enc.error` (`opusenc.rs:87`) is set when a packet is full and not looked at by
  `build`; `SymbolsReadBack` is stated for packets that fit.
* The test for a starved tile in `decode_tile` (`av1.rs`) is never true, so a
  truncated tile decodes to something instead of `INTEGRITY_FAIL`.

## 6. Proofs

The proofs hold for every value of the constants under the named assumptions of
the modules, and for behaviours of every length. The assumptions say that bounds
are natural numbers, that `None` is not one of the values, nor an integer, a big or
a float, that `Disk` is a
capability, that a path lies under itself, that a host has at least one CPU, and:

* `Frames!FramesAssumption`: messages have lengths and one is the longest (the
  code's limit). `TopologyAssumption`: each direction of a stream has a way back,
  and a relay is at one end of both its streams, as `|` gets two streams.
* `Store!ProgramsAssumption`: texts are sequences of lines, and an edge line has
  its three fields. `OrderAssumption`: strings are strictly and totally ordered.
  `SealsAssumption`: a program does not write a seal or a signature of a bundle
  out by hand; it has them only from `sb` and `sl`, in texts it may cut and join.
  A program of Zown can compute the hash of a body with `~p`; a bundle without a
  signature then proves nothing, and the theorem speaks of programs that do not.

* `CollWords!CollAssumption`: every kind has a limit, and it is not zero.
  `StoreAssumption`: a byte has bits, and sizes are integers. `OperandAssumption`:
  programs push ints, strings and other values, and the hash of a string is a
  number.

The modules with proofs, what each shows, and the invariant behind it:

* `InvokeProofs`. Inductive invariant: `TypeOK`, `FramesOK` (what the locals of
  each handler may be: a `fresh` grant was not in force before),
  `AuthorityIsScoped`, `DepthIsNesting`, `IdleIsTop`, `BodyReady` and
  `BodyAlwaysEnters`. `AuthorityIsScoped` alone is not inductive: that dropping
  a capability restores the authority needs the link between `fresh` and the
  snapshot, and that an undo entry is there to pop needs the chain of snapshots.
  Theorems: `TypeCorrect`, `AuthorityTheorem`, `DepthTheorem`, `BodyTheorem`,
  `CleanTheorem`, `RestoreTheorem`, `SwapTheorem`, and `ScopingTheorem`: the
  detailed specification implements `Authority`.
* `OwnershipProofs`. Inductive invariant: `TypeOK`, `OneOwner`,
  `FreedHasNoOwner`, `OwnedIsAllocated` (so a new allocation has no owner yet)
  and `WrapIsRecorded` (so unwrapping cannot bring in an owner that is not in
  `wrapped`). Theorems: `TypeCorrect`, `OneOwnerTheorem`, `FreedTheorem`,
  `OnlyOwnerFreesTheorem`, `NeverReownedTheorem`.
* `LanesProofs`. Inductive invariant: types, `FlagsMatchPhase` and `Progress`
  (the lanes run so far, the one running and those to come are the lanes due).
  Theorems: `FlagsTheorem`, `LanesTheorem`, and `GrantMath` about the split of
  CPUs between pinned lanes and workers. `JobConservationTheorem` has an
  invariant of its own, `Deques`: there is a deque for every worker, and a job is
  in one place of one deque. That resizing and stealing keep every job is shown
  of the recursive function that joins the deques, by induction on their number.
* `StoreProofs`, last part, about `Names`. Inductive invariant `NamesInv`:
  `TypeOK`, `HasOperands`, `LockHeld`, `SeenIsCurrent` (what a peer read is still
  the file when it renames its copy) and `NoLostName`. Theorems: `LockTheorem`,
  `NoLostNameTheorem`.
* `LanesProofs`, last part, about `SnapshotFile`. Under `OneSaver`, that no two processes are inside `mm`
  for one path: two of them share `dest.tmp`, and one truncates what the other
  renames. One process alone satisfies it (`OneProcessTheorem`). Inductive
  invariant: what `dest` may be after a power loss is whole and on the disk
  (`Settled`), `dest.tmp` is not one of those files (`Apart`), the file being
  written holds the lines written so far (`Writing`), it is whole and synced
  before the rename (`Sealed`) and the graph saved after it (`Renamed`), and
  `Durable`. Theorems: `WholeTheorem`, `DurableTheorem`, and `LoadTheorem`: what
  `ml` loads was saved, whatever crashed in between.
* `FramesProofs`. Inductive invariant: where every program is (`Control`) and,
  for each wire, `WireInv`: the frames begun on it, where each starts relative to
  the first byte still on the wire, and that the bytes there are theirs; so what
  a reader has of a frame, what is on the wire and what a writer has left are one
  sequence cut in three. The relay adds what it has taken from one wire and not
  yet given to the other (`Carried`). Theorems: `InOrderTheorem`, `RelayTheorem`.
* `StoreProofs`. `AuditTheorem`, about operators alone: a proof is accepted for
  the leaf and the path it was made from and for no other digest or path, in logs
  of every length; by strong induction on the number of leaves. `StoreInvariant`:
  the graphs have no repeated vertex or edge and their edges have their ends, a
  log holds only digests of graphs that were bundled, what a content store or a
  text holds of seals and signatures was made by `sb` or `sl`, whole or cut, and
  a cursor has no name twice. From it `SealedTheorem`, `LoggedTheorem` and
  `ConvergeTheorem`, the last with the lemma that sorting a set by a strict total
  order gives one sequence, whatever the order of arrival.

* `CollectionsProofs`. `NoFalseNegativeTheorem`: the cell of every word pushed is
  set, by an invariant on the bytes of the filter (`Filter`), because setting a
  bit leaves the other bits of its byte. `TreeBalancedTheorem`: the invariant is
  `Tree`, that for some number of levels `h` the body is a tree of `Good[h]`
  (every leaf `h` levels down, every node but the root with one to three pairs)
  and that it has no more pairs than the limit. `Good` is defined level by level,
  and a put is followed down it: a node with room in it takes any pair and is
  good again (`PutTakes`), also when the kid it descends to had to be split
  first, and the pairs the tree then holds are those it held, with the new one in
  place of one of the same key if there was one (`Came`, `Took`). From the count
  of the pairs follows that the tree never outgrows the levels the functions on
  trees are defined for, and from the absence of the key that a put which makes
  the tree larger was within the limit.

  `KeepsContractTheorem` is the refinement of `CollContract`, kind by kind. Each
  kind keeps something of its own (`Kept`): rows are sequences of operands within
  the size of a ring, a map lists each of its keys once, a trie has all nodes on
  the way to a node and has counted its words, the bits fit their bytes, no pair
  of the heap is below its parent. Then every word is one word of the contract
  with the same answer, and a word that is refused changes nothing on either
  side (`Wants`, `Follows`, `Refuses`). What it takes for each kind: that a walk
  of a B-tree lists its pairs by key and one for each key (`WalkedTree`,
  `OneForKey`), that a walk of a trie finds the words that end below a node
  (`TrieWalkIs`, `WordsIs`), that sifting leaves a heap in order and how often
  each int is in it (`SiftedUp`, `SiftedDown`, `TimesSwapped`), so that the root
  is the least and a pop takes one copy of it (`LeastIs`, `BagTakes`). The
  walks and the sifting call themselves on what has a lower rank: that such
  functions exist and are the ones chosen is proved once (`RankedRecursion`,
  `RankedIs`).
* `LooksAgreeTheorem`: in every reachable state every word that only looks answers
  what the contract says of the value held, for all limits, operands, sizes and
  hashes. It needs no more of the state than the invariant above (`Kept`). A
  B-tree is searched to the pair of its key (`GetTree`, `KeyThere`) and walked in
  the order of its keys: a set listed in a strict order is one sequence
  (`ListsOnce`), and the walk lists the pairs that are there in that order
  (`ScanTree`). A walk of the trie from a prefix lists the words under it in order
  (`TrieLists`, `WalkPrefix`). Draining the heap with `heap_pop` lists its ints
  ascending, each as often as it is in (`DrainedIs`, `DrainedAscends`), which is
  the one sequence sorting can give (`SortedSame`).

* `BigIntProofs` and `NumbersProofs`, for every width of limb, int, significand, exponent and
  decimal; a limb of 32 bits and a float of 53 are one case. What a big stands for
  is `IntOf`, the sum of its limbs, each with its weight. Carrying and borrowing
  keep that sum (`ColumnsAre`, `BorrowsAre`), so `add_mag` and `sub_mag` are sum and
  difference; a row of the product adds one limb's multiple (`RowsAre`); long
  division keeps quotient, divisor and remainder in step bit by bit (`DividedAre`),
  and `divmod_floor` corrects them to the floor, the only quotient and remainder
  there are (`DivModFloorIs`); `pow_u32` keeps the power by the exponent's low bits
  (`SquaredAre`). No number has two representations (`OneBig`), so equality of
  limbs is equality of numbers. From these `ExactArithmeticTheorem`.

  `TypeCorrect` is the invariant the others need: every value on the stack is of
  the type its tag names. It takes for each word that what it leaves is a
  normalized big, an int in range, a float on the grid of its significands or a
  fault: that Newton's iteration ends (`GuessesAre`), that a rounded significand
  fits after a carry (`Packed`, `Rounded`), that the float of a quotient is one of
  its two neighbours (`NearestIs`), that a floor of a float is whole and below the
  limit, and that digits are digits.

  `WidthsHoldTheorem`: `wrap_width` on limbs is the residue in the width's interval
  (`WrapIs`), the policy words give the nearest number of it, the operand or
  its residue, and integer lanes wrap as bigs do.

  `OrderIsExactTheorem`: `shr` divides by a power of two (`ShrIs`), so a whole float
  is its exact integer (`FromExactIs`) and the floor of another lies strictly below
  it by less than one (`FloorExact`); against either an integer compares as the
  numbers do (`CmpMixed`), and so do all pairs (`CmpPlain`, `RelPlain`).

  `TextReadsBackTheorem`: the digits of a big are the remainders of repeated division
  by the radix, and their sum is its magnitude (`DigitsValueIs`); reading multiplies
  and adds to the same sum (`ReadValue`), zeros in front change nothing
  (`LeadingZeros`), and a text cut at its point joins to itself (`CutText`).

  `NearestFloatTheorem`: the floats are a grid that is coarser in every higher
  binade, and the nearest one is the neighbour below, or the one above when the
  point lies over the middle or in it with an odd significand below. The quotient
  that `DivScaled` computes has at least three bits more than a significand
  (`QuotientSize`); its leading bits are that neighbour, the next bit and whether
  anything but zeros follows say on which side of the middle it lies
  (`ScaledParts`, `HalfCompare`), so rounding by them gives the nearest float of
  the true quotient (`DivClose`, `DivNearest`), through a carry into the next
  binade too; a big is a quotient by one (`ToF64Nearest`). `rd` compares the
  distance to the floor with one half: the distance is exact up to one half, and
  above it a rounded distance is never below (`NearestKeeps`) and equals one half
  only between -1 and 0, where the parity of the floor sends it up
  (`RoundHalfNearest`). It excepts what the property does: quotients in the
  subnormal range (section 5).

What a recursive function computes is proved by induction on natural numbers.
The induction theorems of the library take an operator for the predicate, which
the provers cannot instantiate; the proofs state them again with a set
(`LeastElement`, `Induction`, `StrongInduction`), from `NatLessThanWellFounded`
and `WFMin`. Functions over unbounded data are shown to exist that way first.

Only model-checked:

* the liveness properties `InnermostCatches`, `RnReturns`, `JobsStart` and
  `WordsEnd`: fairness and ENABLED are outside what the prover supports;
* `Source`, `Machine`, `NativeCode`,
  `Checker`, `WasmCode`, `Language`, `RangeCoder`, `Msac`, `Still` and `Media`:
  they declare RECURSIVE operators, which the prover does not unfold.

## 7. Not modelled

* Telemetry: append-only records; no word reads them back but the wants of a trace.
* Paths and files other than the snapshot: single calls of the operating system;
  the roots that guard them are in `Invoke`.
* The mesh over UDP, the language server, packages and stages: Python only.
* Boot sector and kernel images: a model would be one of the x86 instructions.
* Cryptographic primitives: arithmetic modulo 2^32 and 2^255 that neither tool
  enumerates; the models use them as ideal functions or as a check that refuses.
* The Opus analysis and synthesis (floating-point signal processing), its band
  allocation, the lossy AV1 tools and the tables of both formats.
* The user interface words, whose result is layout.
* The Python oracle, which repeats the semantics the models take from the VM.

Inside the modelled parts, messages of errors, log lines and layout are left out,
as are values beyond what a property tells apart.
