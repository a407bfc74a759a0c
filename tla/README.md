# TLA+ models of the Perforce bridge (and the repository's other C++ code)

This directory holds TLA+ models of the C++ sources under `src/`. They are
checked with TLC. `PROJECT.json` lists the components, the runs, the mutants,
the line map from each definition to the code, the findings and the hazards.

## 1. Inventory

### Components

| Component | Source | State it keeps | Operations |
|---|---|---|---|
| **Pool** | `p4_cgo_bridge.cc:30-88` | `clients_`, a deque of idle `ClientApi`, guarded by `mu_` | `Client()`: pop the front under the lock, or build and `Init` a new client outside it. The shared_ptr **deleter** (lines 70-77) pushes the client back under the lock, or deletes it when it is dropped or the deque holds `kMaxClients` (16). |
| **Pool registry** | `:90-101` | two static pools, `defaultPool` and `tagPool` | `TagPool::SetProtocol` sets the tag protocol before `Init`. |
| **Command executor** `p4runcb` | `:176-227` | locals only: the leased client `c`, `origUser`/`origPasswd`, `init_us` | A loop. Lease a client, or report the error and return. If both user and password are given, save and override the credentials. Bind the positional arguments, then `Run`. If not `Dropped()`: restore the credentials and break. If dropped: `Final`, call `Retry` only if `Final` failed, and loop. |
| **Result streamer** `ClientCb` | `:113-174` | `cbid_`, `input_` | It forwards `HandleError`, `OutputBinary/Text/Info/Stat` and `Retry` to the Go callbacks `gop4api*`. `OutputStat` drops the keys `func` and `specFormatted`. `OutputInfo` decodes the level as `level - '0'`. `InputData` appends the input if it is non-empty. |
| C header | `p4_cgo_bridge.h` | none | `strview` and the prototype of `p4runcb`. It is modelled by `PackedArgs`' `View` (a strview denotes the `len` bytes at its pointer) and by `P4Bridge`'s `Args` (the arguments the pools and the loop tell apart). |
| Windows utilities | `windows_utils/process_utils.cc` | none of its own; a `SHELLEXECUTEINFOW` on the stack | `IsUserAdmin`, plus `RunShellCommand`, which can optionally wait for the process it starts and then closes its handle. |
| Shader packer | `tools/shaderpacker/shaderpacker.cpp` | a vector of `SShaderEntry` | `main`: check the arguments, open the shader file, parse the `@shader(name, type)` markers, stop if there are none, `Compile` each entry with DXC, split the path names, and `PackShaders` into a flatbuffer written to disk. Error handling relies on `assert`, which line 33 offers to turn off with `NDEBUG`. |

### How the components interact

Go goroutines call `p4runcb` through cgo, and many of them may do so at
once. Each call picks a pool by its `tag` argument. It leases a client from
that pool and runs the command with a `ClientCb` as the sink. The Perforce
library calls back into `ClientCb`, and `ClientCb` calls the exported Go
functions with the call's `cbid`. The only state the threads share is the
two deques, and each deque is guarded by its own mutex. A leased client
belongs to one thread. The lease ends when the `shared_ptr` leaves scope at
the end of each loop iteration. The Perforce `ClientApi` is an external
library and is not part of this repository.

The shader packer is a separate command-line program with one thread. The
Windows utilities are two functions the Go side calls. Neither shares
state with the Perforce bridge.

### What makes it hard

- **Threads.** A pop can race a push. The "empty → construct" path runs
  outside the lock, so any number of threads may build clients at once. The
  returns at the idle bound are serialised by `mu_`.
- **Failure.** `Init` can fail, and that ends the call. The connection can
  drop after part of the output has been streamed. `Final` can fail.
- **State that outlives a call.** Credentials set on a client persist after
  the call, so a client that returns to the pool carries its last
  credentials into an unrelated later call.
- **Unbounded retry.** The loop has no retry cap.

### What makes each component correct

- **Pool.** Every live client has exactly one owner. An idle deque never
  exceeds `kMaxClients`, and an idle client is never dropped. Both come
  from one guard in one critical section (line 72), so they are not checked
  as properties of their own.
- **Executor.** A command runs with exactly the credentials its caller asked
  for. Every call returns once drops stop. The caller is told about every
  drop, and sees the output of one clean run (spec.md §8).
- **ClientCb.** Every call reaches Go once, in call order, as the events it stands for.
  Stat records lose exactly the two reserved keys, and the key and value
  lists stay parallel. Every input request gets the whole input.
- **Argument unpacking.** The slices concatenate back to `joined`, in
  order.
- **Shader packer.** The package holds one shader per marker, in order, and
  is named after the shader file. A failure never ends in exit status 0
  without a package, and never in undefined behaviour.
- **Windows utilities.** `IsAdmin` is TRUE only for an administrator
  (this is the definition of `IsUserAdmin` itself, so it is not a separate
  property). `RunShellCommand` waits when asked, and leaks no handle.

## 2. Plan

Modules are listed in order of importance. ✓ marks the ones that exist.

1. ✓ **`P4Bridge`**: the pool, the registry and the `p4runcb` loop, with
   several threads. `MCP4Bridge` instantiates it.
2. Dropped: an abstract pool (`LeasePool`) refined by `P4Bridge`. It
   restated the pool step for step, with the same release guard, so it
   checked nothing `ExactlyOneOwner` does not.
3. ✓ **`ClientCb`** and **`ResultStream`**: every method of `ClientCb`,
   checked to refine the abstract streamer `ResultStream`.
4. ✓ **`PackedArgs`**: the `SetVar` loop at lines 202-208, checked against
   the Go-side packing (`FlattenSeq`) over bounded argument lists.
5. ✓ **`PathSplit`** and **`ShaderNames`**: the `find_last_of`/`substr`
   name splitting of `main` (lines 331-341), checked against a reference
   over every short path.
6. ✓ **`ShaderPacker`**: the whole `main` pipeline with `Compile` and
   `PackShaders`, in both builds.
7. ✓ **`WindowsUtils`**: `IsUserAdmin` and `RunShellCommand`.
8. Still open: an abstract specification of one `p4runcb` call
   ("events = error, or [retry]* · output"). `P4Bridge` would not refine it,
   for the two reasons the `retry_notice` and `output_once` findings
   already show, so it would add no new question.

## 3. Modules

### `P4Bridge` (src/libs/go/p4lib/p4_cgo_bridge.cc)

| Code | Model |
|---|---|
| `Pool::clients_` of each pool | `clients[v]`, a sequence for `v \in BOOLEAN` (the `tag` flag) |
| live `ClientApi` objects | `alive` ⊆ `Conns`, plus `sess[c]` = protocol, credentials, `Dropped()` |
| thread's `shared_ptr c` | `client[t]` (`None` when null) |
| `origUser`/`origPasswd` | `orig[t]`, empty outside the loop body, as declared |
| `init_us` | `initUs[t]`, which counts fresh constructions (time is abstracted) |
| Go callbacks received | `out[t]`, the events of the current call |

The actions, in the order a call takes them, are:

- `p4runcb`: entry. Its arguments `Args` are the header's prototype (p4_cgo_bridge.h:31-33), reduced to `tag`, user and password, each chosen from a small set.
- `PopClient`: the critical section of `Client`.
- `InitClient`: construction and `Init`, which either succeeds or fails,
  and on failure reports the error and returns (`ReportInitError`, lines 189-192).
- `Override`: lines 193-208.
- `Run`: the output streams, and the connection may drop after any prefix
  of it.
- `CheckDropped`: restore and break, or `Final` with an optional `Retry`.
- `Deleter`: the lease ends, then the call returns or loops. The client
  goes back to the pool the deleter captured as `this` (line 70), which is
  the pool the call chose at line 184.

`Terminated` is the quiescent state after every caller has made its calls.
With it, deadlock checking stays on. Every pool critical section is one
atomic step, which is what `mu_` guarantees. Each operation a thread performs
on its own client outside the lock is a separate step.

The bounds are `MaxCalls` calls per thread and `MaxDrops` drops in total.
`Conns` is sized so that `new ClientApi` never runs out (see the `ASSUME`).

**Fairness.** Weak fairness holds for each thread's steps inside `p4runcb`.
A thread in the loop never waits except on `mu_`, and `mu_` is held only for
a push or a pop, so it keeps running. Entering `p4runcb` is the caller's
choice, so it has no fairness.

### Runs

| Run | Config | Bounds | Shows |
|---|---|---|---|
| `pool_safety` | `MCP4Bridge.cfg` | 2 threads, 2 calls each, `kMaxClients = 1`, 4 client ids, 1 drop, 2 output events, user ∈ {"", alice}, password ∈ {"", pw}; symmetry on threads and ids | `ExactlyOneOwner` and `RunsWithRequestedCreds` hold. `TypeOK` also says a thread holds a client exactly from a successful `Client` to the deleter; a missing `return` after `HandleError` (line 191) breaks it. |
| `call_returns` | `MCP4Bridge_live.cfg` | 2 threads, 1 call each, no symmetry | `CallReturns` holds under the fairness above. |
| `retry_notice` | `MCP4Bridge_retry.cfg` | 1 thread, 1 call | **Violation**: a drop whose `Final` succeeds is retried with no notice. |
| `output_once` | `MCP4Bridge_output.cfg` | 1 thread, 1 call | **Violation**: output streamed before a drop is streamed again by the retry. |

**Why these bounds are enough.** One idle slot and two threads are enough to
produce each of these cases:

- a return that finds the pool full;
- two clients built concurrently;
- a pooled client reused by the other thread's next call, so credential
  leaks show;
- a drop followed by a fresh client.

Two output events let a drop fall before, between or after them. The
mutants in `PROJECT.json` break every property under these configs.

**Findings.** Both are spec/code divergences. They are listed in
`PROJECT.json`.

1. The retry notice is sent only when `Final` fails (line 222). spec.md
   §4.2 and §8 describe one notice per drop.
2. `ClientCb` is reused across attempts, and output is forwarded as it
   arrives (line 209), so a drop duplicates the partial output. spec.md §8
   says the outcome equals that of a fresh, non-dropping session.

The idle bound and the `Dropped()` test of the deleter (line 72) are not
checked as properties of their own. Both are tested and acted on inside one
critical section, so an invariant would only restate the guard. With two
idle slots and six client ids, the pool run was still exploring after
5 minutes, so `kMaxClients` stays at 1.

### `ClientCb` (p4_cgo_bridge.cc:113-174) and `ResultStream`

A `ClientCb` is built once per `p4runcb` call (line 180). `lib` is the
sequence of calls it then receives: the library's callbacks during `Run`,
plus `HandleError(msg)` and `Retry` from `p4runcb`. Each method is one
action:

- `HandleErrorErr`, lines 119-125: forwards only an `Error` that `Test()`s
  true.
- `HandleErrorMsg` (126-128) and `Retry` (129-136): a null `err` gives an
  empty message.
- `OutputBinary`, `OutputText` and `OutputInfo` (137-145):
  `OutputInfo` turns the level character into its number (`Digit`).
- `BeginStat`, `GetVar` and `gop4apiOutputStat` (146-163): the `OutputStat`
  loop. It takes several steps. It skips the keys `func` and
  `specFormatted`, and appends any other key with its value.
- `InputData` (164-169): appends the input, if it is non-empty, to the
  library's buffer.

A record is a sequence of `(key, value)` pairs, in `GetVar(i)` order. An
error value stands for its formatted text.

`ResultStream` is the abstract streamer. Each call is one step that
appends, to what Go has received, the events that call stands for
(`Expect`). The stat filter there is `SelectSeq` over the record. The
refinement mapping is the identity on `input`, `lib`, `j`, `sent` and
`fed`. The steps of the `OutputStat` loop are stutters of `ResultStream`.

Run `stat_filter` checks `TypeOK` and `ClientCbStreams` (the refinement).
It covers every sequence of up to 2 calls, with stat records of up to 2
variables over the keys {func, specFormatted, client} and 2 values, set and
unset errors, levels "0" and "1", and empty and non-empty input. That is
42,962 states.

### `PackedArgs` (p4_cgo_bridge.cc:202-208)

The Go caller's packing is the reference. It is modelled from spec.md,
because the Go side is not in `src/`: `joined = FlattenSeq(args)`, and
`argv` lists the lengths. `SetVar` is one iteration of the loop. It binds
`View(joined, next, len)`, the bytes the strview `&joined.p[next]`, `len`
denotes (the `strview` of p4_cgo_bridge.h:24-29).
`UnpackRoundTrip` says that the session receives exactly the arguments.
Run `args_roundtrip` checks every list of up to 3 arguments of up to 2
bytes.

### `PathSplit` and `ShaderNames` (shaderpacker.cpp:331-341)

`PathSplit` holds the string operations:

- `FindLastOf` and `Substr` behave like `std::string`'s, including the
  `out_of_range` exception.
- `ShaderName` and `OutputPath` compute what lines 333-341 compute.
- `Stem` is the reference definition: the file name without directory and
  extension.

`ShaderNames` checks these operations over every path of up to 4
characters of `.`, `/` and `a`.

| Run | Expect | Shows |
|---|---|---|
| `shader_name_stem` | pass | When line 337 does not throw, the package name is the stem of the file name. |
| `shader_names_usable` | violation | `NamesUsable` fails in two ways. `./a` (last dot before the last separator) makes `substr` throw, and nothing catches it. An output name without a directory (`out.bin`) makes `output_path` the file itself, so `PackShaders` creates a directory with the file's name and then cannot open the file. TLC reports the second, with `outputFile = "."`. The first needs `shaderFile = "./a"`, which the `ShaderPacker` runs also reach (status `terminate`). |

Both are code bugs and are recorded as findings.

### `ShaderPacker` (shaderpacker.cpp:33-353)

`main`, `Compile` and `PackShaders` form one state machine. `pc` follows
`main`. `k` is the index of the marker or entry loop.

| Code | Model |
|---|---|
| `assert` with or without `NDEBUG` | `debug`, chosen per behaviour; `Asserted(cond, continue)` aborts or continues |
| a marker matched by `@\w+\(.*?\)` | the sequence of `\w+` words the second regex visits |
| a word | its case-folded text and whether it had capitals; `CompareString` compares the text |
| `SShaderEntry.shader` | `"none"` (nullptr), `"code"`, or `"failed"` (the result blob of a failed compilation), with the target `profile` it was compiled for; the buffer of entry `i` is named `i` |
| `shader_entries.capacity()` and reallocation | `cap`, which grows by half as in MSVC; `Reallocate` copies the elements (the implicit copy constructor copies the pointer) and destroys the old ones, which adds their buffers to `freed` |
| dereferencing the end `sregex_iterator` (lines 300, 302) | undefined: a crash, or an empty word (`NoWord`) |
| DXC | each call's outcome is chosen (see `CompileEntry`) |
| the file system | `create_directories(output_path)` leaves a directory there; the `ofstream` opens unless that directory is the output file |
| the output file | `file`, the package written (`NoFile` if none) |

The actions, in the order `main` takes them:

- `CheckArgs`: lines 265-275 and 348-351.
- `CollectMarker`: one marker of the loop at lines 286-313.
- `CheckEntries`: lines 316-321.
- `CompileEntry`: `Compile` of one entry, with `GetTargetProfile` of its
  type (lines 138-150, 329). The outcomes are success, a
  failed set-up (asserts, returns), a failed `Compile` call (null
  `result`), or a failed compilation (the code blob may be null or an
  error blob).
- `SplitNames`: lines 333-341, using `PathSplit`.
- `PackShaders`: lines 153-190 and `return 0`.

The inputs are:

- `argc == 4` or not;
- whether the file opens;
- up to 2 markers of up to 3 words, over `shader`, `SHADER`, `pixel` and
  `hull` (two known types, so that the target profile check tells two
  stages and the vertex default apart) and `main` (a name and an unknown
  type);
- shader files `a.a` and `./a`;
- output files `a/a` and `a`.

These cover every branch: a keyword in either case, unsupported syntax,
missing words, known and unknown types, a throwing name split, and an
output path without a directory.

| Run | Expect | Shows |
|---|---|---|
| `pack_entries` | pass | `PackageMatchesMarkers`: a package written without undefined behaviour is named after the shader file's stem and holds one shader per `@shader` marker, keyword in any case, in order, with the marker's entry point, its known type, and code compiled for that type's target profile (checked against the DXC naming `ShaderModel6`). `NoDanglingShader`: no entry points at a buffer freed when the vector reallocated; this holds only because every `push_back` precedes every `Compile`. A `Push` that compiled at once would break it. `ExitZeroWritesPackage`: with asserts on, `main` returns 0 only after writing the package. 2,848,456 states. |
| `undefined_behaviour` | violation | `NoUndefinedBehaviour` fails. `@shader()` dereferences the end iterator (lines 300-302); this is the trace TLC reports. A failed DXC `Compile` call leaves `result` null, and line 256 dereferences it. |

**`NDEBUG`.** `ExitZeroWritesPackage` is stated for the build with asserts.
Built with `NDEBUG`, which line 33 offers, it fails at once: a missing
shader file ends `main` with 0 (line 350), and so does an output stream
that did not open (line 187). The hazard list records this.

### `WindowsUtils` (windows_utils/process_utils.cc)

`IsAdmin` calls `IsUserAdmin`, which is a pure operator over the outcomes
of `AllocateAndInitializeSid` and `CheckTokenMembership`. The reset at
line 44 is its `checkOk` conjunct. A property that IsAdmin implies
membership would only restate that operator, so none is checked; the
hazard list records why.
`RunShellCommand`'s arguments are `ShellCommandArgs`, from the prototype
in windows_utils.h:29-31. Only `waitForCompletion` is kept, because the
code branches on no other argument. `RunShellCommand` is three actions:

- `FillInfo`: lines 57-66. Without `waitForCompletion`, `fMask` is never
  set, so it is any set of mask bits.
- `ShellExecuteExW`: line 68. It can fail, start a new process (with a
  handle only under `SEE_MASK_NOCLOSEPROCESS`), or hand the file to a
  running instance (no handle). A bit that makes it read an unset field
  makes it fault or fail.
- `WaitAndClose`: lines 70-75.

The started program exits on its own (`ProgramExits`).

| Run | Expect | Shows |
|---|---|---|
| `windows_utils` | pass | `WaitedForProcess`: a waiting call that started a new process returns after it exited. |
| `handle_leak` | violation | `NoHandleLeak` fails. Without `waitForCompletion`, the indeterminate `fMask` may carry `SEE_MASK_NOCLOSEPROCESS`, and the returned handle is never closed (line 57). |

**Findings.** The two `ShaderNames` bugs are described above. The other
three are code bugs at `shaderpacker.cpp:256`, `shaderpacker.cpp:300` and
`process_utils.cc:57`. All are in `PROJECT.json`.

## 4. Not modelled, and why

- **The Perforce `ClientApi` internals.** This is an external library. Its
  outcomes are nondeterministic choices. The model assumes that `Dropped()`
  stays true after `Final`.
- **Timing** (`init_us` in microseconds). Time is abstracted. Overflowing
  an `int` of microseconds would take over half an hour of cumulative
  `Init`.
- **Byte formatting of messages.** `Fmt`, `StrBuf` and the text of messages
  are left out. Only which event is sent matters to the properties.
- **`GetTargetProfile`'s default branch.** Its assert cannot fire,
  because every entry's type is one of the six that `GetShaderType`
  returns.
- **`UnPackShaders` and `Validate`.** They are dead code: their only call is
  commented out.
- **The DXC compiler and the file system.** These are external. Their
  outcomes are chosen as described for `ShaderPacker`.
- **Whether a started program exits.** `WindowsUtils` lets it exit at any
  time but assumes no fairness, so `RunShellCommand`'s infinite wait is
  listed as a hazard, not checked as liveness. The conditional form ("if
  the program ends, the call returns") holds. But lines 70-75 hold a single
  wait, whose only alternative is an immediate failure on a NULL handle.
  No plausible change of the code could make that form fail, so checking
  it would show nothing.
