# Verification of the OP-TEE Lua interpreter

TLA+ models of the Lua runtime for OP-TEE kept in this repository: the trusted
application (TA) that stores and runs Lua scripts, the decryption of script
packages, the host program that drives it, the passing of arguments between
the two worlds, and the Lua interpreter that both link: compiler, virtual
machine, calls and coroutines, collector, tables, pattern matching and the
conversion of numerals. TLC checks the models on small instances. For every instance, TLAPS proves
the invariants of the TA and that it implements its abstract specification, and the
invariants of the host, of the verification of packages, of the argument conversions,
of the interpreter's calls, that a table is a map, and that a numeral is read as what it
means.

## Inventory

| Component | State it keeps | Operations | Hard part |
|---|---|---|---|
| TA, `ta/lua_runtime_ta.c` | none between commands, except what it leaves open: read handles of scripts it ran; the scripts themselves in secure storage | `TA_RUN_LUA_SCRIPT`, `TA_RUN_SAVED_LUA_SCRIPT`, `TA_SAVE_LUA_SCRIPT`, `TA`; `internal_TA_call` from a running script | sessions are separate instances that share storage objects; each storage call may fail; results of two of the three helpers are ignored; an instance may die between any two calls |
| Package verification, `ta/cryptoutils.c` | TEE handles, stack buffers | `verify_and_decrypt_script`, `hmac_sha512` | some twenty TEE calls, some of them unchecked; unsigned arithmetic on a length that comes from outside; callers ignore the result |
| Package generation, `encrypt_lua.py` | none | derive keys, encrypt, sign | must agree with the TA on what the mac covers and on the counter |
| Host, `host/main.c` | session, options, directory stream, Lua state | save every script of an application, run `main.lua`, `TA_call` | several processes share the TA's storage; failed saves go on silently; the session may die under the process |
| Arguments, `lua/extensions/lua_arguments.c` | none | Lua stack <-> C value <-> TEE parameters | widths, terminators and lifetimes change from stage to stage |
| libc replacements, `lua/ltrusted_app.c` | none | `strtod`, character classes, `strpbrk`; `pow`, `fmod`, `strcpy`, ... | written for this port and tested by nobody else; numeric edges |
| Compiler, `lua/lparser.c`, `lua/lcode.c` | tokens, chain of `FuncState`, block lists, pending gotos, jump lists | one pass from tokens to instructions | registers are freed like a stack; code of an expression is delayed until its use is known; jumps are patched later, through lists threaded through the code |
| Virtual machine, `lua/lvm.c` | frames, registers, upvalues, closure cache | one case per instruction | trusts what the compiler says about registers, jumps and open lists of values |
| Binary chunks, `lua/ldump.c`, `lua/lundump.c` | none | `string.dump`, `lua_load` | two programs that must agree on a format; a stream may be cut off |
| Calls, errors and coroutines, `lua/ldo.c`, `lua/lapi.c` | C stack, per thread: `CallInfo` chain, `errorJmp`, `nny`, `nCcalls`, `errfunc`, open upvalues | call, tail call, return, pcall, throw, yield, resume, recover | errors and yields skip any number of frames that had counters to restore |
| Collector, `lua/lgc.c` | object lists, gray lists, colours, phase | steps, full and emergency collections, barriers, finalizers | runs between any two instructions, and scripts run inside it |
| Tables, `lua/ltable.c` | array part, hash part with chained scatter, free pointer, metamethod flags | get, set, rehash, next, length | insertions move other nodes; nodes with dead keys stay in their chains |
| String library and numerals, `lua/lstrlib.c`, `lua/lobject.c` | `MatchState`, buffer, iterator | `find`, `match`, `gmatch`, `gsub`; `luaO_str2num` | a backtracking matcher with state to undo; empty matches |
| Lexer and other Lua libraries | none of their own | tokens; `table`, `math`, `utf8`, ... | vendored, sequential |

How they interact. A host process opens one session, which for this TA (neither
single-instance nor multi-session, `ta/user_ta_header_defines.h`) is an instance
of its own, with its own heap, serving one command at a time. It sends a command
with four parameters and waits. Instances meet only in the persistent objects
(`TEE_STORAGE_PRIVATE`) named after the scripts. A script that runs in the TA
may run other saved scripts, each in a new Lua state on top of the first. Inside
a Lua state the parser feeds the code generator, the code runs on the virtual
machine, whose calls go through `ldo.c`; every allocation may run a step of the
collector, which meets the running program in barriers and finalizers.

What makes each part correct:

* TA: saves and runs of saved scripts look atomic to everybody, whatever fails
  and whoever dies; what runs is what is stored; only authentic text runs once
  the plaintext mode is disabled; every command is answered or ends its session.
* Verification: nothing is decrypted that was not signed as a whole, unless a call
  that the code does not look at has failed; no read beyond the buffer; the output buffer holds nothing else on any error path,
  since both callers use it unconditionally.
* Host: the application's scripts, as far as the TA accepted them, are in storage
  before `main.lua` runs and are the ones that run; a process ends and gives back what it held.
* Arguments: a value that both sides can represent arrives as it was sent.
* Compiler and virtual machine: a program computes what its text means; no
  instruction reads a register nobody wrote or leaves its frame.
* Calls: after any error, yield or resume the counters, upvalues, handlers and
  jump buffers are those of the calls still active.
* Collector: nothing a script or a finalizer can still reach is freed; finalizers run
  first; garbage goes.
* Tables: a map, and a traversal that visits each field once.
* Strings and numerals: what the pattern or the numeral means.

The hazards, each at its line, are listed in `PROJECT.json`.

## Modules

| Module | Models | Remarks |
|---|---|---|
| `ScriptData` | payloads and contents; what `verify_and_decrypt_script` may leave in the output buffer | constants and operators only |
| `TrustedStorage` | the persistent object API, external | from the calls and flags the TA uses |
| `LuaRuntimeTA` | `ta/lua_runtime_ta.c` | one action per storage call; EXTENDS `TrustedStorage` |
| `ScriptStore` | abstract specification: scripts under names, pinned by sessions that run them | implemented by `LuaRuntimeTA` (`Abstract == INSTANCE ScriptStore WITH ...`) |
| `LuaRuntimeTA_proofs` | theorems about `LuaRuntimeTA`: its invariants; that it implements `ScriptStore` | |
| `LuaHost`, `LuaHost_proofs` | `host/main.c`, composed with the TA: EXTENDS `LuaRuntimeTA`, `Invoke` is its interface | proofs EXTEND those of the TA |
| `CryptoUtils`, `CryptoUtils_proofs` | `ta/cryptoutils.c` and the format of `encrypt_lua.py` | shown to produce only the outcomes `ScriptData!VerifyAndDecrypt` lists |
| `LuaArguments`, `LuaArguments_proofs` | the conversions, as stages of one call and its answer | |
| `LuaArith` | arithmetic of `lobject.c` and `lvm.c` | pure operators on numbers, for the compiler and the machine |
| `LuaCode`, `LuaParser` | `lcode.c`, `lparser.c` | pure operators on the state of a compilation |
| `LuaSemantics` | reference: what a program means, by evaluation of its tree | models no code |
| `LuaChunk` | `ldump.c`, `lundump.c` | pure operators on a stream of units |
| `LuaVM` | `lvm.c`, running what `LuaParser` and `LuaChunk` produce | composes the five above |
| `LuaCalls` | `ldo.c` and the functions of `lapi.c`, `lstate.c`, `lfunc.c` that call it | the C stack is a variable |
| `LuaCalls_proofs`, `LuaCalls_levels` | theorems about `LuaCalls`: the counters and jumps, and how the C stack grows and is cut; every action; the levels of the `CallInfo` chains | |
| `LuaGC` | `lgc.c` and what `lstring.c`, `lfunc.c`, `lvm.c` do to its heap | |
| `LuaTable`, `LuaTable_proofs` | `ltable.c`, the metamethod cache of `ltm.c` | what C does in loops are recursive functions |
| `LuaMap` | abstract specification: a map with a traversal | implemented by `LuaTable` (`Map == INSTANCE LuaMap WITH ...`) |
| `LuaChars` | character classes and C strings, `ltrusted_app.c` | |
| `LuaMatch`, `LuaStrings` | `lstrlib.c`: the matcher; `find`, `match`, `gmatch`, `gsub` | |
| `LuaPatterns` | reference: what a pattern means, without a matcher | models no code |
| `LuaNumerals`, `LuaNumerals_proofs` | `luaO_str2num`, `strtod` of `ltrusted_app.c` | loops without a step of their own are recursive functions |
| `LuaNumeralValue` | reference: what a numeral means | models no code |
| `LuaText` | `LuaStrings` and `LuaNumerals` side by side | |
| `MC*` | instances for TLC | |

Operators under a comment that begins with "Fault:" are faulty variants of the
definition that follows them. They are not part of any specification; replacing
the definition by the variant must make TLC report the property that
`PROJECT.json` names, which shows that the property depends on that code.

### LuaRuntimeTA and the code

Between two calls of the storage API a handler touches only its own instance, so
an action is the code from one such call up to the next. `pc[s]` is the position
of session `s`: `closed`, `idle`, `entry` (a command has arrived), the steps
`save_create`, `save_write`, `save_close`, `save_delete` of `save_lua_script`,
`run` while `frames[s]` is not empty, and `dead`. A frame is one activation of
`run_saved_lua_script` (its `pc`: `open`, `info`, `read`, `close`, then `exec`
inside `call_lua`, or `failed`), or the `call_lua` of a script that came with the
command (`stored = FALSE`). `InternalCall` pushes a frame, `Finish` and
`ReturnJunk` pop one; when the last one is popped the command is answered.

Points where the model follows the code against expectation:

* `save_lua_script` creates the object with overwrite and writes it afterwards;
  it answers success also when the write failed, whether the object was deleted
  (`SaveWriteFails`, `SaveDelete`) or could not be (`SaveDeleteFails`: line 279 does not
  look at the result), which leaves an empty script under the name.
* `run_saved_lua_script` closes its handle on the error path only
  (`CloseScript`), never after `call_lua`. The handle stays until the session
  ends, which is what `SameVersionPerSession` and `RunsCurrentVersion` rest on:
  the leak is also what keeps a session's scripts from changing under it.
* Both callers of `run_saved_lua_script` ignore its result; an output pointer that
  was never set is read (`ReturnJunk`) or stops the TA (`WildRead`).
* Both callers of `verify_and_decrypt_script` ignore its result and use the buffer
  (`Received`). A package made for the failure of a key derivation or an HMAC
  ("unkeyed") may come out of it as text; what runs then is "unverified".
* `luaL_newstate` may return NULL, which `call_lua` reports and then uses
  (`NoLuaState`).

`before`, `torn` and `ran` are history variables: the content a save in progress
replaced (for the refinement mapping), the names whose last save got no data into the
object, because the write failed or the session died before it, and the content a
session last ran from a name.

A script is abstracted to the names it passes to `internal_TA_call`, any of them
up to `MaxCalls` times in any order; its value is a value, an error message
(returned like a value, as `call_lua` does), or junk.

### TrustedStorage, external

The TA creates objects with `ACCESS_READ | ACCESS_WRITE | ACCESS_WRITE_META |
OVERWRITE` and no sharing flag, so the handle is exclusive and creation is refused
while any handle is open; it opens them with `ACCESS_READ | SHARE_READ`, which is
refused while the exclusive handle is open. Handles of an instance that ends or
dies are released; objects stay as they are. `MaxOpen` stands for the memory the
TEE has for handles of one session on one object.

### LuaHost and the code

`hpc[s]` is the position of a process: `opendir`, `saving`, `save_wait`, `main`,
`call_wait`, `exited`. Directory entries are returned in any order. An entry's name
and extension are what two calls of `strtok` with "." yield, so `.cubic.lua.swp`
is an entry for script `cubic` with extension `lua` (`exact = FALSE`), and is
saved under that name. A file that cannot be opened is no error for `read_in_file`
(67-79): its text stays NULL and its length unset, so that no bytes are saved
(`SaveNothing`), the command is not sent (`SaveNotSent`) or the process dies
(`SaveCrashes`). `TA_call` builds the path of the file to send by `strcat`
onto memory `malloc` returned; whatever that memory holds decides whether the file
is found, so `CallWrongPath` is a choice open in every call. A process that is
gone has its session closed by the driver (`EndSession`). `refused` is a history
variable: the files that were not sent as they are, or whose save was not answered with
success. `invoke_ta_number` is never called and is left out, as are a `malloc` of the
host that returns NULL, an `fread` that reads less, and the file of no bytes.

### CryptoUtils and the code

One action per TEE call with the checks after it; a call that the API allows to
fail may fail in every execution, and those whose failure the code does not look at
lead to a panic of the next one, as the API demands, but for two: a key that cannot be
read leaves `okm_buffer` zero (185), a failed `hmac_sha512` leaves `mac_cmp_buffer` zero
(190), and the comparison (196) goes ahead in both cases. Keys, macs and
ciphertexts are records of what went into them. Packages are the parts of sealed
packages in any combination, and those anybody can make without the key: with a mac of zeros,
and with macs and ciphertexts under the key of zeros. Their length is on either side of every
boundary of the header; where the buffer ends before the mac does, what lies behind it is
compared. The eight bytes of `iv` that the code never writes are zero or not.

### LuaArguments and the code

`stage` follows one argument from the Lua stack of `main.lua` to that of the
script and the script's result back. Numbers are counted in halves, C's `int` ends
at `IntMax`, strings have a length and the position of their first zero byte.
Reading through the half-initialised pointer of `args_from_params_ta` and copying
a string of a closed Lua state are choices between the right value and junk.

### LuaCode, LuaParser and the code

The compiler is sequential, so it is a tower of operators, one per function of the
source, from a state of the compilation to the next. `c.f` is the `FuncState`
being compiled, `c.outer` those around it; `LuaY_parser` gives the prototype that
`LuaVM` runs. Jump lists are threaded through the `sBx` fields of the code as in
the source, registers are numbers, and constants are found again through the
scanner's table. Failing assertions of the source are recorded in `c.bad`, all but those about the format of an
instruction (`lcode.c` 316-339). Input are the tokens of a program, which
`LuaSemantics!Tokens` writes down for a tree; the lexer is left out. Every operator occurs, on
numerals, which `constfolding` computes, and on variables. A float is the exact quotient of two
integers, or an infinity or NaN (`LuaArith`).

Two kinds of program are compiled to code that computes something else, in this version of the
source. The model follows the source in both; `c.wrong` names them, and the properties
except them, each only those that fail:

* a generic `for` with more than three expressions (`lparser.c` 1360): `adjust_assign`
  (309-326) removes the surplus values only for its other callers, so that their registers
  stay under the loop's variables and the body's first local has another's register. The
  assertion `freereg == nactvar` (445) fails;
* `if c then goto l ::m:: ...` (`lparser.c` 1397-1403): the jump to the end of the block is
  made behind the labels that follow the goto, so that a later `goto m` takes it.

### LuaVM and the code

One action per instruction or group of instructions with the same shape. A
register is `Junk` from the time its frame begins, or a call has used its slot,
until it is written. Closures are cached per prototype as in `getcached`; tables
are sequences of fields in the order they were set; metamethods, the rounding of floats,
hooks and coroutines are left out, and an operation that would look for a metamethod
raises the error that its absence raises. A chunk may go through `LuaChunk` first:
dumped and loaded, stripped and loaded, or cut off (rejected, as `lundump.c` does).

### LuaCalls and the code

Two stacks advance together, see the module's comment: `cs`, the C stack, with a
frame for each activation of `luaV_execute`, `luaD_call`, `luaD_rawrunprotected`,
`lua_resume` and so on, and for each thread its `CallInfo` chain and counters. What
functions compute is left open: at each step a Lua or a C function takes any
action of its side, C functions with every combination of continuation, message
handler, yield, resume and memory error. A throw cuts `cs` down to the innermost
`luaD_rawrunprotected` of the thread, as `longjmp` does. A coroutine runs inside
`lua_resume` and so always has one; in the main thread the lack of one ends in
`abort` (`panic`). Hooks and the parser's own use of the C
stack counter (`enterlevel`) are left out. No library that `linit.c` opens in the
TA creates coroutines, so they matter to the host's scripts and to C code that
uses the API.

`StackReferencesLive` is about levels, not addresses: a slot is abstracted to the
frame it belongs to.

### LuaGC and the code

The whole `global_State` is one record `g`, because every function of `lgc.c` takes
it. `SingleStep` is `singlestep`; how much debt a step pays is a choice. The script is any
sequence of allocations, reads, writes, closures, coroutine locals, upvalues, metatables with
finalizers, drops, steps of the collector, full and emergency collections, and a `lua_close`.

A finalizer is a piece of script that runs inside the function of the collector that called
it, and may ask for collections itself: `luaC_step` and `luaC_fullgc` do not look at
`gcrunning` when `lua_gc` calls them (1149-1174). `calls` is the stack of these functions,
each with the place it has got to: the loop of `luaC_step` or the `runafewfinalizers` behind
it, one of the two runs to the pause of `luaC_fullgc` (`FinishPending`,
`FinishCollection`), or `luaC_freeallobjects` (`FreeAll`), which calls what is left to be
called and frees everything. Between two finalizers no script runs, so a function goes on to
the next finalizer or to its end in one step (`EndFinalizer`); only `luaC_fullgc` shows the
state behind its own cycle (`Collected` takes it on), about which `FullCollects` speaks. The
error of a finalizer goes on in whatever called the
function of the collector (`FinalizerFails`), which does nothing more; only
`luaC_freeallobjects` goes on to the next. An object marked for
finalization while the state is closing has no effect (`late`). After the end comes a new
state (`Lua_newstate`). `MaxCalls` bounds the stack.

A table has one node, which is enough for a dead key, an empty entry
and an entry of each kind of weakness. The two whites are written relative to
`currentwhite`.

`luaC_step` may call finalizers in the middle of a sweep, and `udata2finalize`
(789) moves the object that `sweepgc` points behind from `tobefnz` to `allgc`. The
sweep of `tobefnz` then continues in `allgc`; the objects still in `tobefnz` stay
black, and so are not marked again in the next cycle, which frees what they refer to
while their finalizers are still to be called. `lgc.h` says that the invariant "is restored
when sweep ends and all objects are white again" (57-58), and `lgc.c` that a new cycle will
"mark any finalizing object left from previous cycle" (345); neither is so then. With
`GCSWEEPMAX` as in the source it takes more than that many pending finalizers. The model takes
the step; `overtaken` records it, the properties promise nothing behind it, and it is followed
no further.

### LuaTable and the code

The hash part is a function from node numbers with relative `next` offsets, `dummy`
is the shared empty node, `lastfree` moves down as in `getfreepos`. A walk along a chain
(`Until`) follows `next` as often as there are nodes, which is enough where chains end;
that they do is part of `ChainsSound`. `LuaH_newkey` is `InsertKey` where a node is left
and a rehash followed by `Put` where none is; after the rehash there is always one
(`RehashFacts` in the proofs), so the C recursion `luaH_set` - `luaH_newkey` is never
deeper. Keys have constant hashes, so the run decides who collides. `RemoveEntry` is the collector
turning a key dead in an empty node (`lgc.c`): the traversal may stand on such a
node, and an insertion may walk through one. `LuaH_resizearray` is what a constructor
or `lua_createtable` asks for.

`luaH_resize` allocates twice, and either allocation may raise a memory error
(`ResizeFails`, `LuaH_newkeyFails`). The array part grows before the node vector is
allocated (345-348): an error in between leaves integer keys in the hash part where lookups
no longer look for them, because the array part now covers them. `shadowed` is a history
variable for this. The abstract map then forgets those keys and promises nothing more
(`LuaMap!Forget`, `whole`), and the model follows the table no further; an error that
shadows no key leaves a table of which everything is promised. A failing
`luaH_resizearray` is left out: nothing refers to the table of the constructor yet.

Values assigned to absent fields while a traversal is under way are excluded
(`MayAssign`), as the manual does.

### LuaStrings, LuaNumerals and the code

The matcher is recursive functions of a position that take and return the
`MatchState`, so what a failed branch leaves in it is visible to the next.
`gmatch` and `gsub` take a step per match, because the script runs in between. The script
may catch the errors of the iterator that `gmatch` returns and call it again. An error leaves
`match` without restoring `matchdepth`, so the next call begins with what is left of the
budget, against the assertion at `lstrlib.c:611`; after enough of them any pattern is "too
complex". `MatchesReference` says so: without an error the budget does not leak, and with
errors it runs out once, between answers that are otherwise the promised ones. A script gives up
after `MaxErrors` errors, two more than `MAXCCALLS`.

`strtod` takes a step per iteration of its loops; what `l_str2int` and the exponent of
`strtod` read in a loop is the fold of a step over the characters (`Folded`), up to the
first place that is not one of theirs (`After`). Doubles are exact fractions;
integers have `IntBits` bits, and `MAXDIG`, `INT_MAX` and `MAXCCALLS` are small. A binary
exponent above `INT_MAX` overflows `exp`, which is undefined: any int may come of it.

`LuaNumeralValue` gives the meaning of a text from its parts, without reading it from left
to right. `strtod` differs from it for the six shapes of text of `Shapes`: a zero behind
the dot before the first significant digit (0.05, read as 0.5), a negative binary exponent
(0x1p-1), `0x` without a digit, a decimal that begins with the dot (.5), a decimal
exponent (1e5), and a binary exponent that is no int. `NumeralsConvert` speaks of all
other texts, those that are no numerals included. `large` and `negative` are the shapes for
which `TextCallsEnd` asks nothing.

## Runs

| Run | Instance | Checks | Result |
|---|---|---|---|
| `shared` | 2 sessions, 1 name, 2 texts of which one calls that name, nesting 2, 2 handles, failures and deaths | type, exclusion, stable reads, no torn reads, one version per session, what runs is stored, refinement of `ScriptStore` | hold, 14,000 states up to symmetry |
| `sealed` | 2 sessions, every payload sent with the flag, every other command, failures and deaths | only authentic text runs, or that of an unkeyed package; every command is answered (fairness) | hold, 354,000 states |
| `host` | 2 processes of two applications, one in the clear whose script calls another, one encrypted; both call modes, failures, unreadable files, deaths | saved before main, own scripts run, every process ends (fairness) | hold, 326,000 states |
| `verify` | 2 salts, 2 nonces, 2 texts, ciphertexts and macs without the key, 8 lengths | outcomes as abstracted, only sealed packages decrypt while no call failed unnoticed, HMAC handles, ranges | hold, 463,000 states |
| `arguments` | ints up to 3, strings up to length 5 in a buffer of 4 | values arrive and return | hold, 22,000 states |
| `compile` | 1,964 programs, as text or as chunks | the code computes the meaning, no stale register, frames hold, assertions of the compiler, every program ends (fairness) | hold but for the two kinds of program named above, 19,000 states |
| `calls` | 2 threads, 3 nested C calls and 2 extra, 3 frames and 1 extra | `nny`, C stack bound, continuations, upvalues and handlers, jump buffers | hold, 1.2 million states |
| `gc` | 2 layouts of 3 objects and 9 of 2, sweeping one at a time, 2 collector functions inside each other | nothing reachable freed, colours, finalizers first, weak values cleared, full collection frees the garbage | hold, 462,000 states |
| `table` | 6 keys of every type, array up to 4, memory errors | refinement of `LuaMap`, length, chains, cached absence | hold, 98,000 states |
| `text` | 11,852 calls and numerals | the matcher agrees with the reference, numerals convert, every call ends (fairness) | hold, 46,000 states |
| `lost` | 1 session | a save answered with success is stored | violated |
| `fraction` | the text 0.05 | a numeral converts to its value | violated |

Why the bounds are enough. Sessions interact through one object at a time, so two
sessions and one name show every conflict between two storage calls; a script
that calls its own name reaches nesting, repeated opening and the limits on states
(`MaxDepth`) and handles (`MaxOpen`). `host` has the second name. The proofs
lift these bounds for the TA. The lengths of `verify` and the numbers of `arguments`
lie on both sides of every comparison in the code; `SizeMax` is any number above the
lengths.

The programs of `compile` are generated by families, each aimed at one mechanism:
conditions in every position (jump lists with values), branches and loops over
them, operands that are calls, constants, table accesses or folded expressions with every
operator, open lists of values in every consumer, loops with captured variables left in every way, legal
and illegal gotos, the constructs that are compiled wrongly and their neighbours, upvalues
through several functions, and assignments whose left
sides depend on each other. `LFIELDS_PER_FLUSH` is 2, so that constructors flush;
`MAXREGS` and `STACKSIZE` are never reached. Two threads in `calls` are a
coroutine and its resumer, either of which may be resumed at any moment, refused
resumes included; the limits are reached and exceeded into the extra space. In `gc`
the three objects are an ephemeron table with an object to finalize and a string for keys and
values, or a prototype, its closure and the coroutine it captures a local of; with two, a
table of each weakness has an object to finalize or a string, and two objects to finalize
refer to each other. `GCSWEEPMAX` 1 lets the script run between the sweeps of any two, and
`MaxCalls` 2 lets a finalizer of a step or a full collection, of either phase, make another
one, whose finalizers then run. The
keys of `table` share their main positions in hash parts of one, two and four nodes and one
is a float equal to an integer; `MAXINT` 5 lets `unbound_search` give up doubling and
search from 1. Patterns in `text` are every two of 14 pieces, with and
without a capture, every short one under `gsub` with every kind of replacement, and some with
as many captures and items as `LUA_MAXCAPTURES` and `MAXCCALLS` allow and one more;
numerals are every text of up to four of eight characters.

`CHECK_DEADLOCK FALSE` in the runs of `CryptoUtils` and `LuaArguments` is for the
return of the function modelled, in those of `LuaText` for the end of the one call a
behaviour makes.

Fairness. `Fairness` asks that a TA inside a command keeps running, which the TEE
scheduler provides as long as the rich OS schedules the calling thread.
`HostFairness` adds that a process that has not ended is scheduled. `LuaVM!Spec`
and `TextSpec` ask the same of the interpreter: a program that can take a step takes
one. Nobody is obliged to send a command, start a program, or die. Scripts terminate
(`MaxCalls`, `MaxTACalls`, the programs of `compile`): one that loops for ever keeps
its session busy for ever, in the code as well. `LuaGC`, `LuaTable` and `LuaCalls`
are about safety only.

## Disagreements met

Two are shown by runs and listed in `PROJECT.json` under "findings": a failed write
is reported as success (`lost`); a zero behind the dot that comes before the
first significant digit is not counted, so 0.05 is read as 0.5 (`fraction`).

The models contain the following behaviours as choices or steps; the passing runs are stated so
that they hold nevertheless, and say so in their comments:

* A run of a script that cannot be opened answers success with a value read through
  an output pointer that was never set (`lua_runtime_ta.c:317`; `ReturnJunk`).
* A refused or failed save is printed by the host, which goes on and runs
  `main.lua` without it (`host/main.c:126`), against the comment "to allow for internal
  calls between the scripts" (346). `SavedBeforeMain` speaks of the files whose save was
  answered with success, and of those with a name no other file or application uses.
* A save whose write and delete both fail leaves an empty script and answers success
  (`lua_runtime_ta.c:279`; `SaveDeleteFails`, `ScriptStore!Lose`).
* A package with a mac of zeros is decrypted when `hmac_sha512` fails
  (`cryptoutils.c:190`), one made with the key of zeros when the key cannot be read (185);
  such a text runs. `OnlySealedDecrypts` and `OnlyAuthenticRuns` name the case.
* A file of the host that cannot be opened is saved as a script of no bytes, not sent, or
  stops the process (`host/main.c:67-79`).
* Eight of the sixteen bytes of `iv` are used without having been written
  (`cryptoutils.c:138`): an authentic package may decrypt to garbage.
* A string result is copied after `lua_close` freed it (`lua_runtime_ta.c:101`).
* `strtod` loops on a negative binary exponent until the counter overflows
  (`ltrusted_app.c:146`), and an exponent above `INT_MAX` overflows while it is read;
  it accepts "0x" as a number and rejects ".5" and "1e5".
* The iterator of `gmatch`, called again after an error it raised was caught, finds a
  `MatchState` whose depth was not restored, against the assertion at
  `lstrlib.c:611`, and may call a pattern of one item too complex (`MatchesReference`).
* `find` with a pattern that has no special character looks for it literally, so that
  `")"` is found by `find` and malformed for `match` (`lstrlib.c`, `nospecials`; `)` is
  not among `SPECIALS`).
* `^` and `%` on variables raise an error in this build (`lvm.c:996`, `lvm.c:1029`). On two
  literals the compiler folds them: `7 % 4` has a value (`luaV_mod`), and `2 ^ 3`
  raises its error while the text is compiled (`lobject.c:114`), although `validop`
  (`lcode.c:959`) is there to "Return false if folding can raise an error". The
  programs of `compile` do both; the reference has the two meanings.
* Two kinds of program are compiled wrongly, see `LuaCode, LuaParser` above.
* A memory error inside `luaH_resize` may hide the integer keys of a table, see `LuaTable`
  above.
* The collector may overtake an object to be finalized, see `LuaGC` above.

## Proofs

All hold for every value of the constants under the assumptions that the modules state
about them, with failures and deaths allowed unless the table says otherwise.

| Module | Theorem | Statement |
|---|---|---|
| `LuaRuntimeTA_proofs` | `Invariance` | `Spec => []IndInv` |
| | `TypeCorrect` | `Spec => []TypeOK` |
| | `Exclusion` | `Spec => []HandleExclusion` |
| | `SameVersion` | `Spec => []SameVersionPerSession` |
| | `StableRead` | `Spec => []ReadIsStable` |
| | `NoTornReads` | `Spec => []NoTornRead` |
| | `CurrentVersion` | `Spec => []RunsCurrentVersion`, the abstract invariant through the refinement mapping |
| | `AuthenticRuns` | `PlaintextDisabled => (Spec => []OnlyAuthenticRuns)` |
| | `Refinement` | `Spec => Abstract!StoreSpec` |
| `LuaHost_proofs` | `HostInvariance` | `HostSpec => []HostInv` |
| | `ScriptsSaved` | `HostSpec => []SavedBeforeMain` |
| | `OwnScripts` | `HostSpec => []OwnScriptsRun` |
| `CryptoUtils_proofs` | `CryptoInvariance` | `CryptoSpec => []CryptoInv` |
| | `ReleasesHandles` | `CryptoSpec => []HmacReleases` |
| | `SealedOnly` | `CryptoSpec => []OnlySealedDecrypts` |
| | `ExactReads` | `CryptoSpec => []ReadsWholeBuffer` |
| | `AsAbstracted` | `CryptoSpec => []OutcomeAsAbstracted` |
| `LuaArguments_proofs` | `ArgumentJourney` | `Spec => []ArgumentArrives` |
| | `ResultJourney` | `Spec => []ResultReturns` |
| `LuaTable_proofs` | `TableInvariance` | `Spec => []Inv` |
| | `TableIsMap` | `Spec => ImplementsMap`, that is `Spec => Map!MapSpec` |
| | `ChainsAreSound` | `Spec => []ChainsSound` |
| | `LengthBorder` | `Spec => []LengthIsBorder` |
| | `AbsentAreAbsent` | `Spec => []AbsentMetamethods` |
| `LuaNumerals_proofs` | `NumeralsAreConverted` | `NumeralsSpec => []NumeralsConvert` |
| `LuaCalls_proofs` | `CallsInvariance` | `Spec => []CallsInv` |
| | `CountedNny` | `Spec => []NnyCounts` |
| | `BoundedCStack` | `Spec => []CStackBounded` |
| | `LiveJumps` | `Spec => []JumpsIntoLiveFrames` |
| `LuaCalls_levels` | `LevelsInvariance` | `Spec => []LevelsInv` |
| | `ReferencesLive` | `Spec => []StackReferencesLive` |
| | `CallsResume` | `Spec => []InterruptedCallsResume` |

Hypotheses. `PlaintextDisabled` says that every command carries the flag that makes the
TA verify what it receives; that is what the property is about, and the
configuration of the run `sealed`. The theorems about the host have no hypothesis: which files
they speak of is part of the properties. `CryptoAssumption` has
`HeaderSz` below `SizeMax`, `CallsAssumption` room for the handling of an overflow
(`ExtraCalls > 0`), both true of the source's numbers.

The TA. None of its properties is inductive: that a stored script cannot
change while a session depends on it needs that the session's handles are still
open, which needs a count of them. `IndInv` adds to `TypeOK`, `HandleExclusion`
and `SameVersionPerSession`:

* `WriterHolds`: a session between the creation and the closing of an object has
  the exclusive handle, and the object is empty until written;
* `EmptyExplained`: an empty object is being saved, or its save ended without data: by a
  death, or because neither the write nor the delete worked;
* `HandlesCounted`: a session holds one read handle for the frame that is reading
  a name and another one for the run it has already made of that name. Two are
  needed because a nested read of the same name that fails closes one
  (`CloseScript`), and the outer run must not lose its own;
* `FramesOK`: the data of a running frame is what the session last ran from the
  name.

Each action preserves `IndInv`: `DieInd` covers all four ways an instance dies,
`RespondInd` the handlers that return early, `TopStep` the steps of the innermost
frame, `FramesStep` the steps that push or pop one. `NextInd` puts them together.
`AuthenticRuns` adds that whatever is stored, on its way to storage or in a frame came
out of the verification; a text that was "unverified" is that of an unkeyed package among the
commands.

The refinement. Each action is a step of `ScriptStore` or a stutter under `RefInv`, which
adds to `IndInv` that a session that is gone holds no handle. A save takes effect for the
abstract store when its data is written or, when that failed, when the object is
deleted or left behind empty, and `before` stands in for an object that is being saved; a run of a saved script
starts when its content has been read.

The host. `HostInv` is `IndInv` and, for each process, `Stations` (where it is in
its program and what its session is doing fit together), `SentOwn` (a script sent along with
a call is the text of a file of that name), `Mine` (under a name no other application uses
there is nothing but texts of its own files, and once a file has been saved that of a file the
process wanted) and `Stored` (what the files it has saved left in storage). The last two are
about the names that are the process's own, so no other session's save can disturb them; a save
in progress is the session's own, by `WriterHolds`.

Verification. `CryptoInv` says that the mac compared with is zero or the one of the buffer
under the key that was derived (`MacInv`), and that whatever is decrypted carries the mac it
was compared with and was a whole package (`CheckedInv`). That a mac that is neither zero nor
under the key of zeros is that of a sealed package is then a fact about `Package`.
`ReadsWholeBuffer` rests on `MinusExact`: no subtraction of unsigned lengths wraps.

Arguments. `ArgumentInv` and `ResultInv` say for each stage which C value stands for
the value that was sent; `StandsFor` and `Carried` leave open the junk that the code may
read, and the lemmas about `CForm` that conversions and their inverses cancel for
supported values.

Calls. The counters of `ldo.c` are right only in terms of the whole C stack, and errors
cut any number of frames. `CallsInv` therefore describes every frame in terms of those
below it (`FrameAt`: a `luaD_rawrunprotected` has saved the innermost earlier one and an
`nCcalls` that covers the calls below it, `luaD_pcall` and `lua_resume` have saved the
`nny` of the frames below; threads alternate by `lua_resume`, and a resumed thread runs
under a `luaD_rawrunprotected` of its own), and the threads' fields in terms
of all frames. Statuses are part of it (`StatusesOK`): only the frame that caught an error
may have one. What is cut is a suffix, and by `FrameAt` the frames above the handler are
all of the throwing thread, so the other threads' counts stay what they are
(`OwnFramesAbove`, `OthersFrames`). One lemma per way of pushing, popping and cutting
(`PushFrame`, `PushRaw`, `PushResume`, `PopFrame`, `Throw`, ...) keeps the invariant, and
the actions are compositions of them. The limit: `nCcalls` may exceed it by one while an
overflow or a refused resume is reported (`Reporting`).

Levels. That what refers to a level of a `CallInfo` chain refers to an active function
depends on every frame of the C stack: which level `luaD_pcall` goes back to, which
function `luaV_execute` returns from and which one a continuation belongs to.
`LevelsInv` says that there is a level for each frame (`LevelAt`): that of a C function
or of `luaV_execute` lies above that of its caller (`Above`), what `luaD_pcall` has saved is
its own level and a handler of an enclosing protected call (`Saved`, `Justified`), a
resumer waits at the innermost level of its own thread (`Resumer`), and below a frame that
may yield every C function has a continuation (`Continued`). `ThreadOK` says of every chain,
those of suspended coroutines included, that its suspended protected calls can be resumed and
that they restore handlers of earlier ones. No frame needs more than the levels below it,
so a step that changes thread L above some frame leaves the levels up to that frame
(`FrameKept`), and what remains to be shown is the new frames, the innermost one and L
itself (`Rebuilt`). The lemmas about pushing, popping, moving along the chain, throwing
and resuming are instances (`FramePushed`, `FramePopped`, `FrameMoved`, `Thrown`, `Begins`).
A refused resume leaves two frames that never ran; the levels are those of the frames
below them (`LiveLen`). TLC has checked `LevelsInv` on the instance of the run `calls`;
it is an invariant of the proof and no property of that run.

Tables. That an assignment changes one field says nothing that is inductive by itself: where
`luaH_newkey` puts a key depends on every chain, and `luaH_next` depends on where keys
stay. `Inv` says of the nodes

* `ChainShape`: every `next` leads to a node and every chain ends, by the condition that a
  set of nodes closed under `next` has a node that ends a chain;
* `FreeNodes`, `LinksDistinct`: a free node is on no chain, chains do not merge;
* `Found`: every key, dead or alive, is on the chain that begins at its main position;
* `HeadsOwn`: the main position of a key that is in some node holds a key of its own
  chain, because a colliding node that was elsewhere at home has been moved. This is what
  keeps `Found` true: the node that is moved is never the start of another key's search;
* `NewestFirst`: a key comes before the dead keys of its address, since `findindex` takes a
  dead key for the live one;
* `KeysUnique`, `DeadEmpty`, `LastFreeBound`: no key twice or in both parts, no value under a
  dead key, no free node above `lastfree`.

`InsertKey` has three cases, each with a lemma of its own: taking over an empty main position
(`TakeOver`), linking a new node behind it (`BehindInserts`) and moving the colliding
node (`MovedInserts`). `PutFacts` says that exactly the new field changed. A rehash
inserts the fields one by one (`ResizeStepFacts`) and never runs out of nodes: the keys
that want a node are counted against the nodes there are (`DemandedBound`,
`ComputeSizesBound`, `RehashFacts`), and a free one is left while there are fewer
keys than nodes (`RoomLeft`). `Traversal` says that what was visited is what lies before the
cursor; during a traversal no entry moves and no field appears (`Steady`).

Loops of the code are recursive functions of a number of steps. What they compute is proved by
induction over that number, in the form that a set of natural numbers that is not all of
`Nat` has a least missing one (`LeastNat`, `NatSet`): the induction theorems of the library
take an operator as parameter, which the provers cannot instantiate. That such a function
satisfies its equations is proved first (`Iterates`, `ResizeIterates`, `HalvingIterates`).
`LengthBorder` needs no more than that `Halve` keeps its lower end zero or present and its
upper end absent, and that a table with as many fields as it has places has an absent
index among one more (`SomeAbsent`). Nothing is assumed of the keys but `TableAssumption`;
the hash of a key is its number.

Numerals. `NumeralsSpec` converts one text of any characters, as long as an int can count;
`LuaNumeralValue` cuts it into parts, the code walks through it. What connects the two is a
layout (`Layout`): where the numeral begins and ends in the text, where the digits, the dot
and the exponent stand, and that the parts are the slices between those places (`PartsAt`,
`LayoutExists`). In terms of places, being a numeral is a statement about characters
(`NumeralFacts`), and so is what a loop stops at (`AfterFacts`, `ReadFacts`, `StopFacts`).

* Integers: `l_str2int` computes modulo `2^IntBits`, or gives up at the first digit that
  would not fit; both are what the meaning says of the whole number (`HexRead`,
  `DecimalRead`, `IntegerValue`).
* Digits: after any number of places, `r` is what the digits read so far stand for, without
  those beyond `MAXDIG`, and `e` counts these and the places behind the dot
  (`Accumulated`, `DigitsRead`). The step that skips a zero is the one that fails for the
  shape `zeros`: behind the dot it would have to count.
* Scaling: each iteration keeps the equation `Balance` between `r`, `e`, `exp` and the
  number that the text denotes; at its end `e` and `exp` are 0.
* What is no numeral stops before its last character that is no space (`InScale`), so
  that its conversion is rejected whatever `r` has become.

The invariant `NumeralInv` says this for each value of `npc`. Sums, powers and remainders
are those of exact integers, and `MAXDIG`, `IntBits` and `INT_MAX` are arbitrary. Induction
is over the length of the text, as for tables.

Only model-checked:

* liveness (`CommandAnswered`, `ProcessEnds`, `ProgramEnds`, `TextCallsEnd`), which the
  prover cannot do;
* everything about the compiler, the virtual machine, chunks, the collector and the matcher:
  their operators recurse over trees, heaps and backtracking alternatives
  (RECURSIVE operators, which the prover does not accept).

## Not modelled

* The lexer: a pure function from characters to tokens. The numerals it reads
  are in `LuaNumerals`.
* `string.format`, `pack`, `unpack` and the functions that make one pass over a
  string; `table`, `math`, `utf8`, `bit32`, `debug`, the auxiliary library: sequential
  code on top of the C API without state of its own.
* In the virtual machine: the rounding of floats, the width of integers, metamethods, hooks. In the collector: pacing (debt,
  estimates, step sizes), the string table's own lists. In tables: hash functions.
* The bit-level functions of `ltrusted_app.c` (`floor`, `pow`, `fmod`, `frexp`) and
  the memory and string functions that have no state.
* The text the dumper script produces (`lua_arguments.c`, 36-269), and the effect of
  `lua_pop(L,-1)` on the caller's stack after a table was dumped.
* The TA's heap, other than as a limit on states and handles.
* Choice of files by `encrypt_lua.py`, build files, timing output.

## Plan

1. Done: the TA with its abstract specification and the proofs of its invariants; the
   host, the cryptography and the arguments; the interpreter's compiler, virtual
   machine, chunks, calls, collector, tables, pattern matching and numerals.
2. Done: the proofs listed under "Proofs", every safety property of a run whose module has
   no RECURSIVE operator. Next: recursive functions in place of RECURSIVE operators
   in `LuaGC`, as `LuaTable` and `LuaNumerals` have them, and what then can be proved.
3. The dumper script of `lua_arguments.c`: loading what it writes gives the value
   back, for every order in which `pairs` visits a table.
4. Floats that are rounded, and metamethods, in `LuaVM`.
