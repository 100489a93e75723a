# taut-rpc: specifications, model checking and proofs

taut-rpc is an RPC layer: Rust procedures marked `#[rpc]` are mounted on an axum
router, a CLI turns their intermediate representation (IR) into a TypeScript
client, and a small TypeScript runtime calls them over HTTP, SSE and (behind a
feature) a multiplexed WebSocket. This directory holds TLA+ specifications of
the parts of it whose correctness depends on order, timing or failure, the TLC
configurations that check them on small instances, and TLAPS proofs of what
matters most for all instances.

`PROJECT.json` is the index: it lists the components, every run with its
properties, a mutant of the code for each property (a plausible bug that the
property catches), the source lines each definition translates, the hazards the
properties are for, the disagreements found, and the theorems.

## The system

| Component | State | Operations | Talks to |
|---|---|---|---|
| WebSocket multiplexer, `crates/taut-rpc/src/ws.rs` | the `active` map id → `AbortHandle`; an unbounded mpsc of frames; one reader, one writer, one driver task per subscription | Subscribe, Unsubscribe, Close, undecodable text; a stream yields, ends, panics; disconnect | client by frames; tasks and writer by the mpsc; reader and tasks by abort flags |
| SSE subscription, `router.rs` `sse_response_for`, the stream of `rpc_attr.rs`, `npm/taut-rpc/src/sse.ts` and the iterators of `index.ts` | on the server the boxed stream; on the client a generator, an `AbortController`, the response body's reader, the memoised dynamic import | `next()`, `return()`, fetch, read, the events data/error/end | HTTP response; promises |
| Unary call, `http.ts`, `index.ts` proxy, `router.rs` extractor, `rpc_attr.rs` body | a timer and an `AbortController` per call; on the server one future per request | call, decode, validate, run, serialize, map to a status | HTTP |
| Router assembly, `rpc_attr.rs`, `router.rs` | descriptors, pending layers | `__taut_proc_<name>()`, `procedure`, `layer`, `ir`, `into_axum` | type reflection, axum |
| Type reflection, `types.rs`, `derive_type.rs`, `type_map.rs` | the call stack of `collect_type_defs` and the definitions it has pushed | reflect, collect, render a type | the descriptor functions, code generation |
| IR pipeline, `dump.rs`, `gen.rs`, `check.rs` | the IR file, the generated client, the committed baseline | dump, gen, gen `--from-binary`, check, check `--write` | child processes and files |
| Code generation, `codegen.rs` | none; its output is a program, whose state is the constants it has initialised | `gen`; the import of `api.gen.ts` | the client, Valibot or Zod |
| MCP manifest, `mcp.rs` | the names the walk of a tool has found | `mcp` | agents |
| Validation, `validate.rs`, `derive_validate.rs`; error types, `error.rs`, `derive_taut_error.rs` | none | check an input; code, status and payload of an error | the unary handler |
| `inspect`, argument parsing | none | print tables | the IR |

What is hard in it, and where:

* *WebSocket.* Reader, writer and tasks run on different threads and share a
  queue, a map and a flag per task. Subscriptions are told apart by the client's
  ids alone, and ids are used again. An unsubscribe may cross the stream's own
  end; a disconnect may come anywhere.
* *SSE.* Three iterators are stacked on each other, and an async generator
  serves one request at a time: a `return()` waits for a pending `next()`. The
  response may break or be cut short at any event.
* *Unary calls.* A timeout races the answer, and the handler may have run
  although the caller is told it failed.
* *Types.* One Rust type is read five times, by different code: as a TypeScript
  type, as the client's schema, as the manifest's JSON schema, by serde and by
  `Validate`. A value that one reading lets through another may refuse. The
  definitions of a type graph are collected by an unguarded recursion, merged by
  name, and emitted as statements that an engine runs from the top.
* *The pipeline.* Processes hand IR to each other through files that may be
  stale or torn.

What makes each correct: a subscription hands over its stream's items in order
and no others, is closed once, and is let go on both sides when either side is
through; an answer belongs to its call; a generated client agrees with the
server it was generated for.

## Modules

```
Subscription            what one subscription promises its client
  WsSocket              ws.rs: one socket, all its subscriptions     implements Subscription
    WsSocketInv         its inductive invariant
      MCWsSocket        instances for TLC
      WsSocketProofs    types, the inductive invariant, the safety properties, the refinement
  SseStream             one SSE subscription from end to end         implements Subscription
    SseStreamInv, MCSseStream, SseStreamProofs
IrPipeline              the subcommands of cargo taut over their files
  IrPipelineInv, MCIrPipeline, IrPipelineProofs
CallContract            what a caller may conclude from a settled call
  UnaryCall             queries and mutations from end to end        implements CallContract
    UnaryCallInv, MCUnaryCall, UnaryCallProofs
RouterAssembly          from #[rpc] functions to an IR and a mounted router
  RouterAssemblyInv, RouterAssemblyProofs
  GeneratedModule       what gen and mcp make of that IR, and its import
    GeneratedModuleProofs
    MCRouterAssembly    both for TLC
Declarations            what the derives read of #[taut(..)]
  Leaves                the five readings of a primitive, and the checks of a field
    LeavesProofs
    Readings            the five readings of a type made of others
      Wire              one value on its way through a call
        WireInv         its inductive invariant
          MCWire
          WireProofs    the inductive invariant, what arrives, the checks of both sides
```

### Subscription

The abstract specification: a subscription is opened once, hands over frames,
and is over once, by its closing frame (`"ended"`) or with the connection
(`"lost"`); after that nothing is handed over. `ClosingEnds` adds that a
cancelled subscription is closed in the end. Both transports are shown to
implement it; that a WebSocket carries many subscriptions and an SSE response
one is the parameter `Subs`.

### WsSocket

`handle_socket` step by step. The reader loop takes one message a step
(`ReaderSubscribe`, `ReaderReject` and `ReaderRejectEnd` for the two sends of a
rejection, `ReaderUnsubscribe`, `ReaderDecodeError`, `ReaderIgnore`,
`ReaderClose`, `ReaderEof`), then drains the map entry by entry (`Drain`) and
aborts the writer (`ReaderDone`). A driver task is polled (`TaskYields`,
`TaskStreamEnds`, `TaskPanics`, `TaskSeesAbort`) and sends (`TaskSends`,
`TaskSendsEnd`); the writer delivers, loses or fails (`Writer...`).

| TLA+ | ws.rs |
|---|---|
| `active[id]` | the map; the value names the subscription whose handle it holds |
| `aborted` | the subscriptions whose `AbortHandle::abort` was called |
| `task[s]` | where the spawned task is: `polling` the Abortable, holding a `data` or `error` frame, `ending` (the loop is left), `done` |
| `queue`, `writer` | the mpsc and the writer task |
| `reader`, `rejecting` | where `handle_socket` is |
| `conn`, `inbox` | the socket |

The client is not in the repository; `view`, `holder` and `received` are a
client written from the protocol. `ReuseAfter` is the one question the protocol
leaves to it: after which frame it takes an id for free. The proofs and passing
runs take `{"ended"}`, which is what the server can bear; `ws_leak` takes what
the documents allow.

Abstracted: frame contents (a frame is its id, its kind, and, for the properties
only, its subscription and number), the procedure table (a Subscribe names a
stream or something else), task scheduling (any interleaving of the steps).
A panic can happen in the streams of `Panicky`; a panic in the tasks' own code
cannot (the `unwrap`s serialise a `Value`).

### SseStream

One subscription. `setup` says how the client is put together: through
`defaultTransport`'s lazy generator or with `SseTransport` directly (`lazy`),
with an output schema or without (`checked`), and whether the consumer calls
`return()` only where a for-await loop does or at any time (`hasty`).

| TLA+ | code |
|---|---|
| `next`, `outcome`, `cancel` | the consumer's `next()` and `return()` promises |
| `shim` | the generator of `defaultTransport` waiting for its import |
| `gen`, `exit` | where `consume` (sse.ts) is and how it left its loop |
| `wire`, `pipe`, `cut` | the request and response, the events on it, whether the network ended it |
| `server`, `made` | the body of the response and the events it has produced |

Events are their kind and number; how text is split into events is not
modelled (the bytes of an event arrive together or are lost together). A
`throw()` on the iterators is left out, as no for-await loop calls it.

### CallContract and UnaryCall

`CallContract` says what the way a call settles lets its caller conclude: a value
or an error of the procedure, that it ran to its end; a refusal, that it did not
run and never will; anything else, nothing. The procedure runs at most once.

`UnaryCall` is any number of calls through one client. `VerdictOf` reads the
conclusion off what the caller is given (code, status and payload), so the
refinement is a statement about what can be told from outside. A code alone tells
little: `StandardError` has `not_found`, and nothing keeps a program from an error
under any code of the server's. So the caller is taken to know which responses come
of the body (`BodyReplies`) and which of anything else (`OtherReplies`), and concludes
only what follows from that: a result that is in both is a doubt. That is the most
that can be concluded from the code as it is; what the documents would have a
caller conclude is `NotFoundDidNotRun`, which fails.

| TLA+ | code |
|---|---|
| `module` | the promise of `import("./http.js")` that `ensureHttp` memoises, shared by all calls |
| `request[c]` | what is judged of the call: by the `kinds` map, the input schema, the router, serde, `Validate`, the output schema |
| `pc[c]` | `importing` (await ensureHttp), `fetching` (await fetch), `reading` (await resp.json), `settled` |
| `timer[c]` | the `setTimeout` that aborts |
| `wire[c]` | the exchange: `requested`, `headers`, `complete`; `broken` before the headers, `cut` within the body, `aborted` by the client |
| `server[c]`, `answer[c]` | what router and handler did, and the response |
| `result[c]` | code, status and origin of the payload |

A step of the server is one poll of its future: `RpcInput`, decode and
validation run in the poll that starts the procedure, the mapping of its result
in the poll that ends it. A client with its own `HttpTransport` (the only way to
set a method) has no import; that is the case in which the import is over at
once. Left out: 1xx statuses as errors, GET of a subscription's route, payloads.

### IrPipeline

Any number of commands run at once in one directory: `gen`, `mcp`, `check`,
`check --write` (`write`), `inspect`, and the binary run by hand (`dump`). With
`--from-binary` a command spawns its child, waits for it and reads the IR file;
the four copies of this protocol in `commands/` are the same.

| TLA+ | code |
|---|---|
| `files` | `target/taut/ir.json`, the client, the manifest, the baseline; `whole`, or `empty` after the truncation of `std::fs::write`, or `garbled` |
| `pc[c]`, `command[c]` | where `run` is, and its arguments |
| `child[c]` | the spawned process, with the binary it was started from |
| `loaded[c]`, `seen[c]` | the IR and the baseline as the command read them |
| `since[c]` | history: who has written the IR file since the command started |

Two writers that have both truncated fill one file: the outcome is the later
document, or neither, by their lengths. A build replaces the binary at any time,
so `Spawn` runs any of `Binaries`. A write may fail or its process die half-way
(`Dies`, `ChildFails`); a child outlives its command. What is rendered from an IR
is the IR. Paths other than the defaults, which only keep commands apart, a
`cargo clean` during a command, and `TAUT_DUMP_IR=stdout` are left out.

### RouterAssembly and GeneratedModule

`RouterAssembly` is `main` building a router: it calls descriptor functions
(`Describe`), each of which collects the definitions its types need (`Visit`,
`Return`) and is registered (`Register`), adds layers, and then dumps the IR or
mounts the router (`StartExport`). `GeneratedModule` extends it with what the
CLI does with the dumped IR: `Generate` and the run of its output statement by
statement, `ListTools` and the walk for each tool.

| TLA+ | code |
|---|---|
| `Rust[n]` | a node of the graph of Rust types: its form and its parts |
| `draft` | the descriptor under construction, with the frames of `collect_type_defs`, each the types it has still to call |
| `procedures`, `layers` | the fields of `Router` |
| `ir` | the result of `Router::ir` and its two loop counters |
| `service` | the endpoints of the axum router, each with the layers around it |
| `module` | the statements of `api.gen.ts`, the next one, the constants that are set |
| `manifest` | the loop of `render_manifest` and the walk of `collect_named_refs` |

A statement is the constants it declares and reads when it is run and the methods it
calls on the schemas in it. `apply_zod_constraints` appends `.min`, `.max`, `.regex`,
`.email` and `.url` to whatever schema the field's type has; which of these a schema
has is `SchemaLike`: a string has all, numbers and arrays have bounds, a newtype has
what the schema in it has (through the constant it reads), a boolean, a wide integer,
an object, a union, a tuple and a record have none. `z.discriminatedUnion` throws when
a field hides the tag (`hidden`). Valibot's pipes are built without a look at what
is in them, so under Valibot no method is missing. A text that is no TypeScript is
not run at all: types and procedures with a name, key, tag or comment that breaks
it are the constant `Unwritable`, a pattern that JavaScript does not read is the
check `"odd pattern"`. Identifiers made from different names are taken to differ.

`seen` in a descriptor is
history, for the proofs. `AddDef` keeps the first definition of a name at once;
the code does so at the end, with a `retain` and a `HashSet`, which comes to the
same because nothing reads the list between. `MaxDepth` stands for the size of
the stack. What the schemas of a type have in them (`Rendered`) and what it is
written with (`Written`) are recursions over the type graph too; they are given as
the least sets closed under one step of the recursion, as `Reach` is.

### Declarations, Leaves, Readings and Wire

`Declarations` is the attribute parsers of the three derives: what each takes of
the arguments, what it refuses, and what it makes of them. `Leaves` is what code
generation, manifest, serde and JavaScript make of a primitive, and what
`Validate` and the schema check of a field. `Readings` goes on to types made of
others.

A rendered type is a *view*, and `Fits(view, value)` says what it admits: that is
how texts in three languages become comparable. `TsType`, `Schema`, `Mcp` and
`Serde` are the four renderings; `Errors` is the fifth reading, the server's
checks. `Through` is what the parse of a schema returns and `Issues` what it
reports, `Json` and `Parsed` what the wire does to numbers. A refusal is the set
of paths that it reports.

All of these are recursions over nested types, views and values. Each is
written as one step: `SchemaOf(t, o)` is the schema of `t`, given the constant
`Schema` for the parts of `t`; `Unfolds` says that the constants are what the steps
make of them. So the recursion can be reasoned about without a recursive operator.
A number sent for an `f32` is narrowed by serde and widened again by the check
(`Decoded`, `FieldCheck`); `ToF32` is the rounding, of which only that it keeps small
integers is assumed. An `f32` on the way back stands for the number it is written as.
`Validates` says which types have an impl of `Validate`: tuples of up to four
(`ValidTuple`), of the maps the `HashMap`, which `map` stands for; no array and no `Uuid`.

`MCWire` closes the recursion for TLC: the configuration gives `Schema` the value `MCSchema`,
defined as `SchemaOf`, and likewise for the others. `Depth` is how deep types are
nested, `TupleCap` the `FIXED_ARRAY_TUPLE_CAP` of type_map.rs.

`Wire` has the procedure, the settings of the CLI and one value as its state, and
follows the value: `Call`, `CheckInput` (the client's schema), `Send`
(`JSON.stringify` with the replacer), `Decode` (serde), `Validate`, `Return` or
`Fail`, `CheckOutput`. `AgentCalls` enters at `Send` with what the manifest admits.
Which values callers and procedures come up with is the constant `Tried`, a
sample of a view's values in the instance and any values at all in the proofs.

2^53 stands at 4, so that integers above it are odd or even like doubles are.
Abstracted: strings (members of a small set with the lengths and facts that are
judged), what `email`, `url` and `pattern` admit (each side's own, from
constants), messages. A box and its content are one type to all readings.

## Runs

| Run | Instance | Shows |
|---|---|---|
| `ws_reuse` | 3 subscriptions on one id, or 2 on two (`Crowd`), 2 frames and an `End` each, streams may panic, 1 undecodable or ignored message | types; frames are never attributed to another subscription, each subscription's arrive whole and in order, whatever the others, the reader and the writer do between; nothing follows an End; a disconnect aborts every task; only requested aborts happen |
| `ws_live` | 2 subscriptions, 2 ids in use at once or in turn, 1 frame | the socket implements `Subscription`; an unsubscribe, an end and a disconnect are carried through |
| `ws_leak` | 2 subscriptions, 1 id | the disagreement below |
| `sse_all` | all 8 set-ups, 3 events | types; a loop that ends by itself was handed everything; a resolved `return()` leaves nothing behind; the stream implements `Subscription`; a `return()` that is not queued ends the subscription, `next()` settles, the server's stream is let go unless a refused item ended the loop |
| `sse_leak` | one set-up | the disagreement below |
| `call_all` | one call, all 256 requests, the errors of `StandardError` (with `not_found` and `validation_error`) and five odd ones, six answers of middleware | types; a call that must have been refused never runs; results are what the server answered; no timer outlives the wait for headers; a call implements `CallContract`; a call with a timeout settles unless it waits for the import or the rest of a body; the handler of an abandoned call is let go |
| `call_ambiguous` | the same | the disagreement below |
| `ir_all` | 2 commands, 3 APIs (one of an older IR version), 6 kinds of binary, files left by earlier runs | types; a dumped IR is never from before the command; a check that passes saw equal IRs; outputs come from accepted IRs; commands end |
| `assembly_all` | any 2 calls of 10 functions and 3 that the macro refuses, over 14 types: nested, optional, newtypes, two of one name, an enum whose tag is hidden, a map, an array of length 0, a recursive one, checks that suit their fields and checks that do not; 2 layers, each any time; every command on the dump | types; the IR defines what the functions mention, the first type of each name and no other; only a recursive type overflows the stack; only reserved names panic at mounting; the routes are the IR's; layers surround every endpoint; an import that fails does so at the first type that is not sound, and one that succeeds has none; no `$ref` dangles |
| `assembly_load` | the same under Valibot | the disagreement below |
| `wire_all` | 37 procedures over types of every form, 3 settings of the CLI, every value of up to 5 integers, 16 strings and arrays of up to one element | plain values arrive; client and server refuse the same inputs at the same places, where their constraints are plain |
| `wire_dropped` | one procedure | the disagreement below |

*Bounds.* Three subscriptions on one id are a holder, its predecessor and its
successor: enough for any confusion between users of an id. Two ids are enough
for interleaving on the shared queue. Two frames of a stream can be overtaken,
lost or doubled; three events let a cut fall between, before and after.
`MaxNoise` bounds messages that change nothing but the queue. Symmetry is used
for subscriptions and ids in the runs without liveness properties only.
Calls share nothing but the import, and the proofs treat any number of them: one
call with every request is what TLC has to show. Two commands are a writer and
another writer or reader of each file; a third could only do what either does.
Two registered procedures are enough to merge definitions, to clash and to be
ordered; the stack has 15 frames, one more than the instance has types. The
values of `Wire` are all of a view's, over a few atoms: a number below, at and
above each bound and the stand-in for 2^53, with a fraction and without, and a
string of each judgement. Each exclusion in `PlainType`, `PlainChecks`,
`PlainPaths`, `Ordinary` and `NamesDiffer` has a procedure in the instance that
breaks a property when the exclusion is dropped, but two: a bound on a bool, which
no procedure has because TLC could not evaluate it, and the elements of an array,
which an input has only where the other exclusions are about it. The types of the
instance are nested four deep at most (`Depth`), and `TupleCap` is 1, so that there
are arrays on both sides of it, and one tuple has five elements, too many for
`ValidTuple`. `Wire`, `UnaryCall`, `IrPipeline` and `GeneratedModule` are let stop
(`CHECK_DEADLOCK FALSE`) because a call and a command end.

*Fairness.* `WsSocket`: weak fairness of the reader, of each task and of the
writer: tokio runs every task that is ready, and `WriterDelivers` in it says a
connected peer keeps reading. `SseStream`: weak fairness of the client's and of
the server's own steps: the event loop and the runtime keep going, and a server
that is connected answers. `UnaryCall`: `ClientFairness` is the event loop: timers
fire, and promises that have settled are resumed; `PeerFairness` is that hyper
notices a dead connection and drops the handler. Neither promises that the import
settles, that a request is answered or that a body whose headers came ever ends.
`IrPipeline`: every process that can take a step of its own does so in the end; a
binary that serves has none. `AsmSpec` and `GenSpec` have none: that loops over
finite lists end is not checked. No handler is assumed to return.
Nothing is assumed of consumers, of user streams, of requests or of the
network.

## What was found

Each has a run that shows it:

* `ws_leak`: the documents allow an id to be reused after `error`; the server's
  map then drops the handle of a running task, and the disconnect no longer
  aborts it.
* `sse_leak`: an item refused by the output schema ends the loop and leaves the
  response and the server's stream open.
* `assembly_load`: type schemas are emitted as `const` initialisers, a type before
  the types of its fields, so the schema of a type with a field of a derived type
  reads a constant before it is set: importing `api.gen.ts` throws. Under Zod a
  check that the schema of the field's type has no method for throws too: a bound on
  a 64 bit integer, a boolean or a derived type (`IsSound`).
* `call_ambiguous`: a procedure that returns `StandardError::NotFound` runs to its end,
  and its caller is given the code by which the router says that there is no such
  procedure, which error-codes.md:57 reserves for that. The compile error for a code
  that is taken, of error-codes.md:104, does not exist.
* `wire_dropped`: `#[taut(rename = "z", min = 2)]` leaves the server without the
  bound. `consume_foreign` of the Validate derive swallows the rest of the
  attribute; the IR and the client's schema keep the bound.

Two more show in a run that passes:

* mcp.md:101-102 has a recursive type give one `$defs` entry that references itself.
  The descriptor of a procedure with one overflows the stack, so there is never an IR
  to make a manifest of. `assembly_all` has such a type, and `OnlyRecursionAborts`
  says that no other overflows.
* The timeout of a call is cleared with the headers (`FetchResolves`), so one whose
  body stalls is pending for ever, though index.ts:110 calls it the timeout of the
  request. `SettlesUnlessStalled` of `call_all` has to except that wait (`Stalled`).

Visible in the models, without a property that fails:

* `return()` during a pending `next()` through the default transport is queued by
  the async generator: it aborts the fetch only when that `next()` has settled
  (`SseStream`, `lazy /\ hasty`; sse.ts:65 promises the abort). `ReturnEnds` is
  stated for the set-ups without it.
* `--from-binary` takes an IR file that an earlier run has left for the binary's
  own, when the binary exits with 0 and writes none; a `check` may pass on it
  (`Loads`). `DumpedIrIsFresh` is stated for binaries that dump.
* ws.rs:24 has every subscription end with `End`; a stream that panics takes its
  task with it (`TaskPanics`), and the client never gets one.
* The version of a baseline is never compared (`Compares`), and `inspect` shows
  an IR of any version (`Accepts`).
* wire-format.md:158 calls an `error` frame terminal; `TaskSends` goes on after
  it, up to the End, and a client of `ws_leak` is handed frames of two
  subscriptions under one id.
* error-codes.md:45 documents `transport_error` as an error before the request
  reaches the server; `TimerFires` settles with it while the procedure runs.
* error-codes.md:49 documents an input of the wrong type as `validation_error`;
  `DecodeRefuses` answers `decode_error`.
* error-codes.md:21 makes `code` the discriminant whatever the status; `Verdict`
  loses the code of an error whose status is a success status.

Where the readings of a type part, each excluded by name in the conditions of
`Wire`'s properties (`PlainType`, `PlainChecks` and `PlainPaths` of `Readings`;
`PlainPrimitive`, `PlainField` and `OrdinaryLeaf` of `Leaves`). Some of them the
proofs brought up, since no value of the instance had shown them:

* Names: the IR has `#[taut(rename)]` of a field and the identifier of a variant,
  the wire has serde's names (type-mapping.md:148 has `taut(rename)` rename on the
  wire). The tag is `#[taut(tag)]` in the one and `#[serde(tag)]` in the other.
* A tuple variant of one element is `[x]` in the generated type and `x` to serde;
  no representation of serde fits both tuple and struct variants; a map whose
  keys are not strings is an array of pairs in the one and an object in the other.
* `()` inside a type is `void`, which `JSON.stringify` leaves out; an option of an
  option loses its inner type in the manifest (mcp.rs:216-227, where the comment
  "Re-insert what we took out" is not what is done).
* `optional` and `undefined` are in the generated type only: the schema asks for
  the field, and serde takes its absence only for an `Option`. Without a validator
  a field that is `undefined` and no `Option` is left out by `JSON.stringify` and
  answered with `decode_error`.
* 64 bit integers: natively a value above 2^53 is rounded on both ways; as strings
  they are refused by serde, which sends and expects numbers. A float that is NaN
  is written as `null`, which the schema refuses. In the payload of an error, and
  in a result without a validator, a wide integer reaches the caller as a number
  where the generated type says `bigint` (`HasWide`).
* Constraints: of a repeated one the server checks the last, the client all;
  `email` and `url` are judged by different code; a length counts characters on
  the server and UTF-16 units on the client; the client checks types inside
  fields, the server does not (validate.rs:17-22 mentions a `nested` check that
  no derive emits); the elements of tuple structs, tuple variants and arrays are
  never checked (`Unchecked`), by the client's schema they are; an array, a `Uuid`, a tuple
  of more than four and a map other than `HashMap` have no `Validate` (`Validates`), so
  none can be an input; a number sent for an `f32` is narrowed before the server
  compares it, so one that the client takes may fail by a rounding; a bound on a
  bool is compared as a number by the server, and the libraries have no such check; the manifest has
  no constraints at all.
* Paths of issues have keys, indices and wire names on the client; the server
  leaves out the keys of maps and the indices of tuples and has identifiers.
* The payload of an error is the whole serialised enum, its code included.

Smaller ones: `#[rpc(method = "GET")]` is accepted and has no effect (`KindOf`);
two types of one name give an IR with the first only (`AddDef`), so a client that is
written for the second has the wrong type (`IrIsExact` says which is kept);
a bound on a 64 bit integer does not compile with
`Validate` (`ChecksCompile`); `StandardError` has no `TautType`, so a procedure
cannot return it as it is, whatever errors.md:128 says.

## Proofs

Checked by TLAPS for every value of the constants. Every invariant and every
refinement that a passing run checks has a theorem. Assumed of the constants:
`ConstantsAssumption` of `WsSocket`, `SetupAssumption` of `SseStream`,
`PipelineAssumption` of `IrPipeline`, `AsmAssumption` and `DepthAssumption` of
`RouterAssemblyInv`, `TypeAssumption` of `GeneratedModule`, `RequestsAssumption`,
`UserErrorsAssumption` and `LayerRepliesAssumption` of `UnaryCall` (types only), `LeavesAssumption`,
`ReadingsAssumption` and `WireAssumption` of the modules they are named after.
TLC evaluates each on its instance.

*WsSocket.* `TypeCorrect`, and for a client with `ReuseAfter = {"ended"}` the
invariants of the runs: `NoCrossTalk`, `LosslessInOrder`, `NothingAfterEnd`,
`DisconnectAborts`, `AbortIsRequested`, and `ImplementsSubscription`. None of
them is inductive. The invariant that is, `IInv` in `WsSocketInv`, turns on one
fact: code acts for a subscription, and frames of it are under way, only while it
is the *current* holder of its id (`TaskInv`, `QueueInv`). That holds because the
client lets go of an id only when it takes the End off the queue, and because
the End is the last frame and is sent when nothing drives the subscription any
more. `OrderInv` says that the frames in the queue are exactly those between
`received` and `sent`; `InboxInv` and `UnsubInv` do the same for the requests
the reader has not seen, so that an unsubscribe meets either its own
subscription or an id whose next Subscribe is still behind it; `ActiveInv` says
that the map holds the handle of every task that is not aborted, which is where
`DisconnectAborts` comes from. Each action is one lemma.

*SseStream.* `TypeCorrect`, `CompletionIsWhole`, `ReturnReleases` and
`ImplementsSubscription`, from `SseStreamInv`: `GenInv` ties the generator's
position to the promises around it, `WholeInv` says that while the response is
not cut it holds exactly what has not been handed over.

*UnaryCall.* `TypeCorrect`, `RefusedCallsNeverRun`, `ResultsAreAnswers`,
`TimersGuardFetches` and `CallsKeepTheContract`, for any calls, whatever codes and
statuses procedures and middleware use. `Inv` relates the places of client, exchange
and server: nothing reaches the server that was not sent (`WireInv`), a response is
one of those its origin can give (`AnswerInv`), and a result was never sent, or is what
that response reads as, or says nothing (`ResultInv`). A result that no `BodyReplies`
can give then finds the server `refused` or nothing sent, one that only they can
give finds it `returned`, and both are for good. The proof is per call: a step of
another call leaves everything `CallInv` reads alone (`OthersSame`).

*IrPipeline.* `TypeCorrect`, `DumpedIrIsFresh`, `PassMeansNoDrift` and
`OutputsAreAccepted`, from `PipelineAssumption`. The core of `Inv` is in
`ChildInv`: from the moment a child has truncated the IR file, whatever can be
read from it was written since its command started, because every later write
is by somebody that the command has seen (`since`). `CleanMeansEqual` proves of
the diff that it finds every difference.

*RouterAssembly.* `AsmTypeCorrect`, `IrExact`, `OnlyReservedPanic`, `LayersApply`
and `ClientMatches`, from `AsmAssumption` (what rustc has checked: the types that
occur are there), for any type graph, any functions, any layers and any depth of
the stack; `OnlyRecursion`, from `DepthAssumption` too. The core of `AsmInv` is `DraftInv`: the children of what has been
visited have been visited or are on the stack, and everything on it can be reached
from the signature. When the stack is empty the visited set is closed, hence,
`Reach` being the least closed set, exactly the types the function mentions.
`IrExact` says that the IR has a definition for each name they go by, and that it is
of a type that the first procedure to mention the name mentions: exact when names
differ, the first of a name when they do not (`MergeAdds`).
`ExportInv` carries that through the merge, `MountInv` says which
endpoints there are and that each has the layers applied so far.

`OnlyRecursion` says that a stack overflow is always a type's that contains itself,
and that no procedure that mentions such a type is ever registered. It is about a
program whose types are finitely many and fewer than the frames of the stack
(`DepthAssumption`): with fewer frames a deep enough nesting overflows without
any recursion. `StackInv` gives the stack its meaning without a history variable:
there are a *path*, one type for each frame but the last, in which every type is
reached from the parts of those below it (`NestInv`), and a set *done* of types
that do not contain themselves and whose parts are all done; each part of a
frame's type is done, still to be called, or the call above it (`FrameInv`). A
call lengthens the path (`CallNests`, `CallKeepsFrames`); a return moves its top to
*done* (`ReturnKeepsCalls`), since a type all of whose parts are done cannot reach
itself. When a frame is missing, the path with the new call is longer than there
are types, so by the pigeonhole principle one occurs twice, and the upper
occurrence is reached from the parts of the lower one (`OverflowIsRecursion`).
When the stack is empty the whole signature is done (`FinishedIsFlat`).

*GeneratedModule.* `RouterHolds` (all of the above for `GenSpec`, the specification
the run checks: a step of a command is no step of the router), `GenTypeCorrect`,
`LoadIsDecided`, `InOrderLoads` and `RefsResolve`, from `TypeAssumption` (a map type has
two arguments, an option and a newtype one, and the checks of a type are of its
fields). `TypesDecideTheLoad` and `ManifestIsClosed` rest on what a dumped IR is known
to have (`DumpIsComplete`, from `IrExact`'s invariant): the name of every derived type
that its procedures mention, and definitions of these types only.

For the engine, `EngineInv` says that the constants which have a value are those of
the statements so far, and `MethodsInv` which methods they have: those of `Carriers`,
the least set of names with the schemas that have the method themselves and the
newtypes of these. It is defined without the engine, on the IR alone, and is what the
engine computes only if everything so far was sound: a newtype above the schema it
stands for would have thrown. So a statement throws just when its type is not
sound (`IsSound`: what it reads is above it, and what its checks call is there). Schemas
of procedures and their map come after the types and read nothing that is not above
them (`ProcedureStatementsAre`): they never fail. That is `TypesDecideTheLoad`.
`InOrderLoads` turns it round: a program whose IR is TypeScript once written and has
sound types only is neither refused by `gen` nor does its import fail, under any
validator. Sorting the types in `write_schemas` would mend what `assembly_load` shows;
the checks would still have to suit their fields.

For the manifest, `TodoInv` says that the names the tool's input is written with,
and those that each name found is defined with, are found or are the name of a
type on the stack of the walk, or of a part of one (`NamesInIs`). When the stack is
empty all of them are found, and since each is the name of a reachable type, none
is dropped from `$defs`.

*Leaves.* Of every field, whatever its attributes: what the server checks is in
the IR (`ChecksAreDeclared`), and what is in the IR the server checks, but for what
comes after a foreign key with a value in one attribute (`DeclaredIsChecked`: that
is the whole extent of the disagreement `wire_dropped` shows); where the derive of
the IR expands, that of `Validate` does (`TypeImpliesValidate`); over primitives
the client is never laxer than the server's bounds and lengths (`ClientIsNoLaxer`),
and on plain fields both judge alike and name the same fields (`PlainFieldsAgree`,
`PathsAgree`). For an `f32` the last two are about the numbers that an `f32` has
(`AsSent`); the first is about every number, when the bounds are exact in an `f32`
(`BoundsExact`) and rounding keeps the order of numbers (`NarrowsInOrder`): with
`max = 0.1` the client takes 0.1, and the server, whose `f32` next to it is larger,
refuses it. Of every primitive: its schema returns its type (`SchemaKeepsType`),
and its values arrive (`PrimitiveInputsArrive`, `PrimitiveOutputsArrive`,
`AgentPrimitivesArrive`).

*Wire.* `ValuesArrive` and `ChecksMeet` state the two properties of `wire_all` for
every set of procedures, every `Depth`, all ranges of integers, all strings and
all values, not a sample of them. Their hypothesis is `Unfolds`. It is a
hypothesis of the theorems and no assumption in `Readings`, because TLC cannot
evaluate its quantifiers over everything there is; it takes nothing for granted, as
constants that satisfy it exist, by recursion on the rank of the argument: every
step looks at parts only (a part of what has none may be taken as any value
without parts). `MCWire` is such constants, on the values of the instance.

The invariant (`IInv` of `WireInv`, theorem `Invariance`) says at each phase what
the value at hand is, in terms of the given one: parsed by the schema, written as
JSON, decoded, or on its way back. Neither property is inductive without it, for
they speak of the given value and of the outcome only. Each action is one lemma.

The rest is about the readings. What is to be shown of a type is a claim on two
of its views: that what the schema returns is of the generated type (`Sound`) and
stays ordinary (`Tame`), that serde takes what the client sends (`Enters`), that
one view admits no more than another (`Within`), that what serde writes comes back
as it was (`Returns`, `Restores`). Each claim on a view is first proved for every
form of view from the claims on its parts: for objects by their keys
(`ObjectClaims`), for unions by the tags that keep their members apart. The forms of
Rust types then follow from their renderings, and `TypeInduction` carries each
claim to all types. It is an induction on nesting that the provers can do: the set
of the depths up to which all types are as claimed has 0 in it and with each
number the next, hence all (`SetInduction`); no theorem with an operator as its
parameter is used.

`ChecksMeet` adds three claims: a schema that has no constraints in it reports
nothing (`Clean`), an ordinary value of the generated type passes the schema just
when the server, once it has decoded what it is sent, finds no errors in it
(`Agrees`), and the paths of both are the same (`Named`). A field is a case of the
lemmas of `Leaves`; what is below a field, and in the elements of arrays and
tuple structs and variants, is `Unconstrained`, so that both sides find nothing in
it (`OpenAgrees`). The variant the client's schema judges is the one the server
finds by its tag (`VariantAgrees`, `EnumAgrees`).

Only model-checked are the liveness properties: `UnsubscribeEnds`,
`DisconnectReleases` and `EndArrives` (WsSocket), `ReturnEnds`, `NextSettles` and
`ReleasedUnlessRefused` (SseStream), `SettlesUnlessStalled` and `AbandonedStops` (UnaryCall),
`CommandsEnd` (IrPipeline). They rest on fairness, hence on ENABLED,
which the provers do not have. That a solution of `Unfolds` exists is argued above
and not proved: it needs a recursion over data.

## Not modelled

* The layout of generated code: comments, indentation, the mangling of names that
  are no identifiers (two names of procedures that are not ASCII may collide).
* The tables of `inspect`, argument parsing and the wording of messages: pure
  output and input. How `inspect` comes by its IR is in `IrPipeline`.
* What user code does: the bodies of procedures, `custom` predicates, handwritten
  `TautType` impls, clients that put their own schemas together.
* How bytes become messages: HTTP, WebSocket framing, the splitting of an SSE body
  into lines. Each is taken to deliver whole messages or none.
* Examples, benches and docs: uses of the library; the docs are where the claims
  quoted above are from.

A second subscription on one client (which would find a rejected import of
`sse.js`), and a client that keeps only part of `procedureSchemas`, would be the
next things to add.
