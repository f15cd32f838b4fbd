# rust-tcpao-proxy in TLA+

The proxy carries plain TCP over a TCP-AO protected hop:

    plain client -> [initiator] == TCP-AO wire ==> [terminator] -> plain backend

One binary plays either role (`--mode`). Each accepted connection gets a tokio
task that selects a key, secures or verifies the wire socket, opens the second
connection and runs `forward::pump` between the two. This directory models
those parts, checks them with TLC and proves their safety with TLAPS.

## Inventory

| Part | State | Operations | Talks to | What is hard | What makes it correct |
|---|---|---|---|---|---|
| `forward::pump` (src/forward.rs) | two buffers, two counters, one sleep per turn of the loop | read, write_all, shutdown, return | both sockets, the timer | either side's chunk, partial write, FIN, reset and the sleep in any order | both streams intact; end of stream only after the data; exact counts; idle only when idle; it returns, and both ends learn it |
| terminator (src/mode_terminator.rs) | listener, one task per session | start-up, accept, handle_connection | kernel AO state, `policy`, pump | failures at every step of start-up and of a session; descriptors shared by all sessions; one failing accept ends them all | never listens half configured; backend only for authenticated sessions; the loop survives its sessions |
| initiator (src/mode_initiator.rs) | listener, one task per connection | start-up, accept, handle_connection | key files, remote terminator, pump | keys change between and during connections, on either side | no segment before the key and the requirement are set; right entry; fresh key |
| AO sockets (src/tcpao/linux.rs) | keys and the ao_required flag of a socket | configure_listener, apply_outbound_policy, ensure_inbound_session_has_ao | `setsockopt`, `getsockopt` | one of several keys fails; ENOENT on accepted sockets | all keys or no listener |
| selection (src/tcpao/policy.rs) | none | select_policy | called by both modes | a port in one entry and not in another | an entry for that peer; exact port first; ambiguity is refused |
| configuration (src/config.rs) | read once; key files read at use | load, validate, KeySource | both modes | duplicate names and peers, bad sources | only valid lists get to a socket |
| main (cmd/tcpao-proxy/main.rs) | none | run, exit(1) | modes | any error of run() ends every session, at whatever await it is | nothing outlives it, nothing is done twice; the peer proxy is not misled |
| keepalive options (both modes, GlobalConfig) | none | apply_keepalive, set_sockopt_int | each new socket | unsigned values, validated by nothing, cast to `i32` | a value that fits 32 bits is used as it was given, or the connection fails |
| a session across both proxies | two tasks, the wire between them | connect, accept, two pumps | client, backend, the network | either half fails, falls idle, is refused or dies with its process while bytes are on the wire | both streams intact end to end; bounded; both halves end; their reports do not blame each other |
| entrypoints (deploy/entrypoint/*.sh) | two child processes, the trap | render, start, wait -n, shutdown | proxy, application, container runtime | signals and exits in any order, also inside the handler | no process left behind, an honest status, it ends |
| metrics, error type, scripts, lab | | | | nothing reads the metrics; scripts only drive the containers | see "Not modelled" |

There is no shared memory between tasks: they meet in the kernel (descriptors,
backlog), in the key files, and in their end: `main` exits when `run()` returns. The two
proxies of a session share only the wire.

## Modules

| Module | Models | State and actions |
|---|---|---|
| `Relay` | what two endpoints are promised, whatever is between them; with what follows of it (`RelayInv`, `Irrevocable`) | bytes written, bytes read, how a stream ended |
| `Pump` | one run of `pump`, with its endpoints and socket queues | `ReadSome`, `ReadEof`, `ReadErr`, `IdleFire`, `WriteSome` (one write of `write_all`, with the counter and the new sleep after the last one), `WriteErr`; endpoints `Send`, `Finish`, `Abort`, `Receive`, `SeeEof`; kernel `LateReset`; `Tick`; `Exit`, the end of the process around it |
| `AoPolicy` | `validate`, `select_policy`, when a key loads and can be installed, what it covers | operators shared by the two modes; `Answers` says over the set of entries what `select_policy` computes from the list |
| `Keepalive` | `apply_keepalive`: the cast to `i32` and the kernel's limits | operators shared by the two modes |
| `Gate` | what either mode is to those who connect: sessions are taken in order, admitted at most once and never after a refusal, and end with the process; with what follows of it (`GateInv`, `InOrder`, `OnlyForward`) | `Open`, `Arrive`, `Take`, `Admit`, `Refuse`, `Finish`, `Forget`, `Stop` |
| `Terminator` | start-up, accept loop, `handle_connection` | `Validate` to `Listen`; `Accept`, `AcceptError`; `SelectPolicyFor`, `VerifyInbound`, `OpenBackend`, `Connected`, `PumpReturns`; environment `Handshake`, `Forget` |
| `Initiator` | the same for the initiator | `SelectPolicyFor`, `OpenWire`; `SkipPolicy` or `ReadKeyEnv`, `OpenKeyFile`, `ReadKeyFile`, `InstallKey`, `RequireAo`; `Connect`, `Connected`, `PumpReturns`; environment `ClientConnects`, `RotateKey`, `RemoteRestarts`, `Forget` |
| `Chain` | one session through both proxies: two instances of `Pump` and the wire | `Dial`, `Join` and their failures (all that precedes a pump), `InitiatorStep`, `TerminatorStep`; `InitiatorExit`, `TerminatorExit`; wire `CarryUp`, `CarryDown`, `FinUp`, `FinDown`, resets; client and backend |
| `Entrypoint` | deploy/entrypoint/terminator.sh and initiator.sh | one action per command of the script (`Prepare` to `Leave`), `Handle` for the trap; environment `Signal`, `End` |
| `MCPump`, `MCTerminator`, `MCInitiator`, `MCChain`, `MCEntrypoint` | instances for TLC | |
| `RelayProofs`, `PumpProofs`, `AoPolicyProofs`, `GateProofs`, `TerminatorProofs`, `InitiatorProofs`, `ChainProofs`, `EntrypointProofs` | theorems | |

Correspondence with the code:

- A step of a task is what runs between two awaits, or up to a system call that
  another task can interfere with (a descriptor, a key file). `next`, `installed`
  and `required` are the progress of `configure_listener`; `conn[c].stage` is the
  step at which a task stands; `fds` counts the descriptors it and the listener own,
  returned when the task's locals drop. `?` is `Fail`, a failing `run()` is `Exit`.
- The initiator reads its key while it holds both sockets. `fs::read` takes a third
  descriptor and gives it back (`OpenKeyFile`, `ReadKeyFile`); `loaded` is what the open
  file holds and then the key read. An operator may replace the file meanwhile, which the
  open one does not see, or write into it, which it does.
- `accept()` takes a descriptor before it looks at the backlog, so `AcceptError` may
  come without a client that waits, whenever no descriptor is left.
- `Exit` of a pump, and `InitiatorExit` and `TerminatorExit` of `Chain`, are `process::exit`
  or a signal while the pump is at an await: the kernel closes both sockets as if the pump
  had returned, and there is no report (`result` is "Killed").
- A byte is its position in its endpoint's stream. `inq`, `outq`, `tail`, `shut` and
  `dead` stand for the two TCP connections of a pump: bytes in flight each way, what
  follows them, and whether the connection is gone.
- `LateReset` and the choice in `CloseSockets` are Linux's close of a socket with
  unread bytes: a reset instead of, or after, the FIN.
- A handshake completes in the kernel (`Handshake`), before the process sees the
  session: signed with an installed key that covers the peer, or unsigned if nothing
  asks for AO. `AoInfo` is what `getsockopt(TCP_AO_INFO)` may then answer.
- In `Chain` the wire has two ends, the "destination" of the initiator's pump and the
  "source" of the terminator's. What the kernel carries is a receive at one end and a
  send at the other in one step, so that an action of the wire is made of actions of
  the two pumps' endpoints. `stage` says how far the two `handle_connection`s are.
- In `Entrypoint` a trapped signal interrupts a `wait`, and `Handle` runs `shutdown`
  from its start, also when the script is in `shutdown` already. Both scripts are one
  model: they differ in what they render.
- The test overrides (`bypass`, `best_effort`) are parts of the configuration; a
  release build has both FALSE.
- Operators whose comment calls them a slip are deliberate bugs. They are not part
  of any specification; they show that a property is not vacuous.

Simplifications: peers are addresses of the listener's own family (IPv4-mapped
addresses of a dual-stack listener are left out); the table of `mac_alg` names,
`rnextkeyid` and the struct layouts are part of "the kernel may refuse a key";
`apply_keepalive` is called two more times after `connect()`, with values the
kernel has taken once, and is not repeated. A configuration that does not load is
one outcome, whatever is wrong with it. Where the kernel may refuse a call, the
error branch is always possible. Within a mode a pump is one step, which may never be
taken; `Pump` says when and how it ends.

## Runs

| Run | Question | Bounds, and why they do |
|---|---|---|
| `pump_safety` | are both streams, the report and the idle timer right, and is a pump a `Relay`? | 3 bytes a side, buffers of 2, queues of 2 and 1: chunks of both sizes, writes split over a full queue, a FIN or reset before, in and after a chunk |
| `pump_window` | is what the proxy holds bounded? | 5 bytes a side against a window of 3 |
| `pump_live` | does a pump end, and do both endpoints learn it? | 2 bytes a side |
| `terminator_safety` | start-up and sessions, under every failure; is the terminator a `Gate`? | 3 sessions, 6 descriptors for the 7 sockets they can want; 31 configurations: every kind of list `validate`, `configure_listener` and `select_policy` tell apart, one also with a key that does not load, one with a key too long, and with each test override; keepalive values unset, in range, at the limit, above it, negative once cast and beyond the width, one at a time since each is cast and set by a call of its own. An `i32` has 16 values, of which the kernel takes 4 or 2: the case of 2^32 that occurs is that a value wraps to a small, a large or a negative one, and 16 has them all |
| `terminator_load` | does the loop outlive its sessions, and answer each? | 2 slots reused without bound, 6 descriptors; each pump may end or go on for ever |
| `terminator_wildcard` | finding 1 (violation) | as above |
| `initiator_safety` | signing, entry, key, while keys change; is the initiator a `Gate`? | 2 connections, 4 descriptors for the 7 they can want, one change of a key file or of the remote's keys, at any moment, a key file that is gone or empty included; the keepalive cases that differ |
| `initiator_load` | as `terminator_load` | 2 slots, 8 descriptors; one change; keys too long included |
| `initiator_mismatch` | finding 2 (violation) | one connection, no change |
| `chain` | are the streams intact end to end, does nothing pass a terminator that refuses, do two reports never blame each other, and are two pumps and a wire a `Relay`? | 1 byte each way, buffers and queues of 1, no idle timeouts: each place between client and backend holds a byte or not, in every combination with the ends, resets, refusals and process exits of both halves. Longer streams are the business of `pump_safety`; longer streams and timeouts that of the proofs, which cover every size |
| `chain_ends` | does the end of one half end the other, and do both endpoints learn it? | 1 byte from the client, none from the backend, both timers on and either process may exit: every way for a half to end meets a byte at every place between them. The way back is the same code |
| `entrypoint` | signals and exits in any order | two exit codes, with and without an application, three signals: one, one inside the handler and one inside that |

Runs switch deadlock detection off because the systems end: a pump returns, a
process exits, and bounded endpoints and changes run out. Bounds: `MaxBytes` on what
an endpoint writes (one for each side), `MaxChanges` on changes of keys, `MaxSignals` on signals, `Conns` on simultaneous
sessions, `FdLimit` on descriptors, and both clocks stop at `IdleSecs`.

### Fairness

- `WF(PumpStep)`, `WF(IdleFire)`, `WF(Tick)`: tokio polls a task that was woken and
  fires its timers; time passes. `IdleFire` has its own condition because `select!`
  polls its branches in random order, so a completed sleep is not passed over for
  ever.
- `WF(SeeEof)`, `WF(LateReset)`: the kernel delivers what it holds.
- `FairReaders`: endpoints read what reaches them. It is an assumption about them,
  not about the proxy, and is stated apart. Without it `EndStopsPump` and
  `IdleStopsPump` fail: `write_all` has no time limit and the idle sleep does not run
  while it waits.
- `WF(Startup)`, `WF(Accept \/ AcceptError)` while a client waits, `WF(SetUp(c))`: the
  runtime polls `run()` and each task up to its pump, where `connect()` ends by the
  kernel's own limit on retries. Nothing is assumed of pumps: a pump may never return (its
  endpoints go on writing, or stay silent with `idle_timeout_secs = 0`, or `write_all`
  waits for a reader). `Answered` therefore ends at the pump: each client comes to be
  forwarded, or to its end, whatever the pumps of others do.
- `Chain`, in `chain_ends`: each task gets to its pump or fails, and its pump steps; `WF(Carry)`: the
  kernels carry what they hold over the wire, and `Notice`: the loss of one end is
  noticed at the other, by the reset that answers its next segment or by keepalive.
  With `tcp_keepalive` off (the default) and nothing to send the code gives no such
  guarantee, and with `idle_timeout_secs = 0` neither: the half that is left waits
  for ever. Client and backend read, as in `FairReaders`. No fairness of the clocks is
  assumed, and no process has to exit: `EndTogether` starts from something that has ended.
- `Entrypoint`: `WF(Script)`: bash runs. `WF(Obey(p))`: a process that was sent TERM
  ends. The proxy has no handler for it; of the application this is an assumption,
  and without it `shutdown` waits until the runtime kills the container.

### Findings

1. An entry for `0.0.0.0` or `::` is installed with prefix 0, and a unit test of
   `prefix_len_for_ip` calls that an allowed wildcard; `select_policy` compares
   addresses for equality, so each session such a key authenticates is refused with
   `NoPolicyForPeer`.
2. docs/deployment-runbook.md, section 7, expects an explicit AO-related error in the
   logs when the keys differ. Both sides install their keys without error and the
   kernel drops the segments, so the initiator's `connect()` fails as `ProxyError::Io`
   and the terminator sees nothing.

## Theorems

All are checked by tlapm to the last leaf, for every value of the constants that
satisfies the named assumptions (sizes are naturals, `Conns` is finite, each
configuration is well typed, keys are not bad keys, a port is not `NoPort`).

| Module | Theorems | Argument |
|---|---|---|
| `RelayProofs` | `RelayInvariant`, `RelayIrrevocable` | `RelayInv` |
| `PumpProofs` | `PumpTypeOK`, `PumpInvariant`, `PumpRelayIntegrity`, `PumpEofTruthful`, `PumpStatsExact`, `PumpIdleIsQuiet`, `PumpBoundedInFlight`, `PumpImplementsRelay`; through it `PumpKeepsPromise`, `PumpIrrevocable` | `PumpInv`, `BoundInv` |
| `AoPolicyProofs` | `SelectedMeaning`, `SelectOrderFree`; lemmas on `select_policy` and `apply_keepalive`; `CountStep` | definitions, `ValidPolicies`, and a least element of a set of naturals |
| `GateProofs` | `GateInvariant`, `GateInOrder`, `GateOnlyForward` | `GateInv` |
| `TerminatorProofs` | `TerminatorInvariant`, `TerminatorTypeOK`, `TerminatorListensGuarded`, `TerminatorFailClosed`, `TerminatorAttributed`, `TerminatorRightEntry`, `TerminatorKeepaliveAsked`, `TerminatorNeverFalls`, `TerminatorImplementsGate`; through it `TerminatorForgetsNobody`, `TerminatorServesInOrder`, `TerminatorDecidesOnce` | `TerminatorInv`; `AnswerInv` |
| `InitiatorProofs` | `InitiatorInvariant`, `InitiatorTypeOK`, `InitiatorSignsFirst`, `InitiatorRightEntry`, `InitiatorKeyFresh`, `InitiatorKeepaliveAsked`, `InitiatorNeverFalls`, `InitiatorImplementsGate`; through it `InitiatorForgetsNobody`, `InitiatorServesInOrder`, `InitiatorDecidesOnce` | `InitiatorInv`; `AnswerInv` |
| `ChainProofs` | `ChainInvariant`, `ChainEndToEnd`, `ChainNothingCrosses`, `ChainOneNamesCause`, `ChainBounded`, `ChainImplementsRelay`; through it `ChainKeepsPromise`, `ChainIrrevocable` | `ChainInv` |
| `EntrypointProofs` | `EntryInvariant`, `EntryNothingLeft`, `EntryStatusHonest` | `EntryInv` |

- `PumpInv`. The properties speak of what an endpoint has read and of the report at
  the end; neither is inductive. `StreamInv` adds that the bytes of each side in the
  out-queue, in the chunk and in the in-queue are consecutive pieces of its stream,
  and `CountInv` that the pieces adjoin: `Passed` (the counter and the chunk, less
  what is still in hand) is where the pump stands, also in the middle of a
  `write_all`. `TimerInv` says that a sleep is no older than the last byte read.
- `TerminatorInv`. `SetupInv` says that the keys installed so far are those of the
  entries passed so far; `ConnInv` what a session has behind it at each stage (no
  session before the process listens, so no unsigned one under a guarded listener);
  `FdInv` that every descriptor belongs to the listener or a task; `BacklogInv` that a
  waiting session is in the backlog once. Most steps change one session:
  `OneSession` reduces them to that session and its descriptors, through `CountStep`.
  `NeverFalls` is arithmetic: n slots hold at most two descriptors each and the listener
  one, so with 2n + 2 there is one left for accept() at any moment (`RoomToAccept`).
- `InitiatorInv` has the same shape. Its own part is that the key a store holds for
  the chosen entry is in `seen`, and so is what was read of it; that until `RequireAo` the
  socket has not been used, and after it signs and requires AO (`SignsFirst`). `WiredStep` reduces
  each step after `select_policy` to the record it leaves; `RotateKey`, which changes every
  connection at once, has a proof of its own. `NeverFalls` needs 3n + 2 descriptors: with 2n + 2
  a few tasks that read their key files at once leave none for accept().

- `BoundInv` is `PumpInv` with the window: what an endpoint sent is what was read, what
  the pump has in hand and what is queued, each of them bounded. `PumpImplementsRelay`
  takes each action of `Pump` to one of `Relay`; what only pump sees is a stutter.
- `Relay`. What follows of the promise itself is proved once, in `RelayProofs`: an endpoint
  holds a prefix of the other's stream, all of it where it was told of an end that is called
  complete, and nothing it read or was told is ever taken back. Both refinements carry it over
  (`IsRelay`), so it holds of one pump and of two with a wire between them, whatever the sizes.
- `ChainInv` asks `BoundInv` of both pumps. It survives because every step of the chain
  is a step or a stutter of each pump, the wire's too. `WireInv` ties them: what one end
  of the wire read is what the other was sent, so the pieces of the two streams
  compose (`Composed`), and an orderly end reported by both halves means that nothing
  is left between them (`Complete`). One pump's "complete" is not enough, since a half that
  gave up closes the wire with an orderly FIN.
- `NothingCrosses`: before it is joined the terminator's pump has taken no step, so its
  bytes to either side are none (`HeldBack`), and what the client reads came over the wire
  (`WireInv`). `OneNamesCause`: a half reports the end of the wire's stream only when
  the other half is over, by a report or by the exit of its process (`WireEndReported`), and no
  step makes two reports or changes one (`ResultStep`); so the earlier of two reports does not
  blame the wire. Where a process exited there is one report at most, and the cause is in none.
- `Gate`. What it sees of a session depends on its stage and on whether the other side was
  contacted, so a step of a task is one of `Admit`, `Refuse`, `Finish` or nothing
  (`TaskShape`); `BacklogInv` and that waiting sessions are not contacted give `Take`.
  What follows of a gate is proved once, in `GateProofs`: `NoneForgotten` ties the queue to
  the sessions that wait, which is what makes `Take` the oldest of them. The refinement carries
  it over to both modes (`IsGate`): who has connected is accepted in its turn, the other side
  is contacted at most once for it and never after it was given up.
- `SelectedMeaning`: in a list that passes `validate` no two entries have the same address and
  port, so the first match is the only match, and what `select_policy` searches for step by step
  is what `Answers` says at once. Hence the order of the entries does not matter
  (`SelectOrderFree`), which is not so for the lists `validate` refuses.
- `RightEntry` puts that to work in both modes. `AnswerInv` says that a list in use has passed
  `validate`, since nothing is bound before it has, and that a task ends with `NoPolicyForPeer`
  only where `select_policy` returned none; `SelectedMeaning` says what either answer means.
- The three `TypeOK`s are the first conjuncts of `PumpInv`, `TerminatorInv` and `InitiatorInv`,
  and are checked by the runs as parts of these.
- `KeepaliveAsked`: a cast whose result is positive changes no value below the width
  (`CastExact`), for every width and every limit of the kernel. It says nothing of values
  from the width on: the code takes their low bits, which the kernel may accept.
- `EntryInv`. `ChildInv` says which process may still run at each command of `shutdown`;
  `StatusInv` that before a signal is heard the status carried is that of a process
  that ended before any was told to. Where both processes have ended of themselves it
  allows the status of either: `wait -n` does not tell which of the two was first.

Only model-checked: everything under fairness (`EndStopsPump`, `IdleStopsPump`,
`EndpointsLearn`, `EofDelivers`, `Answered`, `EndTogether`, `OneEndsAll`, `StopEnds`),
which the prover cannot do. Only proved: `ChainBounded`, since a window of two pumps is
out of reach of a run small enough to finish. So are the theorems of `GateProofs` and
`RelayProofs`, which the modes, the pump and the chain take over through refinements that are
checked, and `SelectedMeaning`, which has no state. No module uses recursion.

## Not modelled

- Parsing of TOML, addresses and arguments, the template rendering of the scripts (a yes or
  no in the models); log formats and messages.
- `probe_tcpao_support` (called only by a test), the names of `mac_alg`, `rnextkeyid`
  (its flag is set, the code says that rollover is not implemented), struct layouts.
- Metrics: two counters that nothing in the program updates or reads.
- The validation scripts and the lab topology drive containers from outside.
- Both modes with all their sessions composed over one wire. `Chain` composes one
  session, with whatever can end it: its own steps, and the exit of either process, which
  another session's accept() may cause. When that happens, and what each session needs to
  come so far, is in `Terminator` and `Initiator`, where the other proxy is environment (its keys and
  its restarts too).
- Whether a keepalive value from 2^32 on means what was written: it does not.
- A kill of the container by its runtime, a signal before the trap is set (the
  kernel drops it, and the scripts promise nothing), and processes that `bash -lc`
  leaves behind.
