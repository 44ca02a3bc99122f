# HawkGate in TLA+

HawkGate is a captive-portal gateway. Two eBPF programs on the LAN interface
admit, shape, redirect or drop every packet; `hgctl` changes the pinned maps
they read; the daemon `hawkgated` serves the login page and runs `hgctl`. This
directory holds TLA+ modules of that code, TLC configurations that check them
on small instances, and TLAPS proofs of theorems about them.

## The system

| component | state | operations | speaks to |
|---|---|---|---|
| TC programs, `kernel/hg_tc.bpf.c` | the pinned maps `hg_clients` (MAC → session), `hg_counters` (IP → per-CPU counter and status), `hg_rates`, `hg_mac_ip`, `hg_ip_mac`, `hg_bypass`, `hg_proto`, `hg_walled_garden`, `hg_conntrack`, `hg_portal_cfg` | `hg_tc_ingress` (upload), `hg_tc_egress` (download), each on any number of CPUs at once | all maps, the kernel clock, the IFB device, FQ |
| EDT shaper, `apply_edt_shaping` | the last departure times inside a client's element, under its spin lock | one departure per packet | `hg_rates`, the clock |
| `hgctl`, `kernel/hg_cli.c`, `hg_control.c` | none of its own: one process per command | start, stop, add, del, show, protocol-allow, map-del, bypass-add/del, wg-add/del | the maps, several operations per command, no lock around them |
| reader, `kernel/hg_reader.c` | none | `hg_read_all`, `hg_read_one` | `hg_clients`, `hg_counters`, the bindings |
| `hawkgated` server, `http/*` | `connections`, one parser and one write buffer each, the epoll set | accept, readable, writable, remove | sockets, router |
| portal and login, `portal/*` | none | `handle_portal`, `handle_capport`, `handle_success`, `handle_auth` | reader; `hgctl add` and `map-del` through `fork` and `waitpid` |
| main and signals, `main.cpp`, `bpf/hg_bpf_ctrl.cpp` | `running`, `g_server`, `g_bpf_ctrl` | start, stop, `signal_handler` | `hgctl start` and `stop`, systemd |
| configuration, logging, `configure.sh` | `g_config` | `load_config` | – |

What is hard in it:

* **Interleaving.** The programs run on every CPU and share the maps with any
  number of `hgctl` processes. No command is atomic, nothing locks a whole
  client, and a pointer from a lookup stays usable after the element is gone.
* **Identity.** Sessions are keyed by MAC, counters by IP, bindings by either;
  addresses change hands, and DHCP requests come from 0.0.0.0.
* **Time.** Expiry is noticed only by an upload; the shaper reads the clock
  before its lock; the reader uses another clock.
* **Failure half-way.** `add` inserts into three maps that may be full.
* **The daemon.** Edge-triggered epoll, blocking waits for `hgctl`, signals that
  arrive at any instruction.

What makes each component correct: the datapath forwards only under a session
that was valid when the packet came, serves every session, and binds addresses to
those who use them; the shaper keeps rate, order and horizon; `hgctl` leaves
sessions, counters and profiles consistent, each client with its own; the login
authenticates the device that logged in; the NAT returns answers from the
address the client had asked; the server answers every complete request and is
not stuck by a silent or failing connection; the life cycle leaves no programs
attached without a portal. PROJECT.json lists the hazards, each at its line.

## The modules

| module | models | role |
|---|---|---|
| `HgMaps` | the maps, sessions, `bpf_map_update_elem` at capacity, expiry | extended by the next two |
| `HgDatapath` | `hg_tc_ingress`, `hg_tc_egress`, one action per map operation, on each CPU | component |
| `HgCtl` | `hgctl` add, del, map-del, bypass-add/del, one action per map operation, per process | component |
| `HgGateway` | composition with the LAN (leases, DHCP traffic), the daemon's login and operators; the properties | implements `HgAccess` |
| `HgAccess` | what all of that promises about access: orders that give and take it, packets that are judged by it | abstract specification |
| `HgReader` | `hg_read_one`, one action per lookup, and the choice of page, beside the whole of `HgGateway` | composition |
| `HgShow` | `hg_read_all` with its two passes, sort, filter and limit, beside a changing map | component |
| `HgPacer` | what the shaper promises: a line with a busy-until time | abstract specification |
| `HgEdt` | `apply_edt_shaping`, spin lock included, against `hgctl` | implements `HgPacer` |
| `HgConntrack` | the NAT in front of the portal: redirect, source rewriting, LRU, ageing, `map-del` after a login | component |
| `HgPolicy` | the verdicts as functions of maps and packet, the commands and rules that fill the maps | component |
| `HgLifecycle` | `hgctl start` and `stop`, `main`, the signal handler, systemd, failures and crashes | component |
| `HgServer` | the epoll loop, connections and parser, with sockets and clients | component |
| `MC*` | constants for TLC | instances |
| `Hg*Proofs` | theorems for all values of the constants | proofs |

### How state and actions correspond to the code

**Gateway** (`HgMaps`, `HgDatapath`, `HgCtl`, `HgGateway`).

* A hash map is a function into values and `None`. A step is one
  `bpf_map_*` call, which the kernel makes atomic; whatever the code does
  between two calls touches only locals and belongs to the step before or after.
* `cpu[c]` is the program that CPU `c` runs: `pc` names the next map operation
  (`HgDatapath` lists them in the order of the code), `sess` is what the lookup
  of step 5 returned. Session fields that the policy reads never change in
  place, so the copy is as good as the pointer. `ctl[p]` is an `hgctl` process.
* `hg_counters` is per-CPU in the kernel; the model keeps whether the element
  exists and the worst status over the CPUs, which is what `aggregate_percpu`
  computes. Packets and bytes are not counted here (`HgShow` has them).
* The answers of `proto_allowed`, walled garden and portal address are free
  choices in `HgDatapath`. The properties hold or fail whatever these are;
  `HgPolicy` says what they are.
* `lim`, `arr`, `who`, `used`, `start` and `paced` are history: no guard reads
  them, except that `used` keeps an element from being linked twice.
* `addr` is the address a device holds, `heard` the devices of which hawkgated
  has got a packet from that address. A login comes from a device in `heard`.

**Reader** (`HgReader`, `HgShow`). `rd` is one call of `hg_read_one`: `pc` is its
next lookup, `own` and `sess` what it has found; the gateway moves between any
two of them. hawkgated has one thread, so a page request and a login exclude
each other. `HgShow` folds a counter and the session behind it into one element,
since `HgReader` has those lookups, and follows the keys: `NextKey` starts again
when the key at hand is gone, as `bpf_map_get_next_key` does.

**NAT** (`HgConntrack`). A flow is a client and its port; the far port is always
80. Keys hold the bytes the code writes: the kernel's in network order
(`Wire`), those of `map-del` in host order. An insert into the full LRU pushes
out any entry, since the kernel's LRU is only approximate. Ages, not times, are
kept. `conn` is the client's view of a connection, `sock` hawkgated's; `Send`
without a new connection is a retransmission, and what the socket sends at any
moment has the source that `Source` computes.

**Policy** (`HgPolicy`). `Ingress` and `Egress` are the tests of the two programs
in their order. `todo` is what `start_hgctl` still has to install; each rule is
one `hgctl`, which may fail and is then skipped. Addresses have `AddrBits`
bits instead of 32: masks, blocks and the longest-prefix lookup do not depend on
the number.

**Life cycle** (`HgLifecycle`). `hgctl[s].todo` is the list of steps an `hgctl`
has left, spawned by `main` or by the handler; a failing step of start replaces
the list by that of `cleanup_on_failure`. Maps are known by the number of the
start that created them, so that a reused pin shows. `pc` is where `main` is. A
signal before `InstallHandlers` ends the process; later ones run the handler,
which stops `main` wherever it is. A crash, and systemd's kill of what is left of
the service, may come at any step, and so may the death of one `hgctl` alone
(`Kill`, which stands for a failing `fork` or `exec` too): `exec_cmd` reports it, `main`
ignores that of a stop and gives up at that of a start. `broken` is history: where
that has happened to this daemon, and whether `epoll_wait` has failed. It is read by
properties only.

**Server** (`HgServer`). One system call is one step. `ready` is epoll's
ready list, to which an edge adds a socket once; `batch` what the last
`epoll_wait` returned. A request is a sequence of symbols (`RequestHead`): the text
of a line is one, CR and LF one each, so that a read can end wherever the
parser has to wait. `MAX_EVENTS` exceeds the number of sockets.

Next to some definitions stands a mutant of it (`M...`), a variant with a
plausible bug that must break the property PROJECT.json names with it; no
specification uses it.

## What TLC checks

`tlc -config Portal.cfg MCGateway` checks one run, and PROJECT.json pairs each
configuration with its module; `tlapm HgEdtProofs.tla` checks one module of proofs.

Passing runs:

* **expiry** – `TypeOK`, `NoExpiredUpload`, `SessionIsServed`, `ExpiredIsReaped`,
  `ImplementsAccess`: two CPUs, one device, an operator who adds it again and again, and a
  clock from before to after the expiry (`MaxTime` = 2, timeout 1). The mapping to `HgAccess` makes a device's
  access the expiry of its session; counters, profiles and bindings have no image. Each
  command is an order that is open until its `hg_clients` operation and done after it, and
  each program a packet that is held, has seen access once, and is out. Here an upload
  takes away access that was given after it had looked. Shared addresses, logins,
  deletions and downloads, which this run has not, are covered by the proof
  (`AccessRefinement`). `MaxBypass` = 0 stands for an `hg_bypass` that is full of other
  addresses, so that each `bypass-add` fails; in the runs where one succeeds it has room for one.
* **portal** – `SessionIsServed`, `LoginAuthenticatesSender`,
  `BindingFollowsTraffic`, `LoginResolves`: two devices at their home addresses,
  DHCP requests from 0.0.0.0 in between, logins through hawkgated, `map-del` by an
  operator, room for one session and one counter, so that logins fail at
  either insert and roll back.
* **control** – `ActiveCounterHasSession`, `DelLeavesNothing`, `OwnRateLimits`:
  one operator adds and deletes two sending clients by MAC and by IP, again and again,
  with one of two limits each time. One client's ids differ between MAC and IP, so that
  an `add` changes its profile; the other's are the same, so that it overwrites its own.
  There is a profile for every id (`MaxRates`), as in the code.
* **edt** – `TypeOK`, `BacklogBounded`, `RateConforms`, `DeparturesInOrder`,
  `ImplementsPacer`: two CPUs send packets of both directions, the client is
  added twice, profile and client change. Length 2 at rate 1 and a horizon of 2
  give idle, full and overfull lines. `MaxQueue` keeps the download backlog,
  which the code does not bound, finite. `CpuSymmetry` is sound here: both CPUs
  run the same program, and no property names one.
* **reader** – `LoginPageOffered`, `ClientsAreNotAsked`: one device asks for pages while its session expires, is added, deleted and bypassed between the
  lookups.
* **show** – `ListFits`, `ListIsFaithful`, `SummaryAgrees`: three addresses, two
  changes (`MaxChanges`) during a call: one is enough to make the walk start
  again, two to fill what it left.
* **nat** – `TypeOK`, `AnswersComeFromAsked`, `PromptAnswersTranslated`: two
  clients, two ports, three flows with room for two. One tick is the 120 s of
  an entry; `MaxAge` is one past all that is compared.
* **policy** – `PassesExactlyListed`, `RepliesReturn`, `ServicesWork`: every
  packet of three protocols, three ports and eight addresses against every state
  of the maps that the daemon and the operators can make. `dhcp` and `https` are configured, a
  service with a port at either end over UDP and one with a single port over TCP; the proof
  (`ServicesCorrect`) is about all nine names that `translate_l4` knows.
* **life** – `ServingIsEnforced`, `EndIsClean`, `Recovers`, `SignalEndsLoop`: three
  failures, crashes, killed `hgctl` processes or failing `epoll_wait` calls in all
  (`MaxFaults`), so that one can hit the clean-up after another and the start after
  that. `EndIsClean` has two halves, with a mutant each: a daemon that came out of its
  loop (`status` = "success", after a signal or a failing `epoll_wait`), also when the handler's stop
  was killed or ran beside main's, and one whose `hgctl start` failed ("nostart").
* **server** – `ReadsWholeRequests`, `NoLostEdge`, `Answered`, `QueuedIsAccepted`:
  three clients, two descriptors. One request has a body, one more than it
  declares, one is malformed. `Cuts` are the places where streams are cut into
  packets: in the middle of CR LF, before what nobody asked for, and at the end;
  a read takes 5 symbols, so that it cuts elsewhere too. `Leaving` is the client
  that may shut down or reset at any time. A response takes two writes. A write to a
  connection that was reset kills the daemon (`BrokenPipe`) or fails and closes the
  connection (`WriteEnd`); `accept` may fail at any time.

Two devices, CPUs, processes, flows or descriptors are enough for the races:
each is between a pair (packet and packet, packet and command, page and
command), and each confusion of identity between two devices or two addresses.
Deadlock is checked in all runs but *server*, where it is no error: clients that
have sent everything stop, and an idle daemon sleeps.

Violation runs: each checks one property that a comment or the README of
HawkGate states, and the trace is a behaviour of the code. PROJECT.json
"findings" quotes the lines.

* **wronglogin** – the reverse binding of an address is written only when the
  forward one changes, so a device that comes back to an address finds the
  binding of the one that had it meanwhile, and its login authenticates that one.
* **stalecounter** – a session that meets its expiry on a DHCP request marks the
  counter of 0.0.0.0; the one of its own address stays `AUTH_OK` and the device
  gets no login page.

### Conditions under which properties hold

Where a passing run checks a property that some instance refutes, the instance
excludes just the cause, and says so in its first lines. These are the
conditions under which the code keeps its promise, and what happens outside them:

* *Addresses change hands, or a device moves* (`SharedLeases`, `RoamingLeases`): the
  wrong device is authenticated; a session that moves has no counter there and
  is dropped (`SessionIsServed`).
* *Two packets of a new device on two CPUs*: the second finds the forward binding and
  reaches the portal while the first has not yet written the reverse one, so that a
  login may find no binding, and a DHCP request that is overtaken in the same
  way binds the device to 0.0.0.0 again (`LoginResolves`, `BindingFollowsTraffic`;
  *portal* has one CPU). Whom a login authenticates does not depend on it: see
  `LoginCorrect`.
* *`del` after a DHCP request* removes the counter of 0.0.0.0 and leaves the
  real one active (`ActiveCounterHasSession`, `DelLeavesNothing`); `add -m` after one
  gives the session the counter of 0.0.0.0 only (`SessionIsServed`).
* *`add` with both addresses of a device not yet seen, or two new devices on two CPUs with
  room for one binding*: a counter is made that `del` later does not find, since
  `hg_mac_ip` does not lead to it (`DelLeavesNothing`).
* *`map-del` of a session, or an `add` in the middle of an expiry*: the counter stays
  `AUTH_OK`, or is made so again, with no session behind it (`ActiveCounterHasSession`).
* *Two writers on one client*: an add and a del interleave into a session without
  counter, or a counter without session.
* *Rate ids are one byte* of an address or MAC: clients of different subnets with
  the same last octet (`SameOctet`) share a profile. A limit in one direction
  only is written to profile 0, which is that of all clients without limits. A
  re-add under another id leaves the old profile behind; `hg_rates` has an entry
  for every byte, so that they do not crowd out others (`OwnRateLimits`).
* *An add meets the expiry of the same client*: the packet that found the old
  session expired deletes or marks the new one (`DeletesOnlyExpired` does not hold,
  and `HgAccess!Expire` says so; `raced` in `HgReader`). Downloads are not tested for expiry at all
  (`NoExpiredDownload` does not hold).
* *A port is reused while its entry is younger than 120 s, or a client has two
  ports that are each other's byte swap* (`ReuseAfter`, `SwapTargets`): the
  `map-del` after a login builds the key in host order and so leaves the entry it means
  (`LoginForgetsFlow` does not hold) and may delete another's; an entry that
  stays translates answers of the portal as if they came from elsewhere
  only until it is overwritten or 120 s old.
* *Packets to the portal's own address*: decided before the allow-list, so that
  DNS, DHCP renewal or NTP served by the gateway at that address is dropped although
  configured (`GatewayServicesWork` does not hold).
* *A rule for any protocol that leaves a port open* matches nothing: the five lookups
  try the any-protocol rule only with both ports, though `hg_common.h` calls every
  field a wildcard. The any-protocol rule of `EditedRules` names both.
* *Signals at start-up* kill the daemon before its handler is there and leave
  the hooks of a start that was under way (`SignalDetaches` does not hold). One that
  comes between `InstallHandlers` and `EnterRun` detaches everything, and then `run`
  sets `running` again and serves without programs.
* *A killed stop before the start*: `start_hgctl` ignores its result, and `hgctl start`
  then takes what was not removed as it is. Pinned maps with the sessions of the last life
  are used again, and programs of it stay on the hooks beside the new ones
  (`ServingIsEnforced` excepts it, and `EndIsClean` for a start that fails over such
  remains). When the start itself is killed, main gives up without a clean-up, and only the
  next life's stop removes what is there (excepted from `EndIsClean`).
* *`epoll_wait` fails* for another reason than a signal: the daemon detaches everything and exits
  with success, so that systemd does not restart it (`Recovers` excepts it).
* *A reset that follows the client's end of file* makes the next `write` raise SIGPIPE,
  which hawkgated leaves as it finds it. systemd ignores it for its units, so that under the
  shipped unit `write` returns EPIPE and `on_writable` closes the connection. A daemon
  that was started by hand is killed: the server's liveness properties except that
  (`alive`), and only that. A client that sends more than its request
  may lose its answer to the reset that closing a socket with unread input
  causes. Silent connections hold their descriptors for ever, and an `accept` that fails,
  for want of one or for any other reason, leaves the queue until the next connection comes (`stalled`).
* *A counter removed during `hg_read_all`* starts the walk again: clients are
  then listed twice and others missed.

### Fairness

* `HgGateway!FairSpec` asks of each CPU that a program that has begun ends: a TC
  program runs in softirq context, has no loop, cannot block, and the verifier
  has proved it terminates. Nothing is assumed about devices, operators,
  hawkgated or the clock, so `ExpiredIsReaped` says "if the device keeps sending".
* `HgLifecycle!FairSpec` asks that `hgctl`, `main` and the handler go on when they
  can, and that systemd restarts (`Restart=on-failure` with a delay). Not of
  `Wake`: `epoll_wait` has no timeout. The second conjunct of `SignalEndsLoop`
  has that as its premise, because a signal between the test of `running` and
  `epoll_wait` is noticed only at the next event.
* `HgServer!FairSpec` asks that the loop runs and that a client's host takes what
  it has been sent. Nothing is assumed of when clients send, shut down or reset.

## What is proved

For every value of the constants, from the named assumptions in the modules
(`None` is no address and no counter; a walk through a map meets each address once; leases are pairs of a device and an address other than
0.0.0.0; timeouts and limits are natural numbers; the rate id functions have the
right types; a request's first line, and no other, is a request line; sizes are
positive). Further conditions are hypotheses of the theorem, named in it, and each
excludes only what "Conditions under which properties hold" shows to break it:

* `HgGatewayProofs!TypeCorrect`: `Spec => []TypeOK`. `TypeOK` is inductive by
  itself because `ProgramOK` and `InvocationOK` say which addresses and which
  session a program or command has at each step. One lemma per kind of update
  (`CpuUpdate`, `CtlUpdate`), one case per action.
* `HgGatewayProofs!UploadCorrect`: `Spec => []NoExpiredUpload`. The inductive
  invariant `UploadInv` adds that a packet arrived no later than now and that
  past the expiry test its session was valid on arrival; it holds because the
  test reads the clock after the packet came and uses the CPU's own session.
* `HgEdtProofs!TypeCorrect`, `BacklogCorrect`, `RateCorrect`: from the inductive
  invariant `EdtInv`, whose heart is `Computed` (a departure about to be stored
  still follows from the last one) resting on `LockHeld`. Neither property is
  inductive alone: between load and store nothing but the lock keeps the last
  departure from changing.
* `HgEdtProofs!OrderCorrect`: departures never go back, as an action property
  from the same invariant.
* `HgEdtProofs!Refinement`: `Spec => ImplementsPacer`; each `Store` of an upload
  on the watched element is an `Admit`, linking it is a `Restart`, a tick is an
  `Advance`, all else stutters. A further invariant (`Charged`) says that a
  pending delay is one of the possible ones.
* `HgGatewayProofs!LoginCorrect`: if no address is ever given to two devices
  (`OwnAddresses`), a login authenticates the device that logged in, on any number of
  CPUs. `LoginInv` says that packets carry an address their sender may have
  (`SourcesOwn`), hence every binding but that of 0.0.0.0 names the owner
  (`BindingsOwn`), hence so does what the login's `hgctl` resolves (`LoginOwn`). The run
  *wronglogin* shows that the assumption is needed.
* `HgGatewayProofs!BindingCorrect` and `ResolveCorrect`: with moreover one CPU (`OneCPU`)
  and room in both maps (`RoomForBindings`), devices the portal has heard are bound both
  ways, and no login fails for want of a binding. `BoundInv` adds that past step 3
  a packet's two addresses are bound (`PacketsBound`), that the maps agree but for
  a packet between its two updates (`BothWays`), and that a login's lookup is still to find
  its binding (`LoginBound`). Two CPUs or a full map refute both: see the conditions above.
* `HgSessionProofs`, the four properties of what `add`, `del` and expiry leave behind. Their
  invariants build on `FlowInv`, which says of each command where it is and for whom:
  - `SessionServed`: `OneHome` (one address per device), `DelAlone` (nothing runs beside a
    `del`) and `AddressesSeen` (no `add -m` of a device whose binding may be 0.0.0.0). A
    session may lack its counter only while its `add` is at the counter or rolls
    back (`Served`), and a `del` past the session finds none there again (`NotRevived`).
    Inserts may fail, `add`s may race each other, sessions may expire on any CPU.
  - `DelCorrect`: moreover `NoRequests` (nothing is sent from 0.0.0.0), `AddsResolve`
    (no `add` with both addresses) and `RoomForBindings`, because `del` deletes the
    counter that `hg_mac_ip` leads to: `CountedAreBound`.
  - `ActiveCorrect`: moreover sessions end only by `del` (`NoMapDel`, `NeverExpires`),
    which alone deletes the counter with them.
  - `LimitsCorrect`: not `OneHome` nor `DelAlone`, but `OwnAddresses`, one `add` at a time
    (`OneAdder`), ids of different devices apart from each other and from that of clients
    without limits (`OwnProfiles`), and a profile for each id (`RoomForProfiles`: 256
    entries, and an id is a byte, so the code always has it). `LimitInv` says whose
    profile each session and each command at work names, and that nobody replaces the
    session an `add` is about to give its profile (`StillTheres`).
* `HgSessionProofs`, what a page request can be told although the gateway moves between the
  reader's lookups:
  - `LoginPageCorrect`: the conditions of `DelCorrect`, `add` by address only
    (`AddsByAddress`) and no `map-del` (`NoMapDel`); sessions may expire on any CPU. `OfferInv`
    carries `DelInv` further: whoever has a counter, or is getting one, is bound to the
    address (`Known`), and whose counter is `AUTH_OK` has a session, or an expiry is about to
    mark the counter, or an `add` or a `del` is at work on it (`Active`, `Inserted`).
    Hence what each lookup has returned (`Offer`): a status `AUTH_OK` held at this moment or
    with a session that has been seen since the request came.
  - `NotAskedCorrect`: the conditions of `SessionServed`. To `ServedInv` comes that no counter
    of a device with a session is `EXPIRE`, but for an `add` between the two (`Unmarked`),
    and that an expiry about to mark a counter has no session beside it (`MarkGone`). The
    reader then finds the counter, its owner and the very session (`Found`).
  - Both speak of requests that no `add` and expiry of the same client have met (`raced`), and
    `FoundInv` showed that an `add` is at work until its rollback is over: a session whose
    counter did not fit is there for a moment without being one. `Adding` in
    `HgReader` says so.
* `HgGatewayProofs!AccessRefinement`: `Spec => ImplementsAccess`, under no condition but the
  assumptions, for maps of any size, `hg_bypass` included, whose inserts fail when they are
  full: whatever the maps hold and however commands, logins, CPUs and the clock
  interleave, access changes only by an order at its `hg_clients` operation or by an upload that
  has seen it expired; an order that reports success has given or taken access of a device
  it named or that owns the address it named; and a packet is forwarded, dropped or sent to the
  portal on one look at its sender's access, or at that of an owner of its
  destination. `AccessInv` joins `WorkInv` (where each command is and for whom: `FlowOK`; what
  a binding resolves to owns the address: `BindingsOwn`), `UploadInv` (past the expiry test the
  session was valid on arrival) and `SeenOK` (a program has a session just between its
  lookup and its verdict; at the delete that session has expired). Each step of a command
  (`CommandImplements`) or a program (`ProgramImplements`) is then a step of its order or
  packet or cannot be told from outside.
* `HgConntrackProofs!TypeCorrect`: `Spec => []TypeOK`.
* `HgConntrackProofs!AnswersCorrect`: if clients reuse a redirected port only after
  its entry has ceased to count (`CtTimeout <= ReuseAfter`), nobody gets an answer
  from an address it did not ask. The inductive invariant `NatInv` says that an
  entry is as old as the last redirection of its flow (`EntriesInStep`), that of
  a connection to the portal itself no entry counts (`PortalIsStale`), and that
  the entry of a redirected connection has the address it asked (`AskedIsNoted`).
  It rests on `WireInjective`: no two ports have one network order, so only one
  flow's packets write a key.
* `HgConntrackProofs!PromptCorrect`: if moreover no port in use is the byte swap of
  another (`NoSwaps`), what was redirected lately is answered from the address
  it asked. `KeptIsTracked` says that an entry goes only by eviction or by the
  `map-del` of its own flow.
* `HgPolicyProofs!RepliesCorrect`: an answer comes through wherever its question does, in
  every state: with `Paired` rules each of the five lookups for the answer finds the
  mirror image of what a lookup for the question found (`AllowedBothWays`).
* `HgPolicyProofs!ServicesCorrect`: configured services work both ways, each of the nine that
  `translate_l4` knows (`ServiceRules`), from
  `InstalledInv`: what is no longer to be installed is in the list, unless an
  `hgctl` failed or an operator has been at it.
* `HgPolicyProofs!ListedCorrect`: before login exactly what the lists in force cover gets
  through, for addresses of any width, if rules for any protocol name both ports
  (`NamedPorts`, see the conditions above). `ListsInv` says that a subnet's key is in the
  map just when the subnet is in force (`NetsOK`). That holds because two spellings have one
  key just when they are one set of addresses, and a lookup meets a key just when the
  address is in the set: lemmas on division by powers of two, by induction.
* `HgLifecycleProofs!ServingCorrect` and `EndCorrect`: `ServingIsEnforced` and
  `EndIsClean`, for any number of failures, crashes and kills. The inductive invariant
  `LifeInv` follows the one `hgctl` that `main` has spawned: at its k-th step it has
  reached what `StopReached(k)`, `StartReached(k, n)` or `CleanupReached(k)` says, unless it,
  or the stop before its start, was killed (`InOrder`, `Sofar`). Beside it only the
  handler's `hgctl` may run, after a signal that came late enough (`OnlyThere`); it goes through
  the steps of a stop (`HandlerStops`) and so undoes nothing that main's stop has reached
  (`StopBeside`). That the stop before each start ends with nothing left (`StopEnded`) is what
  makes earlier lives not matter.
* `HgServerProofs!EdgesCorrect`: the edge-triggered loop never sleeps over work, for any
  clients, requests, sizes and descriptors. The inductive invariant `EdgeInv` speaks
  of every moment, not only of the sleep: a socket with something pending for what it
  is watched for is on the ready list or in the batch at hand (`PendingInv`), and so is
  the listening socket while connections are queued (`ListenInv`); connections are those of
  the open descriptors (`OpenInv`), and the queue has each client once (`QueueInv`).
* `HgServerProofs!ReadsCorrect`: however a request is cut into packets and reads, a
  connection reads on until the request is decided and no longer, and answers only
  a whole, well-formed one. `ReadInv` adds to `EdgeInv` that what has been
  sent, received and read is the client's stream (`StreamOf`), and where in it the parser is
  (`ParserAt`): so many lines of the head consumed and none of them bad, the length the
  last Content-Length among them declares, and the buffer holding the stream from there on. Each
  turn of the parser's loop keeps that (`StepKeepsPlace`); the loop ends, because a
  turn that changes anything shortens the buffer or ends the request (`StepShortens`, `ParseEnds`); and
  where it ends, the request is either decided or wants symbols not yet read (`Undecided`,
  `Whole`).
* `HgShowProofs!ListAlwaysFits`, `SummaryAlwaysAgrees` and `ListIsAlwaysFaithful`: for any clients
  in any order of the map, with any number of changes between any two steps of a call. The
  inductive invariant `ShowInv` has three parts. `SumInv`: the totals count the entries
  filled so far. `WalkInv`: as long as nothing has been removed, the key at hand is still
  there, so that the walk goes on behind it and fills nobody twice. `ExactInv`: as
  long as nothing has happened, the first pass has counted and the second one filled just what
  there is up to the key at hand (`NextKeyIsFirst`, `OneMore`). What qsort, filter and limit then
  make of the table is a lemma on these operators for any table (`FinishAnswers`): an
  injection from the answer into the table meets every entry that matches, the heaviest
  first (`Answers`), and whoever counts or compares uses that.

Induction is used in the form of a least counterexample (`Least`, from
`WellFoundedInduction`'s facts about `<`): the library's induction rules take a
predicate as a parameter, which the provers at hand cannot instantiate. In the same way
`Iterates` shows that an iteration defined by recursion exists, so that it may be
unfolded (the parser's loop, the filter's loop).

Every safety property, action property and refinement of the passing runs is proved. Only
model-checked is all liveness (`ExpiredIsReaped`, `Recovers`, `SignalEndsLoop`,
`Answered`, `QueuedIsAccepted`), which is out of the prover's reach.

## What is not modelled, and why

* An element of `hg_clients` that is freed and reused while a CPU still holds a
  pointer to it; a failing `calloc` in `add`; malformed arguments and maps that
  are not pinned, which fail before any change.
* Packets that are not IPv4, packet bytes and checksums; holes in key structures,
  which the compilers in use zero.
* Suspend: the kernel's expiry and the reader's use CLOCK_MONOTONIC and CLOCK_BOOTTIME,
  which are one clock here.
* `hgctl start` run by hand beside the daemon's; more than one
  signal in one life of the daemon. Deleting what exists is taken to succeed.
* The provider's decision on a password, and the wording of pages, probes and
  tables: text that changes no state.
* Configuration parsing, logging, `configure.sh`: text in, text out.

## Plan

1. *(done)* every component of the table above but configuration and logging.
2. *(done)* proofs of the safety properties of all of them.
3. *(done)* an abstract access specification (`HgAccess`) that `HgGateway` implements.
