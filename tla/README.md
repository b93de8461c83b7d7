# Verification of aa-tils

TLA+ specifications, TLC model-checking runs and TLAPS proofs for the programs
of this repository. At the core is the eBPF DNS redirect of
`2026-08/vminitd-ebpf-dns`: the loader, the PID 1 wrapper around it, the hook
programs on live traffic and their counters. It is the part where processes,
the kernel and datagrams interleave and where a mistake leaves a VM without
name resolution. Around it are the UDP bind matrix, the query for Wikidata's
subdivision names, the page made of them, and the workflow that publishes it.

## The system

Paths are relative to the repository.

### dnslink loader (`2026-08/vminitd-ebpf-dns/dnslink/src/loader.rs`)

- State: it keeps none of its own. It reads and writes the kernel's: the maps
  `cfg_map` and `hit_cnt` and one link per hook, pinned by name in a directory
  of a bpffs, and (before Linux 5.7) programs attached without links.
- Operation: `load_and_attach`, a sequence of system calls: scan the pinned
  links and recover the tags of their programs; load the object, which opens
  each map by its pin or creates and pins it; write the rules into `cfg_map`;
  for each hook program of the object keep the pinned link when its tag
  matches, else remove the pin, attach, and pin the new link.
- Interactions: other executions of `dnslink` on the same pin directory
  (attach commands, or a command that was killed earlier); the hook programs,
  which read `cfg_map` at any time.
- Hard: two executions interleave at any system call; any call fails and what
  was done stays done; the process dies; the tags are used long after they
  were read; a link that could not be pinned vanishes again.
- Correct when: a program in effect never reads rules older than those of the
  run that attached it; a run that had no company and reported no problem is in
  force; runs never undo each other in silence; a rerun does not interrupt a
  hook that already runs its program; every hook reads one and the same table.

### dnslink binary (`dnslink/src/main.rs`, `init.rs`, `sys.rs`)

- State: the upstream address and port, the pin directory, the cgroup.
- Operations: parse the arguments and, as PID 1, `/proc/cmdline`; read the
  object; prepare bpffs and the pin directory; `attach`: open the cgroup, call
  the loader, watch the hit counters; `init`: prepare cgroup2, call the loader,
  exec the real init.
- Hard: every system call can fail, most failures must not stop the boot, and
  the operator must be told when there is no redirect.
- Correct when: PID 1 reaches the real init; the redirect is never missing in
  silence; the rules name the upstream the kernel command line asked for.

### Hook programs (`ebpf/dns_sockaddr.bpf.c`, `ebpf/dns_cfg.h`)

- State: `cfg_map` with `MAXNS` rules and the per-CPU counters `hit_cnt`.
- Operations: `connect4` and `sendmsg4` rewrite the destination of a query,
  `recvmsg4` rewrites the reported source of an answer, each on a matching rule.
- Interactions: the loader writes a rule while programs read it; sockets keep
  the peer they were connected to; answers come late, twice or never.
- Correct when: queries go where some rule in the table sends them; a resolver
  that verifies the peer sees the nameserver it asked; lookups are answered.

### UDP bind matrix (`2026-08/udp_bind_matrix/udp_bind_matrix.py`)

- State: two bound sockets, the senders, the receipts, the socket connected in
  auto mode. Operations: bind both sockets, send one datagram, wait for it,
  connect the socket that received it, send the burst, drain until the count,
  a deadline or a silence.
- Interactions: the kernel, which decides who may bind and which socket gets a
  datagram; other processes, which may take the port.
- Hard: timeouts against late datagrams; a send that is tried again without a
  deadline while the send buffer is full; a port released before it is bound.
- Correct when: every datagram is counted once, at the socket that the bind
  addresses and the connected peer select; a scenario ends.

### Wikidata query (`2026-10/cldr-subdivision-wikidata-zh/query_wikidata.js`)

- State: the rows, the last error, the CSV file. Operations: query with a
  timeout, retry twice with growing pauses, write the CSV.
- Correct when: the CSV is only written from an answer, with every row.

### CLDR subdivision page (`render_html.js`)

- A pure transformation of the CSV and the CLDR data: CSV parsing, containment
  of subdivisions, comparison of names (single-character difference, longest
  common subsequence of separators), merging of equal cells.
- Correct when: parsing inverts `csvField`; highlighted characters are a
  smallest difference; every contained subdivision has exactly one row per item.

### Publishing workflows (`.github/workflows/*.yml`)

- State: the branches they push to, the CSV cache, the open pull request.
- Operations: check out, restore or query the CSV, save it, render, fetch
  gh-pages, commit and push; collect the UDP results and open a pull request;
  build and push the images.
- Hard: concurrent runs, cancelled runs, a cache that outlives its contents, and
  whose failures to restore or save are warnings.
- Correct when: what is published is an answer of Wikidata, rendered by one
  commit, the newest one whose run succeeded, and no other publisher's work is
  undone.

`Build files and data` (Makefile, Dockerfile, JSON) have no behaviour of their own.

## Modules

| Module | Models | Built on |
|---|---|---|
| `RuleTable` | what the loader's runs promise the hooks together: one rule table, written before it is read, hooks that come and go one at a time | |
| `DnsLoader` | `load_and_attach`, any number of runs, one action per system call that matters | refines `RuleTable` |
| `DnsLoader_proofs` | theorems about any number of interleaved runs: types, fresh rules, the refinement of `RuleTable`, and what a run leaves behind (in force, without a gap, not undone in silence) | `DnsLoader`, `RuleTable`, TLAPS |
| `Dnslink` | `main` and `init::run`, composed with the loader | instance of `DnsLoader` with one run |
| `Dnslink_proofs` | theorems about one execution: types, no silent loss of the redirect, the upstream asked for | `Dnslink`, instance of `DnsLoader_proofs` |
| `DnsHooks` | the three programs, resolvers, sockets and servers, while the table and the hooks change | instance of `RuleTable` as control plane |
| `DnsHooks_proofs` | theorems about `DnsHooks`: types, the nameserver a resolver sees, where queries go | `DnsHooks`, TLAPS |
| `HitCounters` | `count_hit`, nested and on several CPUs, and `watch_hits` over the moving counters | |
| `HitCounters_proofs` | theorems about any number of CPUs, hits and readings: types, no hit lost, recent and growing readings | `HitCounters`, TLAPS |
| `UdpMatrix` | one scenario of the UDP bind matrix: bind, send, wait, connect, burst, drain | |
| `UdpMatrix_proofs` | theorems about any scenario and any traffic: types, the pinned socket's peer, the row | `UdpMatrix`, TLAPS |
| `Publishing` | the runs of the report's workflow with the query, the CSV cache and gh-pages | |
| `Publishing_proofs` | theorems about any number of runs: answers only, one commit, the newest, nothing of others lost | `Publishing`, TLAPS |
| `Csv` | writing and parsing the CSV | |
| `Csv_proofs` | the theorem that what is written is read again | `Csv`, TLAPS |
| `NameDifference` | the comparison of two English names | |
| `SubdivisionPage` | from an answer through the CSV to the rows of the page | `Csv`, `NameDifference` |
| `SubdivisionPage_proofs` | theorems about any answer and any data of CLDR: the CSV changes nothing, the page shows the answer and highlights the one character that was edited, or the fewest separators that keep two names apart | `SubdivisionPage`, `Csv_proofs` |
| `MC...` | a small instance for TLC of each module with a state | |

The first three components meet in `RuleTable`. `DnsLoader` is shown to implement it
(checked and proved), and `DnsHooks` uses it in place of the loader: hooks come
and go in any order, also while rules are written. One thing two runs can do is
left out there: their writes into the table do not overlap.

### `DnsLoader` and the code

A run is one call of `load_and_attach`, named by an element of `Runs`; the map
instance it creates, the rules it writes and the links it attaches carry that
name. `pinned`, `link` are the pin directory, `table[i]` the contents of map
instance `i`, `attached` the link-less attachments. `fd[r]` are the maps run
`r` has open, `found[r]` the vector `pinned` of the source with `"unpinned"`
for no entry, `"stale"` for `None` and a tag for `Some(tag)`; `cur[r]` is the
map or hook of the current iteration, `todo[r]` what the loop has left.

| Action | Source (`loader.rs`) |
|---|---|
| `Start`, `ScanPin` | lines 66-119, one hook per step |
| `ReuseMap`, `CreateMap`, `PinMap` | 121-138, the map part of `EbpfLoader::load` |
| `WriteRules` | 143-151 |
| `KeepLink`, `Relink` | 154-193, on `SameTag` |
| `DropStalePin` | 195-197 |
| `AttachLink`, `AttachProg` | 198-204 and 218-225, with and without links |
| `PinLink`, `PinLinkFails` | 205-217 |
| `Finish`, `Fail` | 230-247 and every `?` |
| `Kill` | the process dies anywhere |

Abstracted: addresses and ports in a rule (a run's rules are its name), verbose
output, program ids, the verifier. `dnslink` writes one rule, slot 0, so the
write of a run is one step here; `DnsHooks` takes it apart again. The kernel
is external and appears as the code relies on it: a pin keeps its map or link
alive, an unpinned link dies with the descriptor that holds it, pinning on an
occupied path fails, and every live link of a cgroup runs.

### `Dnslink` and the code

`stage` is the position in `main`/`init::run`, named for what comes next.
`argv` and `cmdline` are records and token sequences; `Junk` is a text that
parses as nothing. `cmdline_value` gives the last token's value as `Junk`: the
file ends in a newline, and the code splits at spaces only. `said` is the last
message about hooks. Each system call is a step of its own and may fail
independently of the others: mounting procfs (`mount_procfs`), finding a bpffs
through it (`FindBpffs`), making and mounting its directory (`MakeMountPoint`,
`MountBpffs`), the pin directory (`EnsurePinPath`), the cgroup
(`PrepareCgroup`, `OpenCgroup`), and the two attempts at the real init
(`exec_real`, `FallBack`). `mount` and `execve` are the outcomes of the two
calls wrapped in `sys.rs`; the model takes the branch the code takes on each.
Pins work (`pinDir`) only on a mounted bpffs.

### `DnsHooks` and the code

An address is a pair of model values; `match_rule`, `redirect_query` and
`rewrite_dns_answer_recvmsg` are operators with the names of the C functions.
`cfg_map.set` copies the four fields of slot 0 one by one (`CopyField`), in any
order, while programs run: a program reads each field when it uses it, and
neither side takes a lock. A run of a program is one step. At most one write is
under way during it and its fields are copied in any order, so the states in
the middle of a write already hold every mixture of old and new fields that a
program reading them one by one can meet. A hook is attached by a run whose own
write has returned, possibly while another run writes (`AttachHook`). Hit
counters are left to `HitCounters`.
The other two slots keep the zero of a new array map. Sockets and resolvers are
external: a connected socket is seen by `connect4` once and receives from its
peer only; an unconnected one by `sendmsg4` at each send; `recvmsg4` runs at
every receive. Datagrams are sets, so they are lost, duplicated and reordered.

### `HitCounters` and the code

A program that found its counter (`FindCounter`, with the count it saw) is on
the stack of its CPU until it counts (`Count`); another one may run in between
on the same CPU, to its end, or on another CPU at any time. The slots of a
counter are one per CPU or a single one: the map is per-CPU, and the comment
over `count_hit` also claims the other kind. `at` is the entry of `HOOKS` that
`watch_hits` reads; the kernel copies the slots one by one (`ReadSlot`) while
programs count. A failed read counts as zero (`ReadFails`); `Rewatch` is a
watcher that was interrupted and started again on the pinned map. `counted`,
`since`, `sound` and `shown` are histories for the properties.

### `UdpMatrix` and the code

`stage` follows `run_scenario` and `delivery`. A datagram is the number of its
turn in `send_seq`; it is in flight, in the buffer of one socket, in `order`, or
lost. The deadlines of the wait and of the drain are choices: `WaitOver` and
`DrainOver` may be taken at any time, and `late` remembers that one was taken
with datagrams still under way. Sending has no deadline: `transmit` goes round
its `while True` as long as `sendto` finds the send buffer full. `SendBuffer`,
which is external, fills and drains it (`full`), and `Transmit` needs room.
`Allows`, `Rank` and `Receivers` are the kernel's rules, as the repository's
tables of results show them for Linux and macOS. `TakePort` is a process that
binds the port after `pick_free_port` released it.

### `Publishing` and the code

A run of the workflow is a record that goes through the steps of the YAML file
one by one; `Trigger` is the concurrency group (one active run, one waiting,
a newer one replaces the latter), `Die` a step that fails, a lost runner or a
cancellation. The query is in it as the three attempts of `query_wikidata.js`.
The cache actions turn their failures into warnings: after `RestoreFails` the
run queries as if nothing was cached, and `Save` is refused where there is an
entry; `SaveFails` leaves none. `missed` and `unrestored` are histories of the
keys that lost their entry and of those a restore failed for.
A CSV is the version of the script that asked and the state of Wikidata that
answered; a report adds the version of the renderer.

### `Csv`, `NameDifference`, `SubdivisionPage` and the code

Operators with the names of the JavaScript functions, on texts that are
sequences of characters. `parseCsv` folds `ParseCharacter` over the text.
The table and the walk of `markSeparatorDifferences` are recursive functions of
a place in the two runs.
An answer of Wikidata and the names of CLDR are inputs (`Inputs`), what each
country and key contains (`CLDR_CONTAINMENT`) is a constant; two steps write
the CSV and render it. A country is one character and a CLDR key the code
without its hyphen. Rows of the page are a set: their order is left out. So is
the byte order mark that `parseCsv` strips: `csvText` writes none.

## What the runs check

| Run | Instance | Shows |
|---|---|---|
| `DnsLoader_races` | 3 runs, 2 at a time, 2 versions of the object, 2 hooks, links | `FreshNotStale`, `RaceNeverSilent`, refinement of `RuleTable` |
| `DnsLoader_reruns` | 3 runs one after another, 6 objects, 2 cgroups, both kernels | `SoloRunTakesEffect`, `NoNeedlessGap` |
| `DnsLoader_othercgroup` | 2 runs, 2 cgroups | finding: `AttachedAtCgroup` fails |
| `Dnslink_boot` | 15 argument records, all kernel command lines up to 2 tokens and those of 3 whose last one is neither key, 3 objects, both kernels | `BootReachesRealInit`, `NeverSilentlyUnhooked`, `UpstreamAsConfigured` |
| `Dnslink_gateway` | plain boot, short command lines | finding: `GatewayHonoured` fails |
| `DnsHooks_reload` | 2 resolvers (one asks the nameserver, one an upstream), connected and not, 2 rule writes | `SentAsConfigured`, `SeesNameserver` |
| `DnsHooks_live` | 1 verifying resolver, 2 rule writes | `LookupsAnswered` |
| `DnsHooks_torn` | rules that differ in two fields | finding: `SentAsConfigured` fails |
| `HitCounters_watch` | 2 CPUs, nesting of 2, 3 hits, both kinds of map, 2 failed reads or restarts | `NoHitLost`, `ReadIsRecent`, `NeverGoesBack`, `ShownInTheEnd` |
| `UdpMatrix_scenarios` | every pair of addresses and options with 2 datagrams; every topology, target and connect with up to 4; 3 kinds of neighbour; a send buffer that fills up at any send | `PinnedHearsItsPeer`, `RowIsRight`, `ScenarioEnds` |
| `Publishing_runs` | 3 commits, 4 runs, 2 other pushes, 1 change of Wikidata, 1 cache entry evicted or not saved, restores that fail | `AnswersOnly`, `ReportOfOneCommit`, `NewestPublished`, `ReportAsCached`, `OthersKept` |
| `SubdivisionPage_rows` | answers of up to 3 rows, labels of up to 4 special characters, pairs of names of up to 3 characters | `PageShowsAnswer`, `SmallestDifference`, `OneEdit` |

Each component's type invariant (`TypeOK`) is checked in its first passing run;
beyond types they state how control and data relate (a relinking run has a
current hook, what is pinned for a hook is a program of an object with that
hook, a completed write left exactly the rules in slot 0, a datagram is in one
place, two runs of a concurrency group are never active together).

### The bounds and why they are enough

- Two runs at a time show every pairwise race on a pin; the third run finds
  what two interleaved ones left, finished or not. The two versions share the
  `recvmsg4` program, so a tag matches across versions for one hook and not for
  the other; two hooks therefore cover keeping and relinking in one run, and a
  third would repeat one of them. The theorems below hold without these bounds.
- `DnsLoader_reruns` bounds the company to one because its properties are about
  runs that have none; the objects include one without the answer hook, without
  counters, without any hook program and without a rule table.
- Kernel command lines of up to two tokens put each key first, last, twice and
  next to the other, with values that parse or do not; those of three add a
  token behind both, so that two keys together need not be the last one.
- In `DnsHooks`, two rule writes suffice for old rules, new rules and a mixture
  of both; an address not in a rule, the upstream, the nameserver and zero are
  the addresses the programs can tell apart. `MaxWrites` bounds the writes.
- `HitCounters`: three hits are one program nested in another and one on the
  other CPU, or two counters that move during one line; `MaxDepth`, `MaxHits`
  and `MaxTroubles` bound nesting, hits, and failed reads with restarts.
- `UdpMatrix`: the harness sends 20, 20 or 26 datagrams; two, four and three are
  enough for a first one, a burst with the same and with another sender, and
  every order of arrival against reading.
- `Publishing`: the second commit changes the renderer only, the third the
  query too, so a cached CSV is found by its own commit, by another with the
  same script, and by none. Four runs put one behind, one instead of, and one
  after another. `MaxRuns`, `MaxWiki`, `MaxOthers` and `MaxMisses` bound
  the rest.
- `SubdivisionPage`: four characters hold each special one next to every other,
  at either end and doubled; three hold two separators and a letter, an
  accent apart from its letter, and separators that are a subsequence in two
  ways. The countries have a nested and an unnamed subdivision each key may be
  below, and codes that are below none.
- Deadlock is checked in `HitCounters_watch` only. Elsewhere things end: a
  loader run, an execution of `dnslink`, a scenario, a page; lookups, rule
  writes and runs of a workflow are bounded.

### Fairness

- `Dnslink`: weak fairness of the program's own step: it is sequential and its
  system calls return. Nothing is assumed of interruptions or of which failures
  occur. The real init's exec may fail twice, which is an end of its own.
- `DnsHooks`: weak fairness of the copy of a field (a system call finishes) and
  of a resolver that opens a socket and sends; strong fairness of an answer and
  of its receipt (a resolver that keeps asking is heard now and then: the
  network loses datagrams, not all of them) and of giving up a socket (resolver
  timeouts end every wait). The last one is needed: a socket connected before
  the hooks were in effect, or to an upstream since replaced, waits for a server
  nobody runs, and only a new socket gets the lookup answered. None for the
  control plane: `LookupsAnswered` only promises answers once it has settled.
- `HitCounters`: weak fairness of the watcher (it sleeps a second at a time and
  its reads return) and of the counting program on each CPU (an interrupt
  returns). None of new programs, failed reads or restarts.
- `UdpMatrix`: weak fairness of the harness: `select` returns after its
  interval, and the wait and the drain have deadlines. None of the network, and
  none of the send buffer: `ScenarioEnds` promises an end unless the buffer is
  full again and again, because a send has no deadline.
- `Publishing` has no liveness property and no fairness: GitHub promises none.

## What is proved

`DnsLoader_proofs` proves for any sets of runs, hooks, tags, objects and
cgroups, for any number of interleaved runs and both kinds of kernel:

- `TypeCorrect`: `Spec => []TypeOK`.
- `FreshNeverStale`: `Spec => []FreshNotStale`. The property is not inductive;
  `IInv` strengthens it. `OneInstance`: a map a run has open is the pinned one
  (map pins are never removed, and a lost race to pin is an error rather than a
  private map). `RulesFirst`: a run past writing the rules has written them to
  its own table, and so did the run behind each attachment that outlives it.
  `NeverEmptied`: a table once written stays written. `OnlyPinned`: only the
  pinned table ever holds rules. `RulesFirst` alone is not enough: the table a
  program reads must stay the table its run wrote, which is `OneInstance` and
  its consequence `FdStable`.
- `SharedTableImplemented`: `Spec => SharedTable`, the refinement of
  `RuleTable`. Under `IInv` every program in effect reads the pinned table
  (`ServedByTable`), so the state always has the form `Consulted(Served, Rules)`
  (`AsAbstract`); a step changes either the rules, for all hooks at once
  (`RulesStep`), or one hook at most (`OneHookAtATime`).

Of what a run leaves behind it proves:

- `SoloRunsTakeEffect`: `Spec => []SoloRunTakesEffect`. `SInv` follows a run
  without company: nobody else is active (`Alone`), what its scan found is still
  so for the hooks it has not dealt with (`Trusted`), and past writing them its
  rules are the rules and the hooks it has dealt with run its programs
  (`Prevails`). `Trusted` is the heart: it is what makes keeping a link on a tag
  read earlier sound, and what company would break. `LinkKind` and `Fresh` are
  the facts about kernels and idle runs it needs.
- `NoGapWithoutNeed`: `Spec => NoNeedlessGap`. The same `SInv`: where the scan
  found nothing there still is no link to interrupt, and a run that removes a
  pin has found another program behind it, or none it could name.
- `NoRaceIsSilent`: `Spec => []RaceNeverSilent`. `NothingLost` says of every
  hook that some run found linked or has dealt with (`Known`) that it has a
  link, or that some run is to blame: it failed, reported a failed pin, or is
  on its way to attach and pin that very hook (`Blamed`). Runs that are over
  and reported nothing blame nobody, so the link is there. A run that removes a
  pin becomes the one to blame in the same step; that is why a race on a pin,
  whose loser finds the path taken or the pin gone, shows up in somebody's
  report.

`Dnslink_proofs` proves for any arguments, kernel command lines and objects,
both kinds of kernel and any failure of a system call:

- `TypesOfABoot`: `Spec => []TypeOK`, `BootKeepsItsWord`: `Spec =>
  []NeverSilentlyUnhooked`, `RulesAsConfigured`: `Spec =>
  []UpstreamAsConfigured`. `IInv` adds to the types that the loader works inside
  `load_and_attach` only and has no company (`LoaderInTurn`), that PID 1 or the
  attach command goes on only after it said that there is no redirect or after a
  loader that succeeded (`Reported`), and that the upstream is the argument's
  before the kernel command line is read and the configured one afterwards
  (`UpstreamInTurn`). What is configured is only said of kernel command lines
  that can be relied on (`SafeCmdline`: no key in the last token, values that
  parse, a port next to a gateway); `Dnslink_gateway` shows what the others do. That a loader that succeeded leaves its hooks in force is
  not proved again: `Alone` is an instance of the loader's own theorems for a
  single run, `SameSteps` shows that the binary's loader takes the steps of
  that one, and `LoaderInvPinDir` that the appearance of the pin directory
  between them disturbs none of its invariants.

`DnsHooks_proofs` proves for any resolvers, servers, rules and addresses:

- `HooksTypeCorrect`: `Spec => []TypeOK`. `TInv` adds that the slots no rule was
  written to stay blank and that every field already copied is the rule's
  (`Slots`), and that there are rules wherever a hook is in effect (`Ruled`).
  They make a completed write leave exactly the rules of the last run.
- `NameserverSeen`: `Spec => []SeesNameserver`. While all hooks are on and no
  write is under way (`Calm`), a program exchanges the two addresses of the
  rules and leaves every other address alone (`CalmRewrite`: slot 0 matches
  first, and a match in a blank slot rewrites zero to zero). So a socket opened
  then, as long as it is undisturbed, has the peer and the traffic `Target`
  prescribes (`Prescribed`), and the answer direction takes them back to the
  nameserver (`CalmSource`), except for a resolver of the upstream itself.
- `QueriesAsConfigured`: `Spec => [](DifferInOneField => SentAsConfigured)`. The
  hypothesis speaks of constants: the rules of any two runs differ in one half
  of an address at most, as those of runs with another upstream or another port
  do. `DnsHooks_reload` has such rules, and `DnsHooks_torn` refutes the
  property for others, so the theorem says exactly where a table that is
  rewritten in place is safe without a lock. A rule that is half copied is then
  the old or the new one (`HalfCopied`), so slot 0 always holds rules that were
  in the table since the resolver opened its socket (`InTable`), and whatever
  it sent or connected to is what such rules prescribe (`Covered`), also with
  some of the hooks detached.

`HitCounters_proofs` proves for any finite set of CPUs, any nesting, any number
of hits, readings, failures and restarts, and both kinds of map:

- `TypesOfCounters`, `AllHitsCounted`: `Spec => []NoHitLost`,
  `ReadsAreRecent`: `Spec => []ReadIsRecent`, `ShownNeverGoesBack`: `Spec =>
  []NeverGoesBack`. `Books` balances the slots of every counter with the hits
  counted and bounds these together with the programs on the stacks. `Reading`
  is the heart: while the kernel copies the slots one by one, what was read so
  far plus what the unread slots hold now lies between the count at the start
  of the reading and the count now; a program that counts in a slot already
  read raises the latter alone. `Shown` chains the readings: each starts where
  no earlier line went beyond. The sums are folds over finite sets, so their
  laws (`SumTake`, `SumSame`, `SumBump`, `SumBounds`) are proved here, each by
  a least counterexample among the subsets (`MinSet`).

`UdpMatrix_proofs` proves for any scenarios, any number of datagrams and any
process that takes the port:

- `TypesOfAScenario`, `PinnedSocketsHearOne`: `Spec => []PinnedHearsItsPeer`,
  `RowsAreRight`: `Spec => []RowIsRight`. `Once` says that a datagram is in one
  place (in flight, in one buffer, or in the receipts); `Heard` that the socket
  connected before the burst holds its peer's datagrams only (the theorem says
  nothing of a socket connected later, see `wasPinned`); `Hosts` that
  nothing reached a socket that cannot hear it; `Kept` that without an
  intruder and without a late datagram every datagram somebody must get (`Due`)
  is still on its way or where it belongs. `Due` changes when a socket is
  connected: what was due at any socket is due at one of the two from then on,
  which is right only because a single datagram has been sent by that time.
  `Tally` and `TallyAll` turn the places into the counts of the row.

`Publishing_proofs` proves for any commits and any number of runs, changes of
Wikidata, other pushes, lost cache entries and failed restores:

- `Types`, `OnlyAnswers`, `OneCommit`, `Newest`, `CachedLabels`: the five
  invariants of the run `Publishing_runs`, and `OthersStay`: `Spec =>
  OthersKept`. One invariant `IInv` carries all of them. It says of every run
  what it holds at each stage (`Filled`), that its CSV answers the query of its
  own commit (`OwnCsv`), that the branch it knows has the report of the real one
  and is the real one as long as the revision is the same (`KnowsBranch`), and
  that the cache is empty under its key while it asks, unless a restore of it
  failed, and holds its CSV afterwards, or an older one after a failed restore,
  unless the entry was lost (`CachedRun`). `KnowsBranch` and `CachedRun` only
  hold because one run of the group is active at a time (`OthersRest`): a push
  then is a step of the real branch or none (`PublishStep`). `NewestInv` adds
  that nothing is under way once the last run is through.

`Csv_proofs` proves for any characters and any rows of any lengths:

- `ReadAsWritten`: `parseCsv(csvText(rows))` is `rows`, with nothing left
  unfinished, as long as every row has a field that is not empty. The text is a
  concatenation of lines, and these of fields and commas (`Parts` names where
  each piece begins). `parseCsv` is a fold; `Run` is the sequence of its
  states. The lemmas follow it over a plain and a quoted field (`PlainField`,
  `Quoted`), a row (`Row`), a line (`LineRead`) and the text (`TextGoesOn`).

`SubdivisionPage_proofs` proves for any answer and any data of CLDR:

- `PageOfTheAnswer`: `Spec => []PInv`: whatever the answer, the CSV written of it
  is read without an error, and the page is the one the answer's own rows give.
- `AnswerShown`: `Spec => []PageShowsAnswer`. The visit of everything below a
  country is the least set of keys closed under containment (`Contained`: the
  visit ends because keys are finitely many and each round adds one). The fold
  over the rows keeps, after each row, the countries seen and for every
  subdivision the last label in each language (`ReadUpTo`, `NamesGoOn`,
  `AllNamesGoOn`), and a code of a named key is found again from its key and
  back (`KeyOfCode`), so the rows added are those that are missing (`MissingIs`).
- `TypesOfAPage`: `Spec => []TypeOK`: what is highlighted are characters of the
  two names. The walk of `markSeparatorDifferences` exists, as each place of it
  is read from places nearer to the end (`WalkExists`, an induction on the
  distance), and marks elements of its two runs only (`MarksSeparators`); the
  split of a name has one run of separators more than letters, whatever marks
  are in it, so names with the same letters have runs in pairs (`SplitShape`,
  `NonAlphabetic`).
- `HighlightsTheEdit`: `Spec => []OneEdit`. The letters of a split name, each
  composed and lowered by itself, are together the canonical form of the name
  without its separators (`LettersAre`), because a letter keeps its form however
  many marks follow (`Whole`, `MarkedLetter`). So where these forms differ the
  letters do, no separator is highlighted (`OtherLetters`), and what
  `singleCharacterDifference` says stands. It says the edit: one edit is a
  replaced, an added or a dropped character (`EditIs`), and of the places where
  a character may have been added the first difference is one (`OneMoreIs`).
  Names in which a mark follows no letter are left out, as in the property.
- `SmallestHighlights`: `Spec => []SmallestDifference`. A name is laid out as its
  letters and the runs of separators around them (`NamesAreLaidOut`, character
  by character along the split), whichever separators are taken out
  (`Spelled`). Because no run holds a letter or a mark, and a letter begins with
  the one and goes on with the other, a text laid out so tells its letters and
  runs (`Unwoven`, from the end): names with the same letters are equal without
  some separators just when their runs are, one by one. For one pair of runs the table of
  lengths is a bound on every common text (`NoLonger`) and the walk leaves a
  common text of just that length (`WalkIsLongest`), both by induction on the
  distance to the end. So what remains is longest in every run and in sum, and
  what is highlighted is smallest (`FewerRemain`). Where that is nothing at all, the
  names are equal, so they are also equal when trimmed and lowered, and their
  cells would have been merged (`NothingIsSame`); the page does not fall back on
  `singleCharacterDifference`.

Assumptions: `None` is not a run, a hook or a map; the two marks of the scan are
not tags; objects have hooks and maps the loader knows; a kernel has links or it
has not. For `DnsHooks`: nameservers, servers and rules consist of addresses, a
blank slot has the same address on both sides, and `None` is neither a rule nor
an address. For `Publishing`: every commit has a query and a renderer, and
`None` is no CSV, report or tree. For `Dnslink`: those of its loader, targets of
the arguments and values of the kernel command line are texts, and `Junk` is
neither an address nor a port. For `HitCounters`: CPUs are finitely many and a
map has a slot per CPU or a single one. For `UdpMatrix`: the harness sends at
least two datagrams in each topology, and `None` is no sender or socket. For the
page: a row of an answer has its four texts and an item, as the query binds it;
keys of CLDR have no hyphen, begin with their country and are finitely many, and
the name of a key is a text. TLC evaluates all of them in every run of their
module.

Only model-checked: the liveness properties, which are out of the prover's reach
(`BootReachesRealInit`, `LookupsAnswered`, `ShownInTheEnd`, `ScenarioEnds`). Every
other property of a passing run is a theorem. Folds and recursive functions are
proved about where a theorem needs them: the induction over numbers or finite
sets is a least counterexample (`Least`, `ByInduction`, `MinSet`), after a lemma
that the function a definition chooses exists.

## Findings

- A link kept for its tag stays at the cgroup of the earlier run, and the
  message names the new one (`DnsLoader_othercgroup`).
- A `dnslink.gateway` that is the last token of `/proc/cmdline` keeps the
  newline, does not parse, and PID 1 exits before any init runs
  (`Dnslink_gateway`).
- A query sent while a rule is replaced can go to the address of one rule and
  the port of the other (`DnsHooks_torn`).

Seen while modelling, without a run: a loader that fails half-way leaves the
hooks attached so far in effect although PID 1 says that it runs without the
redirect (`init.rs:90`); `dnslink.port` without `dnslink.gateway` is not read
(`main.rs:236`); `recvmsg4` reports the nameserver of the rules also to a
resolver that asked the upstream itself, and one that verifies the source
refuses that answer (`dns_sockaddr.bpf.c:79`; `SeesNameserver` leaves these
resolvers out).

## What is not modelled

- Two pin directories: PID 1 pins below `<base>/bpf`, `attach` below
  `/sys/fs/bpf`, and both can redirect the same cgroup.
- Of the loader: a `remove_file` of a stale pin that fails, which the code
  ignores (`loader.rs:197`; the pin of the new link then fails on the path that
  is taken, as in `PinLinkFails`), and two loaders writing the table at the same
  time (`DnsLoader` has a write in one step, `DnsHooks` one write at a time).
- Of the binary: a read of `/proc/cmdline` that fails although procfs is mounted
  (`main.rs:131`; it ends as without procfs).
- IPv6, TCP beyond `connect4`, address families other than `AF_INET` (the
  programs let them pass).
- Of the UDP bind matrix: the discovery of local addresses, the sweep over
  options and targets (every scenario is an initial state instead), datagrams
  of an earlier scenario that arrive in a later one, the layout of the rows. Where
  the first datagram comes after the wait for it, only the types and the end of
  the scenario are checked: nothing says what its row should be.
- Of the query: an answer without bindings. It is an answer like any other to
  the code, which writes, caches and publishes a page of it.
- Of the page: escaping and markup, the order of the rows, the merged cells and
  the annotations from the MCA names (text processing without state); the case
  of codes (`render_html.js:89` and `337`: codes are taken as CLDR writes them);
  the errors for a malformed MCA file (`146-159`) and for a country without a
  name in CLDR (`381`), which end the program before it writes a page.
- Of the workflows: the pull request with the UDP results and the build of the
  images; a run of an old commit that somebody starts again by hand; a
  restore that fails and leaves a part of the CSV behind, which the query step
  (`[ -s ...csv ]`) would take for the whole.
- Makefile, Dockerfile and data: no behaviour of their own.

## Plan

1. Two pin directories: two instances of `DnsLoader` on one cgroup, and what
   two redirects in a row do to a query and its answer.
2. The pull request with the UDP results: force-pushed branch, cancelled runs,
   a pull request that stays open when the results are again what main has.

Runs are shared between questions about one instance; violation runs of settled
findings give way first when new components need room.
