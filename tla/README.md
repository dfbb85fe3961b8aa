# A TLA+ development for oopt

`oopt` manages a packet transponder: an open network switch (16 ports) that
carries up to eight coherent optical modules. The configuration is one YANG tree
kept as `config.json` in a git repository; the `oopt` command line edits it,
commits it and brings the device to it, and a gNMI server offers the same tree
over gRPC. The device itself is a handful of Kubernetes pods around a redis
server.

The modules here are written from the Go sources under `src/cmd` and `src/pkg`.
The repository has no documentation beyond its name; comments and the vendored
gNMI protocol definition are the only statements of intent.

## 1. The system

| part | where | state | operations |
|---|---|---|---|
| edit commands | `cmd/oopt/main.go:427-1083, 1374-1391` | `current` in memory, `config.json` | read the file, change the tree, truncate and rewrite the file |
| commit pipeline | `main.go:1133-1266` | git HEAD and history, `config.json` | validate, `git commit -a`, diff HEAD~1..HEAD, hand the diff to the device, reboot when a port changed |
| validation | `main.go:106-175`, `pkg/sonic/transport.go:123-224` | none | uniqueness of connection ids, breakout modes, occupancy of the channels |
| VLAN handler | `pkg/sonic/interface.go` | VLAN and VLAN_MEMBER tables of redis | move an interface from one VLAN to another, one redis command after the other |
| optical handler | `pkg/sonic/transport.go:36-109, 335-393` | MODULE_CONFIG_TABLE of redis | write the settings that changed, or all of them |
| redis client | `pkg/sonic/redis.go` | redis hashes | GetEntry, ModEntry, SetEntry |
| reboot | `main.go:1085-1131`, `sonic.go`, `ofdpa.go`, `k8s.go` | four pods, two config maps | delete and create the pods in order, refill redis |
| gNMI server | `cmd/gnmi/run.go`, `pkg/gnmi/*.go` | `srv.config`, `config.json` | Get, Set (delete, replace, update), Capabilities |
| gNMI clients | `cmd/gnmi_*` | none | one request each |
| model | `pkg/model/packet-transport.go`, `yang/` | none | generated from YANG |

Every `oopt` command is a process of its own. There is no lock on the working
file, on the repository or on the device; nothing is retried and nothing is
undone. What two commands, or a command and the gNMI server, do to the same file
is decided by the operating system.

### What each part keeps, and what is hard about it

**Working file and edit commands.** An edit command reads `config.json`
(`persistentPreRunE`), changes the tree in its own memory (`RunE`), truncates the
file and writes it back (`persistentPostRunE`). It is correct when it changes
nothing but what it is about. Hard: two commands interleave; the file is empty
between `os.Create` and `file.Write`; two writers that have both opened the file
leave one document with the tail of the other; nobody looks at what `file.Write`
returns, so a lost or short write goes unnoticed.

**Commit, rollback, history.** `commit()` validates its memory, commits the file,
moves the branch, reads HEAD and its parent again, and hands the difference to the
device. `rollback` first overwrites the file with an old commit. Correct: what is
committed was validated; a rollback restores what it names; history only grows; the
device follows HEAD. Hard: validation, commit and hand-over each read a different
copy; the commit is made before the device sees anything, and nothing is retried; a
rollback whose write was lost goes on and commits an empty or a short file.

**Optical table.** Two programs write the rows of the modules too, and each has its own
translation from the leaves of the configuration to the fields of the row: a commit
writes the fields that changed, a reboot every field, with defaults for what the
configuration leaves open. Correct: they agree field by field; a row is complete once a
reboot has come to its end. Hard: a deleted leaf panics in the middle, a commit may reach
a redis that was wiped and not refilled, or refilled without the module because a gNMI
request had deleted its entry, and two commands overtake each other.

**VLAN tables.** Two programs write the same rows: the incremental handler of a
commit and the full rewrite of a reboot. Correct: they agree, and an interface that
a commit leaves alone keeps its VLAN. Hard: a move is up to six redis commands, any
of which may be the last; the handler works from what it reads in redis and from
what the two commits say, which need not fit each other; and `oopt reboot` takes the
working file, committed or not.

**gNMI server.** A `Set` copies `srv.config`, applies its operations to the copy,
writes the file after each, and publishes the copy at the end. Correct: an
acknowledged Set did what it says, `config.json` and `srv.config` agree between
requests, the server can start again from the file, a Get answers with published
data. Hard: every request has a goroutine and the mutex is never locked; a Set fails
between two operations; writes are not checked; the command line edits the file too.

**Reboot.** `rebootSystem` deletes and creates the redis, transyncd, ofdpa and sonic
pods in order and fills redis in between; `init --force` empties the git directory
first; `stop` deletes the pods in another order. Correct: a reboot that comes to its end
leaves all pods with its configuration, and running it again mends whatever a failed one
left. Hard: it may end after any step; spec files are only written when there are none;
redis may not answer after the five seconds it is given; the pods come up by themselves
later; two commands delete, create and write the same pods and files.

**Validation and the tree** are sequential code over one configuration: connections,
breakout modes, default filling, occupancy. Correct: the interfaces are those of the
ports' breakouts, what is accepted fits into the channels, the device is booted with
the ports of HEAD. Hard: boundaries, the order in which defaults are filled, and the
gNMI server, which writes the tree without the rules that the commands keep.

## 2. The modules

| module | about | instances and proofs |
|---|---|---|
| `OoptCli` | any number of concurrent oopt commands on one file, one repository and one device | `MCOoptCli`, `OoptCliProofs` |
| `OoptCliHistory` | the same with a memory of the commits that have been HEAD | `MCOoptCli`, `OoptCliHistoryProofs` |
| `VersionedConfig` | what a shared git directory and its device promise to operators | refined by `OoptCliHistory` |
| `SonicVlan` | the VLAN tables of redis under commits, reboots and failures | `MCSonicVlan`, `SonicVlanProofs`, `SonicVlanRowsProofs` |
| `OpticalTable` | the module table of redis under concurrent commits, rollbacks and reboots | `MCOpticalTable`, `OpticalTableProofs` |
| `Reboot` | the pods, their spec files and config maps under concurrent reboot, init and stop | `MCReboot`, `RebootProofs` |
| `Appliance` | what the pods promise: one configuration that was asked for, or none | refined by `Reboot` |
| `GnmiServer` | concurrent Set and Get requests, the server's tree and its file | `MCGnmiServer`, `GnmiServerProofs` |
| `Datastore` | what a gNMI target promises about its tree: a Set replaces it in one step or not at all | refined by `GnmiServer` |
| `Transponder` | ports, interfaces, connections and modules under the edit commands, validation, the port tables of SONiC and ofdpa | `MCTransponder`, `TransponderProofs` |

They meet at their steps. `OoptCli` hands an entry to the device in one step
(`ApplyIntf`, `ApplyOpt`): `SonicVlan` opens the first into its redis commands and lets
one command run at a time, `OpticalTable` opens the second into the fields of a row. The
reboot of `OoptCli` is a step that wipes and a step that fills: `Reboot` opens it into
calls of kubectl and file operations and sees the tables from afar, `SonicVlan` and
`OpticalTable` are about their rows. `GnmiServer` has an oopt edit as one atomic step
(`CliEdit`); `OoptCli` has its steps. `Transponder` fills in what `OoptCli` leaves open,
the effect of an edit and the set `Valid`, for one command at a time. `PROJECT.json`
gives the source lines of every definition.

### OoptCli

`file` is `config.json`; `commits` the commit objects with their parents; `head` the
branch; `device` what redis and the pods were last given for each entry; `proc` the
memory of each process, with a program counter:

    edit      idle -> edit -> write -> idle
    commit    idle -> commit -> parent -> staged -> log -> apply -> idle
                                                  (-> reboot -> booting -> idle)
    rollback  idle -> rbread -> rbwrite -> commit -> ...
    reboot    idle -> reboot -> booting -> idle

Every arrow is one access to something shared, with one exception: `Stage`, from `parent`
to `staged`, stages the file and writes the commit object in one step, without the index of
git between the two (section 5). The last
write of an edit or a rollback has two outcomes, `...Write` and `...WriteLost`: the code
does not look at what `file.Write` returns (main.go:100), so a write that fails or falls
short leaves the file empty or torn and the command carries on. `Abort` ends a command before its next
step and undoes nothing: an error return, a panic or a kill. A configuration is a
function from entries to what they hold. The four kinds of entries are the four ways
a difference is handled: a setting of an optical module (written to redis; a deleted
one panics), the connection of an interface (written; a cleared one never reaches the
device), the breakout of a port (asks for a reboot), the root's own leaves (skipped).
Edits are partial functions on entries, so that a command that displays something and
rewrites the file (`<<>>`) and a breakout that removes interfaces are edits too. What
`validateFinal` accepts is the constant `Valid`.

`lastGood` and `cause` are ghosts, as are `fresh`, `alone`, `checked` and `source` in
the records. `cause` is the first thing that made the device differ from HEAD; a
complete reboot from HEAD with nobody else at the device resets it. Two commit objects
that agree in every byte (parent, tree, message and second) are one object of git and two
of the model.

`VersionedConfig` is what remains when the file, the processes and the ghosts are
forgotten: `commits`, `head`, `device`, and `published`, the commits that have been HEAD.
It has five steps. `Create` adds a commit that follows one that has been HEAD; if nobody
disturbed its file, and no write of its own was lost, it holds a configuration that was
accepted, and the very one of the commit it returns to.
`Publish` makes a commit HEAD that never was. `Give` brings one entry of a commit that
has been HEAD to the device; `Wipe` and `Boot` are the two halves of a reboot, which takes
any accepted configuration. `OoptCliHistory` adds the variable `published` to `OoptCli`,
which no command looks at, so that the two have the same behaviours: `Stage` is a `Create`,
`UpdateHead` a `Publish`, `ApplyOpt` and `ApplyIntf` a `Give`, `RebootBegin` and
`RebootEnd` a `Wipe` and a `Boot`, and everything else is invisible. What it does not
promise is what the code does not keep: that HEAD only moves on to a child, that the
device is given the latest HEAD, or that what it is given was validated.

### SonicVlan

`vlan` and `member` are the two tables; `old` and `new` the configurations of HEAD~1
and HEAD; `todo` the interfaces that are still to be handled; `queue` the redis
commands that the current call of `HandleInterfaceDiff` still has to issue; `fill`
the rows that `WriteToConfigDB` still has to write. The handler reads everything it
needs before it writes anything, so `Handle(i)` computes its commands (`Commands`)
and `Execute` issues them one by one; the members of a deleted VLAN go in any order.
`Fail` ends the command between any two of them, and before the first, which is a dry run
or a commit that is followed by a reboot; `IgnoredError` and `FillLost` are
the two places where the code drops an error, `HandlerPanics` is the conversion of a
missing member list. `other` stands for the leaves of an interface that the handler
does not look at but whose deletion it reacts to (description, mtu, port-speed; they
are deleted by a rollback or over gNMI). A member list is a set: nothing reads its
order. `Reboot` is the end of a commit with `--reboot`, of the configuration of HEAD, or
the reboot command, of what the working file holds: any of `Drafts` that `validateFinal`
accepts. Committed configurations are the ones it accepts.

What the ghost `mishap` names is what the handler gets wrong even when every command
succeeds: `cleared`, a connection that is gone keeps its VLAN; `deleted`, any deleted
leaf removes the VLAN of a connection that stays; `renumbered`, a new id. `uncommitted` is
a reboot that took connections HEAD does not have: the next commit is handed over as a
difference of two commits, and the tables hold neither of them. With a new
id alone the new VLAN loses its optical port, since the handler filters the old port,
which is the new one too, out of the member list; with a new id and a new channel the
old VLAN keeps the moved interface.

### OpticalTable

`row` is MODULE_CONFIG_TABLE, a record of fields per module; `file`, `head` and `prev` the
configurations of the working file, of HEAD and of its parent; `proc` the memory of each
process, at `log` (HEAD has moved, the difference is not read yet), `apply` (one
`HandleOptDiff` per module in any order), `wipe` and `fill` (one row per module in any
order, by `ConfigureTransport`). The translation from leaves to fields appears twice, as it does in
the code: `DiffField` for a leaf a commit changed, `BootRow` from a configuration whose
gaps `Filled` closes with defaults. A deleted leaf panics (`PanicOptDiff`). HMSET makes
the row it does not find and keeps the fields it does not name. An edit and the git half
of a commit are one step here.

A module may be absent from the list: its settings are then `NoEntry`, without leaves and
with `there` false. The commands refuse such a module; a gNMI request (`GnmiSet`) deletes an
entry, replaces it by one with nothing but its name, deletes single leaves, or writes a
number that the commands refuse, which makes the entry where there is none. A reboot writes
rows for the modules that are `Listed`, a commit for every module that has changed.

`owed` is the set of leaves that no write has brought to HEAD since they changed, or since
their module came into the list or left it, or over which another value was written;
`broken` is the set of modules that no solitary reboot has met in its configuration, and
come to its end, since redis last started.

### Reboot

`pod` is what kubectl knows: the image and the configuration a pod was created with and
whether it is `ready`. `spec` is the four spec files, which are only written when there is
none; `mapFile` and `map` the files of the two config maps and the maps kubectl has;
`rows` which configurations' rows are in the tables of redis since it started. `Torn`
is a file between `os.Create` and the write, or one that two writers have left. A process
walks through

    reboot   redis: get delete stat open write create
             transyncd: tables get ... create
             ofdpa (not with --virtual): openmap writemap map get ... create
             sonic: tables openmap writemap map get ... create
    init     wipe, then as reboot;   stop   get delete for each pod

and `Kill` ends it anywhere. A pod becomes ready by an action of its own (`RedisStarts`,
`SonicInit`), at any time: that is the five seconds, which may be too short, and the init
containers of sonic, which wait for redis and then write the rows of the config map they
were created with. An error of kubectl that the state explains (a pod that exists, a file
that cannot be read) ends the command with that `result`; any other is a `Kill`.

`Appliance` is the promise: the appliance carries traffic under one configuration that
somebody asked for, or under none, and is down in between. `Reboot` implements it with
`carries` mapped to the configuration of the sonic pod when redis, transyncd and sonic are
there and ofdpa, if it is there, was created with the same; otherwise to none.

### GnmiServer

`config` is `srv.config`; `file` is `config.json`; `set[h]` the Set a goroutine
serves, with the operations left, its copy of the tree and a program counter over the
callback (`create`, `write`) and its rollback (`undo`, `rewrite`); `get[r]` a Get with
the paths left and the answers so far. A tree is what its leaves hold. A path is the
set of the children of the node it names, each the set of the leaves below it: that is
what the difference between a replace (everything below) and an update (the children
it gives, each as a whole) needs. `Restart` kills the server and starts it from the
file: an unreadable file counts as an empty configuration, since the error of
`model.Unmarshal` is dropped in `run.go`, and an invalid one keeps it from starting.
`srv.config` is an interface value that is written and read without a lock; its
dynamic type never changes, so what is read is always one of the published trees.

The ghost `mishap` is the set of what makes the file differ from `srv.config`:
`overlap`, `partial` (a Set failed after it had written), `root` (a root delete calls
nobody back), `fault` (a lost write), `cli`, `torn` (started from an unreadable file).
A Set that ran undisturbed and wrote its last tree empties it, and so does a start
from a valid file.

`Datastore` is the server without its steps and its file: a Set takes a copy of the tree
when it begins, and either replaces the tree by what its request makes of the copy, or is
refused; a Get answers from the tree, and a restart finds an accepted one. That the tree
is still the one that was copied is not promised: of two Sets that overlap the later undoes
the earlier, which is what the code does. The mapping `Calls` shows of each Set that is
under way its request and the tree it copied, and nothing of where it is.

Four more things the server does not do as `gnmi.proto` has it are in the definitions
and are no property: a delete of the root replaces the tree and calls nobody back, so the
file keeps the old one (`Set`, server.go:309); a Get of several paths may answer them from
different trees; a request whose path is entirely in its prefix is about the root
(`FullPath`, server.go:148), and an update replaces the lists below the container it
names as a whole (`Written`, server.go:260).

### Transponder

`port` is the breakout of each port, `intf` the interfaces there are (`<<p, 0>>` is
`Ethernet<p>`, `<<p, n>>` is `Ethernet<p>_<n>`) with their speeds and connections,
`optical` and `allow` the settings that validation reads, `head` the ports and interface
names of HEAD, `table` what the pods of SONiC and of ofdpa were last booted with: the lanes of the SONiC
ports, and for each port of ofdpa its logical port, its number of channels and its speed
in Gbit/s. SONiC's half is computed from the interfaces, ofdpa's from the breakouts. A
command is one action, file included. `NumChannels`
refuses, as `ygot`'s NewInterface does, to create an interface that exists. A connection
whose three leaves are absent does not survive being written, so it counts as none.
`ValidateFinal` follows the code, the error for a channel without capacity before the
look at the permission to over-subscribe; speeds are in Mbit/s and the sums are integers,
which the floating-point percentage of the code represents exactly enough for every sum
of its speeds. A reboot is the end of a `Commit` that asks for one or that changes a port, or
the command itself, `RebootCmd`, of the working file, committed or not. It ends at one of
three stages: before ofdpa is started (also a dry run, an error or a panic of a handler),
between ofdpa and SONiC, or when all is done; with --virtual it leaves ofdpa as it was.
`GnmiSet` writes the breakout of a port and nothing else. The ghost `drift` names what keeps
the tables from HEAD: `gnmi`, such a Set, for good; `lost`, a commit or a reboot that ended
early; `uncommitted`, the last reboot took ports or interfaces that HEAD does not have;
`virtual`, it left ofdpa out. A reboot that comes to its end forgets the last three of
earlier ones. There is no rollback here: to this module it is edits and a commit.

Left out of the model are the modes with two channels, which `validateFinal` accepts
(main.go:139) and the command refuses with a message that offers it (main.go:488-489), and the leaves
that nothing validates. One more divergence is in the definitions and is no property:
with over-subscription allowed a connection to a channel without capacity is refused
all the same (transport.go:172-175).

## 3. The runs

| run | instance | states | shows |
|---|---|---|---|
| `cli_one` | one process; an optical setting, an interface, a port; three commits; every flag | 0.27 million | the device follows HEAD through every kind of entry, flag and reboot, killed anywhere; the refinement of `VersionedConfig`; and the liveness property |
| `cli_two` | two processes; an interface and a root leaf; three commits | 4.3 million | two commands that interleave at every step: what is committed was validated, rollbacks restore, edits keep the rest, history grows, the device follows; and the refinement |
| `cli_handed` | two processes, one interface | stops | an unvalidated configuration reaches the device handlers |
| `vlan` | two interfaces, two optical ports, two ids, two commits; a working file with any connections of distinct ports | 5.0 million | handler and rewrite agree; panics are second; other interfaces keep their VLAN |
| `vlan_one` | the same, two commits | stops | an interface is in two VLANs |
| `optical` | two modules, two processes, a value beside the default for each leaf, commands about one module, gNMI requests about both, four in all | 0.82 million | the two translations agree; what may differ from HEAD; when a row may be incomplete; solitary reboots fill, solitary commits deliver |
| `reboot` | two processes, two configurations, two commands, both values of --virtual | 0.59 million | a solitary reboot takes, commands heal what others left, images follow the flag, no stale rows; the refinement; and the liveness property |
| `gnmi_one` | one Set at a time, seven requests of every kind, an oopt edit | 60 thousand | acknowledged Sets take effect; file and tree agree; the server can restart |
| `gnmi_two` | two Sets and a Get of two paths | 1.4 million | the same under interleaving; a Get answers from published trees; the refinement of `Datastore` |
| `gnmi_transaction` | one Set | stops | a failed Set leaves a part of itself in the file |
| `transponder` | two ports, two speeds, one module, two ids; a lane and a port that get connections; every reboot, --virtual and not, ended at every stage | 0.11 million | interfaces follow breakouts, tables follow HEAD and agree with each other, lanes differ, what is accepted fits |
| `transponder_breakout` | the same | stops | a breakout over gNMI is committed without its interfaces |

A run that "stops" looks for one documented statement that the code does not keep, and
finds a behaviour that violates it; `PROJECT.json` quotes the statement.

**Bounds.** Three commits are the first, one to diverge with and one to make it good,
which is what a rollback that walks two steps back needs; in `OoptCli` the bound keeps
commands from starting as well, commits and rollbacks that could not make a commit any more.
`SonicVlan` has two commits, with which all its mishaps are reached; `Drafts` of distinct
ports are what a reboot needs to put a row where HEAD has none, or none where HEAD has one,
and the proof is for any. Two processes are enough for every interleaving hazard listed: each is about
one command between two steps of another. One entry of each kind is enough because
entries of one kind are handled alike and independently; `cli_two` keeps only the
interface and the root leaf, whose validity depends on each other, so that one
operator's edit can make the other's invalid. In `SonicVlan` two interfaces, two ports
and two ids allow a swap of ids, a swap of ports and a shared port. In `GnmiServer`
three leaves are a list of two and a leaf beside it, and one value is refused for one
leaf; the oopt edit is left to `gnmi_one`, since what it disturbs it disturbs for one Set as
for two. In `Transponder` two ports are what shares a channel, 100 + 100 and 25 + 100 Gbit/s
are more than it carries and 25 alone is less; `DriftBound` follows a state in
which something in `drift` keeps the tables from HEAD only while nothing is connected and
nothing is set at the modules or the root: the tables depend on neither. In `Reboot` two commands are one that
fails and one that is to mend it, or two that overlap, and two configurations tell the old
from the new; in `OpticalTable` four are an edit or a request, a commit, one that overtakes or wipes,
and one that mends; or an entry deleted, a reboot without it, an entry made again and a
commit. `OverlapBound` lets two processes overlap within the first three, which is enough
for one to come between any two steps of the other after something was changed; the fourth
runs alone. Commands are about one module and requests about both, since the rows of two modules
meet only in a reboot. The proofs about both are for any number. Symmetry is over processes, handlers, interfaces, ports and ids, which nothing
tells apart, and is not used in the run with a liveness property. `MaxCommits` guards
`CommitRead`, `RollbackRead` and `Stage`, and the commit of `SonicVlan`; in `OoptCli` the
bound is on commit objects, those that never became HEAD included. `MaxCommands` of
`OpticalTable` counts edits and requests too.

**Deadlock** is not checked in the runs of `OoptCli`: a first edit that is killed
between truncating and writing leaves an empty file and no older commit, and then no
command can get past reading (`oopt init --force` would be needed). `MaxCommits` stops
it too, and so does `MaxCommands` in the runs of `OpticalTable` and `Reboot`.

**Fairness.** `FairSpec` has weak fairness on `Advance(p)`, the steps of a command that
is under way, for every process. A command waits for no other command and for no lock,
so a process that the operating system schedules gets on; calls to redis, git and
kubectl return or fail, and a failure is `Abort`, which is not assumed to happen.
Nobody is assumed to start a command. `CommitReachesDevice` needs no more: once the
branch is moved, either a named mishap has happened or the device comes to carry HEAD.

`Reboot` has weak fairness on `RedisStarts` and `SonicInit` only: Kubernetes starts the
containers of a pod it has accepted. No command is assumed to get on. `RowsArrive` needs
this alone: the rows of a reboot that came to its end are in CONFIG_DB eventually, though
`WriteToConfigDB` may have written none of them, unless another command starts first or an
older sonic pod was still initialising.

**The properties.** The safety properties have the form "unless", because most of what
one would like to say of unlocked files and unchecked writes is false. Each names the
exceptions:

- `OoptCli`: another process wrote the file, or the own write was lost (`fresh`); two
  commands overlapped (`alone`); `cause` (a command that ended half way, a panic, a dry run,
  an overlap, a boot of what was not committed, an unreadable commit). A connection that is
  cleared is not asked of the device at all.
- `SonicVlan`: `mishap` (cleared, renumbered, deleted, uncommitted, fault, panic; a panic is
  never the first, which `PanicIsSecond` shows).
- `OpticalTable`: `owed`, `broken`, and `alone`.
- `Reboot`: `alone`, `torn`, `late`; ofdpa under --virtual.
- `GnmiServer`: `mishap` (overlap, partial, root, fault, cli, torn) and `alone`.
- `Transponder`: `drift` (gnmi, lost, uncommitted, virtual).

The properties say that, of what these models contain, there is no other way in which the
system loses track; section 5 has what they do not contain. Where an exception is a mistake
of the code that happens every time (a cleared connection, a deleted leaf, ofdpa under
--virtual), the property does not catch it: it says that the damage goes no further.

## 4. The proofs

`tlapm` proves the following for every value of the constants: any number of processes,
entries, interfaces, ids, leaves and goroutines, any edits and requests, and any bound
on the commits. The assumptions are the named ones in the modules: sets of entries are
disjoint, the special values are outside the data, defaults and initial trees are
valid, edits and requests are about existing entries. Every safety property of a passing
run is proved, and both refinements.

| theorem | states |
|---|---|
| `OoptCliProofs!TypeCorrect` | `[]TypeOK` |
| `OoptCliProofs!Validated` | `[]CommittedAsValidated` |
| `OoptCliProofs!Restored` | `[]RollbackRestores` |
| `OoptCliProofs!RestKept` | `EditKeepsTheRest` |
| `OoptCliProofs!Followed` | `[]DeviceFollowsHead` |
| `OoptCliProofs!Grown` | `HistoryGrows` |
| `OoptCliHistoryProofs!HistoryImplements` | `ImplementsVersionedConfig` |
| `SonicVlanProofs!TypeCorrect` | `[]TypeOK` |
| `SonicVlanProofs!UnchangedKept` | `UnchangedInterfacesKeepTheirVlan` |
| `SonicVlanRowsProofs!DiffIsReboot` | `[]DiffEqualsReboot` |
| `SonicVlanRowsProofs!PanicSecond` | `[]PanicIsSecond` |
| `OpticalTableProofs!TypeCorrect` | `[]TypeOK` |
| `OpticalTableProofs!StrayFields` | `[]StrayFieldsAreOwed` |
| `OpticalTableProofs!CompleteRows` | `[]RowsComplete` |
| `OpticalTableProofs!RebootFills` | `SolitaryRebootFills` |
| `OpticalTableProofs!Delivery` | `CommitDelivers` |
| `RebootProofs!TypeCorrect` | `[]TypeOK` |
| `RebootProofs!RebootTakes` | `[]UndisturbedRebootTakes` |
| `RebootProofs!FlagFollowed` | `[]ImageFollowsFlag` |
| `RebootProofs!RowsAreClean` | `[]NoRowsOfOthers` |
| `RebootProofs!CommandsHeal` | `RerunHeals` |
| `RebootProofs!Implements` | `ImplementsAppliance` |
| `GnmiServerProofs!TypeCorrect` | `[]TypeOK` |
| `GnmiServerProofs!FileFollows` | `[]FileFollowsServer` |
| `GnmiServerProofs!Restartable` | `[]ServerCanRestart` |
| `GnmiServerProofs!GetPublished` | `[]GetReturnsPublished` |
| `GnmiServerProofs!EffectTaken` | `SetTakesEffect` |
| `GnmiServerProofs!ServesDatastore` | `ImplementsDatastore` |
| `TransponderProofs!TypeCorrect` | `[]TypeOK` |
| `TransponderProofs!PortsMatch` | `[]InterfacesMatchPorts` |
| `TransponderProofs!TablesFollow` | `[]TablesFollowHead` |
| `TransponderProofs!LanesUnique` | `[]LanesDistinct` |
| `TransponderProofs!TablesGoTogether` | `[]TablesAgree` |
| `TransponderProofs!Fits` | `[]ValidatedFits` |

**OoptCli.** One lemma per action (`...Effect`) states what it leaves of the process
records; every later proof uses these and not the record updates. Three invariants are
built on each other. `TInv` is the types, with what the program counter says of the
commit numbers in a record. `FInv` is about the file: a process that is still `fresh`
finds in the file what it has in memory (or, while it holds the file open, what it
truncated), so what it commits is what it validated; `lastGood` is the file whenever
the file is readable. `DInv` is about the device: with no mishap so far, at most one
process is in its device phase, and the device carries HEAD except for the entries
that are in its `tasks` (or, while it boots, for everything). Without `tasks` the
statement is not inductive: between two hand-overs the device is neither the old nor
the new configuration.

The refinement of `VersionedConfig` adds `HInv`, about the commits that have been HEAD:
they include every parent (`HistoryKnown`); the commit a process is about to publish is not
among them and no other process holds its number (`Apart`, which rests on the numbers in
`TInv`); what a process rolls back to or hands to the device is among them, and what it may
boot was accepted (`Holds`). A rollback finds its commit by walking back from HEAD,
`Before`, a recursive function; that the walk never leaves the commits that have been HEAD
(`BeforeStays`) is by induction on its length, first that the function exists (`WayExists`),
then what it passes. `AllNumbers` is the induction, stated for a set of numbers and proved
from the well-foundedness of `<`. Without `FInv` a `Create` could not be shown to hold what
was accepted, without `HInv` no `Publish` to be the first of its commit: HEAD is set without
looking at what it names.

**SonicVlan.** `VInv` says that the queue holds only commands that are foreign to the
VLANs of unchanged interfaces. That is inductive because the ids of the two commits are
distinct among connected interfaces: the old VLAN of a changed interface may be the new
one of another changed interface but never that of an unchanged one, and the optical
ports come with the VLAN name in their keys.

That handler and reboot write the same rows needs to know what the tables hold half way
through a commit, when they are those of neither configuration. `RowsInv` gives every
interface its connection so far (`Cur`: the old one while it is in `todo`), every VLAN the
ports of its users so far (`Ports`; an interface that joins may share a VLAN with one that
has yet to leave), and says: outside a call every row is that; within a call the last
command of the queue makes the one row it is about so (`Finishes`), and the members table
is so once the pending commands are carried out (`MembersFit`); during a reboot what is not
so yet is still to be written (`Filling`). Distinct ids enter twice: a new channel under a
kept id may rewrite the whole row only because nobody else can have that id before or after
the commit, and at rest a VLAN has one user, so `Ports` is what `WriteToConfigDB` writes. A
panic would have to be in a queue that `RowsInv` excludes it from.

**OpticalTable.** `IInv` adds to the two invariants what a process knows that nobody
overlaps: `Filling`, the rows it has passed are those of its configuration; `Applying`, so
are the leaves of the modules it has passed; and that of two running processes neither
counts as alone (`Exclusive`). The heart is that the two translations agree leaf by leaf
(`DiffField` of a changed leaf is that field of `BootRow`), which is what lets `StrayFieldsAreOwed`
survive a commit that ends anywhere. A leaf is only ever written for a module that is in the
list, since the others have no leaves.

**Reboot.** `Base` is the types, which step a process can be at with what in its hands, and
that every configuration and image anywhere was asked for; the refinement follows from it
alone, since `Carried` changes only where a pod comes or goes. `Quiet(p)` is what a process
that nobody overlaps knows: the pod and the files it is at are as it left them (`OwnPod`,
`OwnFiles`), the pods behind it are as they should be (`Behind`). That gives `RerunHeals`,
and at the last step `UndisturbedRebootTakes`, which then holds until the next command
starts, since the actions of Kubernetes only make pods ready.

**GnmiServer.** `GInv` says what an undisturbed Set knows of the file at each program
counter: it is empty while it is being written, it is the Set's own tree after that, and
it is `srv.config` as long as nothing was written. A Set that is not alone any more
knows nothing, and the ghost has recorded the overlap. `ReadersInv` says that the
answers of a Get are from trees in `held` and that the current tree is among them.
`SetTakesEffect` speaks of the last operation about a leaf while the server applies one after
the other; `ProgressInv` joins the two: what the operations that are left make of the copy is
what the whole request makes of the tree that the Set began with. It rests on `LastWordJoined`
(the last word of two sequences joined is the second's, where it has one), which needs the
largest of a set of indices (`LargestOf`, from the well-foundedness of `<`, since the sets are
not of a known size). At `Publish` nothing is left (`PublishedOutcome`), and with `Alone` that tree is
`srv.config`. `ServesDatastore` needs no `Alone`: a Set that was overlapped publishes the
outcome of its request as well, on the tree it copied. Beginning, publishing and every way
of ending otherwise are the steps of `Datastore`; a step at the copy or at the file keeps
what the mapping shows of each Set (`Kept`).

**Transponder.** `TableInv` adds to the properties that the interface names of HEAD are
those of its ports (`HeadMatches`): a commit compares ports only, and only with that do
equal ports mean equal tables; and that the last reboot to come to its end gave SONiC and
ofdpa the same tree (`BootedTogether`), HEAD's or not. `LanesOfOne` is the fact about breakouts it rests on, a
change of one port changes its own lanes and no others; `LaneInjective` is the arithmetic
of the lane numbers, for ports 1 to 16 and module ports 17 to 32, and `OfdpaPortInjective`
goes through ofdpa's table of 32 logical ports. `TablesAgree` follows from `BootedTogether`
and from that HEAD was accepted. `ValidatedFits` holds in every state
that is well formed; what it needs is that a sum of speeds is zero only when there is
nothing to sum. The sum takes one element after the other from a set, in no particular
order (`MapThenSumSet`): `SumExists` shows that this defines a function, layer by layer of
the subsets by their size, and `LoadPositive` that its values are as said, both by
`AllNaturals`, induction for a set of numbers.

**Only model-checked.** `CommitReachesDevice` and `RowsArrive` (liveness is out of the
prover's reach), and what the stopping runs show.

## 5. What is not modelled

- The index of git, which two commits share. Staging reads the file and writes the index, and
  the commit object is made from the index. The file that a commit object holds is in the
  model the one at `Stage`; in the program it is the file as it was at some time since the
  commit began, which is the same behaviour with `Stage` at that time. The exception is a
  second commit whose staging has read the file before that and writes the index after the
  first has staged: the first then commits the older file. No property here is about that.
- `kubectl get cm` and the `kubectl replace` or `create` that follows it (k8s.go:53-57) are
  one step, `ApplyMap` of `Reboot`. Between the two another command can only make the map,
  and then `create` fails, which is an end of the command like any `Kill` there.
- Rollback in `Transponder` and in `SonicVlan`: to the tables it is a commit of a tree that
  edits could have made.
- That `init --force` removes the git objects under a commit that is running. What it does
  to the files and pods of a reboot is in `Reboot`.
- `dump` and `diff`, which only print.
- Schema validation, two-channel breakouts, and the values of the description and the mtu
  of an interface, which nothing looks at (that deleting them matters is in `SonicVlan`).
- The text of the templates; `FillTransportState`, which only reads; the `@` by which redis
  field names mark a list, since each field is always written in one form.
- How a redis pod that dies on its own comes back: nothing in the repository deals with it.
- `Capabilities` and `Subscribe`, which keep nothing; the clients, which send one request
  each; generated and vendored code.

## 6. Plan

In this order:

1. The gNMI server as one more process on the file of `OoptCli`, in place of the atomic
   `CliEdit`, and the removal of the repository by `init --force`.
2. The rows of `SonicVlan` and `OpticalTable` shown to implement an entry of the device
   of `VersionedConfig`, for commands that nobody overlaps.
