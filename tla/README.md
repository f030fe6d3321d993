# A TLA+ specification of the group-share filesystem

One *master* node keeps the metadata of a group: a tree of the files that all
nodes share, and a table of hosts. A *standby* node connects to the master,
sends its own metadata, and gets an id and the merged metadata back. Whenever a
standby joins or leaves, the master sends the new metadata to all standbys. Files
are read over SSH from the node that has them. Every node mounts the tree with
FUSE.

The modules here model the whole program, from the command line to the bytes of a
read: the group protocol, the byte stream below it, and the file operations of a
mounted node. TLC checks small instances. TLAPS proves every safety property and
both refinements for every size; liveness stays with TLC, and the start of the
program is covered by proofs alone.

Source paths are below `src/src/` unless they say otherwise.

## The system

| Part | Source | State | Operations | Here |
|---|---|---|---|---|
| Metadata tree | `dir_tree.*` | tree of nodes with type and owner | setHostID, removeOf, removeNotOf, hasConflict, merge, find, (de)serialize | `DirTree`; find in `FileAccess` |
| Host table | `host.h` | vector of hosts | push, index, (de)serialize | in `MasterNode`, `StandbyNode` |
| UserFS, master | `user_fs.*` | `_dir_tree`, `_hosts`, `_max_host_id` | init, newConnection, disconnect(handle), sendUpdate | `MasterNode` |
| UserFS, standby | `user_fs.*` | `_host_id`, `_dir_tree`, `_hosts`, semaphore and flag | init and wait, slaveRecognized, updateInfo, disconnect | `StandbyNode` |
| TCPMasterMessager | `tcp_messager.*` | acceptor, `_connections` with a sending queue each | start, accept, read, write, writeTo, close, stop | `MasterNode` |
| TCPSlaveMessager | `tcp_messager.*` | socket, `_write_packets` | start, connect, read, write, stop | `StandbyNode` |
| TCPManager | `tcp_manager.*` | chooses the messager, dispatches packets | initialize, start, write, writeTo, close, read | folded into the two nodes |
| Packet framing, byte order | `tcp_messager.h`, `tcp_manager.*`, `bytes_order.h` | none | encodeData, decodeSize, read, conversions | `ByteOrder`, `Framing`, `PacketStream` |
| UserFS::find, read | `user_fs.cc` | `_dir_tree`, `_hosts`, `_ssh_manager` | find, read | `FileAccess` |
| FUSE interface | `fuse_interface.*` | none of its own | getattr, readdir, open, read | `FileAccess` |
| SSHManager | `ssh_manager.h` | session per host | findHost, insertHost, read, destructor | `FileAccess` |
| SSHSession | `libssh_wrapper.*` | three handles, path of the open file | read, connect, disconnect | `SSHSession` |
| Options, main | `option_parser.*`, `gsfs.cc` | parsed values | parse, fork, set up step by step | `Startup` |

The parts meet in three places. `Startup` ends where `Group` and `FileAccess`
begin. `PacketStream` shows that a connection carries whole packets in order, which
`Wire` takes for granted. `FileAccess` takes from `Group` that each node of a
standby's tree has its host in the table and that the table only grows
(`HostsResolve`, `HostsGrow`; `ViewsAssumption` in `FileAccess`). All of this is
proved; what concerns the table holds if no standby registered too early.

What makes it hard:

- **Two threads per process.** The main thread starts the network thread before
  it has finished its own initialisation. The master's push of its host entry and
  the standby's serialisation of its metadata both come after that start.
- **Handlers in any order.** One connection has a read, a write and posted
  functions under way. Closing a socket aborts what is pending, but an operation
  that has finished still gets its handler, later, with its result.
- **Failure at any point.** A standby may exit, the master may exit, or a
  connection may go silent before, during or after a join.
- **Stale metadata.** Packets carry the whole tree and table of one moment and
  wait in a post queue, a sending queue and the kernel.
- **Many FUSE threads.** They share the tree, the host table and the SSH sessions
  with each other and with the network thread, mostly without a lock.
- **Half-made connections.** Making an SSH connection takes five steps; each may
  fail, and the handles of an earlier connection may still be there.

## Modules

- `DirTree`: the tree as a function from paths to nodes, and its operations as
  pure operators. `HasConflict` keeps the loop of the code with its bounds.
- `Wire`: the three packet types and the two ends of a TCP connection, per
  standby. It also lists what is assumed of asio and the kernel.
- `MasterNode`: one action per step of the master's main thread and per handler
  of its network thread.
- `StandbyNode`: the same for the standbys. `sb[s]` is the process state of `s`.
- `Group`: the composition, its fairness, and all properties.
- `Broadcast`: what the group promises about metadata, without sockets, queues,
  handlers or threads. `GroupRefinement` maps `Group` to it.
- `MCGroup`: the shared files of the instances that TLC checks.
- `ByteOrder`: the conversions of `bytes_order.h`, for a byte of `Base` values.
- `Framing`: how a message becomes the bytes of a packet and is taken apart.
  `PacketStream`: one direction of a connection in bytes, cut up anyhow.
  `PacketChannel`: whole messages, which `PacketStream` implements. `MCStream`: the
  instance.
- `SSHSession`: the steps of a FUSE thread inside `SSHSession::read`.
- `FileAccess`: FUSE callbacks, `UserFS::find` and `read`, `SSHManager` and the
  network thread of a mounted standby. `MCFileAccess`: views, files and requests.
- `Startup`: the command line, the fork and the calls that set up `UserFS`.
- `GroupProofs`, `StepProofs`, `FlowProofs` (each extends the one before),
  `CatchUpProofs` and `BroadcastProofs` (both extend `FlowProofs`), `StreamProofs`, `FileProofs`, `StartupProofs`: proofs.

How the state of `Group` corresponds to the code:

- `conn[s]` is the tuple of `s` in `_connections`: `id` is its slave id, `queue`
  its sending queue. `rd` and `wr` are the operations asio holds for it. `wr` is a
  sequence because after a close a second write can be started while the handler
  of the first is still to run.
- `posted` holds the functions given to `io_service::post`, in order.
- `main` is where the master's main thread is. Its unlocked `push_back` takes two
  steps. If the network thread pushes in between (`colliding`), either entry may
  be lost. `raced` is a history variable: a standby was registered before the
  push was over.
- A read that has finished and one that is pending differ only when the socket is
  closed, so `Aborted` and `AbortRead` choose there.
- `front()` of an empty queue is undefined in C++. `MasterOnWrittenStale` lets the
  process die, or the handler go on to `close()`, which then does nothing.
- A process lives once. A node that comes back is another member of `Standby`.

Names are numbers, types keep the seven kinds of `initDirTree`, and the fields
that only `stat` shows (size, times, mode) are left out. Serialisation keeps every
field that is modelled, so a packet holds the tree itself.

And that of `FileAccess` and `SSHSession`:

- `th[t]` holds the locals of a FUSE thread. `pc` names the next call. A step is one
  call into libssh or into a container, with the assignments around it.
- `th[t].node` is the pointer that `find` returned. `dead` says that the node has
  been freed since. The network thread takes the lock in one step, freeing nodes,
  and gives it back in another; `updating` says what it does in between.
- `link` follows the connection to the master. `disconnect()` is called once for a
  failed read and once for a failed write, and a packet that had been read when the
  socket was closed is still handled, so an update may come between the two.
- `session[id]` is an `SSHSession`. A handle is null, unset (the constructor sets
  none) or the number of a connection in `conns`. `conns[c].parts` says which of the
  three libssh objects of `c` exist, and `conns[c].to` where it goes. A connection that no session refers to any more
  stays in `conns`.
- A local read that finds no file returns no bytes; one that fails in an open file
  returns an error, as `bad()` says (`user_fs.cc:194`).
- `disconnect()` is four steps, because it releases an object before it forgets the
  handle, and other threads use the session meanwhile.
- libssh is external. Assumed: a call on a valid handle does its job or fails, a
  null handle makes it fail or do nothing (`sftp_seek64`, `ssh_free`), and a file
  handle has one position.
- Undefined behaviour (a freed node, a table read while it is replaced, a map used
  while it is changed, a handle that is freed or unset) sets `crashed` and ends the
  behaviour. For the table and the map the ordinary step is possible as well; a
  freed node or an invalid handle always ends it.
- A file is a number of blocks and a read is for one block. `MCSize` is what the
  owners really have; the tree's sizes agree with it.
- `_host_id` is a constant: the recognition that gives a mounted standby its id has
  been handled when the model begins. A recognition that is handled after a
  `disconnect()` is in `Group` only.

And that of `PacketStream`: `queue`, `wire` and `buffer` are the bytes in the three
places where they can be, `phase` is the read under way. Either end may close its
socket (`writerEnd`, `readerEnd`). A read of the reader that was already complete then
still gets its handler; any other ends in the error branch.

## Runs

`CHECK_DEADLOCK` is off: all processes may have ended, or be idle, for good.

| Run | Instance | Distinct states |
|---|---|---|
| `churn` | 2 standbys, both may exit | 131 365 |
| `faults` | 2 standbys, one may exit; a cut, master exits, clashing name | 684 865 |
| `early_start` | 2 standbys, one may exit; they may start before the master serves | 1 627 458 |
| `live` | 2 standbys, one may exit; master exits, fairness | 40 553 |
| `stream` | one connection, either direction, 2 messages, bytes of one bit | 89 500 |
| `read_path` | 1 FUSE thread, 3 requests of 13 kinds, an update, a disconnect, one failing call, one closed connection, one removed file | 2 241 657 |
| `fuse_threads` | 2 FUSE threads, 2 requests of 3 kinds, updates meanwhile, one closed connection, fairness | 261 068 |

### The group

Safety, in `churn` and `faults` (the starred ones also in `early_start`):

- `TypeOK`: trees stay trees all the way through packets and queues.
- `OwnersRegistered`*: each node of the master's tree belongs to the master or to
  the connection that carries its id, and no two connections share an id. So
  `disconnect(handle)` removes all that came with the id it resets, although
  `removeOf` looks only at the root's children. (The connection may be closed
  already, and then nothing calls it again: see `zombie`.)
- `HostsResolve`: a mounted standby finds, for each node it shows, that node's
  host at the index where `UserFS::read` looks.
- `HostsGrow`: a standby's host table is only ever extended. `UserFS::read` keeps
  an SSH session per id and relies on this.
- `ViewsCatchUp`*: the last packet on its way to a registered standby, or the
  standby's own state if there is none, is the master's current metadata.
- `WriteInProgress`*: an open connection has one write in progress if its queue
  holds a packet, and none otherwise.
- `NoLostWakeup`*: a main thread that the network thread has released finds the
  semaphore posted.
- `AloneAfterDisconnect`: a standby that lost the master and has nothing left to
  handle shows only its own files. Handlers still under way when the socket was
  closed do not bring the group's files back.

`HostsResolve` and `HostsGrow` exempt the states after `raced`; what happens there
is the finding of `host_race`. `ViewsCatchUp` exempts only the host table.

Liveness, in `live`:

- `MainReleased`: a standby that waits is recognised or told of the failure.
- `Departed`: the files of a registered standby that leaves vanish for good from
  the master and from every standby that stays connected.
- `Converges`: when nodes have stopped coming and going, every registered standby
  that is still linked shows the master's metadata for good.

Refinement, in `churn`: `ImplementsBroadcast`. To a linked standby
each version of the metadata comes that the master publishes, in order, none
skipped. None is repeated either, but for the version of its own registration, which
comes with its id and as an update. A new link starts with exactly the versions that
are still posted when it is accepted (`recent`): those reach it although they are
older. The mapping counts as coming what is posted, queued, in the kernel or read.

*Fairness.* A thread that can run does; an operation that can finish does; its
handler is run. That is what the scheduler and `io_service::run` give. Nobody has
to start or to end a process. An accept that fails changes nothing and is tried again;
that it succeeds in the end is assumed. The report of a cut connection is not fair: the
code sets no timeout and no keepalive. That is why `live` has no cuts.

*Bounds.* `MaxCuts` limits the cuts, `MayExit` and `MasterMayExit` say which
processes may end, and `EarlyStart` whether standbys may start early. Nothing else
is bounded: a standby joins once, so every queue is finite. Two standbys are
enough for a packet of one to meet the join, the close or the write of the other,
which every property here is about. The proofs cover larger groups.

### The byte stream

- `StreamTypeOK`: bytes everywhere; a read never takes more than it was started for.
- `JustFits`: the fields that `TCPManager::read` finds by their lengths end exactly
  where the packet does.
- `ImplementsChannel`: the reads of headers and bodies recover the messages that
  were sent, whole and in order, and make the calls they stand for. When the writer
  closes, what it had written to the end still arrives. When the reader closes, at most
  the message it had just read to the end does.
- `Handled`: every message is handled unless the connection ends.

*Fairness.* The kernel moves bytes as long as both ends are open, and
`io_service::run` calls handlers. Nobody has to write or to close.

*Bounds.* `MaxSent` messages on a connection and `Window` bytes in the kernel.
Two messages are enough for the end of one to be taken for the beginning of the
other, and nine bytes for a whole size field and the first byte of what follows.
`Base` is 2, since the code does not depend on the size of a byte; the data are then
longer than one byte can count.

### File access

- `FileTypeOK`: handles, pointers and ids refer to what was made.
- `RightBytes` (one thread): a read returns the block that was asked for, from the
  file of the node's owner, whatever the session had open before.
- `ErrorsExplained` (one thread): a read fails only if the node's own file could not be
  read, or if making a new connection failed or that connection was lost. A connection that the server had closed
  before is replaced silently.
- `NoFreedHandle` (one thread): no libssh object is used or released after its
  release, although `do_connect` overwrites the handles of an open connection and
  may stop at any step.
- `RightHost` (two threads): the bytes of a read are from the machine that the host
  table names for the node's owner, also if another thread uses, closes and opens again
  the same session. In this instance the node itself has a file with the path of the
  late host's, so the wrong machine could answer.
- `SessionKept` (two threads): a host from which a file was once opened has no unset handle any
  more. Its session is not made again, also when two threads both found none.
- `CallsReturn` (two threads): every request is answered, unless the process has died.
  A read that fails is tried once more, on a new connection, and not again.

With two threads `RightBytes`, `ErrorsExplained` and `NoFreedHandle` do not hold: the
sessions have no lock, and threads that share one may get each other's file and place.

*Fairness.* Each FUSE thread goes on if it can, and the network thread gives the
lock back. libssh calls are assumed to return; the code sets no timeout of its own.
Nobody has to ask, to update or to fail.

*Bounds.* `MaxCalls` requests, `MaxFaults` calls that fail for no modelled reason,
`MaxDrops` connections closed by servers, `MaxGone` files removed, and `Overlap`:
whether metadata may change during a request. `read_path` has no overlap, because
a node freed during a request ends the behaviour (see below). Three requests are
enough to open a file, open another over it and come back; one fault is enough to
stop in each step in between. `fuse_threads` has two requests, one for each thread or
one after the other, and one connection that its server closes, so that a read fails
and is tried again while another thread uses the session. There is one update that adds a host and one
disconnect.

## Where the code and its documents disagree

Each of these runs ends in a counterexample.

- `conflict`: `hasConflict` sets the end of its first range to `begin()`
  (`dir_tree.cc:47`). It never finds a conflict (`ConflictsUnseen` proves it), and `merge`, commented "assert no
  conflicts", drops the entries whose names are taken.
- `late_metadata`: a standby serialises its metadata after its network thread has
  started (`user_fs.cc:149`). An update that arrives first replaces it, and the
  standby sends the group's files as its own.
- `host_race`: the master's own host entry is pushed without the lock after the
  network thread has started (`user_fs.cc:141`). A standby may take index 1.
- `stale_write`: a write that had finished when `close()` emptied the queue runs
  its handler on the empty queue (`tcp_messager.cc:315`).
- `zombie`: a join that had been read when its connection was closed is registered
  afterwards (`user_fs.cc:325`). Nothing removes these files again. The run is fair
  and has no cuts.

The models reach more that a reader of the code should know of. No run claims it:

- `network_to_host_64` never uses the highest byte (`bytes_order.h:122`), as
  `Lossless64` says. Harmless as long as numbers are below 2^48. Bytes are sent
  lowest first where a comment says big endian (`bytes_order.h:103`); both ends agree.
- `find` returns a pointer into the tree and drops the lock (`user_fs.cc:171`). The
  callback may read a node that an update has freed: `crashed = "node"`.
- `UserFS::read` reads `_hosts` without the lock (`user_fs.cc:180`):
  `crashed = "hosts"`.
- The map of sessions has no lock either: `crashed = "map"`. Two first reads from a
  host may both find no session; the second insertion fails its read.
- A first connection that fails closes handles that were never set
  (`libssh_wrapper.h:59`): `crashed = "unset"`.
- A read of another file overwrites the handles of a connection that is open
  (`libssh_wrapper.cc:52`). Nothing closes it any more.
- Threads that read one file share its handle and position (`libssh_wrapper.h:43`).
  One may get the other's block, or use what the other has freed:
  `crashed = "freed"`.
- A local file that is gone reads as empty (`user_fs.cc:194`).
- An entry that has no size, such as a FIFO, or that cannot be looked at or opened,
  such as a link to nothing or a directory without permission, ends the daemon after
  the command has reported success (`user_fs.cc:100`).

## Proofs

### The group

For every finite or infinite set of standbys, all shared files that satisfy
`SharedAssumption`, and all values of the bounds, these hold of `Spec`:

| Theorem | Module | States |
|---|---|---|
| `Invariance` | `GroupProofs` | `[]IInv`, the inductive invariant |
| `TypeCorrect` | `GroupProofs` | `[]TypeOK` |
| `Ownership` | `GroupProofs` | `[]OwnersRegistered` |
| `OneWrite` | `GroupProofs` | `[]WriteInProgress` |
| `Wakeup` | `GroupProofs` | `[]NoLostWakeup` |
| `LostStandbyIsAlone` | `FlowProofs` | `[]AloneAfterDisconnect` |
| `ShownHostsResolve` | `FlowProofs` | `[]HostsResolve` |
| `HostTablesGrow` | `CatchUpProofs` | `HostsGrow` |
| `NobodyLeftBehind` | `CatchUpProofs` | `[]ViewsCatchUp` |
| `GroupImplementsBroadcast` | `BroadcastProofs` | `ImplementsBroadcast`, if `~EarlyStart` |

`ConflictsUnseen` (`GroupProofs`) is about the operator alone: `HasConflict` of any two
trees is empty.

The assumptions are those of `Wire`: a shared path is a nonempty sequence of names,
what has entries below it is a directory, the master is not a standby, and the
number of cuts is a natural number. The refinement also assumes that standbys start
when the master serves (`~EarlyStart`, as in the run `churn`). Otherwise a
standby may register before the master's main thread has pushed its own entry, a
change of the table that nobody is told of. For the same reason `HostsResolve`,
`HostsGrow` and the tables in `ViewsCatchUp` are about behaviours without that race.

*`IInv`.* None of the first four properties is inductive alone. `IInv` adds:

- `TypeInv`: exact types, among them that every host table is nonempty, since the
  code reads `_hosts[0]`, and that a tree contains the root child above each path.
- `ConnInv`: what a connection looks like while it is open, before it is accepted
  and after it is closed. A closed one may have several writes to account for.
- `OwnerInv`: in the master's tree a node has the owner of its root child. That is
  why erasing root children erases all nodes of an owner.
- `JoinInv`: a join is in at most one place (to be sent, posted, queued, in flight
  or used up). So a connection is registered at most once. Without it a second
  registration would overwrite the id and leave the first set of files unowned.
- `ProcInv`: flag, semaphore and main thread of a standby fit together.

There is one lemma per action; what handlers share, `close()` above all, and the
lemmas on trees (what `merge` and `removeOf` keep) are stated once.

*Steps by effect.* The other properties are about packets on their way. `StepProofs`
sorts the actions into a few kinds by what they do to these: a standby `Starts`,
`GoesOn`, `Arrives` (takes a packet), `Loses` the master or `Exits`; the master
`Distributes` a posted call, `Sends`, `Closes`, `Registers` or is `Quiet` (to accept,
to push its entry and to exit are kinds of their own). Every later invariant is shown
for kinds instead of actions. `LinkInv` says which states of the two ends, the
connection and the reads go together.

*The way of a packet.* `Way(s)` is what can still arrive at `s`: the link, then the
queue, then what posted calls will put there (`Coming`, a recursive function of
`Group`, about which lemmas are proved by induction). A step appends to it what the
master publishes, takes its first packet, drops all of it, or leaves it alone. On it
rest:

- `StartInv`: without a race nothing is on its way before the master's entry is in
  the table, and from then on the entry with id `i` has index `i`.
- `ViewInv`: the tree of each packet and standby fits the table it comes with, and a
  standby whose connection failed is alone or has a failed read left that makes it
  so. Both `HostsResolve` and `AloneAfterDisconnect` follow. Neither is inductive: a
  packet becomes the view of the standby.
- `GrowInv`: the tables on the way are in the order of their age, older than the
  master's and not older than the standby's. It gives the action property `HostsGrow`.
- `CatchInv`: the last packet on the way of a standby that will be reached is the
  master's metadata. That includes standbys not accepted yet, because what is posted
  by then reaches them too.

The refinement maps the kinds of step to steps of `Broadcast`: `Registers` joins,
`Closes` leaves, `Distributes` takes the oldest of the recent versions, `Accept` links,
`Arrives` delivers, what breaks a connection unlinks, all others change nothing. It
needs two more facts. What comes to a standby that is not yet accepted is what is
posted for all. And nothing is posted before the master serves (`NothingPosted`), so
it may complete its own table unnoticed (`Prepare`).

### The byte stream

For every number of byte values above one, every set of trees and tables that are
bytes, all ids, and all bounds, `StreamProofs` proves of the `Spec` of
`PacketStream`:

| Theorem | States |
|---|---|
| `ReadsInStep` | `[]StreamInv`, the inductive invariant |
| `StreamTyped` | `[]StreamTypeOK` |
| `PacketsJustFit` | `[]JustFits` |
| `StreamImplementsChannel` | `ImplementsChannel` |
| `Lossless16`, `Lossless32` | a number survives its conversion to the network and back |
| `Lossless64` | so does a 64 bit number, exactly when its two highest bytes are equal |

`MessagesAssumption` says that ids and the length of any message are below 2^48 (in
terms of `Base`), as those of anything in memory are. By `Lossless64` it is what the
code needs. Then `TCPManager::read` of a whole message makes the call that the
message stands for (`MessageRead`). What is left is that each body read is a whole
message. `StreamInv` says that there is a number `start[m]` for each packet `m`, the
bytes sent before it, so that the byte at each place of the stream, be it in the
queue, in the kernel or in the buffer, is that of the packet which has this place;
and that the read under way is for the header, or after it the data, of the first
packet whose call was not made. It is needed because the length of a read comes from
bytes that were read before.

### File access

For any set of FUSE threads, any requests, and any views and files that satisfy the
assumptions, `FileProofs` proves of `Spec`:

| Theorem | States |
|---|---|
| `SessionsReachHosts` | `[]SessionAddress`: a session goes to the address that the host table has now |
| `LookupInTable` | `[]IdsOK`: the id that a read looks up or inserts is in the host table |
| `FileStateTyped` | `[]FileTypeOK` |
| `HandlesStaySet` | `[]SessionKept` |
| `BytesFromOwner` | `[]RightHost` |

and, if there is one thread (`OneThread`):

| Theorem | States |
|---|---|
| `ReleasedNeverUsed` | `[]NoFreedHandle` |
| `ReadsAreRight` | `[]RightBytes` |
| `ErrorsHaveReasons` | `[]ErrorsExplained` |

With two threads that share a session these three are false, and `BytesFromOwner` is
what remains of `RightBytes`.

The assumptions: `ViewsAssumption` (see above), `RequestsAssumption` (a path is a
sequence of names, an offset a natural number), `BoundsAssumption` (so are the
bounds), and `SizeAssumption`: shared files do not shrink, so those that are there
are as long as any view says. The tree's sizes are of the time of the join; if the
file were shorter now, `sftp_read` would return less than was asked for, and
`RightBytes` says nothing of that.

*`FileInv`.* `SessionAddress` is not inductive: an update keeps it only if every
session is of a host that the old table has, so the way of an id must be followed
back. `FileInv` adds that each node's owner is in the table (`MetadataOK`), that a
pointer whose node is not freed is to a node of the tree, also in the middle of an
update (`PointersOK`), that a thread's copy of the id is in the table until it has
used it (`IdsOK`), and the shape of threads and sessions.

*`HandleInv`.* A handle is null, unset, or of a connection made for its own session
(`HandlesOK`), and a thread between `ssh_new` and the opening of the file has set its
session's `ssh` handle (`UsersOK`). So a session where a file was opened has no unset
handle left, also if two threads work on it.

*`OwnerInv`.* A connection is made for the host of a session and goes to the address
that the table has for it (`ReachOK`), and what a thread answers is from there. Since
the table is only extended and handles are of connections of their own session
(`HandlesOK`), no other thread can change either.

*`ReadInv`* (threads apart: no two use the session of one host at a time, as a thread
that is alone; `Apart` is a hypothesis of the lemmas). While the process runs, the object of each handle exists,
but for the one that `disconnect()` is about to forget (`LiveOK`). A session knows
what file is open on its connection (`FilesOK`). `ReadersOK` says what a thread
knows at each place of `SSHSession::read`: that the open file is the one asked for,
that its position is the offset, that a connection it has just made is up or was lost
since, and that whoever disconnects will try again or has a reason to fail. All of this
is about the thread's own session and connection. So a step of another thread, which by
`Apart` is at another session, leaves it alone (`OtherReads`, `OtherAnswers`): handles
of two sessions are never of one connection (`HandlesOK`), and the table of sessions,
which all share, only gains entries.

There is one lemma per action. As in the model, a behaviour ends with undefined
behaviour: the theorems say nothing of a process that has used freed memory.

### The start

For every command line and every working directory, `StartupProofs` proves of the
`Spec` of `Startup`:

| Theorem | States |
|---|---|
| `Accepts` | `[]AcceptsExactly`: a daemon is started for exactly the command lines that the repository's README describes; all others return an error, but for an empty one or a single request for help or the version |
| `Ready` | `[]ReadyToJoin`: when the network is started, ids of the tree, host entry and role fit each other |

The invariant `StartInv` of this module says, for each point of `main()`, what the
calls before it have set up. `ReadyToJoin` needs it because `initDirTree` and
`initHost` use the id that `setMaster` has set before.

### Only model-checked

`MainReleased`, `Departed`, `Converges`, `Handled` and `CallsReturn`: the prover does
not handle liveness under fairness. The theorems about the group hold for all
bounds; the liveness properties were checked for two standbys.

Induction over a number is done by hand: a set of numbers that is not empty has a
least element (`LeastElement` in `StepProofs`, from the library's theorem on
well-founded relations).

## Plan

- The FUSE side of a master, see below.

## Not modelled, and why

- The text of messages, and the `boost::serialization` format: a serialised tree is
  any sequence of bytes in `Framing` and the tree itself elsewhere.
- `stat` fields other than type and size, and the argument list for FUSE: nothing
  depends on them.
- Name resolution in `TCPManager::initialize`: library calls without state.
- `SSHManager::removeHost`: never called.
- The clamped read size in `FUSEInterface::read`: it is computed and not used.
- `.` and relative paths in `DirTree::find`: the kernel passes absolute paths without
  dots.
- Memory exhaustion.
- `_connections` never shrinks in the code; the model keeps one entry per standby.
- The FUSE side of a master. It differs from that of a standby in how its network
  thread changes the metadata: by merging and by erasing the nodes of one host.
