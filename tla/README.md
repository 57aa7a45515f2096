# AZPFS in TLA+

Specifications of AZPFS, a network file system: a FUSE daemon (`azpfsd`) that
forwards file system calls over TCP to a server (`azpfs-server`), which runs
them on a directory of its disk. The modules are translated from the Rust code
under `src/core/`; `PROJECT.json` names the lines each definition stands for.

## Inventory

| Component | State | Operations | Correct when |
|---|---|---|---|
| `ClientHandler` (`fs/handler.rs`) | `next_id`, `reply_listeners`, the `FramedWrite` buffer, one channel per call | the INIT handshake, eleven `FsBackend` calls, `receive_loop` | a call returns what the server answered to that call, and returns |
| READ_RES chunking (`server/handlers.rs:19`, `fs/handler.rs:85`) | head, chunk list; byte count and `BTreeMap` | cut, send in any order, collect | the caller gets the payload, byte for byte |
| Sessions (`server/mod.rs`) | reply channel of 32, reader, writer task | spawn a task per request, drain the channel | every request answered once; a dead session lets go of everything |
| Handlers (`server/handlers.rs`) | one task per request | lock the file system, run the operation, send the replies | the lock is always passed on |
| `FsBackend` (`fs/mod.rs:236`) | none (a trait) | the calls both sides implement | client and server together are one `FsBackend` |
| `DiskFs` (`fs/disk.rs`) | `inode_map`: inode number to path; the disk itself | lookup, create, remove, rename; get/set attributes, read, write, list | a number leads to the file it was handed out for |
| FUSE front end (`client/fuse.rs`) | a `Mutex` around the backend | kernel requests, most of them two calls | a request acts on the file the kernel named |
| Codec (`protocol/`) | bytes not yet decoded | encode, decode, directory entries, error codes | decoding undoes encoding; partial data waits |
| Binaries, dissector | none worth stating | start-up, logging, display | |

How they interact: the FUSE front end calls a `ClientHandler` under a mutex and
blocks on each call, so a mounted client has one call in progress. The
`ClientHandler` writes requests to its socket; its receive loop runs beside the
calls and hands each reply to the channel registered under the reply's request
ID. On the server each connection has a reader, a writer and one task per
request; all connections share one `DiskFs` behind a tokio `Mutex`, and a task
keeps the guard until its last reply is in the connection's channel.

What is hard: chunks of one reply overtake each other; a user of the library may
drop a call (the tests wrap every call in a timeout) with its request in the
buffer, on the wire or in work; IDs wrap around; backpressure runs from a slow
client through socket, channel and lock to every other client; connections break
at any point; and the disk is addressed by paths that other calls invalidate.
`PROJECT.json` lists each of these under `hazards`, at its line.

## Modules

| Module | Models | Composes |
|---|---|---|
| `ReadChunks` | one payload from `assemble_read_res_chunks` to `combine_read_chunks` | |
| `Messages` | message types, request IDs, what each call waits for | |
| `Transport` | the TCP connections (external) | `Messages` |
| `ClientHandler` | `fs/handler.rs` | `Transport` |
| `Server` | `server/mod.rs`, `server/handlers.rs` | `Transport` |
| `Rpc` | clients and server together | `ClientHandler`, `Server`; instantiates `Backend` |
| `Backend` | what a `ClientHandler` promises: the abstract specification | |
| `DiskFs` | `fs/disk.rs` as far as names and errors go, and the disk below it | |
| `FileIO` | contents and attributes of one file of `fs/disk.rs`, time conversions | |
| `Fuse` | `client/fuse.rs` on several mounts, error codes, one server | `DiskFs` |
| `Codec` | `protocol/`: one direction of a connection, byte by byte | |
| `Induction_proofs` | induction over indices, sequences laid end to end: lemmas about no component | |
| `ReadChunks_proofs`, `Rpc_proofs`, `RpcCalls_proofs`, `DiskFs_proofs`, `FileIO_proofs`, `Fuse_proofs`, `Codec_proofs` | theorems | `RpcCalls_proofs` extends `Rpc_proofs`, `Fuse_proofs` extends `DiskFs_proofs`, `ReadChunks_proofs` and `Codec_proofs` extend `Induction_proofs` |
| `MCRpc`, `MCDiskFs`, `MCFileIO`, `MCFuse`, `MCCodec` | instances for TLC (`read_chunks` needs none) | |

**ReadChunks.** A byte is its position, a chunk an interval. `AssembleNext` is one
turn of the server's loop, `SendChunk` one of the tasks of the `JoinSet` getting
through, `ReceiveChunk` one turn of the client's loop. `Encode` cuts the length
to its field's width. Channel, socket and listener keep order and are one queue.
`Offsets` are the keys of the `BTreeMap` in its order, `Collected` the bytes that
`into_values` gives the caller.

**Transport, ClientHandler, Server, Rpc.** A message is its type, its request ID
and the number of the call it belongs to. That number stands for the payload: the
program never reads it, the properties do. A READ_RES carries one of `total`
chunks. Sending is two steps, as in `FramedWrite`: the request is encoded into the
buffer (`StartCall`), and the buffer is written to the socket (`Flush`), so that a
dropped call can leave its request behind. `CallStep` is the call in progress,
`LoopStep` the receive loop, `ReaderStep`, `TaskStep` and `WriterStep` the tokio
tasks of the server. The Mutex is a queue, since tokio's is fair. The channel
holds `ChanCap` messages and the one the writer has taken out. An operation of the
file system succeeds or fails as it likes (`Execute`); the actual file system is
`DiskFs`. The `history` variables `executed` and `outcome` record what was
answered and what was returned.

**Backend.** A call is issued, takes effect at most once between its issue and its
return, and returns what the file system answered; other errors only over a
broken connection. A user who drops a call learns nothing of it, and, the one
concession, a later call with the same request ID may return its answer.
`Rpc!ImplementsBackend` maps `answer` to `executed` and `broken` to `lost`.

**DiskFs.** The disk is a function from paths to files; a file is its inode number
and whether it is a directory. The operators on the disk (`Added`, `Without`,
`CanMove`, `Moved`) are the system calls, modelled from how `disk.rs` uses them;
the numbers of removed files are used again. `Remember` is `or_insert`, `Insert`
is `insert`. Every call is one step, because the server's Mutex lets no other in
between, and every call that fails is a step too. The disk may refuse any system call
(`PermissionDenied`, which stands for EACCES, EPERM, EXDEV, EROFS and EIO): `Refused` where
nothing has been changed by then, `RemoveRefused` for a `remove_dir_all` that stops half
way, and in `Made` for a `set_permissions` that fails once the file is made, which then
stays without an entry in the map. `MoveFile` may be refused after the destination has been
removed. One thing is assumed of refusals: a disk that refuses the lookup of a
destination, an error which `rename` ignores, refuses to move to that path too (a
directory that cannot be searched). `Rename` follows the code: look
the destination up (which leaves it in the map even if the rename fails), compare
types, remove the destination by its number, take both paths from the map, move.
`Restart` forgets the map and keeps the disk, and `CrashInRename` is the server
dying between the two halves of `rename`. The last parameter of a call is its
result, `"Ok"` or an `ErrorKind`, worked out from which of the code's system calls
fails first and how. `MaxDepth` and `Inodes` are what the disk has room for: beyond
them a call fails, as it does with ENAMETOOLONG or ENOSPC.

**FileIO.** One file: its bytes (a byte is the number of the write it comes from, 0
in a hole), `mtime`, permissions and owner. tokio's `File` copies at most `MaxBuf`
bytes, hands them to a blocking thread and returns; `WritePiece` is that hand-over,
`Perform` and `PerformFails` the thread. The next operation on the same `File` waits
for the thread, but `DiskFs::write` drops the `File` after `write_all`, so the last
piece stays in `tasks` while other calls run. `SetField` is one system call of
`set_attr`, any of which may fail. `expected` is the file as it would be if calls took
effect when they returned, `raced` the bytes about which a piece left behind leaves
doubt, `late` whether such a piece may have moved `mtime`.

**Fuse.** Two mounts over one `DiskFs`; that a call over the network acts as one call
of the server's backend is what `Rpc` shows. `Request` is the kernel's request with
its first call, `Answer` the second call and the reply, so that the other mount's
calls fall in between. `known` are the inode numbers the kernel has been given, the
only ones it uses. Errors go through `CodeOf`, `KindOf` and `io_to_errno`. A listing
is `opendir` and then `readdir` until an empty or failed reply; the directory may
change between two replies, and the disk lists it in any order. `last` records the
last call that failed, removed or renamed, `stay` the names that were in a listed
directory all the while. `unlink` stands for `rmdir` as well, whose code is the same.

**Codec.** The sender appends encoded messages to the stream; `Receive` takes any
number of bytes off it, `Decode`, `DecodeError` and `ReadEof` are what `FramedRead`
and `MessageCodec::decode` make of the buffer. Four kinds of message stand for the
eighteen: fixed, with a field that has invalid values, with optional fields under a
mask, and with a name after a length byte. `parse_dir_entries` and
`serialize_dir_entires` are functions, compared on every sequence of entries that the
messages sent so far give (the inode number, eight bytes of any value, is left out).

## Runs

| Run | Bounds | Shows |
|---|---|---|
| `read_chunks` | payloads of 0 to 11 bytes, chunks of up to 3, length field modulo 4 | every payload arrives whole and in order whatever the order of its chunks, and the read ends |
| `rpc_session` | one client of either version that drops calls, 4 calls, 2 IDs, 2 chunks, buffers of 1 | calls are answered by their own replies, unless one reuses a dropped call's ID; nothing of a call is left when the next may begin, if none was dropped; implements `Backend` |
| `rpc_shared` | a reader and a writer, 2 calls each, 2 chunks, reader's connection may break | every call returns; a dead session lets go of the lock; implements `Backend`, over a connection that breaks |
| `rpc_lost` | one client, 2 calls | **violation**: a call in progress when the connection ends never returns |
| `rpc_read_blocks` | reader with 3 chunks, writer | **violation**: the read holds the file system lock while its client is slow |
| `disk_fs` | 2 names, paths of 2 steps, 4 inode numbers | the map goes wrong only through directories; while it is right rename keeps its source and loses nothing but its destination, also if the disk refuses any system call |
| `disk_stale` | the same | **violation**: removing an inode deletes an unrelated file |
| `disk_move_self` | the same | **violation**: renaming a file to its own name deletes it |
| `fuse` | 2 mounts, 3 requests, a tree of a directory with a file in it, 3 inode numbers, room for 3 entries in a reply | errors tell the truth; unlink and rename act on the file their lookup found; numbers lead to their files until a directory with known files is removed or moved or a failed create leaves a file with a known number; listings are complete; requests end |
| `file_io` | a file of 3 bytes, pieces of 2, 3 calls, sizes 0 and 2, times before and after the epoch and between seconds | bytes, attributes and reads are as the calls say, but for writes left behind; a read longer than the buffer is cut; calls return |
| `file_write` | the same | **violation**: `write` returns Ok before the data is written, and though writing it fails |
| `codec` | 3 messages, bytes of 5 values, names of 0, 4 (just fits) and 5 bytes (does not) | messages arrive as sent and all of them; decoding fails only after a name that does not fit or on a broken connection; directory listings survive |

Why the bounds are enough for the cases that matter. Payloads of 0, 1, 3, 4, 6,
9, 10 and 11 bytes with chunks of 3 cover the empty payload, exact multiples, a
short last chunk and 4 chunks in all 24 orders; 3 and 4 stand to each other as
65535 and 65536. Four calls over two IDs wrap around twice, so that the reply to
a dropped call can meet a call with its ID and one without. Buffers and channel
hold one message each, so that every sender blocks. Two clients are enough for
one to wait for the other's lock. In `DiskFs` a directory with a file in it, moved
or removed and made again with a file of the same name, takes four numbers. In
`Fuse` three requests are a lookup, the other mount's rename or removal between its
calls, and a third on what is left; the third number is free for a file to be made, and
removed files give theirs back. In `FileIO` a write of 3 bytes takes two pieces, the
second of which is left behind, overtaken by one call and observed after another. In
`Codec` the bytes of names are also headers, lengths and masks, so that the rest of a
name that was cut short parses as messages.

Deadlock is not checked, because the users may stop making calls, a read or a stream
ends, and in `DiskFs` a client may remove the exported directory.

**Fairness.** Weak fairness for each of a client's call and receive loop and the
server's reader, tasks and writer: tokio polls every task that is woken, and the
operating system runs both processes. None for users (they need not call, cancel
or close) and none for the network (it need not break). A lock that is handed over
in order needs no strong fairness. In `FileIO` the call in progress and the blocking
threads run; in `Codec` the receiver polls its stream; in `Fuse` a mount goes on with a
request it has taken, whose calls return while the connection lasts (`CallsReturn`),
and a program that lists a directory goes on to its end; nothing obliges the disk to
refuse a call.

**What the violations say.**

* `rpc_lost`: `await_success`, `next_message` and `combine_read_chunks` return
  `ConnectionReset` once the channel has no sender, but one sender is in the
  handler's own `reply_listeners`; nobody removes it when `receive_loop` ends. The
  branch is dead code and a mount whose server goes away hangs.
* `rpc_read_blocks`: the README promises that a large read never blocks a short
  operation; the guard is held across `join_all` (`handlers.rs:200`). The read of the run
  has more chunks than channel and writer hold. With `DiskFs` below, one READ has at most
  33 (tokio's buffer of 2 MiB), which are the 32 places of the channel and the one of the
  writer, so an idle connection takes them all. A READDIR of a large directory has more,
  and so has a READ behind the replies to a dropped call.
* `disk_stale`: entries below a removed (or renamed) directory stay in `inode_map`.
* `disk_move_self`: `rename` removes the destination before it looks at the source. The
  kernel answers `rename(x, x)` itself, but two mounts that rename `x` to `y` at the
  same time get there, and the file is lost; `ErrorsTrue` leaves that case out
  (`OntoItself`).
* `file_write`: nobody waits for the last piece of a write (`disk.rs:208`).

**What the passing runs say that is not obvious.**

* A dropped call is harmless until its ID comes round again ("TODO check for
  collision", `handler.rs:155`; Protocol.md:53 forbids it): `RepliesMatchCall`.
* `ErrorsTrue` and `ActsOnFound` hold while `inode_map` is right, which
  `ExactUntilDirectory` says it is until an unlink or rename reaches a directory with
  known files in it, or a create or mkdir fails after the file was made (`disk.rs:149`,
  170) and the file has a number that a mount still has of a removed one. `ErrorsTrue` is
  about calls on names and inodes; listings may end in EIO. Otherwise the numbers of removed files, which the disk uses again, do no
  harm by themselves: a number leads to the file that has it. Once a directory with
  known files in it has been moved, those files are ENOENT for every client until the
  server restarts, since `or_insert` never corrects a path.
* `ActsOnFound` speaks of the file that was found. `rmdir` removes a directory with all
  that is in it, and either of `unlink` and `rmdir` removes whatever has the number
  when the second call comes.
* A directory that does not fit one reply of `readdir` cannot be listed: `readdir`
  returns without `reply.ok()` (`fuse.rs:310`), which fuser turns into EIO.
* `rename` is not all or nothing: if the disk refuses `fs::rename` (`disk.rs:292`), or the
  server dies before it, the destination is gone, removed in line 286, and the call has
  failed. `RenameLosesOnlyDestination` says that this is the worst: the source is where
  it was, and no other file is lost. No document of the repository promises more.
* A read can be short before the end of the file, against `messages.rs:164` ("a short read
  (data.len() < requested length) means EOF was reached"): one call of tokio's `File`
  returns at most its buffer of 2 MiB (`disk.rs:192`), so that a longer READ_REQ gets
  exactly that. `ReadReturnsFile` states both: requests that fit the buffer are short at
  the end only, longer ones are cut although more follows. The kernel asks for less than
  that at a time; other users of the protocol need not.
* `statfs` is always EIO, and EACCES (`fuse.rs:56`) never happens over the network:
  `ErrorCode` has no value for `PermissionDenied`, so a refusal of the server's disk
  becomes `Internal` and EIO at the mount (`ErrorsTrue`). `touch` of a directory is EIO, because
  `set_attr` opens what it sets times of for writing (`disk.rs:98`).
* After SUCCESS_RES for a SET_ATTR_REQ, a write that was left behind can still move
  `mtime` or make the file longer: `AttrSettled` and `DataSettled` name these cases and
  show that there are no others.
* A name of 256 bytes or more puts the server out of step with the stream for good
  (`DecodedIsSent`); the kernel passes such names on, the server's disk would not.

## Proofs

`ReadChunks_proofs` proves, for every payload length, every chunk size that fits
the length field (`ChunkAssumption`) and every order of arrival, that types are
kept (`TypeCorrect`), that the chunks held at the end hold each byte exactly once
(`Reassembly`) and that none is left behind (`NothingLeftBehind`). The client only
counts bytes, so neither property is inductive. The invariant `IInv` adds that
chunks in tasks, on the wire and in the map lie inside what has been cut
(`Inside`) and never overlap (`Disjoint`); therefore the count is the cardinality
of the covered bytes (`Counted`), and a count of `total` means all of them. The
empty payload, whose only chunk has no bytes to count, is followed by `EmptyOnce`.
That the caller gets the payload, byte for byte and in order (`PayloadReturned`), is
about a list: disjoint chunks that cover the payload, taken by ascending offset, lie
end to end (`OffsetsTile`), and flattened they are the payload (`Tiles`).

`Induction_proofs` has the inductions. The library's induction theorems take the
predicate as an operator, which no installed prover can instantiate. They are stated
here for sets instead: a set of numbers that is not empty has a least one (`LeastNat`,
from `WFMin` and `NatLessThanWellFounded` of the library), so a set that has 1 and with
every number the next, up to N, has all of 1..N (`Upward`; `Downward` goes from N to 0).
From these follow what `FlattenSeq` returns (`FlattenSteps`, `FlattenBlocks`), that a
finite set of numbers can be listed in ascending order (`AscendingExists`) with none
missing (`AscendingOnto`), and `Tiles`.

`Rpc_proofs` proves for every number of clients, calls, IDs, chunks and buffer
sizes, with cancelled calls and lost connections, that types are kept
(`TypeCorrect`) and, if no more calls are made than there are IDs (`NoWrap`), that
the call in progress finds nothing but replies to itself (`RepliesMatch`). `IInv`
follows the ID around: with `NoWrap` every message in the buffer, on the wire, in a
task or in a channel has the number of its call as its ID, the allocator's next ID is
the number of the next call, and the listener under an ID is the call of that number.

`RpcCalls_proofs` does without `NoWrap`. It proves `RepliesMatchCall` with IDs that
come round any number of times (`RepliesMatchCalls`), that nothing of a call is left
when the next may begin (`QuietBetweenCalls`), and that the system implements `Backend`
(`Refinement`: the step in which the server sets `executed` is `Backend`'s `TakeEffect`,
the one in which the client sets `outcome` its `Return` or `Fail`, steps that move
messages are stutters). The three share the invariant `CallsInv`:

* `RequestInv`, `TasksInv`, `ReplyInv`: a request is in one place (buffer, wire, task),
  it is executed once, and each of its replies is in one place (task, channel, wire,
  inbox) and carries the answer that `executed` records;
* `FlightInv`: what is under way belongs to the call in progress, or to a call with an
  ID that a cancelled call had (`Tainted`). That a call is not tainted is what passes
  from a call to the next with its ID;
* `CountInv`: a READ returns when it has counted `total` chunks, so nothing stays behind
  only if chunks received and chunks outstanding are never more than `total` together.

`DiskFs_proofs` proves for any names, numbers and depth, with restarts and crashes, that
the disk stays a tree with a number for each file (`TypeCorrect`), that the map goes
wrong only through directories (`MapStaysRight`) and that rename, while it is right, keeps
its source and loses nothing but its destination, whatever the disk refuses and wherever
the server dies (`RenameKeepsSource`). `TypeOK` says that a file's parent is a directory,
which removing and moving directories cannot be seen to preserve without an induction
over paths; `TreeInv` says it of everything above the file. What the proofs need about
paths (`Below`, `Rebase`, its inverse) are lemmas; `WithoutTree`, `PartlyTree`,
`AddedTree` and `MovedTree` are about the operators on the disk, for any tree.

`FileIO_proofs` proves for any sizes and any number of calls that bytes, attributes and
reads are as the calls say but for what a write left behind makes doubtful
(`DataSettles`, `AttrSettles`, `ReadsReturnFile`, which also says when a read is short). The properties speak of the time
between calls; the invariant says for every state that the file as it would be if the
running call returned now (`Target`) is what becomes of the disk when all pieces in hand
are written (`Leads`), at every byte that is not in `raced`.

`Codec_proofs` proves for any messages, wherever the stream is cut, that what is decoded
is what was sent up to a name that does not fit (`DecodesWhatWasSent`) and that decoding
fails only for cause (`ReaderFailsOnlyForCause`). The invariant has the whole stream `W`
and the position at which each message begins as witnesses: buffer and wire are what is
left of `W` after the messages decoded (`InStep`), unless a name that did not fit has
been passed (`Strayed`).
`ListingsSurvive` proves that `parse_dir_entries` undoes `serialize_dir_entires` on a
listing of any length whose names fit their length bytes. `parse_dir_entries` is a
recursive function on positions; `ParseRecursion` derives its equation, and `RoundTrip`
goes down from the end of the data, where nothing is left to parse, entry by entry:
what is parsed at the place where entry k begins is entry k and those after it.

`Fuse_proofs` proves for any tree to start from, any number of mounts and any room in a
reply all that the run `fuse` checks but `RequestsEnd`. `FuseInv` says that a mount only
uses numbers it was given (`MountInv`), a second call the one its first call returned, and
that after the first page of a listing nothing is missing (`ListInv`): the first reply has
everything or the listing fails, and `stay` only shrinks. That the entries are all the
names is a count: as many as there are, none twice, so none is missing. Every step of a
mount is a step of `DiskFs`, so that the lemmas of `DiskFs_proofs` carry over.
`ErrorsTellTheTruth` goes through every error of every call on a name or an inode; the hypothesis `MapExact`
makes the path in the map the path of the file (`ExactMap`, `ExactChild`).
`ExactUntilThen` says how long that hypothesis lasts, and the two ways in which it ends. Two things have to be kept: that
entries are right, for which `DiskFs_proofs` has the lemmas, and that no mount has the
number of a file that is not in the map. Lookups and creations put the number they
return into it (`EntryExact`); what `remove` and `rename` forget is gone from the disk
(`RemoveKeeps`, `RenameKeeps`), because a tree that was moved has no new numbers
(`MovedNumbers`). `MountsUseDiskFs` says that mounts only do to the server what `DiskFs`
allows, and carries its two action properties over to any tree to start from.

Assumptions: the `ASSUME`s of the modules, which TLC evaluates in the runs. They bound
the constants (a chunk fits the length field, the root's number is not that of a file,
there is at least one request ID) and say in `Fuse` that the server is started on a
directory tree with a number for each file and finitely many names.

Only model-checked: liveness (`ReadCompletes`, `CallsReturn` of `Rpc`, `IoReturns`,
`SessionEnds`, `AllDecoded`, `RequestsEnd`), which the prover does not reach. Every
other property of a passing run is the statement of a theorem. The properties of the
five runs that expect a violation are false, and have none.

## Not modelled

* The texts of error messages, the fields of `FsStats` and the fields of `FileAttr`
  that are copied unchanged; `to_fuser_attr`; `flush`, which does nothing.
* Symbolic links, hard links and special files in the exported directory, changes
  made to it behind the server's back.
* Undoing what a call has done when a later part of it fails: the code does none, and
  `set_attr` and `create_file` leave what was applied (`FileIO` lets each system call fail).
* Clients that do not follow the protocol (requests before INIT, a second INIT); two
  requests of one client at the same time, which `&mut self` rules out.
* The binaries and the Wireshark dissector.

## Plan

1. Done: `ReadChunks`, `Rpc` with its parts, `Backend`, `DiskFs`, `FileIO`, `Fuse`,
   `Codec`; their runs; every safety property of the passing runs proved.
2. Open: an abstract namespace addressed by inode number, for `DiskFs` to implement as
   long as `ExactUntilDirectory` leaves the map exact. `ActsOnFound`, `ErrorsTrue` and
   `RenameLosesOnlyDestination` say what it would say of unlink, rename and errors.
3. Open: a server session with a peer that does not keep to the protocol.
