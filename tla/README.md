# Verification of the concurrent parts of the Poseidon engine

TLA+ models, model-checking runs and machine-checked proofs for the parts of this
repository in which several threads or machines act at once: the multiplayer
transport of the "Poseidon" engine of Operation Flashpoint / Cold War Assault
(C++), the directory of its master server (Rust) with the publisher in the game
server, the download and installation of mods, and the streaming of sounds.

The modules follow the source, not the documentation; paths below are relative
to `src/engine/Poseidon/` unless they say otherwise, and `PROJECT.json` gives
the source lines of every definition (`map`).

## 1. Inventory

### Where the state is

Most of the repository transforms data: file formats, rendering, dialogs, a
script interpreter, continuous simulation. What several threads and machines
change at once, what must survive loss, repetition, reordering and crashes, is in
four places.

The multiplayer transport, in layers:

    NetworkServer / NetworkClient        states of the game, object updates
              |  SendMsg, call-backs
    NetTransportNet (NetClient, NetServer)  players, fragments, handshake
              |  newMessage, setOrderedPrevious, send; NetCallBack
    NetChannelBasic                         reliable UDP channel
              |  getPreparedMessage, sendData, processData
    NetPeerUDP                              sender thread, listener thread
              |  sendto, recvfrom
           network                          loses, repeats, reorders

The directory: `MasterServerPublisher` in the game server, HTTP to the handlers
of `src/mserver/MasterService`, which share one database with the prober and each
other. The mods: a dialog, the threads of its runs, and the files they share. The
sound: a pump thread and the main thread on one OpenAL source.

| Component | State it keeps | Operations | Hard behaviour | What makes it correct | Model |
|---|---|---|---|---|---|
| NetChannel (`Network/Legacy/NetChannel.cpp`) | three queues, `revisited`, serials, `ack[]` ring, `ackMask`, `procMask`, `oldAckQueue`, `deferred` | dispatchMessage, getPreparedMessage, sendData, postSend, runRevisited, processData, processVIM, checkConnectivity, cancelAllMessages, close | the user, sender and listener threads on one channel; loss, repetition, reordering; timeouts that race answers; rings that overflow | each guaranteed message is given to the call-back once, in the order of its class, and is resent until it is; acks are true and are not forgotten | `NetChannel`, `NetChannelLive` |
| NetMessage, NetPool | flags, status, serial, predecessor; free lists | setOrderedPrevious, send, cancel, recycle | the predecessor may have no serial yet | an ordered message leaves with its predecessor's serial; no message is recycled while it is held | in `NetChannel`, but for the pool |
| NetPeer | map of channels, the two threads, the dispatcher's budget | udpSend, udpListen, open and close a channel | fairness between channels; a lock is held over a whole transmission | no channel starves; a channel out of the map is not called; close ends both threads | `NetLocks`, partly |
| NetTransportNet | players, `m_support` (fragments by address), lists of created, destroyed and acknowledged players, the handshake | SendMsg, ctrlReceive, ProcessPlayers, DestroyPlayer, kick | five kinds of lock; a player created, kicked and replaced by different threads | the same players in all books; fragments merged in order; a lock order | `NetFragments`, `NetSession`, `NetLocks` |
| Transport policies (`NetTransport*.hpp`) | none | predicates | - | their definitions | - |
| NetworkServer, NetworkClient | state of each player, objects, messages deferred by a mission | OnMessage, Simulate, object updates | long sequences of states; players that join in the middle | states go forward; updates are applied in order | - |
| Mission and file transfer | segments received | segment, complete | a transfer started again | a file is complete or not there | - |
| Master server publisher (`Network/MasterServerPublisher.cpp`) | the token and its file, when the next publish is due | start, tick, notify, stop | timeouts, lost answers, crashes | a server that lives is listed | `MasterDirectory` |
| mserver (`src/mserver`) | registry in a database | register, unregister, observe, prune, list | handlers that interleave at every SQL statement; the prober's own outages | only live servers are listed, live ones are not hidden; a server gets its row back | `MasterDirectory` |
| Mod download (`Core/DownloadWorker.cpp`, `UI/OptionsUIApp.cpp`) | sessions of runs, files of the mods, the dialog | start, cancel, retry, transfer, unpack, install | abandoned threads share the files; the game may end anywhere | what the dialog calls done is installed | `ModDownload` |
| Streamed waves (`src/engine/PoseidonOpenAL`) | decoded chunks, buffers, flags of play | play, pause, stop, restart, loop, destroy; the pump's pass and decode | the pump decodes without the lock | no buffer is lost, chunks are heard in order, a wave ends and is freed | `StreamedWave` |
| Bans, auth, rate limits; browser | caches, buckets | allow; list | expiry | limits | - |
| Foundation (threads, containers), task pool | locks, maps, bit-masks, work queues | - | - | taken as what they promise | - |
| AI, FSM, World, Evaluator, formats, graphics, UI, tools, Trident | game data | - | none of it concurrent | not protocol | - |

The channel is the foundation of all multiplayer, has the most intricate state
and runs under the worst conditions, so it came first.

### How the components interact

A user thread calls `SendMsg`. It composes a `NetMessage`, chooses its
predecessor (`setOrderedPrevious`) under one hold of the channel's lock, and
dispatches it under another; a session lock keeps other users out. The
**sender thread** of the peer holds the peer's lock while it takes a message
from a channel, fills in the header, sends it and calls `postSend`; at other
times it calls `runRevisited` (timeouts) and `checkConnectivity` (heart-beats,
pings). After a kick was sent it calls back into the session, which destroys the
player. The **listener thread** calls `processData` for each packet; it releases
the channel's lock around each call-back, from which the session creates and
destroys players and may send again. The **main thread** takes complete messages
and the news of players once a frame, publishes the server, polls the download
dialog and the sounds. **Background threads** download mods and pump sounds;
neither is joined by the operation that cancels it.

## 2. Modules

| Module | What it is |
|---|---|
| `NetChannel` | both ends of one channel, with the network between them; all properties |
| `VimDelivery` | the abstract specification: each message is given once, the guaranteed ones of a class in order |
| `VimChains` | what it promises even if AckPlayer is sent on a channel in use |
| `NetChannelLive` | the same channel with its timers and a network that loses a bounded number of packets; liveness |
| `NetFragments` | user messages of the session over `VimChains`: splitting, merging, the list of complete ones |
| `NetSession` | the server's books about its players, changed by three threads |
| `NetLocks` | the critical sections of the server's threads, in the order they are entered |
| `MasterDirectory` | one server's row in the directory, its publisher and the prober |
| `ModDownload` | runs that download and install mods, their files, and the dialog |
| `StreamedWave` | a sound that is decoded while it plays: pump, main thread and device |
| `NetChannelInv`, `NetChannelProofs` | the channel's inductive invariant, lemmas, theorems about types and the sending side |
| `NetChannelReception`, `NetChannelDelivery` | theorems about what is received and acknowledged, and about what is ordered and delivered, each standing on the one before |
| `NetFragmentsProofs`, `NetSessionProofs`, `MasterDirectoryProofs`, `ModDownloadProofs`, `StreamedWaveProofs` | invariant, lemmas and theorems of these five |
| `MC...` | instances for TLC, each with its `.cfg` files |

`NetFragments` extends `VimChains`, which `NetChannel` is shown to implement (run
`cancel`, theorem `ChainsImplemented`): so the session's messages stand on what the
channel was shown to promise. `NetSession` uses of the channel only that it is there or not.

### NetChannel and the code

State, per peer `p` (each machine has its own channel object):

| Variable | Code |
|---|---|
| `msgs[p]` | every `NetMessage` the peer ever allocated, with `MSG_VIM_FLAG`, `MSG_URGENT_FLAG`, `MSG_ORDERED_FLAG`, `MSG_DUMMY_FLAG`, `MSG_INSTANT_FLAG`, `MSG_BANDWIDTH_FLAG`, `MSG_DELAY_FLAG` with its `control2`, `serial`, `status` and `pred` |
| `draft[p]` | the message between `setOrderedPrevious` and `send` |
| `urgentQ`, `vimQ`, `commonQ` | `urgentToSend`, `vimToSend`, `commonToSend` |
| `lastUrgent`, `lastVIM` | the members of the same name |
| `prepared[p]` | the message between `sendData` and `postSend` |
| `revisited[p]` | the map of messages that wait for an ack or a timeout |
| `inputMax`, `inputMin`, `ackLeft` | `inputMax` and the ring `ack[]`, indexed by serial |
| `ackMin`, `ackMask`, `procMask` | `ackMaskMin` and the two bit-masks, as sets of serials |
| `oldAcks` | `oldAckQueue` |
| `deferred`, `working` | the map `deferred`, and the stack of `processVIM` |
| `opened`, `registered` | `NetChannel::opened`, and membership in the peer's map |
| `net` | every packet ever sent |

Actions: `Compose` (newMessage, setFlags, setOrderedPrevious), `Dispatch` and
`DispatchPlain` (dispatchMessage), `Transmit` (getPreparedMessage, preSend,
setOutputData, sendData), `PostSend`, `DropObsolete` (getCommonMessage on a
message out of date), `Resend` and `Discard` (runRevisited), `CheckConnectivity`,
`ReceiveAgain` and `ReceiveNew` (processData with inputResent, inputStatistics,
newAcknowledgement and setDelayMessage), `ProcessVIM`, `CancelAllMessages`,
`Close`, `Unregister`. Steps end where the code releases the lock that keeps the
other threads out, so every interleaving the locks allow is explored. Guards
`prepared[p] = 0` stand for the peer's lock, which the sender thread holds from
`sendData` to `postSend`.

The network is the set of packets sent: any of them may arrive at any time,
again, or never. A packet the socket refuses is one that never arrives.

`LateHandshake`: the server sends AckPlayer when the player is already in its
table `users`, and after it left the lock of that table. User messages may be
sent first: at any reconnect, and for a moment at the creation of a player.
The constant allows it. AckPlayer is guaranteed but not ordered, so `InOrder`
does not hold then, nor `VimDelivery`; `VimChains` is what is left of it: each
message may wait for one other that was sent before, no two for the same, and
each is delivered once, after the one it waits for.

### NetFragments and the code

It stands on `VimChains`, so `after` and `taken` are the channel; parts are
numbered in the order of `dispatchMessage`.

| Variable | Code |
|---|---|
| `users`, `sentParts` | the calls of `SendMsg`, and how far the loop of the last one is |
| `draft` | the part between `setOrderedPrevious` and `send` |
| `parts` | flags of each message dispatched (`MSG_PART_FLAG`, `MSG_CLOSING_FLAG`, `MSG_URGENT_FLAG`), and whose part it is |
| `lastVIM` | `lastVIM` and `lastUrgent` of the channel |
| `queue`, `wire` | `urgentToSend` and `vimToSend`; the messages that got a serial, in its order |
| `split` | `split`, `splitUrgent` (client); `ChannelSupport::m_split`, `m_splitUrgent` (server) |
| `received`, `reported` | the list `received`; what `ProcessUserMessages` gave to the user |

Actions: `SendMsg` (its start, under the lock it holds over all parts),
`ComposePart` and `DispatchPart` (its loop), `AckPlayer` (the end of
`ctrlReceive`), `Transmit` (the sender thread numbers the next message), `Receive`
(clientReceive and serverReceive, with mergeMessageList and insertReceived),
`ProcessUserMessage`. A serial is known here only by its order, which is that of
`Transmit`. Left out: messages that are not guaranteed (never split), voice
packets, RemoveUserMessages, several players, and a channel that is cancelled.

### What is abstracted in NetChannel

- Times. A timeout may happen at any moment, so a heart-beat, a ping and a
  resend may happen whenever their other conditions hold. This allows more than
  the clock does.
- `runRevisited` treats one message per step, not the whole list under one lock:
  again more behaviours than the code has.
- The bit-masks are sets and the `ack[]` ring a function of the serial. Rings
  and shifts have their place in the plan (`AckRing`).
- The map `deferred` is a set. The order of two messages deferred behind the
  same predecessor would matter; `OneSuccessor` says there never are two.
- Left out: band-width, drop-out and latency statistics, bunches, broadcast
  (control) channels, the thresholds of the dispatcher, the message pool, the
  wrap of 32-bit serials. Acknowledgements with a body (big acks) are decoded by
  the code but heart-beats never have one.

### NetSession and the code

Each step is what one thread does in one hold of `usrCs`.

| Variable | Code |
|---|---|
| `users` | the map `users`: for each player's ID the address of its channel |
| `chans` | the peer's map of channels |
| `support` | `m_support`, by address |
| `creates`, `deletes` | `_createPlayers`, `_deletePlayers` |
| `known` | what the call-backs of ProcessPlayers told the game |
| `kicks`, `sender` | players whose kick waits in their channel; the one whose kick left, before the call-back |
| `listener` | the listener inside ctrlReceive, while it has let go of `usrCs` (DESTROY_WAIT), or before it looked up the support |

Actions: `CreatePlayer` and `CreateWaited` (ctrlReceive on MAGIC_CREATE_PLAYER,
with the search for a free ID and for a duplicate), `DestroyMsg`,
`ReceivePart` / `KeepPart` (a fragment), `KickOff`, `Send` / `Sent` (postSend and
destroyPlayerCallback), `ProcessPlayers`, which may refuse a player. `Finish`
is finishDestroyPlayer, which all ways of leaving share.

### NetLocks and the code

`todo` is the rest of a thread's sequence of lock operations, `owner` who is
inside each section. Listener and sender enter the peer's section first and find
out there what they have to do (`Look`): a message of a channel (`Messages`), a
pass over the channels (`Passes`), or nothing once the map of channels was
emptied. The main thread runs frames and in the end the destructor of the server
(`Shutdown`) with `NetPeerUDP::close` (`Close`), whose first hold of the peer's
section stops both threads, closes all channels and empties the map: `working`
stands for all three. Re-entered sections and those held alone are left out, as
they cannot take part in a cycle.

### MasterDirectory and the code

| Variable | Code |
|---|---|
| `row` | the row in `servers`: token's hash, `last_seen_unix_ms`, the prober's verdict, its time and `consecutive_failures`; times are ages |
| `task` | the handlers of requests, which stand between two SQL statements |
| `pub` | the publisher: the token it holds, the token in the file, when it is due, what it waits for; and of its publishes how many failed in a row (`lost`) and whether the last one was refused (`refused`) |
| `probe` | the prober's round |

Actions: `ReadRow`, `ReadHash`, `Upsert`, `Reread`, `SetTokenHash` (register_server),
`CheckUnregister`, `Delete` (unregister_server), `Drop` (a handler whose caller
went), `Start`, `Publish`, `Stop`, `Receive`, `GiveUp`, `Crash` (the publisher),
`ProbeRound`, `Observe`, `Prune` (the prober), `Tick`. The other servers of the
directory matter only for the rule that a round in which nothing answers is the
prober's own outage; they are a number.

### ModDownload and the code

`run[r]` is a thread with its `Session`; `dialog` its phase; `missing` the rows of
the list; `part` and `dest` name files, `content` is what a file holds, also one
that was removed while a thread has it open; `tree` and `manifest` the installed
directory and its `mod.json`. `Apply`, `Rescan`, `Start`, `Poll`, `Cancel`,
`Continue` are the dialog's, `Quit` the end of the game; `Step` is
RunDownloadJobs: `Head`, `Open`, `Receive`, `EndTransfer`, `Discard`, `Clear`,
`Rename` (DownloadMasterServerServiceFile), `Returned`, and `Unpack`, `Install`,
`InstallFails`, `Manifest` (postStep). Every file operation is a step.

Failures come in two kinds. One that the code sees ends the run (`fault`): a file
that cannot be opened, a write or a rename that fails, a transfer that breaks off.
One it does not see is a buffered write that is lost when its file is closed, as
no result of `fclose`, nor of the stream of `mod.json`, is looked at
(`Core/ModArchive.cpp:221`, `Core/ModInstall.cpp:138`,
`Network/MasterServerServiceClient.cpp:1070`): the last chunk of an archive, an
entry, or the text of `mod.json` (`MayLose`, where `DiskFills`); the last two are
remembered in `lost`, the first is found when the archive is unpacked. What a
scan of the disk finds (`Scans`) are the mods with a `mod.json` and any of those
with a directory, since `LooksLikeMod` is content with a subdirectory of four
names: so half a directory may count as installed, and is then no longer missing.

### StreamedWave and the code

| Variable | Code |
|---|---|
| `wave` | `_wantPlay`, `_playing`, `_userPaused`, `_everPlayed`, `_loaded`, `_loadError`, `playIntent`, `_terminated`, `_looping`, and the chunks for which the decoder returns nothing |
| `stream` | `_streaming`: the decoded chunks, `buffersInFlight`, the free buffers, the offset, `eofReached`, `aborted`, `decodeInFlight` |
| `al` | the OpenAL source: its state, its queue, how much of it was played |
| `pump` | the pump thread inside DecodeOneChunk, with what it read |
| `main` | the main thread between the two halves of Stop, Restart, Repeat and LastLoop, and in the destructor before its wait, behind it, and gone |
| `round` | how often DoStop has reset the stream; each chunk carries the round it was read in |

A pass of the pump, PumpDrainUpload under the audio mutex, is three steps:
`PumpEnter` (the looks at the source and at `aborted`), `PumpDrain` and
`PumpUpload` (uploading, and the decision to decode, which latches
`decodeInFlight`). Between them comes what takes no mutex: Play, Resume, Unload,
and the destructor's abort and wait (`Destroy`, `WaitDecode`); what takes it waits
for `MutexFree`, also the rest of the destructor (`Free`). `DecodeCheck`,
`DecodeAdvance`, `DecodeNothing`, `DecodeFlag`, `DecodePush`, `DecodeDone` are
DecodeOneChunk without it, cut where another thread can see or change what it
shares. The user's calls, `Commit`, `Poll`, `Unload`, `Replay` and `Free` are the
main thread's. `PlayBuffer` is the device.

## 3. Runs

TLC explores every state within the bounds. In the channel's runs the server and
the client are two ends with a bounded number of messages each (`MaxMsgs`) and of
*different* packets each (`FewPackets`; any of these may arrive any number of
times). `CHECK_DEADLOCK FALSE`: as messages, calls and runs are bounded, the
system really stops when all are used; only the directory never does. There is no
symmetry: the ends differ, and elsewhere there are liveness properties.

| Run | Traffic | Checks | Shows |
|---|---|---|---|
| `order` | up to 4 guaranteed messages of all kinds, urgent ones that setOrderedPrevious makes guaranteed, the handshake | `ResentIsSame`, `OneSuccessor`, `InOrder`, `ImplementsDelivery` | two chains under loss, repetition, reordering and resends; the order of each class; the refinement of `VimDelivery` |
| `cancel` | two guaranteed or control messages or the handshake against one common message, and heart-beats of both, all windows of one serial; the server cancels, the client closes | `TypeOK`, `AckTruth`, `OnePlace`, `AtMostOnce`, `PredecessorKnown`, `NoAckForgotten`, `AckIsFinal`, `ImplementsChains` | acks cross messages, resends, and the gap between sendData and postSend; serials fall out of the ring, `oldAckQueue` of one place overflows; cancelling and closing between any two steps |
| `live_twoway` | 2 and 1 guaranteed, 3 packets lost | `EventuallyDelivered`, `EventuallyAcked` | loss of messages and of acks is repaired; resends of both ends that cross do not starve each other's acks |
| `both` | 2 user messages of 1 or 2 parts one way, 1 the other | `OpenerPresent`, `WholeAndInOrder`, `EventuallyReported` | parts of both classes in any order the channel allows, while users take messages |
| `fragments_late` | the same, AckPlayer at any time | `OpenerPresent`, violated | see Findings |
| `session` | 3 addresses, 2 proposed IDs, 5 CreatePlayer messages | `TypeOK`, `Accounted`, `BooksAgree`, `KickedGoes`, `EventuallyTold` | players who connect, connect again, leave, are kicked and are refused, in any order of three threads |
| `locks` | the threads of a server, which is destroyed in the end | `CloseStopsThreads`, violated | see Findings |
| `directory` | one server, 2 handlers, 1 other server, 1 fault | `StaysListed`, `NeverRefused`, `LockoutEnds`, `OutageHarmless`, `EventuallyListed`, `EventuallyGone` | publishing through restarts, crashes, timeouts, lost answers and lost files |
| `download` | 2 mods of 2 chunks, 2 runs, the game ends once | `DoneInstalled`, `FailsForCause`, `NoLeftovers`, `EventuallyAnswered`, `CancelledEnds` | failures seen and unseen, transfers that stall, cancelling, retrying, the end of the game between any two steps |
| `abandoned` | the same, no write lost unseen | `DoneIsInstalled`, violated | see Findings |
| `wave` | a track of 3 chunks on 2 buffers, 5 calls | `TypeOK`, `NoBufferLost`, `Bounded`, `InTrackOrder`, `EventuallyFreed`, `EventuallyEnds`, `PauseHolds` | every call at every point of the pump; uploads and the opening fail |
| `freed` | the same track, a play and the destructor | `NoUseAfterFree`, violated | see Findings |

### Properties

The channel:

- `InOrder`: guaranteed messages of each class (urgent or not) reach the
  call-back in the order of dispatch, without a gap.
- `AtMostOnce`: no message is given to the call-back twice.
- `AckTruth`: a message its sender holds for acknowledged was delivered, or its
  receiver holds it (unless it closed).
- `OnePlace`: the sender holds each message in one place, and a guaranteed one of
  an open channel in some place until it is acknowledged or cancelled.
- `NoAckForgotten`: each guaranteed message received has its ack still owed or on
  some packet.
- `ResentIsSame`: all packets of a message tell the receiver the same.
- `PredecessorKnown`: an ordered message carries its predecessor's serial, which
  the code asserts (`NET_ERROR(control2 != MSG_SERIAL_NULL)`).
- `OneSuccessor`: no two messages wait behind the same one, so that the stack of
  `processVIM`, which would reverse them, does no harm.
- `AckIsFinal`: no step changes an acknowledged message.
- `ImplementsDelivery`: each step of the channel is a step of `VimDelivery` (send a
  guaranteed message, or give the next one of a class or another message, never one
  that was given before) or a stutter. `ImplementsChains`: the same
  of `VimChains`, also with a late handshake, cancelling and closing.
- `EventuallyDelivered`, `EventuallyAcked`: see Fairness.

The session:

- `OpenerPresent`: a closing part finds the parts before it.
- `WholeAndInOrder`: what the user is given are whole messages, with their parts
  in order and none of another message, each class in the order of SendMsg.
- `EventuallyReported`: each message is reported in the end.
- `Accounted`: what the game was told and the news that wait for it add up to the
  players there are, and no list names one twice. `numPlayers` rests on it, which
  ProcessPlayers counts down and up by the lists.
- `BooksAgree`: users, channels and supports name the same addresses, one player
  to each.
- `KickedGoes`: a player with a kick under way leaves. `EventuallyTold`: when
  players stop coming, the game knows the ones who are there.

The directory:

- `StaysListed`: a server that was accepted stays listed through as many failed
  heart-beats in a row as the freshness is made for; the one exception is an
  unregister of its own whose caller had given up (`late`).
- `NeverRefused`: without a fault no publish is refused, also after a restart.
- `LockoutEnds`: a server that was refused is accepted as soon as its row is stale:
  while it is refused, the row is younger than the protection, one retry and two
  requests, which is less than what a row is pruned at.
- `OutageHarmless`: no round in which the prober was cut off counts as a miss.
- `EventuallyListed`, `EventuallyGone`: a server that stays comes back to the list,
  one that is gone leaves.

The mods:

- `DoneInstalled`: what the dialog calls done is whole on the disk and has its
  `mod.json`, unless an abandoned thread came in its way or a write was lost where
  the code does not look. That exception is the code's, not the model's: with a
  full disk the dialog does say done of a mod that is not whole.
- `FailsForCause`: a run that is alone fails only for a fault of its own, never for
  what earlier runs have left.
- `NoLeftovers`: no `.part` outlives the threads.
- `EventuallyAnswered`: a dialog that waits for ever waits for a transfer that
  neither goes on nor ends; nothing else holds it. `CancelledEnds`: a run that is
  told to stop ends, also one whose transfer stalls.

The sound:

- `NoBufferLost`: each buffer of a live source is on its queue or free.
- `Bounded`: there will be a buffer for each chunk decoded or being decoded.
- `InTrackOrder`: chunks are heard in the order of the track, but for one that was
  being decoded when the wave was stopped.
- `NoUseAfterFree`: no decode outlives the wave; the run `freed` shows that one
  does. `EventuallyFreed`: the destructor does not wait for ever.
- `EventuallyEnds`: a wave that plays comes to its end.
- `PauseHolds`: a wave that is paused is started by its user only, not by a frame
  that finds it dry, nor by the end of a loop.

Three modules have a `TypeOK` that no run checks (`NetFragments`,
`MasterDirectory`, `ModDownload`); they say what the variables are.

### Bounds

*The channel.* The windows of the code are 31 and 63 serials per header, 1024 in
`ack[]`, 7 in `oldAckQueue`, 65536 in the masks with a margin of 4096. With a few
messages those limits would never be met; the runs shrink them so that they are:
acks of one to three serials (`ShortAck`, `LongAck` 0 to 2), `AckArray`,
`OldAckSlots` and `StarveGap` of 1, 1 and 0 in `cancel`. `AckRedundancy` is 1 (2 in
the code): less redundancy is the harder case for `NoAckForgotten` and for
liveness. Three messages of a class make chains with a middle element, which
order and deferral need (`order`); two against one back let every pair of acks and
messages cross (`cancel`). The masks do not move in the runs (`MaxMask` 8): once they do, the
channel gives guaranteed messages up by design, which takes 61440 serials in
flight. The exploration stops behind a state with more packets than `MaxPackets`;
such a state is still checked. In `NetFragments` two parts tell an opening from a
closing one, and two messages let one class overtake a merge of the other.

*The session.* Two IDs that are neighbours, tried twice each: a player takes the
ID another one wanted. Three addresses and two free seats: the session is full at
times. Five CreatePlayer messages: two players, one of them replaced twice.

*The directory.* Times are ticks. The code has a heart-beat each 30 s, retries
each 5 s, a timeout of 15 s, rows fresh and protected for 120 s, hidden for 300 s and
pruned after 3600 s. `DirectoryAssumption` states the two inequalities between them
that matter, that a heart-beat with the tolerated failures fits into the freshness
and that a lock-out ends before the row is pruned, and the run takes small numbers
that satisfy them (1, 1, 1, 5, 5, 2, 8). One failure is tolerated, two misses hide a
row (3 in the code), an outage needs two servers (3). Two handlers are a request
and one that was given up. One fault: timeouts, crashes and losses are single,
but each may meet any step.

*The mods.* Two runs make one that was abandoned and one that meets it; two
chunks make a file that is part written; two mods make a second item of a list; one
end of the game is followed by a run on what it left. `MaxFaults`: one thing fails
by itself or is lost, at any step; what the user cancels and what runs do to each
other is not counted.

*The sound.* Two buffers (four in the code): one plays while the other is filled.
Three chunks: the track is longer than the ring. The decoder returns all chunks,
or nothing for the last (`WholeOrNot`), as for a file whose header is wrong.
Five calls reach every pair of operations with the plays between. The proofs hold
without any of these bounds.

### Fairness

`NetChannelLive`: the program's threads run, which is weak fairness of all steps
of the sender and listener threads together. Loss is bounded by `MaxLosses`, the
users send finitely many messages. Nothing is assumed of the network but that.
Timeouts are not fair by themselves; the module orders them. A round is the
longest resend timeout. In it every unacknowledged message is resent, and each
peer sends a heart-beat, unless other packets left meanwhile, which it may claim
at most `MaxSkips` rounds in a row (the ping is retried regardless). A timer
expires when nothing is under way, because timeouts are at least three times the
latency plus 0.4 s; resends of both peers may expire together. A heart-beat is
not made to cross a resend for ever, because heart-beats are at most 2 s apart
while resends slow down to one in 7 s. That is what liveness rests on: the
listener ignores the acks in the header of a *duplicate*, and an ack that comes
while its message is queued to be resent finds it in no map and is lost. Two ends
that only resend to each other would never learn of the delivery; heart-beats,
which are never duplicates of each other, tell them.

`NetFragments` assumes that threads go on, users ask for messages again and again,
and that the channel delivers what is ready, which is `EventuallyDelivered`. No
step of one takes away a step of another, so one weak fairness condition suffices.

`NetSession`: the listener and the sender go on, and the game calls
ProcessPlayers in every frame; clients need not do anything. `NetLocks`: strong
fairness of a section's entry, as a thread that waits is served at some time
although others enter again and again; so the counterexample is a deadlock and not
a starvation.

`MasterDirectory`: handlers, the prober's loop and time go on, and the publisher
publishes when it is due. Nothing makes it start, stop or crash.
`ModDownload`: each thread goes on but in a transfer, and the dialog polls in every
frame. Nothing is assumed of a transfer: curl is given a time to connect in, but
no time in all and no least speed
(`Network/MasterServerServiceClient.cpp:279-281`, 338), so it may stand still for
ever. Once the session is cancelled it ends, because curl calls the progress
call-back whether or not anything arrives.

`StreamedWave`: decodes and passes go on, the device plays on. A frame commits and
polls, with strong fairness, as the pump sleeps between its passes and leaves the
mutex to the main thread. The beginning of a pass that finds a played buffer has
strong fairness: passes come every 10 ms while a buffer lasts 100 ms, so some pass
falls between any two ends of buffers.

### Mutants

For each property of each passing run `PROJECT.json` names a small change of the
model, such as a plausible bug would make (a message remembered although it is queued to
be resent, a player announced in both lists, a stop that forgets the buffers of the
source), with which the same run finds the property violated. They stand in the
module before the definition they change, with the comment "Mutant".

## 4. Findings

`fragments_late` (an assertion fails). `ctrlReceive` sends AckPlayer after it left
the lock `usrCs`, while the main thread may be in SendMsg. AckPlayer becomes
`lastVIM` but is not ordered behind the message before. If it comes between two
parts of a user message, the second waits for AckPlayer and not for the first
part, which may be lost and resent meanwhile. `clientReceive` asserts
`NET_ERROR(_client->split.NotNull())` (`Network/NetTransportNet.cpp:1091`) and then
uses `lastSplit`. The server, to which AckPlayer is not sent, has a check instead.
The run uses the abstract channel; the steps it needs of it are possible in
`NetChannel`, where TLC finds `InOrder` violated with `LateHandshake`.

`locks` (a deadlock). The destructor of NetServer holds `poolLock` while it calls
`NetPeerUDP::close` (`Network/NetTransportNet.cpp:1873-1883`). TLC's trace is the
sender's: it has found a kick, inside the peer's section, and waits for `poolLock` in
destroyPlayerCallback (line 2041), while close() waits for the peer's section
(`Network/Legacy/NetPeer.cpp:675`) before it has stopped anything. The kick has to
leave later than the 500 ms the destructor gave it. The listener has a way of its
own: it waits for `poolLock` in ctrlReceive (line 526) with a CreatePlayer message,
outside the peer's section, and close() waits for it in its join (`NetPeer.cpp:704`).
A pass that begins after close() has emptied the map finds no channel, so there is
no third way. Then the threads are never stopped, which the comment at line 1876
says they are.

`freed` (memory used after it was freed). `~WaveOAL` sets `aborted` and waits until
`decodeInFlight` is false, without the audio mutex
(`src/engine/PoseidonOpenAL/WaveOAL.cpp:114-118`). If the pump is past its look at
`aborted` (432) and has not latched `decodeInFlight` yet (498), the wait is over at
once; the destructor takes the mutex when the pass has ended (122) and frees the
wave, which the pump holds in `toDecode` and goes on to decode
(`SoundSystemOAL.cpp:234`). The comment there says the destructor "spins on it before
freeing -- the raw pointer stays valid". There is a second, smaller window that
the model leaves out: DecodeQueuedChunk clears the flag (510) and then reads the wave's
name for a trace (512).

`abandoned` (a comment and the code disagree). "The download dialog confirmed
every ticked mod is now installed" (`UI/OptionsUIApp.cpp:1601`). A run that was
cancelled is not joined; one that is unpacking installs to its end, as nothing in
postStep looks at `cancel`. It may empty an entry the next run has just written,
before it writes that entry itself, while the dialog of the next run says that all
is done. The run leaves the full disk out (`DiskFills`), with which one thread
would be enough.

Other disagreements, met while modelling, are hazards in `PROJECT.json` with the
lines: a serial outside the span of the masks is not rejected although
`Network/WireBounds.hpp` says so; a stopped streamed wave cannot be played again
because its source is deleted and not made again, where the table of states in
`Audio/IAudioSystem.hpp:31-52` says "Stop()'d, next Play() succeeds", and one stopped
while paused keeps its queue and offset; half an installed directory counts as
installed (`Core/ModCollection.cpp:161`) and is not downloaded again; a decode that a stop has overtaken overwrites the offset that
the stop has just reset (`src/engine/PoseidonOpenAL/WaveOAL.cpp:647` and 1118), so
the replay goes on from there; a duplicate CreatePlayer whose ID was shifted is not
recognised. The models do what the code does in each case.

## 5. Proofs

### The channel

For every pair of peers and every value of the constants (any number of messages,
kinds of traffic, sizes of windows, whoever may cancel, close or reconnect):

| Module | Theorem | Statement |
|---|---|---|
| `NetChannelProofs` | `Inductive` | `Spec => []IInv` |
| | `TypeCorrect` | `Spec => []TypeOK` |
| | `OneHolder` | `Spec => []OnePlace` |
| | `ResentSame` | `Spec => []ResentIsSame` |
| | `AckFinal` | `Spec => AckIsFinal` |
| `NetChannelReception` | `AcksRemembered` | `Spec => []NoAckForgotten` |
| | `NoneTwice` | `Spec => []AtMostOnce`, if `MasksSuffice` |
| | `AcksHonest` | `Spec => []AckTruth`, if `MasksSuffice` |
| `NetChannelDelivery` | `PredecessorsKnown` | `Spec => []PredecessorKnown` |
| | `OneEach` | `Spec => []OneSuccessor`, if `MasksSuffice` |
| | `ChainsImplemented` | `Spec => ImplementsChains`, if `MasksSuffice` |
| | `VimsInOrder` | `Spec => []InOrder`, if `MasksSuffice`, `~LateHandshake` and `MayCancel = {}` |
| | `DeliveryImplemented` | `Spec => ImplementsDelivery`, under the same |

`MasksSuffice` says that neither peer allocates more messages than the bit-masks
hold (`MaxMask`, 65536 in the code), so that they never move on and no serial is
outside their span. These theorems cover that part of a channel's life and no
more, as do the runs. Without the premise they are false: when the masks move
on, what is below counts as received, and a message with a serial outside their
span is delivered each time a packet of it arrives (see the hazards at
`NetChannel.cpp` 608 and 632). The last two need, besides, that AckPlayer comes
before all other messages and that nobody calls cancelAllMessages: either
begins a new chain, whose messages do not wait for those sent before. Closing is
allowed. Otherwise assumed are only the constants' own conditions, named in `NetChannel`:
`PeerAssumption` (two different peers), `KindsAssumption`, `ModeAssumption`,
`BoundAssumption` (windows are natural numbers, the rings not empty, the margin
of the masks below their size). TLC evaluates them in each run.

**Why IInv.** None of these properties is inductive. That the sender holds a
message in one place needs to know that a message leaves the queue it is taken
from, so that no queue holds one twice; that a queued message is not also
remembered, for which the status must fit the place (`StatusFits`: what is queued
is new or sent, what is prepared is pending or sent, what is remembered is sent
or acknowledged); and that an ack changes only what is remembered. That a resent
message is the same needs that a serial, once given, stays, that serials 1, 2, ...
are given once each (`SerialsFit`), and that the predecessor is resolved in the
first header and never afterwards. `IInv` puts this together: types; for each
peer `Sound` (queues apart, places apart, statuses that fit, no dispatched
guaranteed message lost, serials that fit), the bounds of the receiver; and for
each packet `PacketSound`, what it says of its message and what will stay so.

**How it is laid out.** The listener and the sender change the outgoing side
through the same record `Outbox(p)`, so the facts about heart-beats, ping replies
and acks are lemmas about such records (`HeartBeatSound`, `DelayReplySound`,
`MarkAckedSound`), used by every action that calls them. Messages only change in
ways a relation `Grows` allows (their number grows, a given serial stays, an
acknowledged message stays as it is), which carries `PacketSound` over every step
at once and gives `AckFinal`. That serials never exceed the number of messages is
a pigeon-hole argument (`SerialsCount`), which bounds what the receiver's windows
hold. Then there is one lemma per action, `NextStep` combines them, and each
theorem follows from `IInv`. TLC checked `IInv` first, on the instances of
`order` and `cancel`.

**Reception.** `NoAckForgotten` needs that every serial in `ackMask` came in a packet
(`MaskTrue`): otherwise a message sent now could carry a serial whose ack was
counted down long ago. `AtMostOnce` needs where a received message may be:
`ReceivedOnce` says that what is held for the call-back is received and not
processed, in one packet, and what was delivered is received and, if guaranteed,
processed. So neither a repetition (its serial is in `ackMask`) nor a second
`processVIM` (its serial is in `procMask`) can deliver it again.

**Acks.** `AckTruth` goes from the sender's mark to the receiver's state in three
steps: a message is marked only for an ack in some packet (`Marked`), a packet's
acks are in its sender's `ackMask` (`AcksSound`), and a guaranteed message in
`ackMask` is held or was delivered (`HeldUntilProcessed`).

**Chains.** `Follows(ms, i, j)` says that message `i` is ordered behind `j`, by id
until `i` is sent and by serial afterwards. `Chain` says of a peer's messages and
queues: an ordered message is guaranteed and knows the serial of its predecessor
once it is sent; a predecessor without a serial is queued ahead of its successor,
in the same queue or a more urgent one, so that it gets its serial first; the last
message of a class has no successor but the draft, and no other message has two.
It refers to no variable, so the lemmas about it hold for any step that lengthens a
queue, takes its head, cancels, or numbers a message; each action is then one of
these.

**Delivery.** The refinement of `VimChains` puts the former together
(`Everything`). `LinksStep`: no step changes who is ordered behind whom, so the
abstract `after` only grows. `Histories`: what was dispatched is every guaranteed
message but the draft, once. A dispatch is then `Send`: its predecessor was dispatched
before it, and is nobody else's. A `processVIM` is `Take`: the predecessor's
serial is in `procMask`, so in `ackMask`, so a packet brought it, and it was
delivered. All else stutters; in particular what goes to the call-back at once
is not guaranteed.

**Order.** A chain says of each message only what it waits for. That this is the
newest of its class is `AllLinear`: in the history of what a peer dispatched the
predecessor of each message is the last before it of its class, or there is none
before (`Gapless`), and `lastVIM` and `lastUrgent` are the newest, with the draft
ordered behind one of them (`LastsNewest`). Here `~LateHandshake` and
`MayCancel = {}` are needed, and only here. A message that goes to the call-back
finds its predecessor there, which was in turn, so all of the class before that one
are there too (`TurnTaken`): `AllTurns` is `InOrder` without its look at the flag
VIM, and inductive with `AllLinear`. For `VimDelivery` the same lemma gives the
guard of `Give`; a dispatched message is new because what was delivered has a
serial and the draft has none.

### The user messages

`NetFragmentsProofs`, for any numbers and lengths of messages of either class, from
`PeerAssumption` and `FragmentAssumption`, and from `~LateHandshake`: the server
sends AckPlayer before any user message, which is the usual order, but no lock
enforces it. Without that premise `OpenerPresent` is false, which is what the run
`fragments_late` shows (see the findings).

| Theorem | Statement |
|---|---|
| `OpenerAlwaysPresent` | `~LateHandshake` implies `Spec => []OpenerPresent` |
| `MessagesWholeInOrder` | `~LateHandshake` implies `Spec => []WholeAndInOrder` |

Both follow from one invariant, `IInv`, which says of each direction (`Sound`) what
its sender, its queues and its receiver hold.

*The sender* (`SenderSound`). What was dispatched are the parts of the user's
messages in their order, none left out, and each is ordered behind the newest of
its class (`PartSound`). `Progress` and `DraftSound` say the same of the message
whose loop is not over, so that the next dispatch keeps it.

*The queues* (`LineSound`). A class keeps its order from `dispatchMessage` to the
wire, as it keeps to one queue; AckPlayer goes with the urgent ones. So of two parts
of a class the later one has the greater serial (`SerialOrder`), and the list that is
sorted by serial is sorted as the user sent it.

*The receiver* (`ReceiverSound`). `VimChains` gives it a part only after the one that
part waits for. As that one is the newest of its class, what was taken is, of each
class, an initial piece of what was dispatched (`Initial`, `ChainFact`). So the parts that
are collected are those of one message up to the newest taken (`SplitSound`), a
closing part finds exactly the parts before it (`SplitBefore`), and that is
`OpenerPresent`. A complete message is put behind all of its class
(`InsertMessages`), although messages of the other class may wait before and behind it; that each
closing part that was taken has its message (`Finished`) is what makes "none left
out" inductive.

### The session

`NetSessionProofs`, for any addresses, proposed IDs, number of tries and seats,
from `SessionAssumption` alone:

| Theorem | Statement |
|---|---|
| `SessionInductive` | `Spec => []IInv` |
| `SessionTypeCorrect` | `Spec => []TypeOK` |
| `NewsAddUp` | `Spec => []Accounted` |
| `BooksAlwaysAgree` | `Spec => []BooksAgree` |

The two properties are nearly inductive together. `Accounted` alone is not: that a
new player may be announced needs that its ID is in neither list nor known, which
follows from the equation between players and news. `BooksAgree` carries that an
address without a channel has no player. `IInv` adds only what the listener
remembers while it waits. Everyone who leaves goes through `Finish`, so one
lemma about it serves the four actions that call it.

### The streamed wave

`StreamedWaveProofs`, for any number of buffers and chunks, any failures and any
number of calls, from `WaveAssumption` alone:

| Theorem | Statement |
|---|---|
| `Inductive` | `Spec => []IInv` |
| `TypeCorrect` | `Spec => []TypeOK` |
| `BuffersKept` | `Spec => []NoBufferLost` |
| `RingBounded` | `Spec => []Bounded` |
| `TrackOrder` | `Spec => []InTrackOrder` |
| `PauseKept` | `Spec => PauseHolds` |

`IInv` has three parts. `Types` leaves the lengths of the queues to `Buffers`,
which joins `NoBufferLost` and `Bounded` with what they need: the
stream is busy exactly while the pump decodes; before the first play there are no
buffers; a source that is gone has an empty queue; a source that plays has
something left to play (otherwise the device would play beyond its queue).

`Order` is what makes `InTrackOrder` inductive. A chunk is pushed without a look at
what was pushed before, so the invariant must say what the pump is about to push.
`Continued`: the last chunk that will be heard is followed by the one being
decoded, or, between two decodes, by the one at the offset. `Advancing`: once a
chunk is read, the offset is behind it. `Overtaken`: if a stop has come since the
pump read the offset, nothing is left to be heard, so its chunk, of an older round, comes
first; without this the one exception of `InTrackOrder` could occur in the middle.
The order of a queue is kept by cutting its head (`CutFact`), so recycling,
uploading, unloading and aborting are one lemma, `CutOrder`, with the facts about
`SubSeq` and `\o` in `WindowFact` and `RestFact`. What an aborted stream has decoded
is heard only from a pass that was under way (`Pending`).

`PauseKept` needs `Awake` besides: a wave that waits for the second half of Repeat or
LastLoop is not paused, so no play comes of it that its user did not ask for.

### The directory

`MasterDirectoryProofs`, for any intervals, numbers of handlers, tokens, other
servers and faults, from `DirectoryAssumption` alone:

| Theorem | Statement |
|---|---|
| `DirectoryInvariant` | `Spec => []IInv` |
| `DirectoryTypes` | `Spec => []TypeOK` |
| `AcceptedStaysListed` | `Spec => []StaysListed` |
| `TokensAgree` | `Spec => []NeverRefused` |
| `RecoveryEndsLockout` | `Spec => []LockoutEnds` |
| `OutagesAreHarmless` | `Spec => OutageHarmless` |

Two of the properties bound an age and are not inductive, as a row grows older
while a request is on its way. `Ahead` says how long it is to the next request or,
below zero, since the last one. What stays is the sum of it and the row's
age, which time does not change: `Kept` bounds the sum for a server that was
accepted, by a beat, a timeout and one retry and timeout for each failure in a row,
and `Locked` does for one that was refused. A refusal starts the second bound because it met a young row
(`RefusedYoung`), although the handler read the age some statements before: what
it read ages with the row, which others may only have refreshed since (`ReadRight`). `Refreshed`
carries the acceptance from the SQL statement to the answer. All four rest on
`Single`: of the requests under way at most one is awaited, and it is the
publisher's last. The first inequality of `DirectoryAssumption` then gives
`StaysListed`.

`NeverRefused` is about who knows which token. `Quiet` says it for each point of
a run without faults: an idle publisher owns its row (`Idle`), one that publishes
again shows the token of the row at each statement of the handler (`Again`), one
that publishes first finds no row and is issued a token (`First`), and
an unregister takes the row with it (`Last`), so that the next start is a first.

### The downloads

`ModDownloadProofs`, for any numbers of mods, chunks, runs and ends of the game,
from `DownloadAssumption` alone:

| Theorem | Statement |
|---|---|
| `DownloadInvariant` | `Spec => []IInv` |
| `DownloadTypes` | `Spec => []TypeOK` |
| `DoneMeansInstalled` | `Spec => []DoneInstalled` |
| `FailuresHaveCause` | `Spec => []FailsForCause` |
| `NoPartLeft` | `Spec => []NoLeftovers` |

`Owned`: each `.part` belongs to a thread that will rename or remove it, whoever
opened it before; this is `NoLeftovers` one step ahead. `Sole` and `Undivided`: a
run that was alone when it started stays so, and what its name and its file
hold is what it has received, so it fails for a fault of its own only. `Intact`: what a
run has written to the end is whole, unless it has lost a write unnoticed or a thread
that was abandoned is just writing the same mod, has failed in it or lost one
(`Spoilt`); such a thread was there when the run began (`Current`, `NotYet`), as no
later one exists. `AllRecorded` says the same of `mod.json` for the mods a run is
done with (`Lossy`).

### Only model-checked

Liveness under fairness, of every component that has it, is beyond the prover and
stays with TLC. `NetLocks` has one run, which shows a
violation, so there is nothing of it to prove. What a destructor or a disk breaks,
`NoUseAfterFree` and `DoneIsInstalled`, is false, and neither is proved of anything.

## 6. Not modelled

`PROJECT.json` lists every component with its status. Of the network code, the
peer's scheduling of several channels, the message pool, the clocks that decide
that a peer is gone, voice, the enumeration of sessions and the game's own state
machines are left. NetSession says nothing of memory: what a raw pointer refers to
after its player was destroyed is a hazard without a property. Reconnecting has no
caller in the code.

Of the master server the catalogue of mods, samples and sessions and identities
bound to an IP are left out; the browser is one request. A short read within a
chunk counts as a transfer that failed. In `ModDownload` all mods of the list are
ticked, opening, writing, closing and renaming files can fail but removing them
cannot, and the content of an archive is whole or not. In `StreamedWave` volume, pitch, position, Skip, the queue of waves
and waves that are loaded whole are left out, and a buffer is a chunk long.

File formats, graphics, UI, AI, simulation and the script interpreter are
sequential data processing for which a state-machine model says little; they are
most of the lines of the repository.

## 7. Plan

Done: `NetChannel` with its abstract specifications and liveness, `NetFragments`,
`NetSession`, `NetLocks`, `MasterDirectory`, `ModDownload`, `StreamedWave`, and the
theorems above. To do, in this order:

1. **More proofs.** The channel beyond `MasksSuffice`: what holds of the serials
   that stay within the span while the masks move. `NetFragments` with
   `LateHandshake`: which of the messages remain whole.
2. **`AckRing`**: the ring `ack[]` with `ackPtr` as the code keeps it, shown to
   implement `ackLeft`.
3. **`NetPeer`**: the round robin over several channels; no channel starves.
4. **`NetPool`**, mission transfer, the rate limiter, and the states of
   NetworkServer.

Abstract specifications worth stating beyond the two there are: a session as a
set of players each connected at most once; a transfer as "complete or absent".
