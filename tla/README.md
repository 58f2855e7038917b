# rpi-POD: a verification development

rpi-POD is an offline community hub on a Raspberry Pi: a Wi-Fi portal with a
notes board, a radio listener, an offline assistant, and a mesh daemon that
exchanges signed notes with other hubs. This directory holds TLA+ models of the
parts of it that carry state, the TLC runs that check them on small instances,
and theorems about them checked by TLAPS.

## 1. The system

| part | state it keeps | operations | talks to |
|---|---|---|---|
| mesh peer table (`mesh/rpi_pod_mesh/peers.py`) | a dict of `Peer` objects: trust, last number seen | `upsert`, `accept_sequence`, `mark_trusted`, `mark_blocked`, `all` | both radio threads and the owner's requests, without a lock |
| mesh daemon (`main.py`) | `_OUTBOUND_SEQ`, `_LORA`, `_WIFI`, `_BUNDLE` (its identity) | `/health`, `/notes/publish`, `/peers`, `/peers/{fp}/{trust,block}`, `/identity` | notes service (loopback HTTP), alfred, the bridges |
| LoRa bridge (`lora_bridge.py`) | status, read buffer | connect, read, cut frames, dispatch, retry | Reticulum's Unix socket; `_on_lora_frame` |
| Wi-Fi bridge (`wifi_bridge.py`) | status | poll `batctl o`, `alfred -s 65` | batctl, alfred; `_on_wifi_peer` |
| identity (`identity.py`, the keygen unit) | two key files, systemd's copies of them | generate, read, load | the mesh daemon, which starts after it |
| messages, QR (`messages.py`, `qrcode.py`) | none | sign, verify; encode a fingerprint, draw it | the daemon, the owner's terminal |
| notes board (`notes/`) | SQLite on tmpfs, one shared connection | post, list, delete, wipe | mesh daemon (one call, 0.5 s) |
| listen tuner (`listen/.../dongle.py`) | child handle, mode, lock | `/tune`, `/stop`, `/state` | `rtl_fm` |
| alerts (`listen/.../alerts.py`, `same.py`) | ring of 32 alerts | parse and push, list | `same_pipeline.sh`, the listen page |
| SAME pipeline (`scripts/same_pipeline.sh` under its unit) | an `rtl_fm` of its own | start, fail, start again | the dongle, `POST /alerts/internal` |
| ADS-B decoder (the package dump1090-mutability, configured and started by `install.sh`) | the files in `/run/dump1090-mutability` | start, end | the dongle, nginx |
| audio (`audio_bridge.py`) | bounded queues | start, broadcast, stop | nothing yet: no route creates it |
| retrieve, assist (`assistant/`) | vector index and id map in memory, SQLite per request | search, ask | embedding and llama servers, the indexer's files |
| indexer (`indexer/`) | database and index files | build | retrieve (through the files) |
| status API (`api/`) | none | eight probes | the system |
| ADS-B shield (`scripts/adsb_shield.py`, its timer and service) | the rounded copy in `/run`, the owner's precision file in `/etc` | read, round, write, replace | dump1090, nginx, systemd |
| portal (`www/`) | per-page variables | fetch, poll, render | all services through nginx |
| scripts (`install.sh`, `scripts/`, `content/`) | files under `/etc`, `/var`, `/opt` | install, reset, packs, read-only root, download | the system |

What is hard here: request handlers are plain functions run in a pool of
threads, so every module-level global and every shared connection is touched by
several threads without a lock (only the tuner has one); two more threads belong
to the radios; every daemon may die and is started again by systemd with its
memory, and for the notes its database, gone; the radio medium loses, repeats
and reorders; calls to other processes time out after they have been obeyed.

What makes each part correct:

- *peer table*: a number is not taken twice; the owner's decision is not lost,
  once the entry it is about is there to stay.
- *mesh daemon*: no two notes of one life share a number; the bridges get
  attached.
- *identity*: the identity a hub was met under is its identity for good, even
  when its first key generation was cut short.
- *mesh of hubs*: what is new is not dropped as a replay.
- *LoRa bridge*: whole frames, once, in order; it finds the daemon again.
- *notes board*: what is shown exceeds the rate limit by no more than overlapping
  posts can; ids are not reused; a note goes to the mesh once.
- *tuner*: a running child is the one the arbiter knows; idle means quiet; the
  lock comes free; the dongle is given back to the services beside it.
- *alerts*: an active alert is listed for as long as it was announced, while
  others are posted.
- *QR*: a drawing reads back as the fingerprint, under the mask that scans best.
- *index*: ids and rows belong to one build; cutting articles loses no word.
- *notes' text*: fit for the page, no letter lost.
- *shield*: while the owner asks for rounding and there is a rounded copy,
  `/adsb/aircraft.json` is never answered with exact positions, and the copy
  keeps up.
- *download*: what is installed has the right hash. *pages*: the last request
  wins.

## 2. Modules

Code is cut into steps where another thread may run: at a call that can switch
threads (a dict access, an object construction, an SQL statement, a system
call), at the taking and release of a lock, and wherever a process may die.
History variables (marked so in each module) record what the properties talk
about and are read by no guard, except the `Len(...) < Max...` bounds.
The code targets CPython 3.11 (`pyproject.toml`), whose evaluation loop switches
threads only at calls, at function entry and at backward jumps: two plain
statements such as `_OUTBOUND_SEQ += 1` and the `return` after it are one step.

| module | models | composed of / used by |
|---|---|---|
| `PeerRegistry` | what the peer table promises, one step per operation | abstract specification of `PeerTable` |
| `PeerTable` | the table under radio threads and owner requests | refines `PeerRegistry`; `MCPeerTable` adds the symmetry sets for TLC |
| `PeerTableProofs` | theorems about `PeerTable` | |
| `MeshDaemon` | health and publish requests: bridges, numbering, hand-over, restart | |
| `MeshUnit`, `MeshUnitProofs` | the key files, the keygen unit that writes them and may be killed, the credentials, the identity served | extends `MeshDaemon`: its requests are answered under that identity; the proofs are about both |
| `MeshNet`, `MeshNetProofs` | numbering on one hub against the replay rule on another | takes the operations of `PeerTable` and `MeshDaemon` as single steps |
| `LoraBridge`, `LoraBridgeProofs` | the bridge's thread against the Reticulum daemon | its `Dispatch` calls what `PeerTable` models |
| `SharedBoard` | what the board promises, one step per operation, posts made at the same time included | abstract specification of `NotesBoard` |
| `NotesBoard`, `NotesBoardProofs` | post, rate limit, storage, hand-over, owner, clock, restart | refines `SharedBoard`; `MCNotesBoard` adds the symmetry sets for TLC |
| `Tuner` | the dongle's arbiter and its children | |
| `Listen`, `ListenProofs` | the dongle itself, between the arbiter's children, the SAME pipeline and the ADS-B decoder | extends `Tuner`; the proofs are about both, and carry `Tuner`'s theorems over; a part of its own is about `SameAlerts` |
| `Retrieval` | vector labels to ids, rank fusion, diversity, lookup: pure operators | used by `Assistant` |
| `IndexRollout` | building an index, copying it to the hub, loading it | extends `Retrieval` |
| `Assistant`, `AssistantProofs` | a question through retrieval and the model, while the index is replaced | composes `IndexRollout` with `/ask`; `MCAssistant` gives TLC two builds |
| `AdsbShield`, `AdsbShieldProofs` | the script, its timer, the owner, the decoder, boots and nginx | `MCAdsbShield` gives TLC the contents of the precision file |
| `QrCode` | the QR encoder, stage by stage, down to the rectangles drawn | read back by `QrReader` |
| `QrReader` | a reader and a mask penalty written from the standard (ISO/IEC 18004), with other means than the encoder's: sets of dark cells, polynomials as sets of exponents | the reference for `QrCode` |
| `Chunker` | cutting an article into sections and overlapping windows | with its reference definition `Covers`; proofs in `AssistantProofs` |
| `NoteText` | `clean_text` and `clean_name` over kinds of characters | with their reference `Presentable`, `Faithful`; proofs in `NotesBoardProofs` |
| `SameAlerts` | the ring of alerts, pushed to while it is listed | with its reference `Pinned`; proofs in `ListenProofs` |
| `MCAlgorithms` | | runs the last five on bounded inputs, one of them in a behaviour |

### PeerTable

`table[f]` names the object the dict holds, `heap[f][t]` is the `Peer` that
thread `t` built for `f`, so that a thread, or an owner's request, may go on
holding an object that has been replaced. `_on_lora_frame` is `FirstContact`
(`accept_sequence` finds none) or `LookUpSender` then `DropFrame` or
`AcceptFrame`, then `upsert`: `Refresh`, or `FindNone` then `Create`.
`_on_wifi_peer` is `OriginatorSeen` then `upsert`. Trust and block are
`OwnerLookUp` then `OwnerMark`.

A radio may have any number of threads (two first calls of the daemon each start
one) and an envelope may name any sender, an originator's `BAT:` fingerprint
included, so any number of threads may find no entry for one peer and store one
each. What was written to an object that another is then stored over is gone.
An entry is `Settled` when no thread that found none is still to store its own;
from then on the object in the dict stays. The history variables note whether a
lookup found a settled entry (`firm`), and the properties are about what was
done to settled entries: before that the code may lose a decision or a number
(section 3).

`PeerRegistry` has `Meet`, `Advance` and `Decide`: a peer may be met again,
which starts its entry afresh, until it is `met` for good; the mapping reads
trust and number through the dict and `met` as settled, and lookups, drops and
refreshes stutter.

### MeshDaemon

`call[w]` is where request `w` stands. `Publish` is `_next_seq` (nothing in it
lets another thread in), `TestLora`/`AttachLora`/`TestWifi`/`AttachWifi` are the
two tests and assignments of `_ensure_bridges`, `Attach` the start of a thread
by `attach()`, and `Send` the call to alfred, which takes the frame or not,
whatever the caller learns of it. `Restart`
empties every global.

### MeshUnit

`priv` and `pub` are the files, which `write_bytes` first creates empty and then
fills; `StartKeygen`, `ReadPair` or `Generate` and the four write steps are
`load_or_create`, `KillKeygen` cuts it anywhere. `StartDaemon` needs keygen done
(`Before=`, `Requires=`) and copies the files (`LoadCredential=`); a restart of
the daemon runs keygen again (`PartOf=`). Every request of `MeshDaemon` is one
under the copied identity; `served` collects what the hub ever said it was. A
key stands for its pair and its fingerprint.

### MeshNet

A hub's `Publish` numbers a note and puts it on the air for good: the medium may
deliver it to anyone at any time, any number of times or never, which covers
loss, repetition and reordering. `Receive` is `_on_lora_frame` on an envelope
the rule lets through: `accept_sequence`, then `upsert`, whose new entry has
number 0. `Restart` empties the counter and the table of a hub in `Restarting`.
`nth` is the note's place among all its sender's notes; no code sees it. The
table's operations are single steps here, which one LoRa read thread to a hub
justifies; what several do to one entry is in `PeerTable`.

### LoraBridge

`at` is the line `_run`/`_read_loop` stands at. The stream consists of pieces:
the beginning of a frame, and its end with the newline. `Recv(n)` takes any
chunk. The daemon's side (`Write`, `Hangup`, `Die`, `Listen`) is external.

### NotesBoard

A post is `BeginPost` (first clock reading), `CheckShort`, `CheckLong`, `Stamp`
(second reading), `Insert`, `ReadRowid`, `HandOver`. `Tick` may come between any
two, and so may any step of another post, of the same client or another: nothing
in the code keeps a client from posting twice at once. `Insert` and `ReadRowid`
are the two halves of one `conn.execute`: the statement is run, then the
connection is asked for its last rowid, and the lock of the interpreter is given
up around both. `rows` is the table, `posts` every note stored in this life, with
the number of notes there were when its request came in (`seen`). `Restart`
begins a new life on an empty tmpfs; no id, note or call outlives the old one.

`SharedBoard` has `Post`, `Answer`, `TakeDown`, `Pass` and `ComeBack`. A `Post` is
counted, for both windows, against the notes there were when its request came
in, and of those stored since it has missed no more than there are other
threads (`AtOnce`); it gets an id above all before it. An `Answer` offers the
note to the mesh, once at most, and names its id or that of a later note. The
mapping is the table and the history (`OnMesh` are the notes taken once or
more): `Insert` is the post, `HandOver` the answer; the counts, the second
reading of the clock and the reading of the rowid stutter.

### Tuner

`/tune` is `EnterStop`, one of `NothingToKill`/`Terminate` and
`ChildGone`/`Kill`, `AfterStop`, then `Busy`, `SpawnFails` or `Spawn` and
`SetMode`, and `Payload`; `/stop` is the same without the second half. A child
is running, signalled, killed or dead; it may `Exit` at any time and need not
obey SIGTERM. A tune for a mode there is none of is turned away by the request
model (422) before it reaches the arbiter, and is left out.

### Listen

`holder` is whose process has the device open. An arbiter's child is running
before it has the device (`Open`) and may lose the race for it; `Leave` is
`Tuner`'s `Exit` with the device given back. `StartPipeline` and `FailPipeline`
are the pipeline's unit under `Restart=on-failure`; `StartDecoder` and
`EndDecoder` are dump1090-mutability, which `install.sh` enables and starts
beside the pipeline when it sees a dongle, and which keeps the device for as
long as it likes. The first to start claims the dongle (OVERVIEW section 7.4).
Every step is a step of `Tuner` or leaves its variables alone, so its invariants
carry over (`ListenProofs`).

### AdsbShield

A document is the version of the decoder's picture, its decimal places, and
whether it is whole. `ReadSource`, `Round`, `WriteTmp`, `Flush`, `Replace` are
`main` and `write_atomic`; `Kill` ends the script anywhere and leaves its
temporary file. nginx tests for the rounded copy (`Choose`) and opens the file
later (`Serve`); `rounded` in a request notes that it came while the precision
file was there and a rounded copy existed. Of nginx only
`location = /adsb/aircraft.json` is modelled: `location /adsb/`
(`rpi-pod-portal.conf:156`) serves whatever else is in dump1090's directory as
it is, the shield has no part in it and nothing is claimed of it. systemd tests
the timer's condition when the timer starts and the service's at each tick. That the unit's dynamic user may write beside
dump1090's file is assumed.

### The algorithms

`QrCode` keeps the stages of `encode` and `to_svg` as actions: tables, version
and bits, Reed-Solomon words, placement, one action for masking and one for
scoring per turn of the loop, the drawing. Its matrices, bit orders and loops
are the source's; `QrReader` shares none of them. A recursion of the source
(field tables, the division) is a recursive function. `Chunker` numbers the words of
an article and keeps intervals of them, `ReadLine` being one turn of the loop over
headings and `LongEnough` the `continue` of `chunk_article`; `NoteText` keeps a
character's kind, and a substitution as the places it keeps (`Only`). Each has a
specification in which a call may be made with any input (`ChunkerSpec`,
`CleaningSpec`), which the theorems are about; `MCAlgorithms` makes the short ones.
`SameAlerts` keeps of a header its duration and county codes, walks the ring one
element a step and fails the walk when the deque has changed under it, as
CPython's iterator does.

### Retrieval, IndexRollout, Assistant

A file is the build it was written by and the number of chunks it covers.
`build()` is `StartBuild`, `AddChunk`, `FlushRest`, `SaveHnsw`, `SaveIds` (or
`SkipVectors`), with `AbortBuild` anywhere; rsync is `StartSync`, `CopyFile`
once per file, `CutSync`. The service's import of `index_handle` is `ReadIds`
then `ReadHnsw`, which a copy may separate; it happens at the first question
that has an embedding, because `_hybrid_search` imports the module there.
`POST /ask` is `Ask`, then `Refused` or `OpenDb`, `Embed`, `Import`, `Search` or
`TooFew`, `Body`, then one of the model's outcomes; `FetchTimeout`, `Die` and
`ModelDies` cut in. `OpenDb` holds the database file of that moment, as an open
SQLite connection does when rsync renames another over it. What FTS5, the
nearest-neighbour search and the model say is any value their inputs allow;
scores are compared exactly, as multiples of a common denominator
(`Scale`). The fused order is stated by rank: the stable sort puts an id behind
those that score more, or as much and were named earlier (`Before`), so its
place is one more than the number of those. The
assistant's questions are taken one at a time: two questions share nothing but
the loaded index, and an import goes on when its question has been given up.
A hub whose service is up has a database (`ConditionPathExists`), so the branch
for a missing one is left out.

## 3. Runs

Passing runs:

| run | shows |
|---|---|
| `peer_table` | with two LoRa threads, a Wi-Fi thread and an owner's request about one fingerprint that both radios name: at a settled entry numbers only increase (`AcceptsIncrease`) and acknowledged decisions stay (`DecisionsStick`), however many threads stored one before, and the registry is implemented (`ImplementsRegistry`) |
| `daemon` | (`MeshUnit`) two requests at once over two lives, with key generation killed anywhere: numbers are unique per life, on the air and in hand (`NumbersUnique`); the hub never shows two identities and signs with a whole key (`IdentityKept`); a call ends with both bridges attached (`CallAttaches`) |
| `net` | two hubs, one restarting: new notes of the one that stays up are never dropped (`FreshAcceptedWhileUp`) |
| `lora_bridge` | whole frames in order (`FramesWholeInOrder`), each heard unless the connection is lost (`FramesHeard`), a daemon that stays is found (`Reconnects`) |
| `notes_board` | with a client that posts twice at once: two notes it shows within a short window were posted at the same time (`VisibleSpacing`), a long window holds at most the ceiling and one for each further thread (`VisibleCeiling`); ids (`IdsNeverReused`), one hand-over (`HandedOnce`), a post as one step (`ImplementsBoard`) |
| `tuner` | (`Listen`) no lost child (`OwnedChild`), idle is quiet (`IdleMeansQuiet`), the lock comes free (`LockReleased`), an arbiter that stays idle leaves the dongle to the pipeline or the decoder, whichever starts first (`DongleReturns`) |
| `assistant` | over two builds, aborted, copied piecemeal and loaded by a service that dies: files of one build agree (`SameBuildSameChunks`), ranked ids are rows where all files are of one build (`ArticleMapCoversOneBuild`), fusion respects its lanes, the model is sent fitting passages even from a stale graph (`PassagesFit`), answers are grounded, banners stay, every question is answered (`AskAnswered`) |
| `adsb` | a request for `/adsb/aircraft.json` that comes while the precision file is there and a rounded copy exists gets a whole rounded document, whatever happens until it is served (`RoundedOnceShielded`); the copy catches up with the picture and the precision although ticks are killed (`ShieldKeepsUp`) |
| `algorithms` | drawings of all three QR versions read back, without an error to correct, as the text (`ReadsBack`), under the first mask of least penalty (`LeastPenaltyWins`); cutting an article loses no word and keeps windows within the cap and overlapping (`ChunksCover`); cleaned notes are fit for the page and whole (`NotesCleaned`); a listing that is answered shows what was announced, for as long as announced (`AlertsPinned`) |

Runs that expect a violation: each states what a comment, a docstring or a test
of the repository says, and TLC finds the behaviour of the code that differs.

| run | the claim | what happens |
|---|---|---|
| `net_restart` | `peers.py:84` what is dropped is "likely a replay or stale rebroadcast"; `main.py:42` the counter "persists for the unit's lifetime" | after a restart new notes carry old numbers and are dropped |
| `notes_limit` | `rate_limit.py:8` "A note that's already been wiped still counts for the hour window", "the spec is "10 posts/IP/hour", not "10 visible posts/IP/hour"" | the count is over the rows that are left: after a deletion the client's next post goes through (`PostsCeiling`) |
| `assistant_banner` | `rpi_pod_assist/main.py:76` "If retrieval is also down we serve the banner alone; that's better than silence on a dangerous query" | a connection cut without a response is no `URLError`: a 500 without the banner |

Divergences met while modelling that no run is spent on:

- `peers.py:89` says "first contact; accept and start tracking", but the number
  of a sender's first frame is not stored: the same frame is taken twice. This
  is why `AcceptsIncrease` starts after the first frame.
- `peers.py:14` says blocked peers are "never surfaced to the UI"; `GET /peers`
  lists them.
- `main.py:58` says each bridge "is started on the first /health call ... and
  reused across requests": two first calls that both pass the test in
  `_ensure_bridges` start two threads for one radio (`Attach` twice in
  `MeshDaemon`).
- `peers.py:42` says "Thread-safe via the GIL". While a peer is met for the first
  time by two threads at once, the later `upsert` stores its own object over the
  earlier one's: a decision the owner has been told of, or a number taken, in
  between is lost. `DecisionsStick` and `AcceptsIncrease` start from the last of
  those stores (`Settled`); without that condition both fail in `peer_table`.
- `peers.py:82` speaks of "a monotonically increasing per-node sequence number";
  a number is taken before signing and hand-over, so number 2 may leave first
  and number 1 is then dropped by its receivers.
- `wifi_bridge.py:82` says "False = alfred not installed or refused"; the exit
  status is not read and a refusal returns True.
- `rate_limit.py:5` says "1 post per IP per 60 seconds" and "both enforced"; the
  check and the insert are not one step, and posts of one address in flight at
  once are counted without each other and all pass, the hourly limit included.
  `VisibleSpacing` and `VisibleCeiling` say how many: those posted at the same
  time, and at most one for each further request thread.
- `storage.py:55`: `execute` runs the INSERT and reads the connection's last
  rowid in two steps; with another INSERT between them a 201 carries the id of a
  later note (`Answer` in `SharedBoard` allows it).
- `dongle.py:5` says the arbiter's module is "the only thing in the codebase
  allowed to spawn rtl_fm / dump1090 / multimon-ng"; the SAME pipeline starts the
  first and the last itself, and `install.sh:675` starts dump1090.
- `dongle.py:6` says the arbiter "rejects mode changes with a clean 409";
  `tune()` does not catch `TunerBusy`, which is a 500 (`Busy`).
- `dongle.py:3` says there is at most one child; a child that ignores SIGTERM
  is killed and not waited for (`dongle.py:94`), so for a moment it may be there
  beside its successor, dongle in hand.
- `rpi-pod-listen-same.service:6` says `/tune` "stops this unit on a user tune
  request and brings it back when the user stops tuning"; `tune()` does not
  touch the unit. While the pipeline holds the dongle a tune is answered with
  its mode and frequency, and its `rtl_fm` finds no device: the invariant
  `(lock = None /\ mode # "idle") => holder # Pipeline` fails in `tuner`. If
  the pipeline comes back it is systemd's doing, and dump1090, started by
  `install.sh` beside it, may have taken the dongle first and keep it:
  `DongleReturns` is about either of the two.
- A listing walked while a burst is pushed is answered with a 500 (`WalkFails`);
  the page keeps its banner and asks again after 15 seconds.
- `rpi-pod-adsb-shield.service:10` and `install.sh:711` say that creating the
  precision file opts in; the timer carries the same condition, systemd tests it
  when the timer is started, and nothing starts it until the next boot or
  installation. `rpi-pod-adsb-shield.timer:9` describes only the way out.
- `OVERVIEW.md:530` says that without the precision file "nothing runs and nginx
  falls through to the raw `aircraft.json`", and `rpi-pod-portal.conf:137` that
  nginx prefers the rounded copy "when rpi-pod-adsb-shield.timer is writing it".
  Nothing removes the copy after an opt-out, and nginx serves it, ever older,
  until `/run` is emptied by a boot. `RoundedOnceShielded` claims nothing of
  requests made after the opt-out.
- `retrieve/main.py:7` says "always 200, never 500"; a vector index with fewer
  than the 32 ids asked for makes `knn_query` raise, which nothing catches
  (`TooFew`, a 500).
- `adsb_shield.py:36` falls back to a default for a precision it cannot read;
  bytes that are not UTF-8 raise `UnicodeDecodeError` instead.
- `identity.py:40` speaks of "Both halves of the keypair"; a kill between the
  creation and the writing of the public file leaves it empty, and from then on
  it is read without complaint: `IdentityKept` allows an empty public half.
- `mesh/rpi_pod_mesh/main.py:60` says the bridges "degrade silently"; the Wi-Fi
  loop catches a batctl that is missing, slow or failing, but output that is not
  UTF-8 raises out of it (`text=True`) and ends its thread.
- `api/.../system.py:3` says a probe "never raises"; an answer that is not HTTP,
  or not UTF-8, does. `system.py:149` files everything but a refused connection
  or a timeout under "unknown"; an error status is a `URLError` and counts as
  "not-running". The age `max(0, now - mtime)` keeps "ready" for as long as the
  clock is behind the file.
- `clean_text` composes characters before it drops controls, so a letter and an
  accent with a control between them stay apart and a second cleaning would
  compose them.
- `qrcode.py:239` says "v1-3 have 0 remainder bits": versions 2 and 3 have
  seven, which the code sets as it should.
- `retrieval.py:124` says the indexer guarantees that the article map covers
  every id; a graph loaded before the database was replaced, or left over from a
  build without hnswlib, names ids the database does not hold, or other chunks
  (`ArticleMapCovers` fails in `Assistant`; what remains is
  `ArticleMapCoversOneBuild`). Those ids share the empty article's cap and are
  dropped at the lookup, so fewer passages may be sent than fit.

### Bounds, and why they are enough

- `PeerTable`: one fingerprint, named by both radios (peers share nothing but the
  threads), two LoRa threads, one Wi-Fi thread and one request: two and three
  entries stored for one peer, with a lookup of the owner before, between and
  after; numbers 0..2 (two increasing ones, and one to repeat), three frames
  taken. LoRa threads are symmetric.
- `MeshDaemon`: two workers, two notes per life, two lives: every race here is
  between two requests.
- `MeshNet`: two hubs, three notes, two restarts: a first contact, a mark, a
  note beyond it, and a sender that restarts twice.
- `LoraBridge`: three frames and three losses: a frame cut by a loss, one after
  it, one in flight beyond.
- `NotesBoard`: two workers and one client, so that two of its posts overlap;
  four notes, limits 1 and 2 in place of 1 and 10 with windows of 0 and 1 ticks
  in place of 60 and 3600 seconds (the code uses only their comparison, with the
  edge included: a tick is longer than the short window, so two notes of one
  tick are within it and two of neighbouring ticks are not), a clock of three
  ticks, any number of lives. The counts are per address, so a second client
  would add interleavings of the table and the ids alone; with one the run takes
  minutes, and the theorems hold for any number. `Workers` are symmetric: no
  action of `NotesBoard` or `SharedBoard` tells two of them apart, and the run
  checks invariants and steps, no liveness. `NotesLimit.cfg` has one worker: the
  violation needs no overlap.
- `Tuner`: two requests, two modes, three children: one being replaced, one
  replacing it, one more.
- `Assistant`: two builds, the second smaller than a lane, so that old ids are
  missing from the new rows and `knn_query` has too few; batches of two over
  three chunks, so that the last is not full; lanes and prompts of two, one
  passage per article, up to three sentences: the first lengths at which the
  six-in-ten rule both keeps and drops a partly cited answer.

- `MeshUnit`: as `MeshDaemon`, with two key pairs: the one cut short and the one
  that replaces it.
- `Listen`: as `Tuner`; one pipeline and one decoder, which may fail at any time
  and any number of times.
- `AdsbShield`: two pictures, one killed tick and two boots: a copy older than
  the picture, a temporary file left behind, and a precision file that outlives
  `/run`. Precisions below, within and above the range, and one that is no
  number.
- `MCAlgorithms`: texts at the first and last length of each version (0, 14, 15,
  26, 27, 42), one too long (43) and some between; articles of up to four lines
  of up to seven words with windows of five, an overlap of two and a minimum of
  three; notes of up to five characters against caps of four and three; three
  bursts into a ring of two, at the last minute of an alert and the one after.

Deadlock is checked except where the bounds let a model stop: `net` (all notes
published and taken), `lora_bridge` (all frames heard), `notes_board` (clock and
notes at their bounds), `algorithms` (a call is the end of it).

### Fairness

- `MeshDaemon`: weak fairness of each worker's next step: a thread inside a call
  is scheduled and alfred's call has a timeout. No fairness of arrivals or
  restarts.
- `LoraBridge`: weak fairness of the thread as a whole. None of the daemon: that
  it comes to stay is the hypothesis of `Reconnects`. The bound on losses makes
  a daemon that listens for good one that hangs up finitely often; one that
  hung up for ever would not be a daemon that stays.
- `MeshUnit`: that of `MeshDaemon`.
- `AdsbShield`: weak fairness of the script with its tick: the timer elapses every
  second and nothing in the script waits. None of the decoder, the owner, nginx
  or the kills, which are finitely many in a boot.
- `Listen`: the arbiter's, and weak fairness of the end of a *killed* child, which
  the kernel sees to, and of the pipeline's start: systemd starts a failed
  unit again for ever (`Restart=on-failure`, the intervals of `RestartSec=10`
  never reach the start limit). None of the decoder's: it may never start, never
  end, or come and go.
- `Tuner`: weak fairness of what the thread inside the lock does: `wait` has a
  timeout of two seconds. None of the children: a child may ignore SIGTERM for
  ever.
- `Assistant`: weak fairness of the two clients' timeouts, and of nothing else:
  `urlopen` is given a timeout in both.

## 4. Proofs

All theorems hold for every value of the constants that satisfies the module's
named assumption.

- `PeerTableProofs`, for any number of threads of either radio, senders and
  requests: `TypeCorrect`, `ReplayProtection` (`AcceptsIncrease`), `DecisionsKept`
  (`DecisionsStick`), `Refinement` (`ImplementsRegistry`). The inductive invariant
  adds to the types that what a lookup at a settled entry found is the object the
  dict holds (`JobsCurrent`, `RequestsCurrent`), that numbers and decisions are
  noted at settled entries only, and that the mark of a sender is at least every
  number noted (`SeqBounds`, `DecisionsSettled`). A settled entry stays settled
  because a thread that looks it up finds it, and so never reaches `Create`.
- `MeshNetProofs`: `FreshHeard` (`FreshAcceptedWhileUp`). The invariant relates,
  for a sender that stays up, each note's number to its place among the sender's
  notes (they are equal), and a receiver's mark to the newest note it has taken.
- `NotesBoardProofs`, for any threads, clients, windows and limits and however
  posts overlap, also those of one client: `TypeCorrect`, `IdsForGood`
  (`IdsNeverReused`), `MeshOnce` (`HandedOnce`), `CeilingHolds`
  (`VisibleCeiling`), `PostsAreAtomic` (`ImplementsBoard`) and, for the
  `LimitShort` of 1 the code has, `Spacing` (`VisibleSpacing`). `Ledger` is the
  part of the invariant about rows, ids and hand-overs: what a call carries of
  the table (`Placed`), that ids go up, that a stored note still in a call's hands
  has not reached the mesh and is in no other call's (`Handing`). `Counts` is
  about the rate limit. A post can vouch for its two counts only among the notes
  stored before its request came in, the first `seen` of them: at each place it
  has a promise about those (`Promise`: deletions only lower the count, and a
  later reading of the clock only shortens the window), and every row keeps
  the promise it was stored with (`Kept`). Of the later notes it may have missed
  as many as there are other threads: the notes stored after the first `n` whose
  requests came in before that, with the threads that still have such a post on
  its way, are no more than the threads (`Crowd`). Counting a window up to its
  last note `q` then gives at most the limit for those `q` was counted with and
  one for each further thread.
- `MeshUnitProofs`: `NumbersApart` (`NumbersUnique`) and `TypeCorrect` of
  `MeshDaemon`; the invariant adds that no number on the air or in hand in this
  life is above the counter. `IdentityForGood` (`IdentityKept`): the invariant
  says, for each place of keygen, what the two files hold, the public one being
  the last to appear, and that no pair is written once somebody was answered.
  `DaemonBesideKeygen`: the unit implements `MeshDaemon`, so
  `NumbersApartInUnit` follows.
- `LoraBridgeProofs`: `TypeCorrect`, `WholeFramesInOrder`
  (`FramesWholeInOrder`), for any number of frames and losses. What is read and
  what is on the wire are taken as one stream: in it each frame has its two
  pieces side by side, the frames rise, and the last may lack its end while the
  daemon is in the middle of it. A line's end is then the buffer's second piece.
- `ListenProofs`: of `Tuner`, `TypeCorrect`, `ChildOwned` (`OwnedChild`),
  `QuietWhenIdle` (`IdleMeansQuiet`). The invariant ties the lock to the one
  thread inside it and says, place by place, what proc, mode and the children
  are. `ArbiterAmongServices`: `Listen` implements `Tuner`, its fairness
  included, by the step lemma that each step is one of `Tuner`'s or stutters;
  `ChildOwnedAmongServices` and `QuietAmongServices` follow.
  `PinnedAlways` (`AlertsPinned`), of `SameAlerts` by itself, for any ring,
  alerts and filter: the invariant says that the ring holds the newest bursts in
  the order they were received, that a walk which may still go on walks what it
  heard of when it began, and that what it has found are, in their order, the
  active ones it has passed. `HeaderAssumption` is the header's grammar
  (six-digit codes, at least one of them, a duration of hours and minutes), and
  that a name stands for one alert.
- `AdsbShieldProofs`: `ShieldHolds` (`RoundedOnceShielded`), for any precisions
  the owner may write and however the precision file comes and goes; a request
  is owed a rounded document when it comes while that file and a rounded copy
  are there. The invariant follows a document: what `Round` makes is
  rounded, the temporary file is whole before it is renamed, and the name nginx
  tests, once there, always has a whole rounded copy until the next boot.
- `AssistantProofs`, for every corpus, batch size, lane length, number of
  passages and set of completions. `IInv` is about the index: what is embedded
  and what is in hand are the rows written, files elsewhere than on the
  workstation are whole, and while the newest database is not whole no other
  file is of its build; from it `ChunksAgree` (`SameBuildSameChunks`). `QInv` is
  about the question: at each place, what its lanes, results and answer are
  made of, and that only a running service has a question or an index in hand.
  The two give `TypeCorrect`, `ArticleMapCovered` (`ArticleMapCoversOneBuild`),
  `FusionFair` (`FusionRespectsLanes`), `PassagesFitAlways` (`PassagesFit`),
  `AnswersGrounded` (`AnswerGrounded`) and `BannerAnswered` (`BannerInAnswers`).
  They rest on lemmas about the operators, for every input: `Among` keeps
  elements in their order, `Scale` is a multiple of every denominator so that a
  better rank scores more, `Score` is monotonic in its lanes, `Before` is a
  strict total order and `Fuse` enumerates it, `Diverse` keeps distinct ids
  within the cap.
- `AssistantProofs`, of `Chunker`, for articles of any length:
  `ArticlesCovered` (`ChunksCover`). Line by line, what the splitter has in hand
  is the interval of the words under the current title, and the sections found
  are those under the titles before it, each complete (`InHand`). The windows
  over a section reach its end with the first that can and leave no word between
  two of them (`WindowsAre`); all are long enough or the section itself is too
  short, so the filter keeps all or none (`LongEnoughIs`); the titles go up, so
  no chunk of the next section stands under the title of the last (`GrownNext`).
  `SizesAssumption` says of the sizes what the code's 800, 100 and 20 satisfy:
  the last window is longer than the overlap, so 20 may be at most one more than
  the overlap. With a larger minimum a section's last words could be dropped, and
  the theorem would be false.
- `NotesBoardProofs`, of `NoteText`, for texts of any length and any caps:
  `NotesPresentable` (`NotesCleaned`). `Only(s, at)` is shown to be the
  increasing enumeration of the places in `at`, and the only one, so that one
  cleaning after another can be composed; each then keeps every letter in its
  order, and what an earlier one removed no later one brings back, the cut at the
  cap with its second strip included.

Induction over data. The library's induction theorems take an operator as a
parameter, which the installed provers cannot instantiate. `AssistantProofs` and
`NotesBoardProofs` get by without them: `LeastNumber` (a non-empty set of numbers has a least one) comes
from the library's well-foundedness of `<`, `AllNumbers` from it, both with sets
in place of predicates; `Steps` and `Computed` then turn a recursive function on
`0..n` into a sequence of steps from a start, for any set its values are in.

Only model-checked:

- every liveness property (`CallAttaches`, `Reconnects`, `FramesHeard`,
  `LockReleased`, `DongleReturns`, `ShieldKeepsUp`, `AskAnswered`): the prover
  has no rules for fairness and ENABLED;
- of the properties of `algorithms`, `ReadsBack` and `LeastPenaltyWins`: they
  compare hundreds of matrix cells with a reader written from the standard;
- the violated claims, of course.

No module uses a RECURSIVE operator, which the prover's SMT backend does not
survive.

## 5. Not modelled, and the plan

PROJECT.json lists every component with its status and every hazard with the
properties that cover it or the reason why none does.

Left out, and why:

- *Wi-Fi polling loop*: keeps nothing from one round to the next besides its
  status; what it calls is in `PeerTable`, what a publish does in `MeshDaemon`.
- *messages*: signing cannot fail with a whole key, and nothing in the daemon
  calls `verify` yet.
- *audio fan-out*: no route creates one; who would call start, add, remove and
  stop in which order is not there to model.
- *presets, status API*: tables, and probes that read and share nothing.
- *portal pages*: answers of overlapping fetches are shown in the order they
  come; nothing in the code orders them, so a model would restate that.
- *installation, read-only root, packs, download, image*: shell run by an
  operator, one script at a time, around tools (curl, systemd, apt) whose
  behaviour would have to be assumed.
- *nginx, hostapd, dnsmasq files, packs, page markup*: declarative; what they
  imply is in the models of the services.
- Of modelled parts: the owner's token, endpoints that only read, the grammar
  of a SAME header, the patterns of the safety classifier, wording.

Next: the wall clock of a device without an RTC, which may step back between the
two readings of one post.
