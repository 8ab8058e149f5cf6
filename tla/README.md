# Verification of the Atheros CSI user-space tools

TLA+ specifications, TLC models and TLAPS proofs for the programs of this
repository that receive, decode, log, store and read back the channel state
information (CSI) an Atheros wireless card reports, and for two parts of the
access-point daemon (hostapd 2.5) that is kept beside them.

## 1. The system

    kernel driver --read()--> recv_csi (file) --fwrite--> log file --> read_log_file.m
         |                        \--> fill_csi_matrix                     \--> read_csi.c
         +---------read()--> recv_csi (database) --PQexec--> PostgreSQL
    send_Data --raw socket--> the air --> (another card's driver)

| Component | State it keeps | Operations | Talks to |
|---|---|---|---|
| Decoder `fill_csi_matrix` (`recvCSIToFile/csi_fun.c`, identical in `recvCSIToDatabase`) | shift register, loop indices, the global `csi_matrix` | one call per report | both receivers; `matlab/read_csi.c` has the same loop |
| File receiver (`recvCSIToFile/main.c`) | `buf_addr`, `csi_status`, `total_msg_cnt`, the stdio stream | start, `read()`, `record_status`, two `fwrite` | driver, log file, `recv.sh` (kill) |
| Log reader (`matlab/read_log_file.m`) | `len`, `cur`, `count`, `ret` | open, one turn per entry, trim | the log file, perhaps while it grows |
| Database receiver (`recvCSIToDatabase/main.c`, `csi_persistence.c`) | `conn`, `buf_addr`, `csi_status` | connect, create tables, INSERT / SELECT / INSERT per report | driver, PostgreSQL, other receivers |
| INSERT text (`csi_persistence.c`) | a buffer of computed length | `sprintf` loops over the matrix | decoder, database receiver |
| Status fields (`record_status`) | `csi_status` | one call per report | both receivers |
| Sender (`sendData/sendData.c`) | `Cnt`, `seconds` | nested send loops | raw socket |
| `recv.sh` | the pids found by `pgrep` | fork, pgrep, sleep, kill -9, per round | file receivers, which share the driver |
| hostapd's RADIUS client (`radius_client.c`) | list of pending requests, `num_msgs`, current servers, sockets, timeouts | send, receive, retransmit, failover, flush | authentication and accounting servers, event loop |
| hostapd's WPA authenticator (`wpa_auth.c`) | per station two state machines, keys, replay counters, timeouts; one group machine | associate, receive, timeout, rekey, remove | stations, driver, event loop |
| Intel 5300 reader (`read_bf_file.m`, `read_bfee.c`) | file position, records | one turn per record | another tool's log |
| MATLAB numerics and plots | none | pure functions | the records of the readers |
| the rest of `hostapd-2.5` | | third-party release | nothing here |

What makes the programs correct, and what is hard about them:

* **Decoder.** Every element is the number the hardware packed for it, at every
  alignment of 10-bit fields to 16-bit words and for every dimension; the
  look-ahead stays inside the report; values of earlier reports do not remain.
* **File receiver.** The log is the delivered reports, in order and once; what a
  kill loses is bounded. Hard: an entry is two buffered writes, `read()` may fail,
  no signal handler is installed although the code has one.
* **Log reader.** Its records are entries of the log and not mixtures, also when the
  file ends inside an entry, is still growing or has a damaged entry; its loop ends.
* **Database receiver.** A matrix hangs on its own status row; nothing is stored
  twice; what is stored is complete up to a point. Hard: several statements per
  report without a transaction, statements of unknown fate, restarts, several
  receivers, results that `main` ignores.
* **INSERT text.** Exactly one row per tone and antenna with the right numbers, in a
  buffer whose size is computed from the dimensions alone.
* **recv.sh.** A receiver ends in its round, so a log has the reports of its round.
  Hard: nothing waits for the forked receiver to exist before `pgrep` looks for it.
* **RADIUS client.** Every pending request is answered, sent again or given up;
  answers are matched with the right request; nothing is sent with a stale secret.
  Hard: one timeout for the whole list, cancelled and registered in six places; a
  failover in the middle of the walk over the list; a `u8` identifier that wraps.
* **WPA authenticator.** A handshake ends, with the key the station has; the new group
  key goes into use when every station has it. Hard: lost, repeated and reordered
  frames, a station that changes its nonce, and a group machine that steps the stations,
  which run it again, while it renews its key.

`PROJECT.json` lists the hazards one by one, each at its line.

## 2. Modules

**CsiUnpack** (`fill_csi_matrix`, `bit_convert`). `Call` is the entry of the function
with any report; `TakeImag` and `TakeReal` are the two halves of the innermost loop
body, each with its refill; `NextCell` is the stepping of the three loops. The
reference definition is stated on the byte stream (`Field`, `Element`): field *j* is
the ten bits from bit 10*j* on. `csi_matrix` persists from call to call as the
global does. Shifts and masks are written as division and remainder by powers of two.
`RegisterInv` shows that the register never reaches 32 bits, so no wrap-around is needed.

**CsiLog** (`recvCSIToFile/main.c`, `read_csi_buf`, `record_status`). One action per
step of the main loop that another process, a signal or the disk can observe:
`ReadReport`, `ReadTimeout`, `ReadError` (the three outcomes of `read()`),
`RecordStatus`, `WriteHdr`, `WriteBody`; `Start` / `FailStart` for the argument
and device checks, `Kill` for Ctrl+C and `kill -9`. A report is its number and its
length; the stream is a sequence of entries with offsets, and `disk` tells how many
bytes of it stdio has written (`Flushed`, external). After a failed `read()` the
length comes from the two bytes in front of `buf_addr`: any value of `GarbageLens`.

**LogReader** (`read_log_file.m`) extends CsiLog, so the reader runs beside the receiver.
`OpenFile` takes the length, `ReadEntry` is one turn of the loop at an entry,
`ReadGarbage` one turn where no entry starts (any length of `Jumps`, any header of
`FieldLens`), `BreakShort`, `LoopEnd` and `Trim` the ways out. A turn is one step:
the bytes below `len` never change while it runs, and the reader touches nothing else.

**CsiStore** (`recvCSIToDatabase`). Every `PQexec` is one action: `InitSequences`,
`InitTables`, `InsertStatus`, `SelectId`, `InsertMatrix`. Each may fail with or
without its effect being committed (`Failed` closes the connection for good);
`Kill` and `Start` model restarts on the same tables. A report is its number, its
`csi_len` and the number of rows `num_tones * nr`; a report without rows makes a
statement the server rejects. `csi_len` is the value `malloc` left: the
little-endian branch of `record_status` does not set it.

**SendData** (`sendData.c`). `Usage` and `Parse` are the two outcomes of the command
line, `Divide` computes the pause (or crashes on a count of zero), `Turn` evaluates the
conditions of the two loops, `Usleep` and `Sendto` are the loop body. Socket, `ioctl`
and `sendto` failures are only printed and change nothing.

**Capture** is the abstract specification of both receivers: while the channel to the
file or the database is open, every message is kept before the next one is read; when
the channel closes, the message at hand may be lost and nothing more is kept until the
receiver is started again. `Captured` of CsiLog and of CsiStore instantiates it
(`INSTANCE Capture WITH`): in CsiLog the channel is the open log of a running process
and a message is kept when its entry is in the stream; in CsiStore, for each receiver,
the channel is `conn` and a message is kept when its status row and its matrix are
in the tables. Several receivers step under one box there, since a step of one of them
is a step of each abstract capture or leaves it unchanged.

**InsertQuery** (`save_csi_matrix`) extends CsiUnpack: a report is decoded, the matrix
made into a statement, and the next report decoded over it. `Begin` allocates the buffer
(`MaxLen`), `AddRow` is a turn of the inner loop, `Exec` the end of the function. The
statement is kept as its rows and as its length (`RowLen`, from the printed lengths of
all its numbers).

**RecvScript** (`recv.sh`): `Fork`, `Pgrep`, `Sleep`, `Kill`, `Rest` are its commands;
`Exec` and `Open` the steps in which the child becomes `recv_csi` (only then does
`pgrep` find it) and opens file and device; `Report` hands a report of the driver to one
of the receivers that listen.

**RadiusClient** (`hostapd-2.5/src/radius/radius_client.c`). One action per callback:
`Request` (`radius_client_send` with its identifier), `Receive`, `FlushAuth`, `Flush`,
`RetryPrimary`, and `radius_client_timer` entry by entry (`TimerStart`, `TimerEntry`,
`TimerEnd`), because a retransmission may reopen sockets, change servers and remove
entries of the list under the walk. `Tick` lets a second pass; times are relative to
now. Sockets fail to open, to connect or to be registered at any attempt.

**WpaAuth** (`hostapd-2.5/src/ap/wpa_auth.c`). `sm` holds the state machine of each
station, `group` the group machine, and `stack` the calls being executed: `wpa_sm_step`
runs the three machines until nothing changes, and `wpa_group_setkeys`, when the group
machine renews the key, steps every station, which runs the group machine again. `Turn`
and `RekeyTurn` are turns of the loops of `wpa_sm_step` and `wpa_rekey_gtk`; `EnterPtk`, `NextPtk`,
`EnterGroup`, `NextGroup` are the `SM_STATE` and `SM_STEP` bodies under their names.
Callbacks (association, frames, timeouts, rekeying, removal) run when the stack is
empty; a key request of a station runs `wpa_rekey_gtk` to its end and only then stores
its frame and steps the station (`Requested`). A pairwise key is the SNonce it is derived from. Replay counters become invalid
together, so the valid ones are the messages a station may still answer: losing,
repeating and reordering frames is answering any of them at any time.

**MCLogReader, MCCsiStore, MCInsertQuery, MCSendData, MCRadiusClient, MCWpaAuth** give
TLC its constants. **CsiUnpackProofs, LogReaderProofs** (of CsiLog and LogReader),
**CsiStoreProofs, InsertQueryProofs, SendDataProofs, RecvScriptProofs,
RadiusClientProofs, WpaAuthProofs** hold the theorems.

Operators named as mutants in their comments are plausible errors of the code, used to
show that each property would notice one.

## 3. Runs

| Run | Module / cfg | Shows |
|---|---|---|
| query | MCInsertQuery / Query | decoder and statement together: `TypeOK`, `RegisterInv`, `ReadsInReport`, `Decoded` of the matrix, `Statement` and `Fits` of the text, for two reports of any two dimensions |
| log | MCLogReader / Log | receiver and reader together: `TypeOK`, `Layout`, `LogExact` of the log; `FaithfulRecords`, `WithinFile`, `EarlyReturned` of the records, with a damaged entry, a kill and concurrent appending; `ReaderEnds` (liveness); `Captured` (refinement) |
| store | MCCsiStore / Store | two receivers: `TypeOK`, `Attribution`, `StoredOnce`, `StorePrefix`, `TablesReady`, and `Captured` (refinement) for each |
| send | MCSendData / Send | `TypeOK`, `FrameCount`, `Pace`, `Terminates` |
| script | RecvScript / Script | `TypeOK`, `Stragglers`, `OwnRounds`, `AllEnd` (liveness) for four rounds |
| radius | MCRadiusClient / Radius | `TypeOK`, `UniqueIds`, `Armed`, `OneInterim`, `SignedAuth`, `GivenUp` (liveness) |
| wpa | MCWpaAuth / Wpa | `TypeOK`, `GKeyDone`, `KeyWaits`, `Confirmed` for two stations |
| wpa_handshake | MCWpaAuth / WpaHandshake | `HandshakeEnds` (liveness) with the retry limits of the code |
| log_quit | CsiLog / LogQuit | violation: Ctrl+C loses buffered entries |
| store_race | MCCsiStore / StoreRace | violation: with two receivers a matrix gets the other's status id |
| store_csi_len | MCCsiStore / StoreCsiLen | violation: the `csi_len` column is not the CSI length |
| wpa_rekey | MCWpaAuth / WpaRekey | violation: a renewal of the group key that never ends |

Bounds and why they are enough:

* *Decoder and statement.* A field boundary meets a word boundary in one of 8 ways, and
  four elements (80 bits) go through all of them; 2x3x3 has eighteen elements. Two calls
  are enough for a value to be left over from an earlier report. One buffer has the
  longest number, -512, in every field, with the longest time stamp and id. The theorems
  remove the bounds.
* *Log.* Report lengths are the shortest possible (25), common ones, and ones close to
  a stdio block (3927), so that two to four reports cross one or two blocks and
  an entry's header falls on either side of a block's end. `GarbageLens` has a value
  below a status header, one below and one above a report. The theorems remove these
  bounds too, and the stdio block size.
* *Store.* Two receivers, three messages, two starts each, one failing statement and one
  failing read. Every property relates at most two messages of a run, so more only add
  repetitions, and the theorems remove the bounds. The two receivers are interchangeable
  (symmetry; `Captured` is a box of a formula symmetric in them).
* *Sender.* Negative, zero and positive arguments, a count that divides a second and two
  that do not; proved for all.
* *Script.* Four rounds: a receiver can be missed in any of them, and be two rounds old
  before the script ends if anything lets it. The theorems remove the bound.
* *RADIUS.* Three identifiers and four requests make the `u8` wrap while a request is
  pending; two entries fill the list; a failover after more than one attempt, three
  attempts and waits of 1, 2, 3 seconds keep the order of the code's 4, 10 and 3 to 120
  (failover before give-up, doubling up to a cap). Two servers of different secrets per
  class: with equal secrets nothing is removed by a failover. The theorems remove all of
  these bounds for the invariants, and the difference of the secrets.
* *WPA.* Two stations, one of them WPA2 with two SNonces, the other WPA with the group
  handshake after the pairwise one; two associations or authentications in all (a station
  that comes back, or two stations), two retransmissions instead of four, and one key
  request, PTK rekey or failing call. Renewals, disconnections, removals, timeouts and
  frames are unbounded. `GKeyDone` and `KeyWaits` need two stations so that steps nest.
  The theorems hold for any finite set of stations, any SNonces and any bounds.
  `HandshakeEnds` is not a theorem, and whether a handshake ends depends on the retry
  limits (with 2 the exception it names cannot happen, from 3 on it can), so
  `wpa_handshake` has the code's own, 4 and 4: one station, WPA with two SNonces, three
  associations, one failing call. A second station adds nothing to it but renewals of the
  group key, which are there with one.
* `CHECK_DEADLOCK FALSE` everywhere: a killed receiver, a reader that is done and the
  bounds on inputs are all legitimate ends.

*Fairness.* LogReader and SendData (`FairSpec`): a MATLAB function that has been called,
and a sender that has been started, keep running. RecvScript: sleeps end and a child gets
to run; besides, the three seconds of `sleep 3` are taken to be enough for a forked child
to execute its program (`Rest`), while `sleep $2`, which may be 0, is not. RadiusClient:
time passes and the event loop runs the timeouts that are due. WpaAuth: a call that has
begun goes on; a timeout that stays registered expires; the periodic `wpa_rekey_gtk`,
which registers itself again each time it runs, keeps running between other callbacks
(strong fairness, since callbacks come in turn). Nothing is assumed of the receivers,
the driver, the user, the stations or the RADIUS servers.

## 4. Proofs

All theorems hold for every value of the constants under the modules' named
assumptions: extents of at most 255 (`u_int8_t` loop variables) and a buffer
two bytes longer than the largest CSI (`DimAssumption`); report lengths from 25 to
`BUFSIZE - 2` (`LensAssumption`, the driver's side of the interface); a positive block
size; at most three transmit antennas (`CsiNcAssumption`, `CSI_NC`), time stamps of at
most 20 digits and ids of an `int`; at least one server of each class, and positive
numbers of identifiers, entries and retries, with a cap on the wait of at least twice the
first one (`ServerAssumption`, `LimitAssumption` of RadiusClient; the code has 3 and 120
seconds); a finite set of stations, each WPA or WPA2, and positive retry limits
(`StaAssumption`, `CountAssumption` of WpaAuth). TLC evaluates every assumption on the runs.

* **CsiUnpackProofs** — `TypeCorrect`, `RegisterCorrect`, `ReadsInReportCorrect`,
  `DecodedCorrect`. `Decoded` speaks of the end of a call only, so the inductive
  invariant `IInv` adds `DecodedSoFar` (all elements the loops have passed are right)
  and `RegisterInv`: `8*idx = 10*Taken + bits_left`, and the register is the last word
  fetched shifted right. That is what makes the next ten bits of the register the next
  field of the stream; `TakeNoRefill` and `TakeRefill` prove it for each value of
  `bits_left`, and `NextCellNo` that stepping the loops advances the field number by two.
* **LogReaderProofs** — of the writer `TypeCorrectW`, `LayoutCorrect`, `LogExactCorrect`
  from `InvW`, which adds where the report in flight stands (`InFlight`), that entries are
  ordered (`Ordered`), and that at most one block is not on disk (`LossBound`). Of the
  reader `TypeCorrect`, `FaithfulCorrect`, `WithinFileCorrect` and the end-to-end
  `EarlyCorrect`. `Inv` adds `Sync` (the reader stands at the end of the
  entry it counted last), `Stopped` (where the loop ended, the file was about to end)
  and `Cells`. Steps of the receiver are handled once: `WriterGrows` shows that they
  only append, `GrowsKeeps` that appending disturbs nothing the reader relies on.

* **SendDataProofs** — `TypeCorrect`, `FrameCountCorrect`, `PaceCorrect`. `Progress` says
  that frames sent and frames left make up the count and that the outer loop counts
  down only when none is left; `Slept` that every pause begun was the quotient
  `1000000/Cnt`, whose multiple by the count `QuotientBound` brackets.

* **CsiStoreProofs** — `TypeCorrect`, `AttributionCorrect`, `StoredOnceCorrect`,
  `StorePrefixCorrect`, `TablesReadyCorrect` for any set of receivers, from `Inv`:
  `Messages` (a receiver saves the last message of its run), `Rows` (rows belong to
  messages), `Progress` (how far the message at hand has come; behind a receiver's own
  row there are only rows of others, which is what `SelectId` may return) and `Open`
  (with an open connection everything but the message at hand is stored).
* **InsertQueryProofs** — `QueryDecodes` carries the decoder's invariant over to the
  composition; `StatementCorrect` and `FitsCorrect` from `InvQ`: the rows so far are
  those of the loop indices, and each takes at most 122 bytes, which is a sum of bounds on
  the printed length of every number (a 10-bit number takes at most four characters).
* **RecvScriptProofs** — `TypeCorrect`, `StragglersCorrect`, `OwnRoundsCorrect` for any
  number of rounds, from `Lives`: when a round begins, the receiver of the round before
  has its name, so that `pgrep` finds it.
* **RadiusClientProofs** — `TypeCorrect`, `UniqueIdsCorrect`, `ArmedCorrect`,
  `OneInterimCorrect`, `SignedAuthCorrect`, all from `Inv`. `Armed` is about the time between
  two callbacks and cannot be inductive: the walk of `radius_client_timer` runs with no
  timeout registered. `Inv` therefore has two cases: between callbacks `Idle` (the list has
  its timeout), inside the walk `Looping` (`entry` is a position of the list or the one
  behind it, and once an entry has been passed `first` is a time, so that `TimerEnd`
  registers one for what is left). `Shape` and `Signed` hold in both. What a removal, a
  failover or a reopened socket may do to the list is said once: the new list is a
  `Sublist` of the old one, and `Follows` and `Serves` say what that keeps, from which
  unique identifiers, single interim updates and secrets follow for every caller.
* **WpaAuthProofs** — `TypeCorrect`, `GKeyDoneCorrect`, `KeyWaitsCorrect`,
  `ConfirmedCorrect` from `Inv == Base /\ Calls`. `Base`: every machine is `Sound`
  (`Counters`: a counter exceeds its limit only while the station is about to be
  disconnected; `Frames`: which frame may wait in which state; `Snonces`: a changed SNonce
  and the old replay counters it may use; `Pairwise`: the key installed is the one
  confirmed). `Calls` describes the stack, since `GKeyDone` holds only when it is empty: it
  has one of six shapes, `Waits` (no machine runs), `Steps` (one station's `wpa_sm_step`),
  and within `wpa_rekey_gtk` `Renews`, `Tests`, `Tells` and `TellsOne` (its turn, its loop's
  condition, the loop over the stations, and the step of one of them). In each of them
  every station not being stepped is `Rested`, and `Count(P)` holds: GKeyDoneStations
  is the number of marked stations outside `P`, the stations the loop has still to tell. A
  station's own step finds no renewal that could begin (`Settled`), so only
  `wpa_rekey_gtk` begins one, and calls nest no deeper than these shapes; and a station
  stepped by the loop is `Told`, so it does not bring the count to 0 before the others
  have been told. Each state's entry has a lemma (what it keeps: `Entered`,
  `Regrouped`, `Renewed`), each kind of turn another, and the callbacks cite them.
* **Refinement** — `LogImplementsCapture` (LogReaderProofs) and `StoreImplementsCapture`
  (CsiStoreProofs): the initial states map to an initial state of Capture, and each action
  maps to `Start`, `Message`, `Keep`, `Stop` or a stutter. The invariants `Counted` and
  `Open` give what the abstract `Message` requires, that nothing is outstanding.

Only model-checked: liveness (`ReaderEnds`, `Terminates`, `AllEnd`, `GivenUp`,
`HandshakeEnds`; out of the prover's reach) and the four violations. Every invariant
of every run is a theorem.

## 5. Disagreements between code and documentation

With a run that shows the violation, or (4) with the theorems that show the opposite:

1. Ctrl+C (announced in `main.c:86`) and `kill -9` lose up to one stdio block (`log_quit`).
2. "INSERT ID" (`csi_persistence.c:172`) is the table's latest id, not the insert's
   (`store_race`).
3. `csi_len` is never set in the database receiver on a little-endian host
   (`store_csi_len`).
4. `NumOfSeconds` of `send_Data` (`sendData.c:62`) has no effect beyond the first second
   (`FrameCount` and `Pace`, which are theorems: one lot of frames, in one second).
5. hostapd: a station that disassociates while the group key is renewed and then comes
   back leaves its group machine in REKEYNEGOTIATING; the next renewal waits for it for
   ever (`wpa_rekey`), although `hostapd.conf:1120` says the key is renewed at an interval.

Seen while modelling, part of the models and without a run of their own:

* `read() = -1` is handled as a report (`main.c:101`): `LogExact` excludes it by
  `errors = 0`, `Captured` counts it as a message.
* `read_log_file.m` drops complete records at the end of the file (lines 167, 174):
  `EarlyReturned` states how much.
* An INSERT without rows needs 28 bytes of a buffer of 27 (`csi_persistence.c:209-212`):
  `Fits` is about statements with rows.
* `num_msgs` of the RADIUS client is not counted down by `radius_client_get_id` and is
  from then on an upper bound; `TypeOK` states it as one. Interim updates are not signed
  again after a change of secret, and accounting requests are never given up while there
  is more than one server.
* A verified key request during a 4-way handshake cancels its timeout and starts none
  (`wpa_auth.c:1254`); `HandshakeEnds` assumes that none is made. A 2/2 that answers a
  1/2 of an earlier renewal ends the later one too.
* A 4-way handshake can outlive its retry limit (`wpa_auth.c:56`, 4). With two 1/4 pending,
  a 2/4 answers the older; a second 2/4 with another SNonce and a wrong MIC answers the
  newer (`update_snonce`, 1025-1048) and takes the machine from PTKINITNEGOTIATING to
  PTKCALCNEGOTIATING, where the check fails (2058-2063) and `PTK_valid` and the old PTK
  stay; two timeouts later two 1/4 are pending again, a 2/4 of the first SNonce passes the
  check with the old PTK (1244-1254), and PTKCALCNEGOTIATING2 sets `TimeoutCtr` to 0 (2107).
  Each round needs another wrong MIC; `HandshakeEnds` has this as its only exception
  (`[]<><<Idle(s) /\ SnonceUpdate(s, 0)>>_vars`), and TLC finds no other.

## 6. Not modelled, and assumptions

* The driver delivers a report of `buf_len` bytes and `buf_len` itself in one `read()`,
  0 on a time-out and -1 on an error; `csi_len` is 20 bits per matrix element. A report
  goes to one of the processes that read the device.
* The disk does not fill up; `fwrite` results are ignored by the code.
* A report's payload fits `data_buf` (1500 bytes); nothing reads `data_buf`.
* The host is little-endian; the log and the reader are on hosts that agree with that.
* No receiver is restarted on the same file while a reader has it open (`fopen "w"`
  truncates it); `recv.sh` numbers its files.
* A statement takes effect at once and ids follow the order of the INSERTs; a statement
  whose client was killed is committed or not at the kill, not later.
* `sprintf(q, "%s...", q, ...)` appends, as the C library in use does in a build without
  optimisation (the Makefile's).
* `num_digits`, the connection string and the text of the INSERT INTO csi_status
  (measured by a first `snprintf`) are left out, and so are the status fields that
  steer nothing, the time stamp among them.
* RADIUS: statistics and MIB; the configuration without servers of a class; errors of
  `send()` that the code only prints.
* WPA: 802.1X key management, fast transition, PeerKey, P2P, management frame
  protection, WNM sleep, several groups, the entropy check of the first handshake, the
  longer timeout after an acknowledged 1/4, failing allocations, and frames that no
  station following the protocol sends.
* The rest of `hostapd-2.5` is third-party code of some 275 000 lines (drivers,
  cryptography, EAP, WPS, P2P, parsing), of which the CSI tools use only a running
  access point; two of its state machines with real concurrency were taken as the parts
  where a model says most.
* The MEX function is the decoder again, inside mxArray handling; the Intel reader is
  another tool's; the MATLAB numerics are floating point without state.

## 7. Plan

Done: the modules and runs above, and the proofs of every safety invariant and of both
refinements. What is left, in this order:

1. Key numbers in WpaAuth (GN, GM and which GTK a station holds), so that an answer to an
   older 1/2 can be told from one to the newer.
2. **Eloop**: the event loop (`src/utils/eloop.c`) whose order of timeouts and sockets
   the fairness of the two hostapd modules rests on.
3. **RecordStatus**: all status fields in both byte orders and the shifts of the time
   stamp; `data_buf`.
4. **BfReader**: `read_bf_file.m`, which shares its structure with LogReader.
