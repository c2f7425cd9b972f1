# A verification project for gmedia's RTMP server

The repository is an RTMP server library in Go: a TCP server that performs the
RTMP handshake, reads the chunk stream of a peer, dispatches its messages to an
application and to built-in handlers, and answers commands encoded in AMF0.
This directory holds TLA+ models of it, what TLC checks of them on small
instances, and what TLAPS proves of them for every value of their constants.
`PROJECT.json` lists the runs, the lines each definition translates, the
hazards and the theorems.

## 1. Inventory

| part | code | state | operations | hard behaviour |
|---|---|---|---|---|
| accept loop | `server.go` 31-77 | the listener; one goroutine per connection | `ListenAndServe`, `Serve` | an error of Accept ends it; a connection is never closed; a panic in one goroutine ends the process |
| handshake | `handshake.go` | `Conn.state`, `Conn.digest` | `handshake` and its four cases | two ends interleaved; digests located by random bytes, in two places, under four keys; the link cut in between; who waits for whom |
| acknowledgement window | `conn.go` 214-238, `server.go` 214-225 | `inBytes`, `inLastAck`, `ackWinSize` (uint32) | `readFull`, `serveWinAckSize` | wrap of the word, restart of the count, window changed half-way, Ack decided after whole fields only |
| chunk stream reader | `conn.go` 240-422 | `streams`, `chunkSize`, `chunkPool`, the stream position | `readBasicHeader`, `readChunkMessageHeader`, `pumpMessage`, `SetChunkSize` | headers shortened against earlier ones, messages of several chunks, chunk sizes that change in between, table bounds |
| message dispatch | `server.go` 84-393, `peer.go` | the message being served (`Peer.Reader`) | `serveNew`, `serveMessage`, `serveUserMessage`, `serveCommand`, the tables of handlers | the application may claim, decline or refuse each; errors of built-in handlers are dropped |
| command layer | `server.go` 396-643, `conn.go` 424-548 | none of its own | `serveConnect` and the others, the `Send` methods | several replies of which any may fail; a reply longer than the default chunk |
| message and chunk buffers | `message.go`, `conn.go` 405-418 | chunk buffers with read, write and send offsets | `alloc`, `Write`, `prepare`, `Send`, `Read` | lengths and offsets across chunks, reads past the end of a message, room for headers of several lengths, a connection that takes part of a chunk |
| AMF decoder | `amf/decode.go`, `amf/fold.go` | `decodeState`: the reader, the saved error, the error context | `Unmarshal`, `DecodeWithReader` | recursion over the input, guided by types that may not fit it; what is consumed when something does not; data that breaks off |
| AMF encoder | `amf/encode.go` | `encoderCache`, `fieldCache`, `encodeStatePool`, all shared by every goroutine | `Marshal`, `typeEncoder`, `typeFields` | encoders of recursive types built by several goroutines at once; pooled buffers; field dominance |
| tags | `amf/tags.go` | none | `parseTag` | |
| client | `client.go` | an empty type | none | |

How they interact. `Serve` accepts a connection, creates a `Conn` and starts
`Conn.serve` in a goroutine of its own. `serve` runs the handshake, calls
`serveNew`, and then alternates `pumpMessage` and `serveMessage` until one of
them returns an error. Every byte is read with `readFull`, which may write an
Ack. `serveMessage` asks the application first; when it declines, the built-in
handler runs in the same goroutine, changes the connection (`SetChunkSize`,
`ackWinSize`) or writes replies. So within a connection nothing runs
concurrently: the concurrency is between the two ends of a connection, and
between goroutines that share the caches and the pool of package `amf`.

`server.go` and `conn.go` import `github.com/gnolizuh/rtmp/amf`, another
repository's package of that name, whose `DecodeWithReader` takes several values
at once. `src/amf` cannot be that package, so it is modelled as the library it is,
with any callers, and the decoding of a command's arguments in `Conn` is a choice
between success and failure.

What makes each part correct:

- handshake: the ends agree on the digests; an end that finishes knows how far
  the other has come; only acceptable clients are answered; nobody waits for
  ever unless the client's order forces it;
- acknowledgement window: what is counted never exceeds what is owed, what is
  owed is bounded, and a peer with a large enough allowance is never stuck;
- chunk stream reader: what is delivered is what was sent, in order, or the
  connection ends; both ends always use the same chunk size;
- dispatch and commands: each message is offered once, the loop always comes
  back, a long reply only after the chunk size that holds it;
- message buffers: who reads gets the bytes of the message in order and never
  those of another; what is written is one chunk that the reader of this package
  understands as it was meant, however the writes are cut up and wherever they fail;
- accept loop: who connects is served or turned away whatever others do; nobody
  loses a socket while being served;
- encoder caches: every goroutine gets a complete encoder in the end, made once,
  and the same fields as everybody else;
- marshalling: a result is its caller's own, whole or refused; what is decoded
  means what was encoded, and consumes it exactly.

## 2. Modules

### AckWindow

The three counters of `Conn` and `readFull`. `ReadFull(n)` is a complete read of
`n` bytes; `ServeWinAckSize(win)` the peer's message. Arithmetic is modulo
`Word`, as uint32 is; `ResetAt` is the code's 0xf0000000. `unacked` and `acked`
are history variables: bytes read since the last Ack, and whether there was one.
`OutstandingBounded` is exact: TLC reaches the bound. A read that fails changes
nothing here and ends the connection, which is `Conn`'s matter.

### WindowedPeer (extends AckWindow)

The same server against a peer that sends at most `budget` bytes beyond the last
Ack it received. `ServerRead` reads one field of `need` bytes, which the peer
does not know. The peer, the network and the arrival of Acks are external. The
bounds `Enough` = 2 windows + 2 fields - 2 bytes and, without a restart, 1 window
+ 1 field - 1 byte are exact as well: with one byte less TLC finds a stall.

### Handshake

Both ends of `handshake()`: `state` counts the iterations of its loop,
`ServerSteps` and `ClientSteps` are the cases of its switch in the order of the
states, and each case is an action. The client is this package's own half, or
another implementation that writes C2 at once (`c2first`) or only after S2
(`s2first`). HMAC-SHA256 is ideal: a digest is the record of its key and of the
bytes it covers. Of the random bytes the model keeps the two sums that locate
a digest, with the code's own numbers (728, bases 8 and 772, 1536 bytes).
`InRange` says whether the slices of `makeDigest` exist; when they do not, the
goroutine panics. Writes are flushed at once; after the cut they may vanish
without an error or return one.

### Conn (extends AckWindow)

`Conn.serve` and everything it calls, field by field: `wire` holds the fields a
peer wrote and this end has not read, and `pc` says which one it takes next. A
peer writes any message of `Msgs` on any chunk stream, split and shortened as
RTMP allows given what it sent before. `Needed` is the length the code reads
next; when the field at the front is another, the reader has lost its place
(`misread`), which is a state of its own rather than noise to be interpreted.
`hdr` is the fresh `Header` of `pumpMessage`; nothing of it survives the message,
because the code stores it in a copy of the stream. Whatever the application
may do is a choice: `Claims` are the types it may claim, `AppErrors` says whether
it may refuse. `sent` and `seen` are histories of messages sent and offered.
The AMF decoding of commands is a choice between success and failure.

Handlers that only decode and log are one step, and so are the handlers that do
nothing (`Quiet`). A reader's partial field before a cut is not represented: it
ends as an error either way.

### Server

`Serve` and the goroutines it starts, one per socket: `loop` is the program counter
of `Serve`, `serving` that of each `Conn.serve`, `sock` what has become of the socket.
`acceptFails` is any error of Accept, also for want of a descriptor (`MaxFiles`):
Serve returns and its deferred Close takes the listener and those that wait. A
goroutine may go on, give up (its socket stays, until the collector finds it) or
panic, which ends the process. There is no deadline in the code, so there is no
fairness for a goroutine or a peer.

### Chunks, MessageReader, MessageWriter

`Chunks` is a buffer of `message.go` with its five offsets, and a list of them. The loops
of `ChunkList.Read` and `Write` are stated by the cells they reach (`Ahead`): a read
of `k` bytes takes the first `k` of them and leaves the offset of each chunk, and the index
of the list, where the loop would. `MessageReader` builds a message as `pumpMessage`
does, every chunk a buffer of the chunk size, and lets handlers ask for any number
of bytes. `Wanted` in `Conn` ends a connection at a message of two chunks, so several
chunks here are what the buffers were made for rather than what happens today.

`MessageWriter` has `alloc`, `Write` in any pieces, `prepare` and `Send` over a
connection that may take part of a chunk and fail. Header bytes are counted one
by one, their contents are a record. `prepare` can shorten a header against the one before,
but its callers in `src/` all give nil: every header is a full one, and that is what
is modelled. `BytesRead` and `Understood` are the reader's rules for it (`conn.go` 310-395). They have no
memory of earlier headers, as the code has none: `pumpMessage` keeps them in a copy, which `Conn`
models and the run `conn_headers` shows. `MCMessages` runs both ways: a message is received or sent.

### EncoderService, TypeEncoderCache

`TypeEncoderCache` is `typeEncoder`, `cachedTypeFields` and the constructors of
encoders, with one action for each access to a `sync.Map`: load, store the
placeholder or get another's, ask for the encoders of the parts (a stack of frames
per goroutine, since `typeEncoder` calls itself), `wg.Done`, publish. An encoder is named by its type, by
who made it, and by whether it is the placeholder. Decoding reaches the cache of
fields too (`Unmarshal`). `EncoderService` is what callers are promised: encoders are
made once, values are only encoded by encoders that exist, and every call returns. The
refinement (`ImplementsService`) maps the finished encoders to `made`.

### AmfValues, Marshal, AmfDecoder, AmfCodec

A value is a record by kind; AMF is a sequence of tokens, an integer or a marker
each, and one token per byte of a string. Numbers are counted in halves, so that there are
fractions; `Significand` and `Wide` are the bits of a float64's significand and of the widest integers, `Rounded`
the nearest float to a number. Exponents have no bound, and there are no infinities and no NaN.
`Marshal` keeps what an encoder has still
to write as a list (`todo`): `encode` replaces a value at its head by tokens and smaller values,
in the order the code writes them. Each goroutine takes an `encodeState` from the pool
and puts it back; `written` is the history of what it meant to write. `Panic` is an encoder that
panics, which `recover` turns into the error. `StackLimit` is where a goroutine's stack ends.
`PartsIn` are the values in a value, by the depth at which they are encoded, and `Refuses` the encoders that panic: with
these `NothingHalfEncoded` says which values must give an error, whatever the list does.
`InputsAssumption` is what Go's type checker sees to: a value has the shape of its type, in all its parts.

`AmfDecoder` follows `decode.go` function by function with recursive operators, each
taking the `decodeState` and giving an outcome: a value, an error returned, a panic
(`panic`; `context` is the one of `addErrorContext`), or `misread` when a misfit, an UnmarshalAMF, or what
`Marshal` garbled makes the code read on in the middle of a token: with an error saved that cannot end well, otherwise
it may be anything, and the properties count it as success (`Taken`). `Converted` is what becomes of a float64 in a number of
another type: the fraction cut off, the low bits kept, the nearest float; `OutOfRange` is what a build makes of one an int64 or uint64
cannot hold, which Go leaves open. `AmfCodec` composes the two: one result of `Marshal`, the whole of it or a part, is decoded into one
of several types, or foreign data is, each with `Unmarshal` (`InitState`) and with `DecodeWithReader` (`ReaderState`), which has no `data` for an
UnmarshalAMF. `Meaning` is what a value says whatever its type; it is the reference the codec is held against. Two values
have the `SameMeaning` if the numbers that both the float64 and the target hold are the same in them; of other numbers the code loses
something without an error, and nothing is claimed.

What is known not to come back is named part by part, and each exception is needed: TLC finds a counterexample without it.
`RefusesOnlyKnown` has them all: nil pointers to what cannot be nil, an empty string at the end, a map with an empty key or with one that is too
long, a MarshalAMF, an embedded pointer to an unexported struct, and targets with an UnmarshalAMF.
`NothingLost` leaves out what is garbled (`Sound`) and targets with an UnmarshalAMF; `ConsumesValue` says of the latter what they do instead.

### TypeFields

`typeFields`: the search through embedded structs level by level (`scan` is one struct,
`nextLevel` the swap of the queues), then the sort by name, depth, tag and index and the choice of the
dominant field. Lists are made in an order (`InOrder`) as a list sorted is: each member has as many before it as
are less. `GoFields` is the reference: all ways to a field in the type graph (`Ways`) and the rule of
the Go specification for selectors, with tags preferred. Names are numbers, since the code only compares them.
`GraphsAssumption`: a program has finitely many struct types, and declares those it names.

### Faulty variants

Each module has a few definitions marked `Faulty variant`. Nothing uses them:
each is a plausible slip of the definition after it, and replacing that definition
by it makes TLC find the property named in `PROJECT.json` ("mutants") violated.

## 3. Runs

| run | checks | states | what it shows |
|---|---|---|---|
| `ack_window` | `MarkBehindCount`, `NeverOvercounted`, `OutstandingBounded`, `AckInv` | 961 | the counters through several restarts; `AckInv`, which contains the type invariant, is what the proofs use |
| `windowed_peer` | `NeverStalls`, `StallMeansRestart`, `PeerInv`, `KeepsFlowing` | 157 086 | budgets at the two bounds |
| `handshake` | `HandshakeOrder`, `OwnEndsAgree`, `ServerAnswersAcceptable`, `MutualWaitOnlyIfPatient`, `HandshakeInv` (with the type invariant), `HandshakeCompletes` | 39 119 | all clients, a cut anywhere |
| `conn` | `ConnTypeOK`, `FollowsPeer`, `ChunkSizeAgreed`, `NotDroppedForNothing`, `RepliesFit`, `AckSpec`, `ServesEverything` | 258 191 | chunk sizes, long messages and shortened headers together; all forms of headers, both sides of the stream table, a chunk size that wraps; commands and failing writes; the loop comes back for every message; `Conn` implements `AckWindow` |
| `server` | `ServedKeepSockets`, `PeersAnswered` | 1 173 | three peers, two descriptors, errors and panics anywhere |
| `messages` | `ReadsMessageThenZeros`, `FailsOnlyAtEnd`, `WireIsChunk`, `HeadersUnderstood` | 28 096 | reads of all sizes across chunks; writes in all pieces, headers on both sides of the timestamp's escape, a connection that fails anywhere |
| `type_encoder_cache` | `CacheInv`, `MadeOnce`, `WaitsOnMaker`, `FieldsShared`, `ImplementsService` | 222 350 | two goroutines, a type that refers to itself through a pointer, and an interface |
| `amf_codec` | `ResultsOwn`, `NothingHalfEncoded`, `NothingLost`, `ConsumesValue`, `RefusesOnlyKnown`, `CutNoticed` | 91 051 | 323 values of 26 types, encoded, cut at every token, decoded into their own type, an interface, or another one, with and without an UnmarshalAMF; 138 of them are all the numbers of six types, each decoded into all six; 171 pieces of foreign data, by type; pairs of goroutines that share encodeStates |
| `type_fields` | `GoRulesUnlessShared`, `SearchEnds` | 173 751 | all families of up to four structs with two fields each, and some of five |

Three runs show where the code departs from what its comments say; each stops at
the first violation:

| run | property | the code | the comment |
|---|---|---|---|
| `handshake_panic` | `NeverPanics` | a digest found from base 772 makes `handshake.go:240` slice out of range | `handshake.go:22` |
| `conn_headers` | `HeadersRemembered` | `conn.go:379` copies the stream, so its header is lost | `conn.go:386` |
| `amf_unknown` | `UnknownDiscarded` | a member without a field panics in `decode.go` 177-330 | `decode.go:789` |

The models contain other departures as well. The properties of the runs above
hold because they say where these end:

| the code | what it is said to do | where the models have it |
|---|---|---|
| `handshake.go:240` keys the response with a hash of the challenge from the digest on, with a hole | the digest alone (`handshake.go:26`) | `Response`; both ends do it, so `OwnEndsAgree` holds |
| `conn.go:420` refuses a message of two chunks | `message.go:510` writes them | `Deliver`; `NotDroppedForNothing` excepts messages that are not `whole` |
| `conn.go:368` lets chunk stream 32 pass, `conn.go:379` indexes a table of 32 | `%d >= %d` (`conn.go:369`) | `BodyPanics`; `Followable` excepts it |
| `message.go:262` returns the bytes read together with io.EOF | count zero (`message.go:242`) | `ReadList`; `FailsOnlyAtEnd` |
| `message.go:511` begins after the chunk a body ends in, and `message.go:317` adds the wrong lengths: a body of two chunks has one header and a wrong length | `message.go:510` | `prepare`, `Size`; `WireIsChunk` is about bodies shorter than a chunk |
| `encode.go:485` panics for every array | `encode.go:547` | `arrayEncoder`; `Refuses` counts arrays |
| `encode.go:290` writes an empty slice for what MarshalAMF gives | `encode.go:535` | `marshalerEncoder`; `Sound`, and `RefusesOnlyKnown` except it |
| `decode.go:482` invalidates the target "to ensure d.value(subv) skips over" it, which panics as for unknown members | `decode.go:484` | `Members`; `RefusesOnlyKnown` excepts it |
| `encode.go:511` follows cyclic values until the stack ends | an error (`encode.go:565`) | `ptrEncoder`, `StackLimit` |
| `decode.go:106` writes through the nil pointer declared at 103: a misfit in a field is a panic | `decode.go:100` | `addErrorContext` |
| `decode.go:794` gives UnmarshalAMF the input from where the rest would end, takes nothing from it, and panics under `DecodeWithReader` | `decode.go:46` | `value`; `ConsumesValue` |
| `decode.go:305` takes an empty string at the end of the data for the end | `amf_test.go:78` | `ReadBytes`; `RefusesOnlyKnown` excepts it |
| `encode.go:728` counts what a struct embeds once, however many ways there are to the struct | `encode.go:753` | `scan`; `GoRulesUnlessShared` excepts it |

No comment speaks of three others: `encode.go:143` cuts the length of a name to 16 bits but writes all of it
(`encodeObjectName`, `LongKey`); `decode.go:439` takes a map's empty key for the end of the object (`Members`, `EmptyKey`);
`encode.go:312` and `decode.go:202` round, cut and wrap numbers without an error (`Rounded`, `Converted`, `SameMeaning`).

### Bounds

- `AckWindow`: a word of 32, a restart at 20 and windows of 1, 3 and 9 let the
  count restart many times with each window; the history `unacked` is cut at 30,
  above the bound it is checked against (20). The proofs need no numbers.
- `WindowedPeer`: word 16, restart at 13, fields up to 3, windows 3 and 5, four
  bytes in flight. `MaxWindow + MaxRead <= ResetAt` holds as it does in the code
  for every window below 0xef000000, body fields being below 2^24 bytes.
- `Handshake`: real numbers; the sums 0, 727, 728 and 1020 are the ends of the
  range and both sides of the modulus. Two packets per direction is the protocol.
- `Conn`: chunks of 4 bytes at first, header room 6, word 64, 32 chunk streams
  (the code's number). `Scenario` in `MCConn` keeps three kinds of connection: three messages on one
  stream that change and depend on chunk sizes, two messages of any kind with any
  header on any of five streams, or two commands. A third message of one stream is enough to see
  a size changed, a long message, and one that depends on both; `hdr` does not carry over.
  `MaxBacklog` lets a peer run ahead of the reader by two messages. `HandshakeSizes` only feeds the counters.
- `Server`: three sockets and two descriptors, so that one waits for want of a descriptor.
- Messages: received ones of up to 10 bytes in chunks of 1, 3, 4 and 5, that is, up to ten chunks,
  ending inside and at the end of one; requests of every small size and one longer than a
  chunk. Sent ones of 0, 1, 3 and 6 bytes with chunks of 4, timestamps below 10 with the escape at 6, on both
  sides of it and at it; two messages, so that one follows another. Six bytes are more than any caller in `src/` writes into a chunk of
  4096: of such a message only what its header says of type, stream and time is checked.
- `TypeEncoderCache`: two goroutines, three types, values one level deep. The proofs need no numbers.
- `AmfCodec`: strings of up to four bytes with a long string, and a name whose length is cut, from three on; the values of `MCAmfCodec` have each
  kind nested in each container. Integers are of 3 and 5 bits with and without a sign, floats have significands of 2 and 3, so that there
  are integers no float64 holds, floats no integer does, and both sides of every limit. `Shared` bounds the values that two goroutines encode at once to
  a result, a longer one, and one that fails half-way: what one can do to the other is to write in its buffer.
- `TypeFields`: four or five structs. The dominance rules need two fields of a name at one depth and one at another,
  with and without tags; a struct reached twice that embeds another is the known exception.

The runs set `CHECK_DEADLOCK FALSE` where the system may stop: a finished
handshake, a served or broken connection, a peer out of budget, a message read or
sent, a server that has returned, a value decoded, a search that is done.

### Fairness

- `FairSpec` (Handshake): weak fairness of each end's next step. An end never
  waits for anything but the packet it reads. `HandshakeCompletes` asks for
  it only while the link stays up, and nothing makes the link be cut.
- `FairConnSpec`: weak fairness of the serving goroutine alone, which the Go
  scheduler grants. The peer owes nothing, and the link may or may not be cut.
- `FairPeerSpec`: the server reads a field that has arrived, Acks arrive, and the peer
  has more to send. `KeepsFlowing` is about a live peer on a live link.

- `FairCacheSpec`: every goroutine that is inside `typeEncoder` or encoding is scheduled; nobody has to call.
  `ImplementsService` includes that every call returns, which would fail if anybody could wait in a circle.
- `ServerSpec`: the goroutine of `Serve` alone. Peers, applications and the collector may stop anywhere.
- `TypeFieldsSpec`: the one goroutine that computes.

## 4. Proofs

`AckWindowProofs`, for every `Word`, `ResetAt`, `MaxRead`, `MaxWindow` and
`Windows` with `ResetAt + MaxRead <= Word` and windows below the word:

- `AckInvariant`: `AckInv` is inductive. The interesting conjunct is `WindowInv`:
  `OutstandingBounded` alone does not survive a restart, which forgets bytes. It
  becomes inductive by keeping apart what the restart forgot (`Forgotten`) and
  what has been counted since, and by the observation that once the mark has left
  zero an Ack has covered everything forgotten before.
- `MarkBehindCountAlways`, `NeverOvercountedAlways`, `OutstandingBoundedAlways`
  follow. `NoWrap` is the lemma that modular arithmetic is plain arithmetic here.

`WindowedPeerProofs`, for every budget, field length and network capacity in addition:

- `PeerInvariant`: each outstanding byte is in flight, read and not acknowledged,
  or covered by an Ack on its way; before the first Ack, a bound in terms of the count.
- `NeverStallsAlways` and `StallMeansRestartAlways` follow with the bound of
  `AckInv`: the server's half is reused through the lemma `ReadFullInv`.

`HandshakeProofs`, for every set of clients and every sum of random bytes:

- `HandshakeInvariant`: what an end has written and read is determined by its
  state (`Progress`), nothing is read that was not written (`Transit`), the first
  packet is a challenge of its kind (`Opening`). `HandshakeOrder` is about the end
  of both sequences and is not inductive without these.
- `HandshakeOrderAlways`, and `OwnEndsAgreeAlways`: it rests on `OwnDigestFound`
  (a digest written at 12 + sum mod 728 is found from base 8) and on the offset
  being at most 739, so that the slices of `handshake.go:240` exist.
- `MutualWaitOnlyIfPatientAlways`: from `HandshakeInv`, by the states the two ends may
  wait in together.
- `ServerAnswersAcceptableAlways` needs one more invariant, `Judged`: a server past
  `recvChallenge` has read an acceptable challenge, and one that gave up on a link that was up has
  not. It rests on `FoundIffAcceptable`: the server finds a digest under the client's key exactly where the client signed.
- `FarDigestOutOfRange`: for a digest found from base 772 they never do. This
  is the finding `handshake_panic` for all inputs.

`TypeEncoderCacheProofs`, for all types, whatever they refer to, and any number of goroutines:

- `CacheInvariant`: `CacheInv` is inductive. What is wanted, that nobody waits in a circle, is not: it follows from the
  fact that whoever is making encoders does not encode (`StackShape`), that an encoder being made is in the cache under its
  maker's name (`MakersOwn`), and that every encoder that somebody can reach, in a cache, on a stack, in a
  finished encoder or at hand, is being made or finished (`CachesSound`, `HeldSound`).
- `MadeOnceAlways`, `WaitsOnMakerAlways`, `FieldsSharedAlways` follow.
- `ImplementsServiceSteps`: each action of `TypeEncoderCache` is a step of `EncoderService` or a
  stutter. `CacheInv` says that encoders are finished before they are used; that they are encoders of
  the *type asked for* is `MatchInv`: every frame on a stack, every part of a finished encoder, every
  field and every encoder at hand has the type that was wanted there, through all levels of a value.

`EncodeProofs`, for all goroutines, encodeStates, inputs, limits of the stack and families of struct types:

- `ResultsOwnAlways`: an encodeState is used by one goroutine at a time or in the pool, what a
  goroutine has written is what its buffer holds, and a result is a copy. The
  encoders do not matter for it, so that proof holds whatever they write.
- `NothingHalfEncodedAlways`: for this they do. `EncodeInv` is an account of the list `todo`: the values in it are parts of the
  input, at their depth (`PartsOnly`), and a part of the input is refused exactly if a panic is in the list or a part of a
  value in it is refused (`RefusedIn`). `EncoderReplaces` and `EncoderRefuses` go through the encoders, kind by kind: each puts
  tokens and the parts of its value in the value's place (`Replaced`), or panics. Objects are joined by `FlattenSeq`, whose
  members are found by induction over a set (`FlattenHas`); `PartsNext` is the fact that `PartsIn`, a recursive function, is what it says.
- `SearchInvariant`: `TypeFieldsInv` says, at every level, that what is queued and counted is what the ways of that length (`Ways`)
  end at, but for types met at an earlier level, and that the fields found are those of the types scanned, each by a first way to it,
  twice if there is another way (`FieldsFound`, `FieldsTwice`). It holds with sharing too: that a count tells one way
  from more is all it claims only where no shared struct embeds another (`NextCounted`, `Unshared`).
- `GoRulesUnlessSharedAlways`: the search drops every type but where it is met first, so fields that Go sees further down are never
  found. `Represented` shows that they do not matter: for each of them one of the same name was found, no deeper, and as deep only
  if the struct was met there. So the fields chosen are those at the least depth of their name in the whole graph (`ShallowestIs`), and
  ties among them show as they do in Go (`ChoiceIsGo`). `FirstWaysShort` is why looking as deep as there are types is enough, for types that
  embed each other in a circle. Sorting is by `InOrder`; that it lists a finite set in a strict order, each member once, is `EveryRank` and what follows it.

`ServerProofs`, for any number of sockets and descriptors:

- `ServedKeepSocketsAlways`: the strengthening says that those in the backlog wait, each once, and are served by nobody yet
  (`Queued`), and that between Accept and the go statement the socket is held for a goroutine to come (`Pending`).

`ConnProofs`, for every peer, application, cut of the link and constant:

- `ConnInvAlways`: that a connection is at a field of the message it should read says nothing about the fields to
  come, so `FollowsPeer` is far from inductive. `ConnInv` says of every open connection that it follows its peer or has
  lost it, and of every closed one that there was an excuse. Following means that there is, for each message sent and not yet served,
  a place on the wire where the fields of its first chunk begin (`LaidIn`), that this end stands at the place of the message it
  reads, or as far behind it as its state says (`Place`), and that the size each was cut to is the size this end will have when it comes to it
  (`SizesIn`). What follows a first chunk does not matter: a message that has more than one, or a header that leaves out
  what `pumpMessage` has forgotten, ends the connection at the next step (`Lost`).
- What a peer writes for a message is `FlattenSeq` over its chunks, a recursive function; that the joined sequence begins
  with the first one is proved by induction over a set of lengths (`FlattenStarts`), which needs no theorem with an operator
  parameter: the set of counterexamples would have a least element.
- `ConnTypeOKAlways`, `FollowsPeerAlways`, `ChunkSizeAgreedAlways`, `NotDroppedForNothingAlways` follow.
  `ConnInv` speaks of functions that place the messages, so no run evaluates it; its consequences are
  what the run `conn` checks.
- `ConnImplementsAck`: each step of `Conn` is a step of `AckWindow` or leaves its variables alone. The one obligation that is not
  plain is that no field is longer than `MaxRead`, which is the type invariant of what stands on the wire. With it,
  what `AckWindowProofs` shows of the counters holds of a connection (`ConnAcks`).
- `RepliesFitAlways`: a long reply that is still to be written has its announcement before it or
  among what was written (`WillFit`). `RepliesFit` alone does not see the replies a handler still owes.

`MessageProofs`, for every message, chunk size, size of reads and writes, and header:

- Both halves rest on the same account of a list of chunks. Chunk `i` holds the bytes `b[i-1] + 1` to `b[i]` (`Starts`); when `P` bytes
  are done, the offset of each chunk is how many of its bytes are among them (`Offset`); the cells ahead are the bytes from `P + 1` on,
  in order (`AheadCells`, by induction over the chunks that `Ahead` joins). Then `TakenBetween` and `NextChunk` say that a read or write of `m` bytes moves
  every offset, and the index of the list, to where `P + m` bytes are done (`OffsetMoved`).
- `ReaderInvAlways`: the list is `Holding` the message in front of zeros, and `Len(got)` bytes of it are done.
  `ReceivedHolding` is the base: what `pumpMessage` makes of a message of `n` bytes in chunks of `cs`, an exact multiple or not. `ReadsMessageThenZerosAlways` and
  `FailsOnlyAtEndAlways` follow.
- `WriterInvAlways`: while it is written, a list is `Filling` (its first `put` bytes are the body, the room for headers untouched);
  a short message, once prepared, is in the first chunk what the wire is to carry, behind a header whose fields are those `prepare` was to write.
  `HeaderRoom` (the room `prepare` makes is what the reader takes, for every chunk stream and time) and `HeaderMeant` (the reader makes of the
  fields what was meant) are the lemmas about headers; they meet where the time is the escape. `WireIsChunkAlways` and `HeadersUnderstoodAlways` follow.
- The theorems are about `ReaderSpec` and `WriterSpec`; the run `messages` checks the two side by side, in one behaviour each.
  `RoomAssumption` is the sum `MaxHeaderSize` is in `conn.go`; `HeadersAssumption` takes headers of chunk streams that are in the table.

The assumptions of the proofs are the named `ASSUME`s of the modules, which TLC evaluates on every
run; nothing else is taken on trust.

### Only model-checked

- Liveness: `KeepsFlowing`, `HandshakeCompletes`, `ServesEverything`, `PeersAnswered`, `SearchEnds` and the half of
  `ImplementsService` that says calls return. The prover has no rules for fairness.
- `AmfDecoder`, and of `AmfCodec` `NothingLost`, `ConsumesValue`, `RefusesOnlyKnown` and `CutNoticed`: the decoder is a set of recursive
  operators that call each other, and what it makes of data of every length is an induction over data: both are out of the prover's
  reach.

## 5. Not modelled, and why

- `ReadTimeout` is never used by the code and no deadline is set; the models give
  the peer no fairness instead, so a peer may stop anywhere.
- The log, timestamps, the contents of audio, video and data messages: nothing
  depends on them.
- A message shorter than what its handler reads: `MessageReader` shows that the handler gets zeros; `Conn` does not
  have the bytes of a message, so what a handler does with them there is its argument or "malformed".
- Of the AMF decoder: base64 into `[]byte`, strings of digits into integers, the `Number` type, maps whose keys are
  integers, infinities and NaN, an UnmarshalAMF that fails, the text of errors. Of the encoder: map keys that are integers or have a method
  for text, the panics that `marshal` passes on (runtime errors), and the `string` option of tags, which no encoder reads.
- `tags.go`: splits a string; `TypeFields` takes names and options as given. `client.go`: an empty type.
- `prepare` with an earlier header (`message.go` 423-438): nothing in `src/` gives it one. The bits of a chunk stream's number: those above 319 take
  three bytes, of which `message.go:477` writes the last as zero, but the table of streams ends at 32.
- Two goroutines that use the `Send` methods of one `Conn` at once: nothing in `src/` does.

## 6. What is left

Every component but the empty client has its modules. What would come next, in order:

1. `Conn` with the bytes of control messages, through `MessageReader`: what a handler makes of a message
   shorter than it reads.
2. Maps with integer keys, on both sides of the codec.

