# A TLA+ verification of phantasma-sdk-cpp

The SDK is a header-only C++ library: an application includes it, asks a node of
the Phantasma chain questions over JSON-RPC, builds and signs transactions and
sends them. It keeps little state of its own, and runs on its callers' threads.
What can go wrong in it is of two sorts. The first is about *what is known when*: a
price read earlier than it is used, an answer that never arrived, a response to
somebody else's request, a fact nobody can know before the chain runs the
transaction, memory that is open while nobody uses it. The second is about *data*:
bytes that must be what the chain reads, numbers in words of fixed width, answers
of a node that are short of a member, schemas that fix a token's metadata for good.

This directory holds the modules that model those parts, the TLC configurations
that check them on small instances, and the theorems TLAPS proves about them for
every value of their constants.

## 1. The system

### Components, state, operations

| Component | Source (`include/` unless said) | State | Operations | What makes it correct |
|---|---|---|---|---|
| Gas config cache | `Carbon/ChainFeePlan.h` | the last config read, the wall-clock time of the read, a flag | `Config`, `Invalidate`, `Plan` | no config older than the TTL is used; an `Invalidate` is final; a burn is priced on infusions read in that call |
| Carbon send path | `Carbon/Send.h`, `Preflight.h`, `FeeInfusions.h`, the signing half of `DataBlockchain.h` | the locals of one call | `SendTransaction`: pre-flight, infusions, plan, sign, submit | no creation of a taken symbol; signatures the chain accepts; an abort only for a reason the caller can know; a repeated call pays once |
| Fee planner and calculator | `Carbon/FeePlan.h`, `FeeEstimator.h` | none: from message, config and facts to a plan | `PlanFees`, `Describe`, `EstimateNativeFeeBatch`, `Settle` | the offer and the storage ceiling are never below what the chain charges |
| Fee arithmetic | `Carbon/FeeEstimator.h`, `FeeInfusions.h` | none | saturating sums and products, `MulShift` (two builds), `CeilDiv`, `SymbolShift`, `ParseDecimalU64` | exact or clamped, never wrapped |
| JSON-RPC layer | `PhantasmaAPI.h`, `Rpc/Prelude.h`, the curl and rapidjson adapters | a process-wide request counter, a locked map from builder addresses to request ids, a thread-local expected id | `Make*Request`, `HttpPost`, `UseRequestId`, `CheckResponse`, `Parse*Response`, the methods of `PhantasmaAPI` | a call accepts the response to its own request and no other; an error of the server is an error of the call; no error means that all was read |
| Infusion reader | `Carbon/FeeInfusions.h` | cursors seen, items read | `ReadAllPages`, `ReadInfusedAssets` | it ends on every node; a list cut short is never reported as whole |
| Confirmation and legacy send helpers | `Utils/RpcUtils.h` | none but the deadline | `CheckConfirmation`, `WaitForConfirmation`, `SendTransaction*` | an answer of Confirmed or Rejected is the chain's; the wait ends |
| Deployment tool | `samples/carbon-token-deployment-tool/main.cpp` | none | `WaitForTx`, `RunCreateToken`, `RunCreateSeries`, `RunMintNft` | a failure it reports is a failure |
| Secure memory | `Security/SecureByteArray.h`, `SecureMemory.h` | blocks with page access and encryption; per array, counts of readers and writers | construction, copy, move, `Read`, `Write`, the handles' destructors | memory is open only while somebody holds it, and open to whoever does |
| Carbon codecs | `Carbon/Data*.h`, `Carbon.h`, `Tx.h`, `Alloc.h`, `Contracts/*.h` | read views, write views | `Read`, `Write`, `SerializeTx`, `SignAndSerialize`, the message builders | what is written is read back; nothing cut short passes for whole |
| Wide integers | `Carbon/Int256*.h`, `External/tiny-bignum-c`, `Numerics/BigInteger.h` | none | arithmetic, bytes, texts | the number, or a refusal |
| Token schemas | `Carbon/Contracts/TokenSchemas.h`, `Token.h` | none | metadata normalisation, `BuildFromFields`, `Verify`, the builders of tokens, series and NFTs | what the caller gave is what the chain stores, or the builder refuses |
| VM scripts | `VM/*.h`, `Utils/Binary*.h`, `Blockchain/Transaction.h` | a script in the making: bytes, labels, jumps to resolve | `ScriptBuilder`, `VMObject`, `Transaction` | a script is the calls it was built from; a value survives its bytes and its casts |
| Numeral and text encodings | `Numerics/Base16.h`, `Base58.h`, `Base64.h` | none | encode, decode, check | a text is accepted exactly if it is one of the code |
| Domain events and RPC models | `Rpc/*.h`, `Domain/Event.h` | none | readers of records, extended events, special resolutions | no payload fails the answer that carries it, and none is half read |
| Wallet sample, cryptography, platform adapters | `samples/WalletSample`, `Cryptography`, `Adapters` | a console, library calls | | see "Not modelled" |

### How they interact

`ChainFeePlanner::Plan` and `SendTransaction` both read infusions
(`FeeInfusions.h`) through the JSON-RPC layer and hand them, with a gas config, to
`PlanFees`, which prices a message through `FeeEstimator.h`. `SendTransaction` is
given the config by its caller (who may hold it in a `ChainFeePlanner`), signs
through `SignAndSerialize` (`DataBlockchain.h`, over the codecs) and submits through
the JSON-RPC layer. The builders of `Tx.h` and `Token.h` assemble the messages it is
given out of schemas and metadata; `ScriptBuilder` and `Transaction` do the same for
the older, script-based transactions. The confirmation helpers and the deployment
tool poll the node afterwards. Every method of the API writes its request with
`JSONBuilder`, matches the response by its id, and reads the result with the JSON
reader into the records of `PhantasmaAPI.h` and `Rpc/`.

Everything is a synchronous call on the caller's thread; only the JSON-RPC layer
keeps state that threads share. The rest of the concurrency is with the *chain*:
governance changes prices, other accounts register symbols and infuse NFTs, the
node disappears and comes back, all between two steps of one call.

### Behaviours that are hard

Each is a row of `hazards` in `PROJECT.json`, at its line, with the property that
would catch it.

* **Stale state.** A config aged by a wall clock that is stepped; infusions read
  before an asset is infused; prices that change between plan and execution.
* **Partial failure.** A connection that breaks between two queries of one check;
  a read that fails after the cache was invalidated; an HTTP client that raises
  halfway through a call; a transaction whose bytes end within its signatures.
* **Retries and timeouts.** The answer to a submission is lost and the caller
  calls again; a wait gives up while the transaction may still execute.
* **Peers that lie or never end.** A node that hands out cursors for ever, or the
  same one twice; answers with members left out or of another shape.
* **Interleaving.** Threads that number, store, evict and take request ids, with
  builder addresses that are reused the moment a call returns.
* **Lifetimes.** Arrays of secret memory copied and moved while readers of them
  are alive.
* **Bounds.** The map of request ids at its cap; symbols as long as a word is
  wide; sums, products, quotients and guards of two's complement at the word's edge;
  jump targets at the end of their two bytes.
* **Combinations.** Facts that default to "the reading that costs more" for one
  operation, put together in a batch whose parts offset each other; standard fields
  of a token schema spread over three schemas.

## 2. Modules

Components with state and steps, one module each:

| Module | Models | Checked by | Proofs |
|---|---|---|---|
| `ChainFeePlanner` | the config cache, the clock and the chain's config | run `ChainFeePlanner` | `ChainFeePlanner_proofs` |
| `CarbonSend`, `MCCarbonSend` | one call of `SendTransaction` after another, the node and the chain | `CarbonSend`, `CarbonSendFree` | `CarbonSend_proofs` |
| `OncePayment` | the abstract specification `CarbonSend` implements | property of `CarbonSend` | `CarbonSend_proofs` |
| `FeePlan`, `MCFeePlan` | the planner, call by call, beside what the chain counts (extends `FeeMath`) | `FeePlan`, `FeePlanBound` | `FeePlan_proofs` |
| `JsonRpc`, `MCJsonRpc` | request ids and response matching under threads | `JsonRpc`, `JsonRpcEvicted`, `JsonRpcZeroCode` | `JsonRpc_proofs` |
| `OwnAnswers` | the abstract specification `JsonRpc` implements | property of `JsonRpc` | `JsonRpc_proofs` |
| `CursorPages` | the walks of `ReadInfusedAssets`, honest and faulty nodes | `CursorPages` | `CursorPages_proofs` |
| `WholeReading` | the abstract specification `CursorPages` implements | property of `CursorPages` | `CursorPages_proofs` |
| `Confirmation` | one transaction from its expiry stamp to the end of the wait | `Confirmation` | `Confirmation_proofs` |
| `SecureBytes`, `MCSecureBytes` | arrays, handles and blocks of secret memory | `SecureBytes` | `SecureBytes_proofs` |

The parts that keep no state are operators, which `MCFunctions` checks over bounded
inputs in the one run `Functions`. Modules ending in `Images` hold the samples and
what is asked of them (the reference definitions), the others the code:

| Module | Models | Property |
|---|---|---|
| `FeeMath`, `FeeWords` | the fixed-width operators of the calculator, the decimal reader; what the fee operators are meant to compute | `FeesAreExact` (proved in `FeeMath_proofs`), `NumbersAreExact` |
| `BigInteger`, `WideInts` | unbounded and 256-bit integers, `intx` | `NumbersAreExact` |
| `JsonText` | the built-in JSON reader | `JsonIsRead` |
| `RpcReadings`, `RpcRecords` | how members are read; the records of `PhantasmaAPI.h` | `RecordsAreRead` |
| `RpcArguments` | extended events and special resolutions | `EventsAreTotal` |
| `RpcMethods`, `JsonBuilder` | requests, parsers and the methods of `PhantasmaAPI`; the JSON writer | `CallsAreHonest` |
| `CarbonWire`, `CarbonMessages`, `CarbonRecords`, `CarbonImages` | byte streams; transaction messages, envelopes and their signer; contract records and message builders | `ImagesAreExact` |
| `VmData`, `VmImages` | variables, structs and schemas of `DataVm.h` | `StructsAreExact` |
| `VmObjects`, `VmScripts`, `ScriptImages` | values of the script VM; the script builder and transactions | `StructsAreExact` |
| `TextCodes` | Base16, Base58, Base64 | `TextsAreExact` |
| `TokenMetadata`, `TokenBuilders`, `TokenImages` | metadata values and schemas; the builders | `TokensAreBuilt` |

### ChainFeePlanner

The module keeps the three fields of the object (`m_haveConfig`, `m_config`,
`m_fetchedAt`), the locals of the call in progress (`call`), and the chain's side:
the version of the gas config it holds and what the instance to be burned holds.
`Config` is three steps, because the chain may change between them: `CallConfig`
(the cache test, and the request when it fails), `NodeServesConfig` (the node
answers, at *its* moment) and `ConfigArrives` or `ConfigFails`. `Plan` goes through
the same steps and then through the infusion read and the pricing. An object is
used by one thread at a time, which is what the header offers (it has no lock).

Time is true time plus the steps the *wall clock* has been given, since `NowMs`
reads `system_clock`. Nothing a program does with such a clock can bound the age
of a config in true time better than "TTL plus the backward steps", and
`ConfigIsRecent` says exactly that: the code stamps a config with the time *before*
the request, so the round trip adds nothing to the age, and a forward step only
shortens it.

### CarbonSend and OncePayment

A call is its options (`signers`, config, stated witness count, pre-flight and
infusion flags) and a program counter over the blocks of `SendTransaction` in
their order: symbol lookup, control lookup, infusions, plan, sign, send. An error
or an early return of the code ends the call (`Return`). `Send` hands the envelope
to the node, which may accept it, refuse it, or accept it while the answer is lost
(`heard`); `Retry` is the caller calling again with the config it kept, as the
comment on `SendOptions` advises. Around it, the node comes and goes, governance
replaces the config (each version costs more), another account registers the
symbol or infuses the instance, and the chain executes what it holds.

The fee plan is abstracted to what its offer rests on; `FeePlan` models the rest.
An envelope is its message, its offer and its signers. Two equal envelopes are
one transaction, since signatures are deterministic and the chain knows a
transaction by its hash.

`OncePayment` is what a caller may rely on: an instruction is carried out and paid
for once, however often it is sent, and an answer of true is about one that has
reached the network. `CarbonSend` implements it (`ImplementsOncePayment`) under the
mapping of `PaidOnce`: what the network holds or has executed, how often each
message was carried out, and the message the last true was about. For a burn an
abort does not count, since its offer follows what the instance holds at each call:
its two envelopes may differ, and the chain carries out one of them.

What the module does not claim: a caller that reads a *fresh* config before it
calls again signs another envelope, and both may execute; only keeping the config
makes a retry safe. And a stated `witnessCount` that differs from the signer list
prices another envelope than the one sent. `SendTransaction` does not compare the
two (`Send.h:90`); the model has such calls (`StatedCounts`), and `AbortHasACause`
names the stated count as a cause.

### FeePlan

`FeePlan` describes a message one call at a time, as `Describe` does, and keeps
three running totals (`NativeOperationModel`s summed by `AddOperation`): `plan`,
under the caller's statement of facts; `cheap`, under the cheapest, which is what
`AssumptionsMattered` compares with; and `chain`, under the facts that turn out to
hold, chosen when each call runs (two mints of a batch find different states). A
fact the caller states is true; one it does not state may be either. The returned
assets of a burn are counted once per message, by the first burn, as
`takeInfusions` does. Refusals are actions of their own. `Answer` is the end of
`PlanFees`; the properties then compare `MaxGas(plan)` and `MaxData(plan)` with
`ChainBill(chain)` and with the rows the chain creates. `ChainBill` scales each
charge on its own, which is what the caveats of `FeeEstimator.h` say the chain
does, while the calculator scales the sum once. The byte readers of call arguments
are abstracted to what they yield: a count, a number of quanta, a length, or a
refusal.

### JsonRpc and OwnAnswers

Per thread, one call: `NextRequestId` (the atomic `fetch_add`), `StoreRequestId`
(the locked insertion and its eviction loop, which drops the *lowest addresses*),
the HTTP exchange, `UseRequestId` (the locked take, with "1" for an address that
is not tracked) and `ParseResponse` (`CheckResponse` and the deserializer). A
builder is a local of the method, so its address is free again when the call
returns. When the HTTP client raises (`HttpThrows`) the map entry stays behind, until
a builder is made at that address again or the cap erases the entry. `Waiting` are
the calls whose id is stored and not yet taken, `Leaked` the entries none of them
owns; `MaxLeaks` bounds how many there are at a time, because what matters about the
cap is whether it has room for these entries and for one per thread. The response
handed to a thread may be that of any request made so far.

`OwnAnswers` is what the threads may rely on, without the map, the counter or the
thread-local: ids are given once, a thread waits for one request at a time, and the
call reports the answer to its own request with the code the server gave it, refuses
an answer to another's, or says that the exchange failed. `JsonRpc` implements it
(`ImplementsOwnAnswers`) under the mapping of `Exchange`: the ids given are those
below the counter, a thread waits while its builder lives (`Asked`), and what the
last call reported is the response it consumed with the code its caller sees
(`Reported`). Storing, posting and taking the id are stutters; nothing another thread
does to the map in between may show.

### CursorPages and WholeReading

`held` is what each burned instance holds, the other variables are the locals of
`ReadInfusedAssets` and of one call of `ReadAllPages` (`cursor`, `seen`, `pages`)
with the items it has listed, and `out` the answer. The outer loop goes over the
instances; each takes two walks, fungible and non-fungible, and one query per item
after each walk (`ResolveItem`). Any query may fail and end the call (`PageFails`,
`ResolveFails`), and the cap ends it too (`PageCap`). The code pages with strings;
here a token is a number and the cursor of an honest node the last token listed, so
that pages are a partition of what remains. An honest node may be infused between
any two queries. A faulty node lists everything or nothing on each page with any
cursor, `Fresh` standing for one it has never given.

`WholeReading` is what the caller may rely on, with no pages, cursors or walks: the
call is running, has failed, or is done with a list. From an honest node the list is
*whole*: all that was held when the call began, each token once, nothing that is not
held, and of a non-fungible token an amount held at some moment of the call. From any
node, no item of a page is listed twice and no item is on a page past the cap. A call
ends once, and its list stays as it was given. `CursorPages` implements it
(`ImplementsWholeReading`): a call runs while the reader asks for pages or resolves
items (`CallState`), and the list is visible once the call is done (`Answered`).

### Confirmation

`now` is the chain's clock and `skew` the client's lead, at most `MaxSkew` either way.
`Init` is a transaction just built: its `stamp` is `DefaultExpiry`, `ExpiryWithin` or
the whole seconds of `DefaultScriptExpiration`. `Send` may be lost on the way, admitted
or refused by the chain, and answered or not; the script flow ignores which, since
`SendTransaction` never answers Rejected, and holds for three seconds when there is one
node (`Hold`). `StartPoll` is one `CheckConfirmation`, with an error object of its own
as both loops have it; the clock is read afterwards (`GiveUp`, `Sleep`), a step of its
own because time passes in a query. `WaitForTx` reads its clock before the poll instead
(`TimesOut`). The polled node lags behind the chain (`See`) and fails for a while
(`GoDown`). `WaitForConfirmation` takes a list of nodes and asks the first alone: its
index never moves, and the model has one node.

What the module takes for granted: an error of the server has a code other than 0
and a text that does not begin with "pending" or "rejected". With the code 0 of
`JsonRpcZeroCode`, `CheckConfirmation` answers Confirmed for a transaction the
node does not know.

### SecureBytes

An array is an object of the program with the fields of `SecureByteArray`; a handle
is a `SecureByteReader` or `SecureByteWriter`, which remembers its owner and the
memory it was given; a block is an allocation, with its page access and what
encryption has made of its `contents`. One action per special member and method:
`Default`, `Construct`, `MoveConstruct`, `MoveAssign`, `CopyConstruct`, `CopyAssign`
(with the private reader that a copy takes), `Destroy`, `Read`, `Write`, and `Drop` for
the handles' destructors (`UnlockReader`, `UnlockWriter` with its downgrade), each with
every page and cipher call it makes. `adapters` are the four builds: with or without
page protection, with or without encryption.

Where there is encryption, an encryption and a decryption may each fail. The class
answers both by a flag only. After a failed decryption the holder has memory that is
still encrypted and is not told (`"stuck"`); the last handle then encrypts it once more
while the flag counts one encryption, so that the secret does not come back
(`"garbled"`); a copy taken of it is as bad. `HoldersCanUse` names both, and
`OpenOnlyWhileHeld` the second.

An array may be assigned to itself. `operator=` has no guard: it frees its own memory,
opens the new block through its own reader, which leaves that page read-only, and copies
the block onto itself. What the array held is lost (`CopySelf`, `"lost"`), and in a build
with page access the process faults.

The program keeps two rules: it frees no memory that a handle still points to (what
the destructor's comment asks for; the check there is commented out), and it uses an array it has moved from only to assign
to it, to copy it or to destroy it. It may move an array while a handle is alive,
which the class allows and does not handle: the handle goes on closing the *old*
owner. `stray` is the set of the arrays whose counts say nothing of their memory
since then, and the properties are about the others; what still holds for all is in
`SecureInv`. Two faults are left without strays, and `HoldersCanUse` names them: in
a build with both adapters, the last reader's memory is encrypted while its page is
read-only; and in any build with page access, self-assignment writes to the read-only
page.

### MCFunctions: the parts without state

A behaviour is two steps: `Init` picks a kind of input, and one action per kind picks
an input of it; the invariants say what the operators answer for that input. Each
property is about one component, and an input is only ever judged by the property of
its kind.

**FeeMath, FeeWords.** `WordBits` stands for the 64 of `uint64_t`, so that every pair of
words is tried. `MulShiftHalves` is the portable branch of the `#if` in `MulShift`.
`FeeWords` states what they are meant to compute as a specification of its own
(`WordsSpec`, one step that picks two words and a shift), so that the run checks it for
four bits and `FeeMath_proofs` proves it for every even number of them.

**BigInteger, WideInts.** Words of four bits, bytes of two; `int256` has three words
and an `int64_t` two of them. Division is digit by digit with the estimate and the
correction of the code, two's complement with its guards, `intx` with both its forms.
Each operator is compared with the arithmetic of TLA+'s integers. The answers that
differ are named by operators of the two modules and excluded by the properties:

* `BigInteger`: a quotient of less than one has no words, and is neither zero nor
  equal to zero; `DivideAndModulus` of a negative dividend answers `b + rem`, so
  that `DecimalConversion(-130, 2)` is "-1.7"; `ModInverse` of a number that is 1
  modulo the other raises; `ModPow(x, 0, 1)` is 1; zero shifted by a whole word is
  not zero; decimal texts with more decimals than asked are cut from the *end of the
  text*, so that a line end counts as digits.
* `WideInts`: `x *= x` is 0 (`Int256Impl.h:356`, the product is cleared before the
  operand is read); the square root of a large number; a reader that is strict about
  length accepts a longer negative `intx` (`:125`) and a reserved bit (`:99`);
  `intx::FromString` ignores its length argument for short texts;
  `uint256::FromString` reads decimal in any radix (`:269`); a division by zero never
  ends and is not among the inputs.

**JsonText, JsonBuilder.** There is no tree in the code: a value is the text from its
first character on, and each lookup scans again. So is it here, symbol by symbol,
over documents of two levels, with and without blanks, and over every text of three
symbols. `JsonIsRead` says where the scanners end and what the lookups find; arrays
of `true`, `false` and `null` are excluded, whose elements the two array functions
do not count. A string is read up to its first quote and escapes are left as they
are. A text that ends within an object sets no error, which is why the property of
arbitrary texts is that every scan advances.

**RpcReadings, RpcRecords, RpcArguments, RpcMethods.** A record is the table of its
members in the order its deserializer reads them, with the reading of each. The
inputs are whole answers, and answers with one member left out or given another
shape. `RecordsAreRead` is about what the members then hold, `EventsAreTotal` about
payloads that must not fail the answer, `CallsAreHonest` about the methods: what the
request says, what is posted, and what a caller holds when no error is reported. A
caller that passes an error object with an earlier code gets its request posted and
the answer unread; the property says so by "held no error before".

**CarbonWire, CarbonMessages, CarbonRecords, VmData.** An image is the sequence of
words a writer put, each with its width, so that a reader counts bytes and notices
a word read with another width than it was written with. The Write and the Read of
a type are given separately, as the source gives them. Images are cut at every byte
and followed by another word. The build is one whose `PHANTASMA_EXCEPTION` throws.
Not among the samples: an array of structs whose own schema and the reader's both
have no fields (nothing is written for it where its reader expects a schema). A null
`Dynamic` reads back as an empty array, which `Expected` says.

**TextCodes.** Characters are their place in the alphabet. Base58 has six letters for
eight byte values, so that its numbers fit the integers of TLC. All-zero bytes gain
a zero in Base58, which the property names. A buffer of no bytes for an odd
hexadecimal text is no input: `Base16.h:133-147` writes the first byte before it looks
at the room.

**TokenMetadata, TokenBuilders.** A value the caller gives has a kind and a value; the
integers of 8, 16, 32, 64 and 256 bits have 2 to 6 here. Both builds are inputs
(`Throws`): where `PHANTASMA_EXCEPTION` does nothing the code goes on after it, and
what follows is part of the operator. What the properties name, or the samples
leave out, as the code has it: text that is no hexadecimal but of even length becomes *empty*
bytes in the default build (`TokenImages!TakenForNone`; `Base16::Decode` answers no
bytes and `DecodeHex` answers true), although `TokenSchemas.h:349-352` says that every
helper answers false there (the test at `metadata_tests.cpp:80-88` tries an odd
length); `DecodeHex` takes a second "0x" for a byte; royalties of 2^31 and more are
refused although the field is unsigned; a schema field of type Struct or Array
passes `Verify` though nothing can be minted with it; metadata the schema does not
name is ignored at the top level and refused in a nested struct; a standard NFT made
with shared schemas has none of the texts; negative supplies are accepted.

**VmObjects, VmScripts.** A byte has six bits, a hash three bytes and an address five,
which keeps the lengths the code tells apart apart; a jump target has two bytes, so
that both limits (`MaxJumpTarget`, `MaxCallTarget`) are reached by short scripts. A
script is judged by running it: `ScriptImages` decodes the instructions and the
stack, and asks that a call finds its arguments in their order, an array its
elements, and a jump its label. Both builds are inputs. What the properties name and
leave out: a text with a zero byte loses the rest when it is read; the children of
a struct may be of unknown types; a first element of type None leaves the type of an
array open (`VMObject.h:568-571` says all have the same type); bytes of an object's
length that are no address raise in one build and are bytes in the other; `==` on
structs with a key twice is not symmetric; a negative enum is written without its
value; `EmitLeft` and `EmitRight` without exceptions write any length; the loop over
a struct's children goes on after an error where nothing is raised, for a count that
may never have been set, and answers false after it, where `Children` answers at
once. A transaction cut inside its signatures reads as unsigned where exceptions are
on. In the default build it reads as one with as many signatures as were announced:
those in the bytes are whole, the next is padded with zeros and the others are of no
kind (`CutSignatures`), and all that tells is the error in the reader its caller passed.
If fewer bytes are left than signatures are announced it reads as unsigned in both
builds, with no error at all. The overload `Unserialize(Byte*, int)`
(`Transaction.h:38-42`) makes its own reader and drops it, so that its caller is not
told; it cannot be instantiated with the library's `BinaryReader`, which has no
constructor from a pointer and a length.

The `map` of `PROJECT.json` names, for each range of the source, the operators that
stand for it. A helper inside a range that another operator already stands for is not
listed apart.

## 3. Runs

Every run that passes terminates with the whole state space explored.

| Run | Bounds | Shows |
|---|---|---|
| `ChainFeePlanner` | TTL 2, time to 3, two config changes, one infusion, one step of the clock each way | `PlannerInv`, `ConfigIsRecent`, `ForgottenStaysForgotten`, `InfusionsReadInCall`. A config can expire, be superseded twice while held, and be read across a step of the clock; one more of each adds no new order |
| `CarbonSend` | all six kinds of message, all signer lists of the interesting shapes, a stated count of none or two, two calls, one config change, two infusions | `SendInv`, `CreationWasChecked`, `FixedWitnessesAreRight`, `AbortHasACause`, `ImplementsOncePayment`. Two calls are a call and its retry; one change of the config is enough for a plan to be stale; two infusions tell "more than read" from "some" |
| `CarbonSendFree` | the same without infusions | violated: see findings |
| `FeePlan` | batches of two calls, counts 0..2, two row sizes, lengths to one past the maximum, one returned asset, four callers (states nothing, everything, all but `romHasMetaId`, what a wallet knows), a multiplier of 3/2 that rounds | `BillCovered`, `EscrowCovered`, `ExactIsTheBill`, `PlanInv`. Two calls are enough for every pair of operations to offset each other |
| `FeePlanBound` | the same without rounding | violated: see findings |
| `JsonRpc` | two threads, three addresses, cap 3, one entry left behind at a time, four requests | `AcceptedIsMine`, `ServerErrorIsReported`, `MatchInv`, `ImplementsOwnAnswers`. Three addresses for two threads let one leak, be reused, be erased at the cap and be passed over; the cap is reached, and is the entries left behind and one per thread: its least sound value |
| `JsonRpcEvicted` | the same with two entries left behind | violated: the cap erases the entry of a call that waits |
| `JsonRpcZeroCode` | cap 4, an error code 0 | violated: see findings |
| `CursorPages` | two instances, three fungible tokens and a non-fungible one, pages of two, a cap of two pages, one infusion meanwhile | `WalkInv` (which has `AsksOnce` as a conjunct), `TheWholeListOnce`, `Returns`, `ImplementsWholeReading`. Three tokens take two pages, or three when the node lists one at a time, and then the cap cuts the list short; the second instance shows that the locals of a walk are its own |
| `Confirmation` | two ticks a second, clocks up to a second apart either way (half seconds included), lifetime 3 s, window 4 s, margins 1 and 2 s, a tool timeout of 2 s, two seconds to the send | `ConfirmationInv`, `FinalIsTheChains`, `LateIsSoon`, `RefusedHasACause`, `WaitEnds`, `EndlessDecides`. The constants keep the order of the code's (5 < 10 < 30 < 45 < 60 s), and time runs until every deadline has passed |
| `SecureBytes` | two arrays, three handles, three blocks, counts to 2, the four builds (114 710 states up to the symmetry of arrays, handles and blocks) | `SecureInv`, `OpenOnlyWhileHeld`, `HoldersCanUse`. Two arrays are the two sides of a copy or a move; three blocks let both live while a copy allocates; three handles are a writer between two readers |
| `Functions` | words of four bits; numbers of up to three words, at and around every edge; documents of two levels; every record, event, call and method with one member bent; every message with lists of up to two; byte strings of up to four; scripts of up to three calls; schemas with one field more or wrong | `FeesAreExact` and the nine properties of `MCFunctions`. 142 088 inputs. Four bits have both halves of a half-word product, every carry and clamp, and a correction of a quotient digit; two elements tell order and separators; one bent member is where each reader decides |

`CHECK_DEADLOCK FALSE` stands in every cfg: every model stops at its bounds, and a
client that has finished does stop. TLC prints "CostModel lookup failed" for some
operators of `Functions`; it concerns its statistics alone.

### What the violated runs show

* `FeePlanBound` / `PlanIsUpperBound`. `FeePlan.h:94-95` says a plan that states
  nothing is an upper bound. `romHasMetaId` defaults to true, which on a *burn*
  deletes one more quantum; in a batch that also creates rows, that deletion is
  netted against the creations, and the bill of the plan is below the chain's when
  the ROM has no meta id. For one operation alone the default is the costly one.
* `CarbonSendFree` / `FreeIsTheChains`. `Preflight.h:27-28` says that `Free` is the
  chain's answer and not a broken connection. Any error of the symbol lookup is
  read as "no such token", and a control lookup a moment later only shows that the
  node is back.
* `JsonRpcEvicted` / `AcceptedIsMine`. With the map at its cap, the loop drops the lowest
  addresses, which may be those of builders that are alive while entries of calls that
  raised stay; the id it then compares with is "1", which the response to the first
  request of the process carries. The default cap is large; a build may set it.
* `JsonRpcZeroCode` / `ServerErrorIsReported`. An error object whose code is 0 or
  absent leaves the caller's error code 0; a method that returns a string then
  reports success with an empty string.

## 4. Proofs

A component's theorems are in the module named after it with `_proofs`, which
EXTENDS the component and TLAPS. Each theorem is for every value of the constants
that the ASSUMEs of its module allow: any number of threads, arrays, tokens, calls,
any word width, any bound on time.

| Module | Theorems | Say |
|---|---|---|
| `ChainFeePlanner_proofs` | `PlannerInvariant`, `PlannerTypeOK`, `CachedConfigIsRecent`, `InvalidateIsFinal`, `PlanReadsInfusionsAnew` | `PlannerInv`, and `ConfigIsRecent`, `ForgottenStaysForgotten`, `InfusionsReadInCall` from it |
| `CarbonSend_proofs` | `SendInvariant`, `SendTypeOK`, `CreationsAreChecked`, `FixedWitnesses`, `AbortsHaveACause`, `PaymentIsMadeOnce` | `SendInv`, the four properties of the run, the last of them the refinement: `Spec => OncePayment`'s specification under the mapping |
| `FeePlan_proofs` | `PlanInvariant`, `PlanTypeOK`, `OfferCoversBill`, `CeilingCoversEscrow`, `ExactPlansAreTheBill` | `PlanInv`, `BillCovered`, `EscrowCovered`, `ExactIsTheBill`: every config, both gas models, every width, every batch |
| `FeeMath_proofs` | `FeesAreExactForEveryWidth` | `FeesAreExact` on words of every even width, the 64 bits of the code among them |
| `JsonRpc_proofs` | `MatchInvariant`, `OnlyMyResponse`, `MyResponseIsTaken`, `ErrorsAreReported`, `AnswersAreOwn` | `MatchInv` and `AcceptedIsMine`, assuming `FewLeaks`; `MineIsAccepted` and `ServerErrorIsReported`, assuming `CodesAreOwn` too; the refinement of `OwnAnswers`, assuming that no error has the code 0 |
| `CursorPages_proofs` | `WalkInvariant`, `AnswersAreWhole`, `WalksAskOnce`, `ReadsAreWhole`, `EachStepIsNearer` | `WalkInv`, `TheWholeListOnce`, `AsksOnce` and the refinement of `WholeReading`: every node, page size, cap and set of tokens; and the rank behind `Returns`, for finitely many tokens |
| `Confirmation_proofs` | `ConfirmationInvariant`, `FinalAnswers`, `LateExecutions`, `RefusalsHaveACause`, `OverdueClientsReturn` | the four invariants of the run, for every lifetime, window, margin, timeout and skew; and that a client past its deadline has at most four steps left, which is what `WaitEnds` rests on |
| `SecureBytes_proofs` | `SecureInvariant`, `MemoryIsClosed`, `HoldersAreServed` | `SecureInv`, `OpenOnlyWhileHeld`, `HoldersCanUse`, in every build |

**Assumptions.** The ASSUMEs of the modules, which TLC evaluates in the runs. Some are
worth a word. `WordAssumption` and `ConfigAssumption` say that the powers of two in use
are positive numbers, since the provers know nothing of exponentiation;
`PowersAssumption` says besides that a word has two halves and that the powers of two up
to a word's multiply as they do. `FewLeaks` (no cap, or one with room for the entries
left behind and for one per thread) is what `AcceptedIsMine` needs: `JsonRpcEvicted`
shows it fail with one entry more. Of a program whose HTTP client never raises it asks
that no more threads call than the cap, 4096 unless a build sets another; of one whose
client raises, that the entries left behind stay below the cap by the number of threads,
which nothing in the code sees to. `ThreadsAssumption` has finitely many threads.
`CodesAreOwn` (the server's error codes are neither 0 nor the one the client gives to a
response it cannot read) is what `ServerErrorIsReported` needs: `JsonRpcZeroCode` shows
it fail with a 0. `HandlesAssumption` has finitely many handles at a time, so that a
count of them is a number.

**Arguments.**

* *ChainFeePlanner.* "The config is recent" is not inductive: it says nothing of the
  object between calls. The strengthening says what the fields mean at every
  moment: the held config was the chain's at `m_fetchedAt - fwd` or later
  (`HeldConfigInv`), and `m_fetchedAt <= now + fwd`; the locals of a call carry the
  same fact forward (`CallStarted`, `CallConfigured`, `CallInfused`). When a call
  finds `NowMs - m_fetchedAt < TTL`, the two give the age bound; when it reads, the
  chain held the config at or after the call's start. Time, governance and clock
  steps keep it, because a config is only ever superseded now.
* *CarbonSend.* `SendInv` is `CallInv`, `SendsInv` and `ChainInv`. The first says what a
  call knows at each block: past the pre-flight of a creation a lookup has answered,
  past the plan the offer is the one its config and its read give. The second ties a
  retry to what was sent before: a retry has the options of its call, so that where
  no infusion can change the offer its envelope is equal to the earlier one. The
  third says that the chain holds only what was sent and executes it at most once.
  Equal envelopes are one transaction, so at most one of a call's is carried out.
  Each step then maps to `Call`, to `CarryOut` or to a stutter of `OncePayment`.
* *JsonRpc.* A live builder is tracked with the id of its own request (`LiveIsTracked`).
  What is tracked is what raised calls have left, at most `MaxLeaks` entries
  (`LeakedFew`), and one entry for each call that waits; the call that stores does not
  wait yet, so fewer than the cap are tracked (`NothingMoreIsLeft`, `OwnedAreFew`) and
  the eviction loop erases nothing (`NothingIsErased`). Live builders have different
  addresses, so another thread's store or take touches another entry; hence the id taken
  is the id sent, and `CheckResponse` lets no other pass and lets this one pass. That is
  `IdsInv`; `AnswersAreTheServers`, the other half of `MatchInv`, says what a call holds
  at each of its steps: an id that was given, an answer of the server to some request,
  no response if the exchange failed. `ReportInv` keeps that what is reported is the
  call's own response, with its error where it has one. For the refinement, a step that
  changes neither what a thread asked nor what it reported is a stutter (`Unseen`), and
  a step that ends a call ends it in `OwnAnswers` with the same reply (`CallEnds`); the
  one that matters is `ParseResponse`, where the expected id is the call's own and the
  code is the server's.
* *FeePlan.* The totals of the plan dominate those of the chain, field by field
  (`Dominates`), for each operation model and so for their sum; what a burn deletes
  is the exception, so `DeletedCovered` and `BurnsShrink` say when the deletions of
  the plan are at most the chain's and when the net growth is zero on both sides.
  From there `NetQuanta`, `BlockData` and the bill are monotone, and scaling a sum
  once is at least scaling the parts. The ceiling counts gross rows, so it needs domination alone.
  `WorkFits` (unscaled work below the word) is a hypothesis of `BillCovered`: past
  it the calculator saturates the sum before it scales it.
* *An exact plan.* `ExactIsTheBill` needs the bill from the other side. `CheapCovered`
  says that the cheapest reading, which `AssumptionsMattered` compares with, counts no
  more than the chain: what the chain counts lies between two readings
  (`ReadingsBracket`), and a plan that calls itself exact has the same gas under both.
  What remains is rounding. Each charge the chain scales on its own loses less than one
  (`UnclampedLosesLess`), and there is one for each transfer and query and two more, so
  that the sum scaled at once is at most that much above them (`ScaledNearCharges`). Here too the
  work must fit a word: work that is clamped before it is scaled by less than one is
  quoted below the bill (a multiplier of 1/2 on words of four bits shows it).
* *FeeMath.* The portable `MulShift` builds the double word out of four products of
  half words. `CarryIsMiddle` finds the carry of the middle sum, `WordsAreTheProduct`
  that the high and the low word together are the product, `ProductShifted` that
  taking bits from both is a shift of the double word; the two branches of the `#if`
  then agree for every shift, those past the word included (`BothBuildsAgree`). The
  other parts (`SumSaturates`, `ProductSaturates`, `ScalingTogether`, `QuantaHold`,
  `ShiftsAreNarrow`) are divisions with their remainders written out.
* *CursorPages.* `AsksOnce` alone is not inductive: what a page adds to `seen` must be
  what has been asked for. `SeenIsAsked` says that the list is the cursors asked for and
  the next one; a cursor outside it is then one nobody asked for. For
  `TheWholeListOnce`, `WalkInv` adds where an honest walk stands: what it has listed is
  what the instance holds up to its cursor, no more (`ListedIsPast`), no less
  (`PastIsListed`) and once (`ListedOnce`); an infusion only adds to what is held
  (`HeldGrows`). The refinement has to say of a faulty node's list that it holds no
  place twice: `PlacesInv` keeps that the items listed are those the reader is past
  (`Resolved`) and that the ones still to resolve are on pages it has read. Then only an
  infusion, a failure and the step that reads the last of it (`CallIsAnswered`) show in
  `WholeReading`; the rest are stutters (`CallGoesOn`). `Returns` itself is temporal,
  but what it rests on is not: the walks, pages and items that are left are natural
  numbers while the call runs, each step of the reader lowers the first of them that it
  changes, or ends the call, and a step of the others changes none (`EachStepIsNearer`).
  No node can put the end off; TLC has only to add that the reader runs.
* *Confirmation.* What the node knows of an execution is past (`ViewIsPast`), and so
  is what a poll answered while it waits for the clock (`AnswerIsPast`); an
  execution is never undone. `GaveUpInTime` keeps the reason of an undecided answer,
  and `TimesAgree` that an execution is before the expiry. The bound of `LateIsSoon`
  is then arithmetic: the wait compares whole seconds, a script expiry is a whole
  second (`ScriptSeconds`), and `WholeSeconds` turns "seconds of the clock + m >
  seconds of the expiry" into ticks: one second less than the margin.
  `OverdueClientsReturn` is the part of `WaitEnds` that is not temporal: once the
  transaction has expired on the client's clock (`ExpiredIsNear`: every margin is at
  least a second, and whole seconds are monotone) or the tool's time is over, no
  poll leads to another, so each step of the client is one of four at most.
* *SecureBytes.* A block has one owner (`OwnedOnce`) and a handle points into the block
  it was given (`HandlesPoint`). The counts of an array cover the handles of it
  (`CountsCover`) and are equal to them where no stray interferes (`CountsMatch`), by
  cardinalities of the sets of its readers and writers. `CipherAgrees` relates contents
  to the encrypted flag, as far as contents are not beyond it, and holds for strays too;
  `KeptOrStray` says that the page is what the counts say, and that held memory has been
  through a decryption and idle memory through an encryption, unless the counts are a
  stray's that have outlived their memory; `SealedByCipher` that only a build with a
  cipher has contents a decryption may fail on. `FaultHasACause` leaves two ways
  for the class to find a page closed to it without strays: the read-only page of the
  build with both adapters, and that of an array assigned to itself. All copies share
  `FillKeeps`, all handles that go share `DropKeeps`.

**Model-checked only.** The liveness properties `Returns`, `WaitEnds` and
`EndlessDecides` (of the first two, `EachStepIsNearer` and `OverdueClientsReturn` prove
all but the fairness); the nine properties of `MCFunctions`; what the violated runs
refute.

**Out of the prover's reach.** Liveness and ENABLED; induction over data, which is what
each property of `MCFunctions` would need for inputs of any length (`FoldLeft` over
a text, a recursive descent into a value); RECURSIVE operators, which only modules
of the run `Functions` have, so that no module with a theorem reaches one. `tlapm`
may print that an executable `isabelle-process` is not found; no proof asks for it.

### Fairness

`ChainFeePlanner`, `CarbonSend`, `OncePayment`, `JsonRpc`, `OwnAnswers`, `WholeReading`, `FeePlan`,
`SecureBytes` and `MCFunctions` state none: their properties are safety properties. `CursorPages` has
weak fairness of the reader: its thread runs, and every query is answered or fails
(the HTTP client is the application's; the curl adapter sets no timeout, so a node
that holds a connection open for ever is outside the model). The node and the other
accounts have none. `Confirmation` has weak fairness of the client, for the same
reason, of time, and of the polled node's catching up with its chain (`See`).
Nothing is assumed of the chain, which may execute the transaction or drop it, nor
of the node's failures; `EndlessDecides` states "once the node stays up" as a
hypothesis of its own.

## 5. Not modelled

* *Cryptography, adapters.* Hashes, signatures and entropy are library calls whose
  results no property tells apart; the adapters bind third-party libraries. Their
  page and cipher functions are the `adapters` of `SecureBytes`.
* *Wallet sample.* A console around calls that are modelled. Its own balance walk
  (`WalletSample/program.cpp:253`) has neither a list of seen cursors nor a cap, and
  the mutant of `Returns` is this walk.
* *The curl buffer, and the rapidjson and cpprest forms of the JSON reader.* The
  built-in reader is the one modelled; the others delegate to their libraries.
* *`SecureVector`, `SecureString`, `SecureAllocator`, the arena of `Alloc.h`.* A growing
  vector that pins its pages, a string over it, a bump allocator.
* *`Event::Unserialize`* calls readers with no arguments, which no overload has: it
  cannot be instantiated.
* *`FeePlanSummary`, the byte readers of call arguments* in the planner (abstracted to
  what they yield or refuse), *the refusals of the SignAndSend helpers, the
  configuration files of the tool.*

Six hazards are listed without a property, because the code promises nothing there:
a creation inside a `Call_Multi` is not checked for its symbol (`Preflight.h:44`, in
the model as `createBatch`); a caller that reads the config anew before it retries
may pay twice (`Send.h:40`, against the advice there); a stated witness count is not
compared with the signers (`Send.h:90`); the wallet's walk; the poll loop that
only ever asks its first node (`RpcUtils.h:55`); and the number of a struct's children,
which the default build may take for one that was never read (`VMObject.h:719`).

What would come next: `SecureVector` and `SecureString` beside `SecureBytes`.
