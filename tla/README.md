# A verification of the æternity application for Ledger devices

TLA+ models of the program in `src/` (C, for the Ledger Nano S and X), checked
with TLC on small instances, and theorems about them proved with TLAPS. Paths
below are those of the repository; `src/signTransaction.c:117` is line 117 of
that file.

## The program

A host sends commands (APDUs) over USB or Bluetooth; the application answers
each, some only after the user has walked through screens and pressed both
buttons on one that approves or rejects.

| component | code | state | operations |
|---|---|---|---|
| main loop and dispatch | `src/main.c` | `flags`, `tx` (a reply in the buffer), the APDU buffer | `sample_main`, `handleApdu`, `main` with its restart after a transport reset, `io_event` |
| SIGN TRANSACTION | `src/signTransaction.c`, `src/blake2b.c` | account, bytes still to come, network id, running digest, four display buffers, type | first block, further blocks, approve, reject |
| parsing for display | `src/utils.c` `parseTx` and what it calls | none of its own; writes the display buffers | one pass over the first block |
| SIGN PERSONAL MESSAGE | `src/signMessage.c` | copy of the message for the screen, account, pointer and length into the APDU buffer | one block, approve, reject |
| GET ADDRESS | `src/getAddress.c` | address buffer | answer at once, or approve, reject |
| menus and settings | `src/menu.c`, `src/globals.c` | `N_storage` in flash, copies in RAM | settings menus, quit |
| replies of screens | `src/utils.c` `sendResponse` | APDU buffer, screen | reply, then idle screen |
| amounts, addresses, 256-bit integers | `src/utils.c`, `src/uint256.c` | none | pure functions |
| keys and signatures | `src/utils.c` `getPrivateKey`, `getPublicKey`, `sign` | none | calls of the operating system |
| host scripts | `examples/` | none | one command, one answer |

How they interact. The program is one thread. `sample_main` calls
`io_exchange`, which sends the reply that stands in the buffer (unless
`IO_ASYNCH_REPLY` is set), waits for a command, and meanwhile handles events:
so a button press runs its callback *inside* `io_exchange`, and a screen that
approves calls `io_exchange` again, from within, to send its own reply. A
handler either throws (0x9000 is an exception too), and the exception becomes
the reply, or it opens a screen, sets `IO_ASYNCH_REPLY` and returns.
Everything is static: what one command leaves in digest, buffers and counters
is there for the next.

What is hard, and what must hold nonetheless:

* A transaction is streamed in blocks and hashed as it comes; it is shown from
  the first block only. Digest, counter, account, network id and texts must be
  those of one transaction, whatever the host sent before, in between, or
  after a refusal (`ShownIsHashed`, `ShownIsSigned`, `WholeTransactionSigned`).
* The bytes are counted down in an unsigned counter; the review opens at zero
  (`ReviewIsComplete`).
* The parser's own count of bytes is a `uint16_t` from which too little is
  subtracted, heads may be read behind the block, and a refusal may come after
  some buffers were overwritten (`ParsesLayout` for the bytes, `ShownIsHashed`
  for every history of blocks).
* Replies leave in two ways, and resets or failing callbacks come in between
  (`OneReplyPerCommand`, `OwedReplyOnShow`, `NoStrayScreen`, `Answered`).
* The message to sign is kept as a pointer into the APDU buffer
  (`ReplyMatchesCommand`).
* Settings must survive power losses at any point, and the answer about them
  must be the user's choice although RAM copies are stale (`SettingsKept`,
  `ReplyMatchesCommand`).
* An address is divided out in place and written from the end of a buffer whose
  index is an unsigned char (`IndicesInside`, `NoZeroInFront`, `AddressIsKey`,
  `AddressFits`).
* An amount is written over the last one, its zeros cut off by terminators put
  into the text, and a failure to write it is not noticed (`ShowsAmount`,
  `FillsAtMost`).
* Its digits come from a division put together of words and halves, with
  carries, borrows and shifts across them, whose loop has no bound of its own
  (`SumsWrap`, `ShiftsMove`, `DividesNumbers`, `DivisionEnds`, `PrintsNumber`).

The complete list, each at its line, is under "hazards" in `PROJECT.json`.

## The modules

| module | models | extends |
|---|---|---|
| `Globals` | the screen, the outcome of a handler (exception or screen), `sendResponse` | |
| `ParseTx` | `parseTx` as a function of layout and size of the first block | |
| `ParseBytes` | `parseTx`, `rlpCanDecode`, `rlpDecodeLength` and the header on bytes, one step per head and field | `ParseTx` |
| `SignTransaction` | `handleSign`, its flow, `singAndSend` | `Globals`, `ParseTx` |
| `Signer` | what a signing device promises (abstract) | |
| `SignMessage`, `GetAddress`, `Menu` | the other handlers, their flows, settings | `Globals` |
| `App` | everything: main loop, host, user, resets, restarts | `SignTransaction`, `SignMessage`, `GetAddress`, `Menu` |
| `Device` | what the application promises to its host and its user (abstract) | |
| `Uint256` | the operators of `uint256.c` on words of any width | |
| `ToString` | `tostring128`, `tostring256` and the divisions they call, one step per turn of a loop | `Uint256` |
| `LongDivision` | shift-and-subtract division of natural numbers (abstract) | |
| `AmountText` | `rlpParseInt`, `adjustDecimals`: amounts written one over the other | |
| `Base58` | `encodeBase58`, `getAeEncodedString`, one step per byte of a division | |
| `MCLayouts`, `MCSignTransaction`, `MCApp`, `MCParseBytes`, `MCDisplay`, `MCNumbers` | instances for TLC | |
| `SignTransaction_proofs`, `Signer_proofs`, `App_proofs`, `ParseBytes_proofs`, `AmountText_proofs`, `LongDivision_proofs`, `ToString_proofs`, `Base58_proofs` | theorems | the module they are named after, `TLAPS`; `Signer_proofs` builds on `SignTransaction_proofs`, `App_proofs` on `Signer_proofs` |

### Globals

`ux` is the flow on show with the step it stands at, and the furthest step the
user has seen. `result` and `answer` are what the last handler or callback
answered: `Throw(sw)` for an exception, `Reply(data)` for data and 0x9000,
`Confirm(flow)` for a screen that answers later, `SendResponse` for that
answer, `CallbackThrows` for an exception out of a callback (`main.c:143-163`).
`pending` remembers that a screen was opened and has not answered; it is not a
variable of the code and no action of the code reads it. It is read by the
host alone: in `SignTransaction` the host does not send while an answer is
owed (in `App` that is the host's own variable `asked`).

### ParseTx

A transaction is represented by its layout: for each field of a spend, the
offsets at which its head, its body and its end lie, and the length that its
head announces. `LayoutAssumption` says what an RLP list of such fields looks
like. `DataLength` is the value of the `uint16_t` at a field's head,
`Uncounted` the bytes it is too large by, `Refused` the check on it together
with what `readRecipient` and `rlpParseInt` refuse, `Reached` the fields
handled before the first refusal. Two things come from bytes behind the block:
a field whose head lies there (possible only within a run of one-byte fields,
whose length is not checked), and a text that goes on there. For the first,
`stray` is the position of the last field that decodes from there (`Strays`);
for both, the text shown is `Garbled`. `Intact` says when a text is the
field's value.

### ParseBytes

The same from the bytes: `ReadHeader` reads account number, declared length
and network id, `Decode` one head, `ReadList` checks the list and reads the
type, and `ReadRecipient`, `ParseInt`, `SkipInt`, `ReadPayload`, `RefuseField`
are the cases of the loop in `parseTx`. `data` is the read position,
`dataLength` the `uint16_t`, `shown` says from which offset a buffer was filled
and with how many bytes (the text of a payload ends at a zero byte, or after 79
characters). `At` gives the bytes behind the block too: the rest of the
transaction left over from a longer command, or any other bytes. `ParsesLayout`
is what makes `ParseTx` a faithful abbreviation of it. A head that announces
more than four bytes of length (`bc` to `bf`, `fc` to `ff`) is `Overrun`: its
bytes are collected beyond the five of `buffer` before it is refused, so the
model ends there ("undefined"). No head of an encoding is one, but a byte left
over behind the block may be.

`CommandsAssumption` and `EncodingAssumption` say what is sent and what the
bytes of a layout are: a command has a whole header and, behind it, more of the
transaction than the head of its list; heads are those of RLP, a field is
refused for its content just if the layout says so, and payloads have no zero
byte (at which the screen would end them).

Not modelled in either: encodings that are not a list of a spend's fields (the
host signs those at his own expense: they are no transactions), lists longer
than 65535 bytes, first blocks too short to hold head and type of the list, and
what follows an `Overrun`, which depends on the layout of the stack.

### SignTransaction

One action per branch of `handleSign`: `FirstBlockRefused`,
`FirstBlockAccepted`, `NetworkIdTooLong`, `MoreBlock`, `MoreBlockThrows`,
`OtherP1`; then the last two screens: `SingAndSend`, `SingAndSendThrows`,
`SingInterrupted` (the transport is reset inside `sendResponse`),
`RejectTransaction`; paging, reset and relaunch. The assignments keep the
code's order where it can be told: a refused first block has already reset the
digest and set account, network id, counter and some buffers.

The digest is a record: whose bytes were fed, how many, and whether bytes of
another origin were among them. What BLAKE2b does when it is fed after its end
is left open: it throws, or it goes on and its result is no digest of any
transaction. `session` is not in the code: it remembers what the host streamed
since the last first block, so that properties can compare.

`HostFollowsProtocol` chooses between a host that streams transactions as they
are (it may abandon one at any point and start another) and a host that sends
blocks of any size, any declared length, any order, with bytes that are not of
the transaction. `Faults` lets key derivation and signing throw.

### App

`pc` is where `main` is: not running, about to call `io_exchange`, inside it.
`flags` and `staged` (`tx` is not zero) decide what `Exchange` sends.
A command received and handled is one step, because no event is handled
outside `io_exchange`. `buffer` is the message whose bytes the APDU buffer
holds, from which the message is signed. `asked` and `inbox` are the host's:
the command it waits for, the answer that just arrived. `chosen` remembers the
settings the user chose.

Assumptions on what is outside the repository: the host sends one command and
waits for its answer (`examples/base.py`, `sendApdu`); `io_exchange` handles
events only while it waits; flows and lists do not wrap around; a reply sent
while no command waits reaches the host nonetheless; GET ADDRESS has at least
four bytes of data. So no command arrives under an open review, not even from
"any host": what the SDK would do with one is not in the repository, and the
hazards at `src/main.c:127` and `src/signMessage.c:96` are without a property.

A message is handled by its size: `MessageLength` is the `uint16_t` that is left
behind account and length, and wraps around for blocks of less than eight bytes
(`messageShort`), which must be refused all the same. Messages have no zero
byte: the screen shows the copy that `snprintf` makes up to the first one, while
all bytes are signed.

### Device

What all commands together come to for those outside: a request is told something
at once, or puts something on offer and is answered with what goes with that offer
if the user approves, with a rejection if not. `Told` and `Deals` say which
replies and which offers a request may have; `App` gives them as `ToldTo` and
`DealsOn`. In `App!Promise` the request is `asked`, the reply `inbox`, the
settings `chosen`, and the offer is read off the screen (`OnOffer`): the address,
the text of the message, or the order of a transaction (`Seen`). The deal of a
message has the length of the signed bytes modulo 256 (`Mod8`), as the code
counts it, and that of a transaction has a digest of all of it. `Deals` does not
say which transaction a `sign` request means, since the host's blocks before it
do; that the digest is of that one is `WholeTransactionSigned` and `ShownIsSigned`.

### Signer

An order is offered, then approved or withdrawn; only an order on offer is
signed, and the signature is collected before the next is offered.
`SignTransaction!Abstract` maps what the review stands for to `offer` and what
the host can verify to `signed`. For a spend `offer` is what its screens show.
For other transactions, of which the screens show nothing (`sign_other`), it is
the transaction that was streamed (`Offered`).

### Uint256, ToString, LongDivision

`Uint256` has an operator for each function of `uint256.c`, with a word of
`ByteBits * WordBytes` bits in place of 64: every carry, borrow, case of a
shift and column of a product is there. `ToString` prints a number: a step is
one test of a loop, and the part up to the next test. Both widths are in one
module, because the two functions differ in nothing but the operators they call.
`LongDivision` is the same division on natural numbers, with `copyd` and
`adder` as the divisor and one at a place; `ToString!DividesNumbers` states
that the division on words implements it, and `ToString_proofs` proves it.

The terminator of the text is left out: `tostring256` writes it behind the digits
without a check of its own, so with exactly `outLength` of them it would lie
one byte behind the room. An amount has at most 78 digits (`AmountsArePrinted`)
in a room of 80.

### AmountText

`target` is the static buffer of an amount or a fee. `rlpParseInt` prints one
amount into it, over the text of the last; `Pointed` places the point and zeros
in front, `Cut` finds where the zeros at the end begin, `Write` is the copy with
its `Terminators`. If `RoomNeeded` is not there nothing is written and nobody
is told. The digits are as `ToString` leaves them; `buffer` ranges over buffers
with length, number of decimals and possible amounts.

### Base58

`tmp` is divided by 58 in place, `DivideByte` a byte at a time, `PutDigit` at the
end of each pass; `SkipZeros`, `PutZero` and `Return` are the rest. `j` is the
unsigned char that points into the buffer of 164 bytes, `text` what stands from
there on. `DecodesTo` is the other direction: a text is read digit by digit, each
time 58 times the bytes so far and the digit, byte by byte. SHA-256 belongs to the operating system: the checksum is any four bytes.

## What is checked

| run | question | instance |
|---|---|---|
| `sign_any_host` | `TypeOK`, `ReviewIsComplete`, `ShownIsHashed`, `ShownIsSigned` for an arbitrary host, with faults | two spends of 82 and 83 bytes whose ends differ, blocks of 0, 74, 82, 83 bytes, two declared lengths, two accounts |
| `sign_host` | `WholeTransactionSigned`, `ReviewAwaited`, and `SignsOnlyOffers`: the abstract signer is implemented, by a host that follows the protocol | six transactions: two short ones, long payload, too long for one block, contract recipient, not a spend; two accounts, two network ids |
| `app_safety` | `AppTypeOK`, `NoStrayScreen`, `SettingsKept`, `OneReplyPerCommand`, `ReplyMatchesCommand`, and `ActsAsDevice`: the abstract device is implemented | all commands, two accounts, all settings, one transaction, one message |
| `app_faults` | `OwedReplyOnShow`, `ReplyMatchesCommand` with failing callbacks that leave screens behind | two accounts, two transactions (one is refused), settings untouched |
| `app_live` | `Answered` under `FairAppSpec`, with failing callbacks | one account, one transaction, settings untouched |
| `parse_bytes` | `ParsesLayout`: parsing the bytes comes to what `ParseTx` says of the layout | the encodings of nine transactions (one-byte fields with and without heads, integers of 32 and 33 bytes, short, long and empty payloads, a contract recipient, not a spend), cut at 42 sizes, declared length right, one less, or zero, two network ids, seven kinds of bytes behind the block, among them heads of several bytes and one that overruns |
| `display` | `EncodeTypeOK`, `IndicesInside`, `NoZeroInFront`, `AddressIsKey`, `AddressFits`; `ShowsAmount`, `FillsAtMost` | keys of 36 bytes with up to 36 leading zeros, and bytes at and next to multiples of 58; every amount of up to seven digits 0 and 7 with two decimals, and with eighteen those of 1, 2, 17 to 20, 77 and 78 digits with up to three digits that are not zero; two amounts one over the other |
| `numbers` | `OrderIsNumeric`, `BytesAreNumber`, `SumsWrap`, `ShiftsMove`, `Mul128IsProduct`, `Mul256IsProduct`; `PrintsNumber`; `DividesNumbers`, `DivisionEnds` | words of four bits, bytes of two; every 128-bit number made of the words 0, 1, 10, 15 and every 256-bit number made of 0, 1, 15, paired with every other of its width; bases 1 (refused), 10, 15; room for three digits, six digits |

Four more runs show a statement of the repository's documentation or code that
the program does not fulfil; each is a finding in `PROJECT.json`:
`sign_extra_data` (the test for extra data never holds),
`sign_other` (transactions that are not spends are reviewed without their
texts), `app_message_whole` (a long message is signed in part),
`parse_payload` (the beginning of a payload of 56 or more bytes is not shown).

Differences from the documents that need no run, because one line shows them:

* `src/api.asc:67` has transactions streamed in several blocks, but a spend must
  fit the first one: `src/utils.c:369` refuses any field that does not end in it.
* `src/api.asc:269` documents 6982 for a command that the user rejects, the
  screens answer 6985.
* `src/api.asc:116-118` documents further blocks of a message (P1 80), which
  `src/signMessage.c:85` refuses with 6B00.
* `src/api.asc:272` has 6Fxx for internal errors, `src/main.c:94` and `:154`
  answer 68xx.
* `src/api.asc:85-88` leaves out the four bytes of total length that
  `src/signTransaction.c:102` reads, and `examples/signTx.py` leaves out the
  network id as well; `ParseBytes` has the header that the code reads.
* `src/uint256.c:410` carries the third column of a product one word too high.
  `Mul256IsProduct` says exactly when that matters; no caller multiplies.

Bounds. Offsets and sizes are those of real encodings; `Mod16` and `Mod8` have
their real values. `Mod32` is 2^20 instead of 2^32, beyond every length that
occurs, so that a counter wraps around exactly where a 32-bit one would.
`MaxFed` bounds the bytes an arbitrary host feeds to one session; it leaves
room for a whole transaction of `sign_any_host` in any split, and in `sign_extra_data` for more
than was declared. Two transactions, two accounts and two declared lengths are
the least that lets anything stale be told from what is current; the proofs
below need none of these bounds. `Choices` bounds what the user picks in the
settings; the runs where it is empty ask nothing about settings.

In `sign_any_host` a spend that is accepted is complete in its first block but for
a byte at most (`src/utils.c:369`), and further blocks come after refused first
blocks, after the review, or are empty or too long; a transaction accepted and then
streamed to its end in several blocks (`OtherTx`, of 300 bytes) is in `sign_host`,
and the theorems are about all sizes.

In `sign_host` a first block carries 236 bytes: 255 less account, length, and a
network id of ten bytes. In `parse_bytes` sizes lie densely around the ends of
the addresses, of the integers and of the payloads, where the slack of
`dataLength` decides; no command exceeds 255 bytes.

Four bits are the least for a word in which halves, words and numbers are all
different widths and the base 10 fits; the operators treat all widths alike, and
the words 0, 1, 10, 15 reach every carry, borrow and case of a shift. At 256
bits 0, 1 and 15 do: their products fill a column of words (15 * 15 carries 14)
or leave it, so both sides of `Mul256IsProduct` occur. Two
amounts one over the other are enough: a call reads nothing of the buffer, so
only the last text can show through. Seven digits with two decimals exercise
every case of `adjustDecimals` for all patterns of zeros; eighteen decimals are
those of the code.

Fairness. `FairAppSpec` assumes that the main loop goes on (weak fairness of
`Exchange`: it is a loop without a condition), that a user who is at a screen of a
confirmation again and again moves on to the next at some time, and that one
who is at the deciding screens again and again decides at some time (strong
fairness, because paging back disables both). Nothing is assumed of the host,
of resets or of faults. `FairSpec` of `ToString` assumes that a division once
begun goes on (weak fairness of its turns): it is straight-line code that
nothing interrupts. `DivisionEnds` then says that its loop is left, which the
code does not bound.

Some definitions are introduced by "Slip" in the comment above them: they are
mistakes that this code could contain, and nothing uses them. Each property is known to fail when its slip takes
the operator's place; they are listed in `PROJECT.json` under "mutants".

## What is proved

All theorems hold for every set of transactions and layouts that satisfies
`LayoutAssumption`, every set of block sizes, lengths, accounts, messages and
settings, every width and every key. What is assumed besides is in this table;
"promised" stands for `HostFollowsProtocol`, "no faults" for `~Faults`.

| module | theorem | states | for |
|---|---|---|---|
| `SignTransaction_proofs` | `SignInvariant` | `SignInv` | any host |
| | `TypeCorrect` | `TypeOK` | any host |
| | `ReviewsAreComplete` | `ReviewIsComplete` | any host |
| | `ShownFieldsAreHashed` | `ShownIsHashed` | any host |
| | `ShownFieldsAreSigned` | `ShownIsSigned` | any host |
| | `WholeTransactionsAreSigned` | `WholeTransactionSigned` | promised, no faults |
| | `ReviewsAreAwaited` | `ReviewAwaited` | promised, no faults |
| `Signer_proofs` | `CommandRefinesSigner` | `SignsOnlyOffers` (refinement) | promised, no faults |
| `App_proofs` | `ReviewsAreCompleteInApp` | `ReviewIsComplete` | any host, any faults |
| | `ShownFieldsAreHashedInApp` | `ShownIsHashed` | any host, any faults |
| | `ShownFieldsAreSignedInApp` | `ShownIsSigned` | any host, any faults |
| | `AppInvariant` | `AppInv` | any host, any faults |
| | `AppTypeCorrect` | `AppTypeOK` | any host, any faults |
| | `OwedRepliesAreOnShow` | `OwedReplyOnShow` | any host, any faults |
| | `SettingsAreKept` | `SettingsKept` | any host, any faults |
| | `NoScreenStays` | `NoStrayScreen` | promised, no faults |
| | `RepliesAreAsked` | `OneReplyPerCommand` | promised, no faults |
| | `RepliesMatchCommands` | `ReplyMatchesCommand` | promised, any faults |
| | `ApplicationIsDevice` | `ActsAsDevice` (refinement) | promised, no faults |
| `ParseBytes_proofs` | `ParsingInvariant` | `ParsingInv` | any command, any bytes behind it |
| | `ParsesAsLayout` | `ParsesLayout` | any command, any bytes behind it |
| `AmountText_proofs` | `AmountInvariant` | `AmountInv` | `AmountAssumption` |
| | `AmountShown` | `ShowsAmount` | `AmountAssumption` |
| | `AmountFits` | `FillsAtMost` | `AmountAssumption` |
| `LongDivision_proofs` | `DivisionInvariant` | `DivisionInv` | `DivisionAssumption` |
| | `DivisionIsExact` | `QuotientExact` | `DivisionAssumption` |
| `ToString_proofs` | `OrderInvariant` | `OrderIsNumeric` | `WordAssumption` |
| | `SumInvariant` | `SumsWrap` | `WordAssumption` |
| | `ShiftInvariant` | `ShiftsMove` | `WordAssumption` |
| | `BytesInvariant` | `BytesAreNumber` | `WordAssumption` |
| | `Product128Invariant` | `Mul128IsProduct` | `WordAssumption` |
| | `Product256Invariant` | `Mul256IsProduct` | `WordAssumption` |
| | `DividesAsNumbers` | `DividesNumbers` (refinement) | `WordAssumption`, `PrintAssumption` |
| | `DigitsPrinted` | `PrintsNumber` | `WordAssumption`, `PrintAssumption` |
| | `AmountsArePrinted` | `AmountPrinted` | `WordAssumption`, `PrintAssumption`, 64-bit words |
| `Base58_proofs` | `EncodingInvariant` | `Base58Inv` | any bytes |
| | `EncodingTypeCorrect` | `EncodeTypeOK` | any bytes |
| | `IndexStaysInside` | `IndicesInside` | any bytes |
| | `NothingToDrop` | `NoZeroInFront` | any bytes |
| | `KeyInvariant` | `KeyInv` | any bytes |
| | `AddressesAreKeys` | `AddressIsKey` | any bytes |
| | `AddressesFit` | `AddressFits` | any 36 bytes, `MaxOut` at least 50 |

**The SIGN command.** Neither `ReviewIsComplete` nor `ShownIsHashed` is
inductive. `ReviewIsComplete` speaks of open reviews only; what makes it true is
that the counter at all times holds the declared bytes less those fed, or,
beyond the declared length, 2^32 less the excess (`Countdown`). With fewer than
2^32 bytes fed (`MaxFed < Mod32`) the counter is zero only when both agree.
`ShownIsHashed` needs that account, network id, digest and texts agree from the
acceptance of a first block on, review or not (`Streaming` in `Stream`).
`SignInv` is the conjunction of `TypeOK`, `Countdown` and `Stream`; one lemma per
action shows that it is preserved. `Absorbed` is the common end of all blocks,
`AcceptedIsShown` says that a parse without refusal reaches every field and
therefore shows every field the block holds. `OnlyApprovalSigns` says that no
step but the approval answers with new data.

For a host that follows the protocol `Promised` adds that what was streamed is
the beginning of one transaction, and `HostInv` that the review is on show while
its answer is owed, with the digest open: so the digest that the approval closes
is that of all of it.

**The refinement.** `RefInv` adds to `HostInv` that an accepted transaction keeps
its type and that its order was displayed (`OrderKept`). The second is where
the layouts come in: a first block reaches the end of the fee, or the head of
the field for which it is refused (`FirstBlockAssumption`; two addresses and two
integers of at most 32 bytes fit any first block), and what is accepted holds the
order (`AcceptedHoldsOrder`). `AbstractSteps` then maps opening a review to
`Present`, approval to `Approve`, rejection, reset and restart to `Withdraw`,
whatever replaces a signature in the buffer to `Collect`, and all else to a
stutter.

**The application.** `AppInv` is inductive for any host and any faults: types, the
stored settings, and that a command left to a screen has that screen on show,
with nothing staged that would answer in its place. `QuietInv` adds what needs
callbacks that do not fail: no screen is left over, and a staged reply has a
command waiting. `MatchInv` is about content and holds with failing callbacks: while
the host waits an answer is ahead (`AnswerAhead`), what is staged is about the
command (`StagedMatches`), and every confirmation that owes an answer holds all
it will answer from: address, message and the bytes in the APDU buffer, digest
(`ConfirmMatches`).

What the SIGN command guarantees by itself it keeps in the application, where other
commands use the same buffer, the same screen and the same main loop: `AppStreamInv`
adds `Streaming` to `AppInv`, and that a review is open only while the counter is
zero. No other handler touches the statics of the command, none opens a review, and
no other step answers with a signature (`OnlyApprovalSignsInApp`).

`DeviceInv` is what the refinement of `Device` rests on: `QuietInv`, `MatchInv`,
`OrderKept` (from the proof for `Signer`), and that a staged reply is one that may be
told of the command (`StagedTold`). Receiving a command maps to `Ask`, with a deal
if it opens a screen (`DealOnShow`); the next `io_exchange` maps to `Tell`; the
deciding screens to `Approve` and `Reject` (`ScreenAnswers_IsDecision`); a reset or a
power loss to `Disconnect`; the menus to `Choose`; everything else to `Collect` or a
stutter. What is on offer stays the same until it is decided on
(`OfferIsOnDeal`): the screens do not change under the user.

**Parsing.** The theorems about SIGN rest on `ParseTx`, which speaks of offsets;
`ParsesAsLayout` is the link from there to the bytes, for whatever an earlier
command left in the buffer. `ParsingInv` follows the parser: as long as the heads
lay in the block it stands where the layout says, with a `dataLength` too large by
`Uncounted` (`InStep`), all fields before were taken, and those the block holds were
read from their own bytes (`Taken`). Once a head was read from behind the block it
says nothing of position and counter any more, only that the fields that began in
the block were not refused; that is all that `ParseTx` says there, since it leaves
open how far the parser gets (`Strays`). One lemma computes each head
(`FieldRead`), one the counter (`DecodingIs`), one says that every case of the loop
takes what the layout has (`TakenIsRight`).

An attempt at this proof, and then TLC, showed that an earlier `ParseTx` was wrong:
it refused a field that ends behind the block also when its head lies there. But a
head of several bytes that was left over behind the block may wrap `dataLength`
around, after which every length passes. `Refused` now asks this of heads
inside the block only, and `parse_bytes` has such left-overs.

**Amounts.** `AmountInv` is that the buffer holds the text of the amount last
printed with its terminators, whatever longer text stood there. `PointedAs`
splits that text into the digits before the point and the decimals, for amounts
below and above one alike; `FractionCut` finds the place where only zeros follow;
`Printed` puts them together: up to the cut the text reads as the amount.
`AmountAssumption` grants two characters more than an amount has digits, and three
more than there are decimals: 80 are enough for 78 digits, the most that 256 bits
have, with 18 decimals.

**Numbers.** `DivisionInv` is that quotient times divisor and remainder make up
the dividend (`NothingLost`), and that the remainder is below twice the divisor at
its place (`FitsBelow`), so that it is below the divisor when the places run out.

`ToString_proofs` has the same of the integers of the code, for words of any even
number of bits and all numbers. Each operator is what it is of a pair `a * K + b`,
first of two words, then of two halves, so that a carry, a borrow or a bit that
crosses from one part to the other is treated in one place (lemmas `Add256Is`,
`Shiftl256Is`, `Bits256Is` and their like). A word that is or'ed with a power of
two it does not hold is their sum, since no two words have the same bits.

`WordRead` follows a word as its bytes are read: after `n` of them it is the part of
the number that they are, so that reading goes on as dividing by the place does.
`BytesInFront` says that what the code pads with zeros are the bytes a short number
has there (`BytesInvariant`).

A product is that of four digits each, of half words in `mul128` and of words in
`mul256`. `ColumnsAdd` says that what the sixteen products come to is what their
halves, added by columns, come to, and a multiple of the modulus; `ColumnsCut`,
that a column that is cut off to its width loses nothing but such multiples; and
`ThreeDigits`, that the third column is never cut off. This makes `mul128` the
product (`Product128Invariant`). In `mul256` the carry of the third column goes one
word too high: `CarryTooHigh` says that this differs from the product by less than
the modulus, hence `mul256` is wrong whenever there is such a carry, and right
otherwise (`Product256Invariant`). The theorem needs no bound on the numbers; the run
has pairs of both kinds.

The divisor on words stands at a place, with every place of the quotient so far
above it (`AtPlace`), or has been moved out below the last (`MovedOut`), and
nothing of the dividend is lost (`LoopOK`): that is what is needed to see that
no shift loses a bit and no or meets one that is set. With it each step maps to a
step of `LongDivision` (`DividesAsNumbers`); that its `DivisionAssumption` holds of
`Pow2` is the lemma `DivisionOfNumbers`. `PrintOK` follows the digits: there are
quotients, the first of them the number, each the next times the base and the
digit between. Read backwards they are the number in its base (`DigitsPrinted`); a
number refused for want of room is at least the base to the power of that room.
2^256 is less than 10^78 (`SeventyEightDigits`), so that with the code's words and
room no amount is refused, and its digits are what `AmountAssumption` asks of
them (`AmountsArePrinted`): `rlpParseInt` does not look whether it was.

**Addresses.** `Base58Inv` is that each byte yields at most two digits, since one
division by 58 leaves less than 5 of the first byte and the second one nothing
(`DigitsPerByte`), and that what is left of the bytes is never zero while a byte
is still to be passed (`NeverNothing`). The first keeps the index inside the
buffer, the second leaves the loop that drops zeros nothing to do.

That the address is the key's needs what the digits are worth. `KeyInv` says so
without any large number: the digits put, read one by one from what was left
before the division under way, lead to the bytes given, where each step is the
long multiplication that the division undoes (`Follows`, tied together in `Chain`);
the division itself has done so up to `divLoop` (`Dividing`). `ChainDecodes` says
that such a chain is what the decoder computes, `AddressOfOneKey` that no two keys
have one address. That it fits does need numbers: `IsNumber` gives bytes a value,
`NumberBelow` bounds it by the bytes that are not zero, `NumberAbove` by the
digits, and `FiftyDigits` says that 256^36 <= 58^50. A leading zero byte makes the
number smaller by more than one digit, which leaves room for the '1' it gets.

Induction over positions, rounds and digits is done with the lemma `Least`: of the
natural numbers for which a statement fails there is a least one. The induction
theorems of the library take an operator as parameter and cannot be used here.

Other assumptions: `AccountsAssumption`, `SizesAssumption`, `LayoutAssumption`,
`SignAssumption`, `MessageAssumption`, `AddressAssumption`, `AppAssumption`,
`LengthAssumption`, `BytesAssumption`, `CommandsAssumption`, `EncodingAssumption`,
`AmountAssumption`, `WordAssumption`, `PrintAssumption`. TLC evaluates each for every instance.

Only model-checked is liveness (`Answered`, `DivisionEnds`), which is out of the
prover's reach. All other properties of the passing runs are theorems.

## Plan

Done: all modules of the table above and their theorems. What could be added
is the composition of `ToString` with `AmountText`, and of `Base58` with the key
that `GetAddress` shows, instead of their digits and keys as inputs.

## Not modelled

* Cryptography: SHA-256, BLAKE2b and signatures are what they were fed; key
  paths and the byte order of keys are conventions of the operating system.
* The transport protocols below `io_exchange`, and the drawing of screens.
* What follows a head of more than four bytes of length, and commands too short for their
  own header: they read or write bytes that the code does not define.
* `ui_prepro` and the label macros, which the flows do not use; the version
  numbers in the answer to GET APP CONFIGURATION; build files.
