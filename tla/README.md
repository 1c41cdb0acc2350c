# PriFHEte plaintext oracle and bit circuits in TLA+

This directory holds TLA+ specifications of the parts of this repository that
have behaviour of their own, TLC configurations that check them on small
instances, and TLAPS proofs of what matters for every instance. `PROJECT.json`
indexes the runs, the mutants, the lines each definition models, the hazards
and the theorems. Every path below is relative to the repository's root.

## 1. The system

The library mirrors the structure of the PriFHEte paper before any
cryptography is in place. What computes today is a deterministic oracle in
plaintext and a layer of bit circuits over two backends.

| component | state | operations | here |
|---|---|---|---|
| Plaintext oracle, `src/state/plaintext_model.*` | accounts in three containers, root records, the root list and the PRF outputs of the current epoch, epoch, version counter, current root | `UpsertAccount`, `Register`, `Mint`, `Transfer`, `AdvanceEpoch`, `AdvanceToEpoch`, `set_current_epoch`, queries | modelled |
| Protocol entry points, `src/protocol/{registration,mint,transfer,process_transaction}.*` | none; they take the oracle by reference | `Registration` calls `UpsertAccount`; the others call nothing on it | modelled |
| Bits, backends and circuits, `src/fhe/*` | `enabled_` and `impl_` of a `BinFHEContext`; bits are values | `Initialize`, the gates, `FullAdder`, `FullSubtracter`, `EqualBitVectors`, `ReduceAnd` | modelled |
| Shared types, `src/common/types.h` | none | none | modelled |
| Key generation and ciphertext update (`src/protocol`); proofs, encryption, commitments, PRF, Merkle tree (`src/proof`, `src/wkenc`, `src/commit`, `src/prf`, `src/merkle`) | none | stubs that return an empty or a given value, and verifiers that refuse | modelled as operators; those that make what the oracle takes or stores are composed with it by a user of the library |
| `build*/` | none | generated by CMake | not modelled |

Components interact by direct calls only; the stubs of the cryptography do not
even call each other, and meet the oracle only in the hands of a user of the
library. There are no threads, callbacks, messages or files, and nothing is
persisted; so there is no interleaving inside a call, no crash recovery and no
message loss to model, and none is invented. The one fault this code is exposed
to is an **exception in the middle of a call**: nearly every change of the
oracle allocates, nothing is rolled back, and the caller may retry. What else is
hard here: **long sequences of legal calls** over
containers that repeat each other's content, **time that callers move** forward,
by jumps and backwards, while they hold on to old root references, validation in
many steps before a change in many steps, aliasing in self-transfers, unsigned
arithmetic at its edges, and bits of two backends meeting in one circuit.

What makes each component correct:

- *Oracle, accounts*: the three containers describe the same accounts; indices
  are stable; a balance changes only by accepted payments and only with a new
  root, and is what those payments add up to, but for whole multiples of 2^64.
- *Oracle, roots*: versions are consecutive and recorded once; the list of the
  epoch's roots is the latest run of them; what is handed out as current is
  accepted; nothing older than the window or with altered metadata is.
- *Oracle, replay*: exactly the outputs of the payments accepted since the epoch
  changed are refused as used, so that a failed payment burns none; between two
  uses of one output the epoch has changed, and the window bounds how often a payment can come back.
- *Oracle, answers*: replies and queries agree with each other, and a reference
  or an entry that was handed out keeps its meaning over changes of the epoch.
- *Oracle, exceptions*: a retried payment is not made twice, a known index keeps
  its account, versions are not reused, and one successful call that makes a
  root repairs the rest.
- *Protocol stubs*: they report failure and leave no money or root behind.
- *Cryptography stubs*: constants, so no property of their own: what matters is
  what the oracle does with their outputs.
- *Circuits*: on plain bits they compute the arithmetic or the equality they are
  named after; a program aborts only for a misuse it can see; results of one
  backend can be used with it again.

## 2. Modules

| module | what it is |
|---|---|
| `PlaintextModel` | the oracle: one action per public method that changes state |
| `PlaintextModelProperties` | its invariants, action properties and liveness, and two sentences of the documentation the code does not keep |
| `PlaintextModelProofs` | the inductive invariant and the theorems about the oracle |
| `LedgerHistory` | the oracle with a history of accepted payments; properties about that history; the refinement mapping |
| `LedgerHistoryProofs` | the refinement step by step, and the theorems about payments over time |
| `OracleLedger` | the abstract ledger: numbered accounts, spent outputs, issued roots and a journal |
| `Placeholders` | the cryptography stubs and their byte types |
| `Protocol` | the protocol entry points composed with the oracle's own calls |
| `ProtocolProofs` | that they are steps of the oracle, and fail closed |
| `OracleReplies` | the result structs and the queries of the oracle |
| `OracleUser` | a user of the whole library: oracle, protocol and stubs composed |
| `OracleUserProofs` | that what the user is told agrees, stays true and stays usable |
| `InterruptedCalls` | the oracle when calls may end in an exception |
| `InterruptedCallsProofs` | what survives any number of exceptions, and what one root repairs |
| `BitCircuits` | bit values, the gates of both backends, adder and subtracter, as operators |
| `BitSession` | a program that uses both backends in any order |
| `BitSessionProofs` | that chains of circuits compute and compose, in both builds |
| `VectorCircuits` | the loops of `EqualBitVectors` and `ReduceAnd`, a step per iteration |
| `VectorCircuitsProofs` | their correctness for vectors of any length |
| `MCPlaintextModel`, `MCProtocol`, `MCLedgerHistory`, `MCOracleUser`, `MCVectorCircuits` | values of constants and symmetry for TLC (`BitSession` and `InterruptedCalls` need none) |

### How the oracle's state and actions correspond to the code

Variables keep the names of the fields without the trailing underscore. Maps
are functions on their finite domain, `account_states` is a sequence (C++ index
`i` is position `i + 1`). A call is one step, since the class is used from one
thread and no method calls out. The exception is the loop of `AdvanceToEpoch`:
`goal` is the loop's bound, each iteration is an `AdvanceStep`, and no other
call starts before the loop ends (`Idle`). `ok` is the result of the last call,
`Status::ok`. The rest of a result is computed from the state before and after
the call, by the operators of `OracleReplies`, for the caller in `OracleUser`.

A failing call is the `Rejected` disjunct of its action, so that a failed call
changes nothing is how the model reads the code and not a property of it; what
follows from the order of checks and changes is `OutputsPaidFor`. The order of the checks
decides only the message, which is not modelled; what is modelled is that they
all precede the first change. The check inside `RecordPrfOutput` repeats the one
its callers made, so its error branches are dead, and so is the fallback in
`set_current_epoch` for a failed advance.

Abstractions of data:

- a root is the pair (epoch, version) that `MakeRoot` writes into its string;
  the encoding is injective, and `ToKey` copies the bytes;
- public key, ciphertext and commitment of an entry are one `payload`, which the
  oracle stores and never reads;
- `std::uint64_t` amounts are numbers modulo `AmountModulus` (2^64; 4 in the
  runs); `EpochNumber` ends at `MaxEpoch` (2^64-1), where `AdvanceEpoch` fails;
- `RefreshAllAccountRoots` writes entries in index order; of two slots with one
  id the later one wins, as in the loop. Only an exception makes such a state.

Callers (`Entries`, `Requests`, `Mints`, `Transfers`) pass small sets of ids,
the empty one included, valid and invalid indices, every reference that was ever
handed out and a few invented ones: the default-constructed reference, a root
that may not exist yet, and existing roots with another epoch or version.

### How the user, the protocol and the stubs correspond to the code

A stub is an operator: its result depends on its arguments at most. Bytes are
empty (what every stub returns) or not (what a user brings along). `Protocol`
gives each entry point its checks for malformed input and its status;
`Registration` is `UpsertAccount` and then a failure.

`OracleUser` is external code of the kind the tests are: it calls the oracle, the
protocol's `Registration` and the stubs, and believes what it is told. `book` is
what replies and queries said about balances, `receipt` a root reference from
any reply, `held` an entry from a reply or a query, which it may write back after
any number of epochs with a new ciphertext and commitment. Its payments take
keys from `KeyGeneration` and PRF outputs from `Evaluate`. The verifiers,
`Decrypt` and `Build` change nothing and no code under `src/` acts on what they
return; they are operators of `Placeholders` only.

### How exceptions correspond to the code

`std::string`, byte vectors, vectors and hash maps allocate, so an insertion or a
copy may throw `std::bad_alloc`; assignments of numbers, `clear` and moves do
not. An insertion that throws leaves its container unchanged, and a copy
assignment of an entry may leave the first members assigned. `InterruptedCalls`
writes the changes of a call as sequences in the order of the source
(`AccountOrder`, `PaymentOrder`, `RootOrder`, then the slots of the refresh loop)
and lets an exception keep any prefix of them, also all of them when the copy
of the reply throws. Nobody sees the oracle inside a call, so a call that throws
is one step. Most invariants of `PlaintextModelProperties` do not survive it: a
registration cut off leaves a slot without index, a payment cut off leaves a PRF
output in the set and not in the list, and may lose the payment for the epoch,
an epoch change cut off leaves an epoch without a root. What survives are the
four properties of the run `interrupted`.

### How the circuits correspond to the code

The project's own CMake file sets no `NDEBUG` and its tests rely on `assert`:
the models are of a build with assertions, where a failed one ends the program.
A gate whose assertion fails returns `Aborted` in the model, a bit no backend
has, so that everything computed from it is `Aborted` too. A `BinFHEContext` is
described by the build (`openfhe`), and `enabled`; `impl_` is set exactly when
`enabled_` is. A placeholder bit has a handle or null; the label inside the
handle is never read. In `BitSession` a program creates bits, calls `Initialize`
or does not, and feeds bits and results to gates, adder and subtracter of either
backend. In `VectorCircuits` a behaviour is one call.

## 3. Runs

Runs that must pass:

| run | shows | bounds |
|---|---|---|
| `accounts` | types, agreement of the containers, stable indices, balances committed by roots, entries stamped, protocol stubs fail closed | 2 accounts, 2 payloads, 2 PRF outputs, 2 epochs, 5 roots, amounts mod 4 |
| `epochs` | the invariants on roots, root list, window and replay state; `AdvanceToEpoch` reaches its goal, also the largest epoch | 1 account, 4 epochs, 7 roots: enough to leave an epoch, let the window pass it, come back and list roots again |
| `payments` | balances are the sum of the journal modulo the width; nobody spends what he does not have; the oracle implements `OracleLedger`, whose balances wrap as well | 2 accounts, 3 PRF outputs, 3 epochs, 4 roots, values 1 and 3 mod 4 (so that a wrap and an overspend happen), one redated reference |
| `replay` | the spent outputs are those of the payments since the epoch changed, across advances and steps back, refused payments included; a PRF output is used once between epoch changes; a payment returns at most once while time goes forward; references are judged by where they were made | 1 account, 3 epochs, 6 roots, redated references |
| `clients` | queries and replies agree and stay true; references and entries keep their epoch; one payment per epoch change with the placeholder PRF | 2 accounts, 3 epochs, 4 roots, amounts mod 2: enough to pay oneself, to overspend, to write back an entry two epochs old, to use a reference again after the epoch went back |
| `interrupted` | payments are not doubled by retries, known indices stay, one root heals, versions are unique | 2 accounts, 2 epochs, 5 roots, 2 exceptions: enough for two slots of one id, an exception in the retry, and a version lost in one epoch and asked for in the other |
| `session` | adder, subtracter, composition of results, no BinFHE bits without OpenFHE | none: the bits are finite |
| `vectors` | the loops compute equality and conjunction, abort only on misuse, return usable bits, and end | all vectors of up to 2 bits of any kind, or 3 plain ones |

`MaxRootVersion` is the one bound that cuts behaviours: a call that would need a
further root version is not made. It bounds the number of successful calls.
`UpsertAccount`, failing calls and a failed advance remain possible at the bound,
so the runs of the oracle check for deadlock; the journaled runs pass only valid
requests and may stop at the bound, and a program of `BitSession` or a call of
`VectorCircuits` may abort or be finished, so those say `CHECK_DEADLOCK FALSE`.
Account ids, payloads and PRF outputs are only compared for equality and nothing
orders them, so some of the safety
runs use symmetry; the runs with liveness (`epochs`, `vectors`) do not.

Runs that end in a violation, each of a sentence of `docs/architecture.md`:

| run | sentence | what the code does |
|---|---|---|
| `balances_exact` | line 59, balances are updated exactly by mint and transfer | they wrap at 2^64 and the call reports success (`plaintext_model.cpp:201`, `:264`): in the run, modulo 4, mints of 1 and 3 leave a balance of 0 |
| `success_makes_root` | line 60, every successful state transition produces a new root version | `UpsertAccount` changes entries and makes none |
| `every_root_listed` | line 62, every root generated in the current epoch is tracked so it can be referenced | after `set_current_epoch` went back, the epoch's earlier roots are accepted but `current_root_versions()` omits them |
| `prf_once_per_epoch` | line 65, a PRF output is used at most once per epoch | `set_current_epoch` backwards forgets the outputs of the epoch it enters |

What the code does keep of line 59 is `BalancesReplay`: balances are exact up to
multiples of 2^64 (`AmountModulus`). What it keeps of line 65 is `PrfOncePerEra`:
between two uses the epoch has changed. `ReplayBound` adds what protects a
payment beyond its epoch: its root leaves the window.

### Fairness

`LoopReachesGoal` assumes weak fairness of `AdvanceStep` alone: a `while` loop
that runs in the caller's thread is not abandoned half-way. Callers owe nothing;
no other action of the oracle is fair. `CallsEnd` assumes weak fairness of the
iterations of a call, for the same reason. The steps between two iterations
make progress or leave the loop, so weak fairness is enough.

### Mutants

A definition whose name starts with `Slip` is the definition after it with a
plausible mistake: a check dropped, a reset forgotten, an index off by one, two
steps swapped. No specification uses them. `PROJECT.json` pairs every property
with one, and replacing the definition by its slip makes TLC refute the property
under the same configuration.

## 4. Proofs

Every invariant and every action property that a passing run checks is also the
statement of a theorem, proved for all values of the constants. The two
liveness properties are model-checked only.

| proof module | theorems about | inductive invariant | assumptions used |
|---|---|---|---|
| `PlaintextModelProofs` | `Spec`: types, accounts, roots, replay state, three action properties | `Inv /\ RootRoom` | those of `PlaintextModel` |
| `LedgerHistoryProofs` | `HistorySpec`: the refinement of `OracleLedger`, six properties of the journal | `Inv /\ HistoryInv` | the same |
| `OracleUserProofs` | `UserSpec`: replies, queries, references, entries | `UserInv` | the same, and `UserAssumption` |
| `InterruptedCallsProofs` | `InterruptedSpec`: versions, retries, indices, repair | `VersionsInv`, `CutInv` | the same; `VersionsInv` none |
| `ProtocolProofs` | `ProtocolSpec` implies `Spec`; the entry points fail closed | that of the oracle | the same |
| `VectorCircuitsProofs` | loops on vectors of any length | `Inv` (meaning of each loop) | that callers pass vectors of bits |
| `BitSessionProofs` | gates, adder and subtracter in any order | `BitInv` | none: no constants |

The assumptions of `PlaintextModel` are that the empty string is no account id,
the limits are natural numbers with room for the first root, the callers' inputs
have their types, and no root equals `NoRoot`. TLC evaluates all of them.

### The oracle

None of the invariants is inductive alone. That a payment writes an existing
slot, and that `UpsertAccount` keeps ids in place, needs `AccountsIndexed`; that
`RefreshAllAccountRoots` rewrites `accounts` consistently needs that no two
slots carry one id, which is `AccountsIndexed` again; that a new root overwrites
no record needs `RootsRecorded`, whose versions end at `root_version`; and that
the listed roots pass validation after a step back needs `RootsListed`, since the
window looks at epochs and the list is what ties them to the current one. The
inductive invariant is therefore `Inv /\ RootRoom`: `Inv` conjoins them with the
types, and `RootRoom` says that the bound leaves versions for the remaining
iterations of a loop (`StartLoop` demands it, every iteration uses one);
`ListedRootsUsable` is not part of it but follows from it. The
proof has a lemma for each operator that several actions share
(`AllocateNextRoot`, `RefreshAllAccountRoots`, `RecordPrfOutput`, the rewriting
of a balance or an entry), then one lemma per action, split by the part of the
invariant it can disturb. The action properties follow step by step from the
same invariant.

The lemmas are stated for `TypedCall`, a call whose arguments have their types,
and not only for the callers of `Next`: so they also serve the user, who hands
back entries that no member of `Entries` equals, and the protocol.

### Payments over time, and the abstract ledger

The refinement is proved first (`OracleImplementsLedger`): a registration or a new
id opens an account, an accepted mint or transfer is a payment of the ledger, an
epoch transition turns it, everything else stutters. The mapping takes `issued`
from `valid_roots`, so each step needs `RootsRecorded`: exactly one root has each
version, and a step appends the epoch of the new one (`IssuedOK`, `RecordGrows`).

The journal's properties are then proved from the steps of the *ledger*, which
are shorter than those of the oracle. `DatesInv` orders the journal by version and
adds facts that no run checks: a payment's output is still spent, or the epoch
has turned since (`SpentOrTurned`, from which `PrfOncePerEra` follows at the next
payment), a spent output was paid for in the current epoch
(`SpentWasPaid`, the other half of `OutputsPaidFor`), and epochs do not fall between two versions unless time was set back
(`EpochsClimb`, from which `ReplayBound` follows together with `BasisInWindow`:
three acceptances need two rises of the epoch within a window of one).
`BalancesReplay` and `NoOverdraft` are about `Total`, a recursive function over
the journal in whole numbers. `TotalsInv` says that there is exactly one function
that satisfies its recursion and that its last value, modulo `AmountModulus`, is
the balance; the payment appended by a step extends that function by one value, so
the induction over the journal is the induction over the behaviour. The oracle
takes the remainder at every payment and `Total` only at the end; that this is
the same is `RemainderShift`. That the journal goes with the oracle and adds no
behaviour to it (`HistoryIsOracle`) holds by its construction.

### The user

`UserInv` conjoins the oracle's `Inv /\ RootRoom` with what ties the user's
knowledge to it: the receipt is recorded in `valid_roots` (no call removes or
replaces a record, `RootsStay`), entries held and stored name a recorded root of
their own epoch, the book names existing slots and their balances, and the
spent outputs are at most the one output of the placeholder PRF. `UserAssumption` says that the bytes are those of this library,
that there are finitely many ids, and that there are no more of them than
`kInvalidIndexValue`, the largest `std::size_t`: a `std::vector` of account states
cannot hold more. It is needed: with a slot at the index that means "invalid",
`FindAccount` by index would deny an account that `FindAccount` by id returns. `QueriesAgree`
counts accounts three ways; that a duplicate-free list is as long as its set is
large is `DistinctCount`, by induction over its length.

Induction over numbers is available without the library's induction theorems,
whose operator parameter the provers cannot instantiate: `CountingUp` derives it
from well-founded orderings of finite sets, with a set in place of the operator.

### Calls cut off by exceptions

`VersionsUnique` is an argument of order: `RootOrder` moves the counter before it
records the root, so whatever prefix of a call remains, a step that adds a record
has also used up its version (`VersionStep`), and recorded versions end at the
counter.

For the other properties the oracle's `Inv` is of no use, since an exception
breaks most of it: lookups disagree, an id has two slots, the list lacks the
current root. `CutInv` is what is left and inductive. An index leads to a slot of
its id; every id that `accounts` knows has some slot; the slots, the list and the
counters have their types. Then every step, whole or cut off, is an
`AccountsStep`: the slots there were keep their ids, at most one is added, an
index is recorded only for an id that one lookup did not know, and balances move
only if the step adds a fresh output to the replay set. `RetriesPayOnce` and
`KnownIndicesStay` follow from that alone. `NextRootHeals` needs the second part
of `CutInv`: `RefreshAllAccountRoots` writes an entry of `accounts` only where some
slot has its id, so an id without a slot would stay torn for good. Where an id has
two slots the last one wins, which exists because the slots are finitely many
(`LastOf`). That the marks come before the money is the order in `PaymentOrder`
(`CutOrders`).

### Protocol and circuits

`ProtocolProofs` proves that `ProtocolSpec` implies `Spec`, the oracle's own
specification: `Registration` is an `UpsertAccount` with an entry any caller could
pass, and the other entry points are stutters. So every theorem about the oracle
holds under the protocol, which is what the run `accounts` checks on its
instance, and `ProtocolFailsClosed` follows from the oracle's invariant, which
says that the slot `UpsertAccount` overwrites exists and keeps its balance.

`VectorCircuitsProofs` proves that `EqualBitVectors` is equality and `ReduceAnd`
conjunction on plain vectors of every length, that a call aborts only for an
unusable bit or an uninitialised context, and that results are usable. The
inductive invariant gives each loop its meaning: `Compared(i)`, the first `i`
comparisons are right, and `Conjoined(i)`, the accumulator is the conjunction of
the first `i` bits. The only assumption is that callers pass vectors of bits.

`BitSessionProofs` rests on the truth tables of the fake gates and on what a
placeholder gate can return at all (`Produced`: an abort, a plain bit, or a bit
with a handle from an enabled context). `BitInv` adds to the types that a context
is enabled only in a build with OpenFHE, and that there are BinFHE results only
while the context is enabled, each with a handle. `ResultsCompose` needs both:
such bits pass the assertions of the gates, and `Initialize`, called again, does
not disable the context.

### Model-checked only

- `LoopReachesGoal` and `CallsEnd`: liveness under fairness. The prover does not
  handle `ENABLED`, which weak fairness is defined by.
- The four documented sentences that the code does not keep: TLC shows the
  counterexamples.

## 5. Not modelled

- Messages of a `Status` (only the overspend is told from other refusals, since
  its reply means something else), and the transaction that a protocol result
  echoes.
- The byte encoding of roots, beyond that it is injective.
- The lifetime of pointers returned by `FindAccount`, which a later call may
  invalidate: no code in `src/` keeps one, and a user in the model copies.
- Which of public key, ciphertext and commitment a torn copy of an entry has got;
  they are one payload for the oracle.
- Memory growth of `valid_roots_`: `ReceiptsUsable` says what pruning would have
  to preserve.
- Builds with `NDEBUG`, and real ciphertexts, proofs and PRF outputs: the code
  has none yet.
- `build-codex`, `build-openfhe-placeholder` and `build`: generated by CMake, the
  two `CMakeCXXCompilerId.cpp` among them. They only identify the compiler.

## 6. Plan

Done, in the order it was planned: the oracle and its invariants; payments over
time, the abstract ledger and the refinement; protocol stubs; bits, backends and
circuits; replies, queries and a user of the whole library; exceptions. All of it
is checked by TLC, and all but liveness is proved.

Next, proofs that relate the compositions:

1. that a behaviour of `OracleUser` is one of the oracle whose callers may pass any
   typed entry, as a refinement (so far the invariant is carried over instead);
2. that a behaviour of `InterruptedCalls` without exceptions is one of the oracle,
   and what `Inv` becomes again after a root that heals.

When the library gets there: multi-bit adders built from `FullAdder`, and the
protocol's real `Mint` and `Transfer` in place of the stubs.
