# TLA+ models of the AVME wallet

The AVME wallet is a Qt/QML desktop wallet for Avalanche. It keeps accounts on
disk, sends transactions through a public JSON-RPC node, and lets websites talk
to it: a browser plugin forwards a site's requests over a local websocket, and
the user allows or refuses each of them in a popup. The models cover this last
part from the socket to the popup; the state the wallet keeps across it (the
stored password, the accounts on disk, the transaction history); and what it
does with the world outside (DApp downloads, the node it asks, balances, the
Ledger, the arithmetic of amounts).

All paths below are relative to the repository. `PROJECT.json` lists, for every
definition, the lines it models.

## 1. The system

### Threads

| Thread | What runs on it |
|---|---|
| GUI thread | QML, every slot and popup button, every `Q_INVOKABLE` that does not start a task. One event at a time. |
| global thread pool | `handleServer` (one task per message), `Server::start` (for as long as the server runs), and what screens start with `QtConcurrent::run`: `makeTransaction`, `checkTransactionFor15s`, `signMessage`, `listAccountTransactions`, `importAccount`, `installApp`, ... |
| io threads of the websocket server | `Server::threads` of them, inside `io_context::run`; completion handlers of accepts, reads, writes and closes |
| detached password threads | one per call of `Wallet::startPassThread` |

The components share state through plain fields of `QmlSystem` and `Wallet`.
Signals from pool tasks to the GUI are queued. A pool task waits for the user by
locking a `std::mutex` twice and being unlocked by the GUI thread. Everything
that is hard in this code comes from these three facts.

### Components

**Web request handlers** (`src/src/qmlwrap/QmlServer.cpp`). State: eleven
mutexes, the permission list and its stored copy, the two answer fields `RTtxid`
and `RSmsg`. Operations: `handleServer` for each method; on the GUI's side
`addToPermissionList`, `requestedTransactionStatus`, `requestedSignStatus`,
`clearWebsitePermissionList`, `loadPermissionList`, account and wallet changes.
Hard: any number of handlers at once; a field that is missing (`from`, `to`,
`__frameOrigin`) throws between lock and unlock; the account is read before the
user is asked and written after, while accounts are chosen and wallets closed.
Correct if: locks and unlocks match on every path, and on one that an exception
ends it is known which stay locked; one question at a time; no answer is older than
the first lock of its answer mutex; nothing protected goes to a site without
consent; no account goes out but the current one, or the last one of a wallet that
was closed while the server still runs.

**Prompts** (`src/src/qml/components/AVMEAccountHeader.qml`, the popups
`AVMEPopupConfirmTx`, `AVMEPopupTxProgress`, `AVMEPopupConfirmSign`,
`src/src/qmlwrap/QmlSend.cpp`). State: which popups are open and for what,
`userHasSigned`, `alreadyTransmitted`, `autoCloseTimer`, the tasks of the pool.
Hard: one popup object serves all requests and hears all signals; every step of
a transaction can fail and be retried; the pool has a size. Correct if: every
request that asks the user is answered, with the answer to that request; the
popup names the site that is waiting; the GUI never waits for itself.

**Websocket server** (`src/src/network/Server.cpp`, `Server.h`). State: two
lists of sessions and listeners, the `io_context`, the mutex `running`, and per
session a stream, `is_running`, `m_lock`. Operations: `start`, `stop`, and the
completion handlers. Hard: `stop` runs against accepts, handshakes and writes in
flight and against itself; `m_lock` is handed from the thread that starts an
operation to the one that completes it. Correct if: a `stop` that returns leaves
nothing running; operations on a stream exclude each other; `stop` and
`handleServer` return.

**Stored password** (`src/src/core/Wallet.cpp`). State: `storedPass`,
`storedPassDeadline`, written without a lock by the GUI thread and by all
password threads alive. Correct if: a stored password is removed in time.

**Accounts and key store** (`src/src/core/Wallet.cpp`,
`src/src/lib/ethcore/KeyManager.cpp`, `src/src/lib/devcrypto/SecretStore.cpp`,
`src/src/lib/devcore/CommonIO.cpp`). State: a secret file per key, one encrypted
keys file, four maps in memory that mirror them, the wallet's list of accounts.
Operations: load, create or import, erase, close. Hard: an import rewrites all
secret files in place; the program can stop between any two writes. Correct if:
what is rebuilt from the files is what was there; every listed account can sign;
an erased secret is gone; a crash costs little.

**Transaction history** (`src/src/core/Wallet.cpp`, `src/src/core/Database.cpp`,
`src/src/qmlwrap/QmlHistory.cpp`, `src/src/qml/screens/HistoryScreen.qml`).
State: a database per account, one handle to the open one, a list in memory, a
copy on the screen. Hard: the GUI thread opens, closes, refreshes and erases
while pool tasks send and list. Correct if: a transaction is filed under its
sender; nothing is filed that was not sent; what was erased stays erased; the
screen shows what is stored.

**DApp installation** (`src/src/qmlwrap/QmlApps.cpp`,
`src/src/qml/panels/AVMEPanelApps.qml`). State: the downloaded list, the files
in a DApp's folder, its entry in the database, the grid on the screen.
Operations: download the list, install with tries per file, update, remove.
Hard: files and entry are written one after the other; a failed download leaves
an old file; the repository publishes meanwhile; the program stops. Correct if:
what is registered is there, whole, and of one version; the popup goes away.

**API client and its setting** (`src/src/network/API.cpp`, `API.h`,
`src/src/qmlwrap/QmlSystem.cpp`, `src/src/core/Wallet.cpp`). State: host, port
and target that each request copies, the setting in the database, two mutexes of
one name. Hard: pool tasks set and read it while the GUI thread opens the
database again. Correct if: a request goes to one node, and that is the stored
one.

**Request builder** (`src/src/qmlwrap/QmlApi.cpp`). State: a list of requests per
DApp or panel, numbered from 1. Hard: a timer clears and refills the list that a
pool task takes whenever it comes to run. Correct if: nothing is sent twice and
each reply gets to the field that asked.

**Balances and nonce** (`src/src/qml/components/AVMEAccountHeader.qml`,
`src/src/qmlwrap/QmlAccount.cpp`). State: what the header and the list of
accounts show. Hard: answers in any order, long after the account was changed.
Correct if: no sum of two accounts; the right number next to each account; in
the end, the current account's.

**Ledger device** (`src/src/lib/ledger/`, `src/src/qmlwrap/QmlAccount.cpp`).
State: the device handle, frames on the wire, what is being signed. Hard: the
device is slow, pulled out, or exchanged between two steps. Correct if: frames
carry the message; the handle is open when used; a signature is of this request
and by this account; signing ends.

**Exchange arithmetic and conversions** (`src/src/network/Pangolin.cpp`,
`src/src/core/Utils.cpp`, `src/src/qmlwrap/QmlExchange.cpp`, `QmlSend.cpp`).
Pure functions. Hard: numbers wrap around, strings carry decimals. Correct if:
they agree with plain arithmetic wherever that fits.

**The rest.** Other databases (tokens, contacts, Ledger accounts), staking,
wallet creation and seed, program start, the remaining screens, vendored
libraries: not modelled, see section 7.

## 2. Modules

| Module | Models | Extends / is extended by |
|---|---|---|
| `HandleServer` | request handlers under the most general GUI | abstract specification of the prompts |
| `WebPrompts` | the popups, the pool and the GUI thread | EXTENDS `HandleServer`, and implements it |
| `StoredPass` | the stored password | |
| `WsServer` | the websocket server | |
| `AccountBook` | what the files of a wallet promise about its accounts | abstract specification of `KeyStore` |
| `KeyStore` | accounts on disk and in memory | implements `AccountBook` |
| `History` | the transaction history | |
| `AppInstall` | DApp list, install, update, removal | |
| `ApiConfig` | the node the wallet talks to, and its setting | |
| `Requests` | batches of DApp and panel requests | |
| `Balances` | header and account list | |
| `Ledger` | framing, exchange and signatures of the device | |
| `Amounts` | conversions, exchange, fees | |
| `MCOutside` | `StoredPass` and the six above, side by side | EXTENDS them and `MCAppInstall` |
| `MC...` | instances of each for TLC: symmetry sets, functions as constants | EXTEND the module |
| `...Proofs` | theorems (section 5) | EXTEND the modules they are about and TLAPS |

A definition with a suffix after an underscore (`StopClear_SessionsOnly`) is a
wrong version of the one it precedes. It is not part of a specification; it
shows that a property would notice the mistake.

### HandleServer

A handler is a program counter `pc[r]` that moves from mutex to mutex the way
`handleServer` does; one action per lock, per emitted signal and per stretch of
code between two points where another thread can matter. `owner` is the set of
mutexes. A double lock is a lock of a mutex that is owned; it waits until the
GUI releases it. (Both this and the unlock by another thread are undefined in
C++; the mutexes of the supported builds are pthread mutexes that block and
allow it, and this is what is modelled.) A json field that is absent throws: the
task ends, and since nothing is locked through a guard object its mutexes stay
locked. `MissingField` is that of `from` or `to` in a prompt. `ScanThrows` and
`AskThrows` are that of the website's name (origin "none"): the scan throws in its
first round, with the list locked, or, if the list has no entry, the question
throws with the question's mutexes locked too. The later reads of the name
(`QmlServer.cpp:130`, `:169`, `:227`) are not reached without one. `GuiStep` may
call every entry point at every time with every argument. Loading a wallet is
three of them: `CloseWallet` (the screen closes the wallet at once: no current
account, the server runs on), `StopForWallet` (the next wallet could be opened: the
server stops, `serving` is false) and `LoadWallet` (no handler is left: databases
and permissions of the next one; the server runs again once an account is chosen).
Json is reduced to method, website and completeness. The condition `chainId =! ...` of `wallet_addEthereumChain`
(`QmlServer.cpp:63`) assigns, so that method builds no answer.
`answered`, `consented` and `chosen` are history variables: the prompts answered
since they were last armed, the handlers whose site was allowed while they ran, and
the account set last.

### WebPrompts

Replaces the general GUI by the real one: `ShowPrompt` takes a signal off the
queue and opens the popup for it; each button is an action; a pool task (`make`,
`check`, `sign`) waits in `queued`, runs in `tasks` and ends with the slot of the
signal it emits. `HandlerStep` lets a handler begin only if the pool has room.
`guiThread` is not idle while the GUI thread is inside a call another thread can
see half of: the Back button of the signature popup, which answers two prompts,
and `cleanAndCloseWallet`, which waits for the pool. `LoadWalletClick` closes the
wallet and starts the task that opens the next; `WalletLoaded` (or
`WalletNotLoaded`, for a wrong passphrase) is its answer. The popups are modal, so
the click needs a screen without one, but a request may arrive while the task runs.
Choosing an account is left to the general GUI. A transaction carries the
request it was made for, so that properties can tell whose answer is whose.
`Faults` names the faults an instance includes.

### StoredPass

`startPassThread` is three actions (the two writes and the start of the
thread), since older threads may write between them; the loop of
`storedPassThreadHandler` is `Check`, `ClearPass`, `ClearDeadline`. A second
passes (`Tick`) when everything that can run has run.

### WsServer

Asio and Beast are external: an operation is pending (`listener`, `conn`,
`writing`, `posted`, `stops`) until an io thread runs its handler, which takes an
io thread that is not stuck in `session::close` (`blocked`). The io_context ends
when nothing is pending. `is_running` is not initialised by the code and so
starts with either value. `terminated` is the exception of `acceptor_.cancel()`
on a closed acceptor, which leaves `io_context::run` and ends the program.
`late` and `overlap` are history variables: what began while a stop was under
way, and whether two stops overlapped. Reductions: the two loops of `stop` are
one step, the return of `run` and the unlock are one step, `handleServer`'s lock
of `posRequest` and its look at `is_running` are one step. Nothing outside the
step reads what changes within it. `session::close` has two callers, the io_context
on behalf of `stop` (`Close`) and a handler whose site was refused (`CloseRefused`).

### KeyStore

Files are maps: `secretFile` from key id to address (or `Broken` between
truncation and the last byte), `keysFile` from address to id and name. Maps of
`SecretStore` and `KeyManager` keep their names. `Import`, `SaveOpen`,
`SaveWrite`, `ImportEnd` and `Erase`, `EraseEnd` split the operations where the
program can stop with a different disk. A write of either kind of file can fail
(`SaveFails`, `FileError`); the exception ends the operation where it is. `book` is what the user was told: what
the operations he saw succeed amount to, and after a crash what is on disk.
Encryption is left out, because every secret is stored under the one password.

`AccountBook` is what remains when files, maps and lookups are forgotten: an
entry per account, and at most one entry in the middle of being rewritten. Only
that one can get lost, by a crash or by a failed write. In the refinement an
entry is a secret file that can be read, under the name the keys file has for its
address, and the open one is the address whose secret file is being written. It
answers the question of the rewriting in `SecretStore::save`: any number of files
is truncated in place, one after the other, but a crash costs at most one.

### History

`disk` is a set of entries per account, `historyDB` the account whose database
is open (`None` while the handle is NULL), `lister` the list tasks in the middle
of `loadTxHistory`, `emitted` the lists on their way to the GUI. A pool task
that uses the NULL handle and a json exception on the GUI thread end the program
(`Stop`); it starts again with what is on disk. `CloseWallet` is the screen that
loads another wallet: no account is current and the list is empty, but the database
stays open, until `LoadWallet` or for ever, if the passphrase is never right. `overlap`, `raced` and `doubled`
record that one of three unguarded overlaps took place; each property says
which of them it needs to be absent. Clearing the list and reading the database
are one step, appending to it is one; interleaving single `push_back`s is a data
race on a vector and not modelled.

### AppInstall

One DApp; a file's content is the version it comes from, `EmptyFile` after an
answer without a body. `HttpGetFile` is one request: it leaves the file as it is,
empties it, or brings the published one. `Fetched`, `FetchedNothing` and
`NotFetched` are what `installApp` then finds on disk and does about it, and the
tries are counted as its loop does. `files.json` is one of the files
and is read when it was fetched. `Publish` moves the repository on, `AppCrash`
stops the program, each between any two steps. An answer 200 counts as a list,
whatever is in it (`EmptyFile`). A `files.json` of the wrong shape throws before it
is removed and stays on disk. `lost`, `stripped`, `crashed`,
`published` record what a property makes an exception of. `MCAppInstall` names
the files.

### ApiConfig

`apiMutex` is static in `API.h`: `QmlSystem.cpp` and `API.cpp` each have their
own. `owner` has both. `setDefaultAPI` writes the three parts one after the
other and a request copies them one after the other (`WritePart`, `CopyPart`).
`LoadConfigDB`, `OpenConfigDB`, `ReadConfig` are the GUI thread's; using the
database while it is closed sets `broken`. `ApiMutex_Shared` is the code as it
looks, with one mutex: a setter would then wait for itself.

### Requests

`requestList` under one requestID; `Build` appends the one, two or three requests
of a build call with the next ids; `Take` empties the list under its lock. The
reply of a batch is put where the panel looks for the id. `overtaken` records a
task that took the list in the middle of a tick.

### Balances

A value is represented by the account it belongs to, so that the properties can
ask whose it is. `Answer` is the node, `BalancesUpdated`, `NonceUpdated` and
`ListUpdated` the slots of `AVMEAccountHeader` and the accounts screen;
`TokensFor` is the comparison of addresses that the tokens get and the coin does
not. The list takes replies by position.

### Ledger

A payload is a range of the message (`Payloads`), a package a sequence of frames
(`Packages`). `OpenDevice`, `WritePackage`, `ReadFirst`, `ReadMore`,
`CloseDevice` are `exchangeMessage`: the first read waits, each other one 100 ms,
an error of hidapi is the -1 that an unsigned variable does not notice. A device
that is there may not let itself be opened: `device_handle`, which says what the
pointer is worth, is then null and the exchange has no answer. An empty message has no payload: nothing is sent and nothing read (`Then`).
`Decode` is `ledger.cpp`. Plugs
may be pulled and exchanged at any point.

### Amounts

Not a process: a state is one call, and the single step computes it the way the
code does, digits to numbers and back, modulo `2^Width`. Input and output of an
exchange have decimals of their own. A pool may be empty: the division by zero is
`Thrown`. The property computes it again in unbounded arithmetic (`Exact`).

### MCOutside

These parts and `StoredPass` share no variable. Their interleavings would only
multiply the states, so one is chosen and moves while the others rest in one of
their initial states. A state invariant of one part holds in this sum exactly if
it holds in the part alone (`PartsDoNotInterfere` proves one direction for all).

## 3. Runs

"pass" runs check invariants and properties over all reachable states of the
instance. "violation" runs check one statement the repository makes and show
that the code does not keep it. Every pass run also has, for each property, a
mutated definition under which the property fails.

| Run | Instance | Shows |
|---|---|---|
| `disclosure` | 2 handlers on 2 connections, 1 website, 2 accounts, wallets closed and loaded, every kind of method but a transaction, missing fields, messages that name no website, nothing stored yet | `ConsentBeforeDisclosure`, `FreshAccount` |
| `popups` | 2 handlers, 2 websites or none named, all protected methods, missing fields, all faults, wallets loaded, a pool of 4 | `WebTypeOK`, `LockOwnership`, `NoStaleAnswer`, `AllowanceNamesAsker`, `OneQuestionPerSite`, `ImplementsHandleServer` |
| `transaction` | 2 requests, of which the user confirms at most one, 2 tries for it, 1 transaction of his own, a pool of 2, steps that fail or throw | `TransactionAnswered` |
| `ws_server` | 1 connection, 2 servers, 2 threads that stop them, 1 handler, 2 io threads | `WsTypeOK`, `StopQuiesces`, `OneOperation`, `StopReturns`, `WriterReturns` |
| `key_store` | 3 addresses, 4 key ids, 1 name, crashes and failing writes | `KeyTypeOK`, `ListIsBook`, `EraseForgets`, `ImplementsAccountBook` |
| `history` | 2 accounts, 2 transactions, 2 list tasks, 5 clicks | `HistTypeOK`, `OwnHistory`, `NoUnsetEntry`, `ErasedForGood`, `ShownIsStored` |
| `outside` | the parts of `MCOutside`, one at a time | `OutsideTypeOK` and, by part, |
| | stored password: 3 threads, 2 wallets, passwords kept 2 s, 9 s | `Expires` |
| | DApp: 2 tries, 4 files, 2 publications | `WholeOrNothing`, `OneVersion`, `PopupCloses` |
| | Ledger: messages around every limit of the framing, 2 plugs | `Framing`, `HandleIsOpen`, `SignatureIsGenuine`, `SigningEnds` |
| | balances: 2 accounts, 2 tasks, 3 changes | `BalancesMatch`, `HeaderSettles` |
| | requests: build calls of 1, 2 and 1 requests, 3 ticks | `RightPlaces` |
| | API: 2 tasks and the GUI thread, 2 own nodes, 4 calls | `EndpointWhole`, `LiveIsStored`, `SetterEnds` |
| | amounts: 20 bits, from 0 up, up to 4 decimals | `AmountsExact` |
| `foreign_txid` | 2 handlers, 1 own transaction | violates `AnswerIsOwn` |
| `sign_stuck` | 2 signature requests | violates `SignAnswered` |
| `lost_wakeup` | 1 request for the accounts | violates `PermissionAnswered` |
| `wallet_freeze` | 1 transaction request, a wallet is loaded | violates `WalletLoads` |
| `install_atomic` | the DApp of `outside` | violates `InstallsAtomic` |

### Why the bounds are enough

- Two handlers show every conflict over a mutex, since a mutex has one owner and
  one competitor that matters; the theorems of section 5 cover any number. One
  connection makes both share it; two connections let one close while the other
  stays. Two accounts are a current one and a former one. `disclosure` leaves out
  the states in which the GUI answered a transaction (`OnlyAsked`), because none of
  its messages is one.
- `popups` has two websites because a popup that names the wrong one needs two,
  and a pool that never fills so that only the popups decide. In `transaction` the
  pool is the smallest in which a waiting handler leaves room for its own task, and
  two of them take it all; two tries are a first one and a retry, and the
  transaction of his own is the one that can leave `autoCloseTimer` running. He
  confirms one request (`Confirmed`) and refuses or leaves the other, which would
  otherwise double each of these cases without a new one.
- The stored password needs the current thread, one that is about to clear, and one
  asleep with an old deadline. Four times the life of a password is time for all
  of them to follow each other.
- `ws_server` has one connection, because streams share no state but the io
  threads; two stops of that one connection can occupy both of those. Two tasks
  are a server and its successor.
- `key_store`: an account being imported, one being rewritten, one erased; the
  fourth id is a second key for one of them.
- `history`: five clicks are to choose an account, open the screen, erase,
  refresh, and choose another, or close the wallet in between. Transactions are not
  clicks and come on top.
- DApp: two tries are one that is repeated and the last one, which the code
  treats differently; two publications are the one that was installed and the one
  that comes in between.
- Ledger: the sizes are one below, at and above the ends of a frame and of a
  payload, with a path of four and of five components, and an empty message; two plugs exchange one
  device for another.
- Requests: three ticks are one whose task is late, one it interrupts, and one
  that starts clean; the middle build call has more than one request.
- API: two setters and a load, or a setter, a request and a load, with one call to
  spare.
- Amounts: the width is small so that products cross it, and `Number` has both
  sides of each bound at which one does (1048/1049 times 1000, 1051/1052 times
  997).

Symmetry is used where only safety is checked and the permutations map the constants
to themselves: handlers and websites in `popups`, in `disclosure` the two handlers
together with their connections, and the accounts. `CHECK_DEADLOCK FALSE` where the system may stop: all
messages answered and no popup open, a handler waiting that a finding is about,
the last second of the clock, no clicks left, the program terminated. In
`disclosure` and `key_store` deadlock is checked: the general GUI and the key
store can always go on.

### Fairness

Safety runs assume none. `WebPrompts!Fairness`: a handler that can take a lock
gets it, the pool starts queued tasks when it has room, the GUI thread delivers
signals and timers, a running task ends, if only by an exception, and the user
reacts in some way to each popup in front of him, always able to choose the
worst button. Nobody has to send a message, make a transaction of his own, load
a wallet or have a fault. `WsServer!WsFairness`: threads that can run do;
handshakes, writes and closes end, because the streams are set up with Beast's
suggested timeouts (`Server.cpp`, `on_run`); neither an incoming connection, nor
a message, nor the end of an idle read is assumed, and nobody has to stop a
server. `MCOutside!OutsideFairness`: a pool task or thread that was started goes
on (weak); a step of a Ledger operation is taken, which includes that the user of
the device answers in some way; the timer of the header, which never stops, gets
a pool thread again and again for balances and for the nonce (strong, since the
slots are taken and given back). Nobody has to press a button. A download may fail
every time and need not end at all: `API.cpp:137` reads without a timeout.

### The liveness statements name their exceptions

`TransactionAnswered`, `StopReturns`, `WriterReturns`, `PopupCloses` and `SigningEnds`
hold except in cases written into the formula. The exceptions are ways the code
really hangs. The run shows that in its instance, with its faults, there are no
others:

- `TransactionAnswered`: `autoCloseTimer`, started for an earlier transaction,
  closes the progress popup and with it the only button that would answer
  (`ClosedByTimer`); a task throws, on an answer of the node that is not json for
  example (`QmlSend.cpp:135`), and leaves the popup without any button
  (`LeftByTask`); handlers that wait for each other take the whole pool, and the task
  that would answer them never gets a thread (`PoolExhausted`).
- `StopReturns`: a handshake that ends or a server that starts after `stop` went
  through its lists; all io threads in `session::close` waiting for writes that
  need an io thread; a second close of a session whose first one failed.
- `WriterReturns`: `async_close` failed and kept `m_lock` (`Server.cpp:27`).
- `PopupCloses`: the task threw, so that its signal never came; a server stalls in
  the middle of a download.
- `SigningEnds`: the device was pulled out; the task then reads empty frames for
  ever (`comms.cpp:135`).
- `HeaderSettles`: says nothing while the user keeps changing accounts; the number
  of changes is bounded. The node is assumed to answer.

### The safety statements do too

Some invariants except exactly the case in which the code is known to fail. They do
not show that this case is harmless, and they would not notice it; they show that
nothing else leads there:

| Property | Excepted | Where the code meets it |
|---|---|---|
| `OwnHistory` | the account changes while a transaction or a list is under way (`overlap`) | `Wallet.cpp:474` |
| `NoUnsetEntry` | a refresh while the list is rebuilt (`raced`) | `Wallet.cpp:566` |
| `ErasedForGood` | an erased entry is refreshed before the screen changes, two list tasks at once (`raced`, `doubled`) | `HistoryScreen.qml:172` |
| `ShownIsStored` | two list tasks at once (`doubled`), what was filed since the list was read (`unlisted`) | `Wallet.cpp:509`, `QmlSend.cpp` |
| `OneVersion` | the program stopped in an install, the repository moved on (`crashed`, `published`) | `QmlApps.cpp:135` |
| `WholeOrNothing` | files left behind by an install that was cut short (`crashed`), empty last answers (`lost`), a removal that failed halfway (`stripped`) | `QmlApps.cpp:108`, `:139`, `:171` |
| `HandleIsOpen` | the device was pulled out (`pulled`) | `comms.cpp:92` |
| `SignatureIsGenuine` | a late frame, devices exchanged (`late`, `pulled`) | `comms.cpp:134`, `ledger.cpp:79` |
| `BalancesMatch` | a batch answered out of order (`unordered`) | `QmlAccount.cpp:248` |
| `RightPlaces` | replies in wrong fields after a list was taken early (`overtaken`) | `QmlApi.cpp:12` |
| `LiveIsStored` | a setter at work while a wallet is loaded (`raced`), a database that refuses the value (`refused`) | `Wallet.cpp:111` |

## 4. What the runs found

Five statements of the repository fail (`findings` in `PROJECT.json`):

1. **foreign_txid.** `txStart` is given the random id that would tell popups
   apart and does not store it (`AVMEPopupTxProgress.qml:186`). A site can be
   answered with the id of a transaction the user made for himself.
2. **sign_stuck.** `userHasSigned` is never reset. After one signature, Back
   on the next request answers nobody; its handler keeps
   `globalUserInputRequest` and no site is asked anything any more.
3. **lost_wakeup.** `askForPermission` is emitted before its answer mutex is
   locked for the first time (`QmlServer.cpp:122`). Transactions and signatures
   do it in the right order.
4. **wallet_freeze.** `cleanAndCloseWallet` waits on the GUI thread for the pool
   to drain (`QmlSystem.h:93`); a handler that waits for the GUI never leaves it. It
   takes a request that arrives while the next wallet is being opened: the server
   still runs then, and the handler is waiting when it is stopped.
   `LoadWalletScreen.qml:27` has the symptom as a TODO.
5. **install_atomic.** "Installs are atomic" (`QmlSystem.h:597`): a file that comes
   empty in its last try is removed and the loop of tries ends without failing
   (`QmlApps.cpp:139`); the DApp is registered without the file.

Shown by the models without a run of their own, as part of an action or as an
exception a property names:

- A transaction that was broadcast but not seen in a block within 15 s is
  reported to the site as refused if the user closes the popup
  (`AVMEPopupTxProgress.qml:462`, `QmlServer.cpp:185`).
- `clearWebsitePermissionList` writes the list without the mutex that a handler
  holds while it scans it (`QmlServer.cpp:336`).
- Permissions of one wallet stay in force in the next if that has none stored
  (`QmlServer.cpp:277`).
- With every pool thread taken by a waiting handler, the task that would answer
  them cannot start (`Server.cpp:68`).
- A message without `__frameOrigin` throws with the permission list locked
  (`QmlServer.cpp:109`), or in the middle of the question (`:121`): no website is
  asked anything any more.
- Between `closeWallet` of the load screen (`LoadWalletScreen.qml:75`) and the stop of
  the server, a handler can still answer with the last account of the closed wallet, or
  with an empty one.
- A password is wiped early by the thread of an earlier one, and survives
  `Wallet::close` (`Wallet.cpp:12`, `Wallet.h:111`).
- Two overlapping calls of `Server::stop` end the program.
- A crash during an import can cost another account its secret, whose file was
  being rewritten; a failed save can leave an address with two keys.
- A transaction is filed under whatever account is current when the node answers
  (`Wallet.cpp:474`); a refresh while the list is rebuilt files an entry nobody
  set; an erased entry comes back if it is refreshed before the screen changes; a
  pending transaction is marked invalid at its first refresh, whatever its age,
  and stays so after it is confirmed; a refresh without network, or of a reverted
  transaction, throws on the GUI thread; `saveTxToHistory` does not reload the
  list.
- A download that fails keeps the file of an earlier install, and the test for its
  existence takes it for the new one (`QmlApps.cpp:135`).
- Versions are compared component by component: 2.0.0 installed counts as older
  than 1.9.0 (`AVMEPanelApps.qml:63`). It stays without consequence only because
  the published list never goes back.
- A frame the Ledger sends late is read as the answer to the next package; an
  answer of one frame makes `size() - 2` wrap around (`encoding.cpp:433`); the
  second payload of a personal message is marked as a first one
  (`encoding.cpp:193`).
- A task that takes the request list in the middle of a tick splits a batch, and
  the rest of the tick starts again at id 1: replies land in wrong fields
  (`QmlApi.cpp:12`).
- The coin balance is set before addresses are compared, so that it can be of the
  account before (`AVMEAccountHeader.qml:43`); `getAllAVAXBalances` gives replies
  to addresses by position (`QmlAccount.cpp:248`).
- Opening the configuration database on the GUI thread closes it under a setter in
  the pool (`Wallet.cpp:111`). The two mutexes named `apiMutex` exclude less than
  they seem to, but with one the setter would lock it twice.
- The Pangolin formulas notice every product that wraps around, and divide by zero on
  an empty pool (`Pangolin.cpp:95`, `:113`); fee and total of a transaction are
  computed without a test.
- A `files.json` of the wrong shape leaves the popup open and the files of the install
  without an entry (`QmlApps.cpp:108`); a list without contents counts as downloaded.

## 5. Proofs

Theorems hold for every value of the constants that satisfies the assumptions
named in the modules: `ConstantsAssumption` (the message-to-connection map is
one, special values are not ordinary ones), `WebPromptsAssumption`,
`StoredPassAssumption`, `WsAssumption` (finitely many connections and callers, at
least one io thread, distinct kinds of things are distinct),
`KeyStoreAssumption`, `ApiConfigAssumption` and `HistoryAssumption` (special
values are not ordinary ones; finitely many list tasks), `AppInstallAssumption`
(at least one try and one publication, `files.json` is among the files every DApp
has), `BalancesAssumption` and `RequestsAssumption` (bounds are numbers, a build
call makes one to three requests), `LedgerAssumption` (a derivation path takes 17
or 21 bytes, a message any number), `AmountsAssumption` (digits are digits,
amounts and reserves fit the width).

Every safety property of a passing run is a theorem; what TLC checks alone is the
liveness. The modules: `HandleServerProofs`, `WebPromptsProofs`, `WsServerProofs`,
`KeyStoreProofs`, `HistoryProofs` for one module each, `ClientProofs` for
`AppInstall` and `ApiConfig`, `AmountsProofs` for `Amounts`, and `OutsideProofs` for
`StoredPass`, `Balances`, `Requests`, `Ledger` and the composition `MCOutside`.

**OutsideProofs, the stored password.** `Expires` is not inductive: it says nothing of threads
asleep. The inductive invariant `IInv` adds `Guarded` (some thread will still
look), and `ExpiresInv`: between the first write and the start of the thread no
second passes, the deadline in the field is the one given or 0, and no thread
sleeps past it. An older thread that zeroes the deadline only makes the newer one
wake sooner. Results: `TypeCorrect`, `AlwaysGuarded`, `AlwaysExpires`.

**HandleServerProofs.** One lemma per invariant and side (handler, GUI), one
step per action.
`LocksMatch`: `LockOwnership` is inductive with the types: each lock and release
moves the handler into or out of the region that `Held` names. The control points
after an exception (`listThrown`, `plThrown`, `thrown`) belong to the region they were
thrown in, which says what stays locked.
`PromptsExclude` follows from it: prompting handlers own
`globalUserInputRequest`.
`AnswersAreFresh`: the invariant `Armed` says that a handler that locked an
answer mutex and has not got it a second time still owns it, unless its prompt
was answered; so the second lock is only granted after an answer. It needs
`LockOwnership`: no other handler can re-arm the prompt meanwhile. Fresh means: after
the first lock. A transaction or signature is asked for after that lock
(`QmlServer.cpp:175`, `:228`), so what the GUI answers in between counts; that it is
not meant for this request, `foreign_txid` shows.
`DisclosureNeedsConsent`: `Routes` (which control points a method can be at) and
`Consent` (past the permission block a protected handler is in `consented`).
`AccountsAreCurrent`: `Current`: a handler for `eth_accounts` on an open connection
carries the account chosen last, or none, because choosing one closes the connections
first and no connection opens until it is set. `closeWallet` takes it away under open
connections, and this is the one exception of `FreshAccount`.
`SignalsReal`: queued signals belong to handlers that run.

**WebPromptsProofs.** `PopupsImplement` is the refinement: the initial states of
`WebSpec` are initial states of `Spec`, and each step of popups, pool and GUI
thread is a step of `HandleServer` or leaves its variables alone. The types are
needed to name the arguments of the entry points. Everything proved of
`HandleServer` under its most general GUI therefore holds of the real one.
`WebTypeCorrect` needs `SignalsReal`, because the popup shows the site of the
request in the signal. `AskerIsNamed`: `OneAsks`: one permission question is
pending at a time, in the queue or on the screen; the handler that asked it is at
one of the steps between the signal and its second lock, and the popup is closed
as long as the signal is queued. `SitesAskedOnce`: `StillUnset`: from the second scan
to the question the handler holds the permission list, and nobody else can put an
entry for a site into it.

**WsServerProofs.** `StopLeavesNothing`: `Owners` (who is in which phase of start
and stop owns `running`) and `Quiet` (without a running server nothing is
pending). `OperationsExclude`: `OneOperation` is inductive with the types.
`ListenersStopOnce`: `Dispatched` (a stop is only
dispatched to an io_context that is being run, and only to a listener that
exists) and `Once` (as long as stops do not overlap, a listener that is still on
the list or waits to be stopped has an open acceptor, and is not both, except
between the loop and the clear of the one stop under way).

**KeyStoreProofs.** `DiskInv` relates disk and memory: `Agree` (a secret file that
can be read holds what is in memory), `FileRight` (the keys file never gives an
address the key of another one), `LookupRight` (neither does the lookup by
address, which knows every address with a name), `InSync` (the keys file is what
`KeyManager` would write now, up to entries without a key). `ListsAgree` and
`ErasedIsGone` add `Faithful` (in memory, one key per address, which every lookup
finds, and the list is `book`) and `OnDiskFaithful` (the same of the files while
nothing is loaded). `FilesImplementBook` is the refinement of
`AccountBook`: each step changes the entry of one address, the one being imported,
rewritten or erased.

**ClientProofs, the node.** `EndpointsAreWhole`: `Threads` (who holds which mutex where)
and `Whole` (the parts written so far are the new value, those copied so far the live
one, and the three belong together when nobody writes). `StoredIsLive`: `InStep`: without a load under way, the
thread that holds the mutex of `QmlSystem.cpp` has stored what it makes live.

**ClientProofs, DApps.** `FilesAndEntryAgree`: `Accounted` (each file before the
current one is there or in `lost`), `Clean` (a folder without entry or download
is empty unless a stop left it), `NotThere` (during an install there is no entry,
or one whose files were removed). `VersionsDoNotMix`: `SameVersion`: fetched files
are of the version the repository holds, until it moves on.

**HistoryProofs.** `EntriesStayHome`: `AllOwn` follows the entries through
database, list, task and transaction under way; `Quiet` says that without the
overlap nothing else is at work while the account is changed.
`NothingUnset`: `ShownIsListed` (an entry on the screen is in the list unless a
list task ran) and `AllSet`.
`ErasedStaysErased`: `Answered` (an entry is only filed after the network answered,
so nobody is about to send an erased transaction) and `KeepsErased` (nothing erased
is on disk, in a list that will not be reloaded, or held by a refresh).
`ScreenAgrees`: `Alone` (one list task works, on a list it has cleared) and
`OnItsWay`: what was read last is in one place, with the task, in the list, in the
signal or on screen, and nowhere else in part. Changing accounts
meanwhile does no harm, and the property makes no exception of it.
`HistTypeCorrect`: `OneEach` (filing replaces the entry of the same hash) and
`Bounded` (tasks at work and signals under way together stay in the bound), which
counts over a finite set of tasks.

**OutsideProofs, balances.** `BalancesAreConsistent`: `BalInv` says what each task
carries: an answer for the nonce or the header is of the account it was asked for,
and a list of balances that is not in the order of the accounts sets `unordered`.

**OutsideProofs, requests.** `RepliesFindPlaces`: `place` (the ids a build call gets
if nothing is taken in between) is recursive; that it rises and tells calls apart is
proved by induction. `ListHolds`: the list under construction is a batch of the
current tick, in order and without gaps. `BatchesHold`: batches that were taken are
disjoint. `FieldsHold`: without `overtaken`, ids are places and replies land there.

**OutsideProofs, the Ledger.** Two halves. Of the encoding, which is pure: `Cut` (from
byte i on the payloads are the rest in order and without gaps) is proved by induction
from the end of the message, `CutOneMore` being its step; every payload but the last
fills its three frames, so packages and payloads coincide (`PackagesArePayloads`).
Of the exchange: `StaysOpen` (an operation that has not lost its device holds an open
handle from its first write to its close), `InOrder` (what is on the wire and what
was read are the answer to one package; a signature is only in the answer to the
last one) and `BySender` (for a transaction, who answered is who was asked for the
address). An empty message has no payload: nothing is sent, nothing read,
and the decoder looks for its two last frames in front of the vector. `Signature`
calls that outcome undefined; it counts as no signature.

**AmountsProofs.** `AmountsComeOutRight`. The conversions are recursive functions, and
the prover knows nothing of such a function but its equation. `Least` (from the
well-foundedness theorem of the library) gives `EveryNatural`: induction stated for
a set, as no prover can instantiate it for a formula. From it `Recursion`: where
arguments descend in rank, a function with the recursive equation exists. So `value`,
`digits`, `strip` and `tenTo` are what they say; by induction over texts, `digits`
and `value` are inverse, zeros in front change nothing, zeros behind multiply by ten
each, and `strip` keeps the value. `FixedPointKeeps`, `WeiOfFixedPoint` and
`ThereAndBack` are the two conversions. `WrapsExactly`: a product is smaller by at
least the range if it wraps around, so it does not divide back; the exchange tests
every product and the sum (`Exchanged`), the pool tests two products at once
(`DividesBack`, `Pooled`). `ExchangeThrows` and `LiquidityThrows`: the division by zero
is met exactly where the property says; otherwise `ExchangedFully` has the result.

**OutsideProofs, all together.** `OutsideTypeCorrect` and `PartsDoNotInterfere`: the
specification that the run checks has the invariants of its parts. A step of it is
a step of each part or leaves the part alone (`OutsideSteps`), so `OutsideInv` is the
conjunction of their inductive invariants.

Both refinements are proved in full: `WebPrompts` implements `HandleServer`, and
`KeyStore` implements `AccountBook`. Theorems that no run repeats: `TypeCorrect`
of `StoredPass` and of `HandleServer`, `AlwaysGuarded`, `ListenersStopOnce`,
`PromptsExclude`, `ApiTypeCorrect`, `AppTypeCorrect`, `LedgerTypeCorrect`,
`PartsDoNotInterfere`.

**Checked by TLC only.** Liveness: `TransactionAnswered`, `StopReturns`, `WriterReturns`, `PopupCloses`, `SigningEnds`, `HeaderSettles`,
`SetterEnds`, and the violated `SignAnswered`, `PermissionAnswered`,
`WalletLoads`: fairness and ENABLED are beyond the prover.

## 6. Running it

    tlc -config HandleServer_disclosure.cfg MCHandleServer
    tlapm HandleServerProofs.tla

and likewise for the others; `PROJECT.json` pairs modules and configurations. The
longest runs (`transaction`, `outside`, `ws_server`) take one to three minutes on two
cores.

## 7. Not modelled

Of the modelled parts:

- Damage to containers used by several threads without a lock (`sessions_` and
  `listeners_`, `Server.h:149`; `permissionList`, `QmlServer.cpp:336`;
  `currentAccountHistory`): they are values here.
- Contents of messages, transactions, gas and passwords; the popup that asks for a
  Ledger.
- In `WebPrompts`, the choice of an account, which the general GUI of `HandleServer`
  has, and what the load screen does when its task throws.
- In `WsServer`, an acceptor that cannot be opened at all, and read errors other
  than the peer's leaving: both end the operation like the modelled ones.
- In `KeyStore`, creating a wallet, operations of `KeyManager` the wallet never
  calls, and the current account, which an erased account can remain
  (`Wallet.cpp:253`).
- In `History`, a LevelDB that fails to open or to write. Databases are closed
  before the pool is waited for (`QmlSystem.h:86`): `History` ends the program
  there, `ApiConfig` sets `broken`.
- In `Ledger`, two operations at once on the unguarded `device_handle`
  (`AVMEPopupConfirmTx.qml:147`), the list of accounts that grows with every call
  (`QmlAccount.cpp:82`), and the exception on the text of a failed signature
  (`QmlAccount.cpp:279`), which leaves a website waiting like `sign_stuck` does.
- In `ApiConfig`, the same setting for the websocket plugin and the HTTPS exchange.
- In `Amounts`, what is computed in floating point (price impact, pool shares).

What the code does on purpose or always does, so that no property forbids it,
though a reader might wish for one: Close refuses a request whose transaction was
broadcast (`AVMEPopupTxProgress.qml:462`); permissions stay in force in a wallet
that has none (`QmlServer.cpp:277`); `Wallet::close` leaves the password
(`Wallet.cpp:65`).

Whole components:

- Contacts, tokens and the database of Ledger accounts: copies of one LevelDB
  wrapper, used by the GUI thread only, one call at a time. The two databases that
  are changed under running tasks are in `History` and `ApiConfig`.
- Wallet creation and seed: cryptography, two files written once. One thing to know:
  a seed that cannot be decrypted is reported as success (`BIP39.cpp:149`).
- Program start: one named mutex, which a killed process leaves behind
  (`main-gui.cpp:30`).
- Staking, ParaSwap and the price graphs: single calls of remote services.
- ABI and hexadecimal encoders, layout, screens that only display.
- Vendored code (`json.hpp`, `json_spirit`, most of `devcore`, `devcrypto`,
  `ethcore`). `json.hpp` alone is more than half of the C++ lines of the
  repository, so the share of all lines that the models stand for stays small
  whatever of the wallet is modelled.

## 8. What could follow

- A composition of `WsServer` and `HandleServer` over the session's state, to
  replace the atomic stop of `HandleServer`.
- A current account and its nonce in one model: `Balances` and `History` each have
  theirs, and `makeTransaction` uses both.
