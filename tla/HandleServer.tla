---------------------------- MODULE HandleServer ----------------------------
(***************************************************************************)
(* QmlSystem::handleServer, the answer to one JSON-RPC message of the      *)
(* browser plugin, and the entry points of QmlSystem that the GUI thread   *)
(* calls to answer a prompt (qmlwrap/QmlServer.cpp).                       *)
(*                                                                         *)
(* on_read starts one pool task per message, so any number of handlers run *)
(* at once.  A handler that needs the user locks a chain of std::mutexes,  *)
(* emits a signal and then locks an "answer" mutex that it already owns:   *)
(* the GUI thread wakes it by unlocking that mutex for it.  (Locking a     *)
(* std::mutex twice and unlocking it from another thread are outside the   *)
(* C++ standard; the pthread mutexes of the supported builds block on the  *)
(* first and allow the second, and that is what is modelled.)              *)
(*                                                                         *)
(* The GUI is the most general one here: it may call any entry point at    *)
(* any time.  WebPrompts restricts it to what the QML popups do.           *)
(***************************************************************************)
EXTENDS Naturals, Sequences

CONSTANTS
    Req,        \* the messages the plugin sends, one handler task each
    Session,    \* the websocket connections
    SessionOf,  \* the connection each message arrives on
    Origin,     \* the websites ("__frameOrigin")
    Unnamed,    \* {"none"} if messages may come without "__frameOrigin", or {}
    Account,    \* the accounts of the wallets
    NoAccount,  \* "", the current account of a wallet that was closed
    Wallet,     \* the wallets that may be loaded, each with its config database
    Stored,     \* what "websitePermissions" may hold in them at the start
    Methods,    \* the methods the plugin calls, a subset of Method
    Complete,   \* a subset of BOOLEAN: may "from" and "to" be missing?
    Answer,     \* the transaction ids and signatures an approval carries
    Refused,    \* "", what RTtxid and RSmsg hold after a refusal
    NotFound,   \* what getConfigValue returns for a key that was never stored
    Nobody      \* the owner of a free mutex

Method == {"eth_chainId", "eth_subscribe", "wallet_addEthereumChain",
           "eth_accounts", "eth_sendTransaction", "eth_sign", "other"}

ASSUME ConstantsAssumption ==
    /\ SessionOf \in [Req -> Session]
    /\ Methods \subseteq Method
    /\ Complete \subseteq BOOLEAN
    /\ Refused \notin Answer
    /\ Unnamed \subseteq {"none"} /\ "none" \notin Origin
    /\ NoAccount \notin Account
    /\ Nobody \notin Req
    /\ NotFound \notin [Origin -> {"unset", "allow", "deny"}]
    /\ Stored \subseteq [Origin -> {"unset", "allow", "deny"}] \cup {NotFound}

\* The three conversations with the user: permission for a website, a
\* transaction, a signature.
Kind == {"PL", "RT", "RS"}

InputRequest == [PL |-> "PLuserInputRequest", RT |-> "RTuserInputRequest",
                 RS |-> "RSuserInputRequest"]
InputAnswer == [PL |-> "PLuserInputAnswer", RT |-> "RTuserInputAnswer",
                RS |-> "RSuserInputAnswer"]
RequestMutex == [RT |-> "requestTransactionMutex", RS |-> "requestSignMutex"]

AnswerMutex == {"PLuserInputAnswer", "RTuserInputAnswer", "RSuserInputAnswer"}
\* The mutexes that only the thread that locked them unlocks.
OwnedMutex == {"permissionListMutex", "globalUserInputRequest", "posRequest",
               "PLuserInputRequest", "RTuserInputRequest", "RSuserInputRequest",
               "requestTransactionMutex", "requestSignMutex"}
Mutex == OwnedMutex \cup AnswerMutex

\* permissionList, a vector of (website, bool) pairs with one pair per website.
PermissionList == [Origin -> {"unset", "allow", "deny"}]
EmptyList == [o \in Origin |-> "unset"]

VARIABLES
    pc,              \* where each handler is
    req,             \* the message of each handler
    response,        \* the response each handler has built so far
    sent,            \* the handlers whose response was written to the socket
    session,         \* each connection: new, open (is_running) or closed
    serving,         \* the websocket server accepts connections
    owner,           \* who owns each mutex
    signals,         \* the askFor... signals queued for the GUI thread
    status,          \* RTtxid and RSmsg, the answers the GUI thread left
    permissionList,  \* QmlSystem::permissionList
    config,          \* "websitePermissions" in each wallet's config database
    wallet,          \* the wallet that is loaded
    account,         \* getCurrentAccount
    chosen,          \* history: the account the user chose last
    answered,        \* history: the prompts answered since they were last armed
    consented        \* history: the handlers whose website was allowed while they ran

server == <<pc, req, response, sent, owner, signals>>
accounts == <<account, chosen>>
gui == <<serving, status, permissionList, config, wallet, accounts, answered, consented>>
vars == <<server, session, gui>>

Protected(m) == m \in {"eth_accounts", "eth_sendTransaction", "eth_sign"}

\* "from" and "to" are read for a transaction or a signature only, the name of the
\* website for what the user must permit only, and first.
Message == {q \in [method : Methods, origin : Origin \cup Unnamed, complete : Complete] :
              /\ ~q.complete => q.method \in {"eth_sendTransaction", "eth_sign"}
              /\ q.origin = "none" => Protected(q.method) /\ q.complete}
NoMessage == [method |-> "none", origin |-> "none", complete |-> TRUE]

\* A response: empty, the chain id, the node's reply, an error or a result.
Plain(t) == [type |-> t]
Result(v) == [type |-> "result", value |-> v]
Error(c) == [type |-> "error", code |-> c]
None == Plain("none")

Init ==
    /\ pc = [r \in Req |-> "idle"]
    /\ req = [r \in Req |-> NoMessage]
    /\ response = [r \in Req |-> None]
    /\ sent = {}
    /\ session = [s \in Session |-> "new"]
    /\ serving = TRUE
    /\ owner = [m \in Mutex |-> Nobody]
    /\ signals = <<>>
    /\ status = [k \in {"RT", "RS"} |-> Refused]
    /\ config \in [Wallet -> Stored]
    /\ wallet \in Wallet
    /\ permissionList =
          IF config[wallet] = NotFound THEN EmptyList ELSE config[wallet]
    /\ account \in Account /\ chosen = account
    /\ answered = {}
    /\ consented = {}
-----------------------------------------------------------------------------
\* Steps of a handler

KindOf(r) == IF req[r].method = "eth_sign" THEN "RS" ELSE "RT"
Live(r) == session[SessionOf[r]] = "open"
Thrown == {"listThrown", "plThrown", "thrown"}
Running(r) == pc[r] \notin {"idle", "done"} \cup Thrown
Allows(list, website) == website \in Origin /\ list[website] = "allow"

Goto(r, to) == pc' = [pc EXCEPT ![r] = to]
Acquire(r, m) == owner[m] = Nobody /\ owner' = [owner EXCEPT ![m] = r]
Release(ms) == owner' = [m \in Mutex |-> IF m \in ms THEN Nobody ELSE owner[m]]

\* A step that only locks m, and waits while m is owned.
LockStep(r, from, m, to) ==
    /\ pc[r] = from
    /\ Acquire(r, m)
    /\ Goto(r, to)
    /\ UNCHANGED <<req, response, sent, session, signals, gui>>

\* session::on_accept.
Connect(s) ==
    /\ serving /\ session[s] = "new"
    /\ session' = [session EXCEPT ![s] = "open"]
    /\ UNCHANGED <<server, gui>>

\* session::on_read: the message is handed to a pool task.
Receive(r, q) ==
    /\ pc[r] = "idle"
    /\ Live(r)
    /\ Goto(r, "start")
    /\ req' = [req EXCEPT ![r] = q]
    /\ consented' = IF Allows(permissionList, q.origin)
                    THEN consented \cup {r} ELSE consented
    /\ UNCHANGED <<response, sent, session, owner, signals, serving, status,
                   permissionList, config, wallet, accounts, answered>>

\* Methods answered at once.  "chainId" is assigned (=!) and not compared, so
\* wallet_addEthereumChain builds neither a result nor an error.
DirectAnswer ==
    [eth_chainId |-> Plain("0xa86a"), eth_subscribe |-> Error(32601),
     wallet_addEthereumChain |-> None]

AnswerDirectly(r) ==
    /\ pc[r] = "start"
    /\ req[r].method \in DOMAIN DirectAnswer
    /\ response' = [response EXCEPT ![r] = DirectAnswer[req[r].method]]
    /\ Goto(r, "posLock")
    /\ UNCHANGED <<req, sent, session, owner, signals, gui>>

\* eth_accounts reads the current account before the permission is known.
NeedPermission(r) ==
    /\ pc[r] = "start"
    /\ Protected(req[r].method)
    /\ response' = [response EXCEPT ![r] =
          IF req[r].method = "eth_accounts" THEN Result(account) ELSE None]
    /\ Goto(r, "listLock")
    /\ UNCHANGED <<req, sent, session, owner, signals, gui>>

\* Every other method goes to the public node, unless the connection is closed.
ForwardToApi(r) ==
    /\ pc[r] = "start"
    /\ req[r].method = "other"
    /\ Goto(r, IF Live(r) THEN "api" ELSE "done")
    /\ UNCHANGED <<req, response, sent, session, owner, signals, gui>>

\* The node's reply does not parse, or the connection was closed meanwhile:
\* the handler returns without an answer.  Otherwise the reply is passed on.
ApiReply(r) ==
    /\ pc[r] = "api"
    /\ \/ /\ Goto(r, "done")
          /\ UNCHANGED response
       \/ /\ Live(r)
          /\ response' = [response EXCEPT ![r] = Plain("api")]
          /\ Goto(r, "posLock")
    /\ UNCHANGED <<req, sent, session, owner, signals, gui>>

LockPermissionList_Unlocked(r) ==
    /\ pc[r] = "listLock"
    /\ Goto(r, "scan")
    /\ UNCHANGED <<req, response, sent, session, owner, signals, gui>>
LockPermissionList(r) == LockStep(r, "listLock", "permissionListMutex", "scan")

\* After the permission block: go on, or close the connection and return.
Permitted(r, yes) ==
    /\ Goto(r, IF ~yes THEN "done"
               ELSE IF req[r].method = "eth_accounts" THEN "posLock" ELSE "global")
    /\ session' = IF yes THEN session
                  ELSE [session EXCEPT ![SessionOf[r]] = "closed"]

\* Each round of the scan reads "__frameOrigin" as a string and throws if it is missing:
\* with the list locked, and all the more without an entry in it to compare with, when
\* the website is needed for the question.  The exception ends the pool task; no mutex
\* was locked through a guard object, so those it holds stay locked.
ScanThrows(r) ==
    /\ pc[r] = "scan" /\ req[r].origin = "none" /\ permissionList # EmptyList
    /\ Goto(r, "listThrown")
    /\ UNCHANGED <<req, response, sent, session, owner, signals, gui>>

\* What the scan finds for the website of a message.
Known(r) == IF req[r].origin = "none" THEN "unset" ELSE permissionList[req[r].origin]

ScanPermissionList_FoundIsAllowed(r) ==
    LET known == Known(r) IN
    /\ pc[r] = "scan" /\ (req[r].origin = "none" => permissionList = EmptyList)
    /\ IF known = "unset"
       THEN Goto(r, "plGlobal") /\ UNCHANGED <<owner, session>>
       ELSE Release({"permissionListMutex"}) /\ Permitted(r, TRUE)
    /\ UNCHANGED <<req, response, sent, signals, gui>>

\* The scan of permissionList: a website that is found is decided at once.
ScanPermissionList(r) ==
    LET known == Known(r) IN
    /\ pc[r] = "scan" /\ (req[r].origin = "none" => permissionList = EmptyList)
    /\ IF known = "unset"
       THEN Goto(r, "plGlobal") /\ UNCHANGED <<owner, session>>
       ELSE Release({"permissionListMutex"}) /\ Permitted(r, known = "allow")
    /\ UNCHANGED <<req, response, sent, signals, gui>>

LockGlobalForPermission(r) ==
    LockStep(r, "plGlobal", "globalUserInputRequest", "plRequest")
LockPermissionRequest(r) == LockStep(r, "plRequest", InputRequest["PL"], "plAsk")

Emit(r, k) == signals' = Append(signals, [kind |-> k, req |-> r])

\* The signal is emitted before the answer mutex is locked for the first time.
AskForPermission(r) ==
    /\ pc[r] = "plAsk" /\ req[r].origin # "none"
    /\ Emit(r, "PL")
    /\ Goto(r, "plLock")
    /\ UNCHANGED <<req, response, sent, session, owner, gui>>

AskThrows(r) ==
    /\ pc[r] = "plAsk" /\ req[r].origin = "none"
    /\ Goto(r, "plThrown")
    /\ UNCHANGED <<req, response, sent, session, owner, signals, gui>>

\* First lock of an answer mutex: from here on an answer is waited for.
ArmAnswer(r, k, from, to) ==
    /\ pc[r] = from
    /\ Acquire(r, InputAnswer[k])
    /\ answered' = answered \ {k}
    /\ Goto(r, to)
    /\ UNCHANGED <<req, response, sent, session, signals, serving, status,
                   permissionList, config, wallet, accounts, consented>>

LockPermissionAnswer(r) == ArmAnswer(r, "PL", "plLock", "plWait")
WaitPermissionAnswer(r) == LockStep(r, "plWait", InputAnswer["PL"], "plRescan")

RescanPermissionList_KeepsGlobal(r) ==
    /\ pc[r] = "plRescan"
    /\ Release({InputAnswer["PL"], InputRequest["PL"], "permissionListMutex"})
    /\ Permitted(r, permissionList[req[r].origin] = "allow")
    /\ UNCHANGED <<req, response, sent, signals, gui>>

RescanPermissionList(r) ==
    /\ pc[r] = "plRescan"
    /\ Release({InputAnswer["PL"], InputRequest["PL"],
                "globalUserInputRequest", "permissionListMutex"})
    /\ Permitted(r, permissionList[req[r].origin] = "allow")
    /\ UNCHANGED <<req, response, sent, signals, gui>>

LockGlobal(r) == LockStep(r, "global", "globalUserInputRequest", "mutex")
LockRequestMutex(r) == LockStep(r, "mutex", RequestMutex[KindOf(r)], "request")
LockInputRequest(r) == LockStep(r, "request", InputRequest[KindOf(r)], "lock")
LockInputAnswer_Once(r) ==
    /\ pc[r] = "lock"
    /\ Goto(r, "ask")
    /\ answered' = answered \ {KindOf(r)}
    /\ UNCHANGED <<req, response, sent, session, owner, signals, serving, status,
                   permissionList, config, wallet, accounts, consented>>
LockInputAnswer(r) == ArmAnswer(r, KindOf(r), "lock", "ask")

\* emit askForTransaction / askForSign, once every field was read.
AskUser(r) ==
    /\ pc[r] = "ask"
    /\ req[r].complete
    /\ Emit(r, KindOf(r))
    /\ Goto(r, "wait")
    /\ UNCHANGED <<req, response, sent, session, owner, gui>>

\* "from" or "to" is missing: reading it throws, with the locks of the prompt held.
MissingField(r) ==
    /\ pc[r] = "ask"
    /\ ~req[r].complete
    /\ Goto(r, "thrown")
    /\ UNCHANGED <<req, response, sent, session, owner, signals, gui>>

WaitInputAnswer(r) == LockStep(r, "wait", InputAnswer[KindOf(r)], "read")

ReadStatus_Unchecked(r) ==
    LET k == KindOf(r) IN
    /\ pc[r] = "read"
    /\ response' = [response EXCEPT ![r] = Result(status[k])]
    /\ Release({InputAnswer[k], InputRequest[k], RequestMutex[k],
                "globalUserInputRequest"})
    /\ Goto(r, "posLock")
    /\ UNCHANGED <<req, sent, session, signals, gui>>

ReadStatus(r) ==
    LET k == KindOf(r) IN
    /\ pc[r] = "read"
    /\ response' = [response EXCEPT ![r] =
          IF status[k] = Refused THEN Error(4001) ELSE Result(status[k])]
    /\ Release({InputAnswer[k], InputRequest[k], RequestMutex[k],
                "globalUserInputRequest"})
    /\ Goto(r, "posLock")
    /\ UNCHANGED <<req, sent, session, signals, gui>>

LockPosRequest(r) == LockStep(r, "posLock", "posRequest", "write")

WriteResponse(r) ==
    /\ pc[r] = "write"
    /\ sent' = IF Live(r) THEN sent \cup {r} ELSE sent
    /\ Release({"posRequest"})
    /\ Goto(r, "done")
    /\ UNCHANGED <<req, response, session, signals, gui>>

Handler(r) ==
    \/ AnswerDirectly(r) \/ NeedPermission(r) \/ ForwardToApi(r) \/ ApiReply(r)
    \/ LockPermissionList(r) \/ ScanPermissionList(r) \/ ScanThrows(r)
    \/ LockGlobalForPermission(r) \/ LockPermissionRequest(r)
    \/ AskForPermission(r) \/ AskThrows(r) \/ LockPermissionAnswer(r)
    \/ WaitPermissionAnswer(r) \/ RescanPermissionList(r)
    \/ LockGlobal(r) \/ LockRequestMutex(r) \/ LockInputRequest(r)
    \/ LockInputAnswer(r) \/ AskUser(r) \/ MissingField(r)
    \/ WaitInputAnswer(r) \/ ReadStatus(r)
    \/ LockPosRequest(r) \/ WriteResponse(r)
-----------------------------------------------------------------------------
\* Entry points of QmlSystem called on the GUI thread

SetPermissionList(list) ==
    /\ permissionList' = list
    /\ consented' = consented \cup
          {r \in Req : Running(r) /\ Allows(list, req[r].origin)}

\* The stored list gets one more entry and permissionList is loaded from it.
AddToPermissionList(website, allow) ==
    LET stored == IF config[wallet] = NotFound THEN EmptyList ELSE config[wallet]
        new == [stored EXCEPT ![website] = IF allow THEN "allow" ELSE "deny"]
    IN  /\ config' = [config EXCEPT ![wallet] = new]
        /\ SetPermissionList(new)
        /\ Release({InputAnswer["PL"]})
        /\ answered' = answered \cup {"PL"}
        /\ UNCHANGED <<serving, status, wallet, accounts>>

ClearWebsitePermissionList ==
    /\ config' = [config EXCEPT ![wallet] = EmptyList]
    /\ SetPermissionList(EmptyList)
    /\ UNCHANGED <<serving, status, wallet, accounts, answered>>

\* requestedTransactionStatus (RT) and requestedSignStatus (RS).
RequestedStatus(k, v) ==
    /\ status' = [status EXCEPT ![k] = v]
    /\ Release({InputAnswer[k]})
    /\ answered' = answered \cup {k}
    /\ UNCHANGED <<serving, permissionList, config, wallet, accounts, consented>>

StopServer_LeavesOpen == UNCHANGED session

\* Server::stop returns once every connection it knows is closed.
StopServer ==
    session' = [s \in Session |->
                  IF session[s] = "open" THEN "closed" ELSE session[s]]

\* chooseSelectedAccount: stopWSServer closes every connection, then the
\* account changes and the server is started again.
ChooseAccount(a) ==
    /\ StopServer
    /\ account' = a /\ chosen' = a /\ serving' = TRUE
    /\ UNCHANGED <<status, permissionList, config, wallet, answered, consented>>

\* loadWallet of the screen closes the wallet at once, before the passphrase of the next
\* one was tried: the current account is empty (a Ledger account stays), the server
\* still runs.
CloseWallet == account' \in {account, NoAccount}

\* onWalletLoaded: cleanAndCloseWallet stops the server, then waits for the pool ...
StopForWallet ==
    /\ StopServer /\ serving' = FALSE
    /\ UNCHANGED <<status, permissionList, config, wallet, accounts, answered, consented>>

\* loadPermissionList: a wallet that never stored a list leaves the old one.
LoadPermissionList(w) ==
    IF config[w] = NotFound THEN permissionList ELSE config[w]

\* ... before the databases of the new wallet are opened and its list is loaded.  The
\* server is started for the account of the last time; without one the user chooses.
LoadWallet(w) ==
    /\ ~serving /\ \A r \in Req : ~Running(r)
    /\ wallet' = w
    /\ \/ UNCHANGED <<accounts, serving>>
       \/ account' \in Account /\ chosen' = account' /\ serving' = TRUE
    /\ SetPermissionList(LoadPermissionList(w))
    /\ UNCHANGED <<session, status, config, answered>>

GuiStep ==
    /\ \/ \E o \in Origin, b \in BOOLEAN :
             AddToPermissionList(o, b) /\ UNCHANGED <<session, signals>>
       \/ ClearWebsitePermissionList /\ UNCHANGED <<session, owner, signals>>
       \/ \E k \in {"RT", "RS"}, v \in Answer \cup {Refused} :
             RequestedStatus(k, v) /\ UNCHANGED <<session, signals>>
       \/ \E a \in Account : ChooseAccount(a) /\ UNCHANGED <<owner, signals>>
       \/ /\ CloseWallet
          /\ UNCHANGED <<session, owner, signals, serving, status, permissionList, config,
                         wallet, chosen, answered, consented>>
       \/ StopForWallet /\ UNCHANGED <<owner, signals>>
       \/ \E w \in Wallet : LoadWallet(w) /\ UNCHANGED <<owner, signals>>
       \/ /\ signals # <<>>
          /\ signals' = Tail(signals)
          /\ UNCHANGED <<session, owner, gui>>
    /\ UNCHANGED <<pc, req, response, sent>>

Next ==
    \/ \E s \in Session : Connect(s)
    \/ \E r \in Req, q \in Message : Receive(r, q)
    \/ \E r \in Req : Handler(r)
    \/ GuiStep

Spec == Init /\ [][Next]_vars
-----------------------------------------------------------------------------
\* Properties

Label == {"idle", "start", "api", "listLock", "scan", "plGlobal", "plRequest",
          "plAsk", "plLock", "plWait", "plRescan", "global", "mutex", "request",
          "lock", "ask", "wait", "read", "posLock", "write", "done"} \cup Thrown

\* A refusal never travels as a result: RTtxid = "" becomes error 4001.
Response == {None, Plain("0xa86a"), Plain("api"), Error(32601), Error(4001)}
            \cup [type : {"result"}, value : Answer \cup Account \cup {NoAccount}]

\* Types of the handlers, of QmlSystem's fields and of the mutexes, with the
\* response of handleServer limited to what the plugin may be told.
TypeOK ==
    /\ pc \in [Req -> Label]
    /\ req \in [Req -> [method : Method \cup {"none"}, origin : Origin \cup {"none"},
                        complete : BOOLEAN]]
    /\ \A r \in Req : pc[r] # "idle" => req[r].method \in Method
    /\ response \in [Req -> Response]
    /\ sent \subseteq Req
    /\ session \in [Session -> {"new", "open", "closed"}] /\ serving \in BOOLEAN
    /\ owner \in [Mutex -> Req \cup {Nobody}]
    /\ signals \in Seq([kind : Kind, req : Req])
    /\ status \in [{"RT", "RS"} -> Answer \cup {Refused}]
    /\ permissionList \in PermissionList
    /\ config \in [Wallet -> PermissionList \cup {NotFound}]
    /\ wallet \in Wallet
    /\ account \in Account \cup {NoAccount} /\ chosen \in Account
    /\ answered \subseteq Kind
    /\ consented \subseteq Req

\* The regions of handleServer between a lock and the matching unlock.
InPermissionPrompt == {"plRequest", "plAsk", "plLock", "plWait", "plRescan", "plThrown"}
InPermission == {"scan", "plGlobal", "listThrown"} \cup InPermissionPrompt
InPrompt == {"mutex", "request", "lock", "ask", "wait", "read", "thrown"}

Held(r, m) ==
    \/ m = "permissionListMutex" /\ pc[r] \in InPermission
    \/ m = "globalUserInputRequest" /\ pc[r] \in InPermissionPrompt \cup InPrompt
    \/ m = "PLuserInputRequest" /\ pc[r] \in InPermissionPrompt \ {"plRequest"}
    \/ /\ KindOf(r) = "RT"
       /\ \/ m = "requestTransactionMutex" /\ pc[r] \in InPrompt \ {"mutex"}
          \/ m = "RTuserInputRequest" /\ pc[r] \in InPrompt \ {"mutex", "request"}
    \/ /\ KindOf(r) = "RS"
       /\ \/ m = "requestSignMutex" /\ pc[r] \in InPrompt \ {"mutex"}
          \/ m = "RSuserInputRequest" /\ pc[r] \in InPrompt \ {"mutex", "request"}
    \/ m = "posRequest" /\ pc[r] = "write"

\* The hand-written lock and unlock calls of handleServer match: on every path
\* through it a handler owns exactly the mutexes of the regions it is in, and one that
\* ends by an exception for ever those of the region where it was thrown.
LockOwnership == \A r \in Req, m \in OwnedMutex : owner[m] = r <=> Held(r, m)

\* globalUserInputRequest: at any time at most one handler has a question, of
\* whatever kind, in front of the user, however the GUI behaves.
Prompting(r) == pc[r] \in {"plLock", "plWait", "plRescan", "ask", "wait", "read"}
PromptExclusion == \A r, q \in Req : Prompting(r) /\ Prompting(q) => r = q

\* Locking an answer mutex twice really waits: a handler reads RTtxid, RSmsg or
\* the permission list only if the GUI answered a prompt of that kind after the handler
\* had locked the mutex for the first time.  (For a permission that is after its question
\* was emitted.  A transaction or signature is asked for with the mutex locked already,
\* so an answer in between counts, whatever it was meant for.)
NoStaleAnswer ==
    \A r \in Req :
       /\ pc[r] = "read" => KindOf(r) \in answered
       /\ pc[r] = "plRescan" => "PL" \in answered

\* "we lock out the possibility for the website to get the user address until
\* he approves it": an account, transaction id or signature is written only to a
\* website that was on the list as allowed at some time while its request ran.
ConsentBeforeDisclosure ==
    \A r \in sent : Protected(req[r].method) => r \in consented

\* eth_accounts reads the account before it waits for the user, who may choose another
\* one, close the wallet and load the next meanwhile.  What is written is the current
\* account, as all connections are closed before there is another; or, after the wallet
\* was closed and while the server still runs, the last one it had.
FreshAccount ==
    [][\A r \in sent' \ sent : req[r].method = "eth_accounts" =>
          \/ response[r] = Result(account)
          \/ account = NoAccount /\ response[r] = Result(chosen)]_vars
=============================================================================
