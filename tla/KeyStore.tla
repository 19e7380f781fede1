------------------------------ MODULE KeyStore ------------------------------
(***************************************************************************)
(* The accounts of a wallet: Wallet's list, KeyManager's lookups and keys  *)
(* file, SecretStore's directory with one secret file per key.             *)
(*                                                                         *)
(* Operations run one at a time.  A secret file is rewritten in place, so  *)
(* it is Broken between its truncation and its last byte; the keys file is *)
(* written to a temporary file and renamed.  The program may stop at any   *)
(* point, and writing either kind of file may fail (FileError).  Passwords *)
(* and encryption are left out: keys are stored under the wallet's pass.   *)
(***************************************************************************)
EXTENDS Naturals, FiniteSets

CONSTANTS
    Addr,     \* addresses of the keys the user has
    Uuid,     \* bound: random ids drawn for keys
    Name,     \* names given to accounts
    Unnamed,  \* the name of an account KeyManager knows nothing about
    None,     \* no entry, no file
    Broken    \* a secret file that was truncated and not written

ASSUME KeyStoreAssumption ==
    /\ None \notin Addr \cup Uuid \cup Name
    /\ Broken \notin Addr \cup {None} /\ Unnamed \notin Name \cup {None}
    /\ None \notin [uuid : Uuid, name : Name]

VARIABLES
    secretFile,    \* disk: the address in each secret file
    keysFile,      \* disk: the entry of each address in wallet.info
    loaded,        \* a wallet is loaded
    m_keys,        \* SecretStore: address of each key
    m_uuidLookup, m_addrLookup, m_keyInfo,   \* KeyManager
    accounts,      \* Wallet: name of each listed address
    op,            \* the operation under way
    saving,        \* keys SecretStore::save has still to write
    writing,       \* the key whose file is truncated
    book,          \* history: what the user was told about each address
    failed         \* history: a file could not be written

disk == <<secretFile, keysFile>>
km == <<m_keys, m_uuidLookup, m_addrLookup, m_keyInfo>>
keyVars == <<disk, loaded, km, accounts, op, saving, writing, book, failed>>

Idle == [type |-> "idle", addr |-> None, uuid |-> None, name |-> None]
NoAddr == [u \in Uuid |-> None]
NoName == [a \in Addr |-> None]

KeyInit ==
    /\ secretFile = NoAddr /\ keysFile = NoName
    /\ loaded = FALSE
    /\ m_keys = NoAddr /\ m_uuidLookup = NoAddr
    /\ m_addrLookup = NoName /\ m_keyInfo = NoName
    /\ accounts = NoName
    /\ op = Idle /\ saving = {} /\ writing = None
    /\ book = NoName /\ failed = FALSE
-----------------------------------------------------------------------------
Keys(store) == {u \in Uuid : store[u] \in Addr}

\* Wallet::loadAccounts for the lookups it will find.
ListAccounts(keys, uuids, infos) ==
    [a \in Addr |->
       IF \E u \in Keys(keys) : uuids[u] = a
       THEN IF infos[a] = None THEN Unnamed ELSE infos[a]
       ELSE None]

\* KeyManager::write for the lookups and infos it will find.
KeysFile(uuids, infos) ==
    [a \in Addr |-> IF infos[a] = None THEN None
                    ELSE [uuid |-> uuids[a], name |-> infos[a]]]

\* What the constructor of KeyManager and load make of the files: the secrets
\* that can be read, and entries of the keys file only for keys that exist.  Of
\* two keys for one address the keys file decides, else the order of the map.
Readable == [u \in Uuid |-> IF secretFile[u] \in Addr THEN secretFile[u] ELSE None]
Known(a) == keysFile[a] # None /\ keysFile[a].uuid \in Keys(secretFile)
Candidates(a) == IF Known(a) THEN {keysFile[a].uuid}
                 ELSE IF \E u \in Uuid : secretFile[u] = a
                      THEN {u \in Uuid : secretFile[u] = a} ELSE {None}
Infos == [a \in Addr |-> IF Known(a) THEN keysFile[a].name ELSE None]

Load ==
    /\ ~loaded
    /\ loaded' = TRUE
    /\ m_keys' = Readable /\ m_uuidLookup' = Readable
    /\ m_addrLookup' \in {f \in [Addr -> Uuid \cup {None}] :
                            \A a \in Addr : f[a] \in Candidates(a)}
    /\ m_keyInfo' = Infos
    /\ accounts' = ListAccounts(Readable, Readable, Infos)
    /\ UNCHANGED <<disk, op, saving, writing, book, failed>>

Forget ==
    /\ loaded' = FALSE
    /\ m_keys' = NoAddr /\ m_uuidLookup' = NoAddr
    /\ m_addrLookup' = NoName /\ m_keyInfo' = NoName
    /\ accounts' = NoName
    /\ UNCHANGED disk

Close ==
    /\ loaded /\ op = Idle
    /\ Forget
    /\ UNCHANGED <<op, saving, writing, book, failed>>
-----------------------------------------------------------------------------
\* createAccount.  The popups refuse an address that is already listed.

Fresh(u) == /\ secretFile[u] = None /\ m_keys[u] = None
            /\ \A a \in Addr : keysFile[a] # None => keysFile[a].uuid # u

Import(a, n, u) ==
    /\ loaded /\ op = Idle
    /\ accounts[a] = None /\ Fresh(u)
    /\ op' = [type |-> "import", addr |-> a, uuid |-> u, name |-> n]
    /\ m_keys' = [m_keys EXCEPT ![u] = a]
    /\ saving' = Keys(m_keys')
    /\ UNCHANGED <<disk, loaded, m_uuidLookup, m_addrLookup, m_keyInfo, accounts,
                   writing, book, failed>>

SaveOpen_All(u) ==
    /\ u \in saving /\ writing = None
    /\ writing' = u
    /\ secretFile' = [k \in Uuid |-> IF k \in saving THEN Broken ELSE secretFile[k]]
    /\ UNCHANGED <<keysFile, loaded, km, accounts, op, saving, book, failed>>

\* save: each file is truncated, then written.
SaveOpen(u) ==
    /\ u \in saving /\ writing = None
    /\ writing' = u
    /\ secretFile' = [secretFile EXCEPT ![u] = Broken]
    /\ UNCHANGED <<keysFile, loaded, km, accounts, op, saving, book, failed>>

SaveWrite(u) ==
    /\ writing = u
    /\ writing' = None
    /\ saving' = saving \ {u}
    /\ secretFile' = [secretFile EXCEPT ![u] = m_keys[u]]
    /\ UNCHANGED <<keysFile, loaded, km, accounts, op, book, failed>>

\* writeFile throws; the pool swallows the exception and import goes no further.
FileError == failed' = TRUE /\ UNCHANGED <<keysFile, accounts, book>>

SaveFails ==
    /\ writing # None
    /\ op' = Idle /\ saving' = {} /\ writing' = None
    /\ FileError
    /\ UNCHANGED <<secretFile, loaded, km>>

\* The lookups are ahead of the keys file if that cannot be written.
ImportEnd ==
    LET a == op.addr IN
    /\ op.type = "import" /\ saving = {}
    /\ m_keyInfo' = [m_keyInfo EXCEPT ![a] = op.name]
    /\ m_addrLookup' = [m_addrLookup EXCEPT ![a] = op.uuid]
    /\ m_uuidLookup' = [m_uuidLookup EXCEPT ![op.uuid] = a]
    /\ \/ /\ keysFile' = KeysFile(m_addrLookup', m_keyInfo')
          /\ accounts' = ListAccounts(m_keys, m_uuidLookup', m_keyInfo')
          /\ book' = [book EXCEPT ![a] = op.name]
          /\ UNCHANGED failed
       \/ FileError
    /\ op' = Idle
    /\ UNCHANGED <<secretFile, loaded, m_keys, saving, writing>>
-----------------------------------------------------------------------------
\* eraseAccount: KeyManager::kill removes the secret file, then writes the keys
\* file.  An address without lookup has the null uuid and nothing is removed.

Drop(f, u) == IF u = None THEN f ELSE [f EXCEPT ![u] = None]

Erase_KeepsFile(a) ==
    LET u == m_addrLookup[a] IN
    /\ loaded /\ op = Idle /\ accounts[a] # None
    /\ op' = [type |-> "erase", addr |-> a, uuid |-> u, name |-> None]
    /\ m_uuidLookup' = Drop(m_uuidLookup, u)
    /\ m_addrLookup' = [m_addrLookup EXCEPT ![a] = None]
    /\ m_keyInfo' = [m_keyInfo EXCEPT ![a] = None]
    /\ m_keys' = Drop(m_keys, u)
    /\ UNCHANGED <<disk, loaded, accounts, saving, writing, book, failed>>

Erase_KeepsInfo(a) ==
    LET u == m_addrLookup[a] IN
    /\ loaded /\ op = Idle /\ accounts[a] # None
    /\ op' = [type |-> "erase", addr |-> a, uuid |-> u, name |-> None]
    /\ m_uuidLookup' = Drop(m_uuidLookup, u)
    /\ m_addrLookup' = [m_addrLookup EXCEPT ![a] = None]
    /\ m_keys' = Drop(m_keys, u)
    /\ secretFile' = Drop(secretFile, u)
    /\ UNCHANGED <<keysFile, m_keyInfo, loaded, accounts, saving, writing, book, failed>>

Erase(a) ==
    LET u == m_addrLookup[a] IN
    /\ loaded /\ op = Idle /\ accounts[a] # None
    /\ op' = [type |-> "erase", addr |-> a, uuid |-> u, name |-> None]
    /\ m_uuidLookup' = Drop(m_uuidLookup, u)
    /\ m_addrLookup' = [m_addrLookup EXCEPT ![a] = None]
    /\ m_keyInfo' = [m_keyInfo EXCEPT ![a] = None]
    /\ m_keys' = Drop(m_keys, u)
    /\ secretFile' = Drop(secretFile, u)
    /\ UNCHANGED <<keysFile, loaded, accounts, saving, writing, book, failed>>

EraseEnd_NoRefresh ==
    /\ op.type = "erase"
    /\ keysFile' = KeysFile(m_addrLookup, m_keyInfo)
    /\ book' = [book EXCEPT ![op.addr] = None]
    /\ op' = Idle
    /\ UNCHANGED <<secretFile, loaded, km, accounts, saving, writing, failed>>

\* Here the exception leaves a slot of the GUI: QML goes on without the refresh, or the
\* program stops (Crash).
EraseEnd ==
    /\ op.type = "erase"
    /\ \/ /\ keysFile' = KeysFile(m_addrLookup, m_keyInfo)
          /\ accounts' = ListAccounts(m_keys, m_uuidLookup, m_keyInfo)
          /\ book' = [book EXCEPT ![op.addr] = None]
          /\ UNCHANGED failed
       \/ FileError
    /\ op' = Idle
    /\ UNCHANGED <<secretFile, loaded, km, saving, writing>>
-----------------------------------------------------------------------------
\* The program stops.  From then on the user can only be told what is on disk.
OnDisk(a) == IF \E u \in Uuid : secretFile[u] = a
             THEN IF Known(a) THEN keysFile[a].name ELSE Unnamed
             ELSE None

Crash ==
    /\ loaded
    /\ Forget
    /\ op' = Idle /\ saving' = {} /\ writing' = None
    /\ book' = [a \in Addr |-> OnDisk(a)]
    /\ UNCHANGED failed

KeyNext ==
    \/ Load \/ Close \/ Crash \/ SaveFails \/ ImportEnd \/ EraseEnd
    \/ \E a \in Addr, n \in Name, u \in Uuid : Import(a, n, u)
    \/ \E u \in Uuid : SaveOpen(u) \/ SaveWrite(u)
    \/ \E a \in Addr : Erase(a)

KeySpec == KeyInit /\ [][KeyNext]_keyVars
-----------------------------------------------------------------------------
\* Properties

\* Types of files, lookups and of the operation under way.
KeyTypeOK ==
    /\ secretFile \in [Uuid -> Addr \cup {None, Broken}]
    /\ keysFile \in [Addr -> [uuid : Uuid, name : Name] \cup {None}]
    /\ loaded \in BOOLEAN /\ failed \in BOOLEAN
    /\ m_keys \in [Uuid -> Addr \cup {None}]
    /\ m_uuidLookup \in [Uuid -> Addr \cup {None}]
    /\ m_addrLookup \in [Addr -> Uuid \cup {None}]
    /\ m_keyInfo \in [Addr -> Name \cup {None}]
    /\ accounts \in [Addr -> Name \cup {Unnamed, None}]
    /\ book \in [Addr -> Name \cup {Unnamed, None}]
    /\ saving \subseteq Keys(m_keys) /\ writing \in saving \cup {None}

\* Between operations the list shows exactly the accounts the user was told of,
\* under the names he was told, whatever restarts and crashes lie between: what
\* KeyManager rebuilds from two kinds of files agrees with what it kept.  And each
\* can be used: getSecret and sendTransaction find its key by address.  (After a
\* failed save an address can have two keys, and erasing one leaves a listed account
\* without lookup, on which m_addrLookup.at throws.)
ListIsBook ==
    loaded /\ op = Idle /\ ~failed =>
       /\ accounts = book
       /\ \A a \in Addr : accounts[a] # None =>
             m_addrLookup[a] \in Uuid /\ m_keys[m_addrLookup[a]] = a

\* An erased account is gone for good: no secret of it is left in the directory.
EraseForgets ==
    \A a \in Addr : book[a] = None /\ op = Idle /\ ~failed =>
       \A u \in Uuid : secretFile[u] # a

\* Importing an account rewrites the secrets of all others in place, and the keys file
\* with the names of all.  Still the files implement an AccountBook: no step takes away
\* more than one account and only the one whose file is open can be lost, so a crash or
\* an error at any point costs at most that one; a name that is there stays, and the ones
\* an unwritten keys file left out can come with the next.
Book == INSTANCE AccountBook WITH
           entries <- [a \in Addr |-> OnDisk(a)],
           open <- IF writing = None THEN None ELSE m_keys[writing]
ImplementsAccountBook == Book!BookSpec
=============================================================================
