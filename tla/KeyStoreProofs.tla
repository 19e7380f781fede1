--------------------------- MODULE KeyStoreProofs ---------------------------
(***************************************************************************)
(* The key store, for any number of addresses, key ids and names: what the *)
(* files promise about the accounts (AccountBook), and that the list of    *)
(* accounts and what the user was told stay one.                           *)
(***************************************************************************)
EXTENDS KeyStore, TLAPS

\* What KeyTypeOK leaves open of the operation under way: its fields, that keys are
\* saved for an import only, and that its key is saved or still to be.
OpOK ==
    /\ op.type \in {"idle", "import", "erase"}
    /\ op.type = "idle" => op = Idle
    /\ op.type # "import" => saving = {} /\ writing = None
    /\ op.type = "import" =>
          /\ op.addr \in Addr /\ op.uuid \in Uuid /\ op.name \in Name
          /\ m_keys[op.uuid] = op.addr
          /\ op.uuid \in saving \/ secretFile[op.uuid] = op.addr
          /\ accounts[op.addr] = None
    /\ op.type = "erase" => op.addr \in Addr
    /\ ~loaded => op.type = "idle"

\* A secret file that can be read holds what is in memory.
Agree == \A u \in Uuid : secretFile[u] \in {None, Broken} \/ (loaded => secretFile[u] = m_keys[u])

\* The keys file never gives an address the key of another one.
FileRight ==
    \A a \in Addr : keysFile[a] # None =>
       /\ secretFile[keysFile[a].uuid] \in {None, Broken, a}
       /\ m_keys[keysFile[a].uuid] \in {None, a}

\* Neither does the lookup by address, which knows every address with a name and agrees
\* with the lookup by key.
LookupRight ==
    \A a \in Addr : /\ m_addrLookup[a] # None =>
                          m_keys[m_addrLookup[a]] = a /\ m_uuidLookup[m_addrLookup[a]] = a
                    /\ m_keyInfo[a] # None => m_addrLookup[a] # None

\* What the keys file has for an address: the entry of its lookup, or none with a key.
Recorded(a) == keysFile[a] = [uuid |-> m_addrLookup[a], name |-> m_keyInfo[a]]
Stale(a) == keysFile[a] # None => m_keys[keysFile[a].uuid] = None

\* The keys file is what KeyManager would write now, up to entries without key and those
\* that an earlier write failed to put there; those are not on the list either.
InSync ==
    loaded => \A a \in Addr :
       /\ m_keyInfo[a] # None => Recorded(a) \/ (failed /\ Stale(a))
       /\ m_keyInfo[a] = None \/ accounts[a] = None => Stale(a)

\* Preserved by every step, and enough for the refinement.
DiskInv == KeyTypeOK /\ OpOK /\ Agree /\ FileRight /\ LookupRight /\ InSync

\* A record of the keys file is one or none.
LEMMA EntryOrNone ==
    ASSUME KeyTypeOK, NEW a \in Addr, keysFile[a] # None
    PROVE  keysFile[a].uuid \in Uuid /\ keysFile[a].name \in Name
BY DEF KeyTypeOK

\* It holds of an empty directory.
LEMMA InitDiskInv == KeyInit => DiskInv
<1> SUFFICES ASSUME KeyInit PROVE DiskInv
    OBVIOUS
<1> USE DEF KeyInit, NoAddr, NoName
<1>1. KeyTypeOK
    BY DEF KeyTypeOK
<1>2. OpOK
    BY DEF OpOK, Idle
<1>3. Agree /\ FileRight /\ LookupRight /\ InSync
    BY DEF Agree, FileRight, LookupRight, InSync
<1> QED BY <1>1, <1>2, <1>3 DEF DiskInv

\* The list has a name, Unnamed or nothing for each address.
LEMMA ListType ==
    ASSUME NEW k, NEW l, NEW i \in [Addr -> Name \cup {None}]
    PROVE  ListAccounts(k, l, i) \in [Addr -> Name \cup {Unnamed, None}]
BY DEF ListAccounts

\* So has what a crash leaves of it.
LEMMA OnDiskType ==
    ASSUME KeyTypeOK, NEW a \in Addr
    PROVE  OnDisk(a) \in Name \cup {Unnamed, None}
BY EntryOrNone DEF OnDisk, Known

\* Opening the wallet keeps the invariant.
LEMMA LoadStep == DiskInv /\ Load => DiskInv'
<1> SUFFICES ASSUME DiskInv, Load PROVE DiskInv'
    OBVIOUS
<1> USE KeyStoreAssumption DEF DiskInv, Load, disk
<1>1. Readable \in [Uuid -> Addr \cup {None}]
    BY DEF Readable
<1>2. Infos \in [Addr -> Name \cup {None}]
    BY EntryOrNone DEF Infos, Known
<1>3. m_addrLookup' \in [Addr -> Uuid \cup {None}]
    OBVIOUS
<1>4. ListAccounts(Readable, Readable, Infos) \in [Addr -> Name \cup {Unnamed, None}]
    BY <1>2, ListType
<1>5. saving = {} /\ writing = None
    BY DEF OpOK
<1>6. KeyTypeOK'
    BY <1>1, <1>2, <1>3, <1>4, <1>5 DEF KeyTypeOK, Keys
<1>7. OpOK'
    BY <1>5 DEF OpOK
<1>8. Agree'
    BY DEF Agree, Readable, KeyTypeOK
<1>9. FileRight'
    BY EntryOrNone DEF FileRight, Readable, KeyTypeOK
<1>10. ASSUME NEW a \in Addr
       PROVE  /\ Known(a) => m_addrLookup'[a] = keysFile[a].uuid /\ m_keyInfo'[a] = keysFile[a].name
              /\ ~Known(a) => m_keyInfo'[a] = None
              /\ m_addrLookup'[a] # None => m_addrLookup'[a] \in Uuid /\ secretFile[m_addrLookup'[a]] = a
    <2>1. m_addrLookup'[a] \in Candidates(a)
        OBVIOUS
    <2>2. CASE Known(a)
        <3>1. secretFile[keysFile[a].uuid] = a
            BY <2>2, EntryOrNone DEF Known, Keys, FileRight
        <3> QED BY <2>1, <2>2, <3>1, EntryOrNone DEF Candidates, Infos, Known
    <2>3. CASE ~Known(a)
        BY <2>1, <2>3 DEF Candidates, Infos
    <2> QED BY <2>2, <2>3
<1>11. LookupRight'
    BY <1>10, EntryOrNone DEF LookupRight, Known, Readable
<1>12. InSync'
    <2> SUFFICES ASSUME NEW a \in Addr
                 PROVE  /\ m_keyInfo'[a] # None => Recorded(a)'
                        /\ m_keyInfo'[a] = None \/ accounts'[a] = None => Stale(a)'
        BY DEF InSync
    <2>1. CASE Known(a)
        <3>1. m_keyInfo'[a] # None /\ Recorded(a)'
            BY <1>10, <2>1, EntryOrNone DEF Known, KeyTypeOK, Recorded
        <3>2. keysFile[a].uuid \in Uuid /\ secretFile[keysFile[a].uuid] = a
            BY <2>1, EntryOrNone DEF Known, Keys, FileRight
        <3>3. accounts'[a] # None
            BY <1>2, <3>1, <3>2 DEF ListAccounts, Readable, Keys
        <3> QED BY <3>1, <3>3
    <2>2. CASE ~Known(a)
        <3>1. m_keyInfo'[a] = None
            BY <1>10, <2>2
        <3>2. Stale(a)'
            BY <2>2, EntryOrNone DEF Known, Readable, Keys, Stale
        <3> QED BY <3>1, <3>2
    <2> QED BY <2>1, <2>2
<1> QED BY <1>6, <1>7, <1>8, <1>9, <1>11, <1>12

\* Closing the wallet and the end of the program forget what was in memory.
LEMMA ForgetStep ==
    ASSUME DiskInv, Forget, op' = Idle, saving' = {}, writing' = None, failed' \in BOOLEAN,
           book' \in [Addr -> Name \cup {Unnamed, None}]
    PROVE  DiskInv'
<1> USE DEF DiskInv, Forget, disk, NoAddr, NoName
<1>1. KeyTypeOK'
    BY DEF KeyTypeOK, Keys
<1>2. OpOK'
    BY DEF OpOK, Idle
<1>3. Agree' /\ FileRight' /\ LookupRight' /\ InSync'
    BY EntryOrNone DEF Agree, FileRight, LookupRight, InSync
<1> QED BY <1>1, <1>2, <1>3

\* A new key gets an id that no file and no lookup has.
LEMMA ImportStep ==
    ASSUME DiskInv, NEW a \in Addr, NEW n \in Name, NEW u \in Uuid, Import(a, n, u)
    PROVE  DiskInv'
<1> USE KeyStoreAssumption DEF DiskInv, Import, disk
<1>0. m_keys \in [Uuid -> Addr \cup {None}] /\ u \in Keys(m_keys') /\ m_keys'[u] = a
    BY DEF KeyTypeOK, Keys
<1>1. KeyTypeOK'
    <2>1. m_keys' \in [Uuid -> Addr \cup {None}]
        BY <1>0
    <2>2. writing = None
        BY DEF OpOK, Idle
    <2> QED BY <2>1, <2>2 DEF KeyTypeOK
<1>2. OpOK'
    BY <1>0 DEF OpOK
<1>3. Agree'
    BY <1>0 DEF Agree, Fresh
<1>4. FileRight'
    BY <1>0, EntryOrNone DEF FileRight, Fresh
<1>5. LookupRight'
    BY <1>0 DEF LookupRight, Fresh, KeyTypeOK
<1>6. InSync'
    <2>1. \A b \in Addr : Recorded(b)' <=> Recorded(b)
        BY DEF Recorded
    <2>2. \A b \in Addr : Stale(b) => Stale(b)'
        BY <1>0, EntryOrNone DEF Stale, Fresh, KeyTypeOK
    <2> QED BY <2>1, <2>2 DEF InSync
<1> QED BY <1>1, <1>2, <1>3, <1>4, <1>5, <1>6

\* Only the file of u is touched, and only ever gets what is in memory.
LEMMA SaveStep ==
    ASSUME DiskInv, NEW u \in Uuid, SaveOpen(u) \/ SaveWrite(u)
    PROVE  DiskInv'
<1> USE KeyStoreAssumption DEF DiskInv, SaveOpen, SaveWrite, km
<1>1. u \in saving /\ op.type = "import" /\ loaded /\ m_keys[u] \in Addr
    BY DEF KeyTypeOK, OpOK, Keys
<1>2. secretFile' \in [Uuid -> Addr \cup {None, Broken}] /\ secretFile'[u] \in {Broken, m_keys[u]}
    BY <1>1 DEF KeyTypeOK
<1>3. KeyTypeOK'
    BY <1>1, <1>2 DEF KeyTypeOK
<1>31. ASSUME NEW v \in Uuid, v # u
       PROVE  secretFile'[v] = secretFile[v]
    BY <1>31 DEF KeyTypeOK
<1>4. OpOK'
    <2>1. op.uuid \in Uuid /\ m_keys[op.uuid] = op.addr
        BY <1>1 DEF OpOK
    <2>2. op.uuid \in saving' \/ secretFile'[op.uuid] = op.addr
        <3>1. CASE op.uuid = u
            BY <1>1, <2>1, <3>1 DEF KeyTypeOK
        <3>2. CASE op.uuid # u
            BY <1>1, <1>31, <2>1, <3>2 DEF OpOK
        <3> QED BY <3>1, <3>2
    <2> QED BY <1>1, <2>1, <2>2 DEF OpOK
<1>5. Agree'
    BY <1>1, <1>2 DEF Agree, KeyTypeOK
<1>6. FileRight'
    <2> SUFFICES ASSUME NEW a \in Addr, keysFile[a] # None
                 PROVE  /\ secretFile'[keysFile[a].uuid] \in {None, Broken, a}
                        /\ m_keys[keysFile[a].uuid] \in {None, a}
        BY DEF FileRight
    <2>1. m_keys[keysFile[a].uuid] \in {None, a} /\ keysFile[a].uuid \in Uuid
        BY EntryOrNone DEF FileRight
    <2>2. CASE keysFile[a].uuid = u
        BY <1>1, <1>2, <2>1, <2>2
    <2>3. CASE keysFile[a].uuid # u
        BY <1>31, <2>1, <2>3 DEF FileRight
    <2> QED BY <2>1, <2>2, <2>3
<1>7. LookupRight' /\ InSync'
    BY DEF LookupRight, InSync, Recorded, Stale
<1> QED BY <1>3, <1>4, <1>5, <1>6, <1>7

\* A failed save leaves everything but the operation.
LEMMA SaveFailsStep == DiskInv /\ SaveFails => DiskInv'
<1> SUFFICES ASSUME DiskInv, SaveFails PROVE DiskInv'
    OBVIOUS
<1> USE DEF DiskInv, SaveFails, FileError, km
<1>1. KeyTypeOK'
    BY DEF KeyTypeOK
<1>2. OpOK'
    BY DEF OpOK, Idle
<1>3. Agree' /\ FileRight' /\ LookupRight'
    BY DEF Agree, FileRight, LookupRight
<1>4. InSync'
    BY DEF InSync, Recorded, Stale
<1> QED BY <1>1, <1>2, <1>3, <1>4

\* Writing the keys file and listing the accounts anew put files, lookups and list in step.
LEMMA KeysFileWritten ==
    ASSUME Agree', LookupRight', loaded',
           m_keys' \in [Uuid -> Addr \cup {None}],
           m_keyInfo' \in [Addr -> Name \cup {None}], m_addrLookup' \in [Addr -> Uuid \cup {None}],
           keysFile' = KeysFile(m_addrLookup', m_keyInfo'),
           accounts' = ListAccounts(m_keys', m_uuidLookup', m_keyInfo')
    PROVE  /\ keysFile' \in [Addr -> [uuid : Uuid, name : Name] \cup {None}]
           /\ accounts' \in [Addr -> Name \cup {Unnamed, None}]
           /\ FileRight' /\ InSync'
<1> USE KeyStoreAssumption
<1>1. ASSUME NEW b \in Addr
      PROVE  /\ m_keyInfo'[b] = None => keysFile'[b] = None
             /\ m_keyInfo'[b] # None =>
                   /\ keysFile'[b] = [uuid |-> m_addrLookup'[b], name |-> m_keyInfo'[b]]
                   /\ m_addrLookup'[b] \in Uuid /\ m_keyInfo'[b] \in Name
                   /\ keysFile'[b].uuid = m_addrLookup'[b]
                   /\ m_keys'[m_addrLookup'[b]] = b /\ m_uuidLookup'[m_addrLookup'[b]] = b
    BY DEF KeysFile, LookupRight
<1>2. keysFile' \in [Addr -> [uuid : Uuid, name : Name] \cup {None}]
    <2>1. ASSUME NEW b \in Addr PROVE keysFile'[b] \in [uuid : Uuid, name : Name] \cup {None}
        <3>1. CASE m_keyInfo'[b] = None
            BY <1>1, <3>1
        <3>2. CASE m_keyInfo'[b] # None
            <4>1. PICK u \in Uuid, n \in Name : u = m_addrLookup'[b] /\ n = m_keyInfo'[b]
                BY <1>1, <3>2
            <4>2. keysFile'[b] = [uuid |-> u, name |-> n]
                BY <1>1, <3>2, <4>1
            <4>3. [uuid |-> u, name |-> n] \in [uuid : Uuid, name : Name]
                OBVIOUS
            <4> QED BY <4>2, <4>3
        <3> QED BY <3>1, <3>2
    <2> QED BY <2>1 DEF KeysFile
<1>3. accounts' \in [Addr -> Name \cup {Unnamed, None}]
    BY ListType
<1>4. FileRight'
    <2> SUFFICES ASSUME NEW b \in Addr, keysFile'[b] # None
                 PROVE  /\ secretFile'[keysFile'[b].uuid] \in {None, Broken, b}
                        /\ m_keys'[keysFile'[b].uuid] \in {None, b}
        BY DEF FileRight
    <2>1. m_addrLookup'[b] \in Uuid /\ keysFile'[b].uuid = m_addrLookup'[b] /\ m_keys'[m_addrLookup'[b]] = b
        BY <1>1
    <2>2. secretFile'[m_addrLookup'[b]] \in {None, Broken, b}
        BY <2>1 DEF Agree
    <2> QED BY <2>1, <2>2
<1>5. InSync'
    <2> SUFFICES ASSUME NEW b \in Addr
                 PROVE  /\ m_keyInfo'[b] # None => Recorded(b)'
                        /\ m_keyInfo'[b] = None \/ accounts'[b] = None => Stale(b)'
        BY DEF InSync
    <2>1. CASE m_keyInfo'[b] = None
        BY <1>1, <2>1 DEF Stale
    <2>2. CASE m_keyInfo'[b] # None
        <3>1. m_addrLookup'[b] \in Keys(m_keys') /\ m_uuidLookup'[m_addrLookup'[b]] = b
            BY <1>1, <2>2 DEF Keys
        <3>2. accounts'[b] # None
            BY <2>2, <3>1 DEF ListAccounts
        <3> QED BY <1>1, <2>2, <3>2 DEF Recorded
    <2> QED BY <2>1, <2>2
<1> QED BY <1>2, <1>3, <1>4, <1>5

\* The end of an import gives its key the lookups and writes the keys file, or fails to.
LEMMA ImportEndStep == DiskInv /\ ImportEnd => DiskInv'
<1> SUFFICES ASSUME DiskInv, ImportEnd PROVE DiskInv'
    OBVIOUS
<1> DEFINE a == op.addr
<1> USE KeyStoreAssumption DEF DiskInv, ImportEnd
<1>1. /\ a \in Addr /\ op.uuid \in Uuid /\ op.name \in Name /\ loaded
      /\ m_keys[op.uuid] = a /\ secretFile[op.uuid] = a /\ writing = None /\ accounts[a] = None
    BY DEF OpOK, KeyTypeOK
<1>2. /\ m_keyInfo' \in [Addr -> Name \cup {None}]
      /\ m_addrLookup' \in [Addr -> Uuid \cup {None}]
      /\ m_uuidLookup' \in [Uuid -> Addr \cup {None}]
    BY <1>1 DEF KeyTypeOK
<1>3. m_keyInfo'[a] = op.name /\ m_addrLookup'[a] = op.uuid /\ m_uuidLookup'[op.uuid] = a
    BY <1>1 DEF KeyTypeOK
<1>4. ASSUME NEW b \in Addr, b # a
      PROVE  m_keyInfo'[b] = m_keyInfo[b] /\ m_addrLookup'[b] = m_addrLookup[b]
    BY <1>4 DEF KeyTypeOK
<1>41. \A u \in Uuid : u # op.uuid => m_uuidLookup'[u] = m_uuidLookup[u]
    BY DEF KeyTypeOK
<1>5. LookupRight'
    <2> SUFFICES ASSUME NEW b \in Addr
                 PROVE  /\ m_addrLookup'[b] # None =>
                              m_keys[m_addrLookup'[b]] = b /\ m_uuidLookup'[m_addrLookup'[b]] = b
                        /\ m_keyInfo'[b] # None => m_addrLookup'[b] # None
        BY DEF LookupRight
    <2>1. CASE b = a
        BY <1>1, <1>3, <2>1
    <2>2. CASE b # a
        <3>1. m_addrLookup[b] # None => m_addrLookup[b] \in Uuid /\ m_keys[m_addrLookup[b]] = b
            BY DEF LookupRight, KeyTypeOK
        <3> QED BY <1>1, <1>4, <1>41, <2>2, <3>1 DEF LookupRight
    <2> QED BY <2>1, <2>2
<1>6. Agree' /\ OpOK'
    BY <1>1 DEF Agree, OpOK, Idle
<1>7. CASE /\ keysFile' = KeysFile(m_addrLookup', m_keyInfo')
           /\ accounts' = ListAccounts(m_keys, m_uuidLookup', m_keyInfo')
           /\ book' = [book EXCEPT ![a] = op.name] /\ UNCHANGED failed
    <2>1. m_keys' \in [Uuid -> Addr \cup {None}] /\ loaded'
          /\ accounts' = ListAccounts(m_keys', m_uuidLookup', m_keyInfo')
        BY <1>1, <1>7 DEF KeyTypeOK
    <2>2. /\ keysFile' \in [Addr -> [uuid : Uuid, name : Name] \cup {None}]
          /\ accounts' \in [Addr -> Name \cup {Unnamed, None}]
          /\ FileRight' /\ InSync'
        BY <1>2, <1>5, <1>6, <1>7, <2>1, KeysFileWritten
    <2>3. book' \in [Addr -> Name \cup {Unnamed, None}]
        BY <1>1, <1>7 DEF KeyTypeOK
    <2>4. KeyTypeOK'
        BY <1>2, <1>7, <2>2, <2>3 DEF KeyTypeOK
    <2> QED BY <1>5, <1>6, <2>2, <2>4
<1>8. CASE FileError
    <2>1. failed' = TRUE /\ UNCHANGED <<keysFile, accounts, book>>
        BY <1>8 DEF FileError
    <2>2. KeyTypeOK' /\ FileRight'
        BY <1>2, <2>1 DEF KeyTypeOK, FileRight
    <2>3. InSync'
        <3>1. \A b \in Addr : Stale(b) => Stale(b)'
            BY <2>1 DEF Stale
        <3>2. Stale(a)
            BY <1>1 DEF InSync
        <3>3. \A b \in Addr : b # a /\ Recorded(b) => Recorded(b)'
            BY <1>4, <2>1 DEF Recorded
        <3> QED BY <1>1, <1>4, <2>1, <3>1, <3>2, <3>3 DEF InSync
    <2> QED BY <1>5, <1>6, <2>2, <2>3
<1> QED BY <1>7, <1>8

\* Erasing takes the key the lookup names, which is one of the address.
LEMMA EraseStep ==
    ASSUME DiskInv, NEW a \in Addr, Erase(a)
    PROVE  DiskInv'
<1> DEFINE u == m_addrLookup[a]
<1> USE KeyStoreAssumption DEF DiskInv, Erase
<1>1. saving = {} /\ writing = None /\ u \in Uuid \cup {None}
    BY DEF OpOK, Idle, KeyTypeOK
<1>2. \A v \in Uuid : /\ secretFile'[v] = IF v = u THEN None ELSE secretFile[v]
                      /\ m_keys'[v] = IF v = u THEN None ELSE m_keys[v]
    BY <1>1 DEF Drop, KeyTypeOK
<1>3. KeyTypeOK'
    <2>1. /\ secretFile' \in [Uuid -> Addr \cup {None, Broken}]
          /\ m_keys' \in [Uuid -> Addr \cup {None}]
          /\ m_uuidLookup' \in [Uuid -> Addr \cup {None}]
        BY <1>1 DEF Drop, KeyTypeOK
    <2>2. /\ m_addrLookup' \in [Addr -> Uuid \cup {None}]
          /\ m_keyInfo' \in [Addr -> Name \cup {None}]
        BY DEF KeyTypeOK
    <2> QED BY <1>1, <2>1, <2>2 DEF KeyTypeOK
<1>4. OpOK'
    BY <1>1 DEF OpOK
<1>5. Agree'
    BY <1>2 DEF Agree
<1>6. FileRight'
    BY <1>2, EntryOrNone DEF FileRight
<1>61. \A v \in Uuid : v # u => m_uuidLookup'[v] = m_uuidLookup[v]
    BY <1>1 DEF Drop, KeyTypeOK
<1>7. ASSUME NEW b \in Addr, b # a
      PROVE  m_addrLookup'[b] = m_addrLookup[b] /\ m_keyInfo'[b] = m_keyInfo[b]
    BY <1>7 DEF KeyTypeOK
<1>8. m_addrLookup'[a] = None /\ m_keyInfo'[a] = None
    BY DEF KeyTypeOK
<1>9. LookupRight'
    <2>1. ASSUME NEW b \in Addr, b # a, m_addrLookup[b] # None
          PROVE  m_keys'[m_addrLookup[b]] = b /\ m_uuidLookup'[m_addrLookup[b]] = b
        <3>1. /\ m_keys[m_addrLookup[b]] = b /\ m_uuidLookup[m_addrLookup[b]] = b
              /\ m_addrLookup[b] \in Uuid
            BY <2>1 DEF LookupRight, KeyTypeOK
        <3>2. m_addrLookup[b] # u
            BY <2>1, <3>1 DEF LookupRight
        <3> QED BY <1>2, <1>61, <3>1, <3>2
    <2> QED BY <1>7, <1>8, <2>1 DEF LookupRight
<1>10. InSync'
    <2> SUFFICES ASSUME NEW b \in Addr
                 PROVE  /\ m_keyInfo'[b] # None => Recorded(b)' \/ (failed /\ Stale(b)')
                        /\ m_keyInfo'[b] = None \/ accounts[b] = None => Stale(b)'
        BY DEF InSync
    <2>1. Stale(b) => Stale(b)'
        BY <1>2, EntryOrNone DEF Stale
    <2>2. CASE b # a
        <3>1. Recorded(b) => Recorded(b)'
            BY <1>7, <2>2 DEF Recorded
        <3> QED BY <1>7, <2>1, <2>2, <3>1 DEF InSync
    <2>3. CASE b = a
        <3>1. CASE Stale(a)
            BY <1>8, <2>1, <2>3, <3>1
        <3>2. CASE Recorded(a)
            <4>1. keysFile[a] # None => keysFile[a].uuid \in Uuid /\ keysFile[a].uuid = u
                BY <3>2, EntryOrNone DEF Recorded
            <4> QED BY <1>2, <1>8, <2>3, <4>1 DEF Stale
        <3> QED BY <3>1, <3>2 DEF InSync
    <2> QED BY <2>2, <2>3
<1> QED BY <1>3, <1>4, <1>5, <1>6, <1>9, <1>10

\* The end of an erasure writes the keys file, or fails to.
LEMMA EraseEndStep == DiskInv /\ EraseEnd => DiskInv'
<1> SUFFICES ASSUME DiskInv, EraseEnd PROVE DiskInv'
    OBVIOUS
<1> USE KeyStoreAssumption DEF DiskInv, EraseEnd, km
<1>1. op.addr \in Addr /\ loaded /\ saving = {} /\ writing = None
    BY DEF OpOK
<1>2. Agree' /\ LookupRight' /\ OpOK'
    BY <1>1 DEF Agree, LookupRight, OpOK, Idle
<1>3. CASE /\ keysFile' = KeysFile(m_addrLookup, m_keyInfo)
           /\ accounts' = ListAccounts(m_keys, m_uuidLookup, m_keyInfo)
           /\ book' = [book EXCEPT ![op.addr] = None] /\ UNCHANGED failed
    <2>1. /\ m_keys' \in [Uuid -> Addr \cup {None}] /\ loaded'
          /\ m_keyInfo' \in [Addr -> Name \cup {None}] /\ m_addrLookup' \in [Addr -> Uuid \cup {None}]
          /\ keysFile' = KeysFile(m_addrLookup', m_keyInfo')
          /\ accounts' = ListAccounts(m_keys', m_uuidLookup', m_keyInfo')
        BY <1>1, <1>3 DEF KeyTypeOK
    <2>2. /\ keysFile' \in [Addr -> [uuid : Uuid, name : Name] \cup {None}]
          /\ accounts' \in [Addr -> Name \cup {Unnamed, None}]
          /\ FileRight' /\ InSync'
        BY <1>2, <2>1, KeysFileWritten
    <2>3. book' \in [Addr -> Name \cup {Unnamed, None}]
        BY <1>3 DEF KeyTypeOK
    <2>4. KeyTypeOK'
        BY <1>3, <2>2, <2>3 DEF KeyTypeOK
    <2> QED BY <1>2, <2>2, <2>4
<1>4. CASE FileError
    <2>1. failed' = TRUE /\ UNCHANGED <<keysFile, accounts, book>>
        BY <1>4 DEF FileError
    <2>2. KeyTypeOK' /\ FileRight'
        BY <2>1 DEF KeyTypeOK, FileRight
    <2>3. InSync'
        BY <2>1 DEF InSync, Recorded, Stale
    <2> QED BY <1>2, <2>2, <2>3
<1> QED BY <1>3, <1>4

\* Every step keeps the invariant.
LEMMA DiskStep == DiskInv /\ [KeyNext]_keyVars => DiskInv'
<1> SUFFICES ASSUME DiskInv, [KeyNext]_keyVars PROVE DiskInv'
    OBVIOUS
<1>1. CASE Load
    BY <1>1, LoadStep
<1>2. CASE Close
    BY <1>2, ForgetStep DEF Close, DiskInv, OpOK, KeyTypeOK, Idle
<1>3. CASE Crash
    <2>1. book' \in [Addr -> Name \cup {Unnamed, None}]
        BY <1>3, OnDiskType DEF Crash, DiskInv
    <2> QED BY <1>3, <2>1, ForgetStep DEF Crash, DiskInv, KeyTypeOK
<1>4. CASE SaveFails
    BY <1>4, SaveFailsStep
<1>5. CASE ImportEnd
    BY <1>5, ImportEndStep
<1>6. CASE EraseEnd
    BY <1>6, EraseEndStep
<1>7. CASE \E a \in Addr, n \in Name, u \in Uuid : Import(a, n, u)
    BY <1>7, ImportStep
<1>8. CASE \E u \in Uuid : SaveOpen(u) \/ SaveWrite(u)
    BY <1>8, SaveStep
<1>9. CASE \E a \in Addr : Erase(a)
    BY <1>9, EraseStep
<1>10. CASE UNCHANGED keyVars
    BY <1>10 DEF keyVars, disk, km, DiskInv, KeyTypeOK, OpOK, Agree, FileRight, LookupRight,
                 InSync, Recorded, Stale
<1> QED BY <1>1, <1>2, <1>3, <1>4, <1>5, <1>6, <1>7, <1>8, <1>9, <1>10 DEF KeyNext

\* The files, KeyManager's lookups, the list and the operation have their types.
THEOREM KeyTypeCorrect == KeySpec => []KeyTypeOK
<1>1. KeySpec => []DiskInv
    BY InitDiskInv, DiskStep, PTL DEF KeySpec
<1> QED BY <1>1, PTL DEF DiskInv
-----------------------------------------------------------------------------
\* The refinement.

Entries == [a \in Addr |-> OnDisk(a)]
Opened == IF writing = None THEN None ELSE m_keys[writing]

\* A step that changes at most the file u, a key of a, leaves all other entries.
LEMMA OthersStay ==
    ASSUME DiskInv, NEW a \in Addr, NEW u \in Uuid, m_keys[u] = a,
           secretFile[u] \in {None, Broken, a}, secretFile'[u] \in {None, Broken, a},
           \A v \in Uuid : v # u => secretFile'[v] = secretFile[v],
           keysFile' = keysFile,
           NEW b \in Addr, b # a
    PROVE  OnDisk(b)' = OnDisk(b)
<1> USE KeyStoreAssumption
<1>1. \A v \in Uuid : secretFile'[v] = b <=> secretFile[v] = b
    OBVIOUS
<1>2. ASSUME keysFile[b] # None
      PROVE  keysFile[b].uuid \in Uuid /\ keysFile[b].uuid # u
    BY <1>2, EntryOrNone DEF DiskInv, FileRight
<1>3. Known(b)' <=> Known(b)
    BY <1>2 DEF Known, Keys
<1> QED BY <1>1, <1>3 DEF OnDisk

\* When a key of a goes away, its entry goes or loses its name, or a second key keeps it.
LEMMA WhatIsLeft ==
    ASSUME DiskInv, NEW a \in Addr, NEW u \in Uuid, m_keys[u] = a,
           secretFile'[u] \in {None, Broken},
           \A v \in Uuid : v # u => secretFile'[v] = secretFile[v],
           keysFile' = keysFile
    PROVE  OnDisk(a)' \in Book!Rest(OnDisk(a))
<1> USE KeyStoreAssumption
<1>1. \A v \in Uuid : secretFile'[v] = a => secretFile[v] = a
    OBVIOUS
<1>2. Known(a)' => Known(a)
    BY EntryOrNone DEF Known, Keys, DiskInv
<1>3. OnDisk(a) = None => ~ \E v \in Uuid : secretFile[v] = a
    BY EntryOrNone DEF OnDisk, Known, DiskInv
<1> QED BY <1>1, <1>2, <1>3 DEF OnDisk, Book!Rest

\* One entry changes: what the actions of AccountBook say of entries.
LEMMA OneEntry ==
    ASSUME NEW a \in Addr, NEW E, OnDisk(a)' \in E,
           \A b \in Addr : b # a => OnDisk(b)' = OnDisk(b)
    PROVE  Book!Becomes(a, E)
<1>1. Entries' = [Entries EXCEPT ![a] = OnDisk(a)']
    BY DEF Entries
<1> QED BY <1>1 DEF Book!Becomes, Entries

\* SaveOpen opens the entry of the key it truncates.
LEMMA SaveOpenBook ==
    ASSUME DiskInv, NEW u \in Uuid, SaveOpen(u)
    PROVE  \E a \in Addr : Book!Open(a)
<1> USE KeyStoreAssumption DEF SaveOpen
<1>0. PICK a \in Addr : a = m_keys[u]
    BY DEF DiskInv, KeyTypeOK, Keys
<1>1. a = m_keys[u] /\ m_keys' = m_keys /\ keysFile' = keysFile /\ loaded /\ writing = None /\ secretFile'[u] = Broken
    BY <1>0 DEF DiskInv, KeyTypeOK, OpOK, Keys, km
<1>2. \A v \in Uuid : v # u => secretFile'[v] = secretFile[v]
    BY DEF DiskInv, KeyTypeOK
<1>3. secretFile[u] \in {None, Broken, a}
    BY <1>1 DEF DiskInv, Agree
<1>4. \A b \in Addr : b # a => OnDisk(b)' = OnDisk(b)
    BY <1>1, <1>2, <1>3, OthersStay
<1>5. OnDisk(a)' \in Book!Rest(OnDisk(a))
    BY <1>1, <1>2, WhatIsLeft
<1>6. Book!Becomes(a, Book!Rest(OnDisk(a)))
    BY <1>1, <1>4, <1>5, OneEntry
<1>7. Entries[a] = OnDisk(a)
    BY <1>1 DEF Entries
<1>8. Opened = None /\ Opened' = a
    BY <1>1, KeyStoreAssumption DEF Opened, km
<1> QED BY <1>1, <1>6, <1>7, <1>8 DEF Book!Open, Opened, Entries

\* SaveWrite gives it back.
LEMMA SaveWriteBook ==
    ASSUME DiskInv, NEW u \in Uuid, SaveWrite(u)
    PROVE  Book!Written
<1> USE KeyStoreAssumption DEF SaveWrite
<1>0. PICK a \in Addr : a = m_keys[u]
    BY DEF DiskInv, KeyTypeOK, Keys
<1>1. a = m_keys[u] /\ m_keys' = m_keys /\ keysFile' = keysFile /\ loaded /\ writing = u /\ secretFile'[u] = a
    BY <1>0 DEF DiskInv, KeyTypeOK, OpOK, Keys, km
<1>2. \A v \in Uuid : v # u => secretFile'[v] = secretFile[v]
    BY DEF DiskInv, KeyTypeOK
<1>3. secretFile[u] \in {None, Broken, a}
    BY <1>1 DEF DiskInv, Agree
<1>4. \A b \in Addr : b # a => OnDisk(b)' = OnDisk(b)
    BY <1>1, <1>2, <1>3, OthersStay
<1>5. OnDisk(a)' \in Name \cup {Unnamed}
    <2>2. Known(a)' => keysFile'[a].name \in Name
        BY <1>1, EntryOrNone DEF Known, DiskInv
    <2> QED BY <1>1, <2>2 DEF OnDisk
<1>6. Book!Becomes(a, Name \cup {Unnamed})
    BY <1>1, <1>4, <1>5, OneEntry
<1>7. Opened = a /\ Opened' = None /\ a # None
    BY <1>1 DEF Opened
<1> QED BY <1>1, <1>6, <1>7 DEF Book!Written, Opened

\* A rewrite of the keys file gives names to entries that lack theirs, and changes no other.
LEMMA WriteBook ==
    ASSUME DiskInv, KeyTypeOK', FileRight', loaded, writing = None, writing' = None,
           secretFile' = secretFile, keysFile' = KeysFile(m_addrLookup', m_keyInfo'),
           \A b \in Addr : Stale(b) \/ keysFile'[b] = keysFile[b]
    PROVE  Book!Enter
<1> USE KeyStoreAssumption
<1>1. ASSUME NEW b \in Addr
      PROVE  OnDisk(b)' = OnDisk(b) \/ (OnDisk(b) = Unnamed /\ OnDisk(b)' \in Name)
    <2>1. CASE keysFile'[b] = keysFile[b]
        BY <2>1 DEF OnDisk, Known, Keys
    <2>2. CASE Stale(b)
        <3>1. ~Known(b)
            BY <2>2, EntryOrNone DEF Stale, Known, Keys, DiskInv, Agree
        <3>2. CASE Known(b)'
            <4>1. keysFile'[b] # None /\ keysFile'[b].uuid \in Uuid /\ keysFile'[b].name \in Name
                BY <3>2 DEF Known, KeyTypeOK
            <4>2. secretFile[keysFile'[b].uuid] = b
                BY <3>2, <4>1 DEF Known, Keys, FileRight
            <4> QED BY <3>1, <3>2, <4>1, <4>2 DEF OnDisk
        <3>3. CASE ~Known(b)'
            BY <3>1, <3>3 DEF OnDisk
        <3> QED BY <3>2, <3>3
    <2> QED BY <2>1, <2>2
<1>2. Entries' \in [Addr -> Name \cup {Unnamed, None}]
    <2>1. \A b \in Addr : OnDisk(b)' \in Name \cup {Unnamed, None}
        BY <1>1, OnDiskType DEF DiskInv
    <2> QED BY <2>1 DEF Entries
<1>3. Opened = None /\ Opened' = None
    BY DEF Opened
<1> QED BY <1>1, <1>2, <1>3 DEF Book!Enter, Entries, Opened

\* So does the end of an import, for its account and those before it that failed.
LEMMA ImportEndBook == DiskInv /\ ImportEnd => [Book!BookNext]_(Book!bookVars)
<1> SUFFICES ASSUME DiskInv, ImportEnd PROVE [Book!BookNext]_(Book!bookVars)
    OBVIOUS
<1> USE KeyStoreAssumption
<1>1. /\ op.addr \in Addr /\ loaded /\ writing = None /\ writing' = None
      /\ secretFile' = secretFile /\ accounts[op.addr] = None
    BY DEF DiskInv, OpOK, KeyTypeOK, ImportEnd
<1>2. CASE FileError
    <2>1. Entries' = Entries
        BY <1>1, <1>2 DEF FileError, Entries, OnDisk, Known, Keys
    <2>2. Opened' = Opened
        BY <1>1 DEF Opened
    <2> QED BY <2>1, <2>2 DEF Book!bookVars, Entries, Opened
<1>3. CASE keysFile' = KeysFile(m_addrLookup', m_keyInfo')
    <2>1. ASSUME NEW b \in Addr
          PROVE  Stale(b) \/ keysFile'[b] = keysFile[b]
        <3>1. CASE b = op.addr
            BY <1>1, <3>1 DEF DiskInv, InSync
        <3>2. CASE b # op.addr
            <4>1. m_keyInfo'[b] = m_keyInfo[b] /\ m_addrLookup'[b] = m_addrLookup[b]
                BY <3>2 DEF DiskInv, KeyTypeOK, ImportEnd
            <4> QED BY <1>1, <1>3, <4>1 DEF DiskInv, InSync, Recorded, KeysFile
        <3> QED BY <3>1, <3>2
    <2>2. KeyTypeOK' /\ FileRight'
        BY ImportEndStep DEF DiskInv
    <2>3. Book!Enter
        BY <1>1, <1>3, <2>1, <2>2, WriteBook
    <2> QED BY <2>3 DEF Book!BookNext
<1> QED BY <1>2, <1>3 DEF ImportEnd

\* Erasing removes a key of the address.
LEMMA EraseBook ==
    ASSUME DiskInv, NEW a \in Addr, Erase(a)
    PROVE  Book!Remove(a)
<1> USE KeyStoreAssumption
<1>1. writing = None /\ writing' = None /\ keysFile' = keysFile
    BY DEF DiskInv, OpOK, Idle, Erase
<1>2. PICK u \in Uuid \cup {None} : u = m_addrLookup[a]
    BY DEF DiskInv, KeyTypeOK
<1>3. CASE u = None
    <2>1. secretFile' = secretFile
        BY <1>2, <1>3 DEF Erase, Drop
    <2>2. \A b \in Addr : OnDisk(b)' = OnDisk(b)
        BY <1>1, <2>1 DEF OnDisk, Known, Keys
    <2>3. OnDisk(a)' \in Book!Rest(OnDisk(a))
        BY <2>2 DEF Book!Rest
    <2>4. Book!Becomes(a, Book!Rest(OnDisk(a)))
        BY <2>2, <2>3, OneEntry
    <2> QED BY <1>1, <2>4 DEF Book!Remove
<1>4. CASE u # None
    <2>1. u \in Uuid /\ m_keys[u] = a
        BY <1>2, <1>4 DEF DiskInv, LookupRight
    <2>2. /\ secretFile'[u] = None
          /\ \A v \in Uuid : v # u => secretFile'[v] = secretFile[v]
        BY <1>2, <2>1 DEF Erase, Drop, DiskInv, KeyTypeOK
    <2>3. secretFile[u] \in {None, Broken, a}
        BY <2>1 DEF DiskInv, Agree, Erase
    <2>4. \A b \in Addr : b # a => OnDisk(b)' = OnDisk(b)
        BY <1>1, <2>1, <2>2, <2>3, OthersStay
    <2>5. OnDisk(a)' \in Book!Rest(OnDisk(a))
        BY <1>1, <2>1, <2>2, WhatIsLeft
    <2>6. Book!Becomes(a, Book!Rest(OnDisk(a)))
        BY <2>4, <2>5, OneEntry
    <2> QED BY <1>1, <2>6 DEF Book!Remove
<1> QED BY <1>3, <1>4

\* The keys file loses nothing by the end of an erasure.
LEMMA EraseEndBook == DiskInv /\ EraseEnd => [Book!BookNext]_(Book!bookVars)
<1> SUFFICES ASSUME DiskInv, EraseEnd PROVE [Book!BookNext]_(Book!bookVars)
    OBVIOUS
<1> USE KeyStoreAssumption
<1>1. /\ loaded /\ writing = None /\ writing' = None /\ secretFile' = secretFile
      /\ UNCHANGED <<m_addrLookup, m_keyInfo>>
    BY DEF EraseEnd, DiskInv, OpOK, km
<1>2. CASE FileError
    <2>1. Entries' = Entries
        BY <1>1, <1>2 DEF FileError, Entries, OnDisk, Known, Keys
    <2>2. Opened' = Opened
        BY <1>1 DEF Opened
    <2> QED BY <2>1, <2>2 DEF Book!bookVars, Entries, Opened
<1>3. CASE keysFile' = KeysFile(m_addrLookup, m_keyInfo)
    <2>1. \A b \in Addr : Stale(b) \/ keysFile'[b] = keysFile[b]
        BY <1>1, <1>3 DEF DiskInv, InSync, Recorded, KeysFile
    <2>2. KeyTypeOK' /\ FileRight'
        BY EraseEndStep DEF DiskInv
    <2>3. keysFile' = KeysFile(m_addrLookup', m_keyInfo')
        BY <1>1, <1>3
    <2>4. Book!Enter
        BY <1>1, <2>1, <2>2, <2>3, WriteBook
    <2> QED BY <2>4 DEF Book!BookNext
<1> QED BY <1>2, <1>3 DEF EraseEnd

\* Steps that leave the files alone leave the book alone, but may give up an entry.
LEMMA SameFiles ==
    ASSUME DiskInv, secretFile' = secretFile, keysFile' = keysFile,
           writing' = None \/ (writing' = writing /\ m_keys' = m_keys)
    PROVE  [Book!BookNext]_(Book!bookVars)
<1>1. Entries' = Entries
    BY DEF Entries, OnDisk, Known, Keys
<1>2. CASE writing' = None /\ writing # None
    <2>1. Opened # None /\ Opened' = None
        BY <1>2, KeyStoreAssumption DEF Opened, DiskInv, KeyTypeOK, Keys
    <2> QED BY <1>1, <2>1 DEF Book!BookNext, Book!Abandoned, Entries, Opened
<1>3. CASE ~(writing' = None /\ writing # None)
    <2>1. Opened' = Opened
        BY <1>3 DEF Opened
    <2> QED BY <1>1, <2>1 DEF Book!bookVars, Entries, Opened
<1> QED BY <1>2, <1>3

\* Every step of the key store is one of the book, or none.
LEMMA StepIsBook == DiskInv /\ [KeyNext]_keyVars => [Book!BookNext]_(Book!bookVars)
<1> SUFFICES ASSUME DiskInv, [KeyNext]_keyVars PROVE [Book!BookNext]_(Book!bookVars)
    OBVIOUS
<1>1. CASE Load
    BY <1>1, SameFiles DEF Load, disk, DiskInv, OpOK
<1>2. CASE Close
    BY <1>2, SameFiles DEF Close, Forget, disk, DiskInv, OpOK, Idle
<1>3. CASE Crash
    BY <1>3, SameFiles DEF Crash, Forget, disk
<1>4. CASE SaveFails
    BY <1>4, SameFiles DEF SaveFails, FileError
<1>5. CASE ImportEnd
    BY <1>5, ImportEndBook
<1>6. CASE EraseEnd
    BY <1>6, EraseEndBook
<1>7. CASE \E a \in Addr, n \in Name, u \in Uuid : Import(a, n, u)
    BY <1>7, SameFiles DEF Import, disk, DiskInv, OpOK, Idle
<1>8. CASE \E u \in Uuid : SaveOpen(u) \/ SaveWrite(u)
    BY <1>8, SaveOpenBook, SaveWriteBook DEF Book!BookNext
<1>9. CASE \E a \in Addr : Erase(a)
    BY <1>9, EraseBook DEF Book!BookNext
<1>10. CASE UNCHANGED keyVars
    BY <1>10, SameFiles DEF keyVars, disk, km
<1> QED BY <1>1, <1>2, <1>3, <1>4, <1>5, <1>6, <1>7, <1>8, <1>9, <1>10 DEF KeyNext

\* The files of a wallet keep AccountBook's promise: what an import, an erasure, a failed
\* write or a crash can cost is the one account whose file is open.
THEOREM FilesImplementBook == KeySpec => ImplementsAccountBook
<1>1. KeySpec => []DiskInv
    BY InitDiskInv, DiskStep, PTL DEF KeySpec
<1>2. KeyInit => Book!BookInit
    BY KeyStoreAssumption DEF KeyInit, Book!BookInit, OnDisk, NoAddr
<1> QED BY <1>1, <1>2, StepIsBook, PTL DEF KeySpec, ImplementsAccountBook, Book!BookSpec
-----------------------------------------------------------------------------
\* The list and the book, as long as no file failed to be written.

\* The name under which the lookups list an address.
Shown(a) == IF \E u \in Uuid : m_uuidLookup[u] = a
            THEN IF m_keyInfo[a] = None THEN Unnamed ELSE m_keyInfo[a]
            ELSE None

\* In memory there is one key per address, saved unless it is still to be; every lookup
\* finds it except that of an import under way, and the list is what the user was told.
Faithful ==
    loaded /\ ~failed =>
       /\ \A u \in Uuid : m_uuidLookup[u] =
             IF op.type = "import" /\ u = op.uuid THEN None ELSE m_keys[u]
       /\ \A u \in Uuid : m_keys[u] \in Addr /\ u \notin saving => secretFile[u] = m_keys[u]
       /\ \A u, v \in Uuid : m_keys[u] \in Addr /\ m_keys[u] = m_keys[v] => u = v
       /\ \A u \in Uuid : m_uuidLookup[u] \in Addr => m_addrLookup[m_uuidLookup[u]] = u
       /\ \A a \in Addr : ~(op.type = "erase" /\ a = op.addr) => accounts[a] = Shown(a)
       /\ op.type = "erase" => \A u \in Uuid : m_keys[u] # op.addr
       /\ book = accounts

\* On disk there is one readable secret per address, and the book is what is there.
OnDiskFaithful ==
    ~loaded /\ ~failed =>
       /\ \A u, v \in Uuid : secretFile[u] \in Addr /\ secretFile[u] = secretFile[v] => u = v
       /\ \A a \in Addr : book[a] = OnDisk(a)

ListInv == DiskInv /\ Faithful /\ OnDiskFaithful

\* loadAccounts lists what the lookups know.
LEMMA ListsShown ==
    ASSUME NEW keys, NEW uuids, NEW infos, NEW a \in Addr,
           \A u \in Uuid : uuids[u] = a => keys[u] \in Addr
    PROVE  ListAccounts(keys, uuids, infos)[a] =
              IF \E u \in Uuid : uuids[u] = a
              THEN IF infos[a] = None THEN Unnamed ELSE infos[a]
              ELSE None
BY DEF ListAccounts, Keys

\* Between operations what is shown is what is on disk.
LEMMA ShownIsOnDisk ==
    ASSUME DiskInv, Faithful, loaded, ~failed, op.type = "idle", NEW a \in Addr
    PROVE  OnDisk(a) = Shown(a)
<1> USE KeyStoreAssumption
<1>1. \A u \in Uuid : m_uuidLookup[u] = m_keys[u] /\ (m_keys[u] \in Addr => secretFile[u] = m_keys[u])
    BY DEF Faithful, DiskInv, OpOK
<1>2. \A u \in Uuid : secretFile[u] = a <=> m_uuidLookup[u] = a
    BY <1>1 DEF DiskInv, Agree
<1>3. CASE m_keyInfo[a] = None
    <2>1. ~Known(a)
        BY <1>3, EntryOrNone DEF Known, DiskInv, InSync, Stale, Agree, Keys
    <2> QED BY <1>2, <1>3, <2>1 DEF OnDisk, Shown
<1>4. CASE m_keyInfo[a] # None
    <2>1. m_addrLookup[a] \in Uuid /\ m_keyInfo[a] \in Name /\ m_keys[m_addrLookup[a]] = a
        BY <1>4 DEF DiskInv, LookupRight, KeyTypeOK
    <2>2. keysFile[a] = [uuid |-> m_addrLookup[a], name |-> m_keyInfo[a]]
        BY <1>4 DEF DiskInv, InSync, Recorded
    <2>3. [uuid |-> m_addrLookup[a], name |-> m_keyInfo[a]] \in [uuid : Uuid, name : Name]
        BY <2>1
    <2>4. Known(a) /\ keysFile[a].name = m_keyInfo[a]
        BY <1>1, <2>1, <2>2, <2>3 DEF Known, Keys
    <2> QED BY <1>2, <1>4, <2>4 DEF OnDisk, Shown
<1> QED BY <1>3, <1>4

\* Opening the wallet rebuilds lookups and list from the files.
LEMMA LoadList == ListInv /\ Load => Faithful' /\ OnDiskFaithful'
<1> SUFFICES ASSUME ListInv, Load, ~failed PROVE Faithful'
    BY DEF Load, Faithful, OnDiskFaithful
<1> USE KeyStoreAssumption
<1>1. /\ ~loaded /\ op.type = "idle" /\ op' = op /\ saving' = {} /\ secretFile' = secretFile
      /\ keysFile' = keysFile /\ book' = book
    BY DEF ListInv, DiskInv, OpOK, Load, disk
<1>2. /\ \A u \in Uuid : m_keys'[u] = (IF secretFile[u] \in Addr THEN secretFile[u] ELSE None)
      /\ m_uuidLookup' = m_keys'
    BY DEF Load, Readable
<1>3. \A u, v \in Uuid : secretFile[u] \in Addr /\ secretFile[u] = secretFile[v] => u = v
    BY <1>1 DEF ListInv, OnDiskFaithful
<1>4. ASSUME NEW u \in Uuid, m_uuidLookup'[u] \in Addr
      PROVE  m_addrLookup'[m_uuidLookup'[u]] = u
    <2>1. PICK a \in Addr : a = secretFile[u] /\ m_uuidLookup'[u] = a
        BY <1>2, <1>4
    <2>2. m_addrLookup'[a] \in Candidates(a)
        BY DEF Load
    <2>3. CASE Known(a)
        <3>1. keysFile[a].uuid \in Uuid /\ secretFile[keysFile[a].uuid] = a
            BY <2>3, EntryOrNone DEF Known, Keys, ListInv, DiskInv, FileRight
        <3> QED BY <1>3, <2>1, <2>2, <2>3, <3>1 DEF Candidates
    <2>4. CASE ~Known(a)
        BY <1>3, <2>1, <2>2, <2>4 DEF Candidates
    <2> QED BY <2>3, <2>4
<1>5. ASSUME NEW a \in Addr
      PROVE  accounts'[a] = Shown(a)' /\ book'[a] = accounts'[a]
    <2>1. \A u \in Uuid : m_uuidLookup'[u] = a <=> secretFile[u] = a
        BY <1>2
    <2>2. accounts'[a] = Shown(a)'
        BY <1>2, ListsShown DEF Load, Shown
    <2>3. m_keyInfo'[a] = IF Known(a) THEN keysFile[a].name ELSE None
        BY DEF Load, Infos
    <2>4. Known(a) => keysFile[a].name \in Name
        BY EntryOrNone DEF Known, ListInv, DiskInv
    <2>5. Shown(a)' = OnDisk(a)
        BY <2>1, <2>3, <2>4 DEF Shown, OnDisk
    <2> QED BY <1>1, <2>2, <2>5 DEF ListInv, OnDiskFaithful
<1>6. book' = accounts'
    <2>1. book' \in [Addr -> Name \cup {Unnamed, None}] /\ accounts' \in [Addr -> Name \cup {Unnamed, None}]
        BY LoadStep DEF ListInv, DiskInv, KeyTypeOK
    <2> QED BY <1>5, <2>1
<1> QED BY <1>1, <1>2, <1>3, <1>4, <1>5, <1>6 DEF Faithful

\* Closing it leaves on disk what was shown.
LEMMA CloseList == ListInv /\ Close => Faithful' /\ OnDiskFaithful'
<1> SUFFICES ASSUME ListInv, Close PROVE Faithful' /\ OnDiskFaithful'
    OBVIOUS
<1>4. loaded' = FALSE /\ failed' = failed
    BY DEF Close, Forget
<1>5. CASE failed
    BY <1>4, <1>5 DEF Faithful, OnDiskFaithful
<1> SUFFICES ASSUME ~failed PROVE OnDiskFaithful'
    BY <1>4, <1>5 DEF Faithful
<1> USE KeyStoreAssumption
<1>1. /\ loaded /\ op.type = "idle" /\ secretFile' = secretFile
      /\ keysFile' = keysFile /\ book' = book
    BY DEF Close, Forget, disk, Idle
<1>2. \A u, v \in Uuid : secretFile[u] \in Addr /\ secretFile[u] = secretFile[v] => u = v
    BY <1>1 DEF ListInv, DiskInv, Agree, Faithful
<1>3. ASSUME NEW a \in Addr PROVE book'[a] = OnDisk(a)'
    <2>1. OnDisk(a)' = OnDisk(a)
        BY <1>1 DEF OnDisk, Known, Keys
    <2> QED BY <1>1, <2>1, ShownIsOnDisk DEF ListInv, Faithful
<1> QED BY <1>1, <1>2, <1>3 DEF OnDiskFaithful

\* After a crash the book is what is on disk.
LEMMA CrashList == ListInv /\ Crash => Faithful' /\ OnDiskFaithful'
<1> SUFFICES ASSUME ListInv, Crash PROVE Faithful' /\ OnDiskFaithful'
    OBVIOUS
<1>4. loaded' = FALSE /\ failed' = failed
    BY DEF Crash, Forget
<1>5. CASE failed
    BY <1>4, <1>5 DEF Faithful, OnDiskFaithful
<1> SUFFICES ASSUME ~failed PROVE OnDiskFaithful'
    BY <1>4, <1>5 DEF Faithful
<1> USE KeyStoreAssumption
<1>1. loaded /\ secretFile' = secretFile /\ keysFile' = keysFile
    BY DEF Crash, Forget, disk
<1>2. \A u, v \in Uuid : secretFile[u] \in Addr /\ secretFile[u] = secretFile[v] => u = v
    BY <1>1 DEF ListInv, DiskInv, Agree, Faithful
<1>3. ASSUME NEW a \in Addr PROVE book'[a] = OnDisk(a)'
    <2>1. OnDisk(a)' = OnDisk(a)
        BY <1>1 DEF OnDisk, Known, Keys
    <2> QED BY <2>1 DEF Crash
<1> QED BY <1>1, <1>2, <1>3 DEF OnDiskFaithful

\* A new key is one for an address that was not listed.
LEMMA ImportList ==
    ASSUME ListInv, NEW a \in Addr, NEW n \in Name, NEW u \in Uuid, Import(a, n, u), ~failed
    PROVE  Faithful'
<1> USE KeyStoreAssumption
<1>1. /\ loaded /\ op.type = "idle" /\ op'.type = "import" /\ op'.uuid = u
      /\ m_keys[u] = None /\ accounts[a] = None
      /\ UNCHANGED <<m_uuidLookup, m_addrLookup, m_keyInfo, accounts, book>>
    BY DEF Import, Idle, Fresh
<1>2. m_keys'[u] = a /\ \A v \in Uuid : v # u => m_keys'[v] = m_keys[v]
    BY DEF Import, ListInv, DiskInv, KeyTypeOK
<1>3. \A v \in Uuid : m_keys'[v] \in Addr => v \in saving'
    BY DEF Import, Keys
<1>4. \A v \in Uuid : m_uuidLookup[v] = m_keys[v]
    BY <1>1 DEF ListInv, Faithful
<1>5. \A v \in Uuid : m_keys[v] # a
    <2>1. Shown(a) = None
        BY <1>1 DEF ListInv, Faithful
    <2> QED BY <1>4, <2>1 DEF Shown
<1>6. \A v, w \in Uuid : m_keys'[v] \in Addr /\ m_keys'[v] = m_keys'[w] => v = w
    BY <1>1, <1>2, <1>5 DEF ListInv, Faithful
<1>7. \A b \in Addr : accounts'[b] = Shown(b)'
    BY <1>1 DEF ListInv, Faithful, Shown
<1> QED BY <1>1, <1>2, <1>3, <1>4, <1>6, <1>7 DEF ListInv, Faithful

\* Saving only touches files.
LEMMA SaveList ==
    ASSUME ListInv, NEW u \in Uuid, SaveOpen(u) \/ SaveWrite(u), ~failed
    PROVE  Faithful'
<1> USE KeyStoreAssumption
<1>1. u \in saving /\ UNCHANGED <<loaded, km, accounts, op, book, failed>>
    BY DEF SaveOpen, SaveWrite, ListInv, DiskInv, KeyTypeOK
<1>2. UNCHANGED <<m_keys, m_uuidLookup, m_addrLookup, m_keyInfo>>
    BY <1>1 DEF km
<1>3. \A v \in Uuid : v \notin saving' =>
         /\ secretFile'[v] = IF v = u THEN m_keys[u] ELSE secretFile[v]
         /\ v # u => v \notin saving
    BY <1>1 DEF SaveOpen, SaveWrite, ListInv, DiskInv, KeyTypeOK
<1>4. \A b \in Addr : Shown(b)' = Shown(b)
    BY <1>2 DEF Shown
<1> QED BY <1>1, <1>2, <1>3, <1>4 DEF ListInv, Faithful

\* The end of an import gives its key the lookups, and the list its name.
LEMMA ImportEndList ==
    ASSUME ListInv, ImportEnd, ~failed, ~failed'
    PROVE  Faithful'
<1> USE KeyStoreAssumption
<1>1. /\ op.addr \in Addr /\ op.uuid \in Uuid /\ op.name \in Name /\ loaded
      /\ m_keys[op.uuid] = op.addr /\ op.type = "import" /\ op'.type = "idle" /\ saving' = saving
      /\ secretFile' = secretFile /\ m_keys' = m_keys
    BY DEF ListInv, DiskInv, OpOK, ImportEnd, Idle
<1>11. /\ book' = [book EXCEPT ![op.addr] = op.name]
       /\ accounts' = ListAccounts(m_keys, m_uuidLookup', m_keyInfo')
    BY DEF ImportEnd, FileError
<1>2. PICK a \in Addr, u \in Uuid : a = op.addr /\ u = op.uuid
    BY <1>1
<1>3. /\ m_uuidLookup'[u] = a /\ \A v \in Uuid : v # u => m_uuidLookup'[v] = m_uuidLookup[v]
      /\ m_addrLookup'[a] = u /\ \A b \in Addr : b # a => m_addrLookup'[b] = m_addrLookup[b]
      /\ m_keyInfo'[a] = op.name /\ \A b \in Addr : b # a => m_keyInfo'[b] = m_keyInfo[b]
      /\ book'[a] = op.name /\ \A b \in Addr : b # a => book'[b] = book[b]
    BY <1>2, <1>11 DEF ListInv, DiskInv, KeyTypeOK, ImportEnd
<1>4. \A v \in Uuid : m_uuidLookup'[v] = m_keys[v]
    BY <1>1, <1>2, <1>3 DEF ListInv, Faithful
<1>5. \A v \in Uuid : m_keys[v] \in Addr => m_addrLookup'[m_keys[v]] = v
    <2> SUFFICES ASSUME NEW v \in Uuid, m_keys[v] \in Addr PROVE m_addrLookup'[m_keys[v]] = v
        OBVIOUS
    <2>1. CASE v = u
        BY <1>1, <1>2, <1>3, <2>1
    <2>2. CASE v # u
        <3>1. m_keys[v] # a
            BY <1>1, <1>2, <2>2 DEF ListInv, Faithful
        <3>2. m_uuidLookup[v] = m_keys[v]
            BY <1>1, <1>2, <2>2 DEF ListInv, Faithful
        <3> QED BY <1>1, <1>3, <3>1, <3>2 DEF ListInv, Faithful
    <2> QED BY <2>1, <2>2
<1>6. ASSUME NEW b \in Addr PROVE accounts'[b] = Shown(b)' /\ book'[b] = accounts'[b]
    <2>1. accounts'[b] = Shown(b)'
        <3>1. \A v \in Uuid : m_uuidLookup'[v] = b => m_keys[v] \in Addr
            BY <1>4
        <3> QED BY <1>11, <3>1, ListsShown DEF Shown
    <2>2. CASE b = a
        <3>1. Shown(b)' = op.name
            BY <1>1, <1>3, <2>2 DEF Shown
        <3> QED BY <1>3, <2>1, <2>2, <3>1
    <2>3. CASE b # a
        <3>1. \A v \in Uuid : m_uuidLookup'[v] = b <=> m_uuidLookup[v] = b
            BY <1>1, <1>2, <1>3, <2>3 DEF ListInv, Faithful
        <3>2. Shown(b)' = Shown(b)
            BY <1>3, <2>3, <3>1 DEF Shown
        <3>3. accounts[b] = Shown(b) /\ book[b] = accounts[b]
            BY <1>1 DEF ListInv, Faithful
        <3> QED BY <1>3, <2>1, <2>3, <3>2, <3>3
    <2> QED BY <2>2, <2>3
<1>7. book' = accounts'
    <2>1. book' \in [Addr -> Name \cup {Unnamed, None}] /\ accounts' \in [Addr -> Name \cup {Unnamed, None}]
        BY ImportEndStep DEF ListInv, DiskInv, KeyTypeOK
    <2> QED BY <1>6, <2>1
<1>8. \A v \in Uuid : m_keys[v] \in Addr => secretFile[v] = m_keys[v]
    BY <1>1 DEF ListInv, Faithful, ImportEnd
<1> QED BY <1>1, <1>4, <1>5, <1>6, <1>7, <1>8 DEF ListInv, Faithful

\* Erasing drops the one key of the address.
LEMMA EraseList ==
    ASSUME ListInv, NEW a \in Addr, Erase(a), ~failed
    PROVE  Faithful'
<1> USE KeyStoreAssumption
<1>1. /\ loaded /\ op.type = "idle" /\ op'.type = "erase" /\ op'.addr = a
      /\ UNCHANGED <<accounts, book, saving>>
    BY DEF Erase, Idle
<1>2. \A v \in Uuid : m_uuidLookup[v] = m_keys[v]
    BY <1>1 DEF ListInv, Faithful
<1>3. PICK u \in Uuid \cup {None} : u = m_addrLookup[a]
    BY DEF ListInv, DiskInv, KeyTypeOK
<1>4. /\ \A v \in Uuid : /\ m_keys'[v] = IF v = u THEN None ELSE m_keys[v]
                         /\ m_uuidLookup'[v] = IF v = u THEN None ELSE m_keys[v]
                         /\ secretFile'[v] = IF v = u THEN None ELSE secretFile[v]
      /\ \A b \in Addr : b # a => m_addrLookup'[b] = m_addrLookup[b] /\ m_keyInfo'[b] = m_keyInfo[b]
    BY <1>2, <1>3 DEF Erase, Drop, ListInv, DiskInv, KeyTypeOK
<1>5. \A v \in Uuid : m_keys'[v] # a
    BY <1>1, <1>2, <1>3, <1>4 DEF ListInv, Faithful
<1>6. \A v \in Uuid : m_keys'[v] \in Addr => m_addrLookup'[m_keys'[v]] = v
    BY <1>1, <1>2, <1>4, <1>5 DEF ListInv, Faithful
<1>7. ASSUME NEW b \in Addr, b # a PROVE accounts'[b] = Shown(b)'
    <2>1. u # None => m_keys[u] = a
        BY <1>3 DEF ListInv, DiskInv, LookupRight
    <2>2. \A v \in Uuid : m_uuidLookup'[v] = b <=> m_uuidLookup[v] = b
        BY <1>2, <1>4, <1>7, <2>1
    <2>3. accounts[b] = Shown(b)
        BY <1>1 DEF ListInv, Faithful
    <2> QED BY <1>1, <1>4, <1>7, <2>2, <2>3 DEF Shown
<1> QED BY <1>1, <1>4, <1>5, <1>6, <1>7 DEF ListInv, Faithful

\* The end of an erasure takes it off the list.
LEMMA EraseEndList ==
    ASSUME ListInv, EraseEnd, ~failed, ~failed'
    PROVE  Faithful'
<1> USE KeyStoreAssumption
<1>1. /\ op.addr \in Addr /\ loaded /\ op.type = "erase" /\ op'.type = "idle"
      /\ UNCHANGED <<secretFile, m_keys, m_uuidLookup, m_addrLookup, m_keyInfo, saving>>
    BY DEF ListInv, DiskInv, OpOK, EraseEnd, Idle, km
<1>2. \A v \in Uuid : m_uuidLookup[v] = m_keys[v] /\ m_keys[v] # op.addr
    BY <1>1 DEF ListInv, Faithful
<1>3. PICK a \in Addr : a = op.addr
    BY <1>1
<1>4. book'[a] = None /\ \A b \in Addr : b # a => book'[b] = book[b]
    BY <1>3 DEF ListInv, DiskInv, KeyTypeOK, EraseEnd, FileError
<1>5. ASSUME NEW b \in Addr PROVE accounts'[b] = Shown(b)' /\ book'[b] = accounts'[b]
    <2>1. accounts'[b] = Shown(b)
        BY <1>2, ListsShown DEF EraseEnd, FileError, Shown
    <2>2. Shown(b)' = Shown(b)
        BY <1>1 DEF Shown
    <2>3. Shown(a) = None
        BY <1>2, <1>3 DEF Shown
    <2>4. b # a => book[b] = Shown(b)
        BY <1>1, <1>3 DEF ListInv, Faithful
    <2> QED BY <1>4, <2>1, <2>2, <2>3, <2>4
<1>6. book' = accounts'
    <2>1. book' \in [Addr -> Name \cup {Unnamed, None}] /\ accounts' \in [Addr -> Name \cup {Unnamed, None}]
        BY EraseEndStep DEF ListInv, DiskInv, KeyTypeOK
    <2> QED BY <1>5, <2>1
<1> QED BY <1>1, <1>2, <1>5, <1>6 DEF ListInv, Faithful

\* Every step keeps list and book one.
LEMMA ListStep == ListInv /\ [KeyNext]_keyVars => ListInv'
<1> SUFFICES ASSUME ListInv, [KeyNext]_keyVars PROVE Faithful' /\ OnDiskFaithful'
    BY DiskStep DEF ListInv
<1>1. CASE Load
    BY <1>1, LoadList
<1>2. CASE Close
    BY <1>2, CloseList
<1>3. CASE Crash
    BY <1>3, CrashList
<1>4. CASE SaveFails
    BY <1>4 DEF SaveFails, FileError, Faithful, OnDiskFaithful
<1>5. ASSUME ImportEnd \/ EraseEnd \/ (\E a \in Addr : Erase(a)) \/
             (\E a \in Addr, n \in Name, u \in Uuid : Import(a, n, u)) \/
             (\E u \in Uuid : SaveOpen(u) \/ SaveWrite(u))
      PROVE  Faithful' /\ OnDiskFaithful'
    <2>1. loaded /\ loaded' = loaded /\ (failed => failed')
        <3>1. ASSUME NEW u \in Uuid, SaveOpen(u) \/ SaveWrite(u)
              PROVE  loaded /\ loaded' = loaded /\ (failed => failed')
            BY <3>1, KeyStoreAssumption
               DEF SaveOpen, SaveWrite, ListInv, DiskInv, OpOK, KeyTypeOK
        <3>2. ASSUME ImportEnd \/ EraseEnd
              PROVE  loaded /\ loaded' = loaded /\ (failed => failed')
            BY <3>2 DEF ImportEnd, EraseEnd, FileError, ListInv, DiskInv, OpOK
        <3> QED BY <1>5, <3>1, <3>2 DEF Erase, Import
    <2>2. CASE failed'
        BY <2>1, <2>2 DEF Faithful, OnDiskFaithful
    <2>3. CASE ~failed'
        <3>1. ~failed /\ OnDiskFaithful'
            BY <2>1, <2>3 DEF OnDiskFaithful
        <3>2. Faithful'
            BY <1>5, <2>3, <3>1, ImportEndList, EraseEndList, EraseList, ImportList, SaveList
        <3> QED BY <3>1, <3>2
    <2> QED BY <2>2, <2>3
<1>6. CASE UNCHANGED keyVars
    BY <1>6 DEF keyVars, disk, km, ListInv, Faithful, OnDiskFaithful, Shown, OnDisk, Known, Keys
<1> QED BY <1>1, <1>2, <1>3, <1>4, <1>5, <1>6 DEF KeyNext

\* Without a failed write, list and book agree and all that is listed can be used.
LEMMA ListAlways == KeySpec => []ListInv
<1>1. KeyInit => ListInv
    BY InitDiskInv, KeyStoreAssumption
       DEF KeyInit, ListInv, Faithful, OnDiskFaithful, OnDisk, NoAddr, NoName
<1> QED BY <1>1, ListStep, PTL DEF KeySpec

\* What KeyManager rebuilds from the secrets and the keys file is the list the user
\* knows, through any number of imports, erasures, restarts and crashes.
THEOREM ListsAgree == KeySpec => []ListIsBook
<1>1. ListInv => ListIsBook
    <2> SUFFICES ASSUME ListInv, loaded, op = Idle, ~failed, NEW a \in Addr, accounts[a] # None
                 PROVE  m_addrLookup[a] \in Uuid /\ m_keys[m_addrLookup[a]] = a
        BY DEF ListIsBook, ListInv, Faithful
    <2>1. PICK u \in Uuid : m_uuidLookup[u] = a
        BY DEF ListInv, Faithful, Shown, Idle
    <2> QED BY <2>1 DEF ListInv, Faithful, Idle
<1> QED BY <1>1, ListAlways, PTL

\* An erased account leaves no secret on disk that a restart could bring back.
THEOREM ErasedIsGone == KeySpec => []EraseForgets
<1>1. ListInv => EraseForgets
    <2> SUFFICES ASSUME ListInv, NEW a \in Addr, book[a] = None, op = Idle, ~failed,
                        NEW u \in Uuid, secretFile[u] = a
                 PROVE  FALSE
        BY DEF EraseForgets
    <2>1. OnDisk(a) = None
        <3>1. CASE loaded
            BY <3>1, ShownIsOnDisk DEF ListInv, Faithful, Idle
        <3>2. CASE ~loaded
            BY <3>2 DEF ListInv, OnDiskFaithful
        <3> QED BY <3>1, <3>2
    <2> QED BY <2>1, EntryOrNone, KeyStoreAssumption DEF OnDisk, Known, ListInv, DiskInv
<1> QED BY <1>1, ListAlways, PTL
=============================================================================
