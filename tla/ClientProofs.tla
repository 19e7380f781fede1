---------------------------- MODULE ClientProofs ----------------------------
(***************************************************************************)
(* What the wallet fetches and from where.  First what an installed DApp   *)
(* has on disk, for any files, any number of tries and of publications;    *)
(* then the node the wallet talks to, for any number of tasks, settings    *)
(* and calls: requests see one setting whole, and the one in use is the    *)
(* one that is stored.                                                     *)
(***************************************************************************)
EXTENDS AppInstall, ApiConfig, TLAPS

-----------------------------------------------------------------------------
\* DApps.

Fetching == {"get", "check", "register"}
Label == Fetching \cup {"ready", "list", "listed", "failed", "thrown", "done", "remove",
                        "update", "removed"}

\* The files of a sequence of file names.
In(s) == {s[k] : k \in 1..Len(s)}

Tries == 1..downloadRetries + 1
TaskType == [pc : Label, i : Tries, index : BOOLEAN, rest : Seq(File),
             version : Version \cup {None}]

\* Types of the disk, the screen and the operation; the popup is open while it
\* downloads, and what it downloads has a version.
AppTyped ==
    /\ repo \in Version
    /\ list \in Version \cup {None, EmptyFile} /\ registered \in Version \cup {None}
    /\ disk \in [File -> Version \cup {None, EmptyFile}]
    /\ grid \in [shown : Version \cup {None}, next : Version \cup {None}]
    /\ {popup, published, crashed, stripped} \subseteq BOOLEAN
    /\ task \in TaskType
    /\ task.pc \in {"get", "check"} => task.rest # <<>> /\ popup
    /\ task.pc \in Fetching \cup {"update"} => task.version # None

\* A download is one for a DApp that has no entry, or whose old files were removed.
NotThere == task.pc \in Fetching \cup {"update"} => registered = None \/ stripped

\* Each file is there, was given up, or is still to come.
Accounted ==
    /\ task.pc \in {"get", "check"} /\ ~task.index =>
          \A f \in File : disk[f] \in Version \/ f \in lost \/ f \in In(task.rest)
    /\ task.pc = "register" => \A f \in File : disk[f] \in Version \/ f \in lost
    /\ registered # None /\ ~stripped => \A f \in File : disk[f] \in Version \/ f \in lost

\* Before the first file, after a failure, and while a DApp without entry is not being
\* installed the folder is empty.
Clean ==
    ~crashed =>
       /\ task.pc \in {"get", "check"} /\ task.index =>
             task.rest = <<Index>> /\ \A f \in File : f # Index => disk[f] = None
       /\ task.pc \in {"failed", "remove", "update", "removed"} => disk = NoFiles
       /\ task.pc = "done" => registered # None
       /\ task.pc \in {"ready", "list", "listed"} /\ registered = None => disk = NoFiles

\* Files are of the version that is being downloaded.
SameVersion ==
    ~published /\ ~crashed =>
       /\ task.pc \in {"get", "check"} => \A f \in File : disk[f] \in Version => disk[f] = repo
       /\ (task.pc = "register" \/ (registered # None /\ ~stripped)) =>
             \A f, g \in File : disk[f] \in Version /\ disk[g] \in Version => disk[f] = disk[g]

AppInv == AppTyped /\ NotThere /\ Accounted /\ Clean /\ SameVersion

\* Sequences of files, and what is left of them after the first.
LEMMA Rests ==
    /\ Base \o Listed \in Seq(File) /\ Base \in Seq(File) /\ <<Index>> \in Seq(File)
    /\ Index \in File /\ Base # <<>> /\ Base \o Listed # <<>>
    /\ File = In(Base) \cup In(Listed) /\ In(Base \o Listed) = File
<1> DEFINE all == Base \o Listed
<1>1. /\ all \in Seq(STRING) /\ Base \in Seq(STRING) /\ Listed \in Seq(STRING)
      /\ Len(all) = Len(Base) + Len(Listed) /\ Len(Base) \in Nat /\ Len(Listed) \in Nat
    BY AppInstallAssumption
<1>2. /\ \A k \in 1..Len(Base) : all[k] = Base[k]
      /\ \A k \in 1..Len(Listed) : all[Len(Base) + k] = Listed[k]
    BY AppInstallAssumption
<1>3. File = {all[k] : k \in 1..Len(all)}
    BY DEF File
<1> HIDE DEF all
<1>4. \A k \in 1..Len(Base) : k \in 1..Len(all) /\ Base[k] \in File
    <2> TAKE k \in 1..Len(Base)
    <2>1. k \in 1..Len(all)
        BY <1>1
    <2> QED BY <2>1, <1>2, <1>3
<1>5. \A k \in 1..Len(Listed) : Listed[k] \in File
    <2> TAKE k \in 1..Len(Listed)
    <2>1. Len(Base) + k \in 1..Len(all)
        BY <1>1
    <2> QED BY <2>1, <1>2, <1>3
<1>6. ASSUME NEW f \in File
      PROVE  f \in In(Base) \/ f \in In(Listed)
    <2>1. PICK k \in 1..Len(all) : f = all[k]
        BY <1>3
    <2>2. CASE k \in 1..Len(Base)
        BY <2>1, <2>2, <1>2 DEF In
    <2>3. CASE k \notin 1..Len(Base)
        <3>1. k - Len(Base) \in 1..Len(Listed) /\ k = Len(Base) + (k - Len(Base))
            BY <2>3, <1>1
        <3>2. PICK j \in 1..Len(Listed) : k = Len(Base) + j
            BY <3>1
        <3>3. f = Listed[j]
            BY <3>2, <2>1, <1>2
        <3> QED BY <3>3 DEF In
    <2> QED BY <2>2, <2>3
<1>7. File = In(Base) \cup In(Listed)
    <2>1. In(Base) \subseteq File /\ In(Listed) \subseteq File
        BY <1>4, <1>5 DEF In
    <2> QED BY <2>1, <1>6
<1>8. Base \in Seq(File) /\ all \in Seq(File)
    BY <1>1, <1>3, <1>4
<1>9. Index \in File /\ Base # <<>>
    <2>1. PICK k \in 1..Len(Base) : Base[k] = Index
        BY AppInstallAssumption DEF Index
    <2> QED BY <2>1, <1>1, <1>4
<1>10. all # <<>>
    BY <1>1, <1>9
<1>11. In(all) = File
    BY <1>3 DEF In
<1>12. <<Index>> \in Seq(File)
    BY <1>9
<1> QED BY <1>7, <1>8, <1>9, <1>10, <1>11, <1>12 DEF all

\* What is left to fetch after the first file.
LEMMA TailRest ==
    ASSUME NEW s \in Seq(File), s # <<>>
    PROVE  /\ Head(s) \in File /\ Tail(s) \in Seq(File)
           /\ In(s) = {Head(s)} \cup In(Tail(s))
<1>1. Head(s) = s[1] /\ Len(Tail(s)) = Len(s) - 1 /\ Len(s) \in Nat \ {0} /\ Tail(s) \in Seq(File)
    OBVIOUS
<1>2. \A k \in 1..Len(Tail(s)) : Tail(s)[k] = s[k + 1]
    OBVIOUS
<1>3. Head(s) \in File /\ Head(s) \in In(s)
    BY <1>1 DEF In
<1>4. In(Tail(s)) \subseteq In(s)
    <2>1. ASSUME NEW k \in 1..Len(Tail(s)) PROVE Tail(s)[k] \in In(s)
        <3>1. k + 1 \in 1..Len(s)
            BY <1>1
        <3> QED BY <1>2, <3>1 DEF In
    <2> QED BY <2>1 DEF In
<1>5. ASSUME NEW k \in 1..Len(s) PROVE s[k] \in {Head(s)} \cup In(Tail(s))
    <2>1. CASE k = 1
        BY <1>1, <2>1
    <2>2. CASE k # 1
        <3>1. k - 1 \in 1..Len(Tail(s)) /\ (k - 1) + 1 = k
            BY <1>1, <2>2
        <3>2. s[k] = Tail(s)[k - 1]
            BY <1>2, <3>1
        <3> QED BY <3>1, <3>2 DEF In
    <2> QED BY <2>1, <2>2
<1>6. In(s) \subseteq {Head(s)} \cup In(Tail(s))
    BY <1>5 DEF In
<1> QED BY <1>1, <1>3, <1>4, <1>6

\* Values, and how many tries there are.
LEMMA Values ==
    /\ None \notin Version /\ EmptyFile \notin Version /\ EmptyFile # None /\ 1 \in Version
    /\ 1 \in Tries /\ \A i \in Tries : i <= downloadRetries => i + 1 \in Tries
BY AppInstallAssumption DEF Version, EmptyFile, Tries

\* Each step keeps the invariant.
LEMMA StepKeeps == AppInv /\ [AppNext]_appVars => AppInv'
<1> SUFFICES ASSUME AppInv, [AppNext]_appVars PROVE AppInv'
    OBVIOUS
<1> USE Values DEF appDisk, marks
<1>0. AppTyped /\ NotThere /\ Accounted /\ Clean /\ SameVersion
    BY DEF AppInv
<1> USE <1>0
<1>r. /\ <<>> \in Seq(File) /\ <<Index>> \in Seq(File) /\ Ready \in TaskType
      /\ Index \in File /\ <<Index>> # <<>>
      /\ {"get", "check", "register", "list", "listed", "failed", "thrown", "done",
          "removed", "remove", "update", "ready"} \subseteq Label
    BY Rests DEF Ready, TaskType, Label, Fetching
<1>k. \A p \in Label : /\ [task EXCEPT !.pc = p] \in TaskType
                        /\ [task EXCEPT !.pc = p].pc = p
                        /\ [task EXCEPT !.pc = p].i = task.i
                        /\ [task EXCEPT !.pc = p].index = task.index
                        /\ [task EXCEPT !.pc = p].rest = task.rest
                        /\ [task EXCEPT !.pc = p].version = task.version
    BY DEF AppTyped, TaskType
<1>n. NoFiles \in [File -> Version \cup {None, EmptyFile}] /\ \A f \in File : NoFiles[f] = None
    BY DEF NoFiles
<1>g. /\ NoGrid \in [shown : Version \cup {None}, next : Version \cup {None}]
      /\ RefreshGrid => grid' \in [shown : Version \cup {None}, next : Version \cup {None}]
    BY DEF NoGrid, RefreshGrid, AppTyped
<1>d. \A p \in Label : /\ [Ready EXCEPT !.pc = p] \in TaskType /\ [Ready EXCEPT !.pc = p].pc = p
    BY <1>r DEF TaskType, Ready
<1> USE <1>r
<1>c. ASSUME NEW rest \in Seq(File), Continue(rest)
      PROVE  /\ task' \in TaskType /\ task'.rest = rest /\ task'.index = FALSE
             /\ task'.pc = IF rest = <<>> THEN "register" ELSE "get"
             /\ task'.version = task.version
    BY <1>c DEF Continue, AppTyped, TaskType
<1>y. ASSUME Retry, task.i < downloadRetries
      PROVE  /\ task' \in TaskType /\ task'.rest = task.rest /\ task'.index = task.index
             /\ task'.pc = "get" /\ task'.version = task.version
    <2>1. task.i + 1 \in Tries
        BY <1>y, AppInstallAssumption DEF AppTyped, TaskType, Tries
    <2> QED BY <2>1, <1>y DEF Retry, AppTyped, TaskType
<1>h. ASSUME task.pc \in {"get", "check"}
      PROVE  /\ task.rest \in Seq(File) /\ task.rest # <<>> /\ current \in File
             /\ Tail(task.rest) \in Seq(File)
             /\ In(task.rest) = {current} \cup In(Tail(task.rest))
             /\ task.version # None /\ popup = TRUE /\ (registered = None \/ stripped)
             /\ task.rest = <<Index>> => current = Index
    <2>1. task.rest \in Seq(File) /\ task.rest # <<>>
        BY <1>h DEF AppTyped, TaskType
    <2>2. (task.rest = <<Index>> => current = Index)
        BY DEF current
    <2> QED BY <1>h, <2>1, <2>2, TailRest DEF current, AppTyped, NotThere, Fetching
<1>e. In(<<>>) = {}
    BY DEF In
<1>1. CASE Publish
    <2>1. /\ repo' \in Version /\ published' = (published \/ task.pc \in {"get", "check"})
          /\ UNCHANGED <<appDisk, grid, task, popup, lost, crashed, stripped>>
        BY <1>1 DEF Publish
    <2>2. AppTyped'
        BY <2>1 DEF AppTyped, Fetching
    <2>3. NotThere'
        BY <2>1 DEF NotThere, AppTyped, Fetching
    <2>4. Accounted'
        BY <2>1 DEF Accounted, AppTyped, Fetching
    <2>5. Clean'
        BY <2>1 DEF Clean, AppTyped, Fetching
    <2>6. SameVersion'
        BY <2>1 DEF SameVersion, AppTyped, Fetching
    <2> QED BY <2>2, <2>3, <2>4, <2>5, <2>6 DEF AppInv
<1>2. CASE OpenScreen
    <2>1. /\ task' \in TaskType /\ task'.pc = "list" /\ task.pc = "ready" /\ popup' = TRUE
          /\ UNCHANGED <<repo, appDisk, grid, marks>>
        BY <1>2, <1>d DEF OpenScreen
    <2>2. AppTyped'
        BY <2>1 DEF AppTyped, Fetching
    <2>3. NotThere'
        BY <2>1 DEF NotThere, AppTyped, Fetching
    <2>4. Accounted'
        BY <2>1 DEF Accounted, AppTyped, Fetching
    <2>5. Clean'
        BY <2>1 DEF Clean, AppTyped, Fetching
    <2>6. SameVersion'
        BY <2>1 DEF SameVersion, AppTyped, Fetching
    <2> QED BY <2>2, <2>3, <2>4, <2>5, <2>6 DEF AppInv
<1>3. CASE Install
    <2>1. /\ task' \in TaskType /\ task'.pc = "get" /\ task'.index = TRUE /\ task'.rest = <<Index>>
          /\ task'.version # None /\ popup' = TRUE /\ published' = FALSE
        BY <1>3 DEF Install, StartInstall, AppTyped, TaskType
    <2>2. /\ task.pc = "ready" /\ registered = None
          /\ UNCHANGED <<repo, appDisk, grid, crashed, stripped>>
        BY <1>3 DEF Install
    <2>3. ~crashed => \A f \in File : disk[f] = None
        BY <2>2, <1>n DEF Clean
    <2>4. AppTyped'
        BY <2>1, <2>2, <2>3 DEF AppTyped, Fetching
    <2>5. NotThere'
        BY <2>1, <2>2, <2>3 DEF NotThere, AppTyped, Fetching
    <2>6. Accounted'
        BY <2>1, <2>2, <2>3 DEF Accounted, AppTyped, Fetching
    <2>7. Clean'
        BY <2>1, <2>2, <2>3 DEF Clean, AppTyped, Fetching
    <2>8. SameVersion'
        BY <2>1, <2>2, <2>3 DEF SameVersion, AppTyped, Fetching
    <2> QED BY <2>4, <2>5, <2>6, <2>7, <2>8 DEF AppInv
<1>4. CASE DownloadList
    <2>1. /\ task' \in TaskType /\ task'.pc = "listed" /\ task.pc = "list"
          /\ list' \in Version \cup {None, EmptyFile} /\ UNCHANGED <<repo, disk, registered, grid, popup, marks>>
        BY <1>4, <1>k DEF DownloadList, AppTyped
    <2>2. AppTyped'
        BY <2>1 DEF AppTyped, Fetching
    <2>3. NotThere'
        BY <2>1 DEF NotThere, AppTyped, Fetching
    <2>4. Accounted'
        BY <2>1 DEF Accounted, AppTyped, Fetching
    <2>5. Clean'
        BY <2>1 DEF Clean, AppTyped, Fetching
    <2>6. SameVersion'
        BY <2>1 DEF SameVersion, AppTyped, Fetching
    <2> QED BY <2>2, <2>3, <2>4, <2>5, <2>6 DEF AppInv
<1>5. CASE ListDelivered
    <2>1. /\ task.pc = "listed" /\ UNCHANGED <<repo, appDisk, marks>>
        BY <1>5 DEF ListDelivered
    <2>2. /\ popup' \in BOOLEAN
          /\ grid' \in [shown : Version \cup {None}, next : Version \cup {None}]
        BY <1>5, <1>g DEF ListDelivered, ListRetry, AppTyped
    <2>3. task' \in TaskType /\ task'.pc \in {"ready", "list"}
        <3>1. task.i \in Tries /\ task.i \in Nat /\ downloadRetries \in Nat
            BY AppInstallAssumption DEF AppTyped, TaskType, Tries
        <3>2. CASE task' = Ready
            BY <3>2 DEF Ready
        <3>3. CASE task.i <= downloadRetries /\ task' = [task EXCEPT !.i = task.i + 1, !.pc = "list"]
            <4>1. task.i + 1 \in Tries
                BY <3>1, <3>3
            <4>2. \A j \in Tries : /\ [task EXCEPT !.i = j, !.pc = "list"] \in TaskType
                                   /\ [task EXCEPT !.i = j, !.pc = "list"].pc = "list"
                BY DEF AppTyped, TaskType
            <4> QED BY <3>3, <4>1, <4>2, Zenon
        <3>4. list # None => task' = Ready
            BY <1>5 DEF ListDelivered
        <3>5. list = None /\ task.i > downloadRetries => task' = Ready
            BY <1>5 DEF ListDelivered, ListRetry
        <3>6. list = None /\ ~(task.i > downloadRetries)
                => task' = [task EXCEPT !.i = task.i + 1, !.pc = "list"]
            BY <1>5 DEF ListDelivered, ListRetry
        <3> QED BY <3>1, <3>2, <3>3, <3>4, <3>5, <3>6
    <2>4. AppTyped'
        BY <2>1, <2>2, <2>3 DEF AppTyped, Fetching
    <2>5. NotThere'
        BY <2>1, <2>2, <2>3 DEF NotThere, AppTyped, Fetching
    <2>6. Accounted'
        BY <2>1, <2>2, <2>3 DEF Accounted, AppTyped, Fetching
    <2>7. Clean'
        BY <2>1, <2>2, <2>3 DEF Clean, AppTyped, Fetching
    <2>8. SameVersion'
        BY <2>1, <2>2, <2>3 DEF SameVersion, AppTyped, Fetching
    <2> QED BY <2>4, <2>5, <2>6, <2>7, <2>8 DEF AppInv
<1>6. CASE HttpGetFile
    <2>1. /\ task' \in TaskType /\ task'.pc = "check" /\ task.pc = "get"
          /\ task'.rest = task.rest /\ task'.index = task.index /\ task'.version = task.version
        BY <1>6, <1>k DEF HttpGetFile
    <2>2. task.pc = "get" /\ UNCHANGED <<repo, list, registered, grid, popup, marks>>
        BY <1>6 DEF HttpGetFile
    <2>3. /\ current \in File /\ current \in In(task.rest) /\ (registered = None \/ stripped)
          /\ task.rest # <<>> /\ popup = TRUE /\ task.version # None
        BY <2>2, <1>h
    <2>4. /\ disk' \in [File -> Version \cup {None, EmptyFile}]
          /\ disk'[current] \in {disk[current], EmptyFile, repo}
          /\ \A f \in File : f # current => disk'[f] = disk[f]
        BY <1>6, <2>3 DEF HttpGetFile, AppTyped
    <2>5. task.rest = <<Index>> => current = Index
        BY <2>2, <1>h
    <2>6. AppTyped'
        BY <2>1, <2>2, <2>3, <2>4, <2>5 DEF AppTyped, Fetching
    <2>7. NotThere'
        BY <2>1, <2>2, <2>3, <2>4, <2>5 DEF NotThere, AppTyped, Fetching
    <2>8. Accounted'
        BY <2>1, <2>2, <2>3, <2>4, <2>5 DEF Accounted, AppTyped, Fetching
    <2>9. Clean'
        BY <2>1, <2>2, <2>3, <2>4, <2>5 DEF Clean, AppTyped, Fetching
    <2>10. SameVersion'
        BY <2>1, <2>2, <2>3, <2>4, <2>5 DEF SameVersion, AppTyped, Fetching
    <2> QED BY <2>6, <2>7, <2>8, <2>9, <2>10 DEF AppInv
<1>7. CASE Fetched
    <2>1. /\ task.pc = "check" /\ disk[current] \in Version
          /\ UNCHANGED <<repo, list, registered, grid, popup, published, crashed, stripped>>
        BY <1>7 DEF Fetched
    <2>2. CASE /\ task.index /\ disk' = [disk EXCEPT ![Index] = None]
               /\ \/ Continue(Base \o Listed) /\ UNCHANGED lost
                  \/ Continue(Base) /\ lost' = {Listed[k] : k \in 1..Len(Listed)}
        <3>1. /\ disk' \in [File -> Version \cup {None, EmptyFile}] /\ disk'[Index] = None
              /\ \A f \in File : f # Index => disk'[f] = disk[f]
            BY <2>2 DEF AppTyped
        <3>2. ~crashed => disk' = NoFiles
            BY <2>1, <2>2, <3>1 DEF Clean, NoFiles
        <3>3. CASE Continue(Base \o Listed) /\ UNCHANGED lost
            <4>1. /\ task' \in TaskType /\ task'.rest = Base \o Listed /\ task'.index = FALSE
                  /\ task'.pc = "get" /\ task'.version = task.version /\ task'.rest # <<>>
                  /\ In(task'.rest) = File
                BY <3>3, <1>c, Rests
            <4> QED BY <4>1, <3>1, <3>2, <2>1, <1>h, <1>n
                    DEF AppInv, AppTyped, NotThere, Accounted, Clean, SameVersion, Fetching
        <3>4. CASE Continue(Base) /\ lost' = {Listed[k] : k \in 1..Len(Listed)}
            <4>1. /\ task' \in TaskType /\ task'.rest = Base /\ task'.index = FALSE
                  /\ task'.pc = "get" /\ task'.version = task.version /\ task'.rest # <<>>
                BY <3>4, <1>c, Rests
            <4>2. \A f \in File : f \in lost' \/ f \in In(task'.rest)
                BY <4>1, <3>4, Rests DEF In
            <4> QED BY <4>1, <4>2, <3>1, <3>2, <2>1, <1>h, <1>n
                    DEF AppInv, AppTyped, NotThere, Accounted, Clean, SameVersion, Fetching
        <3> QED BY <3>3, <3>4, <2>2
    <2>3. CASE ~task.index /\ Continue(Tail(task.rest)) /\ UNCHANGED <<disk, lost>>
        <3>1. /\ task' \in TaskType /\ task'.rest = Tail(task.rest) /\ task'.index = FALSE
              /\ task'.pc = IF Tail(task.rest) = <<>> THEN "register" ELSE "get"
              /\ task'.version = task.version
            BY <2>1, <2>3, <1>c, <1>h
        <3>2. \A f \in File : disk'[f] \in Version \/ f \in lost' \/ f \in In(task'.rest)
            BY <2>1, <2>3, <3>1, <1>h DEF Accounted
        <3> QED BY <3>1, <3>2, <2>1, <2>3, <1>h, <1>e
                DEF AppInv, AppTyped, NotThere, Accounted, Clean, SameVersion, Fetching
    <2>4. CASE task' = [task EXCEPT !.pc = "thrown"] /\ UNCHANGED <<disk, lost>>
        <3>1. task' \in TaskType /\ task'.pc = "thrown"
            BY <2>4, <1>k
        <3> QED BY <3>1, <2>1, <2>4, <1>h
                DEF AppInv, AppTyped, NotThere, Accounted, Clean, SameVersion, Fetching
    <2> QED BY <2>2, <2>3, <2>4, <1>7 DEF Fetched
<1>8. CASE FetchedNothing
    <2>1. /\ task.pc = "check" /\ disk[current] = EmptyFile
          /\ UNCHANGED <<repo, list, registered, grid, popup, published, crashed, stripped>>
        BY <1>8 DEF FetchedNothing
    <2>2. /\ disk' \in [File -> Version \cup {None, EmptyFile}] /\ disk'[current] = None
          /\ \A f \in File : f # current => disk'[f] = disk[f]
        BY <1>8, <2>1, <1>h DEF FetchedNothing, AppTyped
    <2>3. CASE task.i < downloadRetries /\ Retry /\ UNCHANGED lost
        <3>1. /\ task' \in TaskType /\ task'.rest = task.rest /\ task'.index = task.index
              /\ task'.pc = "get" /\ task'.version = task.version
            BY <2>3, <1>y
        <3> QED BY <3>1, <2>1, <2>2, <2>3, <1>h
                DEF AppInv, AppTyped, NotThere, Accounted, Clean, SameVersion, Fetching
    <2>4. CASE task.index /\ Continue(<<>>) /\ lost' = File
        <3>1. /\ task' \in TaskType /\ task'.index = FALSE
              /\ task'.pc = "register" /\ task'.version = task.version
            BY <2>4, <1>c
        <3> QED BY <3>1, <2>1, <2>2, <2>4, <1>h
                DEF AppInv, AppTyped, NotThere, Accounted, Clean, SameVersion, Fetching
    <2>5. CASE ~task.index /\ Continue(Tail(task.rest)) /\ lost' = lost \cup {current}
        <3>1. /\ task' \in TaskType /\ task'.rest = Tail(task.rest) /\ task'.index = FALSE
              /\ task'.pc = IF Tail(task.rest) = <<>> THEN "register" ELSE "get"
              /\ task'.version = task.version
            BY <2>1, <2>5, <1>c, <1>h
        <3>2. \A f \in File : disk'[f] \in Version \/ f \in lost' \/ f \in In(task'.rest)
            BY <2>1, <2>2, <2>5, <3>1, <1>h DEF Accounted
        <3> QED
            <4>1. AppTyped'
                BY <3>1, <3>2, <2>1, <2>2, <2>5, <1>h, <1>e DEF AppTyped, Fetching
            <4>2. NotThere'
                BY <3>1, <3>2, <2>1, <2>2, <2>5, <1>h, <1>e DEF NotThere, AppTyped, Fetching
            <4>3. Accounted'
                BY <3>1, <3>2, <2>1, <2>2, <2>5, <1>h, <1>e DEF Accounted, AppTyped, Fetching
            <4>4. Clean'
                BY <3>1, <3>2, <2>1, <2>2, <2>5, <1>h, <1>e DEF Clean, AppTyped, Fetching
            <4>5. SameVersion'
                BY <3>1, <3>2, <2>1, <2>2, <2>5, <1>h, <1>e DEF SameVersion, AppTyped, Fetching
            <4> QED BY <4>1, <4>2, <4>3, <4>4, <4>5 DEF AppInv
    <2> QED BY <2>3, <2>4, <2>5, <1>8 DEF FetchedNothing
<1>9. CASE NotFetched
    <2>1. /\ task.pc = "check" /\ disk[current] = None
          /\ UNCHANGED <<repo, list, registered, grid, popup, marks>>
        BY <1>9 DEF NotFetched
    <2>2. CASE task.i < downloadRetries /\ Retry /\ UNCHANGED disk
        <3>1. /\ task' \in TaskType /\ task'.rest = task.rest /\ task'.index = task.index
              /\ task'.pc = "get" /\ task'.version = task.version
            BY <2>2, <1>y
        <3> QED BY <3>1, <2>1, <2>2, <1>h
                DEF AppInv, AppTyped, NotThere, Accounted, Clean, SameVersion, Fetching
    <2>3. CASE Fail
        <3>1. /\ task' \in TaskType /\ task'.pc = "failed" /\ disk' = NoFiles
            BY <2>3, <1>k DEF Fail
        <3> QED BY <3>1, <2>1, <1>h, <1>n
                DEF AppInv, AppTyped, NotThere, Accounted, Clean, SameVersion, Fetching
    <2> QED BY <2>2, <2>3, <1>9 DEF NotFetched
<1>10. CASE RegisterApp
    <2>1. /\ task.pc = "register" /\ (registered = None \/ stripped) /\ task.version \in Version
          /\ \A f \in File : disk[f] \in Version \/ f \in lost
          /\ UNCHANGED <<repo, list, grid, popup, published, lost, crashed>>
        BY <1>10 DEF RegisterApp, AppTyped, TaskType, NotThere, Accounted, Fetching
    <2>2. CASE /\ registered' = task.version /\ stripped' = FALSE
               /\ task' = [task EXCEPT !.pc = "done"] /\ UNCHANGED disk
        <3>1. task' \in TaskType /\ task'.pc = "done"
            BY <2>2, <1>k
        <3> QED BY <3>1, <2>1, <2>2
                DEF AppInv, AppTyped, NotThere, Accounted, Clean, SameVersion, Fetching
    <2>3. CASE Fail /\ UNCHANGED <<registered, stripped>>
        <3>1. /\ task' \in TaskType /\ task'.pc = "failed" /\ disk' = NoFiles
            BY <2>3, <1>k DEF Fail
        <3> QED BY <3>1, <2>1, <2>3, <1>n
                DEF AppInv, AppTyped, NotThere, Accounted, Clean, SameVersion, Fetching
    <2> QED BY <2>2, <2>3, <1>10 DEF RegisterApp
<1>11. CASE AppInstalled
    <2>1. /\ task.pc \in {"done", "failed"} /\ task' = Ready /\ popup' = FALSE
          /\ UNCHANGED <<repo, appDisk, marks>>
        BY <1>11 DEF AppInstalled
    <2>2. grid' \in [shown : Version \cup {None}, next : Version \cup {None}]
        BY <1>11, <1>g DEF AppInstalled, AppTyped
    <2>3. task' \in TaskType /\ task'.pc = "ready"
        BY <2>1 DEF Ready
    <2>4. AppTyped'
        BY <2>1, <2>2, <2>3 DEF AppTyped, Fetching
    <2>5. NotThere'
        BY <2>1, <2>2, <2>3 DEF NotThere, AppTyped, Fetching
    <2>6. Accounted'
        BY <2>1, <2>2, <2>3 DEF Accounted, AppTyped, Fetching
    <2>7. Clean'
        BY <2>1, <2>2, <2>3 DEF Clean, AppTyped, Fetching
    <2>8. SameVersion'
        BY <2>1, <2>2, <2>3 DEF SameVersion, AppTyped, Fetching
    <2> QED BY <2>4, <2>5, <2>6, <2>7, <2>8 DEF AppInv
<1>12. CASE UnregisterApp
    <2>1. /\ task.pc \in {"remove", "update"} /\ UNCHANGED <<repo, list, disk, grid, crashed>>
          /\ \/ registered' = None /\ stripped' = FALSE
             \/ UNCHANGED <<registered, stripped>>
        BY <1>12 DEF UnregisterApp
    <2>2. ~crashed => disk = NoFiles /\ \A f \in File : disk[f] = None
        BY <2>1, <1>n DEF Clean
    <2>3. CASE task.pc = "update"
        <3>1. /\ task' \in TaskType /\ task'.pc = "get" /\ task'.index = TRUE /\ task'.rest = <<Index>>
              /\ task'.version # None /\ popup' = TRUE /\ published' = FALSE
            <4>1. task.version \in Version \cup {None} /\ task.version # None
                BY <2>3 DEF AppTyped, TaskType
            <4>2. /\ popup' = TRUE /\ published' = FALSE
                  /\ task' = [pc |-> "get", i |-> 1, index |-> TRUE, rest |-> <<Index>>,
                              version |-> task.version]
                BY <1>12, <2>3 DEF UnregisterApp, StartInstall
            <4> QED BY <4>1, <4>2 DEF TaskType
        <3>2. registered = None \/ stripped
            BY <2>3 DEF NotThere
        <3> QED
            <4>1. AppTyped'
                BY <2>1, <2>2, <3>1, <3>2 DEF AppTyped, Fetching
            <4>2. NotThere'
                BY <2>1, <2>2, <3>1, <3>2 DEF NotThere, AppTyped, Fetching
            <4>3. Accounted'
                BY <2>1, <2>2, <3>1, <3>2 DEF Accounted, AppTyped, Fetching
            <4>4. Clean'
                BY <2>1, <2>2, <3>1, <3>2 DEF Clean, AppTyped, Fetching
            <4>5. SameVersion'
                BY <2>1, <2>2, <3>1, <3>2 DEF SameVersion, AppTyped, Fetching
            <4> QED BY <4>1, <4>2, <4>3, <4>4, <4>5 DEF AppInv
    <2>4. CASE task.pc = "remove"
        <3>1. /\ task' \in TaskType /\ task'.pc = "removed"
              /\ UNCHANGED <<popup, lost, published>>
            BY <1>12, <2>4, <1>d DEF UnregisterApp
        <3> QED
            <4>1. AppTyped'
                BY <2>1, <2>4, <3>1 DEF AppTyped, Fetching
            <4>2. NotThere'
                BY <2>1, <2>4, <3>1 DEF NotThere, AppTyped, Fetching
            <4>3. Accounted'
                BY <2>1, <2>4, <3>1 DEF Accounted, AppTyped, Fetching
            <4>4. Clean'
                BY <2>1, <2>4, <3>1 DEF Clean, AppTyped, Fetching
            <4>5. SameVersion'
                BY <2>1, <2>4, <3>1 DEF SameVersion, AppTyped, Fetching
            <4> QED BY <4>1, <4>2, <4>3, <4>4, <4>5 DEF AppInv
    <2> QED BY <2>1, <2>3, <2>4
<1>13. CASE Removed
    <2>1. /\ task.pc = "removed" /\ task' = Ready
          /\ UNCHANGED <<repo, appDisk, popup, marks>>
        BY <1>13 DEF Removed
    <2>2. grid' \in [shown : Version \cup {None}, next : Version \cup {None}]
        BY <1>13, <1>g DEF Removed
    <2>3. task' \in TaskType /\ task'.pc = "ready"
        BY <2>1 DEF Ready
    <2>4. AppTyped'
        BY <2>1, <2>2, <2>3 DEF AppTyped, Fetching
    <2>5. NotThere'
        BY <2>1, <2>2, <2>3 DEF NotThere, AppTyped, Fetching
    <2>6. Accounted'
        BY <2>1, <2>2, <2>3 DEF Accounted, AppTyped, Fetching
    <2>7. Clean'
        BY <2>1, <2>2, <2>3 DEF Clean, AppTyped, Fetching
    <2>8. SameVersion'
        BY <2>1, <2>2, <2>3 DEF SameVersion, AppTyped, Fetching
    <2> QED BY <2>4, <2>5, <2>6, <2>7, <2>8 DEF AppInv
<1>14. CASE AppCrash
    <2>1. /\ task' = Ready /\ popup' = FALSE /\ grid' = NoGrid
          /\ crashed' = (crashed \/ task.pc \in Fetching \cup {"thrown"})
          /\ UNCHANGED <<repo, appDisk, published, lost, stripped>>
        BY <1>14 DEF AppCrash, Fetching
    <2>2. grid' \in [shown : Version \cup {None}, next : Version \cup {None}]
        BY <2>1, <1>g
    <2>3. task' \in TaskType /\ task'.pc = "ready"
        BY <2>1 DEF Ready
    <2>4. task.pc \in Label
        BY DEF AppTyped, TaskType
    <2>5. AppTyped'
        BY <2>1, <2>2, <2>3, <2>4 DEF AppTyped, Fetching
    <2>6. NotThere'
        BY <2>1, <2>2, <2>3, <2>4 DEF NotThere, AppTyped, Fetching
    <2>7. Accounted'
        BY <2>1, <2>2, <2>3, <2>4 DEF Accounted, AppTyped, Fetching
    <2>8. Clean'
        BY <2>1, <2>3, <2>4 DEF Clean, Fetching, Label
    <2>9. SameVersion'
        BY <2>1, <2>2, <2>3, <2>4 DEF SameVersion, AppTyped, Fetching
    <2> QED BY <2>5, <2>6, <2>7, <2>8, <2>9 DEF AppInv
<1>15. ASSUME NEW pc \in {"remove", "update"}, Uninstall(pc) PROVE AppInv'
    <2>1. /\ disk' = NoFiles /\ crashed' = FALSE /\ stripped' = (registered # None)
          /\ (pc = "update" => grid.next # None)
          /\ UNCHANGED <<repo, list, registered, grid, popup, published, lost>>
        BY <1>15 DEF Uninstall, RemoveFiles
    <2>2. task' \in TaskType /\ task'.pc = pc /\ task'.version = grid.next
        BY <1>15 DEF Uninstall, AppTyped, TaskType, Ready
    <2> QED BY <2>1, <2>2, <1>n
            DEF AppInv, AppTyped, NotThere, Accounted, Clean, SameVersion, Fetching
<1>16. CASE UNCHANGED appVars
    BY <1>16 DEF appVars, AppInv, AppTyped, NotThere, Accounted, Clean, SameVersion
<1> QED BY <1>1, <1>2, <1>3, <1>4, <1>5, <1>6, <1>7, <1>8,
           <1>9, <1>10, <1>11, <1>12, <1>13, <1>14, <1>15, <1>16
        DEF AppNext, Download, Operation
\* At the start nothing is installed.
LEMMA StartHolds == AppInit => AppInv
<1> SUFFICES ASSUME AppInit PROVE AppInv
    OBVIOUS
<1>1. Ready \in TaskType /\ Ready.pc = "ready"
    BY Values, Rests DEF Ready, TaskType, Label
<1>2. NoFiles \in [File -> Version \cup {None, EmptyFile}] /\ \A f \in File : NoFiles[f] = None
    BY DEF NoFiles
<1>3. NoGrid \in [shown : Version \cup {None}, next : Version \cup {None}]
    BY DEF NoGrid
<1>4. AppTyped
    BY <1>1, <1>2, <1>3, Values DEF AppInit, AppTyped, Fetching
<1>5. NotThere /\ Accounted /\ Clean /\ SameVersion
    BY <1>1, Values DEF AppInit, NotThere, Accounted, Clean, SameVersion, Fetching
<1> QED BY <1>4, <1>5 DEF AppInv

\* The invariant holds of every behaviour.
LEMMA AlwaysInv == AppSpec => []AppInv
BY StartHolds, StepKeeps, PTL DEF AppSpec

LEMMA AppTypes == AppInv => AppTypeOK
<1> SUFFICES ASSUME AppInv PROVE AppTypeOK
    OBVIOUS
<1>1. AppTyped
    BY DEF AppInv
<1>2. task.pc \in {"get", "check"} => current \in File
    BY <1>1, TailRest DEF AppTyped, TaskType, current
<1> QED BY <1>1, <1>2 DEF AppTyped, TaskType, Tries, AppTypeOK

\* The files of a DApp are versions, missing or empty, whatever httpGetFile leaves; a
\* download always has a file to work on, and the popup stays open around it.
THEOREM AppTypeCorrect == AppSpec => []AppTypeOK
BY AppTypes, AlwaysInv, PTL

\* installApp, uninstallApp and registerApp: a DApp in the database has its files, but
\* for those that an empty answer lost or a removal that was cut short took; one that is
\* not leaves no file unless the program stopped in the middle.
THEOREM FilesAndEntryAgree == AppSpec => []WholeOrNothing
<1>1. AppInv => WholeOrNothing
    BY DEF AppInv, Accounted, Clean, WholeOrNothing
<1> QED BY <1>1, AlwaysInv, PTL

\* installApp does not mix the files of two publications while the repository rests and
\* no download was cut short, however many tries fail.
THEOREM VersionsDoNotMix == AppSpec => []OneVersion
<1>1. AppInv => OneVersion
    BY DEF AppInv, SameVersion, OneVersion
<1> QED BY <1>1, AlwaysInv, PTL
-----------------------------------------------------------------------------
\* The node.

\* Where a thread is that carries a new setting, and where it carries none.
SetterPc == {"lock", "store", "enter", "write", "leave"}
OtherPc == {"idle", "request", "copy", "send", "open", "read"}

ThreadState ==
    [pc : SetterPc \cup OtherPc, value : Setting \cup {Unset},
     left : {<<>>, <<"target">>, <<"port", "target">>, <<"host", "port", "target">>},
     copy : [Part -> Setting \cup {Unset}]]

\* Types of the live node and of the threads, and who holds which of the two mutexes.
Threads ==
    /\ stored \in Setting \cup {Unset} /\ live \in [Part -> Setting \cup {Unset}]
    /\ at \in [Worker -> ThreadState]
    /\ owner \in [{"QmlSystem", "API"} -> Worker \cup {Unset}]
    /\ configDB \in {"open", "NULL"}
    /\ {ready, refused, raced, broken} \subseteq BOOLEAN
    /\ broken => \A t \in Worker : at[t].pc = "idle"
    /\ \A t \in Worker :
          /\ at[t].value # Unset <=> at[t].pc \in SetterPc
          /\ at[t].pc \in {"write", "copy"} => owner["API"] = t
          /\ at[t].pc \in SetterPc \ {"lock"} => owner["QmlSystem"] = t
          /\ at[t].pc \in {"open", "read"} => t = GUI
          /\ at[t].pc \in {"request", "copy", "send", "store"} => t # GUI /\ ready
          /\ at[t].pc = "lock" => t = GUI \/ ready

\* Once a setting was loaded there is always one.
Loaded ==
    /\ ready => stored # Unset /\ \A p \in Part : live[p] # Unset
    /\ at[GUI].pc \in SetterPc \cup {"read"} => stored # Unset
    /\ \A t \in Worker : at[t].pc = "leave" => \A p \in Part : live[p] # Unset

\* How much of its setting a thread has written, or copied from the live node.
Written(t) ==
    at[t].pc = "write" =>
       /\ at[t].left # <<>>
       /\ at[t].left \in {<<"port", "target">>, <<"target">>} => live["host"] = at[t].value
       /\ at[t].left = <<"target">> => live["port"] = at[t].value
Copied(t) ==
    at[t].pc = "copy" =>
       /\ at[t].left # <<>>
       /\ at[t].left \in {<<"port", "target">>, <<"target">>} => at[t].copy["host"] = live["host"]
       /\ at[t].left = <<"target">> => at[t].copy["port"] = live["port"]

\* Unless somebody is writing, the three parts belong together.
Uniform == live["host"] = live["port"] /\ live["port"] = live["target"]
Whole ==
    /\ \A t \in Worker : Written(t) /\ Copied(t)
    /\ ~broken /\ (\A t \in Worker : at[t].pc # "write") => Uniform
    /\ \A t \in Worker : at[t].pc = "send" =>
          \E v \in Setting : \A p \in Part : at[t].copy[p] = v

\* What the mutex of QmlSystem.cpp is for: the setter that holds it has stored what it
\* makes live, and without one the live node is the stored one.
InStep ==
    ~refused /\ ~raced =>
       /\ ~broken
       /\ configDB = "open" \/ at[GUI].pc = "open" \/ (~ready /\ at[GUI].pc = "idle")
       /\ at[GUI].pc # "idle" => \A t \in Task : at[t].value = Unset
       /\ \A t \in Worker : at[t].pc \in {"enter", "write", "leave"} => stored = at[t].value
       /\ at[GUI].pc = "lock" => stored = at[GUI].value
       /\ \A t \in Worker : at[t].pc = "leave" => \A p \in Part : live[p] = at[t].value
       /\ ready /\ at[GUI].pc # "lock"
             /\ (\A t \in Worker : at[t].pc \notin {"enter", "write", "leave"})
          => \A p \in Part : live[p] = stored

ApiInv == Threads /\ Loaded /\ Whole /\ InStep

\* A step of thread t touches no other thread.
Only(t) == \A u \in Worker : u # t => at'[u] = at[u]

\* It holds before anything is loaded.
LEMMA ApiInitInv == ApiInit => ApiInv
<1> SUFFICES ASSUME ApiInit PROVE ApiInv
    OBVIOUS
<1> USE ApiConfigAssumption DEF ApiInit, Idle, NoParts, Part, Worker
<1>1. Threads
    BY DEF Threads, ThreadState, SetterPc, OtherPc, Setting
<1>2. Loaded /\ Whole /\ InStep
    BY DEF Loaded, Whole, InStep, Written, Copied, Uniform, SetterPc
<1> QED BY <1>1, <1>2 DEF ApiInv

\* The sequences of parts that are left.
LEMMA Suffixes ==
    /\ Head(<<"host", "port", "target">>) = "host"
    /\ Tail(<<"host", "port", "target">>) = <<"port", "target">>
    /\ Head(<<"port", "target">>) = "port" /\ Tail(<<"port", "target">>) = <<"target">>
    /\ Head(<<"target">>) = "target" /\ Tail(<<"target">>) = <<>>
    /\ Len(<<"host", "port", "target">>) = 3 /\ Len(<<"port", "target">>) = 2
    /\ Len(<<"target">>) = 1
    /\ <<"host", "port", "target">> # <<"port", "target">> /\ <<"target">> # <<>>
    /\ <<"host", "port", "target">> # <<"target">> /\ <<"port", "target">> # <<"target">>
    /\ <<"host", "port", "target">> # <<>> /\ <<"port", "target">> # <<>>
OBVIOUS

\* Choosing a node only starts a task.
LEMMA SetWalletStep ==
    ASSUME ApiInv, NEW t \in Task, NEW v \in Node, SetWalletAPI(t, v)
    PROVE  ApiInv'
<1> USE ApiConfigAssumption DEF ApiInv, Part
<1>1. /\ Only(t) /\ ready /\ at[GUI].pc = "idle" /\ ~broken /\ t # GUI /\ at[t].pc = "idle" /\ v \in Setting
      /\ at' \in [Worker -> ThreadState]
      /\ at'[t].pc = "lock" /\ at'[t].value = v
      /\ UNCHANGED <<configDB, stored, live, owner, ready, refused, raced, broken>>
    BY DEF SetWalletAPI, Call, Idle, NoParts, Threads, ThreadState, SetterPc, Setting, Only, Worker
<1>2. Threads'
    BY <1>1 DEF Threads, ThreadState, SetterPc, OtherPc, Only, Worker, Setting
<1>3. Loaded'
    BY <1>1 DEF Loaded, Threads, SetterPc, Only, Worker, Setting
<1>4. Whole'
    <2>1. ASSUME NEW u \in Worker PROVE Written(u)' /\ Copied(u)'
        BY <1>1 DEF Whole, Written, Copied, Only
    <2>2. ~broken' /\ (\A u \in Worker : at'[u].pc # "write") => Uniform'
        BY <1>1 DEF Whole, Uniform, Only
    <2>3. ASSUME NEW u \in Worker, at'[u].pc = "send"
          PROVE  \E w \in Setting : \A p \in Part : at'[u].copy[p] = w
        BY <1>1, <2>3 DEF Whole, Only
    <2> QED BY <2>1, <2>2, <2>3 DEF Whole
<1>5. InStep'
    BY <1>1 DEF InStep, Threads, SetterPc, Only, Worker, Setting, Loaded
<1> QED BY <1>2, <1>3, <1>4, <1>5

\* The mutex of QmlSystem.cpp.
LEMMA LockSetterStep ==
    ASSUME ApiInv, NEW t \in Worker, LockSetter(t)
    PROVE  ApiInv'
<1> USE ApiConfigAssumption DEF ApiInv, Part
<1>1. /\ Only(t) /\ at[t].pc = "lock" /\ owner["QmlSystem"] = Unset
      /\ at' \in [Worker -> ThreadState]
      /\ at'[t].pc = (IF t = GUI THEN "enter" ELSE "store") /\ at'[t].value = at[t].value
      /\ owner' \in [{"QmlSystem", "API"} -> Worker \cup {Unset}]
      /\ owner'["QmlSystem"] = t /\ owner'["API"] = owner["API"]
      /\ UNCHANGED <<configDB, stored, live, ready, refused, raced, broken>>
    BY DEF LockSetter, AfterLock, GoOn, Lock, ApiMutex, Threads, ThreadState, SetterPc, Only
<1>2. Threads'
    BY <1>1 DEF Threads, ThreadState, SetterPc, OtherPc, Only, Worker, Setting
<1>3. Loaded'
    BY <1>1 DEF Loaded, Threads, SetterPc, Only, Worker, Setting
<1>4. Whole'
    <2>1. ASSUME NEW u \in Worker PROVE Written(u)' /\ Copied(u)'
        BY <1>1 DEF Whole, Written, Copied, Only
    <2>2. ~broken' /\ (\A u \in Worker : at'[u].pc # "write") => Uniform'
        BY <1>1 DEF Whole, Uniform, Only
    <2>3. ASSUME NEW u \in Worker, at'[u].pc = "send"
          PROVE  \E v \in Setting : \A p \in Part : at'[u].copy[p] = v
        BY <1>1, <2>3 DEF Whole, Only
    <2> QED BY <2>1, <2>2, <2>3 DEF Whole
<1>5. InStep'
    BY <1>1 DEF InStep, Threads, SetterPc, Only, Worker, Setting, Loaded
<1> QED BY <1>2, <1>3, <1>4, <1>5

\* The mutex of API.cpp.
LEMMA EnterStep ==
    ASSUME ApiInv, NEW t \in Worker, Enter(t)
    PROVE  ApiInv'
<1> USE ApiConfigAssumption DEF ApiInv, Part
<1>1. /\ Only(t) /\ at[t].pc = "enter" /\ owner["API"] = Unset
      /\ at' \in [Worker -> ThreadState]
      /\ at'[t].pc = "write" /\ at'[t].value = at[t].value /\ at'[t].left = <<"host", "port", "target">>
      /\ owner' \in [{"QmlSystem", "API"} -> Worker \cup {Unset}]
      /\ owner'["API"] = t /\ owner'["QmlSystem"] = owner["QmlSystem"]
      /\ UNCHANGED <<configDB, stored, live, ready, refused, raced, broken>>
    <2>1. /\ at' = [at EXCEPT ![t].pc = "write", ![t].left = <<"host", "port", "target">>]
          /\ at \in [Worker -> ThreadState]
        BY DEF Enter, Parts, Threads
    <2>2. /\ Only(t) /\ at' \in [Worker -> ThreadState] /\ at'[t].pc = "write"
          /\ at'[t].value = at[t].value /\ at'[t].left = <<"host", "port", "target">>
        BY <2>1 DEF ThreadState, SetterPc, Only
    <2> QED BY <2>2 DEF Enter, Lock, ApiMutex, Threads
<1>2. Threads'
    BY <1>1, Suffixes DEF Threads, ThreadState, SetterPc, OtherPc, Only, Worker, Setting
<1>3. Loaded'
    BY <1>1, Suffixes DEF Loaded, Threads, SetterPc, Only, Worker, Setting
<1>4. Whole'
    <2>1. ASSUME NEW u \in Worker PROVE Written(u)' /\ Copied(u)'
        BY <1>1, Suffixes DEF Whole, Written, Copied, Only
    <2>2. ~broken' /\ (\A u \in Worker : at'[u].pc # "write") => Uniform'
        BY <1>1, Suffixes DEF Whole, Uniform, Only
    <2>3. ASSUME NEW u \in Worker, at'[u].pc = "send"
          PROVE  \E v \in Setting : \A p \in Part : at'[u].copy[p] = v
        BY <1>1, <2>3 DEF Whole, Only
    <2> QED BY <2>1, <2>2, <2>3 DEF Whole
<1>5. InStep'
    BY <1>1, Suffixes DEF InStep, Threads, SetterPc, Only, Worker, Setting, Loaded
<1> QED BY <1>2, <1>3, <1>4, <1>5

\* A setter gives the mutex of QmlSystem.cpp back.
LEMMA LeaveStep ==
    ASSUME ApiInv, NEW t \in Worker, Leave(t)
    PROVE  ApiInv'
<1> USE ApiConfigAssumption DEF ApiInv, Part
<1>1. /\ Only(t) /\ at[t].pc = "leave"
      /\ at' \in [Worker -> ThreadState]
      /\ at'[t].pc = "idle" /\ at'[t].value = Unset
      /\ owner' \in [{"QmlSystem", "API"} -> Worker \cup {Unset}]
      /\ owner'["QmlSystem"] = Unset /\ owner'["API"] = owner["API"]
      /\ ready' = (ready \/ t = GUI)
      /\ UNCHANGED <<configDB, stored, live, refused, raced, broken>>
    BY DEF Leave, Unlock, ApiMutex, Idle, NoParts, Threads, ThreadState, OtherPc, Only
<1>2. Threads'
    BY <1>1 DEF Threads, ThreadState, SetterPc, OtherPc, Only, Worker, Setting
<1>3. Loaded'
    BY <1>1 DEF Loaded, Threads, SetterPc, Only, Worker, Setting
<1>4. Whole'
    <2>1. ASSUME NEW u \in Worker PROVE Written(u)' /\ Copied(u)'
        BY <1>1 DEF Whole, Written, Copied, Only
    <2>2. ~broken' /\ (\A u \in Worker : at'[u].pc # "write") => Uniform'
        BY <1>1 DEF Whole, Uniform, Only
    <2>3. ASSUME NEW u \in Worker, at'[u].pc = "send"
          PROVE  \E v \in Setting : \A p \in Part : at'[u].copy[p] = v
        BY <1>1, <2>3 DEF Whole, Only
    <2> QED BY <2>1, <2>2, <2>3 DEF Whole
<1>5. InStep'
    BY <1>1 DEF InStep, Threads, SetterPc, Only, Worker, Setting, Loaded
<1> QED BY <1>2, <1>3, <1>4, <1>5

\* A request of the node only starts a task.
LEMMA RequestStep ==
    ASSUME ApiInv, NEW t \in Task, Request(t)
    PROVE  ApiInv'
<1> USE ApiConfigAssumption DEF ApiInv, Part
<1>1. /\ Only(t) /\ ready /\ ~broken /\ t # GUI /\ at[t].pc = "idle"
      /\ at' \in [Worker -> ThreadState]
      /\ at'[t].pc = "request" /\ at'[t].value = Unset
      /\ UNCHANGED <<configDB, stored, live, owner, ready, refused, raced, broken>>
    BY DEF Request, Call, Idle, NoParts, Threads, ThreadState, OtherPc, Only, Worker
<1>2. Threads'
    BY <1>1 DEF Threads, ThreadState, SetterPc, OtherPc, Only, Worker, Setting
<1>3. Loaded'
    BY <1>1 DEF Loaded, Threads, SetterPc, Only, Worker, Setting
<1>4. Whole'
    <2>1. ASSUME NEW u \in Worker PROVE Written(u)' /\ Copied(u)'
        BY <1>1 DEF Whole, Written, Copied, Only
    <2>2. ~broken' /\ (\A u \in Worker : at'[u].pc # "write") => Uniform'
        BY <1>1 DEF Whole, Uniform, Only
    <2>3. ASSUME NEW u \in Worker, at'[u].pc = "send"
          PROVE  \E v \in Setting : \A p \in Part : at'[u].copy[p] = v
        BY <1>1, <2>3 DEF Whole, Only
    <2> QED BY <2>1, <2>2, <2>3 DEF Whole
<1>5. InStep'
    BY <1>1 DEF InStep, Threads, SetterPc, Only, Worker, Setting, Loaded
<1> QED BY <1>2, <1>3, <1>4, <1>5

\* A request has been sent.
LEMMA SendStep ==
    ASSUME ApiInv, NEW t \in Worker, Send(t)
    PROVE  ApiInv'
<1> USE ApiConfigAssumption DEF ApiInv, Part
<1>1. /\ Only(t) /\ at[t].pc = "send"
      /\ at' \in [Worker -> ThreadState]
      /\ at'[t].pc = "idle" /\ at'[t].value = Unset
      /\ UNCHANGED <<configDB, stored, live, owner, ready, refused, raced, broken>>
    BY DEF Send, Idle, NoParts, Threads, ThreadState, OtherPc, Only
<1>2. Threads'
    BY <1>1 DEF Threads, ThreadState, SetterPc, OtherPc, Only, Worker, Setting
<1>3. Loaded'
    BY <1>1 DEF Loaded, Threads, SetterPc, Only, Worker, Setting
<1>4. Whole'
    <2>1. ASSUME NEW u \in Worker PROVE Written(u)' /\ Copied(u)'
        BY <1>1 DEF Whole, Written, Copied, Only
    <2>2. ~broken' /\ (\A u \in Worker : at'[u].pc # "write") => Uniform'
        BY <1>1 DEF Whole, Uniform, Only
    <2>3. ASSUME NEW u \in Worker, at'[u].pc = "send"
          PROVE  \E v \in Setting : \A p \in Part : at'[u].copy[p] = v
        BY <1>1, <2>3 DEF Whole, Only
    <2> QED BY <2>1, <2>2, <2>3 DEF Whole
<1>5. InStep'
    BY <1>1 DEF InStep, Threads, SetterPc, Only, Worker, Setting, Loaded
<1> QED BY <1>2, <1>3, <1>4, <1>5

\* A request starts to copy.
LEMMA CopyStartStep ==
    ASSUME ApiInv, NEW t \in Worker, CopyStart(t)
    PROVE  ApiInv'
<1> USE ApiConfigAssumption DEF ApiInv, Part
<1>1. /\ Only(t) /\ at[t].pc = "request" /\ owner["API"] = Unset
      /\ at' \in [Worker -> ThreadState]
      /\ at'[t].pc = "copy" /\ at'[t].value = at[t].value /\ at'[t].left = <<"host", "port", "target">>
      /\ owner' \in [{"QmlSystem", "API"} -> Worker \cup {Unset}]
      /\ owner'["API"] = t /\ owner'["QmlSystem"] = owner["QmlSystem"]
      /\ UNCHANGED <<configDB, stored, live, ready, refused, raced, broken>>
    <2>1. /\ at' = [at EXCEPT ![t].pc = "copy", ![t].left = <<"host", "port", "target">>]
          /\ at \in [Worker -> ThreadState]
        BY DEF CopyStart, Parts, Threads
    <2>2. /\ Only(t) /\ at' \in [Worker -> ThreadState] /\ at'[t].pc = "copy"
          /\ at'[t].value = at[t].value /\ at'[t].left = <<"host", "port", "target">>
        BY <2>1 DEF ThreadState, OtherPc, Only
    <2> QED BY <2>2 DEF CopyStart, Lock, ApiMutex, Threads
<1>2. Threads'
    BY <1>1, Suffixes DEF Threads, ThreadState, SetterPc, OtherPc, Only, Worker, Setting
<1>3. Loaded'
    BY <1>1, Suffixes DEF Loaded, Threads, SetterPc, Only, Worker, Setting
<1>4. Whole'
    <2>1. ASSUME NEW u \in Worker PROVE Written(u)' /\ Copied(u)'
        BY <1>1, Suffixes DEF Whole, Written, Copied, Only
    <2>2. ~broken' /\ (\A u \in Worker : at'[u].pc # "write") => Uniform'
        BY <1>1, Suffixes DEF Whole, Uniform, Only
    <2>3. ASSUME NEW u \in Worker, at'[u].pc = "send"
          PROVE  \E v \in Setting : \A p \in Part : at'[u].copy[p] = v
        BY <1>1, <2>3 DEF Whole, Only
    <2> QED BY <2>1, <2>2, <2>3 DEF Whole
<1>5. InStep'
    BY <1>1, Suffixes DEF InStep, Threads, SetterPc, Only, Worker, Setting, Loaded
<1> QED BY <1>2, <1>3, <1>4, <1>5

\* Closing the database before it is opened again.
LEMMA LoadStep ==
    ASSUME ApiInv, LoadConfigDB
    PROVE  ApiInv'
<1> USE ApiConfigAssumption DEF ApiInv, Part
<1>1. /\ Only(GUI) /\ ~broken /\ at[GUI].pc = "idle"
      /\ at' \in [Worker -> ThreadState]
      /\ at'[GUI].pc = "open" /\ at'[GUI].value = Unset /\ configDB' = "NULL"
      /\ raced' = (raced \/ \E t \in Task : at[t].value # Unset)
      /\ UNCHANGED <<stored, live, owner, ready, refused, broken>>
    BY DEF LoadConfigDB, Call, Idle, NoParts, Threads, ThreadState, OtherPc, Only, Worker
<1>2. Threads'
    BY <1>1 DEF Threads, ThreadState, SetterPc, OtherPc, Only, Worker, Setting
<1>3. Loaded'
    BY <1>1 DEF Loaded, Threads, SetterPc, Only, Worker, Setting
<1>4. Whole'
    <2>1. ASSUME NEW u \in Worker PROVE Written(u)' /\ Copied(u)'
        BY <1>1 DEF Whole, Written, Copied, Only
    <2>2. ~broken' /\ (\A u \in Worker : at'[u].pc # "write") => Uniform'
        BY <1>1 DEF Whole, Uniform, Only
    <2>3. ASSUME NEW u \in Worker, at'[u].pc = "send"
          PROVE  \E v \in Setting : \A p \in Part : at'[u].copy[p] = v
        BY <1>1, <2>3 DEF Whole, Only
    <2> QED BY <2>1, <2>2, <2>3 DEF Whole
<1>5. InStep'
    <2>1. CASE refused \/ raced'
        BY <1>1, <2>1 DEF InStep
    <2>2. CASE ~refused /\ ~raced'
        <3> DEFINE Carrying == \E t \in Task : at[t].value # Unset
        <3>0. raced' = (raced \/ Carrying)
            BY DEF LoadConfigDB
        <3>01. ~raced /\ ~Carrying
            <4> HIDE DEF Carrying
            <4> QED BY <2>2, <3>0
        <3>1. ~raced /\ \A t \in Task : at[t].value = Unset
            BY <3>01
        <3>2. \A t \in Worker : t = GUI \/ (t \in Task /\ t # GUI)
            BY DEF Worker
        <3>3. \A t \in Worker : at'[t].pc \notin {"enter", "write", "leave"}
            BY <1>1, <3>1, <3>2 DEF Threads, SetterPc, Only
        <3>4. \A t \in Worker : at[t].pc \notin {"enter", "write", "leave"}
            BY <1>1, <3>1, <3>2 DEF Threads, SetterPc
        <3>5. \A t \in Task : at'[t].value = Unset
            BY <1>1, <3>1 DEF Only, Worker
        <3> QED BY <1>1, <2>2, <3>1, <3>3, <3>4, <3>5 DEF InStep
    <2> QED BY <1>1, <2>1, <2>2
<1> QED BY <1>2, <1>3, <1>4, <1>5

\* Opening it, and the default for a wallet without a setting.
LEMMA OpenStep ==
    ASSUME ApiInv, OpenConfigDB, at[GUI].pc = "open"
    PROVE  ApiInv'
<1> USE ApiConfigAssumption DEF ApiInv, Part
<1>1. /\ Only(GUI) /\ at' \in [Worker -> ThreadState] /\ at'[GUI].value = at[GUI].value
      /\ \/ /\ configDB' = "open" /\ at'[GUI].pc = "read" /\ refused' = refused
            /\ stored' = (IF stored = Unset THEN Public ELSE stored)
         \/ refused' = TRUE /\ at'[GUI].pc = "idle" /\ UNCHANGED <<configDB, stored>>
      /\ UNCHANGED <<live, owner, ready, raced, broken>>
    <2>0. GUI \in Worker
        BY DEF Worker
    <2>1. ASSUME NEW pc \in {"read", "idle"}, at' = [at EXCEPT ![GUI].pc = pc]
          PROVE  /\ Only(GUI) /\ at' \in [Worker -> ThreadState]
                 /\ at'[GUI].value = at[GUI].value /\ at'[GUI].pc = pc
        BY <2>0, <2>1 DEF Threads, ThreadState, Only, OtherPc
    <2>2. CASE /\ configDB' = "open" /\ at' = [at EXCEPT ![GUI].pc = "read"]
               /\ stored' = (IF stored = Unset THEN Public ELSE stored) /\ UNCHANGED refused
        BY <2>1, <2>2 DEF OpenConfigDB
    <2>3. CASE refused' = TRUE /\ at' = [at EXCEPT ![GUI].pc = "idle"] /\ UNCHANGED <<configDB, stored>>
        BY <2>1, <2>3 DEF OpenConfigDB
    <2>4. \/ /\ configDB' = "open" /\ at' = [at EXCEPT ![GUI].pc = "read"]
             /\ stored' = (IF stored = Unset THEN Public ELSE stored) /\ UNCHANGED refused
          \/ refused' = TRUE /\ at' = [at EXCEPT ![GUI].pc = "idle"] /\ UNCHANGED <<configDB, stored>>
        BY DEF OpenConfigDB, GoOn
    <2> QED BY <2>2, <2>3, <2>4
<1>11. stored' \in Setting \cup {Unset} /\ configDB' \in {"open", "NULL"} /\ refused' \in BOOLEAN
    BY <1>1 DEF Threads, Setting
<1>12. at'[GUI].value = Unset /\ at'[GUI].pc \in {"read", "idle"}
    BY <1>1 DEF Threads, SetterPc, Worker
<1>2. Threads'
    BY <1>1, <1>11, <1>12 DEF Threads, ThreadState, SetterPc, OtherPc, Only, Worker, Setting
<1>3. Loaded'
    BY <1>1 DEF Loaded, Threads, SetterPc, Only, Worker, Setting
<1>4. Whole'
    <2>1. ASSUME NEW u \in Worker PROVE Written(u)' /\ Copied(u)'
        BY <1>1 DEF Whole, Written, Copied, Only
    <2>2. ~broken' /\ (\A u \in Worker : at'[u].pc # "write") => Uniform'
        BY <1>1 DEF Whole, Uniform, Only
    <2>3. ASSUME NEW u \in Worker, at'[u].pc = "send"
          PROVE  \E v \in Setting : \A p \in Part : at'[u].copy[p] = v
        BY <1>1, <2>3 DEF Whole, Only
    <2> QED BY <2>1, <2>2, <2>3 DEF Whole
<1>5. InStep'
    BY <1>1 DEF InStep, Threads, SetterPc, Only, Worker, Setting, Loaded
<1> QED BY <1>2, <1>3, <1>4, <1>5

\* Replacing the old node by the default.
LEMMA ReadStep ==
    ASSUME ApiInv, ReadConfig, at[GUI].pc = "read"
    PROVE  ApiInv'
<1> USE ApiConfigAssumption DEF ApiInv, Part
<1>1. /\ Only(GUI) /\ at' \in [Worker -> ThreadState]
      /\ at'[GUI].pc = "lock" /\ at'[GUI].value = stored' /\ stored' \in Setting
      /\ UNCHANGED <<configDB, live, owner, ready, refused, raced, broken>>
    BY DEF ReadConfig, Loaded, Threads, ThreadState, SetterPc, Setting, Only, Worker
<1>2. Threads'
    BY <1>1 DEF Threads, ThreadState, SetterPc, OtherPc, Only, Worker, Setting
<1>3. Loaded'
    BY <1>1 DEF Loaded, Threads, SetterPc, Only, Worker, Setting
<1>4. Whole'
    <2>1. ASSUME NEW u \in Worker PROVE Written(u)' /\ Copied(u)'
        BY <1>1 DEF Whole, Written, Copied, Only
    <2>2. ~broken' /\ (\A u \in Worker : at'[u].pc # "write") => Uniform'
        BY <1>1 DEF Whole, Uniform, Only
    <2>3. ASSUME NEW u \in Worker, at'[u].pc = "send"
          PROVE  \E v \in Setting : \A p \in Part : at'[u].copy[p] = v
        BY <1>1, <2>3 DEF Whole, Only
    <2> QED BY <2>1, <2>2, <2>3 DEF Whole
<1>5. InStep'
    BY <1>1 DEF InStep, Threads, SetterPc, Only, Worker, Setting, Loaded
<1> QED BY <1>2, <1>3, <1>4, <1>5

\* A setter makes one part of its setting live.
LEMMA WritePartStep ==
    ASSUME ApiInv, NEW t \in Worker, WritePart(t)
    PROVE  ApiInv'
<1> DEFINE p == Head(at[t].left)
           last == at[t].left = <<"target">>
<1> USE ApiConfigAssumption DEF ApiInv, Part
<1>0. /\ at[t].pc = "write" /\ at[t].value \in Setting
      /\ at[t].left \in {<<"target">>, <<"port", "target">>, <<"host", "port", "target">>}
      /\ Len(at[t].left) = 1 <=> last
    BY Suffixes DEF WritePart, Threads, ThreadState, Whole, Written, SetterPc
<1>1. /\ Only(t) /\ at' \in [Worker -> ThreadState] /\ at'[t].value = at[t].value
      /\ at'[t].left = Tail(at[t].left) /\ at'[t].pc = IF last THEN "leave" ELSE "write"
    <2>1. /\ at \in [Worker -> ThreadState]
          /\ Tail(at[t].left) \in {<<>>, <<"target">>, <<"port", "target">>}
        BY <1>0, Suffixes DEF Threads
    <2>2. CASE last
        <3>1. at' = [at EXCEPT ![t].left = Tail(@), ![t].pc = "leave"]
            BY <1>0, <2>2 DEF WritePart
        <3> QED BY <2>1, <2>2, <3>1 DEF ThreadState, SetterPc, Only
    <2>3. CASE ~last
        <3>1. at' = [at EXCEPT ![t].left = Tail(@), ![t].pc = "write"]
            BY <1>0, <2>3 DEF WritePart
        <3> QED BY <2>1, <2>3, <3>1 DEF ThreadState, SetterPc, Only
    <2> QED BY <2>2, <2>3
<1>2. /\ live' \in [Part -> Setting \cup {Unset}] /\ live'[p] = at[t].value
      /\ \A q \in Part : q # p => live'[q] = live[q]
    BY <1>0, Suffixes DEF WritePart, Threads
<1>3. /\ owner' \in [{"QmlSystem", "API"} -> Worker \cup {Unset}]
      /\ owner'["QmlSystem"] = owner["QmlSystem"]
      /\ ~last => owner' = owner
      /\ UNCHANGED <<configDB, stored, ready, refused, raced, broken>>
    BY <1>0 DEF WritePart, Unlock, ApiMutex, Threads
<1>4. \A u \in Worker : u # t => at[u].pc \notin {"write", "copy"}
    BY <1>0 DEF Threads
<1>5. Threads'
    BY <1>0, <1>1, <1>2, <1>3, <1>4 DEF Threads, ThreadState, SetterPc, OtherPc, Only
<1>6. Loaded'
    <2>1. \A q \in Part : live[q] # Unset => live'[q] # Unset
        BY <1>0, <1>2 DEF Setting
    <2>2. last => \A q \in Part : live'[q] = at[t].value
        BY <1>0, <1>2, Suffixes DEF Whole, Written
    <2>3. \A u \in Worker : at'[u].pc = "leave" => \A q \in Part : live'[q] # Unset
        BY <1>0, <1>1, <2>1, <2>2 DEF Loaded, Only, Setting
    <2>4. at'[GUI].pc \in SetterPc \cup {"read"} => at[GUI].pc \in SetterPc \cup {"read"}
        BY <1>0, <1>1 DEF SetterPc, Only, Worker
    <2> QED BY <1>3, <2>1, <2>3, <2>4 DEF Loaded
<1>7. Whole'
    <2>1. ASSUME NEW u \in Worker PROVE Written(u)' /\ Copied(u)'
        BY <1>0, <1>1, <1>2, <1>4, Suffixes DEF Whole, Written, Copied, Only
    <2>2. (\A u \in Worker : at'[u].pc # "write") => Uniform'
        BY <1>0, <1>1, <1>2, Suffixes DEF Whole, Written, Uniform
    <2>3. ASSUME NEW u \in Worker, at'[u].pc = "send"
          PROVE  \E v \in Setting : \A q \in Part : at'[u].copy[q] = v
        BY <1>1, <2>3 DEF Whole, Only
    <2> QED BY <2>1, <2>2, <2>3 DEF Whole
<1>8. InStep'
    <2>1. last => \A q \in Part : live'[q] = at[t].value
        BY <1>0, <1>2, Suffixes DEF Whole, Written
    <2>2. \A u \in Worker : u # t => at[u].pc \notin {"enter", "write", "leave"}
        BY <1>0 DEF Threads, SetterPc
    <2> QED BY <1>0, <1>1, <1>3, <2>1, <2>2 DEF InStep, Only, Threads, SetterPc, Worker
<1> QED BY <1>5, <1>6, <1>7, <1>8

\* A request copies one part.
LEMMA CopyPartStep ==
    ASSUME ApiInv, NEW t \in Worker, CopyPart(t)
    PROVE  ApiInv'
<1> DEFINE p == Head(at[t].left)
           last == at[t].left = <<"target">>
<1> USE ApiConfigAssumption DEF ApiInv, Part
<1>0. /\ at[t].pc = "copy" /\ owner["API"] = t /\ ready
      /\ at[t].left \in {<<"target">>, <<"port", "target">>, <<"host", "port", "target">>}
      /\ Len(at[t].left) = 1 <=> last
    BY Suffixes DEF CopyPart, Threads, ThreadState, Whole, Copied
<1>1. /\ Only(t) /\ at' \in [Worker -> ThreadState] /\ at'[t].value = at[t].value
      /\ at'[t].left = Tail(at[t].left) /\ at'[t].pc = (IF last THEN "send" ELSE "copy")
      /\ at'[t].copy[p] = live[p] /\ \A q \in Part : q # p => at'[t].copy[q] = at[t].copy[q]
    <2>1. /\ at \in [Worker -> ThreadState] /\ p \in Part /\ live[p] \in Setting \cup {Unset}
          /\ Tail(at[t].left) \in {<<>>, <<"target">>, <<"port", "target">>}
        BY <1>0, Suffixes DEF Threads
    <2>2. CASE last
        <3>1. at' = [at EXCEPT ![t].left = Tail(@), ![t].copy[p] = live[p], ![t].pc = "send"]
            BY <1>0, <2>2 DEF CopyPart
        <3>2. at[t].copy \in [Part -> Setting \cup {Unset}]
            BY <2>1 DEF ThreadState
        <3>3. at'[t] = [at[t] EXCEPT !.left = Tail(@), !.copy[p] = live[p], !.pc = "send"]
            BY <2>1, <3>1
        <3>4. at'[t] \in ThreadState
            <4>1. [at[t].copy EXCEPT ![p] = live[p]] \in [Part -> Setting \cup {Unset}]
                BY <2>1, <3>2
            <4>2. /\ at'[t] = [at[t] EXCEPT !.left = Tail(at[t].left), !.pc = "send",
                                   !.copy = [at[t].copy EXCEPT ![p] = live[p]]]
                  /\ at[t] \in ThreadState
                BY <2>1, <3>3 DEF ThreadState
            <4> QED BY <2>1, <4>1, <4>2 DEF ThreadState, OtherPc
        <3>5. Only(t) /\ at' \in [Worker -> ThreadState]
            BY <2>1, <3>1, <3>4 DEF Only
        <3>6. at[t] \in ThreadState
            BY <2>1
        <3> QED BY <2>1, <2>2, <3>2, <3>3, <3>5, <3>6 DEF ThreadState
    <2>3. CASE ~last
        <3>1. at' = [at EXCEPT ![t].left = Tail(@), ![t].copy[p] = live[p], ![t].pc = "copy"]
            BY <1>0, <2>3 DEF CopyPart
        <3> QED BY <2>1, <2>3, <3>1 DEF ThreadState, OtherPc, Only
    <2> QED BY <2>2, <2>3
<1>3. /\ owner' \in [{"QmlSystem", "API"} -> Worker \cup {Unset}]
      /\ owner'["QmlSystem"] = owner["QmlSystem"]
      /\ ~last => owner' = owner
      /\ UNCHANGED <<live, configDB, stored, ready, refused, raced, broken>>
    BY <1>0 DEF CopyPart, Unlock, ApiMutex, Threads
<1>4. \A u \in Worker : u # t => at[u].pc \notin {"write", "copy"}
    BY <1>0 DEF Threads
<1>5. Threads'
    BY <1>0, <1>1, <1>3, <1>4 DEF Threads, ThreadState, SetterPc, OtherPc, Only
<1>6. Loaded'
    BY <1>0, <1>1, <1>3 DEF Loaded, SetterPc, Only
<1>7. Whole'
    <2>0. Uniform
        <3>1. \A u \in Worker : at[u].pc # "write"
            BY <1>0, <1>4
        <3>2. ~broken
            BY <1>0 DEF Threads
        <3> QED BY <3>1, <3>2 DEF Whole
    <2>1. ASSUME NEW u \in Worker PROVE Written(u)' /\ Copied(u)'
        <3>1. CASE u # t
            BY <1>1, <1>3, <1>4, <3>1 DEF Whole, Written, Copied, Only
        <3>2. CASE u = t
            BY <1>0, <1>1, <1>3, <3>2, Suffixes DEF Whole, Written, Copied
        <3> QED BY <3>1, <3>2
    <2>2. Uniform'
        BY <1>3, <2>0 DEF Uniform
    <2>3. ASSUME NEW u \in Worker, at'[u].pc = "send"
          PROVE  \E v \in Setting : \A q \in Part : at'[u].copy[q] = v
        <3>1. CASE u = t
            <4>1. last /\ \A q \in Part : at'[t].copy[q] = live["host"]
                BY <1>0, <1>1, <2>0, <2>3, <3>1, Suffixes DEF Whole, Copied, Uniform
            <4>2. live["host"] \in Setting
                BY <1>0 DEF Loaded, Threads
            <4> QED BY <3>1, <4>1, <4>2
        <3>2. CASE u # t
            BY <1>1, <2>3, <3>2 DEF Whole, Only
        <3> QED BY <3>1, <3>2
    <2> QED BY <2>1, <2>2, <2>3 DEF Whole
<1>8. InStep'
    BY <1>0, <1>1, <1>3 DEF InStep, Only, Threads, SetterPc, Worker
<1> QED BY <1>5, <1>6, <1>7, <1>8

\* A task stores its setting; using a closed database ends the program.
LEMMA StoreStep ==
    ASSUME ApiInv, NEW t \in Worker, SetConfigValue(t)
    PROVE  ApiInv'
<1> USE ApiConfigAssumption DEF ApiInv, Part
<1>1. /\ at[t].pc = "store" /\ t # GUI /\ ready /\ owner["QmlSystem"] = t /\ at[t].value \in Setting
      /\ UNCHANGED <<configDB, live, owner, ready, raced>>
    BY DEF SetConfigValue, Threads, ThreadState, SetterPc
<1>2. \A u \in Worker : u # t => at[u].pc \notin {"enter", "write", "leave"}
    BY <1>1 DEF Threads, SetterPc
<1>3. CASE /\ configDB = "open" /\ GoOn(t, "enter") /\ UNCHANGED broken
           /\ \/ stored' = at[t].value /\ UNCHANGED refused
              \/ refused' = TRUE /\ UNCHANGED stored
    <2>1. /\ Only(t) /\ at' \in [Worker -> ThreadState]
          /\ at'[t].pc = "enter" /\ at'[t].value = at[t].value
        <3>1. at' = [at EXCEPT ![t].pc = "enter"] /\ at \in [Worker -> ThreadState]
            BY <1>3 DEF GoOn, Threads
        <3> QED BY <3>1 DEF ThreadState, SetterPc, Only
    <2>2. stored' \in Setting \cup {Unset} /\ (stored # Unset => stored' # Unset) /\ refused' \in BOOLEAN
        BY <1>1, <1>3 DEF Threads, Setting
    <2>3. Threads'
        BY <1>1, <1>3, <2>1, <2>2 DEF Threads, SetterPc, Only
    <2>4. Loaded'
        BY <1>1, <2>1, <2>2 DEF Loaded, SetterPc, Only, Worker
    <2>5. Whole'
        <3>1. ASSUME NEW u \in Worker PROVE Written(u)' /\ Copied(u)'
            BY <1>1, <2>1 DEF Whole, Written, Copied, Only
        <3>2. ~broken' /\ (\A u \in Worker : at'[u].pc # "write") => Uniform'
            BY <1>1, <1>3, <2>1 DEF Whole, Uniform, Only
        <3>3. ASSUME NEW u \in Worker, at'[u].pc = "send"
              PROVE  \E v \in Setting : \A p \in Part : at'[u].copy[p] = v
            BY <2>1, <3>3 DEF Whole, Only
        <3> QED BY <3>1, <3>2, <3>3 DEF Whole
    <2>6. InStep'
        <3>1. CASE refused' = TRUE
            BY <3>1 DEF InStep
        <3>2. CASE stored' = at[t].value /\ UNCHANGED refused
            <4>1. refused \/ raced \/ at[GUI].pc = "idle"
                BY <1>1 DEF InStep, Worker, Setting
            <4> QED BY <1>1, <1>2, <1>3, <2>1, <3>2, <4>1 DEF InStep, Only, Worker
        <3> QED BY <1>3, <3>1, <3>2
    <2> QED BY <2>3, <2>4, <2>5, <2>6
<1>4. CASE /\ configDB = "NULL" /\ broken' = TRUE
           /\ at' = [u \in Worker |-> Idle] /\ UNCHANGED <<stored, refused>>
    <2>1. \A u \in Worker : at'[u].pc = "idle" /\ at'[u].value = Unset
        BY <1>4 DEF Idle
    <2>2. at' \in [Worker -> ThreadState]
        BY <1>4 DEF Idle, NoParts, ThreadState, OtherPc
    <2>3. Threads'
        BY <1>1, <1>4, <2>1, <2>2 DEF Threads, SetterPc
    <2>4. Loaded'
        BY <1>1, <1>4, <2>1 DEF Loaded, SetterPc, Worker
    <2>5. Whole'
        BY <1>4, <2>1 DEF Whole, Written, Copied
    <2>6. refused \/ raced
        BY <1>1, <1>4 DEF InStep, Threads, Worker, Setting
    <2>7. InStep'
        BY <1>1, <1>4, <2>6 DEF InStep
    <2> QED BY <2>3, <2>4, <2>5, <2>7
<1> QED BY <1>3, <1>4 DEF SetConfigValue

\* Every step keeps it.
LEMMA ApiStep == ApiInv /\ [ApiNext]_apiVars => ApiInv'
<1> SUFFICES ASSUME ApiInv, [ApiNext]_apiVars PROVE ApiInv'
    OBVIOUS
<1>1. CASE LoadConfigDB
    BY <1>1, LoadStep
<1>2. ASSUME NEW t \in Task, Request(t) \/ \E v \in Node : SetWalletAPI(t, v)
      PROVE  ApiInv'
    BY <1>2, RequestStep, SetWalletStep
<1>3. ASSUME NEW t \in Worker, ThreadStep(t)
      PROVE  ApiInv'
    <2>1. CASE OpenConfigDB \/ ReadConfig
        BY <2>1, OpenStep, ReadStep DEF OpenConfigDB, ReadConfig
    <2>2. CASE ~(OpenConfigDB \/ ReadConfig)
        BY <1>3, <2>2, LockSetterStep, StoreStep, EnterStep, WritePartStep, LeaveStep,
           CopyStartStep, CopyPartStep, SendStep DEF ThreadStep
    <2> QED BY <2>1, <2>2
<1>4. CASE UNCHANGED apiVars
    <2>1. UNCHANGED <<configDB, stored, live, owner, at, calls, ready, refused, raced, broken>>
        BY <1>4 DEF apiVars
    <2>2. Threads' /\ Loaded'
        BY <2>1 DEF ApiInv, Threads, Loaded
    <2>3. Whole'
        BY <2>1 DEF ApiInv, Whole, Written, Copied, Uniform
    <2>4. InStep'
        BY <2>1 DEF ApiInv, InStep
    <2> QED BY <2>2, <2>3, <2>4 DEF ApiInv
<1> QED BY <1>1, <1>2, <1>3, <1>4 DEF ApiNext

\* The invariant of all that follows.
LEMMA ApiAlways == ApiSpec => []ApiInv
BY ApiInitInv, ApiStep, PTL DEF ApiSpec

LEMMA ApiHolds == ApiInv => ApiTypeOK /\ EndpointWhole /\ LiveIsStored
<1>1. ApiInv => ApiTypeOK
    BY DEF ApiInv, Threads, ApiTypeOK, ApiMutex
<1>2. ApiInv => EndpointWhole
    BY DEF ApiInv, Whole, EndpointWhole
<1>3. ApiInv => LiveIsStored
    <2> SUFFICES ASSUME ApiInv, ~refused, ~raced, ready, \A t \in Worker : at[t].value = Unset
                 PROVE  \A p \in Part : live[p] = stored
        BY DEF LiveIsStored, ApiInv, InStep
    <2>1. \A t \in Worker : at[t].pc \notin SetterPc
        BY DEF ApiInv, Threads
    <2> QED BY <2>1 DEF ApiInv, InStep, SetterPc, Worker
<1> QED BY <1>1, <1>2, <1>3

\* Live node and setting have their types, and who writes or copies the parts of the
\* node holds the mutex of API.cpp.
THEOREM ApiTypeCorrect == ApiSpec => []ApiTypeOK
BY ApiHolds, ApiAlways, PTL

\* However many tasks set the node and use it, a request goes to one node, never to the
\* host of one setting and the port or target of another.
THEOREM EndpointsAreWhole == ApiSpec => []EndpointWhole
BY ApiHolds, ApiAlways, PTL

\* The node in use is the stored one whenever no setter is at work, and no task uses a
\* closed database, unless the GUI loaded during a setter or the database failed.
THEOREM StoredIsLive == ApiSpec => []LiveIsStored
BY ApiHolds, ApiAlways, PTL
=============================================================================
