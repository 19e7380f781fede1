----------------------------- MODULE AppInstall -----------------------------
(***************************************************************************)
(* Installing, updating and removing a DApp: its folder on disk, its entry *)
(* in the app database, the downloaded list of DApps and the Applications  *)
(* screen.                                                                 *)
(*                                                                         *)
(* A pool task downloads the files one after the other, several tries for  *)
(* each.  A download that fails leaves the file as it is; one that answers *)
(* with nothing leaves an empty file.  A modal popup without a button      *)
(* covers the window meanwhile, so there is one operation at a time.  The  *)
(* program may stop at any point; the repository may publish at any point. *)
(***************************************************************************)
EXTENDS Naturals, Sequences

CONSTANTS
    Base, Listed,      \* main.qml, icon.png, files.json; what files.json adds
    downloadRetries,   \* tries per file, and again for the list
    Versions,          \* bound: <<major, minor, patch>> of each publication
    None               \* no file, no list, no DApp

ASSUME AppInstallAssumption ==
    /\ downloadRetries \in Nat \ {0} /\ None \notin Nat
    /\ Base \in Seq(STRING) /\ Listed \in Seq(STRING)
    /\ \E k \in 1..Len(Base) : Base[k] = "files.json"
    /\ Len(Versions) \in Nat \ {0}

Index == "files.json"
File == {(Base \o Listed)[k] : k \in 1..Len(Base \o Listed)}
Version == 1..Len(Versions)
EmptyFile == 0                             \* a file without contents

VARIABLES
    repo,        \* external: the version the repository holds
    list,        \* version in applist.json; EmptyFile: one that names nothing
    disk,        \* version of each file in the DApp's folder
    registered,  \* version in the app database
    grid,        \* what the screen shows: version, and the one it offers
    task,        \* the operation under way
    popup,       \* infoPopup is open
    published,   \* history: the repository moved on during a download
    lost,        \* history: files given up after an empty last answer
    crashed,     \* history: a download was cut short
    stripped     \* history: files were removed and the entry was not

appDisk == <<list, disk, registered>>
marks == <<published, lost, crashed, stripped>>
appVars == <<repo, appDisk, grid, task, popup, marks>>

NoFiles == [f \in File |-> None]
NoGrid == [shown |-> None, next |-> None]
Ready == [pc |-> "ready", i |-> 1, index |-> FALSE, rest |-> <<>>, version |-> None]

AppInit ==
    /\ repo = 1 /\ list = None /\ disk = NoFiles /\ registered = None
    /\ grid = NoGrid /\ task = Ready /\ popup = FALSE
    /\ published = FALSE /\ lost = {} /\ crashed = FALSE /\ stripped = FALSE

Publish ==
    /\ repo + 1 \in Version
    /\ repo' = repo + 1
    /\ published' = (published \/ task.pc \in {"get", "check"})
    /\ UNCHANGED <<appDisk, grid, task, popup, lost, crashed, stripped>>
-----------------------------------------------------------------------------
\* The list of DApps and the grid of installed ones.

UpToDate(a, b) == \A k \in 1..3 : Versions[a][k] <= Versions[b][k]

\* refreshGrid: an app that the list does not name counts as up to date; without a list,
\* or with one that does not parse, that is every app.
RefreshGrid ==
    grid' = [shown |-> registered,
             next |-> IF registered = None \/ list \notin Version THEN None
                      ELSE IF UpToDate(list, registered) THEN None ELSE list]

OpenScreen ==
    /\ task.pc = "ready" /\ ~popup
    /\ popup' = TRUE
    /\ task' = [Ready EXCEPT !.pc = "list"]
    /\ UNCHANGED <<repo, appDisk, grid, marks>>

ListRetry_Always == task' = [task EXCEPT !.pc = "list"] /\ UNCHANGED <<popup, grid>>
ListRetry == IF task.i > downloadRetries
             THEN task' = Ready /\ popup' = FALSE /\ RefreshGrid
             ELSE task' = [task EXCEPT !.i = @ + 1, !.pc = "list"] /\ UNCHANGED <<popup, grid>>

\* downloadAppList removes the old list first.  Any answer 200 counts as a list.
DownloadList ==
    /\ task.pc = "list"
    /\ list' \in {None, EmptyFile, repo}
    /\ task' = [task EXCEPT !.pc = "listed"]
    /\ UNCHANGED <<repo, disk, registered, grid, popup, marks>>

ListDelivered ==
    /\ task.pc = "listed"
    /\ IF list = None THEN ListRetry ELSE task' = Ready /\ popup' = FALSE /\ RefreshGrid
    /\ UNCHANGED <<repo, appDisk, marks>>
-----------------------------------------------------------------------------
\* installApp.  files.json is fetched for its list, removed, and fetched again.

StartInstall(v) ==
    /\ popup' = TRUE
    /\ task' = [pc |-> "get", i |-> 1, index |-> TRUE, rest |-> <<Index>>, version |-> v]
    /\ lost' = {} /\ published' = FALSE

\* handleInstall of the popup that lists what can be had.
Install ==
    /\ task.pc = "ready" /\ ~popup /\ list \in Version
    /\ registered = None
    /\ StartInstall(list)
    /\ UNCHANGED <<repo, appDisk, grid, crashed, stripped>>

current == Head(task.rest)

\* httpGetFile writes the target only when the answer is 200.
HttpGetFile ==
    /\ task.pc = "get"
    /\ \E c \in {disk[current], EmptyFile, repo} : disk' = [disk EXCEPT ![current] = c]
    /\ task' = [task EXCEPT !.pc = "check"]
    /\ UNCHANGED <<repo, list, registered, grid, popup, marks>>

\* On to the next file, or to the database.
Continue(rest) ==
    task' = [task EXCEPT !.pc = IF rest = <<>> THEN "register" ELSE "get",
                         !.i = 1, !.index = FALSE, !.rest = rest]
Fail == /\ disk' = NoFiles /\ task' = [task EXCEPT !.pc = "failed"]
Retry == task' = [task EXCEPT !.pc = "get", !.i = @ + 1]

\* The file is there.  A files.json that does not parse adds nothing; one of another
\* shape throws before it is removed, and the task ends without a word.
Fetched ==
    /\ task.pc = "check" /\ disk[current] \in Version
    /\ \/ /\ task.index
          /\ disk' = [disk EXCEPT ![Index] = None]
          /\ \/ Continue(Base \o Listed) /\ UNCHANGED lost
             \/ Continue(Base) /\ lost' = {Listed[k] : k \in 1..Len(Listed)}
       \/ /\ task.index
          /\ task' = [task EXCEPT !.pc = "thrown"]
          /\ UNCHANGED <<disk, lost>>
       \/ /\ ~task.index
          /\ Continue(Tail(task.rest))
          /\ UNCHANGED <<disk, lost>>
    /\ UNCHANGED <<repo, list, registered, grid, popup, published, crashed, stripped>>

\* An empty file is removed; after the last try the loop just ends.
FetchedNothing ==
    /\ task.pc = "check" /\ disk[current] = EmptyFile
    /\ disk' = [disk EXCEPT ![current] = None]
    /\ IF task.i < downloadRetries THEN Retry /\ UNCHANGED lost
       ELSE /\ Continue(IF task.index THEN <<>> ELSE Tail(task.rest))
            /\ lost' = IF task.index THEN File ELSE lost \cup {current}
    /\ UNCHANGED <<repo, list, registered, grid, popup, published, crashed, stripped>>

NotFetched_Keeps ==
    /\ task.pc = "check" /\ disk[current] = None
    /\ IF task.i < downloadRetries THEN Retry ELSE task' = [task EXCEPT !.pc = "failed"]
    /\ UNCHANGED <<repo, list, disk, registered, grid, popup, marks>>

NotFetched ==
    /\ task.pc = "check" /\ disk[current] = None
    /\ IF task.i < downloadRetries THEN Retry /\ UNCHANGED disk ELSE Fail
    /\ UNCHANGED <<repo, list, registered, grid, popup, marks>>

RegisterApp ==
    /\ task.pc = "register"
    /\ \/ /\ registered' = task.version /\ stripped' = FALSE
          /\ task' = [task EXCEPT !.pc = "done"]
          /\ UNCHANGED disk
       \/ Fail /\ UNCHANGED <<registered, stripped>>
    /\ UNCHANGED <<repo, list, grid, popup, published, lost, crashed>>

\* onAppInstalled
AppInstalled ==
    /\ task.pc \in {"done", "failed"}
    /\ popup' = FALSE /\ task' = Ready
    /\ IF task.pc = "done" THEN RefreshGrid ELSE UNCHANGED grid
    /\ UNCHANGED <<repo, appDisk, marks>>
-----------------------------------------------------------------------------
\* uninstallApp removes the folder, then the entry; nobody looks at its result.
\* Updating an app is removing it and installing the version on offer.

RemoveFiles_Not == UNCHANGED <<disk, crashed>>
RemoveFiles == disk' = NoFiles /\ crashed' = FALSE

Uninstall(pc) ==
    /\ task.pc = "ready" /\ ~popup /\ grid.shown # None
    /\ pc = "update" => grid.next # None
    /\ RemoveFiles
    /\ stripped' = (registered # None)
    /\ task' = [Ready EXCEPT !.pc = pc, !.version = grid.next]
    /\ UNCHANGED <<repo, list, registered, grid, popup, published, lost>>

UnregisterApp ==
    /\ task.pc \in {"remove", "update"}
    /\ \/ registered' = None /\ stripped' = FALSE
       \/ UNCHANGED <<registered, stripped>>
    /\ IF task.pc = "update" THEN StartInstall(task.version)
       ELSE task' = [Ready EXCEPT !.pc = "removed"] /\ UNCHANGED <<popup, lost, published>>
    /\ UNCHANGED <<repo, list, disk, grid, crashed>>

Removed ==
    /\ task.pc = "removed"
    /\ RefreshGrid /\ task' = Ready
    /\ UNCHANGED <<repo, appDisk, popup, marks>>

\* The program stops; its next start finds what is on disk.
AppCrash ==
    /\ task' = Ready /\ popup' = FALSE /\ grid' = NoGrid
    /\ crashed' = (crashed \/ task.pc \in {"get", "check", "register", "thrown"})
    /\ UNCHANGED <<repo, appDisk, published, lost, stripped>>

\* httpGetFile connects and reads without a timeout.
Download == DownloadList \/ HttpGetFile

Operation ==
    \/ ListDelivered \/ Fetched \/ FetchedNothing \/ NotFetched \/ RegisterApp
    \/ AppInstalled \/ UnregisterApp \/ Removed

AppNext == Publish \/ OpenScreen \/ Install \/ Download \/ Operation \/ AppCrash
           \/ \E pc \in {"remove", "update"} : Uninstall(pc)

AppSpec == AppInit /\ [][AppNext]_appVars
-----------------------------------------------------------------------------
\* Properties

\* "Installs are atomic - either all files are downloaded and the DApp is properly
\* registered in the database, or the install fails altogether": what is entered in
\* the database has all its files.
InstallsAtomic ==
    [][task.pc = "register" /\ task'.pc = "done" => \A f \in File : disk[f] \in Version]_appVars

\* Types, and: files are fetched only for an operation that has some left.
AppTypeOK ==
    /\ repo \in Version /\ list \in Version \cup {None, EmptyFile}
    /\ registered \in Version \cup {None}
    /\ disk \in [File -> Version \cup {None, EmptyFile}]
    /\ task.i \in 1..downloadRetries + 1
    /\ task.pc \in {"get", "check"} => current \in File /\ popup

\* A registered DApp lacks a file only because the last answer for it (or for
\* files.json) was empty, because files.json could not be read, or because it was
\* being removed when the program or the database failed.  An install that failed, or
\* an app that was removed, leaves no file behind unless the task of an install was cut
\* short, by the end of the program or by a files.json of the wrong shape.
WholeOrNothing ==
    /\ registered # None /\ ~stripped => \A f \in File : disk[f] \in Version \/ f \in lost
    /\ registered = None /\ task.pc = "ready" /\ ~popup /\ ~crashed => disk = NoFiles

\* The files of a registered DApp come from one publication unless the repository
\* moved on during the download or an earlier one was cut short: tries that fail keep
\* the file that is there and take it for the new one.
OneVersion ==
    registered # None /\ ~stripped /\ ~published /\ ~crashed =>
       \A f, g \in File : disk[f] \in Version /\ disk[g] \in Version => disk[f] = disk[g]

\* The popup that covers the window goes away, whatever the downloads bring, unless the
\* task threw or one of its downloads never ends.
PopupCloses ==
    popup ~> (~popup \/ task.pc = "thrown" \/ [](task.pc \in {"list", "get"}))
=============================================================================
