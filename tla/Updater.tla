------------------------------ MODULE Updater ------------------------------
(***************************************************************************)
(* UpdaterWindow: the files of the server's update list are downloaded one *)
(* after the other, each by a Download whose callback, updateProgress,     *)
(* writes mDownloadStatus and mDownloadComplete from the download's thread *)
(* while logic() reads and writes them in every frame of the main thread.  *)
(* Neither is under a lock, so each read and each write is a step, unless  *)
(* the other thread cannot tell it from the next one.                      *)
(*                                                                         *)
(* The stages UPDATE_LIST2 and UPDATE_RESOURCES2 are left out: the line    *)
(* that would enter them is commented out.                                 *)
(***************************************************************************)
EXTENDS Download, Sequences

CONSTANTS
    Data,    \* the data files the update list names, in its order
    Music    \* those of them that an XML list calls music: the player does without

DataFiles == {Data[i] : i \in DOMAIN Data}
Stages == {"NEWS", "LIST", "RESOURCES", "PATCH", "ERROR", "COMPLETE", "IDLE"}

ASSUME UpdaterAssumption ==
    /\ Data \in Seq(Files \ {"xml", "txt"}) /\ {"xml", "txt"} \subseteq Files
    /\ Music \subseteq DataFiles

VARIABLES
    mDownloadStatus, mDownloadComplete,
    mCurrentFile,
    mUpdateFiles,   \* the list that was loaded: records [name, type]
    mUpdateIndex,   \* how many of its files were looked at
    state,          \* Client's: "UPDATE", and what it becomes
    window,         \* "new", "open", "login" while the cancel key's handler waits
                    \* for the download, "closing" in its destructor, "closed"
    logic,          \* the stage logic() has read in this frame, "no" outside of it
    callback        \* what updateProgress does next, "no" outside of it

flags == <<mDownloadStatus, mDownloadComplete>>
list == <<mCurrentFile, mUpdateFiles, mUpdateIndex>>
window_vars == <<flags, list, state, window, logic, callback>>
uvars == <<vars, window_vars>>

\* What download() asks for, by stage; news and the version are kept in memory.
RequestOf(stage, file) ==
    [file |-> IF stage \in {"NEWS", "PATCH"} THEN "none" ELSE file,
     memory |-> stage \in {"NEWS", "PATCH"},
     upload |-> FALSE,
     adler |-> stage = "RESOURCES",
     xml |-> file = "xml"]

\* What the updater's downloads can be asked for.
Asked == {RequestOf(stage, file) :
             stage \in {"NEWS", "PATCH", "LIST"}, file \in {"xml", "txt"}}
         \cup {RequestOf("RESOURCES", file) : file \in DataFiles}

ASSUME RequestAssumption == Requests = Asked

\* The list as each of the two formats has it; only the newer one knows of types.
Entries(file) ==
    [i \in DOMAIN Data |->
        [name |-> Data[i], type |-> IF file = "xml" /\ Data[i] \in Music THEN "music"
                                                                      ELSE "data"]]

\* loadXMLFile, loadTxtFile: nothing comes of a list that is not there or wrong.
Listed(file) == IF disk[file] = "good" THEN Entries(file) ELSE <<>>

UInit ==
    /\ Init
    /\ mDownloadStatus = "NEWS" /\ mDownloadComplete = TRUE /\ mCurrentFile = "news"
    /\ mUpdateFiles = <<>> /\ mUpdateIndex = 0
    /\ state = "UPDATE" /\ window = "new" /\ logic = "no" /\ callback = "no"

----------------------------------------------------------------------------
(* download(), on the main thread.                                         *)

\* A mistake the runs must find: mDownloadComplete is not reset.
StartWithoutReset ==
    /\ \E n \in 1..MaxUrls : Start(RequestOf(mDownloadStatus, mCurrentFile), n)
    /\ UNCHANGED <<flags, list, state, logic, callback>>

\* What is left of it once the former Download, if any, is deleted.
StartDownload ==
    /\ \E n \in 1..MaxUrls : Start(RequestOf(mDownloadStatus, mCurrentFile), n)
    /\ mDownloadComplete' = FALSE
    /\ UNCHANGED <<mDownloadStatus, list, state, logic, callback>>

\* postInit
PostInit == window = "new" /\ window' = "open" /\ StartDownload

\* The former Download's thread has ended: delete it, and make the next.
NextDownload ==
    /\ window = "open" /\ waiting = "no" /\ request = NoRequest
    /\ StartDownload
    /\ UNCHANGED window

Redownload == Cancel("delete")
NoDownload == UNCHANGED vars

----------------------------------------------------------------------------
(* logic(), once per frame of the main thread: mDownloadStatus is read in  *)
(* the switch, mDownloadComplete in the branch.                            *)

\* The main thread is at the top of its loop.
Idling == window = "open" /\ waiting = "no" /\ request # NoRequest /\ logic = "no"

Look ==
    /\ Idling
    /\ logic' = mDownloadStatus /\ NoDownload
    /\ UNCHANGED <<flags, list, state, window, callback>>

Logic(stage) == logic = stage /\ logic' = "no" /\ UNCHANGED <<window, callback>>

Stage(stage) == mDownloadStatus' = stage /\ UNCHANGED mDownloadComplete

\* The file of the stage has not come, or there is no such branch.
NothingToDo ==
    /\ logic = "IDLE" \/ (logic \in {"NEWS", "LIST", "RESOURCES", "PATCH"} /\ ~mDownloadComplete)
    /\ Logic(logic) /\ NoDownload
    /\ UNCHANGED <<flags, list, state>>

News ==
    /\ Logic("NEWS") /\ mDownloadComplete
    /\ mCurrentFile' = "xml" /\ Stage("LIST") /\ Redownload
    /\ UNCHANGED <<mUpdateFiles, mUpdateIndex, state>>

\* The list is empty: the older format is asked for.
ListFallsBack ==
    /\ Logic("LIST") /\ mDownloadComplete
    /\ mCurrentFile = "xml" /\ Listed("xml") = <<>>
    /\ mUpdateFiles' = <<>> /\ mCurrentFile' = "txt" /\ Stage("LIST") /\ Redownload
    /\ UNCHANGED <<mUpdateIndex, state>>

List ==
    /\ Logic("LIST") /\ mDownloadComplete
    /\ mCurrentFile = "txt" \/ Listed("xml") # <<>>
    /\ mUpdateFiles' = Listed(mCurrentFile) /\ Stage("RESOURCES") /\ NoDownload
    /\ UNCHANGED <<mCurrentFile, mUpdateIndex, state>>

\* A mistake the runs must find: the index is advanced here and after the branch.
SkipTwice ==
    /\ Logic("RESOURCES") /\ mDownloadComplete
    /\ mUpdateIndex < Len(mUpdateFiles) /\ mUpdateFiles[mUpdateIndex + 1].type = "music"
    /\ mUpdateIndex' = mUpdateIndex + 2 /\ NoDownload
    /\ UNCHANGED <<flags, mCurrentFile, mUpdateFiles, state>>

\* The next file of the list; not every player wants music.
SkipMusic ==
    /\ Logic("RESOURCES") /\ mDownloadComplete
    /\ mUpdateIndex < Len(mUpdateFiles) /\ mUpdateFiles[mUpdateIndex + 1].type = "music"
    /\ mUpdateIndex' = mUpdateIndex + 1 /\ NoDownload
    /\ UNCHANGED <<flags, mCurrentFile, mUpdateFiles, state>>

Resource ==
    /\ Logic("RESOURCES") /\ mDownloadComplete
    /\ mUpdateIndex < Len(mUpdateFiles) /\ mUpdateFiles[mUpdateIndex + 1].type = "data"
    /\ mUpdateIndex' = mUpdateIndex + 1
    /\ mCurrentFile' = mUpdateFiles[mUpdateIndex + 1].name
    /\ IF disk[mCurrentFile'] = "good" THEN NoDownload ELSE Redownload
    /\ UNCHANGED <<flags, mUpdateFiles, state>>

\* All files are there: the client's newest version is asked for.
ResourcesDone ==
    /\ Logic("RESOURCES") /\ mDownloadComplete
    /\ mUpdateIndex >= Len(mUpdateFiles)
    /\ mCurrentFile' = "latest" /\ Stage("PATCH") /\ Redownload
    /\ UNCHANGED <<mUpdateFiles, mUpdateIndex, state>>

Patch ==
    /\ Logic("PATCH") /\ mDownloadComplete
    /\ mCurrentFile' = "xml" /\ Stage("COMPLETE") /\ NoDownload
    /\ UNCHANGED <<mUpdateFiles, mUpdateIndex, state>>

ErrorShown ==
    /\ Logic("ERROR")
    /\ Stage("COMPLETE") /\ NoDownload
    /\ UNCHANGED <<list, state>>

\* enable(): servers that ask for it have their data loaded at once.
Completed ==
    /\ Logic("COMPLETE")
    /\ Stage("IDLE") /\ NoDownload
    /\ state' \in {state, "LOAD_DATA"}
    /\ UNCHANGED list

Frame ==
    \/ NothingToDo \/ News \/ ListFallsBack \/ List \/ SkipMusic \/ Resource \/ ResourcesDone
    \/ Patch \/ ErrorShown \/ Completed

----------------------------------------------------------------------------
(* The player, and the client's main loop.                                 *)

\* A mistake the runs must find: the flag is set, and nobody waits for the thread.
CancelAtOnce(next) ==
    /\ Idling /\ state = "UPDATE" /\ mDownloadStatus # "COMPLETE"
    /\ cancel' = TRUE /\ Stage("ERROR")
    /\ UNCHANGED <<request, thread, worker, waiting, told, files, list, state, window, logic,
                   callback>>

\* The Cancel button, while it is enabled, or one of the keys; the cancel key also
\* leaves for the login dialog.
UserCancels(next) ==
    /\ Idling /\ state = "UPDATE"
    /\ mDownloadStatus # "COMPLETE"
    /\ mDownloadStatus = "IDLE" => next = "login"
    /\ Cancel("cancel")
    /\ window' = next
    /\ UNCHANGED <<flags, list, state, logic, callback>>

\* cancel() returned: only now does the handler go on.
CancelReturns ==
    /\ waiting = "cancel" /\ Join
    /\ Stage("ERROR")
    /\ window' = "open" /\ state' = IF window = "login" THEN "LOGIN" ELSE state
    /\ UNCHANGED <<list, logic, callback>>

\* The client's state is changed, and nothing else.
Becomes(s) ==
    /\ Idling /\ state = "UPDATE"
    /\ state' = s /\ NoDownload
    /\ UNCHANGED <<flags, list, window, logic, callback>>

\* The cancel key when the update is complete.
LeaveForLogin == mDownloadStatus = "COMPLETE" /\ Becomes("LOGIN")

\* The Play button or its key.
Play == mDownloadStatus \in {"ERROR", "COMPLETE", "IDLE"} /\ Becomes("LOAD_DATA")

\* The program is being closed.
Quit == Becomes("EXIT")

\* A mistake the runs must find: leaving waits for the download to be complete.
LeaveWhenComplete ==
    /\ Idling /\ state # "UPDATE" /\ mDownloadComplete
    /\ window' = "closing" /\ Cancel("delete")
    /\ UNCHANGED <<flags, list, state, logic, callback>>

\* gameExec notices the new state and deletes the dialog, whose destructor mounts
\* what has been downloaded, then cancels and deletes the download.
Leave ==
    /\ Idling /\ state # "UPDATE"
    /\ window' = "closing" /\ Cancel("delete")
    /\ UNCHANGED <<flags, list, state, logic, callback>>

\* delete mDownload, for the next download() or in the destructor.
Deleted ==
    /\ waiting = "delete" /\ Join
    /\ window' = IF window = "closing" THEN "closed" ELSE window
    /\ UNCHANGED <<flags, list, state, logic, callback>>

Closed == window = "closed" /\ UNCHANGED uvars

----------------------------------------------------------------------------
(* updateProgress, on the download's thread.                               *)

\* Its status decides what it does first.
Enter ==
    /\ callback' = CASE told' = "Complete" -> "flag"
                      [] told' \in {"Error", "Cancelled"} -> "error"
                      [] OTHER -> "label"
    /\ UNCHANGED <<flags, list, state, window, logic>>

\* One step of it.
Callback(from, to) ==
    /\ callback = from /\ callback' = to
    /\ UNCHANGED <<vars, list, state, window, logic>>

\* mDownloadStatus is looked at ...
LookAtStage ==
    /\ Callback("error", IF mDownloadStatus \in {"COMPLETE", "NEWS"} THEN "last" ELSE "fail")
    /\ UNCHANGED flags

\* A mistake the runs must find: an error is not noted.
FailUnnoted == Callback("fail", "label") /\ UNCHANGED flags

\* ... and the stage has failed, ...
Fail == Callback("fail", "label") /\ Stage("ERROR")

\* ... or it does without: "ignoring error in last state".
Ignore == Callback("last", "flag") /\ Stage("COMPLETE")

Flag ==
    /\ Callback("flag", IF told = "Complete" THEN "label" ELSE "free")
    /\ mDownloadComplete' = TRUE /\ UNCHANGED mDownloadStatus

\* free(mMemoryBuffer), which has no contents here.
Free == Callback("free", "label") /\ UNCHANGED flags

\* What it returns: an error stops the transfer.
Stop == state # "UPDATE" \/ mDownloadStatus = "ERROR"

\* The label, which reads mCurrentFile, and the answer.
Answer ==
    /\ callback = "label" /\ callback' = "no"
    /\ Answered(Stop) \/ Return
    /\ UNCHANGED <<flags, list, state, window, logic>>

UpdateProgress == LookAtStage \/ Fail \/ Ignore \/ Flag \/ Free \/ Answer

Asks == Progress /\ Enter

----------------------------------------------------------------------------
UserStep == (\E next \in {"open", "login"} : UserCancels(next)) \/ LeaveForLogin \/ Play \/ Quit

MainThread == PostInit \/ NextDownload \/ Look \/ Frame \/ CancelReturns \/ Leave \/ Deleted

OwnSteps ==
    \/ (Quiet \/ Starting) /\ UNCHANGED window_vars
    \/ Tell /\ Enter
    \/ UpdateProgress

TransferOver == TransferEnds /\ UNCHANGED window_vars

UNext == MainThread \/ UserStep \/ OwnSteps \/ Asks \/ TransferOver \/ Closed

USpec == UInit /\ [][UNext]_uvars

\* Each turn of the main loop calls logic() and compares the state, however often the
\* player presses a key in between; the download's thread is scheduled, and curl asks
\* for progress at least once a second.
Scheduled ==
    /\ WF_uvars(MainThread) /\ SF_uvars(Look) /\ SF_uvars(Leave)
    /\ WF_uvars(OwnSteps) /\ WF_uvars(Asks)

\* Transfers end: CURLOPT_TIMEOUT is half an hour, however often curl asks for progress.
FairSpec == USpec /\ Scheduled /\ SF_uvars(TransferOver)

\* The same while a server keeps a transfer going.
SlowSpec == USpec /\ Scheduled

----------------------------------------------------------------------------
(* Properties.                                                             *)

\* The shape of the state.
UpdaterTypeOK ==
    /\ DownloadTypeOK
    /\ mDownloadStatus \in Stages /\ mDownloadComplete \in BOOLEAN
    /\ mCurrentFile \in DataFiles \cup {"news", "xml", "txt", "latest"}
    /\ mUpdateFiles \in {<<>>, Entries("xml"), Entries("txt")}
    /\ mUpdateIndex \in 0..Len(mUpdateFiles)
    /\ state \in {"UPDATE", "LOAD_DATA", "LOGIN", "EXIT"}
    /\ window \in {"new", "open", "login", "closing", "closed"}
    /\ logic \in Stages \cup {"no"}
    /\ callback \in {"no", "flag", "error", "last", "fail", "free", "label"}

\* The thread may still write a file, the buffer, mDownloadStatus or mDownloadComplete.
AtWork == Active /\ ~(thread = "telling" /\ callback = "label")

\* The news, or the version, could not be had: the update is said to be complete
\* before the flag is set and the buffer freed.
Ignoring == thread = "telling" /\ told = "Error" /\ callback \in {"flag", "free"}

\* Whenever logic() may go by mDownloadComplete, read the news, the version or a file,
\* or show the end of the update, the thread has nothing left to do but leave its
\* callback: nothing that both use is locked.  There is one exception, which the code
\* has: a failure that is ignored.
QuietWhenComplete ==
    waiting = "no" /\ (mDownloadComplete \/ mDownloadStatus \in {"ERROR", "COMPLETE", "IDLE"}) =>
        ~AtWork \/ Ignoring

\* Every file of the list that logic() has gone past is there as the list has it,
\* through retries, mirrors and cancelled downloads: all of them once the stage
\* PATCH is reached.  Music is not everyone's, an old file may be in the way, and the
\* current file may be on its way.
ResourcesVerified ==
    mDownloadStatus \in {"RESOURCES", "PATCH"} =>
        \A i \in 1..mUpdateIndex :
            \/ mUpdateFiles[i].type = "music"
            \/ disk[mUpdateFiles[i].name] = "good" \/ mUpdateFiles[i].name \in stayed
            \/ /\ mUpdateFiles[i].name = mCurrentFile /\ mDownloadStatus = "RESOURCES"
               /\ waiting # "no" \/ request = NoRequest \/ ~mDownloadComplete

\* The update ends: the player can press Play, or is leaving.  Only a download
\* whose thread could not be made goes unnoticed.
UpdateEnds == <>(mDownloadStatus = "IDLE" \/ state # "UPDATE" \/ told = "ThreadError")

\* Who leaves, by whatever way and whatever is being downloaded, gets out.
LeavingEnds == state # "UPDATE" ~> window = "closed"

\* download.h of cancel(): "Returns immediately".
CancelReturnsImmediately == waiting = "cancel" ~> waiting = "no"

=============================================================================
