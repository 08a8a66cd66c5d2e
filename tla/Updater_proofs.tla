--------------------------- MODULE Updater_proofs ---------------------------
(***************************************************************************)
(* The updater keeps to the protocol of Download, no two threads write its *)
(* unlocked fields, and it goes past a file of the list only when the file *)
(* is there: for every list, every set of files and every number of        *)
(* attempts and mirrors.                                                   *)
(***************************************************************************)
EXTENDS Updater, Download_proofs

Working == {"open", "transfer", "asking", "performed", "verify", "rename", "finish"}
Ended == {"ERROR", "COMPLETE", "IDLE"}

\* The former Download is being deleted, or is, and the next one does not exist.
Between == window = "open" /\ (waiting = "delete" \/ request = NoRequest)

FileOf(i) == mUpdateFiles[i].name
IsMusic(i) == mUpdateFiles[i].type = "music"
Verified(f) == disk[f] = "good" \/ f \in stayed

WindowInv ==
    /\ window = "new" => /\ request = NoRequest /\ waiting = "no"
                         /\ mDownloadStatus = "NEWS" /\ mCurrentFile = "news"
    /\ window = "login" => waiting = "cancel"
    /\ waiting # "no" => request # NoRequest
    /\ request = NoRequest => thread = "none"

\* What logic() has read still holds, unless the download failed in between.
LogicInv ==
    logic # "no" =>
        /\ window = "open" /\ waiting = "no" /\ request # NoRequest
        /\ logic = "NEWS" => mUpdateIndex = 0
        /\ \/ logic = mDownloadStatus
           \/ logic = "NEWS" /\ mDownloadStatus = "COMPLETE"
           \/ /\ logic \in {"NEWS", "LIST", "RESOURCES", "PATCH"}
              /\ mDownloadStatus = "ERROR" /\ ~mDownloadComplete

\* Where updateProgress is, and how it came there.
CallbackInv ==
    /\ callback # "no" <=> thread \in {"asking", "telling"}
    /\ thread = "telling" => told \in {"Complete", "Error"}
    /\ thread = "asking" => told = "Idle" \/ (told = "Cancelled" /\ cancel)
    /\ callback = "flag" => told # "Idle"
    /\ callback \in {"error", "last", "fail", "free"} => told \in {"Error", "Cancelled"}
    /\ callback = "last" => mDownloadStatus \in {"NEWS", "COMPLETE"}
    /\ callback \in {"flag", "free"} /\ told # "Complete" =>
          \/ mDownloadStatus \in {"COMPLETE", "IDLE"}
          \/ mDownloadStatus = "LIST" /\ waiting = "delete"

\* A thread that makes an attempt is not cancelled, unless somebody waits for it;
\* only then can it write the status and go on.
ThreadInv ==
    /\ QuietWhenComplete
    /\ thread \in Working /\ cancel => waiting # "no"
    /\ Between => /\ ~AtWork \/ Ignoring
                  /\ mDownloadStatus \in {"LIST", "RESOURCES", "PATCH"}

\* What is being downloaded in each stage.
StageInv ==
    /\ mDownloadStatus \in {"NEWS", "LIST"} => mUpdateIndex = 0
    /\ mDownloadStatus = "LIST" => mCurrentFile \in {"xml", "txt"}
    /\ mDownloadStatus = "PATCH" => mCurrentFile = "latest" /\ (AtWork => request.memory)
    /\ mDownloadStatus = "RESOURCES" /\ (AtWork \/ Between) => mCurrentFile \in DataFiles
    /\ mDownloadStatus = "RESOURCES" /\ AtWork =>
          request = RequestOf("RESOURCES", mCurrentFile) /\ ~mDownloadComplete

UInv ==
    /\ Inv /\ UpdaterTypeOK /\ WindowInv /\ LogicInv /\ CallbackInv /\ ThreadInv /\ StageInv
    /\ ResourcesVerified

----------------------------------------------------------------------------
(* The steps of the download's thread.                                     *)

ThreadStep == OwnSteps \/ Asks \/ TransferOver

\* Outside of updateProgress.
Outside == (Quiet \/ Starting \/ TransferEnds) /\ UNCHANGED window_vars

\* Into it.
Into == (Tell \/ Progress) /\ Enter

\* In it.
Inside == LookAtStage \/ Fail \/ Ignore \/ Flag \/ Free

LEMMA ThreadStepCases == ThreadStep => Outside \/ Into \/ Inside \/ Answer
  BY DEF ThreadStep, OwnSteps, Asks, TransferOver, Outside, Into, Inside, UpdateProgress

LEMMA InsideFrame ==
  Inside => UNCHANGED <<vars, mCurrentFile, mUpdateFiles, mUpdateIndex, state, window, logic>>
  BY DEF Inside, LookAtStage, Fail, Ignore, Flag, Free, Callback, list

LEMMA ThreadStepIsThread == ThreadStep => Thread \/ (Inside /\ UNCHANGED vars)
  <1>1. Stop \in BOOLEAN
    BY DEF Stop
  <1> QED
    BY <1>1, ThreadStepCases, InsideFrame DEF Outside, Into, Answer, Thread

\* The thread leaves the main thread's variables alone.
LEMMA ThreadStepFrame ==
  ASSUME CallbackInv, ThreadStep
  PROVE  /\ Active /\ request' = request /\ waiting' = waiting
         /\ UNCHANGED <<mCurrentFile, mUpdateFiles, mUpdateIndex, state, window, logic>>
  <1>1. Active /\ request' = request /\ waiting' = waiting
    <2>1. CASE Thread
      BY <2>1
      DEF Thread, Quiet, Starting, Tell, Return, TransferEnds, Progress, Answered, NextUrl, TriesEnd,
          Open, AttemptFails, Performed, ChecksumFails, ChecksumPasses, XmlFails, Rename, Finish,
          Conclude, Goto, Active
    <2>2. CASE Inside /\ UNCHANGED vars
      BY <2>2 DEF CallbackInv, Inside, LookAtStage, Fail, Ignore, Flag, Free, Callback, Active, vars
    <2> QED
      BY <2>1, <2>2, ThreadStepIsThread
  <1>2. UNCHANGED <<mCurrentFile, mUpdateFiles, mUpdateIndex, state, window, logic>>
    BY ThreadStepCases, InsideFrame DEF Outside, Into, Answer, Enter, window_vars, list
  <1> QED
    BY <1>1, <1>2

\* Only inside updateProgress are the fields it shares with logic() written.
LEMMA FlagsKept == Outside \/ Into \/ Answer => UNCHANGED <<mDownloadStatus, mDownloadComplete>>
  BY DEF Outside, Into, Answer, Enter, window_vars, flags

\* No attempt begins once the flag is set.
LEMMA ThreadStepCancel ==
  ThreadStep /\ thread' \in Working /\ cancel' => thread \in Working /\ cancel
  <1>1. CASE Thread
    BY <1>1
    DEF Thread, Quiet, Starting, MayTry, Tell, Return, TransferEnds, Progress, Answered, NextUrl,
        TriesEnd, Open, AttemptFails, Performed, ChecksumFails, ChecksumPasses, XmlFails, Rename,
        Finish, Conclude, Goto, Working
  <1>2. CASE UNCHANGED vars
    BY <1>2 DEF vars
  <1> QED
    BY <1>1, <1>2, ThreadStepIsThread

\* The only file a thread stores, or removes, is the one it was asked for, and not in
\* the callback.
LEMMA ThreadStepDisk ==
  ASSUME Inv, ThreadStep, NEW f \in Files
  PROVE  \/ disk'[f] = disk[f] /\ (f \in stayed' <=> f \in stayed)
         \/ FileRequest /\ f = request.file /\ thread \in {"verify", "rename"}
  <1>1. CASE Rename \/ ChecksumFails
    BY <1>1 DEF Rename, Replace, RemoveOnly, LeaveOld, ChecksumFails, Goto, Inv, PartInv,
       DownloadTypeOK
  <1>2. CASE Thread /\ ~Rename /\ ~ChecksumFails
    BY <1>2
    DEF Thread, Quiet, Starting, Tell, Return, TransferEnds, Progress, Answered, NextUrl, TriesEnd,
        Open, AttemptFails, Performed, ChecksumPasses, XmlFails, Finish, Conclude, files
  <1>3. CASE UNCHANGED vars
    BY <1>3 DEF vars, files
  <1> QED
    BY <1>1, <1>2, <1>3, ThreadStepIsThread

----------------------------------------------------------------------------
(* The updater keeps to the protocol of Download.                          *)

\* What is asked for is one of Requests, in each stage that downloads.
LEMMA StageAsks ==
  ASSUME \/ mDownloadStatus = "NEWS" /\ mCurrentFile = "news"
         \/ mDownloadStatus = "LIST" /\ mCurrentFile \in {"xml", "txt"}
         \/ mDownloadStatus = "PATCH" /\ mCurrentFile = "latest"
         \/ mDownloadStatus = "RESOURCES" /\ mCurrentFile \in DataFiles
  PROVE  RequestOf(mDownloadStatus, mCurrentFile) \in Requests
  <1>1. CASE mDownloadStatus = "LIST" \/ mDownloadStatus = "RESOURCES"
    BY <1>1, RequestAssumption DEF Asked
  <1>2. CASE mDownloadStatus \in {"NEWS", "PATCH"}
    <2>1. RequestOf(mDownloadStatus, mCurrentFile) = RequestOf(mDownloadStatus, "txt")
      BY <1>2 DEF RequestOf
    <2> QED
      BY <1>2, <2>1, RequestAssumption DEF Asked
  <1> QED
    BY <1>1, <1>2

\* Only in these stages is a download begun.
LEMMA StartStage ==
  ASSUME UInv, PostInit \/ NextDownload
  PROVE  \/ mDownloadStatus = "NEWS" /\ mCurrentFile = "news"
         \/ mDownloadStatus = "LIST" /\ mCurrentFile \in {"xml", "txt"}
         \/ mDownloadStatus = "PATCH" /\ mCurrentFile = "latest"
         \/ mDownloadStatus = "RESOURCES" /\ mCurrentFile \in DataFiles
  <1>1. CASE PostInit
    BY <1>1 DEF PostInit, UInv, WindowInv
  <1>2. CASE NextDownload
    <2>1. Between
      BY <1>2 DEF NextDownload, Between
    <2> QED
      BY <2>1 DEF UInv, StageInv, ThreadInv
  <1> QED
    BY <1>1, <1>2

LEMMA StepRefines == UInv /\ [UNext]_uvars => [Next]_vars
  <1> SUFFICES ASSUME UInv, [UNext]_uvars PROVE [Next]_vars
    OBVIOUS
  <1>1. CASE UNCHANGED uvars
    BY <1>1 DEF uvars
  <1>2. CASE ThreadStep
    BY <1>2, ThreadStepIsThread DEF Next
  <1>3. CASE PostInit \/ NextDownload
    <2>1. \E n \in 1..MaxUrls : Start(RequestOf(mDownloadStatus, mCurrentFile), n)
      BY <1>3 DEF PostInit, NextDownload, StartDownload
    <2>2. RequestOf(mDownloadStatus, mCurrentFile) \in Requests
      BY <1>3, StartStage, StageAsks
    <2> QED
      BY <2>1, <2>2 DEF Next, Owner
  <1>4. CASE Frame \/ Look
    BY <1>4 DEF Look, Frame, NothingToDo, News, ListFallsBack, List, SkipMusic, Resource, ResourcesDone, Patch,
       ErrorShown, Completed, Redownload, NoDownload, Next, Owner
  <1>5. CASE CancelReturns \/ Deleted
    BY <1>5 DEF CancelReturns, Deleted, Next, Owner
  <1>6. CASE Leave \/ UserStep
    BY <1>6 DEF Leave, UserStep, UserCancels, LeaveForLogin, Play, Quit, Becomes, NoDownload, Next,
       Owner
  <1>7. CASE Closed
    BY <1>7 DEF Closed, uvars
  <1> QED
    BY <1>1, <1>2, <1>3, <1>4, <1>5, <1>6, <1>7 DEF UNext, MainThread, ThreadStep

LEMMA DownloadStep == UInv /\ [UNext]_uvars => Inv'
  BY StepRefines, TypeStep, AttemptStep, CompleteStep, PartStep, ToldStep DEF UInv, Inv

----------------------------------------------------------------------------
(* The invariant is inductive.                                             *)

LEMMA UpdaterInit == UInit => UInv
  <1> SUFFICES ASSUME UInit PROVE UInv
    OBVIOUS
  <1>1. Inv
    BY InitInv DEF UInit
  <1>2. UpdaterTypeOK
    BY <1>1 DEF Inv, UInit, UpdaterTypeOK, Stages
  <1>3. WindowInv /\ LogicInv /\ CallbackInv /\ ThreadInv /\ StageInv /\ ResourcesVerified
    BY DEF UInit, Init, WindowInv, LogicInv, CallbackInv, ThreadInv, QuietWhenComplete, StageInv,
           ResourcesVerified, Between, AtWork, Active, Working
  <1> QED
    BY <1>1, <1>2, <1>3 DEF UInv

\* The list, once loaded, is one of two.
LEMMA ListType ==
  /\ Entries("xml") \in Seq([name : DataFiles, type : {"music", "data"}])
  /\ Entries("txt") \in Seq([name : DataFiles, type : {"music", "data"}])
  <1>1. Len(Data) \in Nat /\ DOMAIN Data = 1..Len(Data)
    BY UpdaterAssumption
  <1> QED
    BY <1>1 DEF Entries, DataFiles

LEMMA Element == ASSUME NEW S, NEW s \in Seq(S), NEW i \in 1..Len(s) PROVE s[i] \in S
  OBVIOUS

LEMMA NextEntry ==
  ASSUME UpdaterTypeOK, mUpdateIndex < Len(mUpdateFiles)
  PROVE  /\ mUpdateIndex + 1 \in 1..Len(mUpdateFiles)
         /\ mUpdateFiles[mUpdateIndex + 1].name \in DataFiles
  <1>1. mUpdateFiles \in Seq([name : DataFiles, type : {"music", "data"}])
    BY ListType DEF UpdaterTypeOK
  <1>2. mUpdateIndex \in Nat /\ Len(mUpdateFiles) \in Nat
    BY <1>1 DEF UpdaterTypeOK
  <1>3. mUpdateIndex + 1 \in 1..Len(mUpdateFiles)
    BY <1>2
  <1>4. mUpdateFiles[mUpdateIndex + 1] \in [name : DataFiles, type : {"music", "data"}]
    BY <1>1, <1>3, Element
  <1> QED
    BY <1>3, <1>4

LEMMA PassedFiles == ASSUME UInv, NEW i \in 1..mUpdateIndex PROVE mUpdateFiles[i].name \in Files
  <1>1. mUpdateFiles \in Seq([name : DataFiles, type : {"music", "data"}])
    BY ListType DEF UInv, UpdaterTypeOK
  <1>2. i \in 1..Len(mUpdateFiles)
    BY <1>1 DEF UInv, UpdaterTypeOK
  <1>3. mUpdateFiles[i] \in [name : DataFiles, type : {"music", "data"}]
    BY <1>1, <1>2, Element
  <1>4. DataFiles \subseteq Files
    BY UpdaterAssumption DEF DataFiles
  <1> QED
    BY <1>3, <1>4

LEMMA UpdaterTypeStep == UInv /\ [UNext]_uvars => UpdaterTypeOK'
  <1> SUFFICES ASSUME UInv, [UNext]_uvars PROVE UpdaterTypeOK'
    OBVIOUS
  <1>0. DownloadTypeOK' /\ UpdaterTypeOK
    BY DownloadStep DEF Inv, UInv
  <1> USE <1>0 DEF UpdaterTypeOK, Stages
  <1>1. CASE UNCHANGED uvars
    BY <1>1 DEF uvars, window_vars, flags, list
  <1>2. CASE ThreadStep
    <2>1. UNCHANGED <<mCurrentFile, mUpdateFiles, mUpdateIndex, state, window, logic>>
      BY <1>2, ThreadStepFrame DEF UInv
    <2>2. /\ mDownloadStatus' \in Stages /\ mDownloadComplete' \in BOOLEAN
          /\ callback' \in {"no", "flag", "error", "last", "fail", "free", "label"}
      BY <1>2, ThreadStepCases
      DEF Outside, Into, Enter, Inside, Answer, LookAtStage, Fail, Ignore, Flag, Free, Callback,
          Stage, window_vars, flags
    <2> QED
      BY <2>1, <2>2
  <1>3. CASE PostInit \/ NextDownload \/ Look
    BY <1>3 DEF PostInit, NextDownload, StartDownload, Look, flags, list
  <1>4. CASE Frame
    <2>1. CASE SkipMusic \/ Resource
      <3>1. mUpdateIndex < Len(mUpdateFiles)
        BY <2>1 DEF SkipMusic, Resource
      <3>2. mUpdateIndex' = mUpdateIndex + 1 /\ UNCHANGED mUpdateFiles
        BY <2>1 DEF SkipMusic, Resource
      <3>3. mCurrentFile' \in {mCurrentFile, mUpdateFiles[mUpdateIndex + 1].name}
        BY <2>1 DEF SkipMusic, Resource
      <3>4. /\ mUpdateIndex + 1 \in 0..Len(mUpdateFiles)
            /\ mCurrentFile' \in DataFiles \cup {mCurrentFile}
        BY <3>1, <3>3, NextEntry
      <3> QED
        BY <2>1, <3>2, <3>4 DEF SkipMusic, Resource, Logic, flags
    <2>2. CASE ListFallsBack \/ List
      <3>1. mUpdateIndex = 0 /\ mCurrentFile \in {"xml", "txt"}
        BY <2>2 DEF ListFallsBack, List, Logic, UInv, LogicInv, StageInv
      <3>2. mUpdateFiles' \in {<<>>, Entries("xml"), Entries("txt")}
        BY <2>2, <3>1 DEF ListFallsBack, List, Listed
      <3>3. 0 \in 0..Len(mUpdateFiles')
        BY <3>2, ListType
      <3> QED
        BY <2>2, <3>1, <3>2, <3>3 DEF ListFallsBack, List, Logic, Stage
    <2>3. CASE NothingToDo \/ News \/ ResourcesDone \/ Patch \/ ErrorShown \/ Completed
      BY <2>3 DEF NothingToDo, News, ResourcesDone, Patch, ErrorShown, Completed, Logic, Stage,
         flags, list
    <2> QED
      BY <1>4, <2>1, <2>2, <2>3 DEF Frame
  <1>5. CASE CancelReturns \/ Deleted \/ Leave
    BY <1>5 DEF CancelReturns, Deleted, Leave, Stage, flags, list
  <1>6. CASE UserStep
    BY <1>6 DEF UserStep, UserCancels, LeaveForLogin, Play, Quit, Becomes, flags, list
  <1>7. CASE Closed
    BY <1>7 DEF Closed, uvars, window_vars, flags, list
  <1> QED
    BY <1>1, <1>2, <1>3, <1>4, <1>5, <1>6, <1>7 DEF UNext, MainThread, ThreadStep

LEMMA WindowStep == UInv /\ [UNext]_uvars => WindowInv'
  <1> SUFFICES ASSUME UInv, [UNext]_uvars PROVE WindowInv'
    OBVIOUS
  <1>0. WindowInv
    BY DEF UInv
  <1> USE <1>0 DEF WindowInv
  <1>1. CASE UNCHANGED uvars \/ Closed
    BY <1>1 DEF Closed, uvars, vars, window_vars, flags, list
  <1>2. CASE ThreadStep
    <2>1. Active /\ request' = request /\ waiting' = waiting /\ window' = window
      BY <1>2, ThreadStepFrame DEF UInv
    <2> QED
      BY <2>1 DEF Active
  <1>3. CASE PostInit \/ NextDownload
    <2>1. \E n \in 1..MaxUrls : Start(RequestOf(mDownloadStatus, mCurrentFile), n)
      BY <1>3 DEF PostInit, NextDownload, StartDownload
    <2>2. RequestOf(mDownloadStatus, mCurrentFile) # NoRequest
      BY <1>3, StartStage, StageAsks, DownloadAssumption
    <2>3. window' = "open" /\ request' # NoRequest /\ waiting' = "no"
      BY <1>3, <2>1, <2>2 DEF PostInit, NextDownload, Start
    <2> QED
      BY <2>3
  <1>4. CASE Look \/ NothingToDo
    BY <1>4 DEF Look, NothingToDo, Logic, NoDownload, vars, flags, list
  <1>5. CASE Frame /\ ~NothingToDo
    <2>1. window = "open" /\ waiting = "no" /\ request # NoRequest /\ logic # "no"
      BY <1>5 DEF Frame, News, ListFallsBack, List, SkipMusic, Resource, ResourcesDone, Patch,
         ErrorShown, Completed, Logic, UInv, LogicInv
    <2> QED
      BY <1>5, <2>1 DEF Frame, News, ListFallsBack, List, SkipMusic, Resource, ResourcesDone, Patch,
         ErrorShown, Completed, Redownload, NoDownload, Logic, Cancel, vars
  <1>6. CASE CancelReturns \/ Deleted \/ Leave
    BY <1>6 DEF CancelReturns, Deleted, Leave, Join, Cancel, Idling
  <1>7. CASE UserStep
    BY <1>7 DEF UserStep, UserCancels, LeaveForLogin, Play, Quit, Becomes, Idling, NoDownload,
       Cancel, vars
  <1> QED
    BY <1>1, <1>2, <1>3, <1>4, <1>5, <1>6, <1>7 DEF UNext, MainThread, ThreadStep

\* logic() acts, but for waiting, only when the thread is quiet, or about to be.
LEMMA FrameQuiet ==
  ASSUME UInv, Frame, ~NothingToDo
  PROVE  /\ window = "open" /\ waiting = "no" /\ request # NoRequest
         /\ logic = mDownloadStatus \/ logic = "NEWS"
         /\ ~AtWork \/ (Ignoring /\ logic \in {"NEWS", "COMPLETE"})
  <1>1. /\ logic # "no" /\ logic \in Stages \ {"IDLE"}
        /\ logic \in {"ERROR", "COMPLETE"} \/ mDownloadComplete
    BY DEF Frame, News, ListFallsBack, List, SkipMusic, Resource, ResourcesDone, Patch, ErrorShown,
           Completed, Logic, Stages
  <1>2. /\ window = "open" /\ waiting = "no" /\ request # NoRequest
        /\ logic = mDownloadStatus \/ logic = "NEWS"
    BY <1>1 DEF UInv, LogicInv
  <1>3. ~AtWork \/ Ignoring
    BY <1>1, <1>2 DEF UInv, ThreadInv, QuietWhenComplete
  <1>4. Ignoring => logic \in {"NEWS", "COMPLETE"}
    BY <1>1, <1>2 DEF UInv, CallbackInv, Ignoring, Stages
  <1> QED
    BY <1>2, <1>3, <1>4

\* A frame either asks for the next download or leaves the former one alone.
LEMMA FrameDownload ==
  ASSUME UInv, Frame
  PROVE  /\ thread' = thread /\ request' = request /\ told' = told
         /\ disk' = disk /\ stayed' = stayed
         /\ window' = window /\ callback' = callback /\ logic' = "no"
         /\ mDownloadComplete' = mDownloadComplete
         /\ \/ waiting' = waiting /\ cancel' = cancel
            \/ waiting' = "delete" /\ mDownloadStatus' \in {"LIST", "RESOURCES", "PATCH"}
  <1> DEFINE Same == /\ thread' = thread /\ request' = request /\ told' = told
                     /\ disk' = disk /\ stayed' = stayed
             Left == waiting' = waiting /\ cancel' = cancel
             AskedFor == waiting' = "delete" /\ mDownloadStatus' \in {"LIST", "RESOURCES", "PATCH"}
  <1>1. NoDownload => Same /\ Left
    BY DEF NoDownload, vars, files
  <1>2. Redownload => Same /\ waiting' = "delete"
    BY DEF Redownload, Cancel, files
  <1>3. ASSUME NEW s, Logic(s) PROVE window' = window /\ callback' = callback /\ logic' = "no"
    BY <1>3 DEF Logic
  <1>4. CASE NothingToDo
    BY <1>1, <1>4 DEF NothingToDo, Logic, flags
  <1>5. CASE News \/ ListFallsBack \/ ResourcesDone
    BY <1>2, <1>3, <1>5 DEF News, ListFallsBack, ResourcesDone, Stage
  <1>6. CASE List \/ SkipMusic \/ Patch \/ ErrorShown \/ Completed
    BY <1>1, <1>3, <1>6 DEF List, SkipMusic, Patch, ErrorShown, Completed, Stage, flags
  <1>7. CASE Resource
    <2>1. mDownloadStatus' = "RESOURCES" /\ mDownloadComplete' = mDownloadComplete
      BY <1>7 DEF Resource, Logic, flags, UInv, LogicInv
    <2>2. Same /\ (Left \/ AskedFor)
      BY <1>1, <1>2, <1>7, <2>1 DEF Resource
    <2> QED
      BY <1>3, <1>7, <2>1, <2>2 DEF Resource
  <1> QED
    BY <1>4, <1>5, <1>6, <1>7 DEF Frame

\* The top of the loop changes nothing.
LEMMA LookFrame ==
  Look => /\ Idling /\ logic' = mDownloadStatus
          /\ UNCHANGED <<vars, flags, list, state, window, callback>>
  BY DEF Look, NoDownload

\* A download is begun between two, or by postInit.
LEMMA Started ==
  ASSUME UInv, PostInit \/ NextDownload
  PROVE  /\ request' = RequestOf(mDownloadStatus, mCurrentFile) /\ request' # NoRequest
         /\ thread' \in {"url", "none"} /\ waiting' = "no" /\ mDownloadComplete' = FALSE
         /\ disk' = disk /\ stayed' = stayed /\ window' = "open"
         /\ UNCHANGED <<mDownloadStatus, mCurrentFile, mUpdateFiles, mUpdateIndex, state, logic>>
         /\ logic = "no" /\ callback = "no" /\ callback' = "no"
         /\ mDownloadStatus = "NEWS" \/ Between
  <1>1. StartDownload /\ request = NoRequest /\ window' = "open"
    BY DEF PostInit, NextDownload, StartDownload, Start
  <1>2. RequestOf(mDownloadStatus, mCurrentFile) # NoRequest
    BY StartStage, StageAsks, DownloadAssumption
  <1>3. mDownloadStatus = "NEWS" \/ Between
    BY DEF PostInit, NextDownload, Between, UInv, WindowInv
  <1>4. logic = "no" /\ callback = "no"
    BY <1>1 DEF UInv, WindowInv, LogicInv, CallbackInv
  <1> QED
    BY <1>1, <1>2, <1>3, <1>4 DEF StartDownload, Start, files, flags, list

\* The player's steps do no more than cancel.
LEMMA UserSteps ==
  UserStep \/ Leave =>
      /\ Idling /\ thread' = thread /\ request' = request /\ told' = told
      /\ disk' = disk /\ stayed' = stayed
      /\ UNCHANGED <<mDownloadStatus, mDownloadComplete, mCurrentFile, mUpdateFiles, mUpdateIndex>>
      /\ UNCHANGED <<logic, callback>>
      /\ \/ UNCHANGED <<waiting, cancel, window>>
         \/ waiting' = "cancel" /\ cancel'
         \/ waiting' = "delete" /\ window' = "closing" /\ cancel'
  BY DEF UserStep, Leave, UserCancels, LeaveForLogin, Play, Quit, Becomes, NoDownload, Cancel, vars,
         files, flags, list

\* What the main thread waited for is over.
LEMMA Joined ==
  ASSUME UInv, CancelReturns \/ Deleted
  PROVE  /\ ~Active /\ thread' = "none" /\ waiting' = "no" /\ ~AtWork' /\ ~Active'
         /\ logic = "no" /\ logic' = "no" /\ callback = "no" /\ callback' = "no"
         /\ disk' = disk /\ stayed' = stayed /\ told' = told
         /\ UNCHANGED <<mCurrentFile, mUpdateFiles, mUpdateIndex, mDownloadComplete>>
  <1>1. Join
    BY DEF CancelReturns, Deleted
  <1>2. logic = "no" /\ callback = "no"
    BY <1>1 DEF Join, Active, UInv, LogicInv, CallbackInv
  <1> QED
    BY <1>1, <1>2 DEF Join, CancelReturns, Deleted, Stage, Active, AtWork, files, flags, list

LEMMA LogicStep == UInv /\ [UNext]_uvars => LogicInv'
  <1> SUFFICES ASSUME UInv, [UNext]_uvars PROVE LogicInv'
    OBVIOUS
  <1>0. LogicInv
    BY DEF UInv
  <1>1. CASE UNCHANGED uvars \/ Closed
    BY <1>0, <1>1 DEF LogicInv, Closed, uvars, vars, window_vars, flags, list
  <1>2. CASE ThreadStep
    <2>0. /\ request' = request /\ waiting' = waiting
          /\ UNCHANGED <<mUpdateIndex, window, logic>>
      BY <1>2, ThreadStepFrame DEF UInv
    <2> SUFFICES ASSUME logic # "no" PROVE LogicInv'
      BY <2>0 DEF LogicInv
    <2>1. window = "open" /\ waiting = "no" /\ request # NoRequest
      BY <1>0 DEF LogicInv
    <2>2. CASE Outside \/ Into \/ Answer
      BY <1>0, <2>0, <2>2, FlagsKept DEF LogicInv
    <2>3. CASE LookAtStage \/ Free
      BY <1>0, <2>0, <2>3 DEF LogicInv, LookAtStage, Free, flags
    <2>4. CASE Fail
      <3>1. AtWork /\ ~Ignoring
        BY <2>4 DEF Fail, Callback, UInv, CallbackInv, AtWork, Active, Ignoring
      <3>2. ~mDownloadComplete /\ mDownloadStatus \notin Ended
        BY <2>1, <3>1 DEF UInv, ThreadInv, QuietWhenComplete, Ended
      <3>3. logic = mDownloadStatus /\ logic \in {"NEWS", "LIST", "RESOURCES", "PATCH"}
        BY <1>0, <3>2 DEF LogicInv, UInv, UpdaterTypeOK, Stages, Ended
      <3> QED
        BY <1>0, <2>0, <2>4, <3>2, <3>3 DEF Fail, Stage, LogicInv
    <2>5. CASE Ignore
      <3>1. AtWork /\ ~Ignoring /\ mDownloadStatus \in {"NEWS", "COMPLETE"}
        BY <2>5 DEF Ignore, Callback, UInv, CallbackInv, AtWork, Active, Ignoring
      <3>2. logic = "NEWS"
        BY <1>0, <2>1, <3>1 DEF UInv, ThreadInv, QuietWhenComplete, LogicInv
      <3> QED
        BY <1>0, <2>0, <2>5, <3>2 DEF Ignore, Stage, LogicInv
    <2>6. CASE Flag
      <3>1. AtWork
        BY <2>6 DEF Flag, Callback, UInv, CallbackInv, AtWork, Active
      <3>2. mDownloadStatus # "ERROR"
        BY <2>1, <2>6, <3>1 DEF Flag, Callback, UInv, ThreadInv, QuietWhenComplete, CallbackInv,
           Ignoring
      <3> QED
        BY <1>0, <2>0, <2>6, <3>2 DEF Flag, LogicInv
    <2> QED
      BY <1>2, <2>2, <2>3, <2>4, <2>5, <2>6, ThreadStepCases DEF Inside
  <1>3. CASE PostInit \/ NextDownload
    BY <1>3, Started DEF LogicInv
  <1>4. CASE Look
    BY <1>4, LookFrame DEF LogicInv, Idling, UInv, StageInv, vars, flags, list
  <1>5. CASE Frame
    BY <1>5, FrameDownload DEF LogicInv
  <1>6. CASE CancelReturns \/ Deleted
    BY <1>6, Joined DEF LogicInv
  <1>7. CASE UserStep \/ Leave
    BY <1>7, UserSteps DEF LogicInv, Idling
  <1> QED
    BY <1>1, <1>2, <1>3, <1>4, <1>5, <1>6, <1>7 DEF UNext, MainThread, ThreadStep

LEMMA CallbackStep == UInv /\ [UNext]_uvars => CallbackInv'
  <1> SUFFICES ASSUME UInv, [UNext]_uvars PROVE CallbackInv'
    OBVIOUS
  <1>0. CallbackInv
    BY DEF UInv
  <1>1. CASE UNCHANGED uvars \/ Closed
    BY <1>0, <1>1 DEF CallbackInv, Closed, uvars, vars, window_vars, flags, list
  <1>2. CASE ThreadStep
    <2>0. waiting' = waiting
      BY <1>2, ThreadStepFrame DEF UInv
    <2>1. CASE Outside
      BY <1>0, <2>0, <2>1 DEF Outside, Quiet, Starting, TransferEnds, NextUrl, TriesEnd, Open,
         AttemptFails, Performed, ChecksumFails, ChecksumPasses, XmlFails, Rename, Finish, Conclude,
         Goto, CallbackInv, window_vars
    <2>2. CASE Into
      BY <1>0, <2>0, <2>2 DEF Into, Enter, Tell, Progress, Goto, CallbackInv
    <2>3. CASE Answer
      BY <1>0, <2>0, <2>3 DEF Answer, Answered, Return, Goto, CallbackInv
    <2>4. CASE LookAtStage \/ Fail
      BY <1>0, <2>0, <2>4 DEF LookAtStage, Fail, Callback, Stage, CallbackInv, vars, flags
    <2>5. CASE Ignore \/ Flag \/ Free
      BY <1>0, <2>0, <2>5 DEF Ignore, Flag, Free, Callback, Stage, CallbackInv, vars, flags
    <2> QED
      BY <1>2, <2>1, <2>2, <2>3, <2>4, <2>5, ThreadStepCases DEF Inside
  <1>3. CASE PostInit \/ NextDownload
    BY <1>0, <1>3, Started DEF CallbackInv
  <1>4. CASE Look
    BY <1>0, <1>4, LookFrame DEF CallbackInv, vars, flags
  <1>5. CASE NothingToDo
    BY <1>0, <1>5 DEF NothingToDo, Logic, NoDownload, CallbackInv, vars, flags
  <1>6. CASE Frame /\ ~NothingToDo
    <2>1. CASE ~AtWork
      BY <1>0, <1>6, <2>1, FrameDownload DEF CallbackInv, AtWork, Active
    <2>2. CASE Ignoring /\ News
      BY <1>0, <1>6, <2>2, FrameDownload DEF CallbackInv, Ignoring, News, Redownload, Cancel, Stage
    <2>3. CASE Ignoring /\ Completed
      BY <1>0, <1>6, <2>3, FrameDownload DEF CallbackInv, Ignoring, Completed, Stage
    <2>4. News \/ Completed \/ logic \notin {"NEWS", "COMPLETE"}
      BY <1>6 DEF Frame, ListFallsBack, List, SkipMusic, Resource, ResourcesDone, Patch, ErrorShown,
         Logic
    <2> QED
      BY <1>6, <2>1, <2>2, <2>3, <2>4, FrameQuiet
  <1>7. CASE CancelReturns \/ Deleted
    BY <1>7, Joined DEF CallbackInv
  <1>8. CASE UserStep \/ Leave
    BY <1>0, <1>8, UserSteps DEF CallbackInv, Idling
  <1> QED
    BY <1>1, <1>2, <1>3, <1>4, <1>5, <1>6, <1>7, <1>8 DEF UNext, MainThread, ThreadStep

LEMMA ThreadInvStep == UInv /\ [UNext]_uvars => ThreadInv'
  <1> SUFFICES ASSUME UInv, [UNext]_uvars PROVE ThreadInv'
    OBVIOUS
  <1>0. ThreadInv /\ WindowInv /\ CallbackInv
    BY DEF UInv
  <1>1. CASE UNCHANGED uvars \/ Closed
    BY <1>0, <1>1 DEF ThreadInv, QuietWhenComplete, Closed, uvars, vars, window_vars, flags,
       AtWork, Ignoring, Active, Between
  <1>2. CASE ThreadStep
    <2>1. Active /\ request' = request /\ waiting' = waiting /\ window' = window
      BY <1>2, ThreadStepFrame DEF UInv
    <2>2. Between' = Between
      BY <2>1 DEF Between
    <2>3. thread' \in Working /\ cancel' => waiting' # "no"
      BY <1>0, <1>2, <2>1, ThreadStepCancel DEF ThreadInv
    <2>4. CASE Outside \/ Into
      <3>1. thread # "telling" /\ AtWork
        BY <2>1, <2>4 DEF Outside, Into, Quiet, Starting, TransferEnds, NextUrl, TriesEnd, Open,
           AttemptFails, Performed, ChecksumFails, ChecksumPasses, XmlFails, Rename, Finish,
           Conclude, Tell, Progress, Goto, AtWork
      <3>2. ~Between /\ QuietWhenComplete'
        BY <1>0, <2>1, <2>4, <3>1, FlagsKept DEF ThreadInv, QuietWhenComplete, Ignoring
      <3> QED
        BY <2>2, <2>3, <3>2 DEF ThreadInv
    <2>5. CASE Answer
      <3>1. CASE thread = "asking"
        <4>1. AtWork /\ ~Ignoring
          BY <2>1, <3>1 DEF AtWork, Ignoring
        <4> QED
          BY <1>0, <2>1, <2>2, <2>3, <2>5, <4>1, FlagsKept DEF ThreadInv, QuietWhenComplete
      <3>2. CASE thread = "telling"
        <4>1. thread' = "done" /\ ~AtWork'
          BY <2>5, <3>2 DEF Answer, Answered, Return, Goto, AtWork, Active
        <4> QED
          BY <1>0, <2>2, <2>3, <2>5, <4>1, FlagsKept DEF ThreadInv, QuietWhenComplete
      <3> QED
        BY <2>5, <3>1, <3>2 DEF Answer, Answered, Return, Goto
    <2>6. CASE LookAtStage \/ Fail \/ Ignore
      <3>1. AtWork /\ ~Ignoring
        BY <2>1, <2>6 DEF LookAtStage, Fail, Ignore, Callback, AtWork, Ignoring
      <3>2. ~Between
        BY <1>0, <3>1 DEF ThreadInv
      <3>3. thread \in {"asking", "telling"} /\ told \in {"Error", "Cancelled"}
        BY <1>0, <2>6 DEF LookAtStage, Fail, Ignore, Callback, CallbackInv
      <3>4. (thread = "telling" /\ told = "Error") \/ waiting # "no"
        BY <1>0, <3>3 DEF CallbackInv, ThreadInv, Working
      <3>5. UNCHANGED vars
        BY <2>6 DEF LookAtStage, Fail, Ignore, Callback
      <3>6. QuietWhenComplete'
        <4> SUFFICES ASSUME waiting = "no" PROVE QuietWhenComplete'
          BY <2>1 DEF QuietWhenComplete
        <4>1. ~mDownloadComplete /\ mDownloadStatus \notin Ended
          BY <1>0, <3>1 DEF ThreadInv, QuietWhenComplete, Ended
        <4>2. CASE LookAtStage
          BY <4>1, <4>2 DEF LookAtStage, QuietWhenComplete, flags, Ended
        <4>3. CASE Fail
          BY <3>4, <3>5, <4>3 DEF Fail, Callback, QuietWhenComplete, AtWork, vars
        <4>4. CASE Ignore
          BY <3>4, <3>5, <4>4 DEF Ignore, Callback, QuietWhenComplete, Ignoring, vars
        <4> QED
          BY <2>6, <4>2, <4>3, <4>4
      <3> QED
        BY <2>2, <2>3, <3>2, <3>6 DEF ThreadInv
    <2>7. CASE Flag \/ Free
      <3>1. UNCHANGED <<vars, mDownloadStatus>>
        BY <2>7 DEF Flag, Free, Callback, flags
      <3>2. thread = "telling" \/ waiting # "no"
        <4>1. thread = "asking" => told = "Cancelled"
          BY <1>0, <2>7 DEF Flag, Free, Callback, CallbackInv
        <4> QED
          BY <1>0, <2>7, <4>1 DEF Flag, Free, Callback, CallbackInv, ThreadInv, Working
      <3>3. told = "Complete" \/ thread = "asking" \/ callback' = "label" \/ Ignoring'
        BY <1>0, <2>7, <3>1 DEF Flag, Free, Callback, CallbackInv, Ignoring, vars
      <3>4. QuietWhenComplete'
        BY <2>1, <2>7, <3>1, <3>2, <3>3 DEF Flag, Free, Callback, QuietWhenComplete, AtWork, vars
      <3>5. Between => ~AtWork' \/ Ignoring'
        <4> SUFFICES ASSUME Between PROVE ~AtWork' \/ Ignoring'
          OBVIOUS
        <4>1. Ignoring
          BY <1>0, <2>1, <2>7 DEF ThreadInv, Flag, Free, Callback, AtWork
        <4> QED
          BY <2>7, <3>1, <4>1 DEF Flag, Free, Callback, AtWork, Ignoring, vars
      <3> QED
        BY <1>0, <2>2, <2>3, <3>1, <3>4, <3>5 DEF ThreadInv
    <2> QED
      BY <1>2, <2>4, <2>5, <2>6, <2>7, ThreadStepCases DEF Inside
  <1>3. CASE PostInit \/ NextDownload
    <2>1. mDownloadStatus \in {"NEWS", "LIST", "RESOURCES", "PATCH"}
      BY <1>3, StartStage
    <2> QED
      BY <1>3, <2>1, Started DEF ThreadInv, QuietWhenComplete, Between, Working
  <1>4. CASE Look
    BY <1>0, <1>4, LookFrame DEF ThreadInv, QuietWhenComplete, AtWork, Ignoring, Active, Between,
       vars, flags
  <1>5. CASE NothingToDo
    BY <1>0, <1>5 DEF NothingToDo, Logic, NoDownload, ThreadInv, QuietWhenComplete, AtWork,
       Ignoring, Active, Between, vars, flags
  <1>6. CASE Frame /\ ~NothingToDo
    <2>1. /\ window = "open" /\ waiting = "no" /\ request # NoRequest
          /\ ~AtWork \/ Ignoring
          /\ ~Between
      BY <1>6, FrameQuiet DEF Between
    <2>2. ~AtWork' \/ Ignoring'
      BY <1>6, <2>1, FrameDownload DEF AtWork, Ignoring, Active
    <2>3. thread' \in Working /\ cancel' => waiting' # "no"
      BY <1>0, <1>6, FrameDownload DEF ThreadInv
    <2>4. Between' => mDownloadStatus' \in {"LIST", "RESOURCES", "PATCH"}
      BY <1>6, <2>1, FrameDownload DEF Between
    <2> QED
      BY <2>2, <2>3, <2>4 DEF ThreadInv, QuietWhenComplete
  <1>7. CASE CancelReturns \/ Deleted
    <2>1. ~AtWork' /\ thread' \notin Working
      BY <1>7, Joined DEF Working
    <2>2. Between' => Between /\ mDownloadStatus' = mDownloadStatus
      BY <1>0, <1>7 DEF CancelReturns, Deleted, Join, Between, WindowInv, flags
    <2> QED
      BY <1>0, <2>1, <2>2 DEF ThreadInv, QuietWhenComplete
  <1>8. CASE UserStep \/ Leave
    BY <1>0, <1>8, UserSteps DEF ThreadInv, QuietWhenComplete, Idling, Between, AtWork, Ignoring,
       Active
  <1> QED
    BY <1>1, <1>2, <1>3, <1>4, <1>5, <1>6, <1>7, <1>8 DEF UNext, MainThread, ThreadStep

\* All files that logic() went past are there once the last one is complete.
LEMMA AllThere ==
  ASSUME UInv, logic = "RESOURCES", mDownloadComplete
  PROVE  /\ mDownloadStatus = "RESOURCES"
         /\ \A i \in 1..mUpdateIndex : IsMusic(i) \/ Verified(FileOf(i))
  <1>1. mDownloadStatus = "RESOURCES" /\ waiting = "no" /\ request # NoRequest
    BY DEF UInv, LogicInv
  <1> QED
    BY <1>1 DEF UInv, ResourcesVerified, IsMusic, FileOf, Verified

LEMMA StageStep == UInv /\ [UNext]_uvars => StageInv'
  <1> SUFFICES ASSUME UInv, [UNext]_uvars PROVE StageInv'
    OBVIOUS
  <1>0. StageInv /\ mUpdateIndex \in Nat
    BY ListType DEF UInv, UpdaterTypeOK
  <1>1. CASE UNCHANGED uvars \/ Closed
    BY <1>0, <1>1 DEF StageInv, Closed, uvars, vars, window_vars, flags, list, AtWork, Active,
       Between
  <1>2. CASE ThreadStep
    <2>1. /\ Active /\ request' = request /\ waiting' = waiting
          /\ UNCHANGED <<mCurrentFile, mUpdateFiles, mUpdateIndex, window>>
      BY <1>2, ThreadStepFrame DEF UInv
    <2>2. Between' = Between
      BY <2>1 DEF Between
    <2>3. CASE Outside \/ Into \/ Answer
      <3>1. AtWork' => AtWork
        BY <2>1, <2>3 DEF Outside, Into, Answer, Quiet, Starting, TransferEnds, NextUrl, TriesEnd,
           Open, AttemptFails, Performed, ChecksumFails, ChecksumPasses, XmlFails, Rename, Finish,
           Conclude, Tell, Progress, Answered, Return, Goto, AtWork, Active
      <3> QED
        BY <1>0, <2>1, <2>2, <2>3, <3>1, FlagsKept DEF StageInv
    <2>4. CASE Fail \/ Ignore
      BY <2>4 DEF Fail, Ignore, Stage, StageInv
    <2>5. CASE LookAtStage \/ Free
      <3>1. (AtWork' => AtWork) /\ UNCHANGED flags
        BY <2>5 DEF LookAtStage, Free, Callback, AtWork, Active, vars
      <3> QED
        BY <1>0, <2>1, <2>2, <3>1 DEF StageInv, flags
    <2>6. CASE Flag
      <3>1. AtWork' => told # "Complete" /\ AtWork
        BY <2>6 DEF Flag, Callback, UInv, CallbackInv, AtWork, Active, vars
      <3>2. mDownloadStatus = "RESOURCES" => told = "Complete"
        BY <2>6 DEF Flag, Callback, UInv, CallbackInv
      <3>3. mDownloadStatus' = mDownloadStatus
        BY <2>6 DEF Flag
      <3>4. mDownloadStatus = "RESOURCES" => ~AtWork'
        BY <3>1, <3>2
      <3> QED
        BY <1>0, <2>1, <2>2, <3>1, <3>3, <3>4 DEF StageInv
    <2> QED
      BY <1>2, <2>3, <2>4, <2>5, <2>6, ThreadStepCases DEF Inside
  <1>3. CASE PostInit \/ NextDownload
    <2>1. mDownloadStatus = "RESOURCES" => Between
      BY <1>3, Started
    <2>2. ~Between'
      BY <1>3, Started DEF Between
    <2>3. mDownloadStatus = "PATCH" => request'.memory
      <3>1. RequestOf("PATCH", mCurrentFile).memory
        BY DEF RequestOf
      <3> QED
        BY <1>3, <3>1, Started
    <2>4. mDownloadStatus = "RESOURCES" =>
             request' = RequestOf("RESOURCES", mCurrentFile) /\ ~mDownloadComplete'
      BY <1>3, Started
    <2> QED
      BY <1>0, <1>3, <2>1, <2>2, <2>3, <2>4, Started DEF StageInv
  <1>4. CASE Look \/ NothingToDo
    <2>1. UNCHANGED <<vars, flags, list, window, callback>>
      BY <1>4 DEF Look, NothingToDo, Logic, NoDownload
    <2> QED
      BY <1>0, <2>1 DEF StageInv, vars, flags, list, AtWork, Active, Between
  <1>5. CASE Frame /\ ~NothingToDo
    <2>1. /\ window = "open" /\ waiting = "no" /\ request # NoRequest /\ request' = request
          /\ logic = mDownloadStatus \/ logic = "NEWS"
          /\ ~AtWork \/ logic \in {"NEWS", "COMPLETE"}
          /\ AtWork' = AtWork
      BY <1>5, FrameQuiet, FrameDownload DEF AtWork, Active
    <2>2. CASE Resource
      <3>1. mCurrentFile' \in DataFiles
        BY <2>2, NextEntry DEF Resource, UInv
      <3> QED
        BY <2>1, <2>2, <3>1 DEF Resource, Logic, flags, StageInv
    <2>3. CASE SkipMusic \/ List
      <3>1. ~Between' /\ ~AtWork' /\ mDownloadStatus' = "RESOURCES"
        BY <2>1, <2>3 DEF SkipMusic, List, Logic, Stage, NoDownload, vars, flags, Between
      <3> QED
        BY <3>1 DEF StageInv
    <2>4. CASE News
      <3>1. mUpdateIndex = 0
        BY <2>4 DEF News, Logic, UInv, LogicInv
      <3> QED
        BY <2>4, <3>1 DEF News, Stage, StageInv
    <2>5. CASE ListFallsBack
      BY <1>0, <2>1, <2>5 DEF ListFallsBack, Logic, Stage, StageInv
    <2>6. CASE ResourcesDone \/ Patch \/ ErrorShown \/ Completed
      BY <2>1, <2>6 DEF ResourcesDone, Patch, ErrorShown, Completed, Logic, Stage, StageInv
    <2> QED
      BY <1>5, <2>2, <2>3, <2>4, <2>5, <2>6 DEF Frame
  <1>6. CASE CancelReturns
    BY <1>6 DEF CancelReturns, Stage, StageInv
  <1>7. CASE Deleted
    <2>1. ~AtWork' /\ (Between' => Between)
      BY <1>7, Joined DEF Deleted, Join, Between
    <2> QED
      BY <1>0, <1>7, <2>1 DEF Deleted, flags, list, StageInv
  <1>8. CASE UserStep \/ Leave
    <2>1. AtWork' = AtWork /\ ~Between'
      BY <1>8, UserSteps DEF Idling, Active, AtWork, Between
    <2> QED
      BY <1>0, <1>8, <2>1, UserSteps DEF StageInv
  <1> QED
    BY <1>1, <1>2, <1>3, <1>4, <1>5, <1>6, <1>7, <1>8 DEF UNext, MainThread, ThreadStep

LEMMA VerifiedStep == UInv /\ [UNext]_uvars => ResourcesVerified'
  <1> SUFFICES ASSUME UInv, [UNext]_uvars PROVE ResourcesVerified'
    OBVIOUS
  <1>0. ResourcesVerified /\ mUpdateIndex \in Nat
    BY ListType DEF UInv, UpdaterTypeOK
  <1>1. CASE UNCHANGED uvars \/ Closed
    BY <1>0, <1>1 DEF ResourcesVerified, Closed, uvars, vars, window_vars, files, flags, list
  <1>2. CASE ThreadStep
    <2>1. /\ Active /\ request' = request /\ waiting' = waiting
          /\ UNCHANGED <<mCurrentFile, mUpdateFiles, mUpdateIndex>>
      BY <1>2, ThreadStepFrame DEF UInv
    <2> SUFFICES ASSUME mDownloadStatus' \in {"RESOURCES", "PATCH"} PROVE ResourcesVerified'
      BY DEF ResourcesVerified
    <2>2. /\ mDownloadStatus' = mDownloadStatus
          /\ mDownloadComplete' # mDownloadComplete => Flag
      BY <1>2, ThreadStepCases, FlagsKept
      DEF Inside, LookAtStage, Fail, Ignore, Flag, Free, Stage, flags
    <2>3. ASSUME NEW i \in 1..mUpdateIndex, ~IsMusic(i)
          PROVE  \/ Verified(FileOf(i))'
                 \/ /\ FileOf(i) = mCurrentFile /\ mDownloadStatus = "RESOURCES"
                    /\ waiting # "no" \/ request = NoRequest \/ ~mDownloadComplete'
      <3>1. FileOf(i) \in Files /\ FileOf(i)' = FileOf(i)
        BY <2>1, PassedFiles DEF FileOf
      <3>2. CASE FileRequest /\ FileOf(i) = request.file /\ thread \in {"verify", "rename"}
        <4>1. AtWork
          BY <3>2 DEF AtWork, Active
        <4>2. /\ mDownloadStatus = "RESOURCES" /\ ~mDownloadComplete
              /\ request = RequestOf("RESOURCES", mCurrentFile)
          BY <2>2, <3>2, <4>1 DEF UInv, StageInv, FileRequest
        <4>3. ~Flag
          BY <3>2 DEF Flag, Callback, UInv, CallbackInv
        <4> QED
          BY <2>2, <3>2, <4>2, <4>3 DEF RequestOf
      <3>3. CASE Verified(FileOf(i)) /\ ~(FileRequest /\ FileOf(i) = request.file
                                                      /\ thread \in {"verify", "rename"})
        BY <1>2, <3>1, <3>3, ThreadStepDisk DEF UInv, Verified
      <3>4. CASE ~Verified(FileOf(i))
        <4>1. /\ FileOf(i) = mCurrentFile /\ mDownloadStatus = "RESOURCES"
              /\ waiting # "no" \/ request = NoRequest \/ ~mDownloadComplete
          BY <1>0, <2>2, <2>3, <3>4 DEF ResourcesVerified, Verified, FileOf, IsMusic
        <4>2. CASE Flag
          <5>1. AtWork /\ told = "Complete"
            BY <4>1, <4>2 DEF Flag, Callback, UInv, CallbackInv, AtWork, Active
          <5>2. request = RequestOf("RESOURCES", mCurrentFile)
            BY <4>1, <5>1 DEF UInv, StageInv
          <5>3. FileRequest /\ request.adler /\ request.file = mCurrentFile
            BY <5>2 DEF RequestOf, FileRequest
          <5>4. Verified(mCurrentFile)
            BY <5>1, <5>3 DEF UInv, Inv, ToldInv, Stored, Verified
          <5> QED
            BY <3>4, <4>1, <5>4
        <4>3. CASE ~Flag
          BY <2>1, <2>2, <4>1, <4>3
        <4> QED
          BY <4>2, <4>3
      <3> QED
        BY <3>2, <3>3, <3>4
    <2> QED
      BY <2>1, <2>2, <2>3 DEF ResourcesVerified, Verified, FileOf, IsMusic
  <1>3. CASE PostInit \/ NextDownload
    BY <1>0, <1>3, Started DEF ResourcesVerified
  <1>4. CASE Look \/ NothingToDo
    <2>1. UNCHANGED <<vars, flags, list>>
      BY <1>4 DEF Look, NothingToDo, Logic, NoDownload
    <2> QED
      BY <1>0, <2>1 DEF ResourcesVerified, vars, files, flags, list
  <1>5. CASE Frame /\ ~NothingToDo
    <2>1. disk' = disk /\ stayed' = stayed /\ request' = request
      BY <1>5, FrameDownload
    <2>2. CASE SkipMusic \/ Resource
      <3>1. /\ mUpdateIndex' = mUpdateIndex + 1 /\ UNCHANGED mUpdateFiles
            /\ mDownloadStatus' = "RESOURCES"
            /\ \A i \in 1..mUpdateIndex : IsMusic(i) \/ Verified(FileOf(i))
        BY <2>2, AllThere DEF SkipMusic, Resource, Logic, flags
      <3>2. \/ mUpdateFiles[mUpdateIndex + 1].type = "music"
            \/ disk[mUpdateFiles[mUpdateIndex + 1].name] = "good"
            \/ waiting' # "no" /\ mCurrentFile' = mUpdateFiles[mUpdateIndex + 1].name
        BY <2>2 DEF SkipMusic, Resource, Redownload, Cancel
      <3>3. \A i \in 1..mUpdateIndex' : i \in 1..mUpdateIndex \/ i = mUpdateIndex + 1
        BY <1>0, <3>1
      <3> QED
        BY <2>1, <3>1, <3>2, <3>3 DEF ResourcesVerified, IsMusic, FileOf, Verified
    <2>3. CASE ResourcesDone
      <3>1. \A i \in 1..mUpdateIndex : IsMusic(i) \/ Verified(FileOf(i))
        BY <2>3, AllThere DEF ResourcesDone, Logic
      <3> QED
        BY <2>1, <2>3, <3>1 DEF ResourcesDone, ResourcesVerified, IsMusic, FileOf, Verified
    <2>4. CASE List
      <3>1. mUpdateIndex' = 0
        BY <2>4 DEF List, Logic, UInv, LogicInv, StageInv
      <3> QED
        BY <3>1 DEF ResourcesVerified
    <2>5. CASE News \/ ListFallsBack \/ Patch \/ ErrorShown \/ Completed
      BY <2>5 DEF News, ListFallsBack, Patch, ErrorShown, Completed, Logic, Stage, ResourcesVerified
    <2> QED
      BY <1>5, <2>2, <2>3, <2>4, <2>5 DEF Frame
  <1>6. CASE CancelReturns
    BY <1>6 DEF CancelReturns, Stage, ResourcesVerified
  <1>7. CASE Deleted
    BY <1>0, <1>7 DEF Deleted, Join, files, flags, list, ResourcesVerified
  <1>8. CASE UserStep \/ Leave
    BY <1>0, <1>8, UserSteps DEF Idling, ResourcesVerified
  <1> QED
    BY <1>1, <1>2, <1>3, <1>4, <1>5, <1>6, <1>7, <1>8 DEF UNext, MainThread, ThreadStep

----------------------------------------------------------------------------
(* The theorems.                                                           *)

\* Every state of the updater, and of its downloads, satisfies the invariant.
THEOREM UpdaterCorrect == USpec => []UInv
  <1>1. UInv /\ [UNext]_uvars => UInv'
    BY DownloadStep, UpdaterTypeStep, WindowStep, LogicStep, CallbackStep, ThreadInvStep, StageStep,
       VerifiedStep
    DEF UInv
  <1> QED
    BY <1>1, UpdaterInit, PTL DEF USpec

\* The updater implements Download: it calls start, cancel and the destructor in the
\* order the download needs, and asks only for what Requests has.
THEOREM UpdaterRefinesDownload == USpec => Spec
  <1>1. UInit => Init
    BY DEF UInit
  <1> QED
    BY <1>1, StepRefines, UpdaterCorrect, PTL DEF USpec, Spec

\* The state keeps its shape: the index stays within the list.
THEOREM UpdaterTypeCorrect == USpec => []UpdaterTypeOK
  <1>1. UInv => UpdaterTypeOK
    BY DEF UInv
  <1> QED
    BY <1>1, UpdaterCorrect, PTL

\* No thread is left that writes what logic() takes for granted, but for a failure that is
\* being ignored.
THEOREM QuietWhenCompleteHolds == USpec => []QuietWhenComplete
  <1>1. UInv => QuietWhenComplete
    BY DEF UInv, ThreadInv
  <1> QED
    BY <1>1, UpdaterCorrect, PTL

\* Every file that logic() has gone past is there as the list has it, if it is not music and
\* nothing old was in its way that could be neither removed nor replaced.
THEOREM ResourcesVerifiedHolds == USpec => []ResourcesVerified
  <1>1. UInv => ResourcesVerified
    BY DEF UInv
  <1> QED
    BY <1>1, UpdaterCorrect, PTL

=============================================================================
