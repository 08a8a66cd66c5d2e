------------------------------ MODULE Download ------------------------------
(***************************************************************************)
(* Net::Download: one file fetched from a list of mirrors by a thread of   *)
(* its own, up to MaxAttempts times from each.  The owner (a window of the *)
(* main thread) learns of it through the callback mUpdateFunction, which   *)
(* runs on the download's thread, and ends it with cancel(), which sets a  *)
(* flag and waits for the thread.                                          *)
(*                                                                         *)
(* The flag is a bit that only ever gets set until the object is deleted;  *)
(* two reads of it with nothing visible in between are one step here.      *)
(***************************************************************************)
EXTENDS Naturals

CONSTANTS
    Files,         \* names a download may be stored under
    Requests,      \* what owners ask for: records [file, memory, upload, adler, xml]
    MaxAttempts,   \* 3
    MaxUrls        \* bound: mirrors of a download

\* What a file holds: nothing at all, the beginning of something, something else
\* than was asked for, or what was asked for.
Contents == {"none", "partial", "wrong", "good"}

NoRequest == [file |-> "", memory |-> TRUE, upload |-> FALSE, adler |-> FALSE,
              xml |-> FALSE]

ASSUME DownloadAssumption ==
    /\ MaxAttempts \in Nat \ {0} /\ MaxUrls \in Nat
    /\ NoRequest \notin Requests
    /\ \A r \in Requests :
          /\ r.memory \in BOOLEAN /\ r.upload \in BOOLEAN
          /\ r.adler \in BOOLEAN /\ r.xml \in BOOLEAN
          /\ r.memory \/ r.file \in Files

VARIABLES
    request,    \* what the existing object was made for, or NoRequest
    cancel,     \* mOptions.cancel
    urls,       \* mirrors left in mUrlQueue
    thread,     \* step of downloadThread
    attempts, complete, res,
    opened,     \* fopen of the .part file succeeded
    waiting,    \* the owner is inside cancel(), and deletes the object after it or not
    told,       \* the callback's last status
    disk, part, \* contents of each file and of its .part file
    stayed      \* history: files that could be neither removed nor replaced, and are
                \* there still

worker == <<urls, attempts, complete, res, opened>>
files == <<disk, part, stayed>>
vars == <<request, cancel, thread, worker, waiting, told, files>>

Active == thread \notin {"none", "done"}

Init ==
    /\ request = NoRequest /\ cancel = FALSE /\ urls = 0 /\ thread = "none"
    /\ attempts = 0 /\ complete = FALSE /\ res = "ok" /\ opened = FALSE
    /\ waiting = "no" /\ told = "none"
    /\ disk \in [Files -> {"none", "wrong", "good"}]
    /\ part \in [Files -> {"none", "partial"}]
    /\ stayed = {}

----------------------------------------------------------------------------
(* The owner's calls.                                                      *)

\* The constructor, setFile or setWriteFunction, addMirror, and start.  When no
\* thread can be made the callback is told so at once.
Start(r, n) ==
    /\ request = NoRequest /\ waiting = "no"
    /\ request' = r /\ urls' = n /\ cancel' = FALSE
    /\ \/ thread' = "url" /\ told' = "none"
       \/ thread' = "none" /\ told' = "ThreadError"
    /\ UNCHANGED <<attempts, complete, res, opened, waiting, files>>

\* cancel(), and what every owner of a download does before it deletes one.
Cancel(next) ==
    /\ request # NoRequest /\ waiting = "no"
    /\ cancel' = TRUE /\ waiting' = next
    /\ UNCHANGED <<request, thread, worker, told, files>>

\* WaitThread returned; delete.
Join ==
    /\ waiting # "no" /\ ~Active
    /\ thread' = "none" /\ waiting' = "no"
    /\ request' = IF waiting = "delete" THEN NoRequest ELSE request
    /\ UNCHANGED <<cancel, worker, told, files>>

----------------------------------------------------------------------------
(* downloadThread.  The steps that call the callback set told; it runs     *)
(* while the thread is "asking" or "telling".                              *)

Goto(from, to) == thread = from /\ thread' = to

\* while (!mUrlQueue.empty())
NextUrl ==
    /\ Goto("url", IF urls = 0 THEN "report" ELSE "try")
    /\ IF urls = 0 THEN UNCHANGED <<urls, attempts, complete>>
                   ELSE urls' = urls - 1 /\ attempts' = 0 /\ complete' = FALSE
    /\ UNCHANGED <<request, cancel, res, opened, waiting, told, files>>

\* A mistake the runs must find: one attempt too many.
MayTryOnceMore == attempts <= MaxAttempts /\ ~complete /\ ~cancel

MayTry == attempts < MaxAttempts /\ ~complete /\ ~cancel

Succeeded == complete /\ attempts < MaxAttempts

\* The condition holds: the callback is told of another attempt, and what it makes
\* of that is not looked at.
Starting ==
    /\ MayTry
    /\ Goto("try", "open") /\ told' = "Starting"
    /\ UNCHANGED <<request, cancel, worker, waiting, files>>

\* It does not: this mirror is done with, and so is the download if the file came.
TriesEnd ==
    /\ ~MayTry
    /\ Goto("try", IF Succeeded \/ cancel THEN "report" ELSE "url")
    /\ UNCHANGED <<request, cancel, worker, waiting, told, files>>

\* curl_easy_init, then fopen "w+b", which empties the file it opens.
Open ==
    /\ \/ cancel /\ Goto("open", "done") /\ UNCHANGED <<opened, part>>
       \/ ~cancel /\ Goto("open", "finish") /\ UNCHANGED <<opened, part>>
       \/ /\ ~cancel /\ Goto("open", "transfer")
          /\ opened' \in BOOLEAN
          /\ part' = IF opened' /\ ~request.memory /\ ~request.upload
                     THEN [part EXCEPT ![request.file] = "partial"] ELSE part
    /\ UNCHANGED <<request, cancel, urls, attempts, complete, res, waiting, told, disk, stayed>>

\* curl asks downloadProgress, and through it the owner, whether to go on.
Progress ==
    /\ ~request.upload
    /\ Goto("transfer", "asking")
    /\ told' = IF cancel THEN "Cancelled" ELSE "Idle"
    /\ UNCHANGED <<request, cancel, worker, waiting, files>>

\* The callback's answer, and what curl makes of it.
Answered(stop) ==
    /\ Goto("asking", IF stop THEN "performed" ELSE "transfer")
    /\ res' = IF stop THEN "aborted" ELSE res
    /\ UNCHANGED <<request, cancel, urls, attempts, complete, opened, waiting, told, files>>

\* The transfer fails or times out, or something was transferred: the file, or
\* what a server without it answers.
TransferEnds ==
    /\ Goto("transfer", "performed")
    /\ res' \in {"ok", "failed"}
    /\ part' \in IF res' = "ok" /\ opened /\ ~request.memory /\ ~request.upload
                 THEN {[part EXCEPT ![request.file] = c] : c \in {"wrong", "good"}}
                 ELSE {part}
    /\ UNCHANGED <<request, cancel, urls, attempts, complete, opened, waiting, told, disk, stayed>>

\* curl reported an error: one attempt less, and none after a callback's refusal.
AttemptFails ==
    /\ res # "ok" /\ ~cancel
    /\ Goto("performed", "try")
    /\ cancel' = (res = "aborted")
    /\ attempts' = attempts + 1
    /\ UNCHANGED <<request, urls, complete, res, opened, waiting, told, files>>

\* It did not, or the download is being cancelled.
Performed ==
    /\ res = "ok" \/ cancel
    /\ Goto("performed", IF request.memory \/ request.upload THEN "finish" ELSE "verify")
    /\ complete' = (complete \/ request.memory \/ request.upload)
    /\ UNCHANGED <<request, cancel, urls, attempts, res, opened, waiting, told, files>>

\* A mistake the runs must find: no checksum of a file that was not opened.
WrongIfOpened == request.adler /\ opened /\ part[request.file] # "good"

\* fadler32 is 0, which no file of a list has, if the .part file was not opened.
ChecksumWrong == request.adler /\ (~opened \/ part[request.file] # "good")

\* "Remove the corrupted file": what is removed, if it can be, is mFileName.
ChecksumFails ==
    /\ ChecksumWrong
    /\ Goto("verify", "try")
    /\ disk' \in {disk, [disk EXCEPT ![request.file] = "none"]}
    /\ attempts' = attempts + 1
    /\ UNCHANGED <<request, cancel, urls, complete, res, opened, waiting, told, part, stayed>>

\* A mistake the runs must find: what was cancelled is stored all the same.
PassesWhenCancelled ==
    /\ ~ChecksumWrong
    /\ Goto("verify", "rename")
    /\ UNCHANGED <<request, cancel, worker, waiting, told, files>>

ChecksumPasses ==
    /\ ~ChecksumWrong
    /\ Goto("verify", IF cancel THEN "finish" ELSE "rename")
    /\ UNCHANGED <<request, cancel, worker, waiting, told, files>>

\* validateXml refuses what is no XML.
XmlFails ==
    /\ request.xml /\ part[request.file] # "good"
    /\ Goto("rename", "try")
    /\ attempts' = attempts + 1
    /\ UNCHANGED <<request, cancel, urls, complete, res, opened, waiting, told, files>>

\* ::remove and Files::renameFile, at whose results nobody looks.
Replace(f) ==
    /\ disk' = [disk EXCEPT ![f] = part[f]] /\ part' = [part EXCEPT ![f] = "none"]
    /\ stayed' = stayed \ {f}

\* Removed, but the .part file is not there or cannot be renamed.
RemoveOnly(f) ==
    /\ disk' = [disk EXCEPT ![f] = "none"] /\ UNCHANGED part
    /\ stayed' = stayed \ {f}

\* Neither: somebody else has the old file open, or may alone write there.
LeaveOld(f) ==
    /\ disk[f] # "none" /\ UNCHANGED <<disk, part>>
    /\ stayed' = stayed \cup {f}

\* Something else than was asked for may still be XML.  The check that "no errors
\* were encountered during renaming" is whether some file can be opened.
Rename ==
    /\ request.xml => part[request.file] \in {"wrong", "good"}
    /\ Goto("rename", "finish")
    /\ Replace(request.file) \/ RemoveOnly(request.file) \/ LeaveOld(request.file)
    /\ complete' \in {FALSE, disk'[request.file] # "none"}
    /\ UNCHANGED <<request, cancel, urls, attempts, res, opened, waiting, told>>

\* The end of an attempt that curl reported no error of.
Finish ==
    /\ Goto("finish", IF cancel THEN "done" ELSE "try")
    /\ attempts' = IF cancel THEN attempts ELSE attempts + 1
    /\ UNCHANGED <<request, cancel, urls, complete, res, opened, waiting, told, files>>

\* "Nothing to do" after a cancel; else the callback is told how it went, which a
\* cancel() that comes after the question no longer prevents.
Conclude ==
    /\ Goto("report", IF cancel THEN "done" ELSE "tell")
    /\ UNCHANGED <<request, cancel, worker, waiting, told, files>>

Tell ==
    /\ Goto("tell", "telling")
    /\ told' = IF Succeeded THEN "Complete" ELSE "Error"
    /\ UNCHANGED <<request, cancel, worker, waiting, files>>

\* The callback returns, and the thread with it.
Return ==
    /\ Goto("telling", "done")
    /\ UNCHANGED <<request, cancel, worker, waiting, told, files>>

----------------------------------------------------------------------------
\* Steps of the thread outside the network and the callback.
Quiet ==
    \/ NextUrl \/ TriesEnd \/ Open \/ AttemptFails \/ Performed \/ ChecksumFails
    \/ ChecksumPasses \/ XmlFails \/ Rename \/ Finish \/ Conclude

Thread ==
    \/ Quiet \/ Starting \/ Tell \/ Return \/ TransferEnds \/ Progress
    \/ \E stop \in BOOLEAN : Answered(stop)

Owner ==
    \/ \E r \in Requests, n \in 1..MaxUrls : Start(r, n)
    \/ \E next \in {"cancel", "delete"} : Cancel(next)
    \/ Join

Next == Thread \/ Owner

Spec == Init /\ [][Next]_vars

----------------------------------------------------------------------------
(* Properties.                                                             *)

Steps == {"none", "url", "try", "open", "transfer", "asking", "performed", "verify", "rename",
          "finish", "report", "tell", "telling", "done"}
Told == {"none", "ThreadError", "Starting", "Idle", "Cancelled", "Error", "Complete"}

\* The shape of the state.
DownloadTypeOK ==
    /\ request \in Requests \cup {NoRequest} /\ cancel \in BOOLEAN
    /\ urls \in 0..MaxUrls /\ thread \in Steps
    /\ attempts \in 0..MaxAttempts /\ complete \in BOOLEAN
    /\ res \in {"ok", "failed", "aborted"} /\ opened \in BOOLEAN
    /\ waiting \in {"no", "cancel", "delete"} /\ told \in Told
    /\ disk \in [Files -> Contents] /\ part \in [Files -> Contents] /\ stayed \subseteq Files

\* Who is told Complete has a file: whatever was tried, failed, aborted and left
\* behind before, a list that had to be XML is no half of a file, and a file with a
\* checksum is the right one.  There is one exception: an old file that could be
\* neither removed nor replaced is taken for the new one.
StoredWhenComplete ==
    told = "Complete" /\ ~request.memory /\ ~request.upload =>
        /\ disk[request.file] # "none"
        /\ \/ request.file \in stayed
           \/ /\ request.xml => disk[request.file] # "partial"
              /\ request.adler => disk[request.file] = "good"

\* Whenever a transfer is cancelled, refused or broken off, half a file replaces
\* no stored one: only a .part file left by an earlier run can be stored so, if
\* it cannot be opened any more and nothing is known of what it should hold.
WholeFileStored ==
    [][\A f \in Files : disk'[f] = "partial" =>
          \/ disk[f] = "partial"
          \/ ~opened /\ ~request.adler /\ ~request.xml]_vars

\* "It's stored in memory, we're done": a file that has come is no error.
NoErrorAfterSuccess == [][complete => told' # "Error" \/ told = "Error"]_vars

\* "Remove the corrupted file": what was downloaded does not stay.
CorruptedFileRemoved == [][ChecksumFails => part'[request.file] = "none"]_vars

=============================================================================
