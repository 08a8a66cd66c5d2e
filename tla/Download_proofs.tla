--------------------------- MODULE Download_proofs ---------------------------
(***************************************************************************)
(* What an owner that is told Complete can rely on, for every set of files *)
(* and requests and every number of attempts and mirrors.                  *)
(***************************************************************************)
EXTENDS Download, TLAPS

FileRequest == ~request.memory /\ ~request.upload

\* The file is stored, as far as what was asked for allows to tell, or the old one
\* could not be replaced.
Stored ==
    /\ disk[request.file] # "none"
    /\ \/ request.file \in stayed
       \/ /\ request.xml => disk[request.file] # "partial"
          /\ request.adler => disk[request.file] = "good"

\* An attempt is counted when it ends, and was allowed when it began.
AttemptInv ==
    thread \in {"open", "transfer", "asking", "performed", "verify", "rename", "finish"} =>
        attempts < MaxAttempts

\* While an attempt at a file is being made the file has not come; the variable
\* complete says so, except before the first mirror, where it may be older.
CompleteInv ==
    FileRequest =>
        /\ thread \in {"open", "transfer", "asking", "performed", "verify", "rename"} => ~complete
        /\ complete /\ thread \in {"try", "finish", "report", "tell"} => Stored
        /\ complete /\ thread = "url" /\ urls = 0 => Stored

\* What the .part file of the attempt holds.
PartInv ==
    /\ thread \in {"verify", "rename"} => FileRequest
    /\ thread = "performed" /\ FileRequest /\ opened /\ res = "ok" =>
          part[request.file] # "partial"
    /\ thread = "verify" /\ opened /\ ~cancel => part[request.file] # "partial"
    /\ thread = "rename" /\ opened => part[request.file] # "partial"
    /\ thread = "rename" /\ request.adler => part[request.file] = "good"

ToldInv ==
    /\ thread \in {"asking", "telling"} => told # "none"
    /\ told = "Complete" => thread \in {"telling", "done", "none"} /\ (FileRequest => Stored)

Inv == DownloadTypeOK /\ AttemptInv /\ CompleteInv /\ PartInv /\ ToldInv

----------------------------------------------------------------------------
\* A file that is asked for has a name.
LEMMA NamedFile == DownloadTypeOK /\ FileRequest => request \in Requests /\ request.file \in Files
  <1> SUFFICES ASSUME DownloadTypeOK, FileRequest
               PROVE  request \in Requests /\ request.file \in Files
    OBVIOUS
  <1>1. NoRequest.memory
    BY DEF NoRequest
  <1>2. request \in Requests
    BY <1>1 DEF DownloadTypeOK, FileRequest
  <1>3. request.memory \/ request.file \in Files
    BY <1>2, DownloadAssumption
  <1> QED
    BY <1>2, <1>3 DEF FileRequest

LEMMA InitInv == Init => Inv
  <1> SUFFICES ASSUME Init PROVE Inv
    OBVIOUS
  <1>1. DownloadTypeOK
    <2>1. disk \in [Files -> Contents] /\ part \in [Files -> Contents]
      BY DEF Init, Contents
    <2>2. 0 \in 0..MaxUrls /\ 0 \in 0..MaxAttempts
      BY DownloadAssumption
    <2> QED
      BY <2>1, <2>2 DEF Init, DownloadTypeOK, Steps, Told
  <1>2. AttemptInv /\ CompleteInv /\ PartInv /\ ToldInv
    BY DEF Init, AttemptInv, CompleteInv, PartInv, ToldInv
  <1> QED
    BY <1>1, <1>2 DEF Inv

\* The types survive every step: attempts never exceed MaxAttempts.
LEMMA TypeStep == Inv /\ [Next]_vars => DownloadTypeOK'
  <1> SUFFICES ASSUME Inv, [Next]_vars PROVE DownloadTypeOK'
    OBVIOUS
  <1> USE DownloadAssumption DEF DownloadTypeOK, Inv, Steps, Told, Contents
  <1>1. CASE UNCHANGED vars
    BY <1>1 DEF vars, worker, files
  <1>2. ASSUME NEW r \in Requests, NEW n \in 1..MaxUrls, Start(r, n) PROVE DownloadTypeOK'
    <2>1. n \in 0..MaxUrls
      OBVIOUS
    <2>2. request' \in Requests \cup {NoRequest} /\ cancel' \in BOOLEAN
      BY <1>2 DEF Start
    <2> QED
      BY <1>2, <2>1, <2>2 DEF Start, files
  <1>3. ASSUME NEW next \in {"cancel", "delete"}, Cancel(next) PROVE DownloadTypeOK'
    BY <1>3 DEF Cancel, worker, files
  <1>4. CASE Join
    BY <1>4 DEF Join, worker, files
  <1>5. CASE NextUrl
    <2>1. CASE urls = 0
      BY <1>5, <2>1 DEF NextUrl, Goto, worker, files
    <2>2. CASE urls # 0
      <3>1. urls - 1 \in 0..MaxUrls /\ 0 \in 0..MaxAttempts
        BY <2>2
      <3> QED
        BY <1>5, <2>2, <3>1 DEF NextUrl, Goto, files
    <2> QED
      BY <2>1, <2>2
  <1>6. CASE Starting
    BY <1>6 DEF Starting, Goto, worker, files
  <1>7. CASE TriesEnd
    BY <1>7 DEF TriesEnd, Goto, worker, files
  <1>8. CASE Conclude
    BY <1>8 DEF Conclude, Goto, worker, files
  <1>9. CASE Tell \/ Return
    BY <1>9 DEF Tell, Return, Goto, worker, files
  <1>10. CASE Open
    BY <1>10 DEF Open, Goto, files
  <1>11. CASE TransferEnds
    BY <1>11 DEF TransferEnds, Goto, files
  <1>12. CASE Progress \/ \E stop \in BOOLEAN : Answered(stop)
    BY <1>12 DEF Progress, Answered, Goto, worker, files
  <1>13. CASE AttemptFails
    BY <1>13 DEF AttemptFails, Goto, AttemptInv, files
  <1>14. CASE Performed
    BY <1>14 DEF Performed, Goto, AttemptInv, files
  <1>15. CASE XmlFails
    BY <1>15 DEF XmlFails, Goto, AttemptInv, files
  <1>16. CASE Finish
    BY <1>16 DEF Finish, Goto, AttemptInv, files
  <1>17. CASE ChecksumFails \/ ChecksumPasses
    BY <1>17 DEF ChecksumFails, ChecksumPasses, Goto, AttemptInv, worker, files
  <1>18. CASE Rename
    <2>1. request.file \in Files /\ part[request.file] \in Contents
      BY <1>18, NamedFile DEF Rename, Goto, PartInv
    <2>2. disk' \in [Files -> Contents] /\ part' \in [Files -> Contents] /\ stayed' \subseteq Files
      BY <1>18, <2>1 DEF Rename, Replace, RemoveOnly, LeaveOld
    <2>3. complete' \in BOOLEAN
      BY <1>18 DEF Rename
    <2> QED
      BY <1>18, <2>2, <2>3 DEF Rename, Goto
  <1> QED
    BY <1>1, <1>2, <1>3, <1>4, <1>5, <1>6, <1>7, <1>8, <1>9, <1>10,
       <1>11, <1>12, <1>13, <1>14, <1>15, <1>16, <1>17, <1>18
    DEF Next, Thread, Quiet, Owner

LEMMA AttemptStep == Inv /\ [Next]_vars => AttemptInv'
  <1> SUFFICES ASSUME Inv, [Next]_vars PROVE AttemptInv'
    OBVIOUS
  <1> USE DEF Inv, AttemptInv
  <1>1. CASE UNCHANGED vars \/ Owner
    BY <1>1 DEF Owner, Start, Cancel, Join, vars, worker, files
  <1>2. CASE Thread
    BY <1>2 DEF Thread, Quiet, NextUrl, Starting, MayTry, TriesEnd, Conclude, Tell, Open,
       TransferEnds, Progress, Answered, Return, AttemptFails, Performed, ChecksumFails,
       ChecksumPasses, XmlFails, Rename, Finish, Goto, worker
  <1> QED
    BY <1>1, <1>2 DEF Next

\* The file that has come stays as it was stored.
LEMMA CompleteStep == Inv /\ [Next]_vars => CompleteInv'
  <1> SUFFICES ASSUME Inv, [Next]_vars PROVE CompleteInv'
    OBVIOUS
  <1> USE DEF Inv, CompleteInv
  <1>1. CASE UNCHANGED vars
    BY <1>1 DEF vars, worker, files, FileRequest, Stored
  <1>2. CASE Owner
    <2>1. ASSUME NEW r \in Requests, NEW n \in 1..MaxUrls, Start(r, n) PROVE CompleteInv'
      <3>1. thread' \in {"url", "none"} /\ urls' # 0
        BY <2>1, DownloadAssumption DEF Start
      <3> QED
        BY <3>1
    <2>2. ASSUME NEW next \in {"cancel", "delete"}, Cancel(next) PROVE CompleteInv'
      BY <2>2 DEF Cancel, worker, files, FileRequest, Stored
    <2>3. CASE Join
      BY <2>3 DEF Join
    <2> QED
      BY <1>2, <2>1, <2>2, <2>3 DEF Owner
  <1>3. CASE NextUrl
    BY <1>3 DEF NextUrl, Goto, files, FileRequest, Stored
  <1>4. CASE Starting \/ TriesEnd \/ Conclude \/ Tell \/ Return
    BY <1>4 DEF Starting, MayTry, TriesEnd, Conclude, Tell, Return, Goto, worker, files,
       FileRequest, Stored
  <1>5. CASE Open \/ TransferEnds \/ Progress \/ \E stop \in BOOLEAN : Answered(stop)
    BY <1>5 DEF Open, TransferEnds, Progress, Answered, Goto, worker, files, FileRequest, Stored
  <1>6. CASE AttemptFails \/ Performed \/ XmlFails \/ Finish
    <2>1. CASE AttemptFails \/ XmlFails
      BY <2>1 DEF AttemptFails, XmlFails, Goto, FileRequest
    <2>2. CASE Performed
      BY <2>2 DEF Performed, Goto, FileRequest
    <2>3. CASE Finish
      BY <2>3 DEF Finish, Goto, files, FileRequest, Stored
    <2> QED
      BY <1>6, <2>1, <2>2, <2>3
  <1>7. CASE ChecksumFails \/ ChecksumPasses
    BY <1>7 DEF ChecksumFails, ChecksumPasses, Goto, worker, files, FileRequest, Stored
  <1>8. CASE Rename
    BY <1>8, NamedFile DEF Rename, Replace, RemoveOnly, LeaveOld, Goto, PartInv, DownloadTypeOK,
       FileRequest, Stored
  <1> QED
    BY <1>1, <1>2, <1>3, <1>4, <1>5, <1>6, <1>7, <1>8 DEF Next, Thread, Quiet

\* Half a file gets to the renaming only if it could not be opened.
LEMMA PartStep == Inv /\ [Next]_vars => PartInv'
  <1> SUFFICES ASSUME Inv, [Next]_vars PROVE PartInv'
    OBVIOUS
  <1> USE DEF Inv, PartInv
  <1>1. CASE UNCHANGED vars
    BY <1>1 DEF vars, worker, files, FileRequest
  <1>2. CASE Owner
    BY <1>2 DEF Owner, Start, Cancel, Join, worker, files, FileRequest, Active
  <1>3. CASE NextUrl \/ Starting \/ TriesEnd \/ Conclude \/ Tell \/ Return \/ Open \/ Progress
    BY <1>3 DEF NextUrl, Starting, TriesEnd, Conclude, Tell, Return, Open, Progress, Goto
  <1>4. CASE TransferEnds
    BY <1>4, NamedFile DEF TransferEnds, Goto, FileRequest, DownloadTypeOK
  <1>5. CASE \E stop \in BOOLEAN : Answered(stop)
    BY <1>5 DEF Answered, Goto, FileRequest, DownloadTypeOK
  <1>6. CASE Performed
    BY <1>6 DEF Performed, Goto, FileRequest, files
  <1>7. CASE AttemptFails \/ XmlFails \/ Finish \/ ChecksumFails \/ Rename
    BY <1>7 DEF AttemptFails, XmlFails, Finish, ChecksumFails, Rename, Goto
  <1>8. CASE ChecksumPasses
    BY <1>8 DEF ChecksumPasses, ChecksumWrong, Goto, FileRequest, worker, files
  <1> QED
    BY <1>1, <1>2, <1>3, <1>4, <1>5, <1>6, <1>7, <1>8 DEF Next, Thread, Quiet

LEMMA ToldStep == Inv /\ [Next]_vars => ToldInv'
  <1> SUFFICES ASSUME Inv, [Next]_vars PROVE ToldInv'
    OBVIOUS
  <1> USE DEF Inv, ToldInv
  <1>1. CASE UNCHANGED vars
    BY <1>1 DEF vars, files, Active, FileRequest, Stored
  <1>2. CASE Owner
    <2>1. CASE \E r \in Requests, n \in 1..MaxUrls : Start(r, n)
      BY <2>1 DEF Start
    <2>2. CASE \E next \in {"cancel", "delete"} : Cancel(next)
      BY <2>2 DEF Cancel, files, Active, FileRequest, Stored
    <2>3. CASE Join
      <3>1. thread' = "none" /\ (told = "Complete" => (FileRequest => Stored))
        BY <2>3 DEF Join
      <3>2. NoRequest.memory
        BY DEF NoRequest
      <3>3. FileRequest' => request' = request
        BY <2>3, <3>2 DEF Join, FileRequest
      <3> QED
        BY <2>3, <3>1, <3>3 DEF Join, files, FileRequest, Stored
    <2> QED
      BY <1>2, <2>1, <2>2, <2>3 DEF Owner
  <1>3. CASE Starting \/ Progress
    BY <1>3 DEF Starting, Progress, Goto
  <1>4. CASE Tell \/ Return \/ \E stop \in BOOLEAN : Answered(stop)
    BY <1>4 DEF Tell, Return, Answered, Succeeded, CompleteInv, Goto, worker, files, FileRequest,
       Stored
  <1>5. CASE Quiet \/ TransferEnds
    BY <1>5 DEF Quiet, TransferEnds, NextUrl, TriesEnd, Conclude, Open, AttemptFails, Performed,
       ChecksumFails, ChecksumPasses, XmlFails, Rename, Finish, Goto, Active
  <1> QED
    BY <1>1, <1>2, <1>3, <1>4, <1>5 DEF Next, Thread

\* Every state of a download satisfies the invariant.
THEOREM DownloadCorrect == Spec => []Inv
  <1>1. Inv /\ [Next]_vars => Inv'
    BY TypeStep, AttemptStep, CompleteStep, PartStep, ToldStep DEF Inv
  <1> QED
    BY <1>1, InitInv, PTL DEF Spec

----------------------------------------------------------------------------
\* The state keeps its shape: no mirror gets more than MaxAttempts attempts.
THEOREM DownloadTypeCorrect == Spec => []DownloadTypeOK
  <1>1. Inv => DownloadTypeOK
    BY DEF Inv
  <1> QED
    BY <1>1, DownloadCorrect, PTL

\* Who is told Complete has the file, whatever was tried before.
THEOREM StoredWhenCompleteHolds == Spec => []StoredWhenComplete
  <1>1. Inv => StoredWhenComplete
    BY DEF Inv, ToldInv, FileRequest, Stored, StoredWhenComplete
  <1> QED
    BY <1>1, DownloadCorrect, PTL

\* The step that WholeFileStored forbids.
HalfStored(f) == disk'[f] = "partial" /\ disk[f] # "partial"

\* No half file replaces a stored one, unless it was left by an earlier run.
THEOREM WholeFileStoredHolds == Spec => WholeFileStored
  <1>1. ASSUME Inv, [Next]_vars, NEW f \in Files, HalfStored(f)
        PROVE  ~opened /\ ~request.adler /\ ~request.xml
    <2> USE <1>1 DEF HalfStored
    <2>1. CASE UNCHANGED vars \/ Owner
      BY <2>1 DEF vars, Owner, Start, Cancel, Join, files
    <2>2. CASE \/ Starting \/ Tell \/ Return \/ TransferEnds \/ Progress
               \/ \E stop \in BOOLEAN : Answered(stop)
      BY <2>2 DEF Starting, Tell, Return, TransferEnds, Progress, Answered, files
    <2>3. CASE Rename
      BY <2>3 DEF Rename, Replace, RemoveOnly, LeaveOld, Goto, Inv, DownloadTypeOK, PartInv
    <2>4. CASE ChecksumFails
      BY <2>4 DEF ChecksumFails, Inv, DownloadTypeOK
    <2>5. CASE Quiet /\ ~Rename /\ ~ChecksumFails
      BY <2>5 DEF Quiet, NextUrl, TriesEnd, Conclude, Open, AttemptFails, Performed,
         ChecksumPasses, XmlFails, Finish, files
    <2> QED
      BY <2>1, <2>2, <2>3, <2>4, <2>5 DEF Next, Thread
  <1>2. Inv /\ [Next]_vars =>
           [\A f \in Files : disk'[f] = "partial" =>
               \/ disk[f] = "partial"
               \/ ~opened /\ ~request.adler /\ ~request.xml]_vars
    BY <1>1 DEF HalfStored
  <1> QED
    BY <1>2, DownloadCorrect, PTL DEF Spec, WholeFileStored

=============================================================================
