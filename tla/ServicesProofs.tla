---------------------------- MODULE ServicesProofs ----------------------------
(***************************************************************************)
(* Theorems about Sharing, Streams, Chat and Messages, as MCServices       *)
(* instantiates them: `Reports' and `Workers' stand for the files and the  *)
(* uploads of Sharing, the streams, the turns of a chat, the jobs and the  *)
(* messages.  They hold for any numbers of those, any numbers of attempts  *)
(* and failures, and any life of a link.  What MCServices says of reports  *)
(* follows from ReportPipelineProofs; InstallerAssignments, which it runs  *)
(* as well, is proved about in InstallerAssignmentsProofs.                 *)
(***************************************************************************)
EXTENDS MCServices, Integers, Sequences, FiniteSetTheorems, TLAPS

-----------------------------------------------------------------------------
(* Share links: types.                                                     *)

FileOrNone == Reports \cup {None}
LinkRowType == [file: Reports, expires: Int, job: FileOrNone]
FileJobType == [due: Int, left: Int]
DeletionType == [pc: {"idle", "checking", "destroying", "deleting"}, file: FileOrNone]
UploadType ==
  [pc: {"idle", "saving", "inserting", "removing", "replacing", "scheduling", "noting", "undoing"},
   file: FileOrNone, expires: Int, old: FileOrNone, oldJob: FileOrNone]

\* None is no file, row or job, a visitor is no file, and moments are integers.
LinkAssumption ==
  /\ None \notin Reports \cup LinkRowType \cup FileJobType
  /\ Reports \cap Opens = {}
  /\ LinkLife \in Int /\ DeleteAttempts \in Int

LinkTypes ==
  /\ row \in LinkRowType \cup {None}
  /\ jobs \in [Reports -> FileJobType \cup {None}]
  /\ upload \in [Workers -> UploadType]
  /\ deletion \in [Links!Deleters -> DeletionType]
  /\ files \subseteq drawn /\ drawn \subseteq Reports
  /\ now \in Int

-----------------------------------------------------------------------------
(* What ties the three stores together.                                    *)

Deleting(d, f) == deletion[d].pc # "idle" /\ deletion[d].file = f

\* Nothing knows of the file but the upload that brought it.
Fresh(f) ==
  /\ f \in files /\ ~Links!LinksTo(f) /\ jobs[f] = None
  /\ \A d \in Links!Deleters : ~Deleting(d, f)

\* The row's file has been drawn, and the job that deletes it comes when the link expires.
RowFits ==
  /\ row # None => row.file \in drawn
  /\ \A f \in Reports : jobs[f] # None => f \in drawn /\ (Links!LinksTo(f) => jobs[f].due = row.expires)

\* A file is deleted that no link has, or one that has expired; a job's run has its job.
DeletionFits(d) ==
  deletion[d].pc # "idle" =>
    /\ deletion[d].file \in drawn
    /\ Links!LinksTo(deletion[d].file) => now >= row.expires
    /\ deletion[d].pc = "deleting" => deletion[d].file \notin files
    /\ d \in Reports => jobs[d] # None

BeforeRow == {"saving", "inserting"}
AfterRow == {"removing", "replacing"}

UploadFits(r) ==
  /\ r.pc # "idle" => r.file \in drawn
  /\ r.pc \in BeforeRow => r.old = None /\ Fresh(r.file)
  /\ r.pc \in AfterRow => r.old = None \/ (r.old \in drawn /\ ~Links!LinksTo(r.old))
  /\ r.pc \in AfterRow \cup {"scheduling"} /\ Links!LinksTo(r.file) => row.expires = r.expires
  /\ r.pc = "undoing" => r.file \in failed \/ ~Links!LinksTo(r.file)

\* Two uploads under way have different files, and none replaces what another one brings.
Apart(r, s) ==
  /\ r.pc # "idle" /\ s.pc # "idle" => r.file # s.file
  /\ r.pc \in BeforeRow /\ s.pc \in AfterRow => s.old # r.file

\* The upload r will link to f or delete it.
Owes(r, f) ==
  \/ r.pc \in BeforeRow \cup {"undoing"} /\ r.file = f
  \/ r.pc \in AfterRow /\ r.old = f

Kept == \A f \in files : Links!LinksTo(f) \/ f \in failed \/ \E q \in Workers : Owes(upload[q], f)

SharingInv ==
  /\ LinkTypes /\ RowFits /\ Links!LinkWorks /\ Kept
  /\ \A d \in Links!Deleters : DeletionFits(d)
  /\ \A q \in Workers : UploadFits(upload[q])
  /\ \A q, w \in Workers : q # w => Apart(upload[q], upload[w])

LEMMA SharingInit == LinkAssumption /\ Links!Init => SharingInv
<1> SUFFICES ASSUME LinkAssumption, Links!Init PROVE SharingInv
  OBVIOUS
<1>1. LinkTypes
  BY DEF LinkAssumption, Links!Init, LinkTypes, FileJobType, UploadType, DeletionType, Links!Idle,
     Links!NotDeleting, FileOrNone
<1>2. RowFits /\ Links!LinkWorks /\ Kept
  BY DEF Links!Init, RowFits, Links!LinkWorks, Kept
<1>3. \A d \in Links!Deleters : DeletionFits(d)
  BY DEF Links!Init, DeletionFits, Links!NotDeleting
<1>4. UploadFits(Links!Idle) /\ Apart(Links!Idle, Links!Idle)
  BY DEF UploadFits, Apart, Links!Idle, BeforeRow, AfterRow
<1>5. \A q \in Workers : upload[q] = Links!Idle
  BY DEF Links!Init
<1> QED
  BY <1>1, <1>2, <1>3, <1>4, <1>5 DEF SharingInv

-----------------------------------------------------------------------------
(* The requests that create a link.                                        *)

OtherUploads(q) == \A w \in Workers : w # q => upload'[w] = upload[w]
SameUpload(q) == upload'[q].file = upload[q].file /\ upload'[q].expires = upload[q].expires

LEMMA GotoFacts ==
  ASSUME LinkTypes, NEW q \in Workers, NEW pc \in {"inserting", "removing", "replacing", "scheduling",
     "noting", "undoing"},
         Links!Goto(q, pc)
  PROVE  /\ upload' \in [Workers -> UploadType]
         /\ OtherUploads(q) /\ SameUpload(q) /\ upload'[q].pc = pc /\ upload'[q].old = upload[q].old
BY DEF LinkTypes, Links!Goto, UploadType, OtherUploads, SameUpload

LEMMA FinishFacts ==
  ASSUME LinkTypes, NEW q \in Workers, Links!Finish(q), None \notin Reports
  PROVE  upload' \in [Workers -> UploadType] /\ OtherUploads(q) /\ upload'[q] = Links!Idle
<1>1. Links!Idle \in UploadType
  BY DEF Links!Idle, UploadType, FileOrNone
<1> QED
  BY <1>1 DEF LinkTypes, Links!Finish, OtherUploads

LEMMA IdleFits == UploadFits(Links!Idle) /\ \A r : Apart(Links!Idle, r) /\ Apart(r, Links!Idle)
BY DEF UploadFits, Apart, Links!Idle, BeforeRow, AfterRow

\* The row stays: an upload moves on, and at most loses a job, or deletes a file that
\* no working link leads to.
LEMMA Turn ==
  ASSUME SharingInv, NEW q \in Workers, OtherUploads(q), UNCHANGED <<row, deletion, drawn, now>>,
         failed \subseteq failed', files' \subseteq files,
         \A f \in files : f \notin files' => ~Links!LinksTo(f) \/ f \in failed',
         \A w \in Workers : w # q /\ upload[w].pc \in BeforeRow => upload[w].file \in files',
         jobs' \in [Reports -> FileJobType \cup {None}], \A f \in Reports : jobs'[f] \in {jobs[f], None},
         \A f \in Reports : deletion[f].pc # "idle" => jobs'[f] = jobs[f],
         upload' \in [Workers -> UploadType], UploadFits(upload[q])',
         \A w \in Workers : w # q => Apart(upload'[q], upload[w]) /\ Apart(upload[w], upload'[q]),
         \A f \in files' : Owes(upload[q], f) => Links!LinksTo(f) \/ f \in failed' \/ Owes(upload'[q], f)
  PROVE  SharingInv'
<1>1. LinkTypes'
  BY DEF SharingInv, LinkTypes
<1>2. RowFits'
  BY DEF SharingInv, RowFits, Links!LinksTo
<1>3. Links!LinkWorks' /\ \A d \in Links!Deleters : DeletionFits(d)'
  BY DEF SharingInv, Links!LinkWorks, DeletionFits, Links!LinksTo
<1>4. ASSUME NEW w \in Workers, w # q PROVE UploadFits(upload[w])'
  <2>1. UploadFits(upload[w]) /\ upload'[w] = upload[w]
    BY <1>4 DEF SharingInv, OtherUploads
  <2>2. upload[w].pc \in BeforeRow => Fresh(upload[w].file)'
    <3>1. SUFFICES ASSUME upload[w].pc \in BeforeRow PROVE Fresh(upload[w].file)'
      OBVIOUS
    <3>2. Fresh(upload[w].file) /\ upload[w].file \in Reports
      BY <2>1, <3>1 DEF UploadFits, Fresh, SharingInv, LinkTypes
    <3> QED
      BY <1>4, <2>1, <3>1, <3>2 DEF Fresh, Links!LinksTo, Deleting
  <2> QED
    BY <2>1, <2>2 DEF UploadFits, Links!LinksTo
<1>5. Kept'
  BY DEF SharingInv, Kept, Links!LinksTo, OtherUploads
<1>6. \A w, x \in Workers : w # x => Apart(upload[w], upload[x])'
  BY DEF SharingInv, OtherUploads, Apart
<1> QED
  BY <1>1, <1>2, <1>3, <1>4, <1>5, <1>6 DEF SharingInv

\* What an upload that keeps its file, or ends, means to the others.
LEMMA StillApart ==
  ASSUME SharingInv, NEW q \in Workers, NEW w \in Workers, w # q,
         \/ upload'[q] = Links!Idle
         \/ /\ upload[q].pc # "idle" /\ SameUpload(q)
            /\ upload'[q].pc \in BeforeRow => upload[q].pc \in BeforeRow
            /\ upload'[q].pc \in AfterRow => upload[q].pc \in AfterRow /\ upload'[q].old = upload[q].old
  PROVE  Apart(upload'[q], upload[w]) /\ Apart(upload[w], upload'[q])
BY IdleFits DEF SharingInv, Apart, SameUpload

LEMMA FindNoRowStep == ASSUME SharingInv, NEW q \in Workers, Links!FindNoRow(q) PROVE SharingInv'
<1>1. /\ upload' \in [Workers -> UploadType]
      /\ OtherUploads(q) /\ SameUpload(q) /\ upload'[q].pc = "inserting" /\ upload[q].pc = "saving"
      /\ upload'[q].old = upload[q].old
  BY GotoFacts DEF Links!FindNoRow, SharingInv, Links!At
<1>2. UNCHANGED <<row, files, jobs, deletion, drawn, now, failed>>
  BY DEF Links!FindNoRow
<1>3. UploadFits(upload[q])'
  BY <1>1, <1>2 DEF SharingInv, UploadFits, Fresh, Links!LinksTo, Deleting, BeforeRow, AfterRow, SameUpload
<1>4. \A w \in Workers : w # q => Apart(upload'[q], upload[w]) /\ Apart(upload[w], upload'[q])
  BY <1>1, StillApart DEF BeforeRow, AfterRow
<1>5. \A f \in files : Owes(upload[q], f) => Owes(upload'[q], f)
  BY <1>1 DEF Owes, BeforeRow, AfterRow, SameUpload
<1>6. \A w \in Workers : upload[w].pc \in BeforeRow => upload[w].file \in files
  BY DEF SharingInv, UploadFits, Fresh
<1> QED
  BY <1>1, <1>2, <1>3, <1>4, <1>5, <1>6, Turn DEF SharingInv, LinkTypes

LEMMA InsertRefusedStep == ASSUME SharingInv, NEW q \in Workers, Links!InsertRefused(q) PROVE SharingInv'
<1>1. /\ upload' \in [Workers -> UploadType]
      /\ OtherUploads(q) /\ SameUpload(q) /\ upload'[q].pc = "undoing" /\ upload[q].pc = "inserting"
  BY GotoFacts DEF Links!InsertRefused, SharingInv, Links!At
<1>2. UNCHANGED <<row, files, jobs, deletion, drawn, now, failed>>
  BY DEF Links!InsertRefused
<1>3. UploadFits(upload[q])'
  BY <1>1, <1>2 DEF SharingInv, UploadFits, Fresh, Links!LinksTo, BeforeRow, AfterRow, SameUpload
<1>4. \A w \in Workers : w # q => Apart(upload'[q], upload[w]) /\ Apart(upload[w], upload'[q])
  BY <1>1, StillApart DEF BeforeRow, AfterRow
<1>5. \A f \in files : Owes(upload[q], f) => Owes(upload'[q], f)
  BY <1>1 DEF Owes, BeforeRow, AfterRow, SameUpload
<1>6. \A w \in Workers : upload[w].pc \in BeforeRow => upload[w].file \in files
  BY DEF SharingInv, UploadFits, Fresh
<1> QED
  BY <1>1, <1>2, <1>3, <1>4, <1>5, <1>6, Turn DEF SharingInv, LinkTypes

LEMMA RemoveOldJobStep == ASSUME SharingInv, NEW q \in Workers, Links!RemoveOldJob(q) PROVE SharingInv'
<1>1. /\ upload' \in [Workers -> UploadType]
      /\ OtherUploads(q) /\ SameUpload(q) /\ upload'[q].pc = "replacing" /\ upload[q].pc = "removing"
      /\ upload'[q].old = upload[q].old
  BY GotoFacts DEF Links!RemoveOldJob, SharingInv, Links!At
<1>2. UNCHANGED <<row, files, deletion, drawn, now, failed>>
  BY DEF Links!RemoveOldJob
<1>3. jobs' \in [Reports -> FileJobType \cup {None}] /\ \A f \in Reports : jobs'[f] \in {jobs[f], None}
  BY DEF Links!RemoveOldJob, SharingInv, LinkTypes
<1>8. \A f \in Reports : deletion[f].pc # "idle" => jobs'[f] = jobs[f]
  BY DEF Links!RemoveOldJob, SharingInv, LinkTypes
<1>4. UploadFits(upload[q])'
  BY <1>1, <1>2 DEF SharingInv, UploadFits, Links!LinksTo, BeforeRow, AfterRow, SameUpload
<1>5. \A w \in Workers : w # q => Apart(upload'[q], upload[w]) /\ Apart(upload[w], upload'[q])
  BY <1>1, StillApart DEF BeforeRow, AfterRow
<1>6. \A f \in files : Owes(upload[q], f) => Owes(upload'[q], f)
  BY <1>1 DEF Owes, BeforeRow, AfterRow, SameUpload
<1>7. \A w \in Workers : upload[w].pc \in BeforeRow => upload[w].file \in files
  BY DEF SharingInv, UploadFits, Fresh
<1> QED
  BY <1>1, <1>2, <1>3, <1>4, <1>5, <1>6, <1>7, <1>8, Turn

LEMMA DeleteOldFileStep ==
  ASSUME LinkAssumption, SharingInv, NEW q \in Workers, Links!DeleteOldFile(q)
  PROVE  SharingInv'
<1>1. /\ upload' \in [Workers -> UploadType]
      /\ OtherUploads(q) /\ SameUpload(q) /\ upload'[q].pc = "scheduling" /\ upload[q].pc = "replacing"
  BY GotoFacts DEF Links!DeleteOldFile, SharingInv, Links!At
<1>2. UNCHANGED <<row, jobs, deletion, drawn, now, failed>> /\ files' = files \ {upload[q].old}
  BY DEF Links!DeleteOldFile, Links!ReplacedFile
<1>3. UploadFits(upload[q])'
  BY <1>1, <1>2 DEF SharingInv, UploadFits, Links!LinksTo, BeforeRow, AfterRow, SameUpload
<1>4. \A w \in Workers : w # q => Apart(upload'[q], upload[w]) /\ Apart(upload[w], upload'[q])
  BY <1>1, StillApart DEF BeforeRow, AfterRow
<1>5. \A f \in files' : ~Owes(upload[q], f)
  BY <1>1, <1>2 DEF Owes, BeforeRow, AfterRow
<1>6. \A w \in Workers : w # q /\ upload[w].pc \in BeforeRow => upload[w].file \in files'
  BY <1>1, <1>2 DEF SharingInv, UploadFits, Fresh, Apart, AfterRow
<1>7. \A f \in files : f \notin files' => ~Links!LinksTo(f)
  BY <1>1, <1>2 DEF SharingInv, LinkTypes, UploadFits, AfterRow, LinkAssumption
<1> QED
  BY <1>1, <1>2, <1>3, <1>4, <1>5, <1>6, <1>7, Turn DEF SharingInv, LinkTypes

LEMMA UndoStep == ASSUME LinkAssumption, SharingInv, NEW q \in Workers, Links!Undo(q) PROVE SharingInv'
<1>1. /\ upload' \in [Workers -> UploadType]
      /\ OtherUploads(q) /\ upload'[q] = Links!Idle /\ upload[q].pc = "undoing"
  BY FinishFacts DEF Links!Undo, SharingInv, Links!At, LinkAssumption
<1>2. UNCHANGED <<row, jobs, deletion, drawn, now, failed>> /\ files' = files \ {upload[q].file}
  BY DEF Links!Undo
<1>3. UploadFits(upload[q])'
  BY <1>1 DEF UploadFits, Links!Idle, BeforeRow, AfterRow
<1>4. \A w \in Workers : w # q => Apart(upload'[q], upload[w]) /\ Apart(upload[w], upload'[q])
  BY <1>1, StillApart
<1>5. \A f \in files' : ~Owes(upload[q], f)
  BY <1>1, <1>2 DEF Owes, BeforeRow, AfterRow
<1>6. \A w \in Workers : w # q /\ upload[w].pc \in BeforeRow => upload[w].file \in files'
  BY <1>1, <1>2 DEF SharingInv, UploadFits, Fresh, Apart, BeforeRow
<1>7. \A f \in files : f \notin files' => ~Links!LinksTo(f) \/ f \in failed
  BY <1>1, <1>2 DEF SharingInv, UploadFits
<1> QED
  BY <1>1, <1>2, <1>3, <1>4, <1>5, <1>6, <1>7, Turn DEF SharingInv, LinkTypes

LEMMA UploadFailsStep ==
  ASSUME LinkAssumption, SharingInv, NEW q \in Workers, Links!UploadFails(q)
  PROVE  SharingInv'
<1>1. /\ UNCHANGED <<row, files, jobs, deletion, drawn, now>>
      /\ failed' = failed \cup {upload[q].file, upload[q].old}
  BY DEF Links!UploadFails
<1>2. upload' \in [Workers -> UploadType] /\ OtherUploads(q)
  BY GotoFacts, FinishFacts DEF Links!UploadFails, SharingInv, LinkAssumption
<1>3. \/ upload'[q] = Links!Idle
      \/ upload[q].pc # "idle" /\ SameUpload(q) /\ upload'[q].pc = "undoing"
      \/ upload[q].pc = "replacing" /\ SameUpload(q) /\ upload'[q].pc = "scheduling"
  BY GotoFacts, FinishFacts DEF Links!UploadFails, SharingInv, LinkAssumption, Links!At
<1>4. UploadFits(upload[q])'
  <2>1. UploadFits(upload[q])
    BY DEF SharingInv
  <2> QED
    BY <1>1, <1>3, <2>1 DEF UploadFits, Links!LinksTo, Links!Idle, BeforeRow, AfterRow, SameUpload
<1>5. \A w \in Workers : w # q => Apart(upload'[q], upload[w]) /\ Apart(upload[w], upload'[q])
  BY <1>3, StillApart DEF BeforeRow, AfterRow
<1>6. \A f \in files : Owes(upload[q], f) => f \in failed'
  BY <1>1 DEF Owes
<1>7. \A w \in Workers : upload[w].pc \in BeforeRow => upload[w].file \in files
  BY DEF SharingInv, UploadFits, Fresh
<1> QED
  BY <1>1, <1>2, <1>4, <1>5, <1>6, <1>7, Turn DEF SharingInv, LinkTypes

\* A name nobody has used: not the row's, no job's, no deletion's, no upload's.
LEMMA UploadFileStep ==
  ASSUME LinkAssumption, SharingInv, NEW q \in Workers, NEW f \in Reports, Links!UploadFile(q, f)
  PROVE  SharingInv'
<1> DEFINE r == [Links!Idle EXCEPT !.pc = "saving", !.file = f, !.expires = now + LinkLife]
<1>0. now + LinkLife \in Int
  BY DEF LinkAssumption, SharingInv, LinkTypes
<1>1. /\ r \in UploadType
      /\ r.pc = "saving" /\ r.file = f /\ r.old = None
  BY <1>0 DEF Links!Idle, UploadType, FileOrNone
<1> HIDE DEF r
<1>2. upload' = [upload EXCEPT ![q] = r] /\ upload[q].pc = "idle"
  BY DEF Links!UploadFile, Links!At, r
<1>3. upload' \in [Workers -> UploadType] /\ OtherUploads(q) /\ upload'[q] = r
  BY <1>1, <1>2 DEF SharingInv, LinkTypes, OtherUploads
<1>4. /\ UNCHANGED <<row, jobs, deletion, now, failed>>
      /\ f \notin drawn /\ drawn' = drawn \cup {f} /\ files' = files \cup {f}
  BY DEF Links!UploadFile
<1>5. LinkTypes'
  BY <1>3, <1>4 DEF SharingInv, LinkTypes
<1>6. RowFits' /\ Links!LinkWorks' /\ \A d \in Links!Deleters : DeletionFits(d)'
  BY <1>4 DEF SharingInv, LinkTypes, RowFits, Links!LinkWorks, DeletionFits, Links!LinksTo
<1>7. Kept'
  <2>1. Owes(upload'[q], f)
    BY <1>1, <1>3 DEF Owes, BeforeRow
  <2>2. ~ \E x \in files : Owes(upload[q], x)
    BY <1>2 DEF Owes, BeforeRow, AfterRow
  <2> QED
    BY <1>3, <1>4, <2>1, <2>2 DEF SharingInv, Kept, Links!LinksTo, OtherUploads
<1>8. Fresh(f)'
  BY <1>4 DEF SharingInv, RowFits, DeletionFits, Fresh, Links!LinksTo, Deleting
<1>9. UploadFits(upload[q])'
  BY <1>0, <1>1, <1>3, <1>4, <1>8 DEF UploadFits, BeforeRow, AfterRow
<1>10. ASSUME NEW w \in Workers, w # q PROVE UploadFits(upload[w])'
  <2>1. UploadFits(upload[w]) /\ upload'[w] = upload[w]
    BY <1>3, <1>10 DEF SharingInv, OtherUploads
  <2> QED
    BY <1>4, <2>1 DEF UploadFits, Fresh, Links!LinksTo, Deleting
<1>11. ASSUME NEW w \in Workers, w # q PROVE Apart(upload'[q], upload[w]) /\ Apart(upload[w], upload'[q])
  <2>1. UploadFits(upload[w])
    BY DEF SharingInv
  <2>2. upload[w].pc # "idle" => upload[w].file # f
    BY <1>4, <2>1 DEF UploadFits
  <2>3. upload[w].pc \in AfterRow => upload[w].old # f
    BY <1>4, <2>1 DEF UploadFits, LinkAssumption
  <2> QED
    BY <1>1, <1>3, <2>2, <2>3 DEF Apart, BeforeRow, AfterRow
<1> QED
  BY <1>3, <1>5, <1>6, <1>7, <1>9, <1>10, <1>11 DEF SharingInv, OtherUploads, Apart
\* The row gets the file of upload q: nothing else knew of that file, and a file
\* it replaces is in q's hand.
LEMMA RowWritten ==
  ASSUME LinkAssumption, SharingInv, NEW q \in Workers, upload[q].pc \in BeforeRow,
         UNCHANGED <<files, jobs, deletion, drawn, now, failed>>,
         row' \in LinkRowType, row'.file = upload[q].file, row'.expires = upload[q].expires,
         upload' \in [Workers -> UploadType], OtherUploads(q), SameUpload(q), upload'[q].pc = "removing",
         upload'[q].old = IF row = None THEN None ELSE row.file
  PROVE  SharingInv'
<1>1. PICK f \in Reports : f = upload[q].file
  BY DEF SharingInv, LinkTypes, UploadFits, BeforeRow
<1>2. /\ Fresh(f) /\ f \in files /\ f \in drawn
      /\ \A g : Links!LinksTo(g)' <=> g = f
      /\ row'.expires = upload[q].expires
  BY <1>1 DEF SharingInv, UploadFits, BeforeRow, Fresh, Links!LinksTo, LinkAssumption
<1>3. LinkTypes'
  BY DEF SharingInv, LinkTypes
<1>4. RowFits' /\ Links!LinkWorks'
  BY <1>1, <1>2 DEF SharingInv, RowFits, Links!LinkWorks, Fresh, Links!LinksTo
<1>5. ASSUME NEW d \in Links!Deleters PROVE DeletionFits(d)'
  <2>1. DeletionFits(d) /\ ~Deleting(d, f)
    BY <1>2 DEF SharingInv, Fresh
  <2> QED
    BY <1>2, <2>1 DEF DeletionFits, Deleting
<1>6. UploadFits(upload[q])'
  <2>1. upload'[q].old = None \/ (upload'[q].old \in drawn /\ upload'[q].old # f)
    BY <1>2 DEF SharingInv, RowFits, Fresh, Links!LinksTo
  <2>2. upload'[q].old = None \/ (upload'[q].old \in drawn' /\ ~Links!LinksTo(upload[q].old)')
    BY <1>1, <2>1 DEF Links!LinksTo
  <2> QED
    BY <1>1, <1>2, <2>2 DEF UploadFits, SameUpload, BeforeRow, AfterRow
<1>7. ASSUME NEW w \in Workers, w # q PROVE UploadFits(upload[w])'
  <2>1. /\ UploadFits(upload[w]) /\ upload'[w] = upload[w]
        /\ Apart(upload[q], upload[w]) /\ Apart(upload[w], upload[q])
    BY <1>7 DEF SharingInv, OtherUploads
  <2>2. /\ upload[w].pc # "idle" => upload[w].file # f
        /\ upload[w].pc \in AfterRow => upload[w].old # f
    BY <1>1, <2>1 DEF Apart, BeforeRow
  <2> QED
    BY <1>2, <2>1, <2>2 DEF UploadFits, Fresh, Deleting, BeforeRow, AfterRow
<1>8. ASSUME NEW w \in Workers, w # q PROVE Apart(upload'[q], upload[w]) /\ Apart(upload[w], upload'[q])
  <2>1. Apart(upload[q], upload[w]) /\ Apart(upload[w], upload[q]) /\ UploadFits(upload[w])
    BY <1>8 DEF SharingInv
  <2>2. upload[w].pc \in BeforeRow => upload'[q].old # upload[w].file
    BY <2>1 DEF UploadFits, Fresh, Links!LinksTo, LinkAssumption, SharingInv, LinkTypes
  <2> QED
    BY <2>1, <2>2 DEF Apart, SameUpload, BeforeRow, AfterRow
<1>9. Kept'
  <2>1. ASSUME NEW g \in files, Links!LinksTo(g) PROVE Owes(upload'[q], g)
    BY <2>1 DEF Owes, Links!LinksTo, AfterRow
  <2>2. \A g \in files : Owes(upload[q], g) => g = f
    BY <1>1 DEF Owes, BeforeRow, AfterRow
  <2>3. \A w \in Workers, g \in files : w # q /\ Owes(upload[w], g) => Owes(upload'[w], g)
    BY DEF OtherUploads
  <2> QED
    BY <1>2, <2>1, <2>2, <2>3 DEF SharingInv, Kept
<1> QED
  BY <1>3, <1>4, <1>5, <1>6, <1>7, <1>8, <1>9 DEF SharingInv, OtherUploads, Apart

LEMMA ReplaceRowStep ==
  ASSUME LinkAssumption, SharingInv, NEW q \in Workers, Links!ReplaceRow(q)
  PROVE  SharingInv'
<1> DEFINE r == [upload[q] EXCEPT !.pc = "removing", !.old = row.file, !.oldJob = row.job]
<1>1. row \in LinkRowType /\ upload[q] \in UploadType /\ upload[q].file \in Reports /\ upload[q].pc = "saving"
  BY DEF Links!ReplaceRow, Links!At, SharingInv, LinkTypes, UploadFits, BeforeRow
<1>2. /\ r \in UploadType /\ r.pc = "removing" /\ r.old = row.file
      /\ r.file = upload[q].file /\ r.expires = upload[q].expires
  BY <1>1 DEF UploadType, LinkRowType, FileOrNone
<1> HIDE DEF r
<1>3. upload' = [upload EXCEPT ![q] = r] /\ row # None
  BY DEF Links!ReplaceRow, r
<1>4. /\ upload' \in [Workers -> UploadType] /\ OtherUploads(q) /\ SameUpload(q)
      /\ upload'[q].pc = "removing" /\ upload'[q].old = row.file
  BY <1>2, <1>3 DEF SharingInv, LinkTypes, OtherUploads, SameUpload
<1>5. row' \in LinkRowType /\ row'.file = upload[q].file /\ row'.expires = upload[q].expires
  BY <1>1 DEF Links!ReplaceRow, Links!LinkOf, LinkRowType, UploadType
<1>6. UNCHANGED <<files, jobs, deletion, drawn, now, failed>> /\ upload[q].pc \in BeforeRow
  BY <1>1 DEF Links!ReplaceRow, BeforeRow
<1> QED
  BY <1>3, <1>4, <1>5, <1>6, RowWritten

LEMMA InsertRowStep ==
  ASSUME LinkAssumption, SharingInv, NEW q \in Workers, Links!InsertRow(q)
  PROVE  SharingInv'
<1>1. upload[q] \in UploadType /\ upload[q].file \in Reports /\ upload[q].pc = "inserting"
  BY DEF Links!InsertRow, Links!At, SharingInv, LinkTypes, UploadFits, BeforeRow
<1>2. /\ upload' \in [Workers -> UploadType] /\ OtherUploads(q) /\ SameUpload(q)
      /\ upload'[q].pc = "removing" /\ upload'[q].old = upload[q].old
  BY GotoFacts DEF Links!InsertRow, SharingInv
<1>3. row' \in LinkRowType /\ row'.file = upload[q].file /\ row'.expires = upload[q].expires
  BY <1>1 DEF Links!InsertRow, Links!LinkOf, LinkRowType, UploadType, FileOrNone
<1>4. UNCHANGED <<files, jobs, deletion, drawn, now, failed>> /\ upload[q].pc \in BeforeRow /\ row = None
  BY <1>1 DEF Links!InsertRow, BeforeRow
<1>5. upload[q].old = None
  BY <1>4 DEF SharingInv, UploadFits
<1> QED
  BY <1>2, <1>3, <1>4, <1>5, RowWritten

\* The new file gets its job: the row, if it has that file, expires when the job comes.
LEMMA ScheduleStep ==
  ASSUME LinkAssumption, SharingInv, NEW q \in Workers, Links!ScheduleDeletion(q)
  PROVE  SharingInv'
<1> DEFINE j == [due |-> upload[q].expires, left |-> DeleteAttempts]
<1>1. upload[q] \in UploadType /\ upload[q].pc = "scheduling" /\ UploadFits(upload[q])
  BY DEF Links!ScheduleDeletion, Links!At, SharingInv, LinkTypes
<1>2. PICK f \in Reports : f = upload[q].file /\ f \in drawn
  BY <1>1 DEF UploadFits, SharingInv, LinkTypes
<1>3. j \in FileJobType /\ j.due = upload[q].expires
  BY <1>1 DEF FileJobType, UploadType, LinkAssumption
<1> HIDE DEF j
<1>4. /\ UNCHANGED <<row, files, deletion, drawn, now, failed>>
      /\ jobs' = [jobs EXCEPT ![f] = j]
  BY <1>2 DEF Links!ScheduleDeletion, j
<1>5. /\ jobs' \in [Reports -> FileJobType \cup {None}]
      /\ jobs'[f] = j /\ \A g \in Reports : g # f => jobs'[g] = jobs[g]
  BY <1>3, <1>4 DEF SharingInv, LinkTypes
<1>6. /\ upload' \in [Workers -> UploadType] /\ OtherUploads(q)
      /\ upload'[q] = Links!Idle \/ (SameUpload(q) /\ upload'[q].pc = "noting")
  BY GotoFacts, FinishFacts DEF Links!ScheduleDeletion, SharingInv, LinkAssumption
<1>7. LinkTypes' /\ Links!LinkWorks' /\ \A d \in Links!Deleters : DeletionFits(d)'
  BY <1>3, <1>4, <1>5, <1>6 DEF SharingInv, LinkTypes, Links!LinkWorks, DeletionFits, Links!LinksTo,
     LinkAssumption
<1>8. RowFits'
  <2>1. Links!LinksTo(f) => row.expires = upload[q].expires
    BY <1>1, <1>2 DEF UploadFits
  <2> QED
    BY <1>2, <1>3, <1>4, <1>5, <2>1 DEF SharingInv, RowFits, Links!LinksTo
<1>9. UploadFits(upload[q])'
  BY <1>1, <1>4, <1>6 DEF UploadFits, Links!Idle, BeforeRow, AfterRow, SameUpload
<1>10. ASSUME NEW w \in Workers, w # q PROVE UploadFits(upload[w])'
  <2>1. UploadFits(upload[w]) /\ upload'[w] = upload[w]
    BY <1>6, <1>10 DEF SharingInv, OtherUploads
  <2>2. upload[w].pc \in BeforeRow => upload[w].file # f /\ upload[w].file \in Reports
    BY <1>1, <1>2, <1>10, <2>1 DEF SharingInv, Apart, BeforeRow, UploadFits, LinkTypes
  <2> QED
    BY <1>4, <1>5, <2>1, <2>2 DEF UploadFits, Fresh, Links!LinksTo, Deleting
<1>11. \A w \in Workers : w # q => Apart(upload'[q], upload[w]) /\ Apart(upload[w], upload'[q])
  BY <1>1, <1>6, StillApart DEF BeforeRow, AfterRow
<1>12. Kept'
  <2>1. \A g \in files : ~Owes(upload[q], g)
    BY <1>1 DEF Owes, BeforeRow, AfterRow
  <2> QED
    BY <1>4, <1>6, <2>1 DEF SharingInv, Kept, Links!LinksTo, OtherUploads
<1> QED
  BY <1>6, <1>7, <1>8, <1>9, <1>10, <1>11, <1>12 DEF SharingInv, OtherUploads, Apart

\* The row is told the name of its job.
LEMMA NoteJobStep == ASSUME LinkAssumption, SharingInv, NEW q \in Workers, Links!NoteJob(q) PROVE SharingInv'
<1>1. upload[q].pc = "noting" /\ upload[q].file \in Reports
  BY DEF Links!NoteJob, Links!At, SharingInv, LinkTypes, UploadFits
<1>2. UNCHANGED <<files, jobs, deletion, drawn, now, failed>>
  BY DEF Links!NoteJob
<1>3. upload' \in [Workers -> UploadType] /\ OtherUploads(q) /\ upload'[q] = Links!Idle
  BY FinishFacts DEF Links!NoteJob, SharingInv, LinkAssumption
<1>4. /\ row' \in LinkRowType \cup {None}
      /\ row' # None <=> row # None
      /\ row # None => row'.file = row.file /\ row'.expires = row.expires
  BY <1>1 DEF Links!NoteJob, Links!LinksTo, SharingInv, LinkTypes, LinkRowType, LinkAssumption, FileOrNone
<1>5. \A f : Links!LinksTo(f)' <=> Links!LinksTo(f)
  BY <1>4 DEF Links!LinksTo
<1>6. LinkTypes' /\ RowFits' /\ Links!LinkWorks'
  BY <1>2, <1>3, <1>4, <1>5 DEF SharingInv, LinkTypes, RowFits, Links!LinkWorks, Links!LinksTo
<1>7. \A d \in Links!Deleters : DeletionFits(d)'
  BY <1>2, <1>4, <1>5 DEF SharingInv, DeletionFits, Links!LinksTo
<1>8. UploadFits(upload[q])'
  BY <1>3 DEF UploadFits, Links!Idle, BeforeRow, AfterRow
<1>9. ASSUME NEW w \in Workers, w # q PROVE UploadFits(upload[w])'
  <2>1. UploadFits(upload[w]) /\ upload'[w] = upload[w]
    BY <1>3, <1>9 DEF SharingInv, OtherUploads
  <2> QED
    BY <1>2, <1>4, <2>1 DEF UploadFits, Fresh, Links!LinksTo, Deleting
<1>10. \A w \in Workers : w # q => Apart(upload'[q], upload[w]) /\ Apart(upload[w], upload'[q])
  BY <1>3, StillApart
<1>11. Kept'
  <2>1. \A g \in files : ~Owes(upload[q], g)
    BY <1>1 DEF Owes, BeforeRow, AfterRow
  <2> QED
    BY <1>2, <1>3, <1>5, <2>1 DEF SharingInv, Kept, OtherUploads
<1> QED
  BY <1>3, <1>6, <1>7, <1>8, <1>9, <1>10, <1>11 DEF SharingInv, OtherUploads, Apart

-----------------------------------------------------------------------------
(* deleteRemoteReport, deleteReports and the clock.                        *)

OtherDeletions(d) == \A x \in Links!Deleters : x # d => deletion'[x] = deletion[x]

\* The row stays: a deletion goes on, or takes up a file that a link has; a file whose
\* link has expired may be deleted, and jobs keep their moment.
LEMMA Deletion ==
  ASSUME SharingInv, NEW d \in Links!Deleters, OtherDeletions(d), UNCHANGED <<row, upload, drawn, now,
     failed>>,
         deletion' \in [Links!Deleters -> DeletionType], DeletionFits(d)',
         \A f : Deleting(d, f)' => Deleting(d, f) \/ Links!LinksTo(f),
         jobs' \in [Reports -> FileJobType \cup {None}],
         \A f \in Reports : jobs'[f] = None \/ (jobs[f] # None /\ jobs'[f].due = jobs[f].due),
         \A f \in Reports : f # d => jobs'[f] = jobs[f],
         files' \subseteq files, \A f \in files : f \notin files' => Deleting(d, f)
  PROVE  SharingInv'
<1>1. LinkTypes'
  BY DEF SharingInv, LinkTypes
<1>2. RowFits'
  BY DEF SharingInv, RowFits, Links!LinksTo
<1>3. Links!LinkWorks'
  BY DEF SharingInv, Links!LinkWorks, DeletionFits, Deleting, Links!LinksTo
<1>4. \A x \in Links!Deleters : DeletionFits(x)'
  BY DEF SharingInv, DeletionFits, OtherDeletions, Links!LinksTo
<1>5. ASSUME NEW q \in Workers PROVE UploadFits(upload[q])'
  <2>1. UploadFits(upload[q])
    BY DEF SharingInv
  <2>2. ASSUME NEW f \in Reports, Fresh(f) PROVE Fresh(f)'
    BY <2>2 DEF Fresh, Links!LinksTo, OtherDeletions, Deleting
  <2>3. \A f : Fresh(f) => f \in Reports
    BY DEF Fresh, SharingInv, LinkTypes
  <2> QED
    BY <2>1, <2>2, <2>3 DEF UploadFits, Links!LinksTo
<1>6. Kept'
  BY DEF SharingInv, Kept, Links!LinksTo
<1> QED
  BY <1>1, <1>2, <1>3, <1>4, <1>5, <1>6 DEF SharingInv

\* An attempt less, or the last.
LEMMA RetriedFacts ==
  ASSUME LinkAssumption, SharingInv, NEW f \in Reports, jobs[f] # None, jobs' = Links!Retried(f)
  PROVE  /\ jobs' \in [Reports -> FileJobType \cup {None}]
         /\ \A g \in Reports : jobs'[g] = None \/ (jobs[g] # None /\ jobs'[g].due = jobs[g].due)
         /\ \A g \in Reports : g # f => jobs'[g] = jobs[g]
<1> DEFINE j == [jobs[f] EXCEPT !.left = @ - 1]
<1>1. jobs[f] \in FileJobType
  BY DEF SharingInv, LinkTypes
<1>2. j \in FileJobType /\ j.due = jobs[f].due
  BY <1>1 DEF FileJobType
<1> HIDE DEF j
<1>3. jobs' = [jobs EXCEPT ![f] = None] \/ jobs' = [jobs EXCEPT ![f] = j]
  BY DEF Links!Retried, j
<1> QED
  BY <1>2, <1>3 DEF SharingInv, LinkTypes

LEMMA BeginDeletion ==
  ASSUME LinkAssumption, SharingInv, NEW d \in Links!Deleters, NEW f \in Reports,
     NEW pc \in {"checking", "destroying"},
         Links!LinksTo(f), now >= row.expires, d \in Reports => jobs[d] # None,
         deletion' = [deletion EXCEPT ![d] = [pc |-> pc, file |-> f]],
         UNCHANGED <<row, files, jobs, upload, drawn, now, failed>>
  PROVE  SharingInv'
<1> DEFINE r == [pc |-> pc, file |-> f]
<1>1. r \in DeletionType /\ r.pc = pc /\ r.file = f
  BY DEF DeletionType, FileOrNone
<1> HIDE DEF r
<1>2. deletion' = [deletion EXCEPT ![d] = r]
  BY DEF r
<1>3. deletion' \in [Links!Deleters -> DeletionType] /\ OtherDeletions(d) /\ deletion'[d] = r
  BY <1>1, <1>2 DEF SharingInv, LinkTypes, OtherDeletions
<1>4. DeletionFits(d)' /\ \A g : Deleting(d, g)' => Links!LinksTo(g)
  BY <1>1, <1>3 DEF DeletionFits, Deleting, Links!LinksTo, SharingInv, RowFits
<1> QED
  BY <1>3, <1>4, Deletion DEF SharingInv, LinkTypes

LEMMA RefuseJobStep ==
  ASSUME LinkAssumption, SharingInv, NEW f \in Reports, Links!RefuseJob(f)
  PROVE  SharingInv'
<1>1. UNCHANGED <<row, files, upload, deletion, drawn, now, failed>> /\ f \in Links!Deleters
  BY DEF Links!RefuseJob, Links!Deleters
<1>2. /\ jobs' \in [Reports -> FileJobType \cup {None}]
      /\ \A g \in Reports : jobs'[g] = None \/ (jobs[g] # None /\ jobs'[g].due = jobs[g].due)
      /\ \A g \in Reports : g # f => jobs'[g] = jobs[g]
  BY RetriedFacts DEF Links!RefuseJob, Links!Due
<1>3. DeletionFits(f)' /\ \A g : Deleting(f, g)' => Deleting(f, g)
  BY <1>1 DEF Links!RefuseJob, DeletionFits, Deleting
<1> QED
  BY <1>1, <1>2, <1>3, Deletion DEF OtherDeletions, SharingInv, LinkTypes

LEMMA CheckOpenedStep ==
  ASSUME LinkAssumption, SharingInv, NEW v \in Links!Deleters, Links!CheckOpened(v)
  PROVE  SharingInv'
<1>1. UNCHANGED <<row, files, jobs, upload, drawn, now, failed>>
  BY DEF Links!CheckOpened
<1>2. deletion[v] \in DeletionType /\ deletion[v].pc = "checking" /\ Links!NotDeleting \in DeletionType
  BY DEF Links!CheckOpened, SharingInv, LinkTypes, DeletionType, Links!NotDeleting, FileOrNone
<1>3. /\ deletion' \in [Links!Deleters -> DeletionType] /\ OtherDeletions(v)
      /\ \/ deletion'[v].pc = "destroying" /\ deletion'[v].file = deletion[v].file
         \/ deletion'[v] = Links!NotDeleting
  <2>1. CASE Links!LinksTo(deletion[v].file)
    BY <1>2, <2>1 DEF Links!CheckOpened, SharingInv, LinkTypes, OtherDeletions, DeletionType
  <2>2. CASE ~Links!LinksTo(deletion[v].file)
    BY <1>2, <2>2 DEF Links!CheckOpened, SharingInv, LinkTypes, OtherDeletions
  <2> QED
    BY <2>1, <2>2
<1>4. DeletionFits(v)' /\ \A f : Deleting(v, f)' => Deleting(v, f)
  BY <1>1, <1>2, <1>3 DEF SharingInv, DeletionFits, Deleting, Links!LinksTo, Links!NotDeleting
<1> QED
  BY <1>1, <1>3, <1>4, Deletion DEF SharingInv, LinkTypes

LEMMA DestroyFileStep ==
  ASSUME LinkAssumption, SharingInv, NEW d \in Links!Deleters, Links!DestroyFile(d)
  PROVE  SharingInv'
<1>1. UNCHANGED <<row, jobs, upload, drawn, now, failed>> /\ files' = files \ {deletion[d].file}
  BY DEF Links!DestroyFile
<1>2. /\ deletion[d].pc = "destroying"
      /\ deletion' \in [Links!Deleters -> DeletionType] /\ OtherDeletions(d)
      /\ deletion'[d].pc = "deleting" /\ deletion'[d].file = deletion[d].file
  BY DEF Links!DestroyFile, SharingInv, LinkTypes, DeletionType, OtherDeletions
<1>3. DeletionFits(d)' /\ \A f : Deleting(d, f)' => Deleting(d, f)
  BY <1>1, <1>2 DEF SharingInv, DeletionFits, Deleting, Links!LinksTo
<1>4. \A f \in files : f \notin files' => Deleting(d, f)
  BY <1>1, <1>2 DEF Deleting
<1> QED
  BY <1>1, <1>2, <1>3, <1>4, Deletion DEF SharingInv, LinkTypes

LEMMA DeletionEnds ==
  ASSUME LinkAssumption, SharingInv, NEW d \in Links!Deleters,
     deletion' = [deletion EXCEPT ![d] = Links!NotDeleting]
  PROVE  /\ deletion' \in [Links!Deleters -> DeletionType]
         /\ OtherDeletions(d) /\ deletion'[d] = Links!NotDeleting
         /\ DeletionFits(d)' /\ \A f : ~Deleting(d, f)'
<1>1. Links!NotDeleting \in DeletionType /\ Links!NotDeleting.pc = "idle"
  BY DEF Links!NotDeleting, DeletionType, FileOrNone
<1>2. deletion' \in [Links!Deleters -> DeletionType] /\ OtherDeletions(d) /\ deletion'[d] = Links!NotDeleting
  BY <1>1 DEF SharingInv, LinkTypes, OtherDeletions
<1> QED
  BY <1>1, <1>2 DEF DeletionFits, Deleting

LEMMA DeletionFailsStep ==
  ASSUME LinkAssumption, SharingInv, NEW d \in Links!Deleters, Links!DeletionFails(d)
  PROVE  SharingInv'
<1>1. UNCHANGED <<row, files, upload, drawn, now, failed>>
  BY DEF Links!DeletionFails
<1>2. /\ deletion' \in [Links!Deleters -> DeletionType] /\ OtherDeletions(d)
      /\ DeletionFits(d)' /\ \A f : ~Deleting(d, f)'
  BY DeletionEnds DEF Links!DeletionFails
<1>3. /\ jobs' \in [Reports -> FileJobType \cup {None}]
      /\ \A f \in Reports : jobs'[f] = None \/ (jobs[f] # None /\ jobs'[f].due = jobs[f].due)
      /\ \A f \in Reports : f # d => jobs'[f] = jobs[f]
  <2>1. CASE d \notin Reports
    BY <2>1 DEF Links!DeletionFails, SharingInv, LinkTypes
  <2>2. CASE d \in Reports
    <3>1. jobs[d] # None
      BY <2>2 DEF Links!DeletionFails, SharingInv, DeletionFits
    <3> QED
      BY <2>2, <3>1, RetriedFacts DEF Links!DeletionFails
  <2> QED
    BY <2>1, <2>2
<1> QED
  BY <1>1, <1>2, <1>3, Deletion

\* The row goes only when it has the file that was deleted.
LEMMA DeleteRowStep ==
  ASSUME LinkAssumption, SharingInv, NEW d \in Links!Deleters, Links!DeleteRow(d)
  PROVE  SharingInv'
<1>1. /\ UNCHANGED <<files, upload, drawn, now, failed>>
      /\ deletion[d].pc = "deleting"
      /\ row' = IF Links!LinksTo(deletion[d].file) THEN None ELSE row
  BY DEF Links!DeleteRow, Links!IsRowOf
<1>2. /\ deletion' \in [Links!Deleters -> DeletionType]
      /\ OtherDeletions(d) /\ deletion'[d] = Links!NotDeleting
      /\ DeletionFits(d)' /\ \A f : ~Deleting(d, f)'
  BY DeletionEnds DEF Links!DeleteRow
<1>3. /\ jobs' \in [Reports -> FileJobType \cup {None}]
      /\ \A f \in Reports : jobs'[f] \in {jobs[f], None} /\ (f # d => jobs'[f] = jobs[f])
  BY DEF Links!DeleteRow, Links!EndOf, SharingInv, LinkTypes
<1>4. CASE UNCHANGED row
  BY <1>1, <1>2, <1>3, <1>4, Deletion
<1>5. CASE Links!LinksTo(deletion[d].file)
  <2>1. row' = None /\ (\A f : ~Links!LinksTo(f)') /\ deletion[d].file \notin files
    BY <1>1, <1>5 DEF Links!LinksTo, SharingInv, DeletionFits
  <2>2. LinkTypes' /\ RowFits' /\ Links!LinkWorks'
    BY <1>1, <1>2, <1>3, <2>1 DEF SharingInv, LinkTypes, RowFits, Links!LinkWorks
  <2>3. \A x \in Links!Deleters : DeletionFits(x)'
    BY <1>1, <1>2, <1>3, <2>1 DEF SharingInv, DeletionFits, OtherDeletions
  <2>4. ASSUME NEW q \in Workers PROVE UploadFits(upload[q])'
    <3>1. UploadFits(upload[q])
      BY DEF SharingInv
    <3>2. ASSUME NEW f \in Reports, Fresh(f) PROVE Fresh(f)'
      BY <1>1, <1>2, <1>3, <2>1, <3>2 DEF Fresh, OtherDeletions, Deleting
    <3>3. \A f : Fresh(f) => f \in Reports
      BY DEF Fresh, SharingInv, LinkTypes
    <3> QED
      BY <1>1, <2>1, <3>1, <3>2, <3>3 DEF UploadFits
  <2>5. Kept'
    <3>1. \A f \in files : ~Links!LinksTo(f)
      BY <1>5, <2>1 DEF Links!LinksTo
    <3> QED
      BY <1>1, <3>1 DEF SharingInv, Kept
  <2> QED
    BY <1>1, <2>2, <2>3, <2>4, <2>5 DEF SharingInv
<1> QED
  BY <1>1, <1>4, <1>5

LEMMA SharingStep == LinkAssumption /\ SharingInv /\ [Links!Next]_linkVars => SharingInv'
<1> SUFFICES ASSUME LinkAssumption, SharingInv, [Links!Next]_linkVars PROVE SharingInv'
  OBVIOUS
<1>1. ASSUME NEW f \in Reports, Links!RunJob(f) PROVE SharingInv'
  <2>1. f \in Links!Deleters /\ Links!LinksTo(f) /\ now >= row.expires /\ jobs[f] # None
    BY <1>1 DEF Links!RunJob, Links!Due, Links!Deleters, SharingInv, RowFits
  <2> QED
    BY <1>1, <2>1, BeginDeletion DEF Links!RunJob
<1>2. ASSUME NEW v \in Opens, NEW f \in Reports, Links!OpenExpiredLink(v, f) PROVE SharingInv'
  <2>1. v \in Links!Deleters /\ v \notin Reports /\ Links!LinksTo(f) /\ now >= row.expires
    <3>1. row.expires \in Int
      BY <1>2 DEF Links!OpenExpiredLink, Links!LinksTo, SharingInv, LinkTypes, LinkRowType
    <3> QED
      BY <1>2, <3>1 DEF Links!OpenExpiredLink, Links!Deleters, SharingInv, LinkTypes, LinkAssumption
  <2> QED
    BY <1>2, <2>1, BeginDeletion DEF Links!OpenExpiredLink
<1>3. ASSUME NEW v \in Opens, Links!CheckOpened(v) PROVE SharingInv'
  BY <1>3, CheckOpenedStep DEF Links!Deleters
<1>4. CASE Links!DeleteReport \/ UNCHANGED linkVars
  <2>1. UNCHANGED <<row, files, jobs, upload, deletion, drawn, now, failed>>
    BY <1>4 DEF Links!DeleteReport, linkVars
  <2> QED
    BY <2>1 DEF SharingInv, LinkTypes, RowFits, Links!LinkWorks, Kept, DeletionFits, UploadFits, Fresh,
       Apart, Links!LinksTo, Deleting
<1>5. CASE Links!Tick
  <2>1. UNCHANGED <<row, files, jobs, upload, deletion, drawn, failed>> /\ now' = now + 1 /\ now \in Int
    BY <1>5 DEF Links!Tick, SharingInv, LinkTypes
  <2>2. LinkTypes' /\ RowFits' /\ Kept'
    BY <2>1 DEF SharingInv, LinkTypes, RowFits, Kept, Links!LinksTo
  <2>3. row # None => row.expires \in Int
    BY DEF SharingInv, LinkTypes, LinkRowType
  <2>4. now' \in Int /\ \A x \in Int : now >= x => now' >= x
    BY <2>1
  <2>5. Links!LinkWorks' /\ \A d \in Links!Deleters : DeletionFits(d)'
    BY <2>1, <2>3, <2>4 DEF SharingInv, Links!LinkWorks, DeletionFits, Links!LinksTo
  <2>6. \A q, w \in Workers : UploadFits(upload[q])' /\ (q # w => Apart(upload[q], upload[w])')
    BY <2>1 DEF SharingInv, UploadFits, Fresh, Apart, Links!LinksTo, Deleting
  <2> QED
    BY <2>2, <2>5, <2>6 DEF SharingInv
<1> QED
  BY <1>1, <1>2, <1>3, <1>4, <1>5, UploadFileStep, ReplaceRowStep, FindNoRowStep, InsertRowStep,
     InsertRefusedStep,
     RemoveOldJobStep, DeleteOldFileStep, ScheduleStep, NoteJobStep, UploadFailsStep, UndoStep, RefuseJobStep,
     DestroyFileStep, DeleteRowStep, DeletionFailsStep DEF Links!Next

-----------------------------------------------------------------------------
\* The row, the jobs and the requests keep their types, and no file is there that
\* was not drawn.
THEOREM LinksTyped == LinkAssumption => (Links!Spec => []LinkTypes)
<1> SUFFICES ASSUME LinkAssumption PROVE Links!Spec => []LinkTypes
  OBVIOUS
<1>1. SharingInv => LinkTypes
  BY DEF SharingInv
<1> QED
  BY <1>1, SharingInit, SharingStep, PTL DEF Links!Spec, Links!vars, linkVars

\* A link works until it expires or its own request has failed: whoever deletes a file
\* has one that no link has, or one whose link has expired.
THEOREM LinksWork == LinkAssumption => (Links!Spec => []LinkWorks)
<1> SUFFICES ASSUME LinkAssumption PROVE Links!Spec => []LinkWorks
  OBVIOUS
<1>1. SharingInv => LinkWorks
  BY DEF SharingInv, LinkWorks
<1> QED
  BY <1>1, SharingInit, SharingStep, PTL DEF Links!Spec, Links!vars, linkVars

\* A file at the file host is the row's, or some request under way owes its link or
\* its deletion, or such a request has failed.
THEOREM NoFileIsForgotten == LinkAssumption => (Links!Spec => []NoForgottenFile)
<1> SUFFICES ASSUME LinkAssumption PROVE Links!Spec => []NoForgottenFile
  OBVIOUS
<1>1. SharingInv => NoForgottenFile
  BY DEF SharingInv, Kept, NoForgottenFile, Links!NoForgottenFile, Links!InHand, Owes
<1> QED
  BY <1>1, SharingInit, SharingStep, PTL DEF Links!Spec, Links!vars, linkVars

-----------------------------------------------------------------------------
(* Event streams.                                                          *)

CommandType == [op: {"subscribe", "unsubscribe"}, by: Reports]
StreamStates == {"idle", "opening", "subscribing", "awaiting", "mute", "open", "closed"}

\* The channel's set of callbacks is there as long as Redis is to be subscribed, and
\* every open stream is in it.
EventInv ==
  /\ callbacks \in (SUBSET Reports) \cup {None}
  /\ commands \in Seq(CommandType)
  /\ stream \in [Reports -> StreamStates]
  /\ callbacks # None <=> Events!WillBeSubscribed
  /\ \A s \in Reports : stream[s] = "open" => callbacks # None /\ s \in callbacks

\* None is no set of callbacks.
EventAssumption == None \notin SUBSET Reports

LEMMA EventStart == Events!Init => EventInv
<1> SUFFICES ASSUME Events!Init PROVE EventInv
  OBVIOUS
<1>1. callbacks = None /\ commands = <<>> /\ subscribed = FALSE
  BY DEF Events!Init
<1>2. stream \in [Reports -> StreamStates] /\ \A s \in Reports : stream[s] # "open"
  BY DEF Events!Init, StreamStates
<1>3. ~Events!WillBeSubscribed
  BY <1>1 DEF Events!WillBeSubscribed
<1>4. commands \in Seq(CommandType)
  BY <1>1
<1> QED
  BY <1>1, <1>2, <1>3, <1>4 DEF EventInv

\* What Redis will be subscribed to once it has answered one command more.
LEMMA NextCommand ==
  ASSUME commands \in Seq(CommandType), NEW c \in CommandType, commands' = Append(commands, c)
  PROVE  commands' \in Seq(CommandType) /\ (Events!WillBeSubscribed' <=> c.op = "subscribe")
<1>1. /\ commands' \in Seq(CommandType) /\ commands' # <<>>
      /\ Len(commands') = Len(commands) + 1 /\ commands'[Len(commands) + 1] = c
  OBVIOUS
<1> QED
  BY <1>1 DEF Events!WillBeSubscribed, Events!Last

\* A request that moves changes neither the set nor what Redis is told.
LEMMA StreamMoves ==
  ASSUME EventInv, NEW s \in Reports, NEW pc \in StreamStates, pc # "open",
         stream' = [stream EXCEPT ![s] = pc], UNCHANGED <<callbacks, commands, subscribed>>
  PROVE  EventInv'
BY DEF EventInv, Events!WillBeSubscribed

LEMMA StreamSettles ==
  ASSUME EventAssumption, EventInv, NEW s \in Reports, callbacks # None,
         callbacks' = callbacks \cup {s}, Events!Settle(s),
         commands' \in Seq(CommandType), Events!WillBeSubscribed'
  PROVE  EventInv'
<1>1. callbacks \in SUBSET Reports
  BY DEF EventInv
<1>2. callbacks' \in SUBSET Reports /\ callbacks' # None
  BY <1>1 DEF EventAssumption
<1>3. \A t \in Reports : stream'[t] = (IF t = s THEN "open" ELSE stream[t])
  BY DEF Events!Settle, EventInv
<1>4. stream' \in [Reports -> StreamStates]
  BY DEF Events!Settle, EventInv, StreamStates
<1> QED
  BY <1>2, <1>3, <1>4 DEF EventInv

LEMMA AnswerStep == ASSUME EventAssumption, EventInv, Events!Answer PROVE EventInv'
<1> DEFINE c == Head(commands)
           s == c.by
<1>1. c \in CommandType /\ commands' = Tail(commands) /\ commands' \in Seq(CommandType)
  BY DEF EventInv, Events!Answer
<1>2. subscribed' = (c.op = "subscribe")
  BY DEF Events!Answer
<1>3. Events!WillBeSubscribed' <=> Events!WillBeSubscribed
  <2>1. CASE commands' = <<>>
    <3>1. commands # <<>> /\ commands \in Seq(CommandType)
      BY DEF EventInv, Events!Answer
    <3>2. Len(commands) \in Nat /\ Len(commands) # 0 /\ Len(Tail(commands)) = Len(commands) - 1
      BY <3>1
    <3>3. Len(commands) = 1 /\ commands[1] = c
      <4>1. Tail(commands) = <<>> /\ Len(<<>>) = 0
        BY <1>1, <2>1
      <4> DEFINE n == Len(commands)
                 k == Len(Tail(commands))
      <4>2. n \in Nat /\ k = n - 1 /\ k = 0
        BY <3>2, <4>1
      <4> HIDE DEF n, k
      <4>3. n = 1
        BY <4>2
      <4>4. Head(commands) = commands[1]
        BY <3>1
      <4> QED
        BY <4>3, <4>4 DEF n
    <3>4. Events!WillBeSubscribed' <=> subscribed'
      BY <2>1 DEF Events!WillBeSubscribed
    <3>5. Events!WillBeSubscribed <=> commands[1].op = "subscribe"
      BY <3>1, <3>3 DEF Events!WillBeSubscribed, Events!Last
    <3> QED
      BY <1>2, <3>3, <3>4, <3>5
  <2>2. CASE commands' # <<>>
    <3>1. /\ commands # <<>> /\ Len(commands') = Len(commands) - 1 /\ Len(commands') > 0
          /\ commands'[Len(commands')] = commands[Len(commands)]
      BY <1>1, <2>2 DEF EventInv, Events!Answer
    <3> QED
      BY <2>2, <3>1 DEF Events!WillBeSubscribed, Events!Last
  <2> QED
    BY <2>1, <2>2
<1>4. s \in Reports
  BY <1>1 DEF CommandType
<1>5. CASE c.op = "unsubscribe" /\ UNCHANGED <<callbacks, stream>>
  BY <1>1, <1>3, <1>5 DEF EventInv
<1>6. CASE callbacks # None /\ callbacks' = callbacks \cup {s} /\ Events!Settle(s)
  BY <1>1, <1>3, <1>4, <1>6, StreamSettles DEF EventInv
<1>7. CASE callbacks = None /\ stream' = [stream EXCEPT ![s] = "mute"] /\ UNCHANGED callbacks
  BY <1>1, <1>3, <1>4, <1>7 DEF EventInv, StreamStates
<1> QED
  BY <1>5, <1>6, <1>7 DEF Events!Answer

LEMMA CloseStep == ASSUME EventAssumption, EventInv, NEW s \in Reports, Events!Close(s) PROVE EventInv'
<1>1. callbacks # None /\ callbacks \in SUBSET Reports /\ Events!WillBeSubscribed
  <2>1. stream[s] = "open"
    BY DEF Events!Close
  <2>2. callbacks \in (SUBSET Reports) \cup {None} /\ callbacks # None /\ Events!WillBeSubscribed
    BY <2>1 DEF EventInv
  <2> QED
    BY <2>2
<1>2. /\ stream' \in [Reports -> StreamStates]
      /\ \A t \in Reports : stream'[t] = (IF t = s THEN "closed" ELSE stream[t])
  BY DEF EventInv, Events!Close, StreamStates
<1>3. CASE callbacks \ {s} = {}
  <2>1. callbacks' = None
    BY <1>3 DEF Events!Close, Events!LeftBy
  <2> DEFINE c == [op |-> "unsubscribe", by |-> s]
  <2>2. c \in CommandType /\ c.op # "subscribe" /\ commands' = Append(commands, c)
    BY <1>3 DEF Events!Close, CommandType
  <2> HIDE DEF c
  <2>3. commands' \in Seq(CommandType) /\ ~Events!WillBeSubscribed'
    BY <2>2, NextCommand DEF EventInv
  <2>4. \A t \in Reports : stream[t] = "open" => t = s
    BY <1>3 DEF EventInv
  <2>5. \A t \in Reports : stream'[t] # "open"
    BY <1>2, <2>4
  <2> QED
    BY <1>2, <2>1, <2>3, <2>5 DEF EventInv
<1>4. CASE callbacks \ {s} # {}
  <2>1. callbacks' = callbacks \ {s} /\ callbacks' # None /\ UNCHANGED <<commands, subscribed>>
    BY <1>1, <1>4 DEF Events!Close, Events!LeftBy, EventAssumption
  <2>2. Events!WillBeSubscribed'
    BY <1>1, <2>1 DEF Events!WillBeSubscribed
  <2> QED
    BY <1>1, <1>2, <2>1, <2>2 DEF EventInv
<1> QED
  BY <1>3, <1>4

LEMMA EventStep == EventAssumption /\ EventInv /\ [Events!Next]_eventVars => EventInv'
<1> SUFFICES ASSUME EventAssumption, EventInv, [Events!Next]_eventVars PROVE EventInv'
  OBVIOUS
<1>1. CASE UNCHANGED eventVars
  BY <1>1 DEF eventVars, EventInv, Events!WillBeSubscribed
<1>2. ASSUME NEW s \in Reports, Events!Open(s) \/ Events!Snapshot(s) \/ Events!Leave(s) \/ Events!Forget(s)
      PROVE  EventInv'
  <2>1. CASE Events!Leave(s)
    BY <2>1 DEF Events!Leave, EventInv, Events!WillBeSubscribed
  <2>2. CASE Events!Open(s) \/ Events!Snapshot(s) \/ Events!Forget(s)
    <3>1. PICK pc \in {"opening", "subscribing", "idle"} :
            stream' = [stream EXCEPT ![s] = pc] /\ UNCHANGED <<callbacks, commands, subscribed>>
      BY <2>2 DEF Events!Open, Events!Snapshot, Events!Forget
    <3> QED
      BY <3>1, StreamMoves DEF StreamStates
  <2> QED
    BY <1>2, <2>1, <2>2
<1>3. ASSUME NEW s \in Reports, Events!SubscribeFirst(s) PROVE EventInv'
  <2> DEFINE c == [op |-> "subscribe", by |-> s]
  <2>1. c \in CommandType /\ c.op = "subscribe" /\ commands' = Append(commands, c)
    BY <1>3 DEF Events!SubscribeFirst, CommandType
  <2> HIDE DEF c
  <2>2. commands' \in Seq(CommandType) /\ Events!WillBeSubscribed'
    BY <2>1, NextCommand DEF EventInv
  <2>3. callbacks = None /\ callbacks' = {} /\ callbacks' # None
    BY <1>3 DEF Events!SubscribeFirst, EventAssumption
  <2>4. /\ stream' \in [Reports -> StreamStates]
        /\ \A t \in Reports : stream'[t] = (IF t = s THEN "awaiting" ELSE stream[t])
    BY <1>3 DEF Events!SubscribeFirst, EventInv, StreamStates
  <2> QED
    BY <2>2, <2>3, <2>4 DEF EventInv
<1>4. ASSUME NEW s \in Reports, Events!SubscribeToo(s) PROVE EventInv'
  <2>1. Events!WillBeSubscribed' /\ commands' \in Seq(CommandType)
    BY <1>4 DEF Events!SubscribeToo, EventInv, Events!WillBeSubscribed
  <2> QED
    BY <1>4, <2>1, StreamSettles DEF Events!SubscribeToo
<1>5. CASE Events!RedisError
  BY <1>5 DEF Events!RedisError, EventInv, Events!WillBeSubscribed
<1>6. CASE Events!RedisErrorUnheard
  <2>1. callbacks' = None /\ commands' = <<>> /\ subscribed' = FALSE
    BY <1>6 DEF Events!RedisErrorUnheard
  <2>2. stream' \in [Reports -> StreamStates] /\ \A s \in Reports : stream'[s] # "open"
    BY <1>6 DEF Events!RedisErrorUnheard, StreamStates
  <2>3. commands' \in Seq(CommandType)
    BY <2>1
  <2>4. ~Events!WillBeSubscribed'
    BY <2>1 DEF Events!WillBeSubscribed
  <2> QED
    BY <2>1, <2>2, <2>3, <2>4 DEF EventInv
<1> QED
  BY <1>1, <1>2, <1>3, <1>4, <1>5, <1>6, AnswerStep, CloseStep DEF Events!Next

\* Who awaits Redis while there is no set has been robbed of it, and so has a mute stream.
Robbed ==
  \A s \in Reports : stream[s] = "mute" \/ (callbacks = None /\ Events!AwaitsRedis(s)) => s \in robbed

\* A mute stream stays as it was, and nobody else waits for Redis without a set.
LEMMA RobbedFrame ==
  ASSUME Robbed, UNCHANGED robbed,
         \A s \in Reports : stream'[s] = "mute" => stream[s] = "mute",
         callbacks' = None => UNCHANGED <<callbacks, commands>>
  PROVE  Robbed'
<1> SUFFICES ASSUME NEW s \in Reports,
                    stream'[s] = "mute" \/ (callbacks' = None /\ Events!AwaitsRedis(s)')
             PROVE  s \in robbed
  BY DEF Robbed
<1> QED
  BY DEF Robbed, Events!AwaitsRedis

LEMMA RobbedAnswer == ASSUME EventAssumption, EventInv, Robbed, Events!Answer PROVE Robbed'
<1> DEFINE c == Head(commands)
           s == c.by
<1>1. c \in CommandType /\ commands # <<>> /\ commands' = Tail(commands) /\ commands \in Seq(CommandType)
  BY DEF EventInv, Events!Answer
<1>2. Len(commands) \in Nat /\ Len(commands) > 0 /\ c = commands[1]
  BY <1>1
<1>3. ASSUME NEW t \in Reports, Events!AwaitsRedis(t)' PROVE Events!AwaitsRedis(t)
  <2>1. PICK n \in 1 .. Len(Tail(commands)) : Tail(commands)[n] = [op |-> "subscribe", by |-> t]
    BY <1>1, <1>3 DEF Events!AwaitsRedis
  <2>2. n + 1 \in 1 .. Len(commands) /\ commands[n + 1] = [op |-> "subscribe", by |-> t]
    BY <1>1, <2>1
  <2> QED
    BY <2>2 DEF Events!AwaitsRedis
<1>4. s \in Reports /\ stream \in [Reports -> StreamStates]
  BY <1>1 DEF CommandType, EventInv
<1>5. CASE c.op = "unsubscribe" /\ UNCHANGED <<callbacks, stream, robbed>>
  BY <1>3, <1>5 DEF Robbed
<1>6. CASE callbacks # None /\ callbacks' = callbacks \cup {s} /\ Events!Settle(s) /\ robbed' = robbed \ {s}
  <2>1. callbacks' # None
    BY <1>4, <1>6 DEF EventInv, EventAssumption
  <2>2. \A t \in Reports : stream'[t] = (IF t = s THEN "open" ELSE stream[t])
    BY <1>4, <1>6 DEF Events!Settle
  <2> QED
    BY <1>6, <2>1, <2>2 DEF Robbed
<1>7. CASE /\ c.op = "subscribe" /\ callbacks = None
           /\ stream' = [stream EXCEPT ![s] = "mute"] /\ UNCHANGED <<callbacks, robbed>>
  <2>1. c = [op |-> "subscribe", by |-> s]
    BY <1>1, <1>7 DEF CommandType
  <2>2. 1 \in 1 .. Len(commands) /\ commands[1] = [op |-> "subscribe", by |-> s]
    BY <1>2, <2>1
  <2>3. Events!AwaitsRedis(s)
    BY <2>2 DEF Events!AwaitsRedis
  <2>4. \A t \in Reports : stream'[t] = (IF t = s THEN "mute" ELSE stream[t])
    BY <1>4, <1>7
  <2> QED
    BY <1>3, <1>4, <1>7, <2>3, <2>4 DEF Robbed
<1> QED
  BY <1>5, <1>6, <1>7 DEF Events!Answer

LEMMA RobbedClose == ASSUME EventInv, Robbed, NEW s \in Reports, Events!Close(s) PROVE Robbed'
<1> SUFFICES ASSUME NEW t \in Reports,
                    stream'[t] = "mute" \/ (callbacks' = None /\ Events!AwaitsRedis(t)')
             PROVE  t \in robbed'
  BY DEF Robbed
<1>1. /\ callbacks' = Events!LeftBy(s)
      /\ commands' = IF callbacks \ {s} = {}
                     THEN Append(commands, [op |-> "unsubscribe", by |-> s]) ELSE commands
      /\ robbed' = robbed \cup {u \in Reports : callbacks' = None /\ Events!AwaitsRedis(u)}
      /\ stream' = [stream EXCEPT ![s] = "closed"]
  BY DEF Events!Close
<1>2. CASE stream'[t] = "mute"
  <2>1. stream[t] = "mute"
    BY <1>1, <1>2 DEF EventInv
  <2> QED
    BY <1>1, <2>1 DEF Robbed
<1>3. CASE callbacks' = None /\ Events!AwaitsRedis(t)'
  <2>1. PICK n \in 1 .. Len(commands') : commands'[n] = [op |-> "subscribe", by |-> t]
    BY <1>3 DEF Events!AwaitsRedis
  <2>2. n \in 1 .. Len(commands) /\ commands[n] = [op |-> "subscribe", by |-> t]
    <3> DEFINE u == [op |-> "unsubscribe", by |-> s]
    <3>1. u \in CommandType /\ u # [op |-> "subscribe", by |-> t]
      BY DEF CommandType
    <3> HIDE DEF u
    <3>2. CASE commands' = commands
      BY <2>1, <3>2
    <3>3. CASE commands' = Append(commands, u)
      BY <2>1, <3>1, <3>3 DEF EventInv
    <3> QED
      BY <1>1, <3>2, <3>3 DEF u
  <2> QED
    BY <1>1, <1>3, <2>2 DEF Events!AwaitsRedis
<1> QED
  BY <1>2, <1>3

LEMMA RobbedStep == EventAssumption /\ EventInv /\ Robbed /\ [Events!Next]_eventVars => Robbed'
<1> SUFFICES ASSUME EventAssumption, EventInv, Robbed, [Events!Next]_eventVars PROVE Robbed'
  OBVIOUS
<1>1. CASE UNCHANGED eventVars
  BY <1>1 DEF eventVars, Robbed, Events!AwaitsRedis
<1>2. ASSUME NEW s \in Reports,
             \/ Events!Open(s) \/ Events!Snapshot(s) \/ Events!SubscribeFirst(s)
             \/ Events!SubscribeToo(s) \/ Events!Leave(s) \/ Events!Forget(s)
      PROVE  Robbed'
  <2>1. /\ UNCHANGED robbed
        /\ stream' = stream \/ \E pc \in {"opening", "subscribing", "awaiting", "open", "idle"} :
                                stream' = [stream EXCEPT ![s] = pc]
    BY <1>2 DEF Events!Open, Events!Snapshot, Events!SubscribeFirst, Events!SubscribeToo, Events!Leave,
       Events!Forget, Events!Settle
  <2>2. \A t \in Reports : stream'[t] = "mute" => stream[t] = "mute"
    BY <2>1 DEF EventInv
  <2>3. CASE Events!SubscribeFirst(s)
    <3>1. callbacks' # None
      BY <2>3 DEF Events!SubscribeFirst, EventAssumption
    <3> QED
      BY <2>1, <2>2, <3>1, RobbedFrame
  <2>4. CASE Events!SubscribeToo(s)
    <3>1. callbacks' # None
      BY <2>4 DEF Events!SubscribeToo, EventAssumption, EventInv
    <3> QED
      BY <2>1, <2>2, <3>1, RobbedFrame
  <2>5. CASE Events!Open(s) \/ Events!Snapshot(s) \/ Events!Leave(s) \/ Events!Forget(s)
    <3>1. UNCHANGED <<callbacks, commands>>
      BY <2>5 DEF Events!Open, Events!Snapshot, Events!Leave, Events!Forget
    <3> QED
      BY <2>1, <2>2, <3>1, RobbedFrame
  <2> QED
    BY <1>2, <2>3, <2>4, <2>5
<1>3. CASE Events!RedisError
  BY <1>3, RobbedFrame DEF Events!RedisError
<1>4. CASE Events!RedisErrorUnheard
  <2>1. commands' = <<>> /\ \A s \in Reports : stream'[s] # "mute"
    BY <1>4 DEF Events!RedisErrorUnheard
  <2>2. \A s \in Reports : ~Events!AwaitsRedis(s)'
    BY <2>1 DEF Events!AwaitsRedis
  <2> QED
    BY <2>1, <2>2 DEF Robbed
<1> QED
  BY <1>1, <1>2, <1>3, <1>4, RobbedAnswer, RobbedClose DEF Events!Next

\* A response that is open hears its inverter, whoever else opens and closes streams and
\* whatever Redis still has to answer: the shared set is taken away with the last one to
\* leave only, and then only those who await Redis at that moment can end up deaf.
THEOREM OpenStreamsHear == EventAssumption => (Events!Spec => []OpenIsHeard)
<1> SUFFICES ASSUME EventAssumption PROVE Events!Spec => []OpenIsHeard
  OBVIOUS
<1>1. EventInv /\ Robbed => OpenIsHeard
  BY DEF EventInv, Robbed, OpenIsHeard, Events!OpenIsHeard, Events!IsHeard
<1>2. Events!Init => Robbed
  <2>1. Events!Init => commands = <<>> /\ \A s \in Reports : stream[s] # "mute"
    BY DEF Events!Init
  <2> QED
    BY <2>1 DEF Robbed, Events!AwaitsRedis
<1> QED
  BY <1>1, <1>2, EventStart, EventStep, RobbedStep, PTL DEF Events!Spec, Events!vars, eventVars

-----------------------------------------------------------------------------
(* A chat and its turns.                                                   *)

TurnStates == {"idle", "titled", "starting", "started", "found", "reading", "asking", "called", "tools",
               "saving", "cards", "done"}
Unlogged(t) == IF t \in usage THEN 1 ELSE 0

\* Of each call there is one event, on its way, written or refused; what is not even logged
\* is the call the turn is in, or the one its stream broke in.
ChatInv ==
  /\ turn \in [Reports -> TurnStates]
  /\ calls \in [Reports -> Nat] /\ unsaved \in [Reports -> Nat]
  /\ charged \in [Reports -> Nat] /\ refused \in [Reports -> Nat]
  /\ \A t \in Reports :
       /\ calls[t] = charged[t] + refused[t] + unsaved[t] + Unlogged(t)
       /\ t \in usage => \/ turn[t] = "called"
                         \/ t \in broken /\ turn[t] \in {"saving", "cards", "done"}

LEMMA ChatStart == Assistant!Init => ChatInv
BY DEF ChatInv, Assistant!Init, TurnStates, Unlogged

\* One turn moves on, and what it has not been charged for is still accounted for.
LEMMA TurnMoves ==
  ASSUME ChatInv, NEW t \in Reports, NEW pc \in TurnStates, Assistant!Goto(t, pc),
         UNCHANGED <<charged, refused>>,
         calls' \in [Reports -> Nat], unsaved' \in [Reports -> Nat],
         calls'[t] = charged[t] + refused[t] + unsaved'[t] + Unlogged(t)',
         t \in usage' => pc = "called" \/ (t \in broken' /\ pc \in {"saving", "cards", "done"}),
         \A u \in Reports : u # t => /\ calls'[u] = calls[u] /\ unsaved'[u] = unsaved[u]
                                     /\ u \in usage' <=> u \in usage
                                     /\ u \in broken' <=> u \in broken
  PROVE  ChatInv'
<1>1. turn' \in [Reports -> TurnStates] /\ \A u \in Reports : turn'[u] = (IF u = t THEN pc ELSE turn[u])
  BY DEF ChatInv, Assistant!Goto
<1>2. ASSUME NEW u \in Reports, u # t
      PROVE  /\ calls'[u] = charged[u] + refused[u] + unsaved'[u] + Unlogged(u)'
             /\ u \in usage' => \/ turn'[u] = "called"
                                \/ u \in broken' /\ turn'[u] \in {"saving", "cards", "done"}
  BY <1>1, <1>2 DEF ChatInv, Unlogged
<1> QED
  BY <1>1, <1>2 DEF ChatInv

\* The turn makes no call and logs nothing.
LEMMA TurnOnly ==
  ASSUME ChatInv, NEW t \in Reports, NEW pc \in TurnStates, Assistant!Goto(t, pc),
         turn[t] = "called" => pc = "called",
         turn[t] \in {"saving", "cards", "done"} => pc \in {"saving", "cards", "done"},
         UNCHANGED <<calls, usage, unsaved, charged, refused, broken>>
  PROVE  ChatInv'
<1>1. Unlogged(t)' = Unlogged(t)
  BY DEF Unlogged
<1>2. t \in usage' => pc = "called" \/ (t \in broken' /\ pc \in {"saving", "cards", "done"})
  BY DEF ChatInv
<1> QED
  BY <1>1, <1>2, TurnMoves DEF ChatInv

\* A call outside the stream logs its usage itself.
LEMMA CallLogged ==
  ASSUME ChatInv, NEW t \in Reports, NEW pc \in TurnStates, Assistant!Goto(t, pc),
         turn[t] # "called",
         turn[t] \in {"saving", "cards", "done"} => pc \in {"saving", "cards", "done"},
         calls' = [calls EXCEPT ![t] = @ + 1], Assistant!LogUsage(t),
         UNCHANGED <<usage, charged, refused, broken>>
  PROVE  ChatInv'
<1>1. /\ calls \in [Reports -> Nat] /\ unsaved \in [Reports -> Nat]
      /\ charged[t] \in Nat /\ refused[t] \in Nat
      /\ calls[t] = charged[t] + refused[t] + unsaved[t] + Unlogged(t)
  BY DEF ChatInv
<1>2. /\ calls' \in [Reports -> Nat] /\ unsaved' \in [Reports -> Nat]
      /\ calls'[t] = calls[t] + 1 /\ unsaved'[t] = unsaved[t] + 1
      /\ \A u \in Reports : u # t => calls'[u] = calls[u] /\ unsaved'[u] = unsaved[u]
  BY <1>1 DEF Assistant!LogUsage
<1>3. Unlogged(t)' = Unlogged(t) /\ Unlogged(t) \in 0..1
  BY DEF Unlogged
<1>4. calls'[t] = charged[t] + refused[t] + unsaved'[t] + Unlogged(t)'
  BY <1>1, <1>2, <1>3
<1>5. t \in usage' => pc = "called" \/ (t \in broken' /\ pc \in {"saving", "cards", "done"})
  BY DEF ChatInv
<1> QED
  BY <1>2, <1>4, <1>5, TurnMoves

\* What is current is logged.
LEMMA TurnFlushed ==
  ASSUME ChatInv, NEW t \in Reports, NEW pc \in TurnStates, Assistant!Goto(t, pc),
         Assistant!Flush(t), usage' = usage \ {t}, UNCHANGED <<calls, charged, refused, broken>>
  PROVE  ChatInv'
<1>1. /\ calls \in [Reports -> Nat] /\ unsaved \in [Reports -> Nat]
      /\ charged[t] \in Nat /\ refused[t] \in Nat
      /\ calls[t] = charged[t] + refused[t] + unsaved[t] + Unlogged(t)
  BY DEF ChatInv
<1>2. /\ unsaved' \in [Reports -> Nat] /\ unsaved'[t] = unsaved[t] + Unlogged(t)
      /\ \A u \in Reports : u # t => unsaved'[u] = unsaved[u]
  <2>1. CASE t \in usage
    BY <1>1, <2>1 DEF Assistant!Flush, Assistant!LogUsage, Unlogged
  <2>2. CASE t \notin usage
    BY <1>1, <2>2 DEF Assistant!Flush, Unlogged
  <2> QED
    BY <2>1, <2>2
<1>3. Unlogged(t)' = 0 /\ t \notin usage' /\ Unlogged(t) \in 0..1
  BY DEF Unlogged
<1>4. calls'[t] = charged[t] + refused[t] + unsaved'[t] + Unlogged(t)'
  BY <1>1, <1>2, <1>3
<1> QED
  BY <1>1, <1>2, <1>3, <1>4, TurnMoves

LEMMA CallModelStep == ASSUME ChatInv, NEW t \in Reports, Assistant!CallModel(t) PROVE ChatInv'
<1>1. turn[t] \in {"asking", "tools"}
  BY DEF Assistant!CallModel, Assistant!At
<1>2. t \notin usage
  BY <1>1 DEF ChatInv
<1> DEFINE n == calls[t] + 1
<1>3. /\ n \in Nat /\ n = charged[t] + refused[t] + unsaved[t] + 1
      /\ calls' = [calls EXCEPT ![t] = n]
  BY <1>2 DEF ChatInv, Unlogged, Assistant!CallModel
<1>4. /\ Assistant!Goto(t, "called") /\ "called" \in TurnStates
      /\ usage' = usage \cup {t} /\ UNCHANGED <<unsaved, charged, refused, broken>>
  BY DEF Assistant!CallModel, Assistant!ledger, TurnStates
<1> HIDE DEF n
<1>5. calls' \in [Reports -> Nat] /\ calls'[t] = n /\ \A u \in Reports : u # t => calls'[u] = calls[u]
  BY <1>3 DEF ChatInv
<1>6. Unlogged(t)' = 1
  BY <1>4 DEF Unlogged
<1> QED
  BY <1>3, <1>4, <1>5, <1>6, TurnMoves DEF ChatInv

LEMMA BreakStreamStep == ASSUME ChatInv, NEW t \in Reports, Assistant!BreakStream(t) PROVE ChatInv'
<1>1. /\ Assistant!Goto(t, "saving") /\ "saving" \in TurnStates
      /\ broken' = broken \cup {t} /\ UNCHANGED <<calls, unsaved, charged, refused, usage>>
  BY DEF Assistant!BreakStream, Assistant!ledger, TurnStates
<1>2. Unlogged(t)' = Unlogged(t)
  BY <1>1 DEF Unlogged
<1> QED
  BY <1>1, <1>2, TurnMoves DEF ChatInv

\* The calls that make the title and the cards.
LEMMA OtherCallSteps ==
  ASSUME ChatInv, NEW t \in Reports, Assistant!Title(t) \/ Assistant!MakeCards(t)
  PROVE  ChatInv'
<1>1. PICK pc \in TurnStates :
        /\ Assistant!Goto(t, pc) /\ turn[t] # "called"
        /\ turn[t] \in {"saving", "cards", "done"} => pc \in {"saving", "cards", "done"}
  BY DEF Assistant!Title, Assistant!MakeCards, Assistant!At, TurnStates
<1>2. UNCHANGED <<usage, charged, refused, broken>>
  BY DEF Assistant!Title, Assistant!MakeCards, Assistant!ledger
<1>3. CASE UNCHANGED <<calls, unsaved>>
  BY <1>1, <1>2, <1>3, TurnOnly
<1>4. CASE calls' = [calls EXCEPT ![t] = @ + 1] /\ Assistant!LogUsage(t)
  BY <1>1, <1>2, <1>4, CallLogged
<1> QED
  BY <1>3, <1>4 DEF Assistant!Title, Assistant!MakeCards

\* The event is written, or refused, whatever its turn does in the meantime.
LEMMA SaveUsageStep == ASSUME ChatInv, NEW t \in Reports, Assistant!SaveUsage(t) PROVE ChatInv'
<1>1. /\ unsaved \in [Reports -> Nat] /\ charged \in [Reports -> Nat] /\ refused \in [Reports -> Nat]
      /\ calls[t] \in Nat /\ calls[t] = charged[t] + refused[t] + unsaved[t] + Unlogged(t)
  BY DEF ChatInv
<1>2. /\ unsaved[t] > 0 /\ unsaved' = [unsaved EXCEPT ![t] = @ - 1]
      /\ UNCHANGED <<turn, calls, usage, broken>>
  BY DEF Assistant!SaveUsage
<1>3. /\ unsaved' \in [Reports -> Nat] /\ unsaved'[t] = unsaved[t] - 1
      /\ \A u \in Reports : u # t => unsaved'[u] = unsaved[u]
  BY <1>1, <1>2
<1>4. \A u \in Reports : Unlogged(u)' = Unlogged(u) /\ Unlogged(u) \in 0..1
  BY <1>2 DEF Unlogged
<1>5. /\ charged' \in [Reports -> Nat] /\ refused' \in [Reports -> Nat]
      /\ charged'[t] + refused'[t] = charged[t] + refused[t] + 1
      /\ \A u \in Reports : u # t => charged'[u] = charged[u] /\ refused'[u] = refused[u]
  <2>1. CASE charged' = [charged EXCEPT ![t] = @ + 1] /\ UNCHANGED refused
    BY <1>1, <2>1
  <2>2. CASE refused' = [refused EXCEPT ![t] = @ + 1] /\ UNCHANGED charged
    BY <1>1, <2>2
  <2> QED
    BY <2>1, <2>2 DEF Assistant!SaveUsage
<1>6. \A u \in Reports : calls'[u] = charged'[u] + refused'[u] + unsaved'[u] + Unlogged(u)'
  <2> SUFFICES ASSUME NEW u \in Reports
               PROVE  calls'[u] = charged'[u] + refused'[u] + unsaved'[u] + Unlogged(u)'
    OBVIOUS
  <2>1. CASE u = t
    BY <1>1, <1>2, <1>3, <1>4, <1>5, <2>1
  <2>2. CASE u # t
    BY <1>2, <1>3, <1>4, <1>5, <2>2 DEF ChatInv
  <2> QED
    BY <2>1, <2>2
<1> QED
  BY <1>2, <1>3, <1>5, <1>6 DEF ChatInv

LEMMA ChatStep == ChatInv /\ [Assistant!Next]_assistantVars => ChatInv'
<1> SUFFICES ASSUME ChatInv, [Assistant!Next]_assistantVars PROVE ChatInv'
  OBVIOUS
<1>1. CASE UNCHANGED assistantVars \/ Assistant!DeleteChat
  BY <1>1 DEF assistantVars, Assistant!DeleteChat, Assistant!agentVars, ChatInv, Unlogged
<1>2. ASSUME NEW t \in Reports,
             \/ Assistant!CreateChat(t) \/ Assistant!SaveFirst(t) \/ Assistant!Find(t)
             \/ Assistant!SaveMessage(t) \/ Assistant!ReadContext(t) \/ Assistant!AnswerNothing(t)
             \/ Assistant!SaveAnswer(t)
      PROVE  ChatInv'
  <2>1. UNCHANGED <<calls, usage, unsaved, charged, refused, broken>>
    BY <1>2 DEF Assistant!CreateChat, Assistant!SaveFirst, Assistant!Find, Assistant!SaveMessage,
       Assistant!ReadContext, Assistant!AnswerNothing, Assistant!SaveAnswer, Assistant!agentVars,
       Assistant!ledger
  <2>2. \E pc \in TurnStates :
          /\ Assistant!Goto(t, pc) /\ turn[t] # "called"
          /\ turn[t] \in {"saving", "cards", "done"} => pc \in {"saving", "cards", "done"}
    BY <1>2 DEF Assistant!CreateChat, Assistant!SaveFirst, Assistant!Find, Assistant!SaveMessage,
       Assistant!ReadContext, Assistant!AnswerNothing, Assistant!SaveAnswer, Assistant!Goto, Assistant!At,
       TurnStates
  <2> QED
    BY <2>1, <2>2, TurnOnly
<1>3. ASSUME NEW t \in Reports, Assistant!RunTool(t) \/ Assistant!FinishStream(t) PROVE ChatInv'
  <2>1. PICK pc \in TurnStates : Assistant!Goto(t, pc)
    BY <1>3 DEF Assistant!RunTool, Assistant!FinishStream, TurnStates
  <2>2. Assistant!Flush(t) /\ usage' = usage \ {t} /\ UNCHANGED <<calls, charged, refused, broken>>
    BY <1>3 DEF Assistant!RunTool, Assistant!FinishStream, Assistant!FlushedUsage, Assistant!ledger
  <2> QED
    BY <2>1, <2>2, TurnFlushed
<1> QED
  BY <1>1, <1>2, <1>3, CallModelStep, BreakStreamStep, OtherCallSteps, SaveUsageStep DEF Assistant!Next

\* However many turns run at once and whenever their events are written, no call is charged
\* twice; what is missing in the end was refused, or went with a broken stream.
THEOREM CallsAreCharged == Assistant!Spec => []UsageCounted
<1>1. ChatInv => UsageCounted
  <2> SUFFICES ASSUME ChatInv, NEW t \in Reports
               PROVE  /\ charged[t] + unsaved[t] <= calls[t]
                      /\ turn[t] \in {"started", "done"} /\ unsaved[t] = 0
                           => calls[t] - charged[t] <= refused[t] + IF t \in broken THEN 1 ELSE 0
    BY DEF UsageCounted, Assistant!UsageCounted
  <2>1. /\ charged[t] \in Nat /\ refused[t] \in Nat /\ unsaved[t] \in Nat
        /\ calls[t] = charged[t] + refused[t] + unsaved[t] + Unlogged(t)
        /\ turn[t] \in {"started", "done"} /\ t \in usage => t \in broken
    BY DEF ChatInv
  <2>2. CASE t \in usage
    BY <2>1, <2>2 DEF Unlogged
  <2>3. CASE t \notin usage
    BY <2>1, <2>3 DEF Unlogged
  <2> QED
    BY <2>2, <2>3
<1> QED
  BY <1>1, ChatStart, ChatStep, PTL DEF Assistant!Spec, Assistant!vars, assistantVars

-----------------------------------------------------------------------------
(* Messages.                                                               *)

MailStates == {"waiting", "noDevice", "sending", "recordFailed", "recordSuccess", "catching",
               "forwarded", "completed", "failed"}
MailKinds == {"push", "mail", "report", "reportMail"}
MailJobType == [kind: MailKinds, of: Workers, pc: MailStates, fids: Nat, left: Int, stalls: Int]

\* None is no job and no status of a push.
MailAssumption == None \notin MailJobType \cup {"successful"}

\* Where a job may still bring its message to the user, unless a failure lets it begin again.
May(kind, pc) ==
  \/ kind = "push" /\ pc \in {"waiting", "sending", "catching"}
  \/ kind \in {"mail", "reportMail"} /\ pc \in {"waiting", "sending"}
  \/ kind = "report" /\ pc = "waiting"

JobsOf(m) == {j \in Reports : mailJob[j] # None /\ mailJob[j].of = m}
Bearers(m) == {j \in JobsOf(m) : May(mailJob[j].kind, mailJob[j].pc)}

MailTypes ==
  /\ message \in [Workers -> {"none", "saved", "sent", "refused"}]
  /\ push \in [Workers -> {None, "pending", "successful", "failed"}]
  /\ mailJob \in [Reports -> MailJobType \cup {None}]
  /\ reached \in [Workers -> Nat]
  /\ mailFaults \in Nat

\* Every time a message got to its user, and every job that may bring it once more, is
\* the first or owed to a failure.
Borne(m) ==
  /\ IsFiniteSet(Bearers(m))
  /\ reached[m] + Cardinality(Bearers(m)) <= 1 + mailFaults

Recorded(m) == push[m] = "successful" => reached[m] > 0
Untouched(m) == message[m] # "sent" => reached[m] = 0 /\ JobsOf(m) = {}

MailInv ==
  /\ MailTypes
  /\ \A m \in Workers : Borne(m) /\ Recorded(m) /\ Untouched(m)
  /\ \A j \in Reports :
       mailJob[j] # None /\ mailJob[j].pc = "recordSuccess" => reached[mailJob[j].of] > 0

LEMMA MailStart == MailAssumption /\ Mail!Init => MailInv
<1> SUFFICES ASSUME MailAssumption, Mail!Init PROVE MailInv
  OBVIOUS
<1>1. \A m \in Workers : message[m] = "none" /\ push[m] = None /\ reached[m] = 0 /\ JobsOf(m) = {}
  BY DEF Mail!Init, JobsOf
<1>2. \A m \in Workers : Bearers(m) = {}
  BY <1>1 DEF Bearers
<1>3. MailTypes
  BY DEF Mail!Init, MailTypes
<1>4. mailFaults = 0 /\ \A j \in Reports : mailJob[j] = None
  BY DEF Mail!Init
<1>5. \A m \in Workers : Borne(m)
  BY <1>1, <1>2, <1>4, FS_EmptySet DEF Borne
<1>6. \A m \in Workers : push[m] # "successful"
  BY <1>1 DEF MailAssumption
<1> QED
  BY <1>1, <1>3, <1>4, <1>5, <1>6 DEF MailInv, Recorded, Untouched

LEMMA CountOne ==
  ASSUME NEW S, NEW x, IsFiniteSet(S)
  PROVE  /\ IsFiniteSet(S \ {x}) /\ Cardinality(S \ {x}) \in Nat
         /\ Cardinality(S) = Cardinality(S \ {x}) + (IF x \in S THEN 1 ELSE 0)
<1>1. IsFiniteSet(S \ {x}) /\ Cardinality(S \ {x}) \in Nat
  BY FS_RemoveElement, FS_CardinalityType
<1>2. CASE x \in S
  <2>1. S = (S \ {x}) \cup {x} /\ x \notin S \ {x}
    BY <1>2
  <2> QED
    BY <1>1, <1>2, <2>1, FS_AddElement
<1>3. CASE x \notin S
  <2>1. S = S \ {x}
    BY <1>3
  <2>2. Cardinality(S) = Cardinality(S \ {x})
    BY <2>1
  <2> QED
    BY <1>1, <1>3, <2>2
<1> QED
  BY <1>1, <1>2, <1>3

\* The bearers change by one job at most, and what changes is made up for.
LEMMA Balance ==
  ASSUME NEW m \in Workers, Borne(m), NEW j, Bearers(m)' \ {j} = Bearers(m) \ {j},
         reached[m] \in Nat, reached'[m] \in Nat, mailFaults \in Nat, mailFaults' \in Nat,
         reached'[m] + (IF j \in Bearers(m)' THEN 1 ELSE 0) + mailFaults
           <= reached[m] + (IF j \in Bearers(m) THEN 1 ELSE 0) + mailFaults'
  PROVE  Borne(m)'
<1> DEFINE A == IF j \in Bearers(m) THEN 1 ELSE 0
           B == IF j \in Bearers(m)' THEN 1 ELSE 0
           n == Cardinality(Bearers(m) \ {j})
           S == Bearers(m)'
<1>1. n \in Nat /\ Cardinality(Bearers(m)) = n + A /\ IsFiniteSet(Bearers(m) \ {j})
  BY CountOne DEF Borne
<1>2. IsFiniteSet(S)
  <2>1. S = Bearers(m) \ {j} \/ S = (Bearers(m) \ {j}) \cup {j}
    OBVIOUS
  <2>2. IsFiniteSet((Bearers(m) \ {j}) \cup {j})
    BY <1>1, FS_AddElement
  <2> QED
    BY <1>1, <2>1, <2>2
<1>3. Cardinality(S) = n + B
  <2>1. Cardinality(S) = Cardinality(S \ {j}) + B
    BY <1>2, CountOne
  <2> QED
    BY <2>1
<1>4. A \in 0..1 /\ B \in 0..1
  OBVIOUS
<1>5. reached'[m] + B + mailFaults <= reached[m] + A + mailFaults'
  OBVIOUS
<1>6. /\ reached[m] + Cardinality(Bearers(m)) <= 1 + mailFaults
      /\ Borne(m)' <=> IsFiniteSet(S) /\ reached'[m] + Cardinality(S) <= 1 + mailFaults'
  BY DEF Borne
<1> HIDE DEF A, B, n, S
<1> QED
  BY <1>1, <1>2, <1>3, <1>4, <1>5, <1>6

\* The job j goes on to another step, and no other job moves.
Moved(j, pc) ==
  /\ mailJob' \in [Reports -> MailJobType \cup {None}]
  /\ mailJob'[j] # None /\ mailJob'[j].pc = pc
  /\ mailJob'[j].of = mailJob[j].of /\ mailJob'[j].kind = mailJob[j].kind
  /\ \A k \in Reports : k # j => mailJob'[k] = mailJob[k]

LEMMA JobTyped == ASSUME MailInv, NEW j \in Reports, mailJob[j] # None PROVE mailJob[j] \in MailJobType
BY DEF MailInv, MailTypes

LEMMA GoesOn ==
  ASSUME MailAssumption, MailInv, NEW j \in Reports, mailJob[j] # None, NEW pc \in MailStates,
     Mail!Goto(j, pc)
  PROVE  Moved(j, pc)
<1> DEFINE r == [mailJob[j] EXCEPT !.pc = pc]
<1>1. r \in MailJobType /\ r.pc = pc /\ r.of = mailJob[j].of /\ r.kind = mailJob[j].kind
  BY JobTyped DEF MailJobType
<1>2. mailJob' = [mailJob EXCEPT ![j] = r] /\ r # None
  BY <1>1 DEF Mail!Goto, MailAssumption
<1> HIDE DEF r
<1> QED
  BY <1>1, <1>2 DEF Moved, MailInv, MailTypes

LEMMA Throws ==
  ASSUME MailAssumption, MailInv, NEW j \in Reports, mailJob[j] # None, Mail!Throw(j)
  PROVE  Moved(j, "waiting") \/ Moved(j, "failed")
<1> DEFINE pc == IF mailJob[j].left = 1 THEN "failed" ELSE "waiting"
           n == mailJob[j].left - 1
           r == [mailJob[j] EXCEPT !.left = n, !.pc = pc]
<1>1. pc \in {"waiting", "failed"} /\ n \in Int
  BY JobTyped DEF MailJobType
<1>2. mailJob' = [mailJob EXCEPT ![j].left = n, ![j].pc = pc]
  BY DEF Mail!Throw, Mail!Retried
<1> HIDE DEF pc, n
<1>3. r \in MailJobType /\ r.pc = pc /\ r.of = mailJob[j].of /\ r.kind = mailJob[j].kind
  BY <1>1, JobTyped DEF MailJobType, MailStates
<1>4. r # None
  BY <1>3 DEF MailAssumption
<1>5. mailJob' = [mailJob EXCEPT ![j] = r]
  BY <1>2, JobTyped DEF MailJobType, MailInv, MailTypes
<1> HIDE DEF r
<1> QED
  BY <1>1, <1>3, <1>4, <1>5 DEF Moved, MailInv, MailTypes

\* What a step of one job has to keep.
LEMMA JobMoves ==
  ASSUME MailInv, MailTypes', UNCHANGED message, NEW j \in Reports, NEW m \in Workers,
         mailJob[j] # None, m = mailJob[j].of, NEW pc \in MailStates, Moved(j, pc),
         \A n \in Workers : n # m => reached'[n] = reached[n] /\ push'[n] = push[n],
         reached[m] <= reached'[m], mailFaults <= mailFaults', Recorded(m)',
         pc = "recordSuccess" => reached'[m] > 0,
         reached'[m] + (IF May(mailJob[j].kind, pc) THEN 1 ELSE 0) + mailFaults
           <= reached[m] + (IF May(mailJob[j].kind, mailJob[j].pc) THEN 1 ELSE 0) + mailFaults'
  PROVE  MailInv'
<1>1. /\ reached \in [Workers -> Nat] /\ reached' \in [Workers -> Nat]
      /\ mailFaults \in Nat /\ mailFaults' \in Nat
  BY DEF MailInv, MailTypes
<1>2. \A n \in Workers : JobsOf(n)' = JobsOf(n)
  BY DEF Moved, JobsOf
<1>3. Borne(m)'
  <2>1. Bearers(m)' \ {j} = Bearers(m) \ {j}
    BY <1>2 DEF Moved, Bearers, JobsOf
  <2>2. /\ j \in Bearers(m) <=> May(mailJob[j].kind, mailJob[j].pc)
        /\ j \in Bearers(m)' <=> May(mailJob[j].kind, pc)
    BY DEF Moved, Bearers, JobsOf
  <2> QED
    BY <1>1, <2>1, <2>2, Balance DEF MailInv
<1>4. ASSUME NEW n \in Workers, n # m PROVE Borne(n)' /\ Recorded(n)'
  <2>1. Bearers(n)' = Bearers(n)
    BY <1>2, <1>4 DEF Moved, Bearers, JobsOf
  <2>2. Borne(n) /\ Recorded(n) /\ reached'[n] = reached[n] /\ push'[n] = push[n]
    BY <1>4 DEF MailInv
  <2>3. reached[n] \in Nat /\ IsFiniteSet(Bearers(n)) /\ Cardinality(Bearers(n)) \in Nat
    BY <1>1, <2>2, FS_CardinalityType DEF Borne
  <2>4. Borne(n)'
    BY <1>1, <2>1, <2>2, <2>3 DEF Borne
  <2> QED
    BY <2>2, <2>4 DEF Recorded
<1>5. \A n \in Workers : Untouched(n)'
  <2>1. j \in JobsOf(m)
    BY DEF JobsOf
  <2> QED
    BY <1>2, <2>1 DEF MailInv, Untouched
<1>6. ASSUME NEW k \in Reports, mailJob'[k] # None, mailJob'[k].pc = "recordSuccess"
      PROVE  reached'[mailJob'[k].of] > 0
  <2>1. CASE k = j
    BY <1>6, <2>1 DEF Moved
  <2>2. CASE k # j
    <3>1. /\ mailJob'[k] = mailJob[k] /\ mailJob[k] # None /\ reached[mailJob[k].of] > 0
          /\ mailJob[k].of \in Workers
      BY <1>6, <2>2, JobTyped DEF Moved, MailInv, MailJobType
    <3> QED
      BY <1>1, <3>1
  <2> QED
    BY <2>1, <2>2
<1> QED
  BY <1>3, <1>4, <1>5, <1>6 DEF MailInv

\* A step that reaches nobody and counts on no more than was counted on.
LEMMA JobGoes ==
  ASSUME MailInv, NEW j \in Reports, mailJob[j] # None, NEW pc \in MailStates, Moved(j, pc),
         UNCHANGED <<message, push, reached, mailFaults>>, pc # "recordSuccess",
         May(mailJob[j].kind, pc) => May(mailJob[j].kind, mailJob[j].pc)
  PROVE  MailInv'
<1>1. PICK m \in Workers : m = mailJob[j].of
  BY JobTyped DEF MailJobType
<1>2. reached[m] \in Nat /\ mailFaults \in Nat /\ Recorded(m)'
  BY DEF MailInv, MailTypes, Recorded
<1>3. MailTypes'
  BY DEF MailInv, MailTypes, Moved
<1> DEFINE A == IF May(mailJob[j].kind, pc) THEN 1 ELSE 0
           B == IF May(mailJob[j].kind, mailJob[j].pc) THEN 1 ELSE 0
<1>5. A \in 0..1 /\ B \in 0..1 /\ A <= B
  OBVIOUS
<1>6. reached'[m] + A + mailFaults <= reached[m] + B + mailFaults'
  <2> HIDE DEF A, B
  <2> QED
    BY <1>2, <1>5
<1> QED
  BY <1>1, <1>2, <1>3, <1>6, JobMoves

\* A step that fails pays for the one that may follow.
LEMMA JobFails ==
  ASSUME MailInv, NEW j \in Reports, mailJob[j] # None, NEW pc \in MailStates, Moved(j, pc),
         UNCHANGED <<message, push, reached>>, mailFaults' = mailFaults + 1, pc # "recordSuccess"
  PROVE  MailInv'
<1>1. PICK m \in Workers : m = mailJob[j].of
  BY JobTyped DEF MailJobType
<1>2. reached[m] \in Nat /\ mailFaults \in Nat /\ Recorded(m)'
  BY DEF MailInv, MailTypes, Recorded
<1>3. MailTypes'
  BY DEF MailInv, MailTypes, Moved
<1> DEFINE A == IF May(mailJob[j].kind, pc) THEN 1 ELSE 0
           B == IF May(mailJob[j].kind, mailJob[j].pc) THEN 1 ELSE 0
<1>4. A \in 0..1 /\ B \in 0..1
  OBVIOUS
<1>5. reached'[m] + A + mailFaults <= reached[m] + B + mailFaults' /\ mailFaults <= mailFaults'
  <2> HIDE DEF A, B
  <2> QED
    BY <1>2, <1>4
<1> QED
  BY <1>1, <1>2, <1>3, <1>5, JobMoves

\* A message whose job is added was not sent before.
LEMMA FirstJob ==
  ASSUME MailAssumption, MailInv, NEW m \in Workers, NEW j \in Reports, NEW kind \in MailKinds,
         Mail!Add(j, kind, m), message[m] # "sent", message' = [message EXCEPT ![m] = "sent"],
         UNCHANGED <<push, reached, mailFaults>>
  PROVE  MailInv'
<1> DEFINE r == Mail!NewJob(kind, m)
<1>1. r \in MailJobType /\ r.of = m /\ r.pc = "waiting" /\ r # None
  BY DEF Mail!NewJob, MailJobType, MailStates, MailAssumption
<1>2. mailJob' = [mailJob EXCEPT ![j] = r] /\ mailJob[j] = None
  BY DEF Mail!Add
<1> HIDE DEF r
<1>3. mailJob'[j] = r /\ \A k \in Reports : k # j => mailJob'[k] = mailJob[k]
  BY <1>2 DEF MailInv, MailTypes
<1>4. MailTypes'
  BY <1>1, <1>2 DEF MailInv, MailTypes
<1>5. reached[m] = 0 /\ JobsOf(m) = {}
  BY DEF MailInv, Untouched
<1>6. JobsOf(m)' = {j} /\ \A n \in Workers : n # m => JobsOf(n)' = JobsOf(n)
  BY <1>1, <1>2, <1>3, <1>5 DEF JobsOf
<1>7. \A n \in Workers : Untouched(n)'
  BY <1>6 DEF MailInv, MailTypes, Untouched
<1>8. Borne(m)'
  <2>1. Bearers(m)' \in SUBSET {j} /\ IsFiniteSet({j}) /\ Cardinality({j}) = 1
    <3>1. Bearers(m)' \in SUBSET {j}
      BY <1>6 DEF Bearers
    <3> QED
      BY <3>1, FS_Singleton
  <2>2. IsFiniteSet(Bearers(m)') /\ Cardinality(Bearers(m)') <= 1 /\ Cardinality(Bearers(m)') \in Nat
    BY <2>1, FS_Subset, FS_CardinalityType
  <2>3. reached'[m] = 0 /\ mailFaults' \in Nat
    BY <1>5 DEF MailInv, MailTypes
  <2> QED
    BY <2>2, <2>3 DEF Borne
<1>9. ASSUME NEW n \in Workers, n # m PROVE Borne(n)'
  <2>1. Bearers(n)' = Bearers(n)
    BY <1>2, <1>3, <1>6, <1>9 DEF Bearers, JobsOf
  <2> QED
    BY <2>1 DEF MailInv, Borne
<1>10. ASSUME NEW k \in Reports, mailJob'[k] # None, mailJob'[k].pc = "recordSuccess"
       PROVE  reached'[mailJob'[k].of] > 0
  BY <1>1, <1>3, <1>10 DEF MailInv
<1> QED
  BY <1>4, <1>7, <1>8, <1>9, <1>10 DEF MailInv, Recorded

\* The processor of reports passes its message on to another job.
LEMMA ForwardReportStep ==
  ASSUME MailAssumption, MailInv, NEW j \in Reports, Mail!ForwardReport(j)
  PROVE  MailInv'
<1>1. PICK k \in Reports \ {j} :
        /\ mailJob[k] = None
        /\ mailJob' = [mailJob EXCEPT ![k] = Mail!NewJob("reportMail", mailJob[j].of), ![j].pc = "forwarded"]
  BY DEF Mail!ForwardReport
<1>2. /\ mailJob[j] # None /\ mailJob[j].kind = "report" /\ mailJob[j].pc = "waiting"
      /\ UNCHANGED <<message, push, reached, mailFaults>>
  BY DEF Mail!ForwardReport, Mail!Is
<1>3. PICK m \in Workers : m = mailJob[j].of
  BY <1>2, JobTyped DEF MailJobType
<1> DEFINE r == Mail!NewJob("reportMail", m)
           q == [mailJob[j] EXCEPT !.pc = "forwarded"]
<1>4. r \in MailJobType /\ r.of = m /\ r.pc = "waiting" /\ r.kind = "reportMail" /\ r # None
  BY DEF Mail!NewJob, MailJobType, MailStates, MailKinds, MailAssumption
<1>5. q \in MailJobType /\ q.of = m /\ q.pc = "forwarded" /\ q.kind = "report" /\ q # None
  BY <1>2, <1>3, JobTyped DEF MailJobType, MailStates, MailAssumption
<1>6. /\ mailJob' \in [Reports -> MailJobType \cup {None}]
      /\ mailJob'[k] = r /\ mailJob'[j] = q
      /\ \A i \in Reports : i # j /\ i # k => mailJob'[i] = mailJob[i]
  BY <1>1, <1>3, <1>4, <1>5 DEF MailInv, MailTypes
<1> HIDE DEF r, q
<1>7. MailTypes'
  BY <1>2, <1>6 DEF MailInv, MailTypes
<1>8. k \notin JobsOf(m) /\ j \in JobsOf(m) /\ \A n \in Workers : n # m => JobsOf(n)' = JobsOf(n)
  BY <1>1, <1>2, <1>3, <1>4, <1>5, <1>6 DEF JobsOf
<1>9. /\ j \in Bearers(m) /\ k \notin Bearers(m)
      /\ Bearers(m)' = (Bearers(m) \ {j}) \cup {k}
  BY <1>2, <1>3, <1>4, <1>5, <1>6, <1>8 DEF Bearers, JobsOf, May
<1>10. Borne(m)'
  <2> DEFINE n == Cardinality(Bearers(m) \ {j})
             S == (Bearers(m) \ {j}) \cup {k}
  <2>1. n \in Nat /\ Cardinality(Bearers(m)) = n + 1 /\ IsFiniteSet(Bearers(m) \ {j})
    BY <1>9, CountOne DEF MailInv, Borne
  <2>2. IsFiniteSet(S) /\ Cardinality(S) = n + 1
    BY <1>9, <2>1, FS_AddElement
  <2> QED
    BY <1>2, <1>9, <2>1, <2>2 DEF MailInv, Borne
<1>11. ASSUME NEW n \in Workers, n # m PROVE Borne(n)'
  <2>1. Bearers(n)' = Bearers(n)
    BY <1>6, <1>8, <1>11, <1>3, <1>4 DEF Bearers, JobsOf
  <2> QED
    BY <1>2, <2>1 DEF MailInv, Borne
<1>12. \A n \in Workers : Recorded(n)' /\ Untouched(n)'
  BY <1>2, <1>8 DEF MailInv, Recorded, Untouched
<1>13. ASSUME NEW i \in Reports, mailJob'[i] # None, mailJob'[i].pc = "recordSuccess"
       PROVE  reached'[mailJob'[i].of] > 0
  BY <1>2, <1>4, <1>5, <1>6, <1>13 DEF MailInv
<1> QED
  BY <1>7, <1>10, <1>11, <1>12, <1>13 DEF MailInv

LEMMA RequestStep ==
  ASSUME MailAssumption, MailInv, NEW m \in Workers,
         \/ Mail!SaveNotification(m) \/ Mail!QueuePush(m) \/ Mail!PushRefused(m) \/ Mail!MarkAsRead(m)
         \/ \E kind \in {"mail", "report"} : Mail!QueueMail(m, kind)
  PROVE  MailInv'
<1>1. CASE Mail!QueuePush(m) \/ \E kind \in {"mail", "report"} : Mail!QueueMail(m, kind)
  <2>1. PICK j \in Reports, kind \in MailKinds : Mail!Add(j, kind, m)
    BY <1>1 DEF Mail!QueuePush, Mail!QueueMail, MailKinds
  <2>2. /\ message[m] # "sent" /\ message' = [message EXCEPT ![m] = "sent"]
        /\ UNCHANGED <<push, reached, mailFaults>>
    BY <1>1 DEF Mail!QueuePush, Mail!QueueMail
  <2> QED
    BY <2>1, <2>2, FirstJob
<1>2. CASE Mail!SaveNotification(m) \/ Mail!PushRefused(m) \/ Mail!MarkAsRead(m)
  <2>1. /\ UNCHANGED <<mailJob, reached>>
        /\ mailFaults' \in {mailFaults, mailFaults + 1}
        /\ \A n \in Workers : message'[n] # "sent" => message[n] # "sent"
        /\ \A n \in Workers : push'[n] = push[n] \/ push'[n] = "pending"
    BY <1>2 DEF Mail!SaveNotification, Mail!PushRefused, Mail!MarkAsRead, MailInv, MailTypes
  <2>2. MailTypes'
    BY <1>2 DEF Mail!SaveNotification, Mail!PushRefused, Mail!MarkAsRead, MailInv, MailTypes
  <2>3. \A n \in Workers : JobsOf(n)' = JobsOf(n) /\ Bearers(n)' = Bearers(n)
    BY <2>1 DEF JobsOf, Bearers
  <2>4. ASSUME NEW n \in Workers PROVE Borne(n)'
    <3>1. Borne(n) /\ reached[n] \in Nat /\ mailFaults \in Nat /\ Cardinality(Bearers(n)) \in Nat
      BY FS_CardinalityType DEF MailInv, MailTypes, Borne
    <3> QED
      BY <2>1, <2>3, <3>1 DEF Borne
  <2>5. \A n \in Workers : Recorded(n)' /\ Untouched(n)'
    BY <2>1, <2>3 DEF MailInv, Recorded, Untouched
  <2> QED
    BY <2>1, <2>2, <2>4, <2>5 DEF MailInv
<1> QED
  BY <1>1, <1>2

\* The push of a notification: what is recorded is what Firebase reported.
LEMMA RecordPushSteps ==
  ASSUME MailAssumption, MailInv, NEW j \in Reports,
         Mail!RecordNoDevice(j) \/ Mail!RecordPush(j) \/ Mail!CatchPush(j)
  PROVE  MailInv'
<1>1. mailJob[j] # None /\ mailJob[j].kind = "push" /\ UNCHANGED <<message, reached, mailFaults>>
  BY DEF Mail!RecordNoDevice, Mail!RecordPush, Mail!CatchPush, Mail!Is
<1>2. PICK m \in Workers : m = mailJob[j].of
  BY <1>1, JobTyped DEF MailJobType
<1>3. PICK pc \in {"completed", "waiting", "failed"} :
        Moved(j, pc) /\ (pc = "waiting" => mailJob[j].pc = "catching")
  <2>1. CASE Mail!CatchPush(j)
    BY <1>1, <2>1, Throws DEF Mail!CatchPush, Mail!Is
  <2>2. CASE Mail!RecordNoDevice(j) \/ Mail!RecordPush(j)
    BY <1>1, <2>2, GoesOn DEF Mail!RecordNoDevice, Mail!RecordPush, Mail!Complete, MailStates
  <2> QED
    BY <2>1, <2>2
<1>4. PICK v \in {"successful", "failed"} :
        /\ push' = [push EXCEPT ![m] = v]
        /\ v = "successful" => mailJob[j].pc = "recordSuccess"
  BY <1>2 DEF Mail!RecordNoDevice, Mail!RecordPush, Mail!CatchPush
<1>5. push' \in [Workers -> {None, "pending", "successful", "failed"}]
      /\ push'[m] = v /\ \A n \in Workers : n # m => push'[n] = push[n]
  BY <1>4 DEF MailInv, MailTypes
<1>6. MailTypes'
  BY <1>1, <1>3, <1>5 DEF Moved, MailInv, MailTypes
<1>7. Recorded(m)'
  BY <1>1, <1>2, <1>4, <1>5 DEF MailInv, Recorded
<1>8. May("push", pc) => May("push", mailJob[j].pc)
  BY <1>3 DEF May
<1>9. reached[m] \in Nat /\ mailFaults \in Nat
  BY DEF MailInv, MailTypes
<1> DEFINE A == IF May(mailJob[j].kind, pc) THEN 1 ELSE 0
           B == IF May(mailJob[j].kind, mailJob[j].pc) THEN 1 ELSE 0
<1>10. A \in 0..1 /\ B \in 0..1 /\ A <= B
  BY <1>1, <1>8
<1>11. reached'[m] + A + mailFaults <= reached[m] + B + mailFaults'
  <2> HIDE DEF A, B
  <2> QED
    BY <1>1, <1>9, <1>10
<1>12. pc \in MailStates /\ pc # "recordSuccess" /\ reached[m] <= reached'[m] /\ mailFaults <= mailFaults'
  BY <1>1, <1>9 DEF MailStates
<1> QED
  BY <1>1, <1>2, <1>3, <1>5, <1>6, <1>7, <1>11, <1>12, JobMoves

\* A message gets to its user: the job may not bring it again, or a failure paid for it.
LEMMA ReachSteps ==
  ASSUME MailAssumption, MailInv, NEW j \in Reports, NEW m \in Workers, mailJob[j] # None, m = mailJob[j].of,
         NEW pc \in MailStates, Moved(j, pc), Mail!Reach(m), UNCHANGED <<message, push>>,
         mailFaults' \in {mailFaults, mailFaults + 1}, May(mailJob[j].kind, mailJob[j].pc),
         mailFaults' = mailFaults => ~May(mailJob[j].kind, pc)
  PROVE  MailInv'
<1> DEFINE n == reached[m] + 1
<1>1. reached \in [Workers -> Nat] /\ reached[m] \in Nat /\ n \in Nat /\ mailFaults \in Nat
  BY DEF MailInv, MailTypes
<1>2. reached' = [reached EXCEPT ![m] = n]
  BY DEF Mail!Reach
<1>3. reached[m] <= n /\ n > 0 /\ n = reached[m] + 1
  BY <1>1
<1> HIDE DEF n
<1>4. reached' \in [Workers -> Nat] /\ reached'[m] = n /\ \A i \in Workers : i # m => reached'[i] = reached[i]
  BY <1>1, <1>2
<1>5. MailTypes'
  BY <1>1, <1>4 DEF Moved, MailInv, MailTypes
<1>6. Recorded(m)' /\ mailFaults <= mailFaults'
  BY <1>1, <1>3, <1>4 DEF Recorded
<1> DEFINE A == IF May(mailJob[j].kind, pc) THEN 1 ELSE 0
<1>7. A \in 0..1 /\ (mailFaults' = mailFaults => A = 0)
  OBVIOUS
<1>8. reached'[m] + A + mailFaults <= reached[m] + 1 + mailFaults'
  <2> HIDE DEF A
  <2> QED
    BY <1>1, <1>3, <1>4, <1>7
<1> QED
  BY <1>3, <1>4, <1>5, <1>6, <1>8, JobMoves

LEMMA SendSteps ==
  ASSUME MailAssumption, MailInv, NEW j \in Reports,
         Mail!SendPush(j) \/ Mail!SendMail(j) \/ Mail!MailAnswerLost(j)
  PROVE  MailInv'
<1>1. mailJob[j] # None /\ UNCHANGED <<message, push>> /\ mailJob[j].pc = "sending"
  BY DEF Mail!SendPush, Mail!SendMail, Mail!MailAnswerLost, Mail!Sends, Mail!Is
<1>2. PICK m \in Workers : m = mailJob[j].of
  BY <1>1, JobTyped DEF MailJobType
<1>3. CASE Mail!SendPush(j)
  <2>1. PICK failures \in 0 .. mailJob[j].fids :
          /\ IF failures < mailJob[j].fids THEN Mail!Reach(m) ELSE UNCHANGED reached
          /\ Mail!Goto(j, Mail!Outcome(failures, mailJob[j].fids))
    BY <1>2, <1>3 DEF Mail!SendPush
  <2>2. mailJob[j].kind = "push" /\ UNCHANGED mailFaults /\ mailJob[j].fids \in Nat
    BY <1>1, <1>3, JobTyped DEF Mail!SendPush, Mail!Is, MailJobType
  <2>3. CASE failures < mailJob[j].fids
    <3>1. Moved(j, "recordSuccess") /\ "recordSuccess" \in MailStates
      BY <1>1, <2>1, <2>2, <2>3, GoesOn DEF Mail!Outcome, MailStates
    <3>2. May("push", "sending") /\ ~May("push", "recordSuccess")
      BY DEF May
    <3> QED
      BY <1>1, <1>2, <2>1, <2>2, <2>3, <3>1, <3>2, ReachSteps
  <2>4. CASE ~(failures < mailJob[j].fids)
    <3>1. Moved(j, "recordFailed") /\ "recordFailed" \in MailStates
      BY <1>1, <2>1, <2>2, <2>4, GoesOn DEF Mail!Outcome, MailStates
    <3>2. ~May("push", "recordFailed")
      BY DEF May
    <3> QED
      BY <1>1, <2>1, <2>2, <2>4, <3>1, <3>2, JobGoes
  <2> QED
    BY <2>3, <2>4
<1>4. CASE Mail!SendMail(j)
  <2>1. mailJob[j].kind \in {"mail", "reportMail"} /\ Mail!Reach(m) /\ UNCHANGED mailFaults
    BY <1>2, <1>4 DEF Mail!SendMail, Mail!Sends, Mail!Is
  <2>2. Moved(j, "completed") /\ "completed" \in MailStates
    BY <1>1, <1>4, GoesOn DEF Mail!SendMail, Mail!Complete, MailStates
  <2>3. May(mailJob[j].kind, "sending") /\ ~May(mailJob[j].kind, "completed")
    BY <2>1 DEF May
  <2> QED
    BY <1>1, <1>2, <2>1, <2>2, <2>3, ReachSteps
<1>5. CASE Mail!MailAnswerLost(j)
  <2>1. mailJob[j].kind \in {"mail", "reportMail"} /\ Mail!Reach(m) /\ mailFaults' = mailFaults + 1
    BY <1>2, <1>5 DEF Mail!MailAnswerLost, Mail!Sends, Mail!Is
  <2>2. PICK pc \in {"waiting", "failed"} : Moved(j, pc)
    BY <1>1, <1>5, Throws DEF Mail!MailAnswerLost
  <2>3. May(mailJob[j].kind, "sending") /\ pc \in MailStates
    BY <2>1 DEF May, MailStates
  <2>4. mailFaults' # mailFaults
    BY <2>1 DEF MailInv, MailTypes
  <2> QED
    BY <1>1, <1>2, <2>1, <2>2, <2>3, <2>4, ReachSteps
<1> QED
  BY <1>3, <1>4, <1>5

LEMMA FailingSteps ==
  ASSUME MailAssumption, MailInv, NEW j \in Reports,
         \/ Mail!RecordThrows(j) \/ Mail!PushThrows(j) \/ Mail!ForwardThrows(j) \/ Mail!Stall(j)
  PROVE  MailInv'
<1>1. mailJob[j] # None /\ mailFaults' = mailFaults + 1 /\ UNCHANGED <<message, push, reached>>
  BY DEF Mail!RecordThrows, Mail!PushThrows, Mail!ForwardThrows, Mail!Stall, Mail!Is
<1>2. PICK pc \in {"catching", "waiting", "failed"} : Moved(j, pc)
  <2>1. CASE Mail!RecordThrows(j)
    BY <1>1, <2>1, GoesOn DEF Mail!RecordThrows, MailStates
  <2>2. CASE Mail!PushThrows(j) \/ Mail!ForwardThrows(j)
    BY <1>1, <2>2, Throws DEF Mail!PushThrows, Mail!ForwardThrows
  <2>3. CASE Mail!Stall(j)
    <3> DEFINE pc == IF mailJob[j].stalls = MaxStalled THEN "failed" ELSE "waiting"
               n == IF mailJob[j].stalls = MaxStalled THEN mailJob[j].stalls ELSE mailJob[j].stalls + 1
               r == [mailJob[j] EXCEPT !.stalls = n, !.pc = pc]
    <3>1. pc \in {"waiting", "failed"} /\ n \in Int
      BY <1>1, JobTyped DEF MailJobType
    <3>2. mailJob' = [mailJob EXCEPT ![j].pc = pc, ![j].stalls = n]
      BY <2>3 DEF Mail!Stall
    <3> HIDE DEF pc, n
    <3>3. r \in MailJobType /\ r.pc = pc /\ r.of = mailJob[j].of /\ r.kind = mailJob[j].kind
      BY <1>1, <3>1, JobTyped DEF MailJobType, MailStates
    <3>4. r # None
      BY <3>3 DEF MailAssumption
    <3>5. mailJob' = [mailJob EXCEPT ![j] = r]
      BY <1>1, <3>2, JobTyped DEF MailJobType, MailInv, MailTypes
    <3> HIDE DEF r
    <3> QED
      BY <3>1, <3>3, <3>4, <3>5 DEF Moved, MailInv, MailTypes
  <2> QED
    BY <2>1, <2>2, <2>3
<1> QED
  BY <1>1, <1>2, JobFails DEF MailStates

LEMMA QuietSteps ==
  ASSUME MailAssumption, MailInv, NEW j \in Reports,
         \/ Mail!ReadDevices(j) \/ Mail!PushRejected(j) \/ Mail!StartMail(j) \/ Mail!AttachReport(j)
         \/ Mail!MailRefused(j) \/ Mail!ReportForwarded(j)
  PROVE  MailInv'
<1>1. mailJob[j] # None /\ UNCHANGED <<message, push, reached, mailFaults>>
  BY DEF Mail!ReadDevices, Mail!PushRejected, Mail!StartMail, Mail!AttachReport, Mail!MailRefused,
     Mail!ReportForwarded, Mail!Sends, Mail!Is
<1>2. CASE Mail!ReadDevices(j)
  <2>1. PICK n \in 0 .. MaxDevices :
          mailJob' = [mailJob EXCEPT ![j] =
            [mailJob[j] EXCEPT !.pc = IF n = 0 THEN "noDevice" ELSE "sending", !.fids = n]]
    BY <1>2 DEF Mail!ReadDevices
  <2> DEFINE pc == IF n = 0 THEN "noDevice" ELSE "sending"
             r == [mailJob[j] EXCEPT !.pc = pc, !.fids = n]
  <2>2. pc \in {"noDevice", "sending"} /\ n \in Nat
    OBVIOUS
  <2>3. mailJob' = [mailJob EXCEPT ![j] = r]
    BY <2>1
  <2> HIDE DEF pc
  <2>4. r \in MailJobType /\ r.pc = pc /\ r.of = mailJob[j].of /\ r.kind = mailJob[j].kind
    BY <1>1, <2>2, JobTyped DEF MailJobType, MailStates
  <2>5. r # None
    BY <2>4 DEF MailAssumption
  <2> HIDE DEF r
  <2>6. Moved(j, pc)
    BY <2>3, <2>4, <2>5 DEF Moved, MailInv, MailTypes
  <2>7. May(mailJob[j].kind, pc) => May(mailJob[j].kind, mailJob[j].pc)
    BY <1>2, <2>2 DEF Mail!ReadDevices, Mail!Is, May
  <2> QED
    BY <1>1, <2>2, <2>6, <2>7, JobGoes DEF MailStates
<1>3. CASE Mail!PushRejected(j) \/ Mail!StartMail(j) \/ Mail!ReportForwarded(j)
  <2>1. PICK pc \in {"catching", "sending", "completed"} : Moved(j, pc) /\ Mail!Goto(j, pc) /\
          (May(mailJob[j].kind, pc) => May(mailJob[j].kind, mailJob[j].pc))
    <3>1. CASE Mail!PushRejected(j)
      BY <1>1, <3>1, GoesOn DEF Mail!PushRejected, Mail!Is, May, MailStates
    <3>2. CASE Mail!StartMail(j)
      BY <1>1, <3>2, GoesOn DEF Mail!StartMail, Mail!Is, May, MailStates
    <3>3. CASE Mail!ReportForwarded(j)
      BY <1>1, <3>3, GoesOn DEF Mail!ReportForwarded, Mail!Complete, Mail!Is, May, MailStates
    <3> QED
      BY <1>3, <3>1, <3>2, <3>3
  <2> QED
    BY <1>1, <2>1, JobGoes DEF MailStates
<1>4. CASE Mail!AttachReport(j) \/ Mail!MailRefused(j)
  <2>1. PICK pc \in {"sending", "waiting", "failed"} : Moved(j, pc)
    <3>1. CASE Mail!Goto(j, "sending")
      BY <1>1, <3>1, GoesOn DEF MailStates
    <3>2. CASE Mail!Throw(j)
      BY <1>1, <3>2, Throws
    <3> QED
      BY <1>4, <3>1, <3>2 DEF Mail!AttachReport, Mail!MailRefused
  <2>2. May(mailJob[j].kind, mailJob[j].pc)
    BY <1>4 DEF Mail!AttachReport, Mail!MailRefused, Mail!Sends, Mail!Is, May
  <2> QED
    BY <1>1, <2>1, <2>2, JobGoes DEF MailStates
<1> QED
  BY <1>2, <1>3, <1>4

LEMMA MailStep == MailAssumption /\ MailInv /\ [Mail!Next]_mailVars => MailInv'
<1> SUFFICES ASSUME MailAssumption, MailInv, [Mail!Next]_mailVars PROVE MailInv'
  OBVIOUS
<1>1. CASE UNCHANGED mailVars \/ Mail!ReportGoes
  <2>1. UNCHANGED <<message, push, mailJob, reached, mailFaults>>
    BY <1>1 DEF mailVars, Mail!ReportGoes
  <2> QED
    BY <2>1 DEF MailInv, MailTypes, Borne, Recorded, Untouched, Bearers, JobsOf
<1> QED
  BY <1>1, RequestStep, RecordPushSteps, SendSteps, FailingSteps, QuietSteps, ForwardReportStep DEF Mail!Next

\* A message gets to its user once, and once more only for each failure, however jobs are
\* tried again, stall and are passed on; a push recorded as successful did reach a device.
THEOREM MessagesOncePerFailure == MailAssumption => (Mail!Spec => []OncePerFailure)
<1> SUFFICES ASSUME MailAssumption PROVE Mail!Spec => []OncePerFailure
  OBVIOUS
<1>1. MailInv => OncePerFailure
  <2> SUFFICES ASSUME MailInv, NEW m \in Workers
               PROVE  reached[m] <= 1 + mailFaults /\ Recorded(m)
    BY DEF OncePerFailure, Mail!OncePerFailure, Recorded
  <2>1. /\ Borne(m) /\ Recorded(m) /\ reached[m] \in Nat /\ mailFaults \in Nat
        /\ Cardinality(Bearers(m)) \in Nat
    BY FS_CardinalityType DEF MailInv, MailTypes, Borne
  <2> QED
    BY <2>1 DEF Borne
<1> QED
  BY <1>1, MailStart, MailStep, PTL DEF Mail!Spec, Mail!vars, mailVars

-----------------------------------------------------------------------------
(* Reports whose attempts take long, and the parts side by side.           *)

Computing == INSTANCE ReportPipelineProofs WITH Reports <- Workers, status <- report

\* What the run explores is the specification that ReportPipelineProofs is about.
LEMMA ComputingIsPipeline == Pipeline!Spec => Computing!Spec
BY PTL DEF
  Computing!vars, Pipeline!vars, Computing!rowVars, Pipeline!rowVars,
  Computing!NoJob, Pipeline!NoJob, Computing!NewJob, Pipeline!NewJob,
  Computing!Idle, Pipeline!Idle, Computing!Init, Pipeline!Init, Computing!Fault, Pipeline!Fault,
  Computing!CreateRow, Pipeline!CreateRow, Computing!OccurrenceTaken, Pipeline!OccurrenceTaken,
  Computing!RequestReport, Pipeline!RequestReport,
  Computing!EnqueueRequested, Pipeline!EnqueueRequested,
  Computing!LoseRequest, Pipeline!LoseRequest, Computing!Cancel, Pipeline!Cancel,
  Computing!CheckDelete, Pipeline!CheckDelete, Computing!CommitDelete, Pipeline!CommitDelete,
  Computing!Goto, Pipeline!Goto, Computing!Write, Pipeline!Write,
  Computing!TakeJob, Pipeline!TakeJob, Computing!ClaimWon, Pipeline!ClaimWon,
  Computing!ClaimLost, Pipeline!ClaimLost, Computing!WriteReady, Pipeline!WriteReady,
  Computing!IsLastAttempt, Pipeline!IsLastAttempt, Computing!WriteFailure, Pipeline!WriteFailure,
  Computing!CreateSuccessor, Pipeline!CreateSuccessor,
  Computing!RowsExhausted, Pipeline!RowsExhausted,
  Computing!SuccessorRefused, Pipeline!SuccessorRefused,
  Computing!EnqueueSuccessor, Pipeline!EnqueueSuccessor,
  Computing!LoseSuccessor, Pipeline!LoseSuccessor, Computing!Settle, Pipeline!Settle,
  Computing!Return, Pipeline!Return, Computing!Throw, Pipeline!Throw,
  Computing!Unlock, Pipeline!Unlock, Computing!Crash, Pipeline!Crash,
  Computing!LoseLock, Pipeline!LoseLock, Computing!StalledCheck, Pipeline!StalledCheck,
  Computing!BeingComputed, Pipeline!BeingComputed, Computing!ResetStalled, Pipeline!ResetStalled,
  Computing!Api, Pipeline!Api, Computing!Attempt, Pipeline!Attempt,
  Computing!Environment, Pipeline!Environment, Computing!Next, Pipeline!Next,
  Computing!Spec, Pipeline!Spec

\* What ReportPipeline assumes of its constants.
ComputingAssumption ==
  /\ None \notin Workers
  /\ MaxAttempts \in Nat \ {0} /\ MaxStalled \in Nat
  /\ FaultKinds \subseteq {"crash", "lockLost", "queueDown"}
  /\ MaxFaults \in Nat /\ AttemptsFinish \in BOOLEAN

\* A report is computed twice at once only at the price of a lost lock, however long its
\* attempts take and whatever the cron resets (see ReportPipelineProofs).
THEOREM SlowReportsComputedOnce == ComputingAssumption => (Pipeline!Spec => []RecomputedPerFault)
<1>1. Computing!RecomputedPerFault => RecomputedPerFault
  BY DEF RecomputedPerFault, Computing!RecomputedPerFault, Pipeline!RecomputedPerFault,
     Computing!Cardinality, Pipeline!Cardinality
<1>2. ComputingAssumption => (Computing!Spec => []Computing!RecomputedPerFault)
  BY Computing!EachRecomputationCostsALock DEF ComputingAssumption
<1> QED
  BY <1>1, <1>2, ComputingIsPipeline, PTL

\* The run explores each of these systems as its own specification has it: a step of
\* SideSpec is one of their steps or leaves them alone.
THEOREM SidesAreTheirSpecs ==
  SideSpec => Spec /\ Pipeline!Spec /\ Links!Spec /\ Events!Spec /\ Assistant!Spec /\ Mail!Spec
<1>1. SideInit =>
        Init /\ Pipeline!Init /\ Links!Init /\ Events!Init /\ Assistant!Init /\ Mail!Init
  BY DEF SideInit
<1>2. [SideNext]_<<part, vars, pipelineVars, linkVars, eventVars, assistantVars, mailVars>> =>
        /\ [Next]_vars /\ [Pipeline!Next]_pipelineVars
        /\ [Links!Next]_linkVars /\ [Events!Next]_eventVars
        /\ [Assistant!Next]_assistantVars /\ [Mail!Next]_mailVars
  BY DEF SideNext
<1> QED
  BY <1>1, <1>2, PTL DEF SideSpec, Spec, Pipeline!Spec, Pipeline!vars, pipelineVars,
     Links!Spec, Links!vars, linkVars, Events!Spec, Events!vars, eventVars,
     Assistant!Spec, Assistant!vars, assistantVars, Mail!Spec, Mail!vars, mailVars
=============================================================================
