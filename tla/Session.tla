------------------------------ MODULE Session ------------------------------
(***************************************************************************)
(* An editing session of the Android application: the activity on the UI   *)
(* thread, the one background thread of android.os.AsyncTask that serves a *)
(* queue of tasks, and the core they share, whose methods are synchronized *)
(* (PenAndPDFActivity, MuPDFPageView, PenAndPDFCore, MuPDFCore, and        *)
(* saveAsInternal of jni/mupdf.c).                                         *)
(*                                                                         *)
(* A document is the set of edits it contains.  A file holds such a set,   *)
(* or Broken bytes, or does not exist (None).  A save is exported to a     *)
(* temporary file, the native document is closed and opened again from     *)
(* there, and the temporary file is then copied over the destination: each *)
(* of these is a step, because the process may be killed between any two   *)
(* of them and because the UI keeps running.  The core's monitor is held   *)
(* from the first to the last of them (CoreFree).                          *)
(*                                                                         *)
(* Opening the temporary file again is assumed to succeed, and a page view *)
(* is identified with its page.                                            *)
(***************************************************************************)
EXTENDS Naturals, FiniteSets, SequencesExt

CONSTANTS Strokes,       \* the ink annotations a user may accept
          BlankPages,    \* the pages a user may append
          Pages,         \* the pages the strokes are drawn on
          PageOf,        \* the page of each stroke
          Dests,         \* the documents (URIs) that can be saved to
          Failures,      \* the calls that may fail
          MaxRequests,   \* bound: how many saves and exports are asked for
          MaxRotations,  \* bound: how often the activity is recreated
          None, Broken

Edits == Strokes \cup BlankPages
Requests == 1..MaxRequests
Files == Dests \cup Requests       \* a temporary file has the number of the
                                   \* request that created its directory
ASSUME SessionAssumption ==
  /\ PageOf \in [Strokes -> Pages]
  /\ Strokes \cap BlankPages = {}
  /\ Failures \subseteq {"write", "rename", "open", "copy"}
  /\ MaxRequests \in Nat /\ MaxRotations \in Nat
  /\ Dests \cap Requests = {}
  /\ None \notin Dests \cup Requests \cup Edits \cup {Broken}
  /\ \A S \in SUBSET Edits : S \notin {None, Broken}

VARIABLES
  doc,       \* glo->doc: the edits of the open native document, or None
  base,      \* the contents of the file the native document was opened from
  path,      \* glo->current_path: that file, None for a buffer
  dirty,     \* pdf_document.dirty
  extra,     \* mHasAdditionalChanges
  uri,       \* PenAndPDFCore.uri
  tmp,       \* tmpFile: where it is and the file name it was made for, or None
  file,      \* the contents of each file
  queue,     \* tasks that wait for the background thread
  job,       \* the save or export it executes, or None
  pc,        \* how far it is
  activity,  \* "resumed", "stopped", or behind a "chooser" it started itself
  ignore,    \* mIgnoreSaveOnStopThisTime
  gen,       \* how often the activity has been recreated
  posted,    \* the share callbacks that wait for the UI: their activities
  adding,    \* mAddInkAnnotation of each page view: the stroke it adds, or None
  accepted,  \* the edits the user has made
  dropped,   \* the strokes whose task a page view has cancelled in the queue
  asked,     \* how many saves and exports have been asked for
  answers,   \* what the user was told of each
  saved,     \* what the last copy that was completed put into the destination
  failed     \* the calls that have failed so far

core  == <<doc, base, path, dirty, extra, uri, tmp>>
ui    == <<activity, ignore, gen, adding, accepted, dropped, asked>>
vars  == <<core, ui, posted, file, queue, job, pc, answers, saved, failed>>

NoTmp == [at |-> None, name |-> None]
CoreFree == pc \in {"idle", "stored", "failed"}

Init ==
  /\ uri \in Dests
  /\ file = [f \in Files |-> IF f = uri THEN {} ELSE None]
  /\ doc = {} /\ base = {} /\ path \in {uri, None}
  /\ dirty = FALSE /\ extra = FALSE /\ tmp = NoTmp
  /\ queue = <<>> /\ job = None /\ pc = "idle"
  /\ activity = "resumed" /\ ignore = FALSE /\ gen = 0 /\ posted = <<>>
  /\ adding = [p \in Pages |-> None]
  /\ accepted = {} /\ dropped = {} /\ asked = 0
  /\ answers = [n \in Requests |-> None] /\ saved = {} /\ failed = {}

---------------------------------------------------------------------------
(* The UI thread.                                                          *)

Queued == {queue[i].edit : i \in DOMAIN queue}
Cancelled(s) ==
  IF s \in Queued
  THEN RemoveAt(queue, CHOOSE i \in DOMAIN queue : queue[i].edit = s)
  ELSE queue
HasChanges == extra \/ (doc # None /\ dirty)

InkTask(s) == [kind |-> "ink", edit |-> s, to |-> None, gen |-> gen,
               id |-> 0, owed |-> {}]
Request(kind, to) == [kind |-> kind, edit |-> None, to |-> to, gen |-> gen,
                      id |-> asked + 1, owed |-> accepted]

(* A drawing is accepted: the page view cancels the task that adds its     *)
(* previous drawing and starts one for this drawing.                       *)
SaveDraw(s) ==
  LET old == adding[PageOf[s]] IN
  /\ activity = "resumed" /\ s \in Strokes \ accepted
  /\ queue' = Append(IF old = None THEN queue ELSE Cancelled(old), InkTask(s))
  /\ dropped' = dropped \cup ({old} \cap Queued \cap Strokes)
  /\ adding' = [adding EXCEPT ![PageOf[s]] = s]
  /\ accepted' = accepted \cup {s}
  /\ UNCHANGED <<core, activity, ignore, gen, asked, posted, file, job, pc,
                 answers, saved, failed>>

(* The page is scrolled away, or all views are rebuilt.                    *)
ReleaseResources(p) ==
  LET old == adding[p] IN
  /\ old # None
  /\ queue' = Cancelled(old)
  /\ dropped' = dropped \cup ({old} \cap Queued)
  /\ adding' = [adding EXCEPT ![p] = None]
  /\ UNCHANGED <<core, activity, ignore, gen, accepted, asked, posted, file,
                 job, pc, answers, saved, failed>>

(* A blank page is appended, by the UI thread and not by a task.           *)
InsertBlankPage(b) ==
  /\ activity = "resumed" /\ CoreFree /\ b \in BlankPages \ accepted
  /\ extra' = TRUE
  /\ doc' = IF doc = None THEN None ELSE doc \cup {b}
  /\ accepted' = IF doc = None THEN accepted ELSE accepted \cup {b}
  /\ UNCHANGED <<base, path, dirty, uri, tmp, activity, ignore, gen, adding,
                 dropped, asked, posted, file, queue, job, pc, answers, saved,
                 failed>>

(* Mutant: a save overtakes the tasks that were started before it.         *)
AskAheadOfQueue(kind, to) ==
  /\ asked < MaxRequests
  /\ asked' = asked + 1
  /\ queue' = <<Request(kind, to)>> \o queue

Ask(kind, to) ==
  /\ asked < MaxRequests
  /\ asked' = asked + 1
  /\ queue' = Append(queue, Request(kind, to))

(* Save (to None: wherever the document came from), save as, share, print. *)
AskToSave(kind, to) ==
  /\ activity = "resumed"
  /\ Ask(kind, to)
  /\ UNCHANGED <<core, activity, ignore, gen, adding, accepted, dropped,
                 posted, file, job, pc, answers, saved, failed>>

(* Sharing starts another application on top of this one.                  *)
ShareDone ==
  /\ posted # <<>> /\ posted' = Tail(posted)
  /\ ignore' = (ignore \/ Head(posted) = gen)
  /\ UNCHANGED <<core, activity, gen, adding, accepted, dropped, asked, file,
                 queue, job, pc, answers, saved, failed>>

OnStop ==
  /\ activity = "resumed" /\ CoreFree
  /\ IF HasChanges /\ ~ignore THEN Ask("save", None)
                              ELSE UNCHANGED <<asked, queue>>
  /\ activity' = IF ignore THEN "chooser" ELSE "stopped"
  /\ ignore' = FALSE
  /\ UNCHANGED <<core, gen, adding, accepted, dropped, posted, file, job, pc,
                 answers, saved, failed>>

OnResume ==
  /\ activity # "resumed" /\ activity' = "resumed"
  /\ UNCHANGED <<core, ignore, gen, adding, accepted, dropped, asked, posted,
                 file, queue, job, pc, answers, saved, failed>>

(* Mutant: the tasks of the old activity are cancelled.                    *)
RetainCancelsTasks ==
  /\ gen < MaxRotations
  /\ gen' = gen + 1
  /\ ignore' = FALSE /\ adding' = [p \in Pages |-> None]
  /\ queue' = <<>>
  /\ UNCHANGED <<core, activity, accepted, dropped, asked, posted, file, job,
                 pc, answers, saved, failed>>

(* The configuration changes: the next activity gets the core, this one    *)
(* and the tasks it has started are left with core = null.                 *)
OnRetainCore ==
  /\ gen < MaxRotations
  /\ gen' = gen + 1
  /\ ignore' = FALSE /\ adding' = [p \in Pages |-> None]
  /\ UNCHANGED <<core, activity, accepted, dropped, asked, posted, file, queue,
                 job, pc, answers, saved, failed>>

---------------------------------------------------------------------------
(* The background thread.                                                  *)

Task == Head(queue)
Ready(kinds) == pc = "idle" /\ queue # <<>> /\ Task.kind \in kinds

AddInkAnnotation ==
  /\ Ready({"ink"})
  /\ queue' = Tail(queue)
  /\ doc' = IF doc = None THEN None ELSE doc \cup {Task.edit}
  /\ dirty' = (dirty \/ doc # None)
  /\ UNCHANGED <<base, path, extra, uri, tmp, ui, posted, file, job, pc,
                 answers, saved, failed>>

(* The activity that asked has no core any more.                           *)
CoreIsNull ==
  /\ Ready({"save", "export"}) /\ Task.gen # gen
  /\ queue' = Tail(queue)
  /\ answers' = [answers EXCEPT ![Task.id] = "failed"]
  /\ UNCHANGED <<core, ui, posted, file, job, pc, saved, failed>>

(* Mutant: the old temporary file is deleted before it has been copied.    *)
ExportDeletesFirst ==
  /\ Ready({"save", "export"}) /\ Task.gen = gen
  /\ queue' = Tail(queue)
  /\ job' = [task |-> Task, had |-> HasChanges, out |-> None, old |-> None]
  /\ tmp' = IF tmp.name = uri THEN tmp ELSE [at |-> Task.id, name |-> uri]
  /\ file' = IF tmp.at \in Requests /\ tmp.name # uri
             THEN [file EXCEPT ![tmp.at] = None] ELSE file
  /\ extra' = FALSE
  /\ pc' = "write"
  /\ UNCHANGED <<doc, base, path, dirty, uri, ui, posted, answers, saved, failed>>

(* export() up to the native call: remember what has to be put back, make  *)
(* a temporary file if there is none of this name, forget the extra        *)
(* changes.                                                                *)
Export ==
  /\ Ready({"save", "export"}) /\ Task.gen = gen
  /\ queue' = Tail(queue)
  /\ job' = [task |-> Task, had |-> HasChanges, out |-> None,
             old |-> IF tmp.name = uri THEN None ELSE tmp.at]
  /\ tmp' = IF tmp.name = uri THEN tmp ELSE [at |-> Task.id, name |-> uri]
  /\ extra' = FALSE
  /\ pc' = "write"
  /\ UNCHANGED <<doc, base, path, dirty, uri, ui, posted, file, answers, saved,
                 failed>>

(* An incremental save copies the file the document was opened from and    *)
(* appends what has changed since: that gives the document only if the     *)
(* file is still what it was.  A document from a buffer is written whole.  *)
Output == IF path = None THEN doc
          ELSE IF file[path] = base THEN doc ELSE Broken

WriteDocument ==
  /\ pc = "write" /\ doc # None
  /\ job' = [job EXCEPT !.out = Output]
  /\ doc' = None
  /\ pc' = "rename"
  /\ UNCHANGED <<base, path, dirty, extra, uri, tmp, ui, posted, file, queue,
                 answers, saved, failed>>

FailsAt(step) ==
  /\ pc = step /\ step \in Failures
  /\ failed' = failed \cup {step}
  /\ pc' = "failed"
  /\ UNCHANGED <<core, ui, posted, file, queue, job, answers, saved>>

(* Nothing can be written once the document is closed for good.            *)
NothingToWrite ==
  /\ pc = "write" /\ doc = None
  /\ pc' = "failed"
  /\ UNCHANGED <<core, ui, posted, file, queue, job, answers, saved, failed>>

(* Mutant: the result of rename() is ignored, as saveInternal does.        *)
RenameUnchecked ==
  /\ pc = "rename"
  /\ \/ file' = [f \in Files |-> IF f = tmp.at THEN job.out
                                 ELSE IF f = job.old THEN None ELSE file[f]]
     \/ UNCHANGED file
  /\ pc' = "reopen"
  /\ UNCHANGED <<core, ui, posted, queue, job, answers, saved, failed>>

(* The output replaces the temporary file; one of another name is deleted. *)
RenameOutput ==
  /\ pc = "rename"
  /\ file' = [f \in Files |-> IF f = tmp.at THEN job.out
                              ELSE IF f = job.old THEN None ELSE file[f]]
  /\ pc' = "reopen"
  /\ UNCHANGED <<core, ui, posted, queue, job, answers, saved, failed>>

(* Mutant: the extra changes are not put back after the export.            *)
ReopenForgets ==
  /\ pc = "reopen"
  /\ doc' = file[tmp.at] /\ base' = file[tmp.at] /\ path' = tmp.at
  /\ dirty' = FALSE
  /\ pc' = IF job.task.kind = "export" THEN "stored" ELSE "open"
  /\ UNCHANGED <<extra, uri, tmp, ui, posted, file, queue, job, answers, saved,
                 failed>>

Reopen ==
  /\ pc = "reopen"
  /\ doc' = file[tmp.at] /\ base' = file[tmp.at] /\ path' = tmp.at
  /\ dirty' = FALSE /\ extra' = job.had
  /\ pc' = IF job.task.kind = "export" THEN "stored" ELSE "open"
  /\ UNCHANGED <<uri, tmp, ui, posted, file, queue, job, answers, saved, failed>>

Target == IF job.task.to = None THEN uri ELSE job.task.to

(* Opening the destination for writing truncates it.                       *)
OpenDestination ==
  /\ pc = "open"
  /\ file' = [file EXCEPT ![Target] = Broken]
  /\ pc' = "copy"
  /\ UNCHANGED <<core, ui, posted, queue, job, answers, saved, failed>>

CopyStream ==
  /\ pc = "copy"
  /\ file' = [file EXCEPT ![Target] = file[tmp.at]]
  /\ saved' = file[tmp.at]
  /\ uri' = Target
  /\ extra' = FALSE
  /\ pc' = "stored"
  /\ UNCHANGED <<doc, base, path, dirty, tmp, ui, posted, queue, job, answers,
                 failed>>

(* Mutant: the task record is kept when the task has ended.                *)
FinishKeepsTask ==
  /\ pc \in {"stored", "failed"}
  /\ answers' = [answers EXCEPT ![job.task.id] =
                   IF pc = "stored" THEN "ok" ELSE "failed"]
  /\ pc' = "idle"
  /\ UNCHANGED <<core, ui, posted, file, queue, job, saved, failed>>

(* Mutant: without its core the activity never gets to an answer.          *)
FinishNeedsCore ==
  /\ pc \in {"stored", "failed"} /\ job.task.gen = gen
  /\ answers' = [answers EXCEPT ![job.task.id] =
                   IF pc = "stored" THEN "ok" ELSE "failed"]
  /\ posted' = IF pc = "stored" /\ job.task.kind = "export"
               THEN Append(posted, gen) ELSE posted
  /\ job' = None /\ pc' = "idle"
  /\ UNCHANGED <<core, ui, file, queue, saved, failed>>

(* Back in the activity, which may have lost its core meanwhile.           *)
Finish ==
  /\ pc \in {"stored", "failed"}
  /\ LET ok == pc = "stored" /\ (job.task.kind = "save" => job.task.gen = gen)
     IN  /\ answers' = [answers EXCEPT ![job.task.id] =
                          IF ok THEN "ok" ELSE "failed"]
         /\ posted' = IF ok /\ job.task.kind = "export"
                      THEN Append(posted, job.task.gen) ELSE posted
  /\ job' = None /\ pc' = "idle"
  /\ UNCHANGED <<core, ui, file, queue, saved, failed>>

UINext ==
  \/ \E s \in Strokes : SaveDraw(s)
  \/ \E p \in Pages : ReleaseResources(p)
  \/ \E b \in BlankPages : InsertBlankPage(b)
  \/ \E to \in Dests \cup {None} : AskToSave("save", to)
  \/ AskToSave("export", None)
  \/ ShareDone
  \/ OnStop
  \/ OnResume
  \/ OnRetainCore

Background ==
  \/ AddInkAnnotation
  \/ CoreIsNull
  \/ Export
  \/ WriteDocument
  \/ NothingToWrite
  \/ \E step \in Failures : FailsAt(step)
  \/ RenameOutput
  \/ Reopen
  \/ OpenDestination
  \/ CopyStream
  \/ Finish

Next == UINext \/ Background

Spec == Init /\ [][Next]_vars

(* The system runs the background thread; what the user does is up to him. *)
FairSpec == Spec /\ WF_vars(Background)

---------------------------------------------------------------------------
(* Properties.                                                             *)

Contents == (SUBSET Edits) \cup {None, Broken}
Tasks == [kind : {"ink", "save", "export"}, edit : Strokes \cup {None},
          to : Dests \cup {None}, gen : 0..MaxRotations,
          id : 0..MaxRequests, owed : SUBSET Edits]

(* Types of the variables.                                                 *)
TypeOK ==
  /\ doc \in Contents /\ base \in Contents /\ saved \in Contents
  /\ path \in Files \cup {None} /\ uri \in Dests
  /\ tmp \in [at : Requests, name : Dests] \cup {NoTmp}
  /\ {dirty, extra, ignore} \subseteq BOOLEAN
  /\ file \in [Files -> Contents]
  /\ \A i \in DOMAIN queue : queue[i] \in Tasks
  /\ \/ job = None /\ pc = "idle"
     \/ /\ job.task \in Tasks /\ job.had \in BOOLEAN
        /\ job.out \in Contents /\ job.old \in Requests \cup {None}
        /\ pc \in {"write", "rename", "reopen", "open", "copy", "stored",
                   "failed"}
  /\ activity \in {"resumed", "stopped", "chooser"}
  /\ gen \in 0..MaxRotations /\ asked \in 0..MaxRequests
  /\ \A i \in DOMAIN posted : posted[i] \in 0..MaxRotations
  /\ adding \in [Pages -> Strokes \cup {None}]
  /\ accepted \subseteq Edits /\ dropped \subseteq Strokes
  /\ answers \in [Requests -> {None, "ok", "failed"}]
  /\ failed \subseteq Failures

(* The file the open document came from still has the bytes it was opened  *)
(* with, whatever has been exported, copied over, renamed or deleted since *)
(* (saveAsInternal appends to a copy of it).                               *)
BaseOnDisk == doc # None /\ path # None => file[path] = base

(* Wherever the process is killed, some file on disk holds everything that *)
(* the last completed save had put into the destination: saveAs truncates  *)
(* the destination only when the temporary file is complete.               *)
ACopySurvives ==
  \E f \in Files : file[f] \notin {None, Broken} /\ saved \subseteq file[f]

(* An edit the user has made is in the document or still in the queue,     *)
(* unless a page view cancelled the task that adds it; exporting, saving   *)
(* and a change of the activity lose none.                                 *)
NoEditIsLost ==
  doc # None => accepted \subseteq doc \cup Queued \cup dropped

(* hasChanges() says so as long as the document has an edit that no save   *)
(* has brought to a destination: it is what onStop, onBackPressed and      *)
(* checkSaveThenCall ask before they let the document go.                  *)
UnsavedEditsFlagged ==
  CoreFree /\ doc # None => HasChanges \/ doc \subseteq saved

(* The same, as long as the native code can write its output file.         *)
FlaggedUnlessWriteFails == "write" \in failed \/ UnsavedEditsFlagged

(* A save that is reported as done has put into the document's file all    *)
(* edits the user had made when asking for it, those still queued at that  *)
(* time included (except cancelled ones).                                  *)
DoneMeansSaved ==
  [][job # None /\ job.task.kind = "save" /\ answers' # answers
       /\ answers'[job.task.id] = "ok"
     => job.task.owed \subseteq file[uri] \cup dropped]_vars

(* Every save or export the user asks for is answered.                     *)
RequestsAnswered ==
  \A n \in Requests : asked = n ~> answers[n] # None

(* "Automatically save current file when the app is stopped and sent to    *)
(* the background": once everything has calmed down the file has all edits.*)
StoppedMeansSaved ==
  activity = "stopped" /\ queue = <<>> /\ job = None /\ failed = {}
  => accepted \ dropped \subseteq file[uri]
=============================================================================
