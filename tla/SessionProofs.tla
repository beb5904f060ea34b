---------------------------- MODULE SessionProofs ----------------------------
(***************************************************************************)
(* Proofs about module Session, for any strokes, pages and destinations,   *)
(* any set of calls that may fail, and any bounds.                         *)
(***************************************************************************)
EXTENDS Session, ListLemmas

-----------------------------------------------------------------------------
(* The inductive invariant.                                                *)

EditsOf(q) == {q[i].edit : i \in DOMAIN q}

\* What the document contains: while a save has it closed, what has been
\* written, or is in the temporary file that is opened next.  None: it is
\* closed for good.
Content == IF doc # None THEN doc
           ELSE IF pc = "rename" THEN job.out
           ELSE IF pc = "reopen" THEN file[tmp.at] ELSE None

Exporting == {"write", "rename", "reopen", "open", "copy"}
Jobs == [task : Tasks, had : BOOLEAN, out : Contents, old : Requests \cup {None}]

\* A task adds a stroke, or is a numbered request.
TaskOK(t) ==
  /\ t \in Tasks
  /\ IF t.kind = "ink" THEN t.edit \in Strokes /\ t.owed = {}
     ELSE t.edit = None /\ t.id \in Requests

\* The types, with what the queue and the stages of a save rely on.
Typed ==
  /\ doc \in Contents /\ base \in Contents /\ saved \in SUBSET Edits
  /\ path \in Files \cup {None} /\ uri \in Dests
  /\ tmp \in [at : Requests, name : Dests] \cup {NoTmp}
  /\ dirty \in BOOLEAN /\ extra \in BOOLEAN /\ ignore \in BOOLEAN
  /\ file \in [Files -> Contents]
  /\ queue \in Seq(Tasks) /\ \A i \in DOMAIN queue : TaskOK(queue[i])
  /\ \/ job = None /\ pc = "idle"
     \/ /\ job \in Jobs /\ TaskOK(job.task) /\ job.task.kind # "ink"
        /\ pc \in Exporting \cup {"stored", "failed"}
  /\ activity \in {"resumed", "stopped", "chooser"}
  /\ gen \in 0..MaxRotations /\ asked \in 0..MaxRequests
  /\ posted \in Seq(0..MaxRotations)
  /\ adding \in [Pages -> Strokes \cup {None}]
  /\ accepted \subseteq Edits /\ dropped \subseteq Strokes
  /\ answers \in [Requests -> {None, "ok", "failed"}]
  /\ failed \subseteq Failures

\* While a save is under way it writes to the temporary file of the
\* document's name; the document is closed from the writing of the file to
\* its opening, and is then the temporary file until the core is free.
Stages ==
  /\ pc \in Exporting => tmp # NoTmp /\ tmp.name = uri
  /\ pc \in {"rename", "reopen"} => doc = None
  /\ pc \in {"open", "copy"} => doc # None /\ doc = file[tmp.at] /\ path = tmp.at

\* The document, open or closed, is a set of edits.
ContentOK ==
  /\ Content \in Contents \ {Broken}
  /\ pc \in {"rename", "reopen"} => Content # None

\* It has all that the last completed save has brought to a destination.
SavedInContent == Content # None => saved \subseteq Content

Holds(f) == file[f] \notin {None, Broken} /\ saved \subseteq file[f]

\* The document's file holds what has been saved, or else the temporary file
\* of its name does; and so does the latter when the former is truncated.
CopyKept ==
  /\ Holds(uri) \/ (tmp # NoTmp /\ tmp.name = uri /\ Holds(tmp.at))
  /\ pc \in {"open", "copy"} => Holds(tmp.at)

\* No edit that was accepted is missing.
EditsKept == Content # None => accepted \subseteq Content \cup Queued \cup dropped

\* What a request owes is in the document or ahead of it in the queue.
OwedAhead(q, c, d) ==
  \A i \in DOMAIN q :
    q[i].owed \subseteq c \cup d \cup {q[j].edit : j \in 1..(i - 1)}
OwedKept ==
  /\ Content # None => OwedAhead(queue, Content, dropped)
  /\ pc \in Exporting /\ Content # None
       => job.task.owed \subseteq Content \cup dropped
  /\ pc = "stored" /\ job.task.kind = "save"
       => job.task.owed \subseteq file[uri] \cup dropped

\* As long as no write has failed: an edit that is not saved is flagged, or
\* the save under way will flag it again.
Flagged ==
  \/ "write" \in failed
  \/ Content = None
  \/ Content \subseteq saved
  \/ pc \notin {"write", "rename", "reopen"} /\ (dirty \/ extra)
  \/ pc \in {"write", "rename", "reopen"} /\ job.had

IInv == /\ Typed /\ Stages /\ BaseOnDisk /\ ContentOK /\ SavedInContent
        /\ CopyKept /\ EditsKept /\ OwedKept /\ Flagged

-----------------------------------------------------------------------------
(* The queue: a task is appended, the first one taken, one cancelled.      *)

\* Appending a task that owes nothing beyond what is there or queued.
LEMMA AppendQueue ==
  ASSUME NEW q \in Seq(Tasks), NEW t \in Tasks, NEW c, NEW d
  PROVE  /\ Append(q, t) \in Seq(Tasks)
         /\ EditsOf(Append(q, t)) = EditsOf(q) \cup {t.edit}
         /\ (\A i \in DOMAIN q : TaskOK(q[i])) /\ TaskOK(t)
              => \A i \in DOMAIN Append(q, t) : TaskOK(Append(q, t)[i])
         /\ OwedAhead(q, c, d) /\ t.owed \subseteq c \cup d \cup EditsOf(q)
              => OwedAhead(Append(q, t), c, d)
<1>. DEFINE r == Append(q, t)
            n == Len(q)
<1>1. /\ r \in Seq(Tasks) /\ n \in Nat /\ DOMAIN q = 1..n
      /\ DOMAIN r = 1..(n + 1) /\ r[n + 1] = t /\ \A i \in 1..n : r[i] = q[i]
  OBVIOUS
<1>. HIDE DEF r, n
<1>2. EditsOf(r) = EditsOf(q) \cup {t.edit}
  <2>1. \A i \in DOMAIN r : i \in DOMAIN q \/ i = n + 1
    BY <1>1
  <2>2. n + 1 \in DOMAIN r /\ \A i \in DOMAIN q : i \in DOMAIN r
    BY <1>1
  <2>. QED
    BY <1>1, <2>1, <2>2 DEF EditsOf
<1>3. ASSUME \A i \in DOMAIN q : TaskOK(q[i]), TaskOK(t), NEW i \in DOMAIN r
      PROVE  TaskOK(r[i])
  BY <1>1, <1>3
<1>4. ASSUME OwedAhead(q, c, d), t.owed \subseteq c \cup d \cup EditsOf(q),
             NEW i \in DOMAIN r
      PROVE  r[i].owed \subseteq c \cup d \cup {r[j].edit : j \in 1..(i - 1)}
  <2>1. \A k \in 1..(n + 1) : {r[j].edit : j \in 1..(k - 1)}
                              = {q[j].edit : j \in 1..(k - 1)}
    <3>1. \A k \in 1..(n + 1) : \A j \in 1..(k - 1) : j \in 1..n
      BY <1>1
    <3>. QED
      BY <1>1, <3>1
  <2>2. CASE i \in 1..n
    BY <1>1, <1>4, <2>1, <2>2 DEF OwedAhead
  <2>3. CASE i = n + 1
    <3>1. {r[j].edit : j \in 1..(i - 1)} = EditsOf(q)
      BY <1>1, <2>1, <2>3 DEF EditsOf
    <3>. QED
      BY <1>1, <1>4, <2>3, <3>1
  <2>. QED
    BY <1>1, <2>2, <2>3
<1>5. OwedAhead(q, c, d) /\ t.owed \subseteq c \cup d \cup EditsOf(q)
        => OwedAhead(r, c, d)
  BY <1>4 DEF OwedAhead
<1>. QED
  BY <1>1, <1>2, <1>3, <1>5 DEF r

\* Taking the first task: what it owes is there, and what the others owe is
\* there once its own edit is.
LEMMA TakeTask ==
  ASSUME NEW q \in Seq(Tasks), q # <<>>, NEW c, NEW d
  PROVE  /\ Head(q) \in Tasks /\ Tail(q) \in Seq(Tasks)
         /\ EditsOf(q) = EditsOf(Tail(q)) \cup {Head(q).edit}
         /\ (\A i \in DOMAIN q : TaskOK(q[i]))
              => TaskOK(Head(q)) /\ \A i \in DOMAIN Tail(q) : TaskOK(Tail(q)[i])
         /\ OwedAhead(q, c, d) => Head(q).owed \subseteq c \cup d
         /\ OwedAhead(q, c, d) => OwedAhead(Tail(q), c \cup {Head(q).edit}, d)
<1>. DEFINE r == Tail(q)
            h == Head(q)
            n == Len(q)
<1>1. /\ r \in Seq(Tasks) /\ n \in Nat /\ n # 0 /\ DOMAIN q = 1..n
      /\ h = q[1] /\ h \in Tasks
      /\ DOMAIN r = 1..(n - 1) /\ \A i \in 1..(n - 1) : r[i] = q[i + 1]
  OBVIOUS
<1>. HIDE DEF r, h, n
<1>2. \A i \in 1..n : i = 1 \/ (i - 1 \in 1..(n - 1) /\ (i - 1) + 1 = i)
  BY <1>1
<1>3. 1 \in 1..n /\ \A i \in 1..(n - 1) : i + 1 \in 1..n
  BY <1>1
<1>4. EditsOf(q) = EditsOf(r) \cup {h.edit}
  <2>1. \A i \in DOMAIN q : i = 1 \/ (i - 1 \in DOMAIN r /\ r[i - 1] = q[i])
    BY <1>1, <1>2
  <2>2. EditsOf(q) \subseteq EditsOf(r) \cup {h.edit}
    BY <1>1, <2>1 DEF EditsOf
  <2>3. EditsOf(r) \cup {h.edit} \subseteq EditsOf(q)
    BY <1>1, <1>3 DEF EditsOf
  <2>. QED
    BY <2>2, <2>3
<1>5. (\A i \in DOMAIN q : TaskOK(q[i]))
        => TaskOK(h) /\ \A i \in DOMAIN r : TaskOK(r[i])
  BY <1>1, <1>3
<1>6. ASSUME OwedAhead(q, c, d) PROVE h.owed \subseteq c \cup d
  <2>1. q[1].owed \subseteq c \cup d \cup {q[j].edit : j \in 1..(1 - 1)}
    BY <1>1, <1>3, <1>6 DEF OwedAhead
  <2>2. \A j \in 1..(1 - 1) : FALSE
    OBVIOUS
  <2>. QED
    BY <1>1, <2>1, <2>2
<1>7. ASSUME OwedAhead(q, c, d), NEW i \in DOMAIN r
      PROVE  r[i].owed \subseteq c \cup {h.edit} \cup d
                                   \cup {r[j].edit : j \in 1..(i - 1)}
  <2>1. /\ i + 1 \in DOMAIN q /\ r[i] = q[i + 1]
        /\ \A j \in 1..((i + 1) - 1) :
             j = 1 \/ (j - 1 \in 1..(i - 1) /\ r[j - 1] = q[j])
    BY <1>1, <1>2
  <2>2. q[i + 1].owed \subseteq c \cup d \cup {q[j].edit : j \in 1..((i + 1) - 1)}
    BY <1>7, <2>1 DEF OwedAhead
  <2>3. {q[j].edit : j \in 1..((i + 1) - 1)}
          \subseteq {h.edit} \cup {r[j].edit : j \in 1..(i - 1)}
    BY <1>1, <2>1
  <2>. QED
    BY <2>1, <2>2, <2>3
<1>8. OwedAhead(q, c, d) => OwedAhead(r, c \cup {h.edit}, d)
  BY <1>7 DEF OwedAhead
<1>. QED
  BY <1>1, <1>4, <1>5, <1>6, <1>8 DEF r, h

\* Cancelling a task: its edit counts as dropped.
LEMMA CancelTask ==
  ASSUME NEW q \in Seq(Tasks), NEW k \in DOMAIN q, NEW c, NEW d
  PROVE  /\ RemoveAt(q, k) \in Seq(Tasks)
         /\ EditsOf(q) = EditsOf(RemoveAt(q, k)) \cup {q[k].edit}
         /\ (\A i \in DOMAIN q : TaskOK(q[i]))
              => \A i \in DOMAIN RemoveAt(q, k) : TaskOK(RemoveAt(q, k)[i])
         /\ OwedAhead(q, c, d)
              => OwedAhead(RemoveAt(q, k), c, d \cup {q[k].edit})
<1>. DEFINE r == RemoveAt(q, k)
            n == Len(q)
<1>0. n \in Nat /\ DOMAIN q = 1..n /\ k \in 1..n
  OBVIOUS
<1>1. /\ r \in Seq(Tasks) /\ Len(r) = n - 1
      /\ \A j \in 1..(n - 1) : r[j] = IF j < k THEN q[j] ELSE q[j + 1]
  BY RemoveAtElements
<1>2. DOMAIN r = 1..(n - 1)
  BY <1>1
<1>. HIDE DEF r, n
<1>3. \A i \in 1..n : \/ i = k
                      \/ i < k /\ i \in 1..(n - 1) /\ r[i] = q[i]
                      \/ i > k /\ i - 1 \in 1..(n - 1) /\ r[i - 1] = q[i]
  BY <1>0, <1>1
<1>4. \A i \in 1..(n - 1) : \/ i < k /\ i \in 1..n /\ r[i] = q[i]
                            \/ i >= k /\ i + 1 \in 1..n /\ r[i] = q[i + 1]
  BY <1>0, <1>1
<1>5. EditsOf(q) = EditsOf(r) \cup {q[k].edit}
  <2>1. EditsOf(q) \subseteq EditsOf(r) \cup {q[k].edit}
    BY <1>0, <1>2, <1>3 DEF EditsOf
  <2>2. EditsOf(r) \cup {q[k].edit} \subseteq EditsOf(q)
    BY <1>0, <1>2, <1>4 DEF EditsOf
  <2>. QED
    BY <2>1, <2>2
<1>6. (\A i \in DOMAIN q : TaskOK(q[i])) => \A i \in DOMAIN r : TaskOK(r[i])
  BY <1>0, <1>2, <1>4
<1>7. ASSUME OwedAhead(q, c, d), NEW i \in DOMAIN r
      PROVE  r[i].owed \subseteq c \cup (d \cup {q[k].edit})
                                   \cup {r[j].edit : j \in 1..(i - 1)}
  <2>1. CASE i < k
    <3>1. /\ i \in DOMAIN q /\ r[i] = q[i]
          /\ \A j \in 1..(i - 1) : r[j] = q[j]
      BY <1>0, <1>1, <1>2, <2>1
    <3>2. q[i].owed \subseteq c \cup d \cup {q[j].edit : j \in 1..(i - 1)}
      BY <1>7, <3>1 DEF OwedAhead
    <3>. QED
      BY <3>1, <3>2
  <2>2. CASE i >= k
    <3>1. /\ i + 1 \in DOMAIN q /\ r[i] = q[i + 1]
          /\ \A j \in 1..((i + 1) - 1) :
               \/ j = k
               \/ j \in 1..(i - 1) /\ r[j] = q[j]
               \/ j - 1 \in 1..(i - 1) /\ r[j - 1] = q[j]
      BY <1>0, <1>1, <1>2, <1>3, <2>2
    <3>2. q[i + 1].owed \subseteq c \cup d \cup {q[j].edit : j \in 1..((i + 1) - 1)}
      BY <1>7, <3>1 DEF OwedAhead
    <3>3. {q[j].edit : j \in 1..((i + 1) - 1)}
            \subseteq {q[k].edit} \cup {r[j].edit : j \in 1..(i - 1)}
      BY <3>1
    <3>. QED
      BY <3>1, <3>2, <3>3
  <2>. QED
    BY <1>0, <1>2, <2>1, <2>2
<1>8. OwedAhead(q, c, d) => OwedAhead(r, c, d \cup {q[k].edit})
  BY <1>7 DEF OwedAhead
<1>. QED
  BY <1>1, <1>5, <1>6, <1>8 DEF r

\* What is owed stays there when the document or the dropped edits grow.
LEMMA OwedGrows ==
  ASSUME NEW q, NEW c, NEW d, NEW c1, NEW d1, OwedAhead(q, c, d),
         c \subseteq c1, d \subseteq d1
  PROVE  OwedAhead(q, c1, d1)
BY DEF OwedAhead

\* What Cancelled does, if the task of stroke s is still waiting or not.
LEMMA CancelledQueue ==
  ASSUME Typed, NEW s \in Strokes, NEW c, NEW d
  PROVE  /\ Cancelled(s) \in Seq(Tasks)
         /\ \A i \in DOMAIN Cancelled(s) : TaskOK(Cancelled(s)[i])
         /\ Queued = EditsOf(Cancelled(s)) \cup ({s} \cap Queued)
         /\ OwedAhead(queue, c, d)
              => OwedAhead(Cancelled(s), c, d \cup ({s} \cap Queued))
<1>1. queue \in Seq(Tasks) /\ (\A i \in DOMAIN queue : TaskOK(queue[i]))
      /\ Queued = EditsOf(queue)
  BY DEF Typed, Queued, EditsOf
<1>2. CASE s \in Queued
  <2>. DEFINE k == CHOOSE i \in DOMAIN queue : queue[i].edit = s
  <2>1. k \in DOMAIN queue /\ queue[k].edit = s
    BY <1>2 DEF Queued
  <2>2. Cancelled(s) = RemoveAt(queue, k)
    BY <1>2 DEF Cancelled
  <2>. HIDE DEF k
  <2>3. {s} \cap Queued = {queue[k].edit}
    BY <1>2, <2>1
  <2>4. /\ RemoveAt(queue, k) \in Seq(Tasks)
        /\ EditsOf(queue) = EditsOf(RemoveAt(queue, k)) \cup {queue[k].edit}
        /\ \A i \in DOMAIN RemoveAt(queue, k) : TaskOK(RemoveAt(queue, k)[i])
        /\ OwedAhead(queue, c, d)
             => OwedAhead(RemoveAt(queue, k), c, d \cup {queue[k].edit})
    BY <1>1, <2>1, CancelTask
  <2>. QED
    BY <1>1, <2>2, <2>3, <2>4
<1>3. CASE s \notin Queued
  <2>1. Cancelled(s) = queue /\ {s} \cap Queued = {}
    BY <1>3 DEF Cancelled
  <2>. QED
    BY <1>1, <2>1 DEF OwedAhead
<1>. QED
  BY <1>2, <1>3

-----------------------------------------------------------------------------
(* Init => IInv.                                                           *)

LEMMA InitIInv == Init => IInv
<1>. SUFFICES ASSUME Init PROVE IInv
  OBVIOUS
<1>0. /\ {} \in SUBSET Edits /\ {} \in Contents /\ {} \notin {None, Broken}
      /\ None \in Contents
  <2>1. {} \in SUBSET Edits
    OBVIOUS
  <2>2. {} \notin {None, Broken}
    BY <2>1, SessionAssumption
  <2>. QED
    BY <2>1, <2>2 DEF Contents
<1>. USE SessionAssumption DEF Init
<1>1. Typed
  <2>1. /\ file \in [Files -> Contents] /\ adding \in [Pages -> Strokes \cup {None}]
        /\ answers \in [Requests -> {None, "ok", "failed"}]
    BY <1>0
  <2>2. /\ queue \in Seq(Tasks) /\ (\A i \in DOMAIN queue : TaskOK(queue[i]))
        /\ posted \in Seq(0..MaxRotations)
    OBVIOUS
  <2>3. path \in Files \cup {None} /\ gen \in 0..MaxRotations /\ asked \in 0..MaxRequests
    BY DEF Files
  <2>. QED
    BY <1>0, <2>1, <2>2, <2>3 DEF Typed
<1>2. Stages /\ BaseOnDisk
  <2>1. pc = "idle" /\ "idle" \notin Exporting
    BY DEF Exporting
  <2>2. uri \in Files /\ file[uri] = {}
    BY DEF Files
  <2>. QED
    BY <2>1, <2>2 DEF Stages, BaseOnDisk
<1>3. Content = {} /\ uri \in Files
  BY <1>0 DEF Content, Files
<1>4. ContentOK /\ SavedInContent /\ CopyKept /\ EditsKept /\ OwedKept
  BY <1>0, <1>3 DEF ContentOK, SavedInContent, CopyKept, Holds, EditsKept, OwedKept,
                    OwedAhead, Exporting
<1>5. Flagged
  BY <1>3 DEF Flagged
<1>. QED
  BY <1>1, <1>2, <1>4, <1>5 DEF IInv

-----------------------------------------------------------------------------
(* The steps of the UI thread.  None of them writes a file, or touches the *)
(* document while a save is under way.                                     *)

\* The parts that do not speak of the queue and the edits hold on when the
\* core, the files and the task under way are left alone.
LEMMA CoreFrame ==
  ASSUME IInv, Typed', UNCHANGED <<core, file, job, pc, saved, failed>>
  PROVE  /\ Content' = Content
         /\ Stages' /\ BaseOnDisk' /\ ContentOK' /\ SavedInContent' /\ CopyKept'
         /\ Flagged'
<1>. USE DEF IInv, core
<1>1. Content' = Content
  BY DEF Content
<1>2. Stages' /\ BaseOnDisk' /\ CopyKept'
  BY DEF Stages, BaseOnDisk, CopyKept, Holds
<1>3. ContentOK' /\ SavedInContent' /\ Flagged'
  BY <1>1 DEF ContentOK, SavedInContent, Flagged
<1>. QED
  BY <1>1, <1>2, <1>3

LEMMA SaveDrawStep ==
  ASSUME IInv, NEW s \in Strokes, SaveDraw(s)
  PROVE  IInv'
<1>. DEFINE old == adding[PageOf[s]]
            q == IF old = None THEN queue ELSE Cancelled(old)
            gone == {old} \cap Queued \cap Strokes
            t == InkTask(s)
            r == Append(q, t)
            c == Content
<1>1. /\ s \in Strokes /\ s \notin accepted /\ old \in Strokes \cup {None}
      /\ queue' = r /\ dropped' = dropped \cup gone
      /\ adding' = [adding EXCEPT ![PageOf[s]] = s]
      /\ accepted' = accepted \cup {s}
      /\ UNCHANGED <<core, activity, ignore, gen, asked, posted, file, job, pc,
                     answers, saved, failed>>
  BY SessionAssumption DEF SaveDraw, IInv, Typed
<1>2. t \in Tasks /\ TaskOK(t) /\ t.edit = s /\ t.owed = {}
  <2>1. 0 \in 0..MaxRequests /\ gen \in 0..MaxRotations
    BY SessionAssumption DEF IInv, Typed
  <2>. QED
    BY <2>1 DEF InkTask, Tasks, TaskOK
<1>3. /\ q \in Seq(Tasks) /\ (\A i \in DOMAIN q : TaskOK(q[i]))
      /\ Queued = EditsOf(q) \cup gone
      /\ OwedAhead(queue, c, dropped) => OwedAhead(q, c, dropped \cup gone)
  <2>1. CASE old = None
    <3>1. None \notin Strokes
      BY SessionAssumption DEF Edits
    <3>2. q = queue /\ gone = {} /\ Queued = EditsOf(queue)
      BY <2>1, <3>1 DEF Queued, EditsOf
    <3>. QED
      BY <3>2 DEF IInv, Typed
  <2>2. CASE old \in Strokes
    <3>1. old # None
      BY <2>2, SessionAssumption DEF Edits
    <3>2. q = Cancelled(old) /\ gone = {old} \cap Queued
      BY <2>2, <3>1
    <3>. HIDE DEF old, q, gone, c
    <3>3. Typed
      BY DEF IInv
    <3>. QED
      BY <2>2, <3>2, <3>3, CancelledQueue
  <2>. QED
    BY <1>1, <2>1, <2>2
<1>. HIDE DEF old, q, gone, t, c
<1>4. /\ r \in Seq(Tasks) /\ (\A i \in DOMAIN r : TaskOK(r[i]))
      /\ EditsOf(r) = EditsOf(q) \cup {s}
      /\ OwedAhead(q, c, dropped \cup gone) => OwedAhead(r, c, dropped \cup gone)
  BY <1>2, <1>3, AppendQueue
<1>. HIDE DEF r
<1>5. Typed'
  <2>1. dropped' \subseteq Strokes /\ accepted' \subseteq Edits
    BY <1>1 DEF IInv, Typed, Edits, gone
  <2>2. adding' \in [Pages -> Strokes \cup {None}]
    BY <1>1 DEF IInv, Typed
  <2>. QED
    BY <1>1, <1>4, <2>1, <2>2 DEF IInv, Typed, core
<1>6. /\ Content' = c /\ Stages' /\ BaseOnDisk' /\ ContentOK' /\ SavedInContent'
      /\ CopyKept' /\ Flagged'
  BY <1>1, <1>5, CoreFrame DEF c
<1>7. EditsKept'
  <2>1. Queued' = EditsOf(r)
    BY <1>1 DEF Queued, EditsOf
  <2>. QED
    BY <1>1, <1>3, <1>4, <1>6, <2>1 DEF IInv, EditsKept, c
<1>8. OwedKept'
  BY <1>1, <1>3, <1>4, <1>6 DEF IInv, OwedKept, c, core
<1>. QED
  BY <1>5, <1>6, <1>7, <1>8 DEF IInv

LEMMA ReleaseResourcesStep ==
  ASSUME IInv, NEW p \in Pages, ReleaseResources(p)
  PROVE  IInv'
<1>. DEFINE old == adding[p]
            gone == {old} \cap Queued
            r == Cancelled(old)
            c == Content
<1>1. /\ old \in Strokes /\ queue' = r /\ dropped' = dropped \cup gone
      /\ adding' = [adding EXCEPT ![p] = None]
      /\ UNCHANGED <<core, activity, ignore, gen, accepted, asked, posted, file,
                     job, pc, answers, saved, failed>>
  BY DEF ReleaseResources, IInv, Typed
<1>. HIDE DEF old, c
<1>2. Typed
  BY DEF IInv
<1>3. /\ r \in Seq(Tasks) /\ (\A i \in DOMAIN r : TaskOK(r[i]))
      /\ Queued = EditsOf(r) \cup gone
      /\ OwedAhead(queue, c, dropped) => OwedAhead(r, c, dropped \cup gone)
  BY <1>1, <1>2, CancelledQueue
<1>4. gone \subseteq Strokes
  BY <1>1
<1>. HIDE DEF r, gone
<1>5. Typed'
  <2>1. dropped' \subseteq Strokes
    BY <1>1, <1>2, <1>4 DEF Typed
  <2>2. adding' \in [Pages -> Strokes \cup {None}]
    BY <1>1, <1>2 DEF Typed
  <2>. QED
    BY <1>1, <1>2, <1>3, <2>1, <2>2 DEF Typed, core
<1>6. /\ Content' = c /\ Stages' /\ BaseOnDisk' /\ ContentOK' /\ SavedInContent'
      /\ CopyKept' /\ Flagged'
  BY <1>1, <1>5, CoreFrame DEF c
<1>7. EditsKept'
  <2>1. Queued' = EditsOf(r)
    BY <1>1 DEF Queued, EditsOf
  <2>. QED
    BY <1>1, <1>3, <1>6, <2>1 DEF IInv, EditsKept, c
<1>8. OwedKept'
  BY <1>1, <1>3, <1>6 DEF IInv, OwedKept, c, core
<1>. QED
  BY <1>5, <1>6, <1>7, <1>8 DEF IInv

\* The core is free, so the page is added to the document of no save.
LEMMA InsertBlankPageStep ==
  ASSUME IInv, NEW b \in BlankPages, InsertBlankPage(b)
  PROVE  IInv'
<1>1. /\ CoreFree /\ extra' = TRUE
      /\ doc' = IF doc = None THEN None ELSE doc \cup {b}
      /\ accepted' = IF doc = None THEN accepted ELSE accepted \cup {b}
      /\ UNCHANGED <<base, path, dirty, uri, tmp, activity, ignore, gen, adding,
                     dropped, asked, posted, file, queue, job, pc, answers,
                     saved, failed>>
  BY DEF InsertBlankPage
<1>2. pc \notin Exporting /\ Content = doc /\ Content' = doc'
  BY <1>1 DEF CoreFree, Content, Exporting
<1>3. \/ doc = None /\ doc' = None /\ accepted' = accepted
      \/ /\ doc \in SUBSET Edits /\ doc' = doc \cup {b} /\ doc' \in SUBSET Edits
         /\ doc # None /\ doc' \notin {None, Broken}
         /\ accepted' = accepted \cup {b}
  <2>1. b \in Edits
    BY DEF Edits
  <2>2. doc = None \/ (doc \in SUBSET Edits /\ doc # None)
    BY <1>2 DEF IInv, ContentOK, Contents
  <2>3. doc \in SUBSET Edits => doc \cup {b} \in SUBSET Edits
    BY <2>1
  <2>. QED
    BY <1>1, <2>2, <2>3, SessionAssumption
<1>4. Typed'
  <2>1. doc' \in Contents /\ accepted' \subseteq Edits /\ extra' \in BOOLEAN
    BY <1>1, <1>3 DEF IInv, Typed, Contents, Edits
  <2>. QED
    BY <1>1, <2>1 DEF IInv, Typed
<1>5. Stages' /\ BaseOnDisk'
  BY <1>1, <1>2, <1>3 DEF IInv, Stages, BaseOnDisk, Exporting
<1>6. ContentOK' /\ SavedInContent'
  BY <1>1, <1>2, <1>3 DEF IInv, ContentOK, SavedInContent, Contents, Exporting
<1>7. CopyKept'
  BY <1>1 DEF IInv, CopyKept, Holds
<1>8. EditsKept'
  BY <1>1, <1>2, <1>3 DEF IInv, EditsKept, Queued
<1>9. OwedKept'
  <2>1. doc' # None => OwedAhead(queue, doc', dropped)
    BY <1>2, <1>3, OwedGrows DEF IInv, OwedKept
  <2>. QED
    BY <1>1, <1>2, <2>1 DEF IInv, OwedKept
<1>10. Flagged'
  BY <1>1, <1>2 DEF Flagged, Exporting
<1>. QED
  BY <1>4, <1>5, <1>6, <1>7, <1>8, <1>9, <1>10 DEF IInv

\* A request joins the queue behind the tasks that add what it owes.
LEMMA RequestJoins ==
  ASSUME IInv, NEW kind \in {"save", "export"}, NEW to \in Dests \cup {None},
         Ask(kind, to)
  PROVE  /\ asked' \in 0..MaxRequests
         /\ queue' \in Seq(Tasks) /\ (\A i \in DOMAIN queue' : TaskOK(queue'[i]))
         /\ Queued \subseteq Queued'
         /\ Content # None => OwedAhead(queue', Content, dropped)
<1>. DEFINE t == Request(kind, to)
            r == Append(queue, t)
            c == Content
<1>1. asked < MaxRequests /\ asked' = asked + 1 /\ queue' = r
  BY DEF Ask
<1>2. asked \in 0..MaxRequests /\ MaxRequests \in Nat
  BY SessionAssumption DEF IInv, Typed
<1>3. asked' \in 0..MaxRequests /\ asked + 1 \in Requests /\ asked + 1 \in 0..MaxRequests
  BY <1>1, <1>2 DEF Requests
<1>4. /\ t \in Tasks /\ TaskOK(t) /\ t.owed = accepted
  BY <1>3 DEF Request, TaskOK, Tasks, IInv, Typed
<1>5. queue \in Seq(Tasks) /\ (\A i \in DOMAIN queue : TaskOK(queue[i]))
      /\ Queued = EditsOf(queue)
  BY DEF IInv, Typed, Queued, EditsOf
<1>6. c # None => OwedAhead(queue, c, dropped) /\ accepted \subseteq c \cup Queued \cup dropped
  BY DEF IInv, OwedKept, EditsKept
<1>. HIDE DEF t, c
<1>7. /\ r \in Seq(Tasks) /\ (\A i \in DOMAIN r : TaskOK(r[i]))
      /\ EditsOf(r) = EditsOf(queue) \cup {t.edit}
      /\ OwedAhead(queue, c, dropped) /\ t.owed \subseteq c \cup dropped \cup EditsOf(queue)
           => OwedAhead(r, c, dropped)
  BY <1>4, <1>5, AppendQueue
<1>. HIDE DEF r
<1>8. Queued' = EditsOf(r)
  BY <1>1 DEF Queued, EditsOf
<1>9. c # None => OwedAhead(r, c, dropped)
  BY <1>4, <1>5, <1>6, <1>7
<1>. QED
  BY <1>1, <1>3, <1>5, <1>7, <1>8, <1>9 DEF c

\* A step that only puts a request into the queue, if anything, and changes
\* what the activity keeps for itself.
LEMMA UIStep ==
  ASSUME IInv,
         \/ UNCHANGED <<asked, queue>>
         \/ \E kind \in {"save", "export"}, to \in Dests \cup {None} : Ask(kind, to),
         UNCHANGED <<core, accepted, dropped, file, job, pc, answers, saved, failed>>,
         activity' \in {"resumed", "stopped", "chooser"}, ignore' \in BOOLEAN,
         gen' \in 0..MaxRotations, posted' \in Seq(0..MaxRotations),
         adding' \in [Pages -> Strokes \cup {None}]
  PROVE  IInv'
<1>1. /\ asked' \in 0..MaxRequests
      /\ queue' \in Seq(Tasks) /\ (\A i \in DOMAIN queue' : TaskOK(queue'[i]))
      /\ Queued \subseteq Queued'
      /\ Content # None => OwedAhead(queue', Content, dropped)
  <2>1. CASE UNCHANGED <<asked, queue>>
    BY <2>1 DEF IInv, Typed, OwedKept, Queued
  <2>2. CASE \E kind \in {"save", "export"}, to \in Dests \cup {None} : Ask(kind, to)
    <3>1. PICK kind \in {"save", "export"} :
             \E to \in Dests \cup {None} : Ask(kind, to)
      BY <2>2
    <3>2. PICK to \in Dests \cup {None} : Ask(kind, to)
      BY <3>1
    <3>. QED
      BY <3>2, RequestJoins
  <2>. QED
    BY <2>1, <2>2
<1>2. Typed'
  BY <1>1 DEF IInv, Typed, core
<1>3. /\ Content' = Content /\ Stages' /\ BaseOnDisk' /\ ContentOK'
      /\ SavedInContent' /\ CopyKept' /\ Flagged'
  BY <1>2, CoreFrame
<1>4. EditsKept' /\ OwedKept'
  BY <1>1, <1>3 DEF IInv, EditsKept, OwedKept, core
<1>. QED
  BY <1>2, <1>3, <1>4 DEF IInv

LEMMA OtherUISteps ==
  ASSUME IInv,
         \/ \E to \in Dests \cup {None} : AskToSave("save", to)
         \/ AskToSave("export", None)
         \/ ShareDone \/ OnStop \/ OnResume \/ OnRetainCore
  PROVE  IInv'
<1>. USE DEF IInv, Typed
<1>1. ASSUME NEW kind \in {"save", "export"}, NEW to \in Dests \cup {None},
             AskToSave(kind, to)
      PROVE  IInv'
  <2>1. Ask(kind, to)
    BY <1>1 DEF AskToSave
  <2>. QED
    BY <1>1, <2>1, UIStep DEF AskToSave, core
<1>2. CASE ShareDone
  <2>1. posted' \in Seq(0..MaxRotations) /\ ignore' \in BOOLEAN
    BY <1>2 DEF ShareDone
  <2>. QED
    BY <1>2, <2>1, UIStep DEF ShareDone, core
<1>3. CASE OnStop
  <2>1. Ask("save", None) \/ UNCHANGED <<asked, queue>>
    BY <1>3 DEF OnStop
  <2>. QED
    BY <1>3, <2>1, UIStep DEF OnStop, core
<1>4. CASE OnResume
  BY <1>4, UIStep DEF OnResume, core
<1>5. CASE OnRetainCore
  <2>1. gen' \in 0..MaxRotations
    BY <1>5, SessionAssumption DEF OnRetainCore
  <2>. QED
    BY <1>5, <2>1, UIStep DEF OnRetainCore, core
<1>. QED
  BY <1>1, <1>2, <1>3, <1>4, <1>5

-----------------------------------------------------------------------------
(* The steps of the background thread.                                     *)

\* The first task of the queue is taken while no save is under way.
LEMMA TaskTaken ==
  ASSUME IInv, pc = "idle", queue # <<>>, queue' = Tail(queue)
  PROVE  /\ Content = doc /\ doc \in (SUBSET Edits) \cup {None}
         /\ Task \in Tasks /\ TaskOK(Task)
         /\ queue' \in Seq(Tasks) /\ (\A i \in DOMAIN queue' : TaskOK(queue'[i]))
         /\ Queued = Queued' \cup {Task.edit}
         /\ doc # None => /\ Task.owed \subseteq doc \cup dropped
                          /\ OwedAhead(queue', doc \cup {Task.edit}, dropped)
<1>. DEFINE r == Tail(queue)
            h == Head(queue)
<1>1. queue \in Seq(Tasks) /\ (\A i \in DOMAIN queue : TaskOK(queue[i]))
  BY DEF IInv, Typed
<1>2. Content = doc /\ doc \in (SUBSET Edits) \cup {None}
  BY DEF Content, IInv, ContentOK, Contents
<1>3. /\ h \in Tasks /\ r \in Seq(Tasks)
      /\ EditsOf(queue) = EditsOf(r) \cup {h.edit}
      /\ TaskOK(h) /\ (\A i \in DOMAIN r : TaskOK(r[i]))
      /\ OwedAhead(queue, doc, dropped) => h.owed \subseteq doc \cup dropped
      /\ OwedAhead(queue, doc, dropped)
           => OwedAhead(r, doc \cup {h.edit}, dropped)
  BY <1>1, TakeTask
<1>4. Queued = EditsOf(queue) /\ Task = h
  BY DEF Queued, EditsOf, Task
<1>. HIDE DEF r, h
<1>5. queue' = r
  BY DEF r
<1>6. Queued' = EditsOf(r)
  BY <1>5 DEF Queued, EditsOf
<1>7. doc # None => OwedAhead(queue, doc, dropped)
  BY <1>2 DEF IInv, OwedKept
<1>. QED
  BY <1>2, <1>3, <1>4, <1>5, <1>6, <1>7

\* A request has no edit of its own to wait for.
LEMMA RequestTaken ==
  ASSUME IInv, Ready({"save", "export"}), queue' = Tail(queue)
  PROVE  /\ pc = "idle" /\ Content = doc
         /\ TaskOK(Task) /\ Task.kind # "ink" /\ Task.id \in Requests
         /\ queue' \in Seq(Tasks) /\ (\A i \in DOMAIN queue' : TaskOK(queue'[i]))
         /\ doc # None => /\ accepted \subseteq doc \cup Queued' \cup dropped
                          /\ Task.owed \subseteq doc \cup dropped
                          /\ OwedAhead(queue', doc, dropped)
<1>1. pc = "idle" /\ queue # <<>> /\ Task.kind \in {"save", "export"}
  BY DEF Ready
<1>2. /\ Content = doc
      /\ Task \in Tasks /\ TaskOK(Task)
      /\ queue' \in Seq(Tasks) /\ (\A i \in DOMAIN queue' : TaskOK(queue'[i]))
      /\ Queued = Queued' \cup {Task.edit}
      /\ doc # None => /\ Task.owed \subseteq doc \cup dropped
                       /\ OwedAhead(queue', doc \cup {Task.edit}, dropped)
  BY <1>1, TaskTaken
<1>3. Task.edit = None /\ Task.id \in Requests
  BY <1>1, <1>2 DEF TaskOK
<1>4. None \notin Edits /\ accepted \subseteq Edits
  BY SessionAssumption DEF IInv, Typed
<1>5. doc # None => accepted \subseteq doc \cup Queued' \cup dropped
  BY <1>2, <1>3, <1>4 DEF IInv, EditsKept
<1>6. ASSUME doc # None PROVE OwedAhead(queue', doc, dropped)
  <2>1. \A i \in DOMAIN queue' : queue'[i].owed \subseteq Edits
    BY <1>2 DEF TaskOK, Tasks
  <2>2. OwedAhead(queue', doc \cup {None}, dropped)
    BY <1>2, <1>3, <1>6
  <2>. QED
    BY <1>4, <2>1, <2>2 DEF OwedAhead
<1>. QED
  BY <1>1, <1>2, <1>3, <1>5, <1>6

LEMMA AddInkAnnotationStep ==
  ASSUME IInv, AddInkAnnotation
  PROVE  IInv'
<1>. DEFINE e == Task.edit
<1>1. /\ pc = "idle" /\ queue # <<>> /\ Task.kind = "ink" /\ queue' = Tail(queue)
      /\ doc' = IF doc = None THEN None ELSE doc \cup {e}
      /\ dirty' = (dirty \/ doc # None)
      /\ UNCHANGED <<base, path, extra, uri, tmp, ui, posted, file, job, pc,
                     answers, saved, failed>>
  BY DEF AddInkAnnotation, Ready
<1>2. /\ Content = doc /\ doc \in (SUBSET Edits) \cup {None}
      /\ TaskOK(Task)
      /\ queue' \in Seq(Tasks) /\ (\A i \in DOMAIN queue' : TaskOK(queue'[i]))
      /\ Queued = Queued' \cup {e}
      /\ doc # None => OwedAhead(queue', doc \cup {e}, dropped)
  BY <1>1, TaskTaken
<1>3. Content' = doc' /\ pc' = "idle" /\ pc \notin Exporting
  BY <1>1 DEF Content, Exporting
<1>4. e \in Edits
  BY <1>1, <1>2 DEF TaskOK, Edits
<1>. HIDE DEF e
<1>5. \/ doc = None /\ doc' = None /\ dirty' = dirty
      \/ /\ doc \in SUBSET Edits /\ doc' = doc \cup {e} /\ doc' \in SUBSET Edits
         /\ doc # None /\ doc' \notin {None, Broken} /\ dirty'
  <2>1. doc \in SUBSET Edits => doc \cup {e} \in SUBSET Edits
    BY <1>4
  <2>2. dirty \in BOOLEAN
    BY DEF IInv, Typed
  <2>3. doc = None \/ doc \in SUBSET Edits
    BY <1>2 DEF IInv, ContentOK, Contents
  <2>. QED
    BY <1>1, <2>1, <2>2, <2>3, SessionAssumption
<1>6. Typed'
  <2>1. doc' \in Contents /\ dirty' \in BOOLEAN
    BY <1>1, <1>5 DEF IInv, Typed, Contents
  <2>. QED
    BY <1>1, <1>2, <2>1 DEF IInv, Typed, ui
<1>7. Stages' /\ BaseOnDisk'
  BY <1>1, <1>3, <1>5 DEF IInv, Stages, BaseOnDisk, Exporting
<1>8. ContentOK' /\ SavedInContent'
  BY <1>1, <1>2, <1>3, <1>5 DEF IInv, ContentOK, SavedInContent, Contents
<1>9. CopyKept'
  BY <1>1 DEF IInv, CopyKept, Holds
<1>10. EditsKept'
  BY <1>1, <1>2, <1>3, <1>5 DEF IInv, EditsKept, ui
<1>11. OwedKept'
  BY <1>1, <1>2, <1>3, <1>5 DEF OwedKept, Exporting, ui
<1>12. Flagged'
  BY <1>1, <1>2, <1>3, <1>5 DEF IInv, Flagged
<1>. QED
  BY <1>6, <1>7, <1>8, <1>9, <1>10, <1>11, <1>12 DEF IInv

LEMMA CoreIsNullStep ==
  ASSUME IInv, CoreIsNull
  PROVE  IInv'
<1>1. /\ Ready({"save", "export"}) /\ queue' = Tail(queue)
      /\ answers' = [answers EXCEPT ![Task.id] = "failed"]
      /\ UNCHANGED <<core, ui, posted, file, job, pc, saved, failed>>
  BY DEF CoreIsNull
<1>2. /\ pc = "idle" /\ Content = doc /\ Task.id \in Requests
      /\ queue' \in Seq(Tasks) /\ (\A i \in DOMAIN queue' : TaskOK(queue'[i]))
      /\ doc # None => /\ accepted \subseteq doc \cup Queued' \cup dropped
                       /\ OwedAhead(queue', doc, dropped)
  BY <1>1, RequestTaken
<1>3. Typed'
  <2>1. answers' \in [Requests -> {None, "ok", "failed"}]
    BY <1>1, <1>2 DEF IInv, Typed
  <2>. QED
    BY <1>1, <1>2, <2>1 DEF IInv, Typed, core, ui
<1>4. /\ Content' = Content /\ Stages' /\ BaseOnDisk' /\ ContentOK'
      /\ SavedInContent' /\ CopyKept' /\ Flagged'
  BY <1>1, <1>3, CoreFrame
<1>5. EditsKept' /\ OwedKept'
  BY <1>1, <1>2, <1>4 DEF EditsKept, OwedKept, Exporting, ui
<1>. QED
  BY <1>3, <1>4, <1>5 DEF IInv

\* From here on the extra changes are remembered by the task only.
LEMMA ExportStep ==
  ASSUME IInv, Export
  PROVE  IInv'
<1>1. /\ Ready({"save", "export"}) /\ queue' = Tail(queue)
      /\ job' = [task |-> Task, had |-> HasChanges, out |-> None,
                 old |-> IF tmp.name = uri THEN None ELSE tmp.at]
      /\ tmp' = IF tmp.name = uri THEN tmp ELSE [at |-> Task.id, name |-> uri]
      /\ extra' = FALSE /\ pc' = "write"
      /\ UNCHANGED <<doc, base, path, dirty, uri, ui, posted, file, answers,
                     saved, failed>>
  BY DEF Export
<1>2. /\ pc = "idle" /\ Content = doc
      /\ TaskOK(Task) /\ Task.kind # "ink" /\ Task.id \in Requests
      /\ queue' \in Seq(Tasks) /\ (\A i \in DOMAIN queue' : TaskOK(queue'[i]))
      /\ doc # None => /\ accepted \subseteq doc \cup Queued' \cup dropped
                       /\ Task.owed \subseteq doc \cup dropped
                       /\ OwedAhead(queue', doc, dropped)
  BY <1>1, RequestTaken
<1>3. Content' = doc
  BY <1>1 DEF Content
<1>4. uri \in Dests /\ uri # None /\ tmp \in [at : Requests, name : Dests] \cup {NoTmp}
  BY SessionAssumption DEF IInv, Typed
<1>5. tmp' \in [at : Requests, name : Dests] /\ tmp'.name = uri /\ tmp' # NoTmp
  <2>1. tmp.name = uri => tmp # NoTmp
    BY <1>4 DEF NoTmp
  <2>2. tmp' \in [at : Requests, name : Dests]
    BY <1>1, <1>2, <1>4, <2>1
  <2>3. tmp'.name = uri
    BY <1>1
  <2>. QED
    BY <1>4, <2>2, <2>3 DEF NoTmp
<1>6. job' \in Jobs /\ job'.task = Task /\ job'.had = HasChanges
  <2>1. HasChanges \in BOOLEAN
    BY DEF HasChanges, IInv, Typed
  <2>2. tmp.at \in Requests \cup {None}
    BY <1>4 DEF NoTmp
  <2>3. Task \in Tasks /\ None \in Contents
    BY <1>2 DEF TaskOK, Contents
  <2>. QED
    BY <1>1, <2>1, <2>2, <2>3 DEF Jobs
<1>7. Typed'
  <2>1. TaskOK(job'.task) /\ job'.task.kind # "ink" /\ pc' \in Exporting
    BY <1>1, <1>2, <1>6 DEF Exporting
  <2>. QED
    BY <1>1, <1>2, <1>5, <1>6, <2>1 DEF IInv, Typed, ui
<1>8. Stages' /\ BaseOnDisk'
  BY <1>1, <1>5 DEF IInv, Stages, BaseOnDisk
<1>9. ContentOK' /\ SavedInContent'
  BY <1>1, <1>2, <1>3 DEF IInv, ContentOK, SavedInContent
<1>10. CopyKept'
  <2>1. Holds(uri) \/ (tmp # NoTmp /\ tmp.name = uri /\ Holds(tmp.at))
    BY DEF IInv, CopyKept
  <2>2. tmp.name = uri => tmp' = tmp
    BY <1>1
  <2>3. UNCHANGED <<file, saved, uri>> /\ pc' = "write"
    BY <1>1
  <2>. QED
    BY <2>1, <2>2, <2>3 DEF CopyKept, Holds
<1>11. EditsKept'
  BY <1>1, <1>2, <1>3 DEF EditsKept, ui
<1>12. OwedKept'
  BY <1>1, <1>2, <1>3, <1>6 DEF OwedKept, ui
<1>13. Flagged'
  BY <1>1, <1>2, <1>3, <1>6 DEF IInv, Flagged, HasChanges
<1>. QED
  BY <1>7, <1>8, <1>9, <1>10, <1>11, <1>12, <1>13 DEF IInv

\* While a save is under way it has a temporary file for the document's name.
LEMMA JobUnderWay ==
  ASSUME IInv, pc # "idle"
  PROVE  /\ job \in Jobs /\ TaskOK(job.task) /\ job.task.kind # "ink"
         /\ job.task.id \in Requests
         /\ pc \in Exporting => /\ tmp \in [at : Requests, name : Dests]
                                /\ tmp.name = uri /\ tmp.at \in Files
                                /\ tmp.at \notin Dests /\ uri \in Files
BY SessionAssumption DEF IInv, Typed, Stages, TaskOK, Files

\* What is written is the document: the file it was opened from is intact.
LEMMA WriteDocumentStep ==
  ASSUME IInv, WriteDocument
  PROVE  IInv'
<1>1. /\ pc = "write" /\ doc # None /\ doc' = None /\ pc' = "rename"
      /\ job' = [job EXCEPT !.out = Output]
      /\ UNCHANGED <<base, path, dirty, extra, uri, tmp, ui, posted, file, queue,
                     answers, saved, failed>>
  BY DEF WriteDocument
<1>2. Output = doc
  BY <1>1 DEF Output, IInv, BaseOnDisk
<1>3. job \in Jobs /\ TaskOK(job.task) /\ job.task.kind # "ink" /\ doc \in Contents
  BY <1>1, JobUnderWay DEF IInv, Typed
<1>4. job' \in Jobs /\ job'.out = doc /\ job'.task = job.task /\ job'.had = job.had
  BY <1>1, <1>2, <1>3 DEF Jobs
<1>5. Content = doc /\ Content' = doc
  BY <1>1, <1>4 DEF Content
<1>6. Typed'
  <2>1. None \in Contents /\ pc' \in Exporting
    BY <1>1 DEF Contents, Exporting
  <2>. QED
    BY <1>1, <1>3, <1>4, <2>1 DEF IInv, Typed, ui
<1>7. Stages' /\ BaseOnDisk'
  BY <1>1 DEF IInv, Stages, BaseOnDisk, Exporting
<1>8. ContentOK' /\ SavedInContent' /\ EditsKept'
  BY <1>1, <1>5 DEF IInv, ContentOK, SavedInContent, EditsKept, Queued, ui
<1>9. CopyKept'
  BY <1>1 DEF IInv, CopyKept, Holds
<1>10. OwedKept'
  BY <1>1, <1>4, <1>5 DEF IInv, OwedKept, Exporting, ui
<1>11. Flagged'
  BY <1>1, <1>4, <1>5 DEF IInv, Flagged
<1>. QED
  BY <1>6, <1>7, <1>8, <1>9, <1>10, <1>11 DEF IInv

\* After a failure the document is the one that is open, if it is.
LEMMA FailedStep ==
  ASSUME IInv, pc # "idle", pc' = "failed",
         UNCHANGED <<core, ui, posted, file, queue, job, answers, saved>>,
         failed' \in SUBSET Failures, failed \subseteq failed',
         pc = "write" /\ doc # None => "write" \in failed'
  PROVE  IInv'
<1>. USE DEF core, ui
<1>1. Content' = None \/ (Content' = Content /\ doc # None /\ Content = doc)
  BY DEF Content
<1>2. Typed'
  BY JobUnderWay DEF IInv, Typed
<1>3. Stages' /\ BaseOnDisk' /\ CopyKept'
  BY DEF IInv, Stages, BaseOnDisk, CopyKept, Holds, Exporting
<1>4. ContentOK'
  BY <1>1, SessionAssumption DEF IInv, ContentOK, Contents
<1>5. SavedInContent' /\ EditsKept'
  BY <1>1 DEF IInv, SavedInContent, EditsKept, Queued
<1>6. OwedKept'
  BY <1>1 DEF IInv, OwedKept, Exporting
<1>7. Flagged'
  BY <1>1 DEF IInv, Flagged, Stages
<1>. QED
  BY <1>2, <1>3, <1>4, <1>5, <1>6, <1>7 DEF IInv

LEMMA FailureSteps ==
  ASSUME IInv, NothingToWrite \/ \E step \in Failures : FailsAt(step)
  PROVE  IInv'
<1>1. ASSUME NothingToWrite PROVE IInv'
  BY <1>1, FailedStep DEF NothingToWrite, IInv, Typed
<1>2. ASSUME NEW step \in Failures, FailsAt(step) PROVE IInv'
  <2>1. step # "idle" /\ failed' \in SUBSET Failures
    BY <1>2, SessionAssumption DEF FailsAt, IInv, Typed
  <2>. QED
    BY <1>2, <2>1, FailedStep DEF FailsAt
<1>. QED
  BY <1>1, <1>2

\* The temporary file is replaced in one step by one with at least as much.
LEMMA RenameOutputStep ==
  ASSUME IInv, RenameOutput
  PROVE  IInv'
<1>1. /\ pc = "rename" /\ pc' = "reopen"
      /\ file' = [f \in Files |-> IF f = tmp.at THEN job.out
                                  ELSE IF f = job.old THEN None ELSE file[f]]
      /\ UNCHANGED <<core, ui, posted, queue, job, answers, saved, failed>>
  BY DEF RenameOutput
<1>2. /\ job \in Jobs /\ TaskOK(job.task) /\ job.task.kind # "ink"
      /\ tmp \in [at : Requests, name : Dests] /\ tmp.name = uri /\ tmp # NoTmp
      /\ tmp.at \in Files /\ tmp.at \notin Dests /\ uri \in Files /\ uri \in Dests
      /\ job.old \notin Dests /\ doc = None
  BY <1>1, JobUnderWay, SessionAssumption
     DEF Exporting, Jobs, IInv, Typed, Stages
<1>3. file'[tmp.at] = job.out /\ file'[uri] = file[uri]
  BY <1>1, <1>2
<1>4. Content = job.out /\ Content' = job.out
  BY <1>1, <1>2, <1>3 DEF Content, core
<1>5. job.out \in SUBSET Edits /\ job.out \notin {None, Broken} /\ saved \subseteq job.out
  BY <1>1, <1>4 DEF IInv, ContentOK, SavedInContent, Contents
<1>6. Typed'
  <2>1. file' \in [Files -> Contents]
    BY <1>1, <1>2 DEF IInv, Typed, Jobs, Contents
  <2>2. pc' \in Exporting
    BY <1>1 DEF Exporting
  <2>. QED
    BY <1>1, <1>2, <2>1, <2>2 DEF IInv, Typed, core, ui
<1>7. Stages' /\ BaseOnDisk'
  BY <1>1, <1>2 DEF Stages, BaseOnDisk, core
<1>8. ContentOK' /\ SavedInContent' /\ EditsKept'
  BY <1>1, <1>4, <1>5
     DEF IInv, ContentOK, SavedInContent, EditsKept, Queued, ui, Contents
<1>9. CopyKept'
  <2>1. file'[tmp.at] \notin {None, Broken} /\ saved \subseteq file'[tmp.at]
    BY <1>3, <1>5
  <2>. QED
    BY <1>1, <1>2, <2>1 DEF CopyKept, Holds, core
<1>10. OwedKept'
  BY <1>1, <1>4 DEF IInv, OwedKept, Exporting, ui
<1>11. Flagged'
  BY <1>1, <1>4 DEF IInv, Flagged
<1>. QED
  BY <1>6, <1>7, <1>8, <1>9, <1>10, <1>11 DEF IInv

LEMMA ReopenStep ==
  ASSUME IInv, Reopen
  PROVE  IInv'
<1>1. /\ pc = "reopen" /\ doc' = file[tmp.at] /\ base' = file[tmp.at]
      /\ path' = tmp.at /\ dirty' = FALSE /\ extra' = job.had
      /\ pc' \in {"stored", "open"} /\ (pc' = "stored" => job.task.kind = "export")
      /\ UNCHANGED <<uri, tmp, ui, posted, file, queue, job, answers, saved,
                     failed>>
  BY DEF Reopen
<1>2. /\ job \in Jobs /\ TaskOK(job.task) /\ job.task.kind # "ink"
      /\ tmp \in [at : Requests, name : Dests] /\ tmp.name = uri /\ tmp # NoTmp
      /\ tmp.at \in Files /\ uri \in Files /\ doc = None
  BY <1>1, JobUnderWay DEF Exporting, IInv, Stages
<1>3. Content = file[tmp.at] /\ Content # None /\ Content \in SUBSET Edits
      /\ Content # Broken
  BY <1>1, <1>2 DEF Content, IInv, ContentOK, Contents
<1>4. Content' = Content /\ doc' = Content
  BY <1>1, <1>3 DEF Content
<1>5. Typed'
  <2>1. doc' \in Contents /\ base' \in Contents /\ path' \in Files
        /\ dirty' \in BOOLEAN /\ extra' \in BOOLEAN
    BY <1>1, <1>2, <1>3 DEF Contents, Jobs
  <2>2. pc' \in Exporting \cup {"stored", "failed"}
    BY <1>1 DEF Exporting
  <2>. QED
    BY <1>1, <1>2, <2>1, <2>2 DEF IInv, Typed, ui
<1>6. Stages' /\ BaseOnDisk'
  BY <1>1, <1>2, <1>3 DEF Stages, BaseOnDisk
<1>7. ContentOK' /\ SavedInContent' /\ EditsKept'
  BY <1>1, <1>3, <1>4
     DEF IInv, ContentOK, SavedInContent, EditsKept, Queued, ui, Contents
<1>8. CopyKept'
  <2>1. file[tmp.at] \notin {None, Broken} /\ saved \subseteq file[tmp.at]
    BY <1>3 DEF IInv, SavedInContent
  <2>. QED
    BY <1>1, <1>2, <2>1 DEF IInv, CopyKept, Holds
<1>9. OwedKept'
  BY <1>1, <1>4 DEF IInv, OwedKept, Exporting, ui
<1>10. Flagged'
  BY <1>1, <1>4 DEF IInv, Flagged
<1>. QED
  BY <1>5, <1>6, <1>7, <1>8, <1>9, <1>10 DEF IInv

\* The destination is a file of its own, neither the temporary one nor the
\* one the document was opened from.
LEMMA TargetIsDest ==
  ASSUME IInv, pc \in {"open", "copy"}
  PROVE  /\ Target \in Dests /\ Target \in Files
         /\ tmp.at # Target /\ path # Target /\ path = tmp.at
         /\ file[tmp.at] = doc /\ Content = doc /\ doc # None
         /\ doc \in SUBSET Edits /\ doc # Broken /\ saved \subseteq doc
<1>1. pc \in Exporting /\ pc # "idle"
  BY DEF Exporting
<1>2. job.task \in Tasks /\ tmp.at \notin Dests /\ uri \in Dests
  BY <1>1, JobUnderWay DEF TaskOK, IInv, Typed
<1>3. Target \in Dests
  BY <1>2 DEF Target, Tasks
<1>4. Content = doc /\ doc # None /\ doc = file[tmp.at] /\ path = tmp.at
  BY DEF Content, IInv, Stages
<1>5. doc \in SUBSET Edits /\ doc # Broken /\ saved \subseteq doc
  BY <1>4 DEF IInv, ContentOK, SavedInContent, Contents
<1>. QED
  BY <1>2, <1>3, <1>4, <1>5 DEF Files

LEMMA OpenDestinationStep ==
  ASSUME IInv, OpenDestination
  PROVE  IInv'
<1>1. /\ pc = "open" /\ pc' = "copy" /\ file' = [file EXCEPT ![Target] = Broken]
      /\ UNCHANGED <<core, ui, posted, queue, job, answers, saved, failed>>
  BY DEF OpenDestination
<1>2. /\ Target \in Dests /\ Target \in Files
      /\ tmp.at # Target /\ path # Target /\ path = tmp.at
      /\ file[tmp.at] = doc /\ Content = doc /\ doc # None
      /\ doc \in SUBSET Edits /\ doc # Broken /\ saved \subseteq doc
  BY <1>1, TargetIsDest
<1>3. /\ job \in Jobs /\ TaskOK(job.task) /\ job.task.kind # "ink"
      /\ tmp \in [at : Requests, name : Dests] /\ tmp.name = uri /\ tmp # NoTmp
      /\ tmp.at \in Files
  BY <1>1, JobUnderWay DEF Exporting, IInv, Stages
<1>4. file \in [Files -> Contents] /\ file'[tmp.at] = doc /\ Broken \in Contents
  BY <1>1, <1>2, <1>3 DEF IInv, Typed, Contents
<1>5. Content' = doc
  BY <1>1, <1>2 DEF Content, core
<1>6. Typed'
  <2>1. file' \in [Files -> Contents] /\ pc' \in Exporting
    BY <1>1, <1>2, <1>4 DEF Exporting
  <2>. QED
    BY <1>1, <1>3, <2>1 DEF IInv, Typed, core, ui
<1>7. Stages'
  BY <1>1, <1>2, <1>3, <1>4 DEF Stages, core
<1>8. BaseOnDisk'
  BY <1>1, <1>2, <1>4 DEF IInv, BaseOnDisk, core
<1>9. ContentOK' /\ SavedInContent' /\ EditsKept'
  BY <1>1, <1>2, <1>5
     DEF IInv, ContentOK, SavedInContent, EditsKept, Queued, ui, Contents
<1>10. CopyKept'
  BY <1>1, <1>2, <1>3, <1>4 DEF CopyKept, Holds, core
<1>11. OwedKept'
  BY <1>1, <1>2, <1>5 DEF IInv, OwedKept, Exporting, ui
<1>12. Flagged'
  BY <1>1, <1>2, <1>5 DEF IInv, Flagged, core
<1>. QED
  BY <1>6, <1>7, <1>8, <1>9, <1>10, <1>11, <1>12 DEF IInv

LEMMA CopyStreamStep ==
  ASSUME IInv, CopyStream
  PROVE  IInv'
<1>1. /\ pc = "copy" /\ pc' = "stored" /\ saved' = file[tmp.at]
      /\ file' = [file EXCEPT ![Target] = file[tmp.at]]
      /\ uri' = Target /\ extra' = FALSE
      /\ UNCHANGED <<doc, base, path, dirty, tmp, ui, posted, queue, job, answers,
                     failed>>
  BY DEF CopyStream
<1>2. /\ Target \in Dests /\ Target \in Files
      /\ tmp.at # Target /\ path # Target /\ path = tmp.at
      /\ file[tmp.at] = doc /\ Content = doc /\ doc # None
      /\ doc \in SUBSET Edits /\ doc # Broken
  BY <1>1, TargetIsDest
<1>3. /\ job \in Jobs /\ TaskOK(job.task) /\ job.task.kind # "ink"
      /\ tmp.at \in Files
  BY <1>1, JobUnderWay DEF Exporting
<1>4. /\ file \in [Files -> Contents]
      /\ file'[tmp.at] = doc /\ file'[Target] = doc /\ saved' = doc
  BY <1>1, <1>2, <1>3 DEF IInv, Typed
<1>5. Content' = doc
  BY <1>1, <1>2 DEF Content
<1>6. Typed'
  <2>1. file' \in [Files -> Contents]
    BY <1>1, <1>2, <1>3, <1>4 DEF Contents
  <2>. QED
    BY <1>1, <1>2, <1>3, <1>4, <2>1 DEF IInv, Typed, ui
<1>7. Stages'
  BY <1>1 DEF Stages, Exporting
<1>8. BaseOnDisk'
  BY <1>1, <1>2, <1>4 DEF IInv, BaseOnDisk
<1>9. ContentOK' /\ SavedInContent' /\ EditsKept'
  BY <1>1, <1>2, <1>4, <1>5
     DEF IInv, ContentOK, SavedInContent, EditsKept, Queued, ui, Contents
<1>10. CopyKept'
  BY <1>1, <1>2, <1>4 DEF CopyKept, Holds
<1>11. OwedKept'
  BY <1>1, <1>2, <1>4, <1>5 DEF IInv, OwedKept, Exporting, ui
<1>12. Flagged'
  BY <1>4, <1>5 DEF Flagged
<1>. QED
  BY <1>6, <1>7, <1>8, <1>9, <1>10, <1>11, <1>12 DEF IInv

LEMMA FinishStep ==
  ASSUME IInv, Finish
  PROVE  IInv'
<1>. DEFINE ok == pc = "stored" /\ (job.task.kind = "save" => job.task.gen = gen)
<1>1. /\ pc \in {"stored", "failed"} /\ job' = None /\ pc' = "idle"
      /\ answers' = [answers EXCEPT ![job.task.id] = IF ok THEN "ok" ELSE "failed"]
      /\ posted' = IF ok /\ job.task.kind = "export"
                   THEN Append(posted, job.task.gen) ELSE posted
      /\ UNCHANGED <<core, ui, file, queue, saved, failed>>
  BY DEF Finish
<1>2. job.task \in Tasks /\ job.task.id \in Requests
  BY <1>1, JobUnderWay DEF TaskOK
<1>. HIDE DEF ok
<1>3. Content = doc /\ Content' = doc
  BY <1>1 DEF Content, core
<1>4. Typed'
  <2>1. answers' \in [Requests -> {None, "ok", "failed"}]
    BY <1>1, <1>2 DEF IInv, Typed
  <2>2. posted' \in Seq(0..MaxRotations)
    <3>1. posted \in Seq(0..MaxRotations) /\ job.task.gen \in 0..MaxRotations
      BY <1>2 DEF IInv, Typed, Tasks
    <3>2. Append(posted, job.task.gen) \in Seq(0..MaxRotations)
      BY <3>1
    <3>. QED
      BY <1>1, <3>1, <3>2
  <2>. QED
    BY <1>1, <2>1, <2>2 DEF IInv, Typed, core, ui
<1>5. Stages' /\ BaseOnDisk' /\ CopyKept'
  BY <1>1 DEF IInv, Stages, BaseOnDisk, CopyKept, Holds, Exporting, core
<1>6. ContentOK' /\ SavedInContent' /\ EditsKept'
  BY <1>1, <1>3 DEF IInv, ContentOK, SavedInContent, EditsKept, Queued, ui
<1>7. OwedKept'
  BY <1>1, <1>3 DEF IInv, OwedKept, Exporting, ui
<1>8. Flagged'
  BY <1>1, <1>3 DEF IInv, Flagged, core
<1>. QED
  BY <1>4, <1>5, <1>6, <1>7, <1>8 DEF IInv

-----------------------------------------------------------------------------
(* The theorems.                                                           *)

LEMMA NextIInv == IInv /\ [Next]_vars => IInv'
<1>. SUFFICES ASSUME IInv, [Next]_vars PROVE IInv'
  OBVIOUS
<1>1. CASE UNCHANGED vars
  <2>1. Typed'
    BY <1>1 DEF IInv, Typed, vars, core, ui
  <2>2. /\ Content' = Content /\ Stages' /\ BaseOnDisk' /\ ContentOK'
        /\ SavedInContent' /\ CopyKept' /\ Flagged'
    BY <1>1, <2>1, CoreFrame DEF vars
  <2>3. EditsKept' /\ OwedKept'
    BY <1>1, <2>2 DEF IInv, EditsKept, OwedKept, Queued, vars, core, ui
  <2>. QED
    BY <2>1, <2>2, <2>3 DEF IInv
<1>2. CASE UINext
  BY <1>2, SaveDrawStep, ReleaseResourcesStep, InsertBlankPageStep, OtherUISteps
     DEF UINext
<1>3. CASE Background
  BY <1>3, AddInkAnnotationStep, CoreIsNullStep, ExportStep, WriteDocumentStep,
     FailureSteps, RenameOutputStep, ReopenStep, OpenDestinationStep,
     CopyStreamStep, FinishStep
     DEF Background
<1>. QED
  BY <1>1, <1>2, <1>3 DEF Next

\* Spec keeps the invariant: the document, closed or open, what the files
\* hold and what the queue owes stay consistent over every interleaving of
\* the UI thread with the stages of a save.
THEOREM SpecInvariant == Spec => []IInv
<1>. QED
  BY InitIInv, NextIInv, PTL DEF Spec

\* The variables keep their types.
THEOREM SpecTypeOK == Spec => []TypeOK
<1>1. IInv => TypeOK
  <2>. SUFFICES ASSUME IInv PROVE TypeOK
    OBVIOUS
  <2>1. saved \in Contents
    BY DEF IInv, Typed, Contents
  <2>2. \A i \in DOMAIN queue : queue[i] \in Tasks
    BY DEF IInv, Typed, TaskOK
  <2>3. \A i \in DOMAIN posted : posted[i] \in 0..MaxRotations
    <3>. DEFINE Gens == 0..MaxRotations
    <3>1. posted \in Seq(Gens)
      BY DEF IInv, Typed
    <3>. HIDE DEF Gens
    <3>2. \A i \in DOMAIN posted : posted[i] \in Gens
      BY <3>1
    <3>. QED
      BY <3>2 DEF Gens
  <2>4. \/ job = None /\ pc = "idle"
        \/ /\ job.task \in Tasks /\ job.had \in BOOLEAN
           /\ job.out \in Contents /\ job.old \in Requests \cup {None}
           /\ pc \in {"write", "rename", "reopen", "open", "copy", "stored",
                      "failed"}
    BY DEF IInv, Typed, Jobs, Exporting
  <2>5. {dirty, extra, ignore} \subseteq BOOLEAN
    BY DEF IInv, Typed
  <2>. QED
    BY <2>1, <2>2, <2>3, <2>4, <2>5 DEF IInv, Typed, TypeOK
<1>. QED
  BY <1>1, SpecInvariant, PTL

\* The file the open document came from still has the bytes it was opened
\* with: the incremental save of saveAsInternal can append to a copy of it.
THEOREM SpecBaseOnDisk == Spec => []BaseOnDisk
<1>1. IInv => BaseOnDisk
  BY DEF IInv
<1>. QED
  BY <1>1, SpecInvariant, PTL

\* Wherever saveAs is interrupted, some file has what was last saved.
THEOREM SpecACopySurvives == Spec => []ACopySurvives
<1>1. IInv => ACopySurvives
  <2>. SUFFICES ASSUME IInv PROVE ACopySurvives
    OBVIOUS
  <2>1. uri \in Files /\ (tmp # NoTmp => tmp.at \in Files)
    BY DEF IInv, Typed, Files
  <2>. QED
    BY <2>1 DEF IInv, CopyKept, Holds, ACopySurvives
<1>. QED
  BY <1>1, SpecInvariant, PTL

\* No export, save or change of the activity loses an accepted edit.
THEOREM SpecNoEditIsLost == Spec => []NoEditIsLost
<1>1. IInv => NoEditIsLost
  BY DEF IInv, EditsKept, NoEditIsLost, Content
<1>. QED
  BY <1>1, SpecInvariant, PTL

\* As long as no write has failed, hasChanges() tells of every edit that no
\* save has brought to a destination.
THEOREM SpecFlagged == Spec => []FlaggedUnlessWriteFails
<1>1. IInv => FlaggedUnlessWriteFails
  BY DEF IInv, Flagged, FlaggedUnlessWriteFails, UnsavedEditsFlagged, Content,
         CoreFree, HasChanges
<1>. QED
  BY <1>1, SpecInvariant, PTL

\* A save that is reported as done has brought to the document's file all
\* the edits that were accepted, or queued, when it was asked for.
THEOREM SpecDoneMeansSaved == Spec => DoneMeansSaved
<1>. DEFINE Done == job # None /\ job.task.kind = "save" /\ answers' # answers
                    /\ answers'[job.task.id] = "ok"
                    => job.task.owed \subseteq file[uri] \cup dropped
<1>1. IInv /\ [Next]_vars => [Done]_vars
  <2>. SUFFICES ASSUME IInv, Next, job # None, job.task.kind = "save",
                       answers' # answers, answers'[job.task.id] = "ok"
                PROVE  job.task.owed \subseteq file[uri] \cup dropped
    OBVIOUS
  <2>1. /\ pc # "idle" /\ job.task.id \in Requests
        /\ answers \in [Requests -> {None, "ok", "failed"}]
    <3>1. pc # "idle"
      BY DEF IInv, Typed, Exporting
    <3>. QED
      BY <3>1, JobUnderWay DEF IInv, Typed
  <2>2. Finish
    BY <2>1 DEF Next, UINext, Background, SaveDraw, ReleaseResources,
                InsertBlankPage, AskToSave, ShareDone, OnStop, OnResume,
                OnRetainCore, AddInkAnnotation, CoreIsNull, Ready, Export,
                WriteDocument, NothingToWrite, FailsAt, RenameOutput, Reopen,
                OpenDestination, CopyStream
  <2>3. pc = "stored"
    BY <2>1, <2>2 DEF Finish
  <2>. QED
    BY <2>3 DEF IInv, OwedKept
<1>2. Spec => [][Done]_vars
  BY <1>1, SpecInvariant, PTL DEF Spec
<1>. QED
  BY <1>2 DEF DoneMeansSaved
=============================================================================
