-------------------------------- MODULE Xref --------------------------------
(***************************************************************************)
(* The cross-reference table of the PDF library and the incremental save   *)
(* (source/pdf/pdf-xref.c, pdf-write.c, pdf-object.c).                     *)
(*                                                                         *)
(* A document is a stack of sections, the newest first.  Those at the      *)
(* bottom were read from the file; changes go to an incremental section on *)
(* top of them, and after a signature to another one.  xref_index          *)
(* remembers for every object the section to start looking for it in.      *)
(* Saving appends the incremental sections to a copy of the file, the      *)
(* oldest first; the application then opens the new file.                  *)
(*                                                                         *)
(* Sections and object numbers count from 1 here; object 0, the head of    *)
(* the free list, is left out.  The contents of an object are a value and, *)
(* for a stream, its data, in a buffer or in the file.  Generation numbers *)
(* and byte offsets are left out: a section of a file is known by its      *)
(* place.  An object in an object stream is one of type "n".  The file is  *)
(* assumed to be well-formed, so that it is never repaired.                *)
(***************************************************************************)
EXTENDS Naturals, Sequences

CONSTANTS MaxNum,        \* bound: the highest object number
          Values,        \* the values of objects
          Data,          \* the data of streams
          Signature,     \* the value of a signature
          XRefStream,    \* the value of an object that holds a xref stream
          None,
          MaxIncrements, \* bound: the incremental sections of a document
          MaxSaves,      \* bound: how often the document is saved
          MaxFailures,   \* bound: how often a save fails
          MaxEdits       \* bound: how often the document is edited

Nums == 1..MaxNum
Vals == Values \cup {Signature, XRefStream}

ASSUME XrefAssumption ==
  /\ MaxNum \in Nat /\ MaxIncrements \in Nat
  /\ MaxSaves \in Nat /\ MaxFailures \in Nat /\ MaxEdits \in Nat
  /\ Values # {} /\ Data # {} /\ None \notin Vals \cup Data
  /\ Signature # XRefStream /\ {Signature, XRefStream} \cap Values = {}
  /\ None \notin [val : Vals, stm : Data \cup {None}]

VARIABLES
  table,    \* pdf_document, see Table
  file,     \* the sections of the file, the oldest first
  out,      \* the copy of the file that is being written, or <<>>
  todo,     \* how many increments are still to be written
  use,      \* use_list: the objects the writer takes to be in use
  saves, failures, edits,
  trust,    \* no failure has left the open document in disorder
  written   \* what each object was last set to (a history variable)

vars == <<table, file, out, todo, use, saves, failures, edits, trust, written>>

Blank == [type |-> "none", val |-> None, buf |-> None, stm |-> None]
FreeEntry == [Blank EXCEPT !.type = "f"]
Empty == [n \in Nums |-> Blank]
Least(S) == CHOOSE i \in S : \A j \in S : i <= j
Larger(a, b) == IF a < b THEN b ELSE a

Stream(e) == IF e.buf # None THEN e.buf ELSE e.stm

---------------------------------------------------------------------------
(* Finding and changing entries.  t is the table.                          *)

Defining(t, from, n) ==
  {i \in from..Len(t.sections) : t.sections[i].e[n].type # "none"}

(* The section whose entry pdf_get_xref_entry(n) returns.  An object that  *)
(* no section defines is looked for in the base section, and if the oldest *)
(* section does not reach as far, in the newest.                           *)
Where(t, n) ==
  LET found  == Defining(t, Larger(t.index[n], t.base), n)
      oldest == t.sections[Len(t.sections)]
  IN  IF found # {} THEN Least(found)
      ELSE IF n <= oldest.len /\ n <= t.sections[t.base].len THEN t.base ELSE 1

(* pdf_get_xref_entry remembers where it has found the object.             *)
Look(t, n) ==
  LET found == Defining(t, Larger(t.index[n], t.base), n)
  IN  [t EXCEPT !.index[n] = IF found = {} THEN 1
                             ELSE IF t.base = 1 THEN Least(found) ELSE @]

LookAll(t) ==
  [t EXCEPT !.index = [n \in Nums |-> IF n <= t.len THEN Look(t, n).index[n]
                                      ELSE @[n]]]

(* Mutant: an increment that has been signed takes further changes.        *)
EnsureIgnoringSignatures(t) ==
  IF t.ninc = 0 /\ ~t.closed
  THEN [t EXCEPT !.sections = <<[len |-> t.sections[1].len, e |-> Empty,
                                 sigs |-> FALSE]>> \o @,
                 !.ninc = @ + 1,
                 !.index = [n \in Nums |-> IF n <= t.len THEN @[n] + 1 ELSE 1]]
  ELSE t

(* A section for changes is on top unless new ones are disallowed.         *)
EnsureIncrementalXref(t) ==
  IF (t.ninc = 0 \/ t.sections[1].sigs) /\ ~t.closed
  THEN [t EXCEPT !.sections = <<[len |-> t.sections[1].len, e |-> Empty,
                                 sigs |-> FALSE]>> \o @,
                 !.ninc = @ + 1,
                 !.index = [n \in Nums |-> IF n <= t.len THEN @[n] + 1 ELSE 1]]
  ELSE t

(* Mutant: where to look for the object is not reset.                      *)
IncrementalKeepsIndex(t, n) ==
  LET s == EnsureIncrementalXref(t)
  IN  [s EXCEPT !.sections[s.base].len = Larger(@, n),
                !.len = Larger(@, n)]

(* pdf_get_incremental_xref_entry: the entry of n in the base section can  *)
(* be written, the section is resized to have one.                         *)
Incremental(t, n) ==
  LET s == EnsureIncrementalXref(t)
  IN  [s EXCEPT !.sections[s.base].len = Larger(@, n),
                !.len = Larger(@, n),
                !.index[n] = 1]

CreateObject(t) ==
  LET n == t.len + 1
      s == Incremental(t, n)
  IN  [s EXCEPT !.sections[s.base].e[n] = FreeEntry]

UpdateObject(t, n, v) ==
  LET s == Incremental(t, n)
  IN  [s EXCEPT !.sections[s.base].e[n].type = "n",
                !.sections[s.base].e[n].val = v]

DeleteObject(t, n) ==
  LET s == Incremental(t, n)
  IN  [s EXCEPT !.sections[s.base].e[n] = FreeEntry]

(* Mutant: the entry is copied without the stream it has in a buffer.      *)
MoveWithoutBuffer(t, n) ==
  LET s     == EnsureIncrementalXref(t)
      found == Defining(s, s.index[n], n)
      i     == Least(found)
      r     == Incremental(s, n)
  IN  IF found = {} \/ i = 1 THEN s
      ELSE [r EXCEPT !.sections[r.base].e[n] =
                       [s.sections[i].e[n] EXCEPT !.buf = None]]

(* pdf_xref_ensure_incremental_object: the entry moves to the increment,   *)
(* and so does the stream it has in a buffer.  A signed increment keeps a  *)
(* copy of the object (of the stream it does not).                         *)
EnsureIncrementalObject(t, n) ==
  LET s     == EnsureIncrementalXref(t)
      found == Defining(s, s.index[n], n)
      i     == Least(found)
      r     == Incremental(s, n)
  IN  IF found = {} \/ i = 1 THEN s
      ELSE [r EXCEPT !.sections[r.base].e[n] = s.sections[i].e[n],
                     !.sections[i].e[n].buf = None]

(* A dictionary or an array that is part of object n is changed.           *)
AlterObject(t, n, v) ==
  [EnsureIncrementalObject(t, n) EXCEPT !.sections[1].e[n].val = v]

(* The buffer is attached to the entry that is found; the new Length then  *)
(* moves the entry to the increment.                                       *)
UpdateStream(t, n, d) ==
  LET s == Look(t, n)
  IN  EnsureIncrementalObject([s EXCEPT !.sections[Where(s, n)].e[n].buf = d], n)

(* A signature is a new object; the field refers to it.                    *)
SetSignature(t, f, v) ==
  LET n == t.len + 1
      s == UpdateObject(AlterObject(CreateObject(t), f, v), n, Signature)
  IN  [s EXCEPT !.sections[1].sigs = TRUE]

---------------------------------------------------------------------------
(* Reading a file.                                                         *)

Reach(e) == LET D == {n \in Nums : e[n].type # "none"}
            IN  IF D = {} THEN 0 ELSE CHOOSE n \in D : \A m \in D : m <= n

(* The sections that are read from the newest one through Prev.            *)
Chain(f) ==
  LET from[k \in 0..Len(f)] == IF k = 0 THEN <<>>
                               ELSE <<f[k]>> \o from[f[k].prev]
  IN  from[Len(f)]

(* pdf_prime_xref_index: free entries do not count.                        *)
Primed(sections, n) ==
  LET live == {i \in DOMAIN sections : sections[i].e[n].type = "n"}
  IN  IF live = {} THEN 1 ELSE Least(live)

(* Mutant: the length of the table is that of its newest section.          *)
LoadNewestLength(f) ==
  LET read == Chain(f)
      sections == [i \in DOMAIN read |-> [len |-> Reach(read[i].e),
                                          e |-> read[i].e, sigs |-> FALSE]]
  IN  LookAll([sections |-> sections, ninc |-> 0, base |-> 1,
               index |-> [n \in Nums |-> Primed(sections, n)],
               len |-> sections[1].len, closed |-> FALSE,
               startxref |-> Len(f),
               streams |-> \E i \in DOMAIN read : read[i].stream])

LoadXref(f) ==
  LET read == Chain(f)
      sections == [i \in DOMAIN read |-> [len |-> Reach(read[i].e),
                                          e |-> read[i].e, sigs |-> FALSE]]
      lens == {sections[i].len : i \in DOMAIN sections}
  IN  LookAll([sections |-> sections, ninc |-> 0, base |-> 1,
               index |-> [n \in Nums |-> Primed(sections, n)],
               len |-> CHOOSE m \in lens : \A l \in lens : l <= m,
               closed |-> FALSE, startxref |-> Len(f),
               streams |-> \E i \in DOMAIN read : read[i].stream])

(* What sections say of the objects, the newest section first.             *)
Known(e) == e.type = "n" /\ e.val # XRefStream
Latest(sections, n) ==
  LET D == {i \in DOMAIN sections : sections[i].e[n].type # "none"}
  IN  IF D = {} THEN Blank ELSE sections[Least(D)].e[n]
Held(e) == IF Known(e) THEN [val |-> e.val, stm |-> Stream(e)] ELSE None
Contents(f) == [n \in Nums |-> Held(Latest(Chain(f), n))]

---------------------------------------------------------------------------
(* The editor.                                                             *)

Entry(n) == table.sections[Where(table, n)].e[n]
(* Nobody has a reference to an object that has been deleted, or to one    *)
(* that only holds a cross-reference stream.                               *)
Deleted(t, n) == LET D == Defining(t, 1, n)
                 IN  D # {} /\ t.sections[Least(D)].e[n].type = "f"
Usable(n) == /\ n <= table.len /\ ~Deleted(table, n)
             /\ Entry(n).type = "n" /\ Entry(n).val # XRefStream
Ready == out = <<>> /\ trust
EditRoom(k) == /\ edits < MaxEdits /\ table.len + k <= MaxNum
               /\ edits' = edits + 1

Changed(t) ==
  /\ t.ninc <= MaxIncrements
  /\ table' = t
  /\ UNCHANGED <<file, out, todo, use, saves, failures, trust>>

(* pdf_load_object, pdf_resolve_indirect.                                  *)
LoadObject(n) ==
  /\ Ready /\ n <= table.len
  /\ Changed(Look(table, n)) /\ UNCHANGED <<edits, written>>

(* pdf_create_object and pdf_update_object.                                *)
NewObject(v) ==
  /\ Ready /\ EditRoom(1)
  /\ Changed(UpdateObject(CreateObject(table), table.len + 1, v))
  /\ written' = [written EXCEPT ![table.len + 1] = [val |-> v, stm |-> None]]

(* The contents of a whole object are replaced.  Only an array or a        *)
(* dictionary without a stream is.                                         *)
Replace(n, v) ==
  /\ Ready /\ EditRoom(0) /\ Usable(n) /\ Stream(Entry(n)) = None
  /\ Changed(UpdateObject(table, n, v))
  /\ written' = [written EXCEPT ![n].val = v]

Delete(n) ==
  /\ Ready /\ EditRoom(0) /\ Usable(n)
  /\ Changed(DeleteObject(table, n))
  /\ written' = [written EXCEPT ![n] = None]

Alter(n, v) ==
  /\ Ready /\ EditRoom(0) /\ Usable(n)
  /\ Changed(AlterObject(table, n, v))
  /\ written' = [written EXCEPT ![n].val = v]

NewStream(n, d) ==
  /\ Ready /\ EditRoom(0) /\ Usable(n)
  /\ Changed(UpdateStream(table, n, d))
  /\ written' = [written EXCEPT ![n].stm = d]

(* pdf_sign_signature.  A visible signature gets its appearance after it   *)
(* has been recorded.  A document in which an earlier save has failed does *)
(* not open another section: what is changed next would be signed as well. *)
Sign(f, v, visible) ==
  /\ Ready /\ EditRoom(1) /\ Usable(f) /\ Entry(f).val # Signature
  /\ LET s == SetSignature(table, f, v)
     IN  table' = IF visible THEN AlterObject(s, f, v) ELSE s
  /\ table'.ninc <= MaxIncrements
  /\ trust' = ~table.closed
  /\ written' = [written EXCEPT ![f].val = v,
                    ![table.len + 1] = [val |-> Signature, stm |-> None]]
  /\ UNCHANGED <<file, out, todo, use, saves, failures>>

---------------------------------------------------------------------------
(* Saving.                                                                 *)

(* saveAsInternal copies the file, pdf_write_document appends to it.  A    *)
(* document without changes has nothing to append.                         *)
BeginWrite ==
  /\ Ready /\ saves < MaxSaves
  /\ table.streams => table.len + table.ninc <= MaxNum
  /\ out' = file
  /\ todo' = table.ninc
  /\ use' = 1..table.len
  /\ table' = IF table.ninc = 0 THEN table
              ELSE [LookAll(table) EXCEPT !.closed = TRUE]
  /\ UNCHANGED <<file, saves, failures, edits, trust, written>>

InBase(t, n) ==
  n <= t.sections[t.base].len /\ t.sections[t.base].e[n].type # "none"

(* The objects of one increment, as the writer finds them, and their xref. *)
Written(t, live) ==
  [n \in Nums |->
    LET e == t.sections[Where(t, n)].e[n]
    IN  IF ~InBase(t, n) THEN Blank
        ELSE IF n \notin live THEN FreeEntry
        ELSE [type |-> "n", val |-> e.val, buf |-> None, stm |-> Stream(e)]]

(* The increment of number todo: its objects, then a table or a stream     *)
(* with the entries of the section.  A stream is an object itself.         *)
WriteIncrement ==
  /\ out # <<>> /\ todo > 0
  /\ LET t    == LookAll([table EXCEPT !.base = todo])
         live == {n \in use : t.sections[Where(t, n)].e[n].type = "n"}
         s    == IF t.streams
                 THEN UpdateObject(CreateObject(t), t.len + 1, XRefStream)
                 ELSE t
         used == IF t.streams THEN live \cup {s.len} ELSE live
     IN  /\ out' = Append(out, [e |-> Written(s, used), prev |-> t.startxref,
                                stream |-> t.streams])
         /\ use' = used
         /\ table' = [s EXCEPT !.startxref = Len(out) + 1]
  /\ todo' = todo - 1
  /\ UNCHANGED <<file, saves, failures, edits, trust, written>>

(* The new file takes the place of the old one and is opened.              *)
FinishWrite ==
  /\ out # <<>> /\ todo = 0
  /\ file' = out
  /\ table' = LoadXref(out)
  /\ out' = <<>> /\ use' = {}
  /\ saves' = saves + 1
  /\ UNCHANGED <<todo, failures, edits, trust, written>>

(* An object cannot be loaded, or the output not opened to complete the    *)
(* signatures: base, closed and startxref stay what they are.  With one    *)
(* increment that is not signed this does no harm, if an object was the    *)
(* reason.  When the copy cannot be opened freeze_updates stays set, and   *)
(* when the xref itself fails startxref names a place beyond the file.     *)
FailWrite ==
  /\ out # <<>> /\ table.ninc > 0 /\ failures < MaxFailures
  /\ todo = 0 => \E i \in 1..table.ninc : table.sections[i].sigs
  /\ failures' = failures + 1
  /\ table' = IF todo = 0 THEN [table EXCEPT !.base = 1, !.closed = FALSE]
              ELSE [table EXCEPT !.base = todo]
  /\ trust' \in {FALSE, todo = 1 /\ table.ninc = 1 /\ ~table.sections[1].sigs}
  /\ out' = <<>> /\ use' = {} /\ todo' = 0
  /\ UNCHANGED <<file, saves, edits, written>>

(* Mutant: xref_index is taken over from the document that was closed.     *)
ReopenKeepsIndex ==
  /\ out = <<>>
  /\ table' = [LoadXref(file) EXCEPT !.index = table.index]
  /\ trust' = TRUE
  /\ written' = Contents(file)
  /\ UNCHANGED <<file, out, todo, use, saves, failures, edits>>

(* The document is closed and its file opened again.                       *)
Reopen ==
  /\ out = <<>>
  /\ table' = LoadXref(file)
  /\ trust' = TRUE
  /\ written' = Contents(file)
  /\ UNCHANGED <<file, out, todo, use, saves, failures, edits>>

---------------------------------------------------------------------------

(* A file has one section, or a second one in which an object has been     *)
(* changed, or deleted.  Object 1 is a field and object 2 a stream.        *)
Live(v, d) == [Blank EXCEPT !.type = "n", !.val = v, !.stm = d]
Original == LET v == CHOOSE w \in Values : TRUE
            IN  [Empty EXCEPT ![1] = Live(v, None),
                              ![2] = Live(v, CHOOSE d \in Data : TRUE)]
FirstSection(s) == [e |-> Original, prev |-> 0, stream |-> s]
SecondSection(c, s) == [e |-> [Empty EXCEPT ![1] = c], prev |-> 1, stream |-> s]

Init ==
  /\ \E s \in BOOLEAN :
       \/ file = <<FirstSection(s)>>
       \/ \E c \in {FreeEntry} \cup {Live(v, None) : v \in Values} :
            file = <<FirstSection(s), SecondSection(c, s)>>
  /\ table = LoadXref(file)
  /\ out = <<>> /\ todo = 0 /\ use = {}
  /\ saves = 0 /\ failures = 0 /\ edits = 0 /\ trust = TRUE
  /\ written = Contents(file)

Next ==
  \/ \E n \in Nums : LoadObject(n)
  \/ \E v \in Values : NewObject(v)
  \/ \E n \in Nums, v \in Values : Replace(n, v)
  \/ \E n \in Nums : Delete(n)
  \/ \E n \in Nums, v \in Values : Alter(n, v)
  \/ \E n \in Nums, d \in Data : NewStream(n, d)
  \/ \E f \in Nums, v \in Values, visible \in BOOLEAN : Sign(f, v, visible)
  \/ BeginWrite
  \/ WriteIncrement
  \/ FinishWrite
  \/ FailWrite
  \/ Reopen

Spec == Init /\ [][Next]_vars

---------------------------------------------------------------------------
(* Properties.                                                             *)

Entries == [type : {"none", "f", "n"}, val : Vals \cup {None},
            buf : Data \cup {None}, stm : Data \cup {None}]

(* Types of the variables.                                                 *)
TypeOK ==
  /\ \A i \in DOMAIN table.sections :
       table.sections[i] \in [len : 0..MaxNum, e : [Nums -> Entries],
                              sigs : BOOLEAN]
  /\ table.ninc \in 0..MaxIncrements /\ table.ninc < Len(table.sections)
  /\ table.base \in 1..Len(table.sections)
  /\ table.index \in [Nums -> 1..Len(table.sections)]
  /\ table.len \in 0..MaxNum
  /\ {table.closed, table.streams, trust} \subseteq BOOLEAN
  /\ \A f \in {file, out} : \A k \in DOMAIN f :
       f[k] \in [e : [Nums -> Entries], prev : 0..k - 1, stream : BOOLEAN]
  /\ table.startxref \in 1..Larger(Len(file), Len(out)) \/ ~trust
  /\ todo \in 0..table.ninc /\ use \subseteq Nums
  /\ saves \in 0..MaxSaves /\ failures \in 0..MaxFailures
  /\ edits \in 0..MaxEdits
  /\ written \in [Nums -> {None} \cup [val : Vals, stm : Data \cup {None}]]

(* The section xref_index tells to start from is never below one that has  *)
(* the object: no change is overlooked, whatever sections were put on top, *)
(* written, failed to be written or read back.                             *)
NoNewerEntry ==
  \A n \in 1..table.len : \A i \in 1..table.index[n] - 1 :
    table.sections[i].e[n].type # "n"

(* A number the file has used in any of its sections is not given to a new *)
(* object (pdf_create_object takes the one after max_xref_len).            *)
NumbersNotReused ==
  \A k \in DOMAIN file : \A n \in Nums :
    file[k].e[n].type # "none" => n <= table.len

(* Whatever sections the table has, pdf_get_xref_entry finds for each      *)
(* object what it was last set to, with its stream.                        *)
Document ==
  [n \in Nums |-> IF Deleted(table, n) THEN None ELSE Held(Entry(n))]

FindsLastChange == out = <<>> /\ trust => Document = written

(* A signed version is what the increments up to the signed one say, a     *)
(* version of the file what its sections up to some point say.             *)
Version(sections) ==
  [n \in Nums |-> LET e == Latest(sections, n)
                  IN  IF Known(e) THEN e.val ELSE None]

VersionFrom(t, i) == Version(SubSeq(t.sections, i, Len(t.sections)))

(* An increment is put on another one only when that has been signed.      *)
Sealed(t) == IF t.ninc > 0 /\ ~t.sections[1].sigs THEN t.ninc - 1 ELSE t.ninc
SignedVersions(t) == [k \in 1..Sealed(t) |-> VersionFrom(t, t.ninc + 1 - k)]

FileVersions(f) == [k \in DOMAIN f |-> Version(Chain(SubSeq(f, 1, k)))]

R == INSTANCE Revisions
       WITH Gone <- None, obj <- written, signed <- SignedVersions(table),
            stored <- FileVersions(file)

(* No change reaches a version that has been signed, and the file that is  *)
(* read back has every signed version as it was, then the last one.        *)
KeepsRevisions == R!Spec
=============================================================================
