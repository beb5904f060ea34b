----------------------------- MODULE XrefProofs -----------------------------
(***************************************************************************)
(* Proofs about module Xref, for any object numbers, values and streams,   *)
(* any number of edits, saves and failures.                                *)
(***************************************************************************)
EXTENDS Xref, ListLemmas

-----------------------------------------------------------------------------
Section == [len : 0..MaxNum, e : [Nums -> Entries], sigs : BOOLEAN]
Tables == [sections : Seq(Section), ninc : Nat, base : Nat,
           index : [Nums -> Nat], len : 0..MaxNum, closed : BOOLEAN,
           startxref : Nat, streams : BOOLEAN]
FileSection == [e : [Nums -> Entries], prev : Nat, stream : BOOLEAN]

Tidy(e) == /\ e.type = "none" => e = Blank
           /\ e.type = "f" => e = FreeEntry
           /\ e.type = "n" => e.val # None

At(t, i, n) == t.sections[i].e[n]

Shaped(t) ==
  /\ t \in Tables
  /\ t.ninc < Len(t.sections) /\ t.base \in 1..Len(t.sections)
  /\ t.index \in [Nums -> 1..Len(t.sections)]
  /\ t.closed => t.ninc > 0

Measured(t) ==
  \A i \in 1..Len(t.sections) : \A n \in Nums :
    /\ Tidy(At(t, i, n))
    /\ At(t, i, n).type # "none" => n <= t.sections[i].len
    /\ t.sections[i].len <= t.len

Indexed(t) ==
  \A n \in Nums : \A i \in 1..t.index[n] - 1 :
    /\ At(t, i, n).type # "n"
    /\ i <= t.ninc => At(t, i, n).type = "none"

NotRevived(t) ==
  \A n \in Nums : \A j \in 1..Len(t.sections) : \A i \in 1..j - 1 :
    At(t, j, n).type = "f" => At(t, i, n).type # "n"

Oldest(t) ==
  \A n \in Nums : n <= t.sections[Len(t.sections)].len =>
    At(t, Len(t.sections), n).type # "none"

TableOK(t) == Shaped(t) /\ Measured(t) /\ Indexed(t) /\ NotRevived(t) /\ Oldest(t)

FileOK(f) ==
  /\ f \in Seq(FileSection) /\ f # <<>>
  /\ \A k \in 1..Len(f) : f[k].prev = k - 1
  /\ \A k \in 1..Len(f) : \A n \in Nums : Tidy(f[k].e[n]) /\ f[k].e[n].buf = None
  /\ \A n \in Nums : \A k \in 1..Len(f) : \A j \in 1..k - 1 :
       f[j].e[n].type = "f" => f[k].e[n].type # "n"
  /\ \A n, m \in Nums : m <= n /\ f[1].e[n].type # "none" => f[1].e[m].type # "none"

Loaded(t, f) ==
  /\ Len(t.sections) = t.ninc + Len(f)
  /\ \A k \in 1..Len(f) : \A n \in Nums :
       At(t, t.ninc + k, n) = f[Len(f) + 1 - k].e[n]

Copied(w, e, n, u) ==
  \/ e.type # "n" /\ w = e
  \/ e.type = "n" /\ w = [type |-> "n", val |-> e.val, buf |-> None, stm |-> Stream(e)]
  \/ e.type = "n" /\ w = FreeEntry /\ n \notin u /\ MaxIncrements > 2

OutOK ==
  /\ FileOK(out) /\ Len(out) = Len(file) + table.ninc - todo
  /\ \A k \in 1..Len(file) : out[k] = file[k]
  /\ \A k \in todo + 1..table.ninc : \A n \in Nums :
       Copied(out[Len(file) + table.ninc + 1 - k].e[n], At(table, k, n), n, use)

Writing ==
  /\ trust /\ saves < MaxSaves /\ OutOK /\ table.startxref = Len(out)
  /\ table.closed \/ table.ninc = 0
  /\ table.streams => table.len + todo <= MaxNum
  /\ MaxIncrements <= 2 => \A i \in 1..todo : \A n \in Nums :
       At(table, i, n).type = "n" => n \in use

Idle == todo = 0 /\ use = {} /\ (trust => table.base = 1 /\ table.startxref = Len(file))

Found ==
  trust => \A n \in Nums :
    \/ Held(Latest(table.sections, n)) = written[n]
    \/ MaxIncrements > 2 /\ Held(Latest(table.sections, n)) = None

Typed ==
  /\ table.ninc <= MaxIncrements /\ trust \in BOOLEAN
  /\ todo \in 0..table.ninc /\ use \subseteq 1..table.len
  /\ saves \in 0..MaxSaves /\ failures \in 0..MaxFailures /\ edits \in 0..MaxEdits
  /\ written \in [Nums -> {None} \cup [val : Vals, stm : Data \cup {None}]]

IInv ==
  /\ Typed /\ TableOK(table) /\ FileOK(file) /\ Loaded(table, file)
  /\ (out # <<>> => Writing) /\ (out = <<>> => Idle)
  /\ Found

-----------------------------------------------------------------------------
(* The table as a record.                                                  *)

LEMMA ShapedIs ==
  ASSUME NEW t, Shaped(t)
  PROVE  /\ t.sections \in Seq(Section) /\ Len(t.sections) \in Nat
         /\ DOMAIN t.sections = 1..Len(t.sections)
         /\ Len(t.sections) >= 1 /\ 1 \in 1..Len(t.sections)
         /\ t.ninc \in Nat /\ t.base \in Nat /\ t.len \in 0..MaxNum /\ MaxNum \in Nat
         /\ t.base \in 1..Len(t.sections) /\ t.startxref \in Nat
         /\ t.closed \in BOOLEAN /\ t.streams \in BOOLEAN
         /\ t.index \in [Nums -> 1..Len(t.sections)]
         /\ \A i \in 1..Len(t.sections) :
              /\ t.sections[i] \in Section /\ t.sections[i].len \in 0..MaxNum
              /\ t.sections[i].e \in [Nums -> Entries]
              /\ t.sections[i].sigs \in BOOLEAN
              /\ \A n \in Nums : At(t, i, n) \in Entries
<1>1. /\ t \in Tables /\ t.ninc < Len(t.sections) /\ t.base \in 1..Len(t.sections)
      /\ t.index \in [Nums -> 1..Len(t.sections)] /\ MaxNum \in Nat
  BY XrefAssumption DEF Shaped
<1>2. /\ t.sections \in Seq(Section) /\ t.ninc \in Nat /\ t.base \in Nat
      /\ t.len \in 0..MaxNum /\ t.startxref \in Nat
      /\ t.closed \in BOOLEAN /\ t.streams \in BOOLEAN
  BY <1>1 DEF Tables
<1>3. /\ Len(t.sections) \in Nat /\ DOMAIN t.sections = 1..Len(t.sections)
      /\ \A i \in 1..Len(t.sections) : t.sections[i] \in Section
  BY <1>2
<1>4. Len(t.sections) >= 1 /\ 1 \in 1..Len(t.sections)
  BY <1>1, <1>2, <1>3
<1>5. \A s \in Section : /\ s.len \in 0..MaxNum /\ s.e \in [Nums -> Entries]
                         /\ s.sigs \in BOOLEAN
  BY DEF Section
<1>. QED
  BY <1>1, <1>2, <1>3, <1>4, <1>5 DEF At

LEMMA BlankOK ==
  /\ Blank \in Entries /\ FreeEntry \in Entries
  /\ Empty \in [Nums -> Entries]
  /\ Blank.type = "none" /\ FreeEntry.type = "f"
  /\ Blank.buf = None /\ FreeEntry.buf = None
  /\ \A n \in Nums : Empty[n] = Blank
  /\ Tidy(Blank) /\ Tidy(FreeEntry)
BY DEF Blank, FreeEntry, Empty, Entries, Tidy

-----------------------------------------------------------------------------
(* What the operations do to the table.                                    *)

NeedsSection(t) == (t.ninc = 0 \/ t.sections[1].sigs) /\ ~t.closed

\* Table s is t with a new section on top.
Pushed(s, t) ==
  /\ s \in Tables /\ Len(s.sections) = Len(t.sections) + 1
  /\ s.sections[1].len = t.sections[1].len /\ ~s.sections[1].sigs
  /\ \A n \in Nums : At(s, 1, n) = Blank
  /\ \A i \in 1..Len(t.sections) : s.sections[i + 1] = t.sections[i]
  /\ s.ninc = t.ninc + 1 /\ s.base = t.base /\ s.len = t.len
  /\ \A n \in Nums : s.index[n] = IF n <= t.len THEN t.index[n] + 1 ELSE 1
  /\ s.closed = t.closed /\ s.startxref = t.startxref /\ s.streams = t.streams

LEMMA EnsureIs ==
  ASSUME NEW t, Shaped(t)
  PROVE  /\ NeedsSection(t) => Pushed(EnsureIncrementalXref(t), t)
         /\ ~NeedsSection(t) => EnsureIncrementalXref(t) = t
<1>1. SUFFICES ASSUME NeedsSection(t) PROVE Pushed(EnsureIncrementalXref(t), t)
  BY DEF EnsureIncrementalXref, NeedsSection
<1>. DEFINE top == [len |-> t.sections[1].len, e |-> Empty, sigs |-> FALSE]
            ss == <<top>> \o t.sections
            idx == [n \in Nums |-> IF n <= t.len THEN t.index[n] + 1 ELSE 1]
            s == EnsureIncrementalXref(t)
<1>2. s = [t EXCEPT !.sections = ss, !.ninc = t.ninc + 1, !.base = t.base,
                    !.index = idx, !.len = t.len]
  <2>1. s = [t EXCEPT !.sections = ss, !.ninc = t.ninc + 1, !.index = idx]
    BY <1>1 DEF EnsureIncrementalXref, NeedsSection
  <2>. HIDE DEF s, ss, idx
  <2>2. t \in Tables
    BY DEF Shaped
  <2>. QED
    BY <2>1, <2>2 DEF Tables
<1>3. top \in Section
  BY ShapedIs, BlankOK DEF Section
<1>4. /\ ss \in Seq(Section) /\ Len(ss) = Len(t.sections) + 1 /\ ss[1] = top
      /\ \A i \in 1..Len(t.sections) : ss[i + 1] = t.sections[i]
  <2>. HIDE DEF top
  <2>. QED
    BY <1>3, ShapedIs
<1>5. idx \in [Nums -> Nat]
  BY ShapedIs
<1>. HIDE DEF s, ss, idx
<1>6. /\ s \in Tables /\ s.sections = ss /\ s.ninc = t.ninc + 1 /\ s.index = idx
      /\ s.base = t.base /\ s.len = t.len /\ s.closed = t.closed
      /\ s.startxref = t.startxref /\ s.streams = t.streams
  <2>1. t \in Tables /\ t.ninc + 1 \in Nat /\ t.base \in Nat /\ t.len \in 0..MaxNum
    BY ShapedIs DEF Shaped
  <2>2. ss \in Seq(Section)
    BY <1>4
  <2>. QED
    BY <1>2, <1>5, <2>1, <2>2 DEF Tables
<1>7. \A n \in Nums : At(s, 1, n) = Blank
  BY <1>4, <1>6, BlankOK DEF At
<1>8. s.sections[1].len = t.sections[1].len /\ ~s.sections[1].sigs
  BY <1>4, <1>6
<1>9. \A n \in Nums : s.index[n] = IF n <= t.len THEN t.index[n] + 1 ELSE 1
  BY <1>6 DEF idx
<1>10. Pushed(s, t)
  BY <1>4, <1>6, <1>7, <1>8, <1>9 DEF Pushed
<1>. QED
  BY <1>10 DEF s


\* Table w is u with x as the entry of object n in section i.
Sets(w, u, i, n, x) ==
  /\ w \in Tables /\ Len(w.sections) = Len(u.sections)
  /\ \A j \in 1..Len(u.sections) :
       /\ w.sections[j].len = u.sections[j].len /\ w.sections[j].sigs = u.sections[j].sigs
       /\ \A m \in Nums : At(w, j, m) = IF j = i /\ m = n THEN x ELSE At(u, j, m)
  /\ w.ninc = u.ninc /\ w.base = u.base /\ w.index = u.index /\ w.len = u.len
  /\ w.closed = u.closed /\ w.startxref = u.startxref /\ w.streams = u.streams

LEMMA SettingSections ==
  ASSUME NEW u \in Tables, NEW i \in 1..Len(u.sections), NEW n \in Nums, NEW x \in Entries,
         NEW ss, NEW w,
         ss = [u.sections EXCEPT ![i] = [u.sections[i] EXCEPT !.e = [u.sections[i].e EXCEPT ![n] = x]]],
         w = [u EXCEPT !.sections = ss]
  PROVE  Sets(w, u, i, n, x)
<1>1. u.sections \in Seq(Section) /\ Len(u.sections) \in Nat
  BY DEF Tables
<1>2. \A j \in 1..Len(u.sections) : u.sections[j] \in Section
  BY <1>1
<1>. DEFINE a == [u.sections[i].e EXCEPT ![n] = x]
            b == [u.sections[i] EXCEPT !.e = a]
<1>3. a \in [Nums -> Entries]
  BY <1>2 DEF Section
<1>4. b \in Section /\ b.len = u.sections[i].len /\ b.sigs = u.sections[i].sigs /\ b.e = a
  <2>. HIDE DEF a
  <2>. QED
    BY <1>2, <1>3 DEF Section
<1>5. ss = [u.sections EXCEPT ![i] = b]
  OBVIOUS
<1>. HIDE DEF b
<1>6. /\ ss \in Seq(Section) /\ Len(ss) = Len(u.sections)
      /\ \A j \in 1..Len(u.sections) : ss[j] = IF j = i THEN b ELSE u.sections[j]
  BY <1>1, <1>4, <1>5
<1>7. /\ w \in Tables /\ w.sections = ss
      /\ w.ninc = u.ninc /\ w.base = u.base /\ w.index = u.index /\ w.len = u.len
      /\ w.closed = u.closed /\ w.startxref = u.startxref /\ w.streams = u.streams
  <2>1. ss \in Seq(Section)
    BY <1>6
  <2>. QED
    BY <2>1 DEF Tables
<1>8. \A m \in Nums : a[m] = IF m = n THEN x ELSE u.sections[i].e[m]
  BY <1>2 DEF Section
<1>9. \A j \in 1..Len(u.sections) : \A m \in Nums :
        At(w, j, m) = IF j = i /\ m = n THEN x ELSE At(u, j, m)
  BY <1>4, <1>6, <1>7, <1>8 DEF At
<1>10. \A j \in 1..Len(u.sections) :
         w.sections[j].len = u.sections[j].len /\ w.sections[j].sigs = u.sections[j].sigs
  BY <1>4, <1>6, <1>7
<1>. QED
  BY <1>6, <1>7, <1>9, <1>10 DEF Sets

LEMMA SettingEntry ==
  ASSUME NEW u \in Tables, NEW i \in 1..Len(u.sections), NEW n \in Nums, NEW x \in Entries
  PROVE  Sets([u EXCEPT !.sections[i].e[n] = x], u, i, n, x)
<1>1. [u EXCEPT !.sections[i].e[n] = x]
        = [u EXCEPT !.sections = [u.sections EXCEPT ![i] =
             [u.sections[i] EXCEPT !.e = [u.sections[i].e EXCEPT ![n] = x]]]]
  OBVIOUS
<1>. QED
  BY <1>1, SettingSections

LEMMA SettingFields ==
  ASSUME NEW u \in Tables, NEW i \in 1..Len(u.sections), NEW n \in Nums
  PROVE  /\ At(u, i, n) \in Entries
         /\ Sets([u EXCEPT !.sections[i].e[n].type = "n"], u, i, n,
                 [At(u, i, n) EXCEPT !.type = "n"])
         /\ \A v \in Vals : Sets([u EXCEPT !.sections[i].e[n].val = v], u, i, n,
                                 [At(u, i, n) EXCEPT !.val = v])
         /\ \A d \in Data \cup {None} :
              Sets([u EXCEPT !.sections[i].e[n].buf = d], u, i, n,
                   [At(u, i, n) EXCEPT !.buf = d])
<1>1. At(u, i, n) \in Entries
  <2>1. u.sections \in Seq(Section)
    BY DEF Tables
  <2>2. u.sections[i] \in Section
    BY <2>1
  <2>. QED
    BY <2>2 DEF Section, At
<1>2. [u EXCEPT !.sections[i].e[n].type = "n"]
        = [u EXCEPT !.sections[i].e[n] = [At(u, i, n) EXCEPT !.type = "n"]]
  BY DEF At
<1>5. /\ [At(u, i, n) EXCEPT !.type = "n"] \in Entries
      /\ \A v \in Vals : [At(u, i, n) EXCEPT !.val = v] \in Entries
      /\ \A d \in Data \cup {None} : [At(u, i, n) EXCEPT !.buf = d] \in Entries
  BY <1>1 DEF Entries
<1>6. Sets([u EXCEPT !.sections[i].e[n].type = "n"], u, i, n, [At(u, i, n) EXCEPT !.type = "n"])
  BY <1>2, <1>5, SettingEntry
<1>7. ASSUME NEW v \in Vals
      PROVE  Sets([u EXCEPT !.sections[i].e[n].val = v], u, i, n,
                  [At(u, i, n) EXCEPT !.val = v])
  <2>1. [u EXCEPT !.sections[i].e[n].val = v]
          = [u EXCEPT !.sections[i].e[n] = [At(u, i, n) EXCEPT !.val = v]]
    BY DEF At
  <2>2. [At(u, i, n) EXCEPT !.val = v] \in Entries
    BY <1>5
  <2>. QED
    BY <2>1, <2>2, SettingEntry
<1>8. ASSUME NEW d \in Data \cup {None}
      PROVE  Sets([u EXCEPT !.sections[i].e[n].buf = d], u, i, n,
                  [At(u, i, n) EXCEPT !.buf = d])
  <2>1. [u EXCEPT !.sections[i].e[n].buf = d]
          = [u EXCEPT !.sections[i].e[n] = [At(u, i, n) EXCEPT !.buf = d]]
    BY DEF At
  <2>2. [At(u, i, n) EXCEPT !.buf = d] \in Entries
    BY <1>5
  <2>. QED
    BY <2>1, <2>2, SettingEntry
<1>. QED
  BY <1>1, <1>6, <1>7, <1>8

LEMMA SettingTypeAndVal ==
  ASSUME NEW u \in Tables, NEW i \in 1..Len(u.sections), NEW n \in Nums, NEW v \in Vals
  PROVE  Sets([u EXCEPT !.sections[i].e[n].type = "n", !.sections[i].e[n].val = v],
              u, i, n, [At(u, i, n) EXCEPT !.type = "n", !.val = v])
<1>. DEFINE w == [u EXCEPT !.sections[i].e[n].type = "n"]
            z == [u EXCEPT !.sections[i].e[n].type = "n", !.sections[i].e[n].val = v]
<1>1. z = [w EXCEPT !.sections[i].e[n].val = v]
  OBVIOUS
<1>2. Sets(w, u, i, n, [At(u, i, n) EXCEPT !.type = "n"])
  BY SettingFields
<1>. HIDE DEF w, z
<1>3. w \in Tables /\ i \in 1..Len(w.sections) /\ At(w, i, n) = [At(u, i, n) EXCEPT !.type = "n"]
  BY <1>2 DEF Sets
<1>4. Sets(z, w, i, n, [At(w, i, n) EXCEPT !.val = v])
  BY <1>1, <1>3, SettingFields
<1>5. [At(w, i, n) EXCEPT !.val = v] = [At(u, i, n) EXCEPT !.type = "n", !.val = v]
  BY <1>3
<1>6. Sets(z, u, i, n, [At(w, i, n) EXCEPT !.val = v])
  BY <1>2, <1>4 DEF Sets
<1>. QED
  BY <1>5, <1>6 DEF z

\* Table u is t with x as the entry of object n in its base section; the
\* stream of an older entry of n may have been taken out of its buffer.
Put(u, t, n, x) ==
  /\ u \in Tables /\ Len(u.sections) = Len(t.sections)
  /\ \A i \in 1..Len(t.sections) :
       /\ u.sections[i].len = IF i = t.base THEN Larger(t.sections[i].len, n)
                              ELSE t.sections[i].len
       /\ u.sections[i].sigs = t.sections[i].sigs
       /\ \A m \in Nums : m # n => At(u, i, m) = At(t, i, m)
       /\ i # t.base => At(u, i, n) \in {At(t, i, n), [At(t, i, n) EXCEPT !.buf = None]}
  /\ At(u, t.base, n) = x
  /\ \A m \in Nums : u.index[m] = IF m = n THEN 1 ELSE t.index[m]
  /\ u.len = Larger(t.len, n) /\ u.ninc = t.ninc /\ u.base = t.base
  /\ u.closed = t.closed /\ u.startxref = t.startxref /\ u.streams = t.streams

LEMMA LargerIs ==
  ASSUME NEW a \in 0..MaxNum, NEW b \in 0..MaxNum
  PROVE  /\ Larger(a, b) \in 0..MaxNum /\ Larger(a, b) >= a /\ Larger(a, b) >= b
         /\ Larger(a, b) \in {a, b}
BY XrefAssumption DEF Larger

LEMMA IncrementalIs ==
  ASSUME NEW t, NEW n \in Nums, Shaped(EnsureIncrementalXref(t))
  PROVE  LET s == EnsureIncrementalXref(t)
         IN  Put(Incremental(t, n), s, n, At(s, s.base, n))
<1>. DEFINE s == EnsureIncrementalXref(t)
            r == Incremental(t, n)
            c == [s.sections[s.base] EXCEPT !.len = Larger(s.sections[s.base].len, n)]
            ss == [s.sections EXCEPT ![s.base] = c]
            idx == [s.index EXCEPT ![n] = 1]
            l == Larger(s.len, n)
<1>1. r = [s EXCEPT !.sections = ss, !.len = l, !.index = idx]
  BY DEF Incremental
<1>. HIDE DEF s, r
<1>2. Shaped(s) /\ s \in Tables /\ n \in 0..MaxNum
  BY XrefAssumption DEF s, Shaped, Nums
<1>3. /\ s.sections \in Seq(Section) /\ s.base \in 1..Len(s.sections)
      /\ Len(s.sections) \in Nat /\ s.sections[s.base] \in Section /\ s.len \in 0..MaxNum
      /\ s.index \in [Nums -> 1..Len(s.sections)] /\ s.sections[s.base].len \in 0..MaxNum
  BY <1>2, ShapedIs
<1>4. c \in Section /\ c.len = Larger(s.sections[s.base].len, n)
      /\ c.e = s.sections[s.base].e /\ c.sigs = s.sections[s.base].sigs
  <2>1. Larger(s.sections[s.base].len, n) \in 0..MaxNum
    BY <1>2, <1>3, LargerIs
  <2>. QED
    BY <1>3, <2>1 DEF Section
<1>5. /\ ss \in Seq(Section) /\ Len(ss) = Len(s.sections)
      /\ \A i \in 1..Len(s.sections) : ss[i] = IF i = s.base THEN c ELSE s.sections[i]
  <2>. HIDE DEF c
  <2>. QED
    BY <1>3, <1>4
<1>6. idx \in [Nums -> Nat] /\ \A m \in Nums : idx[m] = IF m = n THEN 1 ELSE s.index[m]
  BY <1>3
<1>7. l \in 0..MaxNum
  BY <1>2, <1>3, LargerIs
<1>. HIDE DEF c, ss, idx, l
<1>8. /\ r \in Tables /\ r.sections = ss /\ r.len = l /\ r.index = idx
      /\ r.ninc = s.ninc /\ r.base = s.base /\ r.closed = s.closed
      /\ r.startxref = s.startxref /\ r.streams = s.streams
  <2>1. ss \in Seq(Section)
    BY <1>5
  <2>2. idx \in [Nums -> Nat]
    BY <1>6
  <2>. QED
    BY <1>1, <1>2, <1>7, <2>1, <2>2 DEF Tables
<1>9. \A i \in 1..Len(s.sections) : \A m \in Nums : At(r, i, m) = At(s, i, m)
  BY <1>4, <1>5, <1>8 DEF At
<1>10. \A i \in 1..Len(s.sections) :
         /\ r.sections[i].len = IF i = s.base THEN Larger(s.sections[i].len, n)
                                ELSE s.sections[i].len
         /\ r.sections[i].sigs = s.sections[i].sigs
  BY <1>4, <1>5, <1>8
<1>11. Put(r, s, n, At(s, s.base, n))
  <2>1. At(r, s.base, n) = At(s, s.base, n)
    BY <1>3, <1>9
  <2>2. \A m \in Nums : r.index[m] = IF m = n THEN 1 ELSE s.index[m]
    BY <1>6, <1>8
  <2>3. Len(r.sections) = Len(s.sections) /\ r.len = Larger(s.len, n)
    BY <1>5, <1>8 DEF l
  <2>. QED
    BY <1>8, <1>9, <1>10, <2>1, <2>2, <2>3 DEF Put
<1>. QED
  BY <1>11 DEF s, r

\* An entry that is put and then set.
LEMMA PutSet ==
  ASSUME NEW s, Shaped(s), NEW n \in Nums, NEW r, NEW x, NEW w, NEW y,
         Put(r, s, n, x), Sets(w, r, s.base, n, y)
  PROVE  Put(w, s, n, y)
<1>1. Len(s.sections) \in Nat /\ s.base \in 1..Len(s.sections)
  BY ShapedIs
<1>2. /\ Len(r.sections) = Len(s.sections)
      /\ \A i \in 1..Len(s.sections) :
           /\ r.sections[i].len = IF i = s.base THEN Larger(s.sections[i].len, n)
                                  ELSE s.sections[i].len
           /\ r.sections[i].sigs = s.sections[i].sigs
           /\ \A m \in Nums : m # n => At(r, i, m) = At(s, i, m)
           /\ i # s.base => At(r, i, n) \in {At(s, i, n), [At(s, i, n) EXCEPT !.buf = None]}
      /\ \A m \in Nums : r.index[m] = IF m = n THEN 1 ELSE s.index[m]
      /\ r.len = Larger(s.len, n) /\ r.ninc = s.ninc /\ r.base = s.base
      /\ r.closed = s.closed /\ r.startxref = s.startxref /\ r.streams = s.streams
  BY DEF Put
<1>3. /\ w \in Tables /\ Len(w.sections) = Len(r.sections)
      /\ \A i \in 1..Len(r.sections) :
           /\ w.sections[i].len = r.sections[i].len /\ w.sections[i].sigs = r.sections[i].sigs
           /\ \A m \in Nums : At(w, i, m) = IF i = s.base /\ m = n THEN y ELSE At(r, i, m)
      /\ w.ninc = r.ninc /\ w.base = r.base /\ w.index = r.index /\ w.len = r.len
      /\ w.closed = r.closed /\ w.startxref = r.startxref /\ w.streams = r.streams
  BY DEF Sets
<1>4. \A i \in 1..Len(s.sections) :
           /\ w.sections[i].len = IF i = s.base THEN Larger(s.sections[i].len, n)
                                  ELSE s.sections[i].len
           /\ w.sections[i].sigs = s.sections[i].sigs
  BY <1>2, <1>3
<1>5. \A i \in 1..Len(s.sections) :
           /\ \A m \in Nums : m # n => At(w, i, m) = At(s, i, m)
           /\ i # s.base => At(w, i, n) \in {At(s, i, n), [At(s, i, n) EXCEPT !.buf = None]}
  BY <1>2, <1>3
<1>6. At(w, s.base, n) = y
  BY <1>1, <1>2, <1>3
<1>. QED
  BY <1>2, <1>3, <1>4, <1>5, <1>6 DEF Put

LEMMA PutPut ==
  ASSUME NEW s, Shaped(s), NEW n \in Nums, NEW r, NEW x, NEW w, NEW y,
         Put(r, s, n, x), Put(w, r, n, y)
  PROVE  Put(w, s, n, y)
<1>1. /\ Len(s.sections) \in Nat /\ s.base \in 1..Len(s.sections) /\ n \in 0..MaxNum
      /\ s.len \in 0..MaxNum
      /\ \A i \in 1..Len(s.sections) : s.sections[i].len \in 0..MaxNum
  BY ShapedIs, XrefAssumption DEF Nums
<1>2. \A a \in 0..MaxNum : Larger(Larger(a, n), n) = Larger(a, n)
  BY <1>1, XrefAssumption DEF Larger
<1>3. /\ Len(r.sections) = Len(s.sections) /\ r.base = s.base
      /\ \A i \in 1..Len(s.sections) :
           /\ r.sections[i].len = IF i = s.base THEN Larger(s.sections[i].len, n)
                                  ELSE s.sections[i].len
           /\ r.sections[i].sigs = s.sections[i].sigs
      /\ r.len = Larger(s.len, n)
  BY DEF Put
<1>4. /\ Len(w.sections) = Len(r.sections)
      /\ \A i \in 1..Len(r.sections) :
           /\ w.sections[i].len = IF i = r.base THEN Larger(r.sections[i].len, n)
                                  ELSE r.sections[i].len
           /\ w.sections[i].sigs = r.sections[i].sigs
      /\ w.len = Larger(r.len, n)
  BY DEF Put
<1>5. /\ w.len = Larger(s.len, n)
      /\ \A i \in 1..Len(s.sections) :
           /\ w.sections[i].len = IF i = s.base THEN Larger(s.sections[i].len, n)
                                  ELSE s.sections[i].len
           /\ w.sections[i].sigs = s.sections[i].sigs
  BY <1>1, <1>2, <1>3, <1>4
<1>6. \A i \in 1..Len(s.sections) : \A m \in Nums : m # n => At(w, i, m) = At(s, i, m)
  BY <1>3 DEF Put
<1>7. ASSUME NEW i \in 1..Len(s.sections), i # s.base
      PROVE  At(w, i, n) \in {At(s, i, n), [At(s, i, n) EXCEPT !.buf = None]}
  <2>1. At(r, i, n) \in {At(s, i, n), [At(s, i, n) EXCEPT !.buf = None]}
    BY <1>7 DEF Put
  <2>2. At(w, i, n) \in {At(r, i, n), [At(r, i, n) EXCEPT !.buf = None]}
    BY <1>3, <1>7 DEF Put
  <2>3. [[At(s, i, n) EXCEPT !.buf = None] EXCEPT !.buf = None]
          = [At(s, i, n) EXCEPT !.buf = None]
    OBVIOUS
  <2>. QED
    BY <2>1, <2>2, <2>3
<1>8. /\ At(w, s.base, n) = y /\ w \in Tables
      /\ \A m \in Nums : w.index[m] = IF m = n THEN 1 ELSE s.index[m]
      /\ w.ninc = s.ninc /\ w.base = s.base
      /\ w.closed = s.closed /\ w.startxref = s.startxref /\ w.streams = s.streams
  BY <1>3 DEF Put
<1>. QED
  BY <1>3, <1>4, <1>5, <1>6, <1>7, <1>8 DEF Put

LEMMA PushedShaped ==
  ASSUME NEW t, NEW s, Shaped(t), Pushed(s, t)
  PROVE  Shaped(s) /\ ~NeedsSection(s)
<1>1. /\ Len(t.sections) \in Nat /\ t.ninc \in Nat /\ t.ninc < Len(t.sections)
      /\ t.base \in 1..Len(t.sections) /\ \A n \in Nums : t.index[n] \in 1..Len(t.sections)
  BY ShapedIs DEF Shaped
<1>2. /\ s \in Tables /\ Len(s.sections) = Len(t.sections) + 1 /\ ~s.sections[1].sigs
      /\ s.ninc = t.ninc + 1 /\ s.base = t.base
      /\ \A n \in Nums : s.index[n] = IF n <= t.len THEN t.index[n] + 1 ELSE 1
  BY DEF Pushed
<1>3. \A n \in Nums : s.index[n] \in 1..Len(s.sections)
  BY <1>1, <1>2
<1>4. s.index \in [Nums -> 1..Len(s.sections)]
  <2>1. s.index \in [Nums -> Nat]
    BY <1>2 DEF Tables
  <2>. QED
    BY <1>3, <2>1
<1>5. s.ninc < Len(s.sections) /\ s.base \in 1..Len(s.sections) /\ s.ninc > 0 /\ s.ninc # 0
  BY <1>1, <1>2
<1>. QED
  BY <1>2, <1>4, <1>5 DEF Shaped, NeedsSection

LEMMA EnsureShaped ==
  ASSUME NEW t, Shaped(t)
  PROVE  LET s == EnsureIncrementalXref(t)
         IN  Shaped(s) /\ ~NeedsSection(s) /\ EnsureIncrementalXref(s) = s
BY EnsureIs, PushedShaped

LEMMA PutShaped ==
  ASSUME NEW s, Shaped(s), NEW n \in Nums, NEW u, NEW x, Put(u, s, n, x)
  PROVE  Shaped(u) /\ (~NeedsSection(s) => ~NeedsSection(u))
<1>1. /\ Len(s.sections) \in Nat /\ 1 \in 1..Len(s.sections) /\ s.ninc < Len(s.sections)
      /\ s.base \in 1..Len(s.sections) /\ \A m \in Nums : s.index[m] \in 1..Len(s.sections)
      /\ s.closed => s.ninc > 0
  BY ShapedIs DEF Shaped
<1>2. /\ u \in Tables /\ Len(u.sections) = Len(s.sections)
      /\ u.sections[1].sigs = s.sections[1].sigs
      /\ u.ninc = s.ninc /\ u.base = s.base /\ u.closed = s.closed
      /\ \A m \in Nums : u.index[m] = IF m = n THEN 1 ELSE s.index[m]
  BY <1>1 DEF Put
<1>3. u.index \in [Nums -> 1..Len(u.sections)]
  <2>1. u.index \in [Nums -> Nat]
    BY <1>2 DEF Tables
  <2>2. \A m \in Nums : u.index[m] \in 1..Len(u.sections)
    BY <1>1, <1>2
  <2>. QED
    BY <2>1, <2>2
<1>. QED
  BY <1>1, <1>2, <1>3 DEF Shaped, NeedsSection

LEMMA ObjectsIs ==
  ASSUME NEW t, Shaped(t), NEW n \in Nums
  PROVE  LET s == EnsureIncrementalXref(t)
         IN  /\ n = t.len + 1 => Put(CreateObject(t), s, n, FreeEntry)
             /\ Put(DeleteObject(t, n), s, n, FreeEntry)
             /\ \A v \in Vals : Put(UpdateObject(t, n, v), s, n,
                                    [At(s, s.base, n) EXCEPT !.type = "n", !.val = v])
<1>. DEFINE s == EnsureIncrementalXref(t)
            r == Incremental(t, n)
            w == [r EXCEPT !.sections[r.base].e[n] = FreeEntry]
<1>1. Shaped(s) /\ Put(r, s, n, At(s, s.base, n))
  BY EnsureShaped, IncrementalIs
<1>. HIDE DEF s, r
<1>2. r \in Tables /\ r.base = s.base /\ r.base \in 1..Len(r.sections)
      /\ At(r, r.base, n) = At(s, s.base, n)
  BY <1>1, ShapedIs DEF Put
<1>3. Put(w, s, n, FreeEntry)
  <2>1. Sets(w, r, r.base, n, FreeEntry)
    BY <1>2, BlankOK, SettingEntry
  <2>. HIDE DEF w
  <2>. QED
    BY <1>1, <1>2, <2>1, PutSet
<1>4. ASSUME NEW v \in Vals
      PROVE  Put(UpdateObject(t, n, v), s, n,
                 [At(s, s.base, n) EXCEPT !.type = "n", !.val = v])
  <2>. DEFINE z == [r EXCEPT !.sections[r.base].e[n].type = "n",
                             !.sections[r.base].e[n].val = v]
  <2>1. Sets(z, r, r.base, n, [At(r, r.base, n) EXCEPT !.type = "n", !.val = v])
    BY <1>2, SettingTypeAndVal
  <2>2. UpdateObject(t, n, v) = z
    BY DEF UpdateObject, r
  <2>. HIDE DEF z
  <2>. QED
    BY <1>1, <1>2, <2>1, <2>2, PutSet
<1>5. DeleteObject(t, n) = w
  BY DEF DeleteObject, r
<1>6. n = t.len + 1 => CreateObject(t) = w
  BY DEF CreateObject, r
<1>. HIDE DEF w
<1>. QED
  BY <1>3, <1>4, <1>5, <1>6 DEF s

\* A new object.
LEMMA NewObjectIs ==
  ASSUME NEW t, Shaped(t), NEW v \in Vals, t.len + 1 \in Nums
  PROVE  Put(UpdateObject(CreateObject(t), t.len + 1, v), EnsureIncrementalXref(t),
             t.len + 1, [FreeEntry EXCEPT !.type = "n", !.val = v])
<1>. DEFINE s == EnsureIncrementalXref(t)
            n == t.len + 1
            u == CreateObject(t)
            w == UpdateObject(u, n, v)
<1>1. Shaped(s) /\ ~NeedsSection(s) /\ Put(u, s, n, FreeEntry)
  BY EnsureShaped, ObjectsIs
<1>. HIDE DEF s, u
<1>2. Shaped(u) /\ EnsureIncrementalXref(u) = u /\ u.base = s.base /\ At(u, u.base, n) = FreeEntry
  <2>1. Shaped(u) /\ ~NeedsSection(u)
    BY <1>1, PutShaped
  <2>. QED
    BY <1>1, <2>1, EnsureIs DEF Put
<1>3. Put(w, u, n, [FreeEntry EXCEPT !.type = "n", !.val = v])
  BY <1>2, ObjectsIs
<1>. HIDE DEF w, n
<1>. QED
  BY <1>1, <1>3, PutPut DEF s, u, w, n

-----------------------------------------------------------------------------
(* Finding an object.                                                      *)

\* Section i has the newest entry of object n, and it is in use.
Newest(t, n, i) ==
  /\ i \in 1..Len(t.sections) /\ At(t, i, n).type = "n"
  /\ \A j \in 1..i - 1 : At(t, j, n).type = "none"

LEMMA LeastIs ==
  ASSUME NEW S \in SUBSET Nat, NEW m \in S, \A x \in S : m <= x
  PROVE  Least(S) = m
<1>1. Least(S) \in S /\ \A x \in S : Least(S) <= x
  BY DEF Least
<1>2. Least(S) \in Nat /\ m \in Nat
  BY <1>1
<1>. QED
  BY <1>1, <1>2

LEMMA LeastIn ==
  ASSUME NEW S \in SUBSET Nat, S # {}
  PROVE  Least(S) \in S /\ \A x \in S : Least(S) <= x
BY LeastExists DEF Least

LEMMA DefiningIs ==
  ASSUME NEW t, Shaped(t), NEW n \in Nums, NEW k \in 1..Len(t.sections)
  PROVE  /\ Defining(t, k, n) \in SUBSET Nat
         /\ \A i : i \in Defining(t, k, n)
                     <=> i \in 1..Len(t.sections) /\ k <= i /\ At(t, i, n).type # "none"
<1>1. Len(t.sections) \in Nat /\ k \in Nat /\ k >= 1
  BY ShapedIs
<1>. QED
  BY <1>1 DEF Defining, At

\* The entry that Latest returns: of the first section that has one.
LEMMA LatestIs ==
  ASSUME NEW t, Shaped(t), NEW n \in Nums
  PROVE  /\ \A i \in 1..Len(t.sections) :
              /\ At(t, i, n).type # "none"
              /\ \A j \in 1..i - 1 : At(t, j, n).type = "none"
              => Latest(t.sections, n) = At(t, i, n)
         /\ (\A i \in 1..Len(t.sections) : At(t, i, n).type = "none")
              => Latest(t.sections, n) = Blank
<1>. DEFINE D == {i \in DOMAIN t.sections : t.sections[i].e[n].type # "none"}
<1>1. DOMAIN t.sections = 1..Len(t.sections) /\ Len(t.sections) \in Nat
  BY ShapedIs
<1>2. ASSUME NEW i \in 1..Len(t.sections), At(t, i, n).type # "none",
             \A j \in 1..i - 1 : At(t, j, n).type = "none"
      PROVE  Latest(t.sections, n) = At(t, i, n)
  <2>1. D \in SUBSET Nat /\ i \in D
    BY <1>1, <1>2 DEF At
  <2>2. ASSUME NEW x \in D PROVE i <= x
    <3>1. x \in 1..Len(t.sections) /\ At(t, x, n).type # "none"
      BY <1>1 DEF At
    <3>2. x \notin 1..i - 1
      BY <1>2, <3>1
    <3>. QED
      BY <1>1, <3>1, <3>2
  <2>3. Least(D) = i
    BY <2>1, <2>2, LeastIs
  <2>. QED
    BY <2>1, <2>3 DEF Latest, At
<1>3. ASSUME \A i \in 1..Len(t.sections) : At(t, i, n).type = "none"
      PROVE  Latest(t.sections, n) = Blank
  BY <1>1, <1>3 DEF Latest, At
<1>. QED
  BY <1>2, <1>3

\* Either no section has the object, or one of them has its newest entry.
LEMMA FirstEntry ==
  ASSUME NEW t, Shaped(t), NEW n \in Nums
  PROVE  \/ \A i \in 1..Len(t.sections) : At(t, i, n).type = "none"
         \/ \E i \in 1..Len(t.sections) :
              /\ At(t, i, n).type # "none"
              /\ \A j \in 1..i - 1 : At(t, j, n).type = "none"
<1>1. Len(t.sections) \in Nat /\ 1 \in 1..Len(t.sections)
  BY ShapedIs
<1>. DEFINE D == {i \in 1..Len(t.sections) : At(t, i, n).type # "none"}
<1>2. CASE D = {}
  BY <1>2
<1>3. CASE D # {}
  <2>1. D \in SUBSET Nat
    BY <1>1
  <2>2. PICK i \in D : \A x \in D : i <= x
    BY <1>3, <2>1, LeastExists
  <2>3. ASSUME NEW j \in 1..i - 1
        PROVE  At(t, j, n).type = "none"
    <3>1. j \in 1..Len(t.sections) /\ ~(i <= j)
      BY <1>1, <2>2
    <3>. QED
      BY <2>2, <3>1
  <2>. QED
    BY <2>2, <2>3
<1>. QED
  BY <1>2, <1>3

\* With the base on top, what pdf_get_xref_entry finds is the newest entry of
\* an object, unless that is a free one.
LEMMA FindIs ==
  ASSUME NEW t, Shaped(t), Indexed(t), t.base = 1, NEW n \in Nums
  PROVE  /\ Where(t, n) \in 1..Len(t.sections)
         /\ \A i : Newest(t, n, i) =>
              /\ Defining(t, t.index[n], n) # {} /\ Least(Defining(t, t.index[n], n)) = i
              /\ Where(t, n) = i
         /\ (\A i \in 1..Len(t.sections) : At(t, i, n).type = "none")
              => At(t, Where(t, n), n).type = "none"
<1>. DEFINE k == t.index[n]
            F == Defining(t, k, n)
<1>1. Len(t.sections) \in Nat /\ k \in 1..Len(t.sections) /\ 1 \in 1..Len(t.sections)
  BY ShapedIs
<1>2. Larger(k, t.base) = k
  BY <1>1 DEF Larger
<1>3. Where(t, n) = IF F # {} THEN Least(F) ELSE 1
  BY <1>2 DEF Where
<1>4. /\ F \in SUBSET Nat
      /\ \A i : i \in F <=> i \in 1..Len(t.sections) /\ k <= i /\ At(t, i, n).type # "none"
  BY <1>1, DefiningIs
<1>5. F # {} => Least(F) \in F
  BY <1>4, LeastIn
<1>6. ASSUME NEW i, Newest(t, n, i)
      PROVE  F # {} /\ Least(F) = i
  <2>1. i \in 1..Len(t.sections) /\ At(t, i, n).type = "n"
        /\ \A j \in 1..i - 1 : At(t, j, n).type = "none"
    BY <1>6 DEF Newest
  <2>2. k <= i
    <3>1. i \notin 1..k - 1
      BY <2>1 DEF Indexed
    <3>. QED
      BY <1>1, <2>1, <3>1
  <2>3. i \in F
    BY <1>4, <2>1, <2>2
  <2>4. ASSUME NEW x \in F PROVE i <= x
    <3>1. x \in 1..Len(t.sections) /\ At(t, x, n).type # "none"
      BY <1>4
    <3>2. x \notin 1..i - 1
      BY <2>1, <3>1
    <3>. QED
      BY <1>1, <2>1, <3>1, <3>2
  <2>. HIDE DEF F
  <2>. QED
    BY <1>4, <2>3, <2>4, LeastIs
<1>. HIDE DEF F, k
<1>7. Where(t, n) \in 1..Len(t.sections)
  BY <1>1, <1>3, <1>4, <1>5
<1>. QED
  BY <1>3, <1>6, <1>7 DEF F, k

LEMMA UsableIs ==
  ASSUME NEW t, Shaped(t), Indexed(t), t.base = 1, NEW n \in Nums,
         ~Deleted(t, n), At(t, Where(t, n), n).type = "n"
  PROVE  \E i \in 1..Len(t.sections) : Newest(t, n, i) /\ Where(t, n) = i
<1>1. Where(t, n) \in 1..Len(t.sections) /\ Len(t.sections) \in Nat
  BY FindIs, ShapedIs
<1>2. PICK i \in 1..Len(t.sections) : /\ At(t, i, n).type # "none"
                                      /\ \A j \in 1..i - 1 : At(t, j, n).type = "none"
  BY <1>1, FirstEntry
<1>. DEFINE D == Defining(t, 1, n)
<1>3. /\ D \in SUBSET Nat
      /\ \A x : x \in D <=> x \in 1..Len(t.sections) /\ 1 <= x /\ At(t, x, n).type # "none"
  BY <1>1, DefiningIs
<1>4. i \in D
  BY <1>1, <1>2, <1>3
<1>5. ASSUME NEW x \in D PROVE i <= x
  <2>1. x \in 1..Len(t.sections) /\ At(t, x, n).type # "none"
    BY <1>3
  <2>2. x \notin 1..i - 1
    BY <1>2, <2>1
  <2>. QED
    BY <1>1, <2>1, <2>2
<1>. HIDE DEF D
<1>6. Least(D) = i
  BY <1>3, <1>4, <1>5, LeastIs
<1>7. At(t, i, n).type # "f"
  BY <1>4, <1>6 DEF Deleted, D, At
<1>8. At(t, i, n) \in Entries
  BY ShapedIs
<1>9. Newest(t, n, i)
  BY <1>2, <1>7, <1>8 DEF Newest, Entries
<1>. QED
  BY <1>9, FindIs

-----------------------------------------------------------------------------
(* The operations keep the table in order.                                 *)

LEMMA PushedKeeps ==
  ASSUME NEW t, NEW s, TableOK(t), Pushed(s, t)
  PROVE  TableOK(s)
<1>1. Shaped(t) /\ Shaped(s)
  BY PushedShaped DEF TableOK
<1>2. /\ Len(t.sections) \in Nat /\ Len(t.sections) >= 1 /\ t.ninc \in Nat /\ t.len \in Nat
      /\ \A n \in Nums : t.index[n] \in 1..Len(t.sections)
      /\ 1 \in 1..Len(t.sections)
  BY <1>1, ShapedIs
<1>3. /\ Len(s.sections) = Len(t.sections) + 1
      /\ s.sections[1].len = t.sections[1].len
      /\ \A n \in Nums : At(s, 1, n) = Blank
      /\ \A i \in 1..Len(t.sections) : s.sections[i + 1] = t.sections[i]
      /\ s.ninc = t.ninc + 1 /\ s.len = t.len
      /\ \A n \in Nums : s.index[n] = IF n <= t.len THEN t.index[n] + 1 ELSE 1
  BY DEF Pushed
<1>4. \A i \in 1..Len(t.sections) : \A n \in Nums : At(s, i + 1, n) = At(t, i, n)
  BY <1>3 DEF At
<1>5. \A i \in 1..Len(s.sections) :
        i # 1 => /\ i - 1 \in 1..Len(t.sections) /\ s.sections[i] = t.sections[i - 1]
                 /\ \A n \in Nums : At(s, i, n) = At(t, i - 1, n)
  <2>1. SUFFICES ASSUME NEW i \in 1..Len(s.sections), i # 1
                 PROVE  /\ i - 1 \in 1..Len(t.sections)
                        /\ s.sections[i] = t.sections[i - 1]
                        /\ \A n \in Nums : At(s, i, n) = At(t, i - 1, n)
    OBVIOUS
  <2>2. i - 1 \in 1..Len(t.sections) /\ (i - 1) + 1 = i
    BY <1>2, <1>3, <2>1
  <2>. QED
    BY <1>3, <1>4, <2>2
<1>6. Measured(s)
  <2>1. SUFFICES ASSUME NEW i \in 1..Len(s.sections), NEW n \in Nums
                 PROVE  /\ Tidy(At(s, i, n))
                        /\ At(s, i, n).type # "none" => n <= s.sections[i].len
                        /\ s.sections[i].len <= s.len
    BY DEF Measured
  <2>2. CASE i = 1
    <3>1. t.sections[1].len <= t.len
      BY <1>2 DEF TableOK, Measured
    <3>. QED
      BY <1>3, <2>2, <3>1, BlankOK
  <2>3. CASE i # 1
    <3>1. /\ i - 1 \in 1..Len(t.sections) /\ s.sections[i] = t.sections[i - 1]
          /\ At(s, i, n) = At(t, i - 1, n)
      BY <1>5, <2>3
    <3>2. /\ Tidy(At(t, i - 1, n))
          /\ At(t, i - 1, n).type # "none" => n <= t.sections[i - 1].len
          /\ t.sections[i - 1].len <= t.len
      BY <3>1 DEF TableOK, Measured
    <3>. QED
      BY <1>3, <3>1, <3>2
  <2>. QED
    BY <2>2, <2>3
<1>7. Indexed(s)
  <2>1. SUFFICES ASSUME NEW n \in Nums, NEW i \in 1..s.index[n] - 1
                 PROVE  /\ At(s, i, n).type # "n"
                        /\ i <= s.ninc => At(s, i, n).type = "none"
    BY DEF Indexed
  <2>2. n <= t.len /\ s.index[n] = t.index[n] + 1 /\ t.index[n] \in 1..Len(t.sections)
    BY <1>2, <1>3
  <2>3. CASE i = 1
    BY <1>3, <2>3, BlankOK
  <2>4. CASE i # 1
    <3>1. i - 1 \in 1..t.index[n] - 1 /\ i \in 1..Len(s.sections)
      <4>1. t.index[n] \in Nat /\ t.index[n] <= Len(t.sections)
        BY <1>2, <2>2
      <4>2. i \in 1..t.index[n]
        BY <2>2, <4>1
      <4>. QED
        BY <1>2, <1>3, <2>4, <4>1, <4>2
    <3>2. /\ At(t, i - 1, n).type # "n"
          /\ i - 1 <= t.ninc => At(t, i - 1, n).type = "none"
      BY <3>1 DEF TableOK, Indexed
    <3>3. i <= s.ninc => i - 1 <= t.ninc
      BY <1>2, <1>3, <3>1
    <3>. QED
      BY <1>5, <2>4, <3>1, <3>2, <3>3
  <2>. QED
    BY <2>3, <2>4
<1>8. NotRevived(s)
  <2>1. SUFFICES ASSUME NEW n \in Nums, NEW j \in 1..Len(s.sections), NEW i \in 1..j - 1,
                        At(s, j, n).type = "f"
                 PROVE  At(s, i, n).type # "n"
    BY DEF NotRevived
  <2>2. CASE i = 1
    BY <1>3, <2>2, BlankOK
  <2>3. CASE i # 1
    <3>1. j # 1 /\ i \in 1..Len(s.sections) /\ i - 1 \in 1..(j - 1) - 1
      BY <1>2, <1>3, <2>3
    <3>2. At(t, j - 1, n).type = "f" /\ j - 1 \in 1..Len(t.sections)
      BY <1>5, <2>1, <3>1
    <3>3. At(t, i - 1, n).type # "n"
      BY <3>1, <3>2 DEF TableOK, NotRevived
    <3>. QED
      BY <1>5, <2>3, <3>1, <3>3
  <2>. QED
    BY <2>2, <2>3
<1>9. Oldest(s)
  <2>1. /\ Len(s.sections) \in 1..Len(s.sections) /\ Len(s.sections) # 1
        /\ Len(s.sections) - 1 = Len(t.sections)
    BY <1>2, <1>3
  <2>2. /\ s.sections[Len(s.sections)] = t.sections[Len(t.sections)]
        /\ \A n \in Nums : At(s, Len(s.sections), n) = At(t, Len(t.sections), n)
    BY <1>5, <2>1
  <2>. QED
    BY <2>2 DEF TableOK, Oldest
<1>. QED
  BY <1>1, <1>6, <1>7, <1>8, <1>9 DEF TableOK

\* What Put leaves of the types of the entries.
LEMMA PutTypes ==
  ASSUME NEW s, Shaped(s), NEW n \in Nums, NEW u, NEW x \in Entries, Put(u, s, n, x),
         NEW i \in 1..Len(s.sections), NEW m \in Nums
  PROVE  /\ At(u, i, m).type = IF i = s.base /\ m = n THEN x.type ELSE At(s, i, m).type
         /\ At(u, i, m).val = IF i = s.base /\ m = n THEN x.val ELSE At(s, i, m).val
         /\ At(u, i, m).stm = IF i = s.base /\ m = n THEN x.stm ELSE At(s, i, m).stm
         /\ At(s, i, m).buf = None /\ ~(i = s.base /\ m = n) => At(u, i, m) = At(s, i, m)
         /\ Tidy(x) /\ Tidy(At(s, i, m)) => Tidy(At(u, i, m))
<1>1. At(s, i, m) \in Entries
  BY ShapedIs
<1>2. CASE m # n
  BY <1>2 DEF Put
<1>3. CASE m = n /\ i = s.base
  BY <1>3 DEF Put
<1>4. CASE m = n /\ i # s.base
  <2>1. At(u, i, n) \in {At(s, i, n), [At(s, i, n) EXCEPT !.buf = None]}
    BY <1>4 DEF Put
  <2>2. CASE At(u, i, n) = At(s, i, n)
    BY <1>4, <2>2
  <2>3. CASE At(u, i, n) = [At(s, i, n) EXCEPT !.buf = None]
    <3>. DEFINE e == At(s, i, n)
                d == At(u, i, n)
    <3>1. e \in Entries /\ d = [e EXCEPT !.buf = None]
      BY <1>1, <1>4, <2>3
    <3>. HIDE DEF e, d
    <3>2. d.type = e.type /\ d.val = e.val /\ d.stm = e.stm
      BY <3>1 DEF Entries
    <3>3. e.buf = None => d = e
      BY <3>1 DEF Entries
    <3>4. Tidy(e) => Tidy(d)
      <4>1. e.type \in {"none", "f"} /\ Tidy(e) => e.buf = None
        BY DEF Tidy, Blank, FreeEntry
      <4>2. e.type \in {"none", "f", "n"}
        BY <3>1 DEF Entries
      <4>. QED
        BY <3>2, <3>3, <4>1, <4>2 DEF Tidy
    <3>. QED
      BY <1>4, <3>2, <3>3, <3>4 DEF e, d
  <2>. QED
    BY <2>1, <2>2, <2>3
<1>. QED
  BY <1>2, <1>3, <1>4

LEMMA PutKeeps ==
  ASSUME NEW s, TableOK(s), s.base <= s.ninc, NEW n \in Nums, NEW u, NEW x \in Entries,
         Put(u, s, n, x), Tidy(x), x.type # "none",
         x.type = "n" => \A j \in s.base + 1..Len(s.sections) : At(s, j, n).type # "f",
         x.type = "f" => \A j \in 1..s.base - 1 : At(s, j, n).type # "n"
  PROVE  TableOK(u)
<1>1. Shaped(s) /\ Shaped(u)
  BY PutShaped DEF TableOK
<1>2. /\ Len(s.sections) \in Nat /\ s.ninc \in Nat /\ s.ninc < Len(s.sections)
      /\ s.base \in 1..Len(s.sections) /\ s.base # Len(s.sections)
      /\ s.len \in 0..MaxNum /\ n \in 0..MaxNum /\ MaxNum \in Nat
      /\ \A i \in 1..Len(s.sections) : s.sections[i].len \in 0..MaxNum
      /\ \A m \in Nums : s.index[m] \in 1..Len(s.sections)
  <2>1. s.ninc < Len(s.sections) /\ n \in 1..MaxNum
    BY <1>1 DEF Shaped, Nums
  <2>2. /\ Len(s.sections) \in Nat /\ s.ninc \in Nat /\ s.base \in 1..Len(s.sections)
        /\ s.len \in 0..MaxNum /\ MaxNum \in Nat
        /\ s.index \in [Nums -> 1..Len(s.sections)]
        /\ \A i \in 1..Len(s.sections) : s.sections[i].len \in 0..MaxNum
    BY <1>1, ShapedIs
  <2>. QED
    BY <2>1, <2>2
<1>3. /\ Len(u.sections) = Len(s.sections) /\ u.ninc = s.ninc /\ u.len = Larger(s.len, n)
      /\ \A i \in 1..Len(s.sections) :
           u.sections[i].len = IF i = s.base THEN Larger(s.sections[i].len, n)
                               ELSE s.sections[i].len
      /\ \A m \in Nums : u.index[m] = IF m = n THEN 1 ELSE s.index[m]
  BY DEF Put
<1>4. \A i \in 1..Len(s.sections) : \A m \in Nums :
        /\ At(u, i, m).type = IF i = s.base /\ m = n THEN x.type ELSE At(s, i, m).type
        /\ Tidy(At(u, i, m))
  <2>1. \A i \in 1..Len(s.sections) : \A m \in Nums : Tidy(At(s, i, m))
    BY DEF TableOK, Measured
  <2>. QED
    BY <1>1, <2>1, PutTypes
<1>5. Measured(u)
  <2>1. SUFFICES ASSUME NEW i \in 1..Len(s.sections), NEW m \in Nums
                 PROVE  /\ Tidy(At(u, i, m))
                        /\ At(u, i, m).type # "none" => m <= u.sections[i].len
                        /\ u.sections[i].len <= u.len
    BY <1>3 DEF Measured
  <2>2. /\ At(s, i, m).type # "none" => m <= s.sections[i].len
        /\ s.sections[i].len <= s.len
    BY DEF TableOK, Measured
  <2>3. /\ Larger(s.len, n) >= s.len /\ Larger(s.len, n) >= n /\ Larger(s.len, n) \in Nat
        /\ Larger(s.sections[i].len, n) >= s.sections[i].len
        /\ Larger(s.sections[i].len, n) >= n /\ Larger(s.sections[i].len, n) \in Nat
        /\ Larger(s.sections[i].len, n) <= Larger(s.len, n)
    <3>1. s.sections[i].len \in 0..MaxNum
      BY <1>2
    <3>. QED
      BY <1>2, <2>2, <3>1 DEF Larger
  <2>4. m \in Nat /\ s.sections[i].len \in Nat /\ s.len \in Nat
    BY <1>2 DEF Nums
  <2>. QED
    BY <1>3, <1>4, <2>2, <2>3, <2>4
<1>6. Indexed(u)
  <2>1. SUFFICES ASSUME NEW m \in Nums, NEW i \in 1..u.index[m] - 1
                 PROVE  /\ At(u, i, m).type # "n"
                        /\ i <= u.ninc => At(u, i, m).type = "none"
    BY DEF Indexed
  <2>2. m # n /\ u.index[m] = s.index[m]
    BY <1>3
  <2>3. i \in 1..Len(s.sections)
    BY <1>2, <2>2
  <2>4. /\ At(s, i, m).type # "n"
        /\ i <= s.ninc => At(s, i, m).type = "none"
    BY <2>2 DEF TableOK, Indexed
  <2>. QED
    BY <1>3, <1>4, <2>2, <2>3, <2>4
<1>7. NotRevived(u)
  <2>1. SUFFICES ASSUME NEW m \in Nums, NEW j \in 1..Len(s.sections), NEW i \in 1..j - 1,
                        At(u, j, m).type = "f"
                 PROVE  At(u, i, m).type # "n"
    BY <1>3 DEF NotRevived
  <2>2. i \in 1..Len(s.sections) /\ i < j
    BY <1>2
  <2>3. At(s, j, m).type = "f" => At(s, i, m).type # "n"
    BY DEF TableOK, NotRevived
  <2>4. CASE m = n /\ j = s.base
    <3>1. x.type = "f" /\ i \in 1..s.base - 1
      BY <1>4, <2>1, <2>4
    <3>2. At(s, i, n).type # "n" /\ i # s.base
      BY <1>2, <3>1
    <3>. QED
      BY <1>4, <2>2, <2>4, <3>2
  <2>5. CASE m = n /\ i = s.base
    <3>1. j \in s.base + 1..Len(s.sections) /\ j # s.base /\ At(s, j, n).type = "f"
      BY <1>2, <1>4, <2>1, <2>2, <2>5
    <3>. QED
      BY <1>4, <2>2, <2>5, <3>1
  <2>6. CASE ~(m = n /\ j = s.base) /\ ~(m = n /\ i = s.base)
    BY <1>4, <2>1, <2>2, <2>3, <2>6
  <2>. QED
    BY <2>4, <2>5, <2>6
<1>8. Oldest(u)
  <2>1. Len(s.sections) \in 1..Len(s.sections)
    BY <1>2
  <2>2. /\ u.sections[Len(u.sections)].len = s.sections[Len(s.sections)].len
        /\ \A m \in Nums :
             At(u, Len(u.sections), m).type = At(s, Len(s.sections), m).type
    BY <1>2, <1>3, <1>4, <2>1
  <2>. QED
    BY <2>2 DEF TableOK, Oldest
<1>. QED
  BY <1>1, <1>5, <1>6, <1>7, <1>8 DEF TableOK

\* Table u is t with other places to start looking from.
Reindexed(u, t) ==
  /\ u \in Tables /\ u.sections = t.sections /\ u.ninc = t.ninc /\ u.base = t.base
  /\ u.len = t.len /\ u.closed = t.closed
  /\ u.startxref = t.startxref /\ u.streams = t.streams

LEMMA IndexSet ==
  ASSUME NEW t \in Tables, NEW idx \in [Nums -> Nat]
  PROVE  /\ Reindexed([t EXCEPT !.index = idx], t)
         /\ [t EXCEPT !.index = idx].index = idx
BY DEF Reindexed, Tables

LEMMA ReindexedKeeps ==
  ASSUME NEW t, NEW u, TableOK(t), Reindexed(u, t),
         \A n \in Nums : /\ u.index[n] \in 1..Len(t.sections)
                         /\ \A i \in 1..u.index[n] - 1 :
                              /\ At(t, i, n).type # "n"
                              /\ i <= t.ninc => At(t, i, n).type = "none"
  PROVE  TableOK(u)
<1>1. Shaped(t) /\ Measured(t) /\ NotRevived(t) /\ Oldest(t)
  BY DEF TableOK
<1>2. /\ u \in Tables /\ u.sections = t.sections /\ u.ninc = t.ninc /\ u.base = t.base
      /\ u.len = t.len /\ u.closed = t.closed
  BY DEF Reindexed
<1>3. u.index \in [Nums -> 1..Len(u.sections)]
  <2>1. u.index \in [Nums -> Nat]
    BY <1>2 DEF Tables
  <2>. QED
    BY <1>2, <2>1
<1>4. Shaped(u)
  BY <1>1, <1>2, <1>3 DEF Shaped
<1>5. \A i : \A n : At(u, i, n) = At(t, i, n)
  BY <1>2 DEF At
<1>6. Measured(u)
  BY <1>1, <1>2, <1>5 DEF Measured
<1>7. Indexed(u)
  BY <1>2, <1>5 DEF Indexed
<1>8. NotRevived(u)
  BY <1>1, <1>2, <1>5 DEF NotRevived
<1>9. Oldest(u)
  BY <1>1, <1>2, <1>5 DEF Oldest
<1>. QED
  BY <1>4, <1>6, <1>7, <1>8, <1>9 DEF TableOK

LEMMA LookIs ==
  ASSUME NEW t, TableOK(t), NEW n \in Nums
  PROVE  LET u == Look(t, n) IN
         /\ Reindexed(u, t) /\ u.index \in [Nums -> Nat]
         /\ \A m \in Nums : m # n => u.index[m] = t.index[m]
         /\ u.index[n] \in 1..Len(t.sections)
         /\ \A i \in 1..u.index[n] - 1 : /\ At(t, i, n).type # "n"
                                         /\ i <= t.ninc => At(t, i, n).type = "none"
         /\ t.base = 1 => \A i : Newest(t, n, i) => u.index[n] = i
<1>. DEFINE k == Larger(t.index[n], t.base)
            F == Defining(t, k, n)
            j == IF F = {} THEN 1 ELSE IF t.base = 1 THEN Least(F) ELSE t.index[n]
            u == Look(t, n)
            idx == [t.index EXCEPT ![n] = j]
<1>1. u = [t EXCEPT !.index = idx]
  BY DEF Look
<1>2. /\ Shaped(t) /\ t \in Tables /\ Len(t.sections) \in Nat /\ 1 \in 1..Len(t.sections)
      /\ t.index \in [Nums -> 1..Len(t.sections)] /\ t.base \in 1..Len(t.sections)
  BY ShapedIs DEF TableOK, Shaped
<1>3. k \in 1..Len(t.sections) /\ (t.base = 1 => k = t.index[n])
  BY <1>2 DEF Larger
<1>4. /\ F \in SUBSET Nat
      /\ \A i : i \in F <=> i \in 1..Len(t.sections) /\ k <= i /\ At(t, i, n).type # "none"
  <2>. HIDE DEF k
  <2>. QED
    BY <1>2, <1>3, DefiningIs
<1>. HIDE DEF F, k
<1>5. F # {} => Least(F) \in F /\ \A x \in F : Least(F) <= x
  BY <1>4, LeastIn
<1>6. j \in 1..Len(t.sections)
  BY <1>2, <1>4, <1>5
<1>7. ASSUME NEW i \in 1..j - 1
      PROVE  At(t, i, n).type # "n" /\ (i <= t.ninc => At(t, i, n).type = "none")
  <2>1. F # {} /\ j \in Nat /\ t.index[n] \in Nat
    BY <1>2, <1>6
  <2>2. CASE i < t.index[n]
    <3>1. i \in 1..t.index[n] - 1
      BY <1>6, <2>1, <2>2
    <3>. QED
      BY <3>1 DEF TableOK, Indexed
  <2>3. CASE ~(i < t.index[n])
    <3>1. t.base = 1 /\ j = Least(F) /\ k <= i
      BY <1>3, <1>6, <2>1, <2>3
    <3>2. i \notin F /\ i \in 1..Len(t.sections)
      BY <1>4, <1>5, <1>6, <2>1, <3>1
    <3>3. At(t, i, n).type = "none"
      BY <1>4, <3>1, <3>2
    <3>. QED
      BY <3>3
  <2>. QED
    BY <2>2, <2>3
<1>8. t.base = 1 => \A i : Newest(t, n, i) => j = i
  BY <1>2, <1>3, FindIs DEF TableOK, F
<1>. HIDE DEF j, u
<1>9. idx \in [Nums -> Nat] /\ idx[n] = j /\ \A m \in Nums : m # n => idx[m] = t.index[m]
  BY <1>2, <1>6
<1>. HIDE DEF idx
<1>10. Reindexed(u, t) /\ u.index = idx
  BY <1>1, <1>2, <1>9, IndexSet
<1>11. /\ Reindexed(u, t) /\ u.index \in [Nums -> Nat]
       /\ \A m \in Nums : m # n => u.index[m] = t.index[m]
       /\ u.index[n] \in 1..Len(t.sections)
       /\ \A i \in 1..u.index[n] - 1 : /\ At(t, i, n).type # "n"
                                       /\ i <= t.ninc => At(t, i, n).type = "none"
       /\ t.base = 1 => \A i : Newest(t, n, i) => u.index[n] = i
  BY <1>6, <1>7, <1>8, <1>9, <1>10
<1>. QED
  BY <1>11 DEF u

LEMMA LookKeeps ==
  ASSUME NEW t, TableOK(t), NEW n \in Nums
  PROVE  TableOK(Look(t, n))
<1>. DEFINE u == Look(t, n)
<1>1. /\ Reindexed(u, t)
      /\ \A m \in Nums : m # n => u.index[m] = t.index[m]
      /\ u.index[n] \in 1..Len(t.sections)
      /\ \A i \in 1..u.index[n] - 1 : /\ At(t, i, n).type # "n"
                                      /\ i <= t.ninc => At(t, i, n).type = "none"
  BY LookIs
<1>. HIDE DEF u
<1>2. ASSUME NEW m \in Nums
      PROVE  /\ u.index[m] \in 1..Len(t.sections)
             /\ \A i \in 1..u.index[m] - 1 :
                  /\ At(t, i, m).type # "n"
                  /\ i <= t.ninc => At(t, i, m).type = "none"
  <2>1. t.index[m] \in 1..Len(t.sections)
    BY ShapedIs DEF TableOK
  <2>2. CASE m = n
    BY <1>1, <2>2
  <2>3. CASE m # n
    BY <1>1, <2>1, <2>3 DEF TableOK, Indexed
  <2>. QED
    BY <2>2, <2>3
<1>3. TableOK(u)
  BY <1>1, <1>2, ReindexedKeeps
<1>. QED
  BY <1>3 DEF u

LEMMA LookAllKeeps ==
  ASSUME NEW t, TableOK(t)
  PROVE  TableOK(LookAll(t)) /\ Reindexed(LookAll(t), t)
<1>. DEFINE idx == [n \in Nums |-> IF n <= t.len THEN Look(t, n).index[n] ELSE t.index[n]]
            u == LookAll(t)
<1>1. u = [t EXCEPT !.index = idx]
  BY DEF LookAll
<1>2. ASSUME NEW m \in Nums
      PROVE  /\ idx[m] \in 1..Len(t.sections) /\ idx[m] \in Nat
             /\ \A i \in 1..idx[m] - 1 :
                  /\ At(t, i, m).type # "n"
                  /\ i <= t.ninc => At(t, i, m).type = "none"
  <2>1. t.index[m] \in 1..Len(t.sections)
    BY ShapedIs DEF TableOK
  <2>2. CASE m <= t.len
    <3>1. idx[m] = Look(t, m).index[m]
      BY <2>2
    <3>2. /\ Look(t, m).index[m] \in 1..Len(t.sections)
          /\ \A i \in 1..Look(t, m).index[m] - 1 :
               /\ At(t, i, m).type # "n"
               /\ i <= t.ninc => At(t, i, m).type = "none"
      BY LookIs
    <3>. HIDE DEF idx
    <3>. QED
      BY <3>1, <3>2
  <2>3. CASE ~(m <= t.len)
    <3>1. idx[m] = t.index[m]
      BY <2>3
    <3>. HIDE DEF idx
    <3>. QED
      BY <2>1, <3>1 DEF TableOK, Indexed
  <2>. QED
    BY <2>2, <2>3
<1>3. idx \in [Nums -> Nat]
  BY <1>2
<1>4. t \in Tables
  BY DEF TableOK, Shaped
<1>. HIDE DEF idx, u
<1>5. Reindexed(u, t) /\ u.index = idx
  BY <1>1, <1>3, <1>4, IndexSet
<1>6. TableOK(u)
  BY <1>2, <1>5, ReindexedKeeps
<1>. QED
  BY <1>5, <1>6 DEF u

-----------------------------------------------------------------------------
(* The edits.                                                              *)

\* The entry of n in section i has moved to the top, with its stream.
LEMMA MoveIs ==
  ASSUME NEW t, NEW s, s = EnsureIncrementalXref(t), Shaped(t),
         TableOK(s), s.base = 1, NEW n \in Nums, NEW i, Newest(s, n, i)
  PROVE  LET u == EnsureIncrementalObject(t, n) IN
         /\ Put(u, s, n, At(s, i, n))
         /\ i # 1 => At(u, i, n) = [At(s, i, n) EXCEPT !.buf = None]
         /\ \A j \in 1..Len(s.sections) : j # 1 /\ j # i => At(u, j, n) = At(s, j, n)
<1>. DEFINE F == Defining(s, s.index[n], n)
            r == Incremental(s, n)
            u == EnsureIncrementalObject(t, n)
            w == [r EXCEPT !.sections[r.base].e[n] = s.sections[Least(F)].e[n]]
            z == [r EXCEPT !.sections[r.base].e[n] = s.sections[Least(F)].e[n],
                           !.sections[Least(F)].e[n].buf = None]
<1>1. /\ Shaped(s) /\ Indexed(s) /\ Measured(s) /\ s \in Tables
      /\ EnsureIncrementalXref(s) = s
  BY EnsureShaped DEF TableOK, Shaped
<1>2. F # {} /\ Least(F) = i
  BY <1>1, FindIs
<1>3. /\ i \in 1..Len(s.sections) /\ Len(s.sections) \in Nat /\ At(s, i, n).type = "n"
      /\ 1 \in 1..Len(s.sections) /\ At(s, i, n) \in Entries
  BY <1>1, ShapedIs DEF Newest
<1>4. u = IF i = 1 THEN s ELSE z
  BY <1>2 DEF EnsureIncrementalObject
<1>. HIDE DEF u
<1>5. CASE i = 1
  <2>1. s.index[n] = 1
    <3>1. s.index[n] \in 1..Len(s.sections)
      BY <1>1, ShapedIs
    <3>2. 1 \notin 1..s.index[n] - 1
      BY <1>1, <1>3, <1>5 DEF Indexed
    <3>. QED
      BY <3>1, <3>2
  <2>2. n <= s.sections[1].len /\ s.sections[1].len <= s.len
    BY <1>1, <1>3, <1>5 DEF Measured
  <2>3. /\ s.sections[1].len \in 0..MaxNum /\ s.len \in 0..MaxNum /\ n \in 0..MaxNum
        /\ MaxNum \in Nat
    BY <1>1, <1>3, ShapedIs DEF Nums
  <2>4. Larger(s.sections[1].len, n) = s.sections[1].len /\ Larger(s.len, n) = s.len
    BY <2>2, <2>3 DEF Larger
  <2>5. Put(s, s, n, At(s, 1, n))
    BY <1>1, <2>1, <2>4 DEF Put
  <2>6. u = s
    BY <1>4, <1>5
  <2>. QED
    BY <1>5, <2>5, <2>6 DEF u
<1>6. CASE i # 1
  <2>1. Put(r, s, n, At(s, 1, n)) /\ r.base = 1
    <3>1. Put(r, s, n, At(s, s.base, n))
      BY <1>1, IncrementalIs
    <3>. QED
      BY <3>1 DEF Put
  <2>. HIDE DEF r
  <2>2. /\ r \in Tables /\ Len(r.sections) = Len(s.sections)
        /\ \A j \in 1..Len(s.sections) : j # 1 =>
             At(r, j, n) \in {At(s, j, n), [At(s, j, n) EXCEPT !.buf = None]}
    BY <2>1 DEF Put
  <2>3. Sets(w, r, 1, n, At(s, i, n))
    <3>1. s.sections[Least(F)].e[n] = At(s, i, n)
      BY <1>2 DEF At
    <3>. HIDE DEF F
    <3>. QED
      BY <1>3, <2>1, <2>2, <3>1, SettingEntry
  <2>4. z = [w EXCEPT !.sections[i].e[n].buf = None]
    BY <1>2
  <2>. HIDE DEF w, z
  <2>5. w \in Tables /\ Len(w.sections) = Len(s.sections) /\ At(w, i, n) = At(r, i, n)
    BY <1>3, <1>6, <2>2, <2>3 DEF Sets
  <2>6. Sets(z, w, i, n, [At(w, i, n) EXCEPT !.buf = None])
    BY <1>3, <2>4, <2>5, SettingFields
  <2>7. [At(w, i, n) EXCEPT !.buf = None] = [At(s, i, n) EXCEPT !.buf = None]
    <3>1. At(w, i, n) \in {At(s, i, n), [At(s, i, n) EXCEPT !.buf = None]}
      BY <1>3, <1>6, <2>2, <2>5
    <3>2. [[At(s, i, n) EXCEPT !.buf = None] EXCEPT !.buf = None]
            = [At(s, i, n) EXCEPT !.buf = None]
      OBVIOUS
    <3>. QED
      BY <3>1, <3>2
  <2>8. Put(w, s, n, At(s, i, n))
    BY <1>1, <2>1, <2>3, PutSet
  <2>9. /\ At(z, i, n) = [At(s, i, n) EXCEPT !.buf = None]
        /\ \A j \in 1..Len(s.sections) : \A m \in Nums :
             ~(j = i /\ m = n) => At(z, j, m) = At(w, j, m)
        /\ \A j \in 1..Len(s.sections) :
             /\ z.sections[j].len = w.sections[j].len
             /\ z.sections[j].sigs = w.sections[j].sigs
        /\ z \in Tables /\ Len(z.sections) = Len(w.sections)
        /\ z.ninc = w.ninc /\ z.base = w.base /\ z.index = w.index /\ z.len = w.len
        /\ z.closed = w.closed /\ z.startxref = w.startxref /\ z.streams = w.streams
    BY <1>3, <2>5, <2>6, <2>7 DEF Sets
  <2>10. Put(z, s, n, At(s, i, n))
    <3>1. At(z, 1, n) = At(s, i, n)
      BY <1>3, <1>6, <2>8, <2>9 DEF Put
    <3>2. ASSUME NEW j \in 1..Len(s.sections), j # 1
          PROVE  At(z, j, n) \in {At(s, j, n), [At(s, j, n) EXCEPT !.buf = None]}
      <4>1. CASE j = i
        BY <2>9, <4>1
      <4>2. CASE j # i
        BY <2>8, <2>9, <3>2, <4>2 DEF Put
      <4>. QED
        BY <4>1, <4>2
    <3>. QED
      BY <2>8, <2>9, <3>1, <3>2 DEF Put
  <2>11. ASSUME NEW j \in 1..Len(s.sections), j # 1, j # i
         PROVE  At(z, j, n) = At(s, j, n)
    <3>1. At(r, j, n) = At(s, j, n)
      <4>1. r = Incremental(s, n)
        BY DEF r
      <4>2. r = [s EXCEPT !.sections[s.base].len = Larger(@, n), !.len = Larger(@, n),
                          !.index[n] = 1]
        BY <1>1, <4>1 DEF Incremental
      <4>3. r.sections[j] = s.sections[j]
        BY <1>1, <2>11, <4>2 DEF Tables
      <4>. QED
        BY <4>3 DEF At
    <3>2. At(w, j, n) = At(r, j, n)
      BY <2>2, <2>3, <2>11 DEF Sets
    <3>. QED
      BY <2>9, <2>11, <3>1, <3>2
  <2>12. u = z
    BY <1>4, <1>6
  <2>. QED
    BY <2>9, <2>10, <2>11, <2>12 DEF u
<1>. QED
  BY <1>5, <1>6

\* Table s is t with d new sections on top, none or one.
Shifted(s, t, d) ==
  /\ d \in {0, 1} /\ Len(s.sections) = Len(t.sections) + d /\ s.ninc = t.ninc + d
  /\ \A i \in 1..Len(t.sections) : \A n \in Nums : At(s, i + d, n) = At(t, i, n)
  /\ d = 1 => \A n \in Nums : At(s, 1, n) = Blank
  /\ s.base = t.base /\ s.len = t.len /\ s.closed = t.closed
  /\ s.startxref = t.startxref /\ s.streams = t.streams

LEMMA EnsureKeeps ==
  ASSUME NEW t, TableOK(t), NEW s, s = EnsureIncrementalXref(t)
  PROVE  TableOK(s) /\ s.ninc >= 1 /\ \E d \in {0, 1} : Shifted(s, t, d)
<1>1. Shaped(t) /\ Shaped(s) /\ ~NeedsSection(s)
  BY EnsureShaped DEF TableOK
<1>2. s.ninc >= 1
  <2>1. s.ninc \in Nat
    BY <1>1, ShapedIs
  <2>2. s.ninc # 0
    BY <1>1, <2>1 DEF NeedsSection, Shaped
  <2>. QED
    BY <2>1, <2>2
<1>3. CASE NeedsSection(t)
  <2>1. Pushed(s, t)
    BY <1>1, <1>3, EnsureIs
  <2>2. Shifted(s, t, 1)
    BY <2>1 DEF Pushed, Shifted, At
  <2>. QED
    BY <1>2, <2>1, <2>2, PushedKeeps
<1>4. CASE ~NeedsSection(t)
  <2>1. s = t
    BY <1>1, <1>4, EnsureIs
  <2>2. Len(t.sections) \in Nat /\ t.ninc \in Nat
    BY <1>1, ShapedIs
  <2>3. \A i \in 1..Len(t.sections) : i + 0 = i
    BY <2>2
  <2>4. Shifted(s, t, 0)
    BY <2>1, <2>2, <2>3 DEF Shifted
  <2>. QED
    BY <1>2, <2>1, <2>4
<1>. QED
  BY <1>3, <1>4

LEMMA ShiftedBack ==
  ASSUME NEW s, NEW t, NEW d, Shaped(t), Shifted(s, t, d), NEW i \in 1..Len(s.sections)
  PROVE  \/ d = 1 /\ i = 1 /\ \A n \in Nums : At(s, i, n) = Blank
         \/ i - d \in 1..Len(t.sections) /\ \A n \in Nums : At(s, i, n) = At(t, i - d, n)
<1>1. Len(t.sections) \in Nat /\ d \in {0, 1} /\ Len(s.sections) = Len(t.sections) + d
  BY ShapedIs DEF Shifted
<1>2. CASE d = 1 /\ i = 1
  BY <1>2 DEF Shifted
<1>3. CASE ~(d = 1 /\ i = 1)
  <2>1. i - d \in 1..Len(t.sections) /\ (i - d) + d = i
    BY <1>1, <1>3
  <2>. QED
    BY <2>1 DEF Shifted
<1>. QED
  BY <1>2, <1>3

LEMMA ShiftedNewest ==
  ASSUME NEW s, NEW t, NEW d, Shaped(t), Shifted(s, t, d), NEW n \in Nums,
         NEW i, Newest(t, n, i)
  PROVE  Newest(s, n, i + d) /\ At(s, i + d, n) = At(t, i, n)
<1>1. /\ Len(t.sections) \in Nat /\ d \in {0, 1} /\ Len(s.sections) = Len(t.sections) + d
      /\ i \in 1..Len(t.sections)
  BY ShapedIs DEF Shifted, Newest
<1>2. At(s, i + d, n) = At(t, i, n) /\ i + d \in 1..Len(s.sections)
  BY <1>1 DEF Shifted
<1>3. ASSUME NEW j \in 1..(i + d) - 1
      PROVE  At(s, j, n).type = "none"
  <2>1. j \in 1..Len(s.sections)
    BY <1>1
  <2>2. CASE At(s, j, n) = Blank
    BY <2>2, BlankOK
  <2>3. CASE j - d \in 1..Len(t.sections) /\ At(s, j, n) = At(t, j - d, n)
    <3>1. j - d \in 1..i - 1
      BY <1>1, <2>3
    <3>. QED
      BY <2>3, <3>1 DEF Newest
  <2>. QED
    BY <2>1, <2>2, <2>3, ShiftedBack
<1>. QED
  BY <1>2, <1>3 DEF Newest

LEMMA ShiftedLatest ==
  ASSUME NEW s, NEW t, NEW d, Shaped(t), Shaped(s), Shifted(s, t, d), NEW n \in Nums
  PROVE  Latest(s.sections, n) = Latest(t.sections, n)
<1>1. /\ Len(t.sections) \in Nat /\ d \in {0, 1} /\ Len(s.sections) = Len(t.sections) + d
  BY ShapedIs DEF Shifted
<1>2. CASE \A i \in 1..Len(t.sections) : At(t, i, n).type = "none"
  <2>1. \A i \in 1..Len(s.sections) : At(s, i, n).type = "none"
    BY <1>2, ShiftedBack, BlankOK
  <2>. QED
    BY <1>2, <2>1, LatestIs
<1>3. CASE \E i \in 1..Len(t.sections) : /\ At(t, i, n).type # "none"
                                         /\ \A j \in 1..i - 1 : At(t, j, n).type = "none"
  <2>1. PICK i \in 1..Len(t.sections) : /\ At(t, i, n).type # "none"
                                        /\ \A j \in 1..i - 1 : At(t, j, n).type = "none"
    BY <1>3
  <2>2. Latest(t.sections, n) = At(t, i, n)
    BY <2>1, LatestIs
  <2>3. At(s, i + d, n) = At(t, i, n) /\ i + d \in 1..Len(s.sections)
    BY <1>1 DEF Shifted
  <2>4. ASSUME NEW j \in 1..(i + d) - 1
        PROVE  At(s, j, n).type = "none"
    <3>1. j \in 1..Len(s.sections)
      BY <1>1
    <3>2. CASE At(s, j, n) = Blank
      BY <3>2, BlankOK
    <3>3. CASE j - d \in 1..Len(t.sections) /\ At(s, j, n) = At(t, j - d, n)
      <4>1. j - d \in 1..i - 1
        BY <1>1, <3>3
      <4>. QED
        BY <2>1, <3>3, <4>1
    <3>. QED
      BY <3>1, <3>2, <3>3, ShiftedBack
  <2>5. Latest(s.sections, n) = At(s, i + d, n)
    BY <2>1, <2>3, <2>4, LatestIs
  <2>. QED
    BY <2>2, <2>3, <2>5
<1>. QED
  BY <1>2, <1>3, FirstEntry

\* Of an object whose entries are the same in two tables, the newest one is.
LEMMA SameLatest ==
  ASSUME NEW u, NEW s, Shaped(u), Shaped(s), Len(u.sections) = Len(s.sections),
         NEW n \in Nums, \A i \in 1..Len(s.sections) : At(u, i, n) = At(s, i, n)
  PROVE  Latest(u.sections, n) = Latest(s.sections, n)
<1>1. CASE \A i \in 1..Len(s.sections) : At(s, i, n).type = "none"
  BY <1>1, LatestIs
<1>2. CASE \E i \in 1..Len(s.sections) : /\ At(s, i, n).type # "none"
                                         /\ \A j \in 1..i - 1 : At(s, j, n).type = "none"
  <2>1. PICK i \in 1..Len(s.sections) : /\ At(s, i, n).type # "none"
                                        /\ \A j \in 1..i - 1 : At(s, j, n).type = "none"
    BY <1>2
  <2>2. Len(s.sections) \in Nat
    BY ShapedIs
  <2>3. \A j \in 1..i - 1 : j \in 1..Len(s.sections)
    BY <2>2
  <2>4. At(u, i, n).type # "none" /\ \A j \in 1..i - 1 : At(u, j, n).type = "none"
    BY <2>1, <2>3
  <2>5. Latest(s.sections, n) = At(s, i, n)
    BY <2>1, LatestIs
  <2>6. Latest(u.sections, n) = At(u, i, n)
    BY <2>4, LatestIs
  <2>. QED
    BY <2>5, <2>6
<1>. QED
  BY <1>1, <1>2, FirstEntry

\* Table u is t after an edit: what was read from the file is what it was.
Follows(u, t) ==
  /\ TableOK(u) /\ u.base = 1
  /\ u.closed = t.closed /\ u.startxref = t.startxref /\ u.streams = t.streams
  /\ Len(u.sections) - u.ninc = Len(t.sections) - t.ninc
  /\ \A k \in 1..Len(t.sections) - t.ninc : \A m \in Nums :
       At(t, t.ninc + k, m).buf = None => At(u, u.ninc + k, m) = At(t, t.ninc + k, m)

\* Object n has got the entry x.
Edited(u, t, n, x) ==
  /\ Follows(u, t) /\ u.len = Larger(t.len, n)
  /\ Latest(u.sections, n) = x /\ At(u, 1, n) = x
  /\ \A m \in Nums : m # n => Latest(u.sections, m) = Latest(t.sections, m)

LEMMA PutEdits ==
  ASSUME NEW t, TableOK(t), t.base = 1, NEW n \in Nums, NEW u, NEW x \in Entries,
         Put(u, EnsureIncrementalXref(t), n, x), Tidy(x), x.type # "none",
         x.type = "n" => \A i \in 2..Len(EnsureIncrementalXref(t).sections) :
                           At(EnsureIncrementalXref(t), i, n).type # "f"
  PROVE  Edited(u, t, n, x)
<1>. DEFINE s == EnsureIncrementalXref(t)
<1>0. x.type = "n" => \A i \in 2..Len(s.sections) : At(s, i, n).type # "f"
  OBVIOUS
<1>1. /\ TableOK(s) /\ s.ninc >= 1 /\ Shaped(s) /\ Shaped(t) /\ Put(u, s, n, x)
  BY EnsureKeeps DEF TableOK
<1>2. PICK d \in {0, 1} : Shifted(s, t, d)
  BY EnsureKeeps
<1>. HIDE DEF s
<1>3. /\ Len(t.sections) \in Nat /\ t.ninc \in Nat /\ Len(s.sections) \in Nat /\ s.ninc \in Nat
      /\ t.ninc < Len(t.sections) /\ 1 \in 1..Len(s.sections)
      /\ Len(s.sections) = Len(t.sections) + d /\ s.ninc = t.ninc + d
      /\ s.base = 1 /\ s.len = t.len /\ s.closed = t.closed
      /\ s.startxref = t.startxref /\ s.streams = t.streams
  BY <1>1, <1>2, ShapedIs DEF Shifted, Shaped
<1>5. TableOK(u)
  <2>1. s.base <= s.ninc /\ 1..s.base - 1 = {} /\ s.base + 1..Len(s.sections) = 2..Len(s.sections)
    BY <1>1, <1>3
  <2>. QED
    BY <1>0, <1>1, <2>1, PutKeeps
<1>6. /\ Len(u.sections) = Len(s.sections) /\ u.ninc = s.ninc /\ u.base = 1
      /\ u.len = Larger(t.len, n)
      /\ u.closed = t.closed /\ u.startxref = t.startxref /\ u.streams = t.streams
      /\ At(u, 1, n) = x
      /\ \A i \in 1..Len(s.sections) : \A m \in Nums : m # n => At(u, i, m) = At(s, i, m)
  BY <1>1, <1>3 DEF Put
<1>7. ASSUME NEW k \in 1..Len(t.sections) - t.ninc, NEW m \in Nums,
             At(t, t.ninc + k, m).buf = None
      PROVE  At(u, u.ninc + k, m) = At(t, t.ninc + k, m)
  <2>1. /\ t.ninc + k \in 1..Len(t.sections) /\ (t.ninc + k) + d = s.ninc + k
        /\ s.ninc + k \in 1..Len(s.sections) /\ s.ninc + k # 1
    <3>1. k \in Nat /\ k >= 1 /\ k <= Len(t.sections) - t.ninc /\ d \in Nat
      BY <1>3
    <3>2. t.ninc + k <= Len(t.sections) /\ s.ninc + k <= Len(s.sections)
      BY <1>3, <3>1
    <3>. QED
      BY <1>1, <1>3, <3>1, <3>2
  <2>2. At(s, s.ninc + k, m) = At(t, t.ninc + k, m)
    BY <1>2, <2>1 DEF Shifted
  <2>3. At(u, s.ninc + k, m) = At(s, s.ninc + k, m)
    BY <1>1, <1>3, <1>7, <2>1, <2>2, PutTypes
  <2>. QED
    BY <1>6, <2>2, <2>3
<1>8. Shaped(u)
  BY <1>5 DEF TableOK
<1>9. Latest(u.sections, n) = x
  <2>1. \A j \in 1..1 - 1 : At(u, j, n).type = "none"
    OBVIOUS
  <2>2. 1 \in 1..Len(u.sections)
    BY <1>3, <1>6
  <2>. QED
    BY <1>6, <1>8, <2>1, <2>2, LatestIs
<1>10. ASSUME NEW m \in Nums, m # n
       PROVE  Latest(u.sections, m) = Latest(t.sections, m)
  <2>1. Latest(u.sections, m) = Latest(s.sections, m)
    BY <1>1, <1>6, <1>8, <1>10, SameLatest
  <2>2. Latest(s.sections, m) = Latest(t.sections, m)
    BY <1>1, <1>2, ShiftedLatest
  <2>. QED
    BY <2>1, <2>2
<1>11. Len(u.sections) - u.ninc = Len(t.sections) - t.ninc
  BY <1>3, <1>6
<1>12. Follows(u, t)
  BY <1>5, <1>6, <1>7, <1>11 DEF Follows
<1>. QED
  BY <1>6, <1>9, <1>10, <1>12 DEF Edited

\* An object without a free entry, or one that no section has.
LEMMA EnsureNotFree ==
  ASSUME NEW t, TableOK(t), NEW n \in Nums, NEW s, s = EnsureIncrementalXref(t)
  PROVE  /\ (\E i : Newest(t, n, i)) =>
              \A j \in 1..Len(s.sections) : At(s, j, n).type # "f"
         /\ n > t.len => \A j \in 1..Len(s.sections) : At(s, j, n) = Blank
<1>1. TableOK(s) /\ Shaped(s) /\ Shaped(t)
  BY EnsureKeeps DEF TableOK
<1>2. PICK d \in {0, 1} : Shifted(s, t, d)
  BY EnsureKeeps
<1>3. ASSUME NEW i, Newest(t, n, i), NEW j \in 1..Len(s.sections)
      PROVE  At(s, j, n).type # "f"
  <2>1. Newest(s, n, i + d)
    BY <1>1, <1>2, <1>3, ShiftedNewest
  <2>2. /\ i + d \in 1..Len(s.sections) /\ At(s, i + d, n).type = "n"
        /\ \A k \in 1..(i + d) - 1 : At(s, k, n).type = "none"
        /\ Len(s.sections) \in Nat
    BY <1>1, <2>1, ShapedIs DEF Newest
  <2>3. CASE j < i + d
    <3>1. j \in 1..(i + d) - 1
      BY <2>2, <2>3
    <3>. QED
      BY <2>2, <3>1
  <2>4. CASE j = i + d
    BY <2>2, <2>4
  <2>5. CASE j > i + d
    <3>1. i + d \in 1..j - 1
      BY <2>2, <2>5
    <3>. QED
      BY <1>1, <2>2, <3>1 DEF TableOK, NotRevived
  <2>6. j < i + d \/ j = i + d \/ j > i + d
    BY <2>2
  <2>. QED
    BY <2>3, <2>4, <2>5, <2>6
<1>4. ASSUME n > t.len, NEW j \in 1..Len(s.sections)
      PROVE  At(s, j, n) = Blank
  <2>1. s.len = t.len
    BY <1>2 DEF Shifted
  <2>2. /\ Tidy(At(s, j, n)) /\ s.sections[j].len <= s.len
        /\ At(s, j, n).type # "none" => n <= s.sections[j].len
    BY <1>1 DEF TableOK, Measured
  <2>3. s.sections[j].len \in 0..MaxNum /\ s.len \in 0..MaxNum /\ MaxNum \in Nat /\ n \in Nat
    BY <1>1, ShapedIs DEF Nums
  <2>. QED
    BY <1>4, <2>1, <2>2, <2>3 DEF Tidy
<1>. QED
  BY <1>3, <1>4

LEMMA EntryChanged ==
  ASSUME NEW e \in Entries, Tidy(e)
  PROVE  /\ \A v \in Vals : LET x == [e EXCEPT !.type = "n", !.val = v]
                            IN  /\ x \in Entries /\ Tidy(x) /\ x.type = "n"
                                /\ x.val = v /\ x.buf = e.buf /\ x.stm = e.stm
         /\ e.type = "n" => \A v \in Vals :
              LET x == [e EXCEPT !.val = v]
              IN  /\ x \in Entries /\ Tidy(x) /\ x.type = "n"
                  /\ x.val = v /\ x.buf = e.buf /\ x.stm = e.stm
         /\ e.type = "n" => \A d \in Data :
              LET x == [e EXCEPT !.buf = d]
              IN  /\ x \in Entries /\ Tidy(x) /\ x.type = "n"
                  /\ x.val = e.val /\ x.buf = d /\ x.stm = e.stm
<1>1. None \notin Vals
  BY XrefAssumption
<1>2. ASSUME NEW v \in Vals
      PROVE  LET x == [e EXCEPT !.type = "n", !.val = v]
             IN  /\ x \in Entries /\ Tidy(x) /\ x.type = "n"
                 /\ x.val = v /\ x.buf = e.buf /\ x.stm = e.stm
  BY <1>1 DEF Entries, Tidy
<1>3. ASSUME e.type = "n", NEW v \in Vals
      PROVE  LET x == [e EXCEPT !.val = v]
             IN  /\ x \in Entries /\ Tidy(x) /\ x.type = "n"
                 /\ x.val = v /\ x.buf = e.buf /\ x.stm = e.stm
  BY <1>1, <1>3 DEF Entries, Tidy
<1>4. ASSUME e.type = "n", NEW d \in Data
      PROVE  LET x == [e EXCEPT !.buf = d]
             IN  /\ x \in Entries /\ Tidy(x) /\ x.type = "n"
                 /\ x.val = e.val /\ x.buf = d /\ x.stm = e.stm
  BY <1>4 DEF Entries, Tidy
<1>. QED
  BY <1>2, <1>3, <1>4

LEMMA CreateEdits ==
  ASSUME NEW t, TableOK(t), t.base = 1, t.len + 1 \in Nums
  PROVE  Edited(CreateObject(t), t, t.len + 1, FreeEntry)
<1>1. Put(CreateObject(t), EnsureIncrementalXref(t), t.len + 1, FreeEntry)
  BY ObjectsIs DEF TableOK
<1>. QED
  BY <1>1, BlankOK, PutEdits

LEMMA NewObjectEdits ==
  ASSUME NEW t, TableOK(t), t.base = 1, t.len + 1 \in Nums, NEW v \in Vals
  PROVE  LET x == [FreeEntry EXCEPT !.type = "n", !.val = v]
         IN  /\ Edited(UpdateObject(CreateObject(t), t.len + 1, v), t, t.len + 1, x)
             /\ x.type = "n" /\ x.val = v /\ x.buf = None /\ x.stm = None
<1>. DEFINE x == [FreeEntry EXCEPT !.type = "n", !.val = v]
            s == EnsureIncrementalXref(t)
            u == UpdateObject(CreateObject(t), t.len + 1, v)
<1>1. Put(u, s, t.len + 1, x)
  BY NewObjectIs DEF TableOK
<1>2. x \in Entries /\ Tidy(x) /\ x.type = "n" /\ x.val = v /\ x.buf = None /\ x.stm = None
  <2>1. FreeEntry.stm = None
    BY DEF FreeEntry, Blank
  <2>. QED
    BY <2>1, BlankOK, EntryChanged
<1>3. \A j \in 1..Len(s.sections) : At(s, j, t.len + 1) = Blank
  <2>1. t.len + 1 > t.len
    BY ShapedIs DEF TableOK
  <2>. QED
    BY <2>1, EnsureNotFree
<1>4. Len(s.sections) \in Nat
  BY EnsureShaped, ShapedIs DEF TableOK
<1>. HIDE DEF x, s, u
<1>5. \A i \in 2..Len(s.sections) : At(s, i, t.len + 1).type # "f"
  BY <1>3, <1>4, BlankOK
<1>6. Edited(u, t, t.len + 1, x)
  BY <1>1, <1>2, <1>5, PutEdits DEF s
<1>. QED
  BY <1>2, <1>6 DEF u, x

LEMMA DeleteEdits ==
  ASSUME NEW t, TableOK(t), t.base = 1, NEW n \in Nums
  PROVE  Edited(DeleteObject(t, n), t, n, FreeEntry)
<1>1. Put(DeleteObject(t, n), EnsureIncrementalXref(t), n, FreeEntry)
  BY ObjectsIs DEF TableOK
<1>. QED
  BY <1>1, BlankOK, PutEdits

\* The entry an object has on top before it is changed.
LEMMA TopEntry ==
  ASSUME NEW t, TableOK(t), NEW n \in Nums, NEW i, Newest(t, n, i),
         NEW s, s = EnsureIncrementalXref(t)
  PROVE  /\ TableOK(s) /\ Shaped(s) /\ s.base = t.base /\ Len(s.sections) \in Nat
         /\ At(t, i, n) \in Entries /\ Tidy(At(t, i, n)) /\ At(t, i, n).type = "n"
         /\ \A j \in 1..Len(s.sections) : At(s, j, n).type # "f"
         /\ \E k : Newest(s, n, k) /\ At(s, k, n) = At(t, i, n)
         /\ At(s, 1, n) = Blank \/ At(s, 1, n) = At(t, i, n)
<1>1. TableOK(s) /\ Shaped(s) /\ Shaped(t) /\ Measured(t)
  BY EnsureKeeps DEF TableOK
<1>2. PICK d \in {0, 1} : Shifted(s, t, d)
  BY EnsureKeeps
<1>3. Newest(s, n, i + d) /\ At(s, i + d, n) = At(t, i, n)
  BY <1>1, <1>2, ShiftedNewest
<1>4. /\ i \in 1..Len(t.sections) /\ At(t, i, n).type = "n" /\ At(t, i, n) \in Entries
      /\ Tidy(At(t, i, n)) /\ s.base = t.base /\ Len(s.sections) \in Nat
      /\ 1 \in 1..Len(s.sections)
  BY <1>1, <1>2, ShapedIs DEF Newest, Shifted, Measured
<1>5. At(s, 1, n) = Blank \/ At(s, 1, n) = At(t, i, n)
  <2>1. CASE i + d = 1
    BY <1>3, <2>1
  <2>2. CASE i + d # 1
    <3>1. i + d \in Nat /\ i + d >= 1
      BY <1>3, <1>4 DEF Newest
    <3>2. 1 \in 1..(i + d) - 1
      BY <2>2, <3>1
    <3>3. At(s, 1, n).type = "none"
      BY <1>3, <3>2 DEF Newest
    <3>4. Tidy(At(s, 1, n))
      BY <1>1, <1>4 DEF TableOK, Measured
    <3>. QED
      BY <3>3, <3>4 DEF Tidy
  <2>. QED
    BY <2>1, <2>2
<1>6. \A j \in 1..Len(s.sections) : At(s, j, n).type # "f"
  BY EnsureNotFree
<1>. QED
  BY <1>1, <1>3, <1>4, <1>5, <1>6

LEMMA ReplaceEdits ==
  ASSUME NEW t, TableOK(t), t.base = 1, NEW n \in Nums, NEW i, Newest(t, n, i),
         Stream(At(t, i, n)) = None, NEW v \in Vals
  PROVE  \E x : /\ Edited(UpdateObject(t, n, v), t, n, x)
                /\ x.type = "n" /\ x.val = v /\ Stream(x) = None
<1>. DEFINE s == EnsureIncrementalXref(t)
            e == At(s, 1, n)
            x == [e EXCEPT !.type = "n", !.val = v]
            u == UpdateObject(t, n, v)
<1>1. /\ TableOK(s) /\ Shaped(s) /\ s.base = 1 /\ Len(s.sections) \in Nat
      /\ \A j \in 1..Len(s.sections) : At(s, j, n).type # "f"
      /\ e = Blank \/ e = At(t, i, n)
  BY TopEntry
<1>2. Put(u, s, n, x)
  BY <1>1, ObjectsIs DEF TableOK
<1>3. e \in Entries /\ Tidy(e)
  BY <1>1, ShapedIs DEF TableOK, Measured
<1>4. x \in Entries /\ Tidy(x) /\ x.type = "n" /\ x.val = v /\ x.buf = e.buf /\ x.stm = e.stm
  <2>. HIDE DEF e
  <2>. QED
    BY <1>3, EntryChanged
<1>5. Stream(x) = None
  <2>1. Stream(Blank) = None
    BY DEF Blank, Stream
  <2>2. Stream(e) = None
    BY <1>1, <2>1
  <2>. HIDE DEF e, x
  <2>. QED
    BY <1>4, <2>2 DEF Stream
<1>. HIDE DEF x, e, s, u
<1>6. \A j \in 2..Len(s.sections) : At(s, j, n).type # "f"
  BY <1>1
<1>7. Edited(u, t, n, x)
  BY <1>2, <1>4, <1>6, PutEdits DEF s
<1>. QED
  BY <1>4, <1>5, <1>7 DEF u

LEMMA AlterEdits ==
  ASSUME NEW t, TableOK(t), t.base = 1, NEW n \in Nums, NEW i, Newest(t, n, i),
         NEW v \in Vals
  PROVE  LET x == [At(t, i, n) EXCEPT !.val = v]
         IN  /\ Edited(AlterObject(t, n, v), t, n, x)
             /\ Put(AlterObject(t, n, v), EnsureIncrementalXref(t), n, x)
             /\ x.type = "n" /\ x.val = v /\ Stream(x) = Stream(At(t, i, n))
<1>. DEFINE s == EnsureIncrementalXref(t)
            e == At(t, i, n)
            x == [e EXCEPT !.val = v]
            u == EnsureIncrementalObject(t, n)
            w == AlterObject(t, n, v)
<1>1. /\ TableOK(s) /\ Shaped(s) /\ s.base = 1 /\ Len(s.sections) \in Nat
      /\ e \in Entries /\ Tidy(e) /\ e.type = "n"
      /\ \A j \in 1..Len(s.sections) : At(s, j, n).type # "f"
      /\ \E k : Newest(s, n, k) /\ At(s, k, n) = e
  BY TopEntry
<1>2. PICK k : Newest(s, n, k) /\ At(s, k, n) = e
  BY <1>1
<1>. HIDE DEF e
<1>3. /\ x \in Entries /\ Tidy(x) /\ x.type = "n" /\ x.val = v
      /\ x.buf = e.buf /\ x.stm = e.stm
  BY <1>1, EntryChanged
<1>4. Put(u, s, n, e)
  <2>1. Shaped(t)
    BY DEF TableOK
  <2>2. Put(u, s, n, At(s, k, n))
    BY <1>1, <1>2, <2>1, MoveIs
  <2>. QED
    BY <1>2, <2>2
<1>. HIDE DEF s, u
<1>5. u \in Tables /\ 1 \in 1..Len(u.sections) /\ At(u, 1, n) = e
  BY <1>1, <1>4, ShapedIs DEF Put
<1>6. Sets(w, u, 1, n, [At(u, 1, n) EXCEPT !.val = v])
  <2>1. w = [u EXCEPT !.sections[1].e[n].val = v]
    BY DEF AlterObject, u
  <2>. HIDE DEF w
  <2>. QED
    BY <1>5, <2>1, SettingFields
<1>7. Put(w, s, n, x)
  <2>1. Sets(w, u, s.base, n, x)
    BY <1>1, <1>5, <1>6
  <2>. HIDE DEF x, w
  <2>. QED
    BY <1>1, <1>4, <2>1, PutSet
<1>. HIDE DEF x, w
<1>8. \A j \in 2..Len(s.sections) : At(s, j, n).type # "f"
  BY <1>1
<1>9. Edited(w, t, n, x)
  BY <1>3, <1>7, <1>8, PutEdits DEF s
<1>. QED
  BY <1>3, <1>7, <1>9 DEF Stream, w, x, s, e

\* A table in which the buffer of an entry in use has changed.
LEMMA SetsKeeps ==
  ASSUME NEW t, TableOK(t), NEW i \in 1..Len(t.sections), NEW n \in Nums, NEW y, NEW u,
         Sets(u, t, i, n, y), Tidy(y), y.type = At(t, i, n).type
  PROVE  TableOK(u)
<1>1. /\ u \in Tables /\ Len(u.sections) = Len(t.sections)
      /\ \A j \in 1..Len(t.sections) : u.sections[j].len = t.sections[j].len
      /\ \A j \in 1..Len(t.sections) : \A m \in Nums :
           At(u, j, m).type = At(t, j, m).type
      /\ \A j \in 1..Len(t.sections) : \A m \in Nums :
           Tidy(At(t, j, m)) => Tidy(At(u, j, m))
      /\ u.ninc = t.ninc /\ u.base = t.base /\ u.index = t.index /\ u.len = t.len
      /\ u.closed = t.closed
  BY DEF Sets
<1>2. /\ Len(t.sections) \in 1..Len(t.sections) /\ Len(t.sections) \in Nat
      /\ \A m \in Nums : t.index[m] \in 1..Len(t.sections)
  BY ShapedIs DEF TableOK
<1>3. Shaped(u)
  BY <1>1 DEF TableOK, Shaped
<1>4. Measured(u)
  BY <1>1 DEF TableOK, Measured
<1>5. Indexed(u)
  <2>1. SUFFICES ASSUME NEW m \in Nums, NEW j \in 1..t.index[m] - 1
                 PROVE  /\ At(u, j, m).type # "n"
                        /\ j <= t.ninc => At(u, j, m).type = "none"
    BY <1>1 DEF Indexed
  <2>2. j \in 1..Len(t.sections)
    BY <1>2
  <2>. QED
    BY <1>1, <2>2 DEF TableOK, Indexed
<1>6. NotRevived(u)
  <2>1. SUFFICES ASSUME NEW m \in Nums, NEW j \in 1..Len(t.sections), NEW k \in 1..j - 1,
                        At(u, j, m).type = "f"
                 PROVE  At(u, k, m).type # "n"
    BY <1>1 DEF NotRevived
  <2>2. k \in 1..Len(t.sections)
    BY <1>2
  <2>. QED
    BY <1>1, <2>1, <2>2 DEF TableOK, NotRevived
<1>7. Oldest(u)
  BY <1>1, <1>2 DEF TableOK, Oldest
<1>. QED
  BY <1>3, <1>4, <1>5, <1>6, <1>7 DEF TableOK

LEMMA StreamEdits ==
  ASSUME NEW t, TableOK(t), t.base = 1, NEW n \in Nums, NEW i, Newest(t, n, i),
         NEW d \in Data
  PROVE  LET y == [At(t, i, n) EXCEPT !.buf = d]
         IN  /\ Edited(UpdateStream(t, n, d), t, n, y)
             /\ y.type = "n" /\ y.val = At(t, i, n).val /\ y.buf = d
<1>. DEFINE e == At(t, i, n)
            y == [e EXCEPT !.buf = d]
            l == Look(t, n)
            t1 == [l EXCEPT !.sections[Where(l, n)].e[n].buf = d]
            s1 == EnsureIncrementalXref(t1)
            u == UpdateStream(t, n, d)
<1>1. /\ Shaped(t) /\ i \in 1..Len(t.sections) /\ Len(t.sections) \in Nat
      /\ t.ninc \in Nat /\ t.ninc < Len(t.sections)
      /\ e \in Entries /\ Tidy(e) /\ e.type = "n"
  BY ShapedIs DEF TableOK, Measured, Newest, Shaped
<1>2. /\ y \in Entries /\ Tidy(y) /\ y.type = "n" /\ y.val = e.val /\ y.buf = d
  <2>. HIDE DEF e
  <2>. QED
    BY <1>1, EntryChanged
<1>3. /\ TableOK(l) /\ Shaped(l) /\ Indexed(l) /\ l \in Tables
      /\ Reindexed(l, t) /\ l.sections = t.sections /\ l.base = 1
  <2>1. TableOK(l) /\ Reindexed(l, t)
    BY LookKeeps, LookIs
  <2>. QED
    BY <2>1 DEF TableOK, Shaped, Reindexed
<1>. HIDE DEF l
<1>4. Newest(l, n, i) /\ At(l, i, n) = e
  BY <1>3 DEF Newest, At
<1>5. Where(l, n) = i
  BY <1>3, <1>4, FindIs
<1>6. Sets(t1, l, i, n, [At(l, i, n) EXCEPT !.buf = d])
  BY <1>1, <1>3, <1>5, SettingFields
<1>. HIDE DEF t1
<1>7. Sets(t1, l, i, n, y)
  BY <1>4, <1>6
<1>8. TableOK(t1)
  BY <1>1, <1>2, <1>3, <1>4, <1>7, SetsKeeps
<1>. HIDE DEF y, e
<1>9. /\ t1.base = 1 /\ t1.ninc = t.ninc /\ Len(t1.sections) = Len(t.sections)
      /\ t1.len = t.len /\ t1.closed = t.closed
      /\ t1.startxref = t.startxref /\ t1.streams = t.streams
      /\ At(t1, i, n) = y
      /\ \A j \in 1..Len(t.sections) : \A m \in Nums :
           ~(j = i /\ m = n) => At(t1, j, m) = At(t, j, m)
  <2>1. \A j : \A m : At(l, j, m) = At(t, j, m)
    BY <1>3 DEF At
  <2>. QED
    BY <1>1, <1>3, <1>7, <2>1 DEF Sets, Reindexed
<1>10. Newest(t1, n, i)
  <2>1. \A j \in 1..i - 1 : j \in 1..Len(t.sections) /\ j # i
    BY <1>1
  <2>. QED
    BY <1>1, <1>2, <1>9, <2>1 DEF Newest
<1>11. /\ TableOK(s1) /\ Shaped(t1) /\ Shaped(s1) /\ s1.base = 1 /\ s1.ninc >= 1
  BY <1>8, <1>9, <1>10, TopEntry, EnsureKeeps DEF TableOK
<1>12. PICK k \in {0, 1} : Shifted(s1, t1, k)
  BY <1>8, EnsureKeeps
<1>13. /\ Newest(s1, n, i + k) /\ At(s1, i + k, n) = y
       /\ \A j \in 2..Len(s1.sections) : At(s1, j, n).type # "f"
  <2>1. Newest(s1, n, i + k) /\ At(s1, i + k, n) = y
    BY <1>9, <1>10, <1>11, <1>12, ShiftedNewest
  <2>2. Len(s1.sections) \in Nat
    BY <1>11, ShapedIs
  <2>3. \A j \in 1..Len(s1.sections) : At(s1, j, n).type # "f"
    BY <1>8, <1>10, TopEntry
  <2>. QED
    BY <2>1, <2>2, <2>3
<1>14. u = EnsureIncrementalObject(t1, n)
  BY DEF UpdateStream, t1, l
<1>. HIDE DEF s1, u
<1>15. /\ Put(u, s1, n, y)
       /\ i + k # 1 => At(u, i + k, n) = [y EXCEPT !.buf = None]
  BY <1>11, <1>13, <1>14, MoveIs DEF s1
<1>16. Edited(u, t1, n, y)
  BY <1>2, <1>8, <1>9, <1>13, <1>15, PutEdits DEF s1
<1>17. /\ TableOK(u) /\ u.base = 1 /\ u.len = Larger(t.len, n)
       /\ u.closed = t.closed /\ u.startxref = t.startxref /\ u.streams = t.streams
       /\ Len(u.sections) - u.ninc = Len(t.sections) - t.ninc
       /\ Latest(u.sections, n) = y /\ At(u, 1, n) = y
  BY <1>9, <1>16 DEF Edited, Follows
<1>18. ASSUME NEW m \in Nums, m # n
       PROVE  Latest(u.sections, m) = Latest(t.sections, m)
  <2>1. Latest(u.sections, m) = Latest(t1.sections, m)
    BY <1>16, <1>18 DEF Edited
  <2>2. Latest(t1.sections, m) = Latest(t.sections, m)
    BY <1>1, <1>9, <1>11, <1>18, SameLatest
  <2>. QED
    BY <2>1, <2>2
<1>19. ASSUME NEW p \in 1..Len(t.sections) - t.ninc, NEW m \in Nums,
              At(t, t.ninc + p, m).buf = None
       PROVE  At(u, u.ninc + p, m) = At(t, t.ninc + p, m)
  <2>1. t.ninc + p \in 1..Len(t.sections)
    <3>1. p \in Nat /\ p >= 1 /\ p <= Len(t.sections) - t.ninc
      BY <1>1
    <3>. QED
      BY <1>1, <3>1
  <2>2. CASE ~(t.ninc + p = i /\ m = n)
    <3>1. At(t1, t1.ninc + p, m) = At(t, t.ninc + p, m)
      BY <1>9, <2>1, <2>2
    <3>2. p \in 1..Len(t1.sections) - t1.ninc
      BY <1>9
    <3>3. At(u, u.ninc + p, m) = At(t1, t1.ninc + p, m)
      BY <1>16, <1>19, <3>1, <3>2 DEF Edited, Follows
    <3>. QED
      BY <3>1, <3>3
  <2>3. CASE t.ninc + p = i /\ m = n
    <3>1. u.ninc = s1.ninc /\ s1.ninc = t.ninc + k
      BY <1>9, <1>12, <1>15 DEF Put, Shifted
    <3>2. s1.ninc \in Nat /\ p \in Nat /\ p >= 1
      BY <1>11, ShapedIs, <1>1
    <3>3. u.ninc + p = i + k /\ i + k # 1
      BY <1>1, <1>11, <2>3, <3>1, <3>2
    <3>4. At(u, u.ninc + p, n) = [y EXCEPT !.buf = None]
      BY <1>15, <3>3
    <3>5. e.buf = None
      BY <1>19, <2>3 DEF e
    <3>6. [y EXCEPT !.buf = None] = e
      BY <1>1, <3>5 DEF y, Entries
    <3>. QED
      BY <2>3, <3>4, <3>6 DEF e
  <2>. QED
    BY <2>2, <2>3
<1>20. Edited(u, t, n, y)
  BY <1>17, <1>18, <1>19 DEF Edited, Follows
<1>. QED
  BY <1>2, <1>20 DEF u, y, e

LEMMA FollowsTrans ==
  ASSUME NEW u, NEW s, NEW t, Follows(u, s), Follows(s, t)
  PROVE  Follows(u, t)
<1>1. /\ TableOK(u) /\ u.base = 1
      /\ u.closed = t.closed /\ u.startxref = t.startxref /\ u.streams = t.streams
      /\ Len(u.sections) - u.ninc = Len(t.sections) - t.ninc
      /\ Len(s.sections) - s.ninc = Len(t.sections) - t.ninc
  BY DEF Follows
<1>2. ASSUME NEW k \in 1..Len(t.sections) - t.ninc, NEW m \in Nums,
             At(t, t.ninc + k, m).buf = None
      PROVE  At(u, u.ninc + k, m) = At(t, t.ninc + k, m)
  <2>1. At(s, s.ninc + k, m) = At(t, t.ninc + k, m)
    BY <1>2 DEF Follows
  <2>2. k \in 1..Len(s.sections) - s.ninc
    BY <1>1
  <2>3. At(u, u.ninc + k, m) = At(s, s.ninc + k, m)
    BY <1>2, <2>1, <2>2 DEF Follows
  <2>. QED
    BY <2>1, <2>3
<1>. QED
  BY <1>1, <1>2 DEF Follows

LEMMA TopIsNewest ==
  ASSUME NEW t, TableOK(t), NEW n \in Nums, At(t, 1, n).type = "n"
  PROVE  Newest(t, n, 1)
<1>1. 1 \in 1..Len(t.sections) /\ 1..1 - 1 = {}
  BY ShapedIs DEF TableOK
<1>. QED
  BY <1>1 DEF Newest

\* Table u is t with another mark on its top section.
LEMMA MarkKeeps ==
  ASSUME NEW t, TableOK(t), NEW u, u = [t EXCEPT !.sections[1].sigs = TRUE]
  PROVE  /\ TableOK(u) /\ Len(u.sections) = Len(t.sections)
         /\ u.ninc = t.ninc /\ u.base = t.base /\ u.len = t.len /\ u.closed = t.closed
         /\ u.startxref = t.startxref /\ u.streams = t.streams
         /\ \A i \in 1..Len(t.sections) : \A n \in Nums : At(u, i, n) = At(t, i, n)
         /\ \A n \in Nums : Latest(u.sections, n) = Latest(t.sections, n)
<1>. DEFINE c == [t.sections[1] EXCEPT !.sigs = TRUE]
            ss == [t.sections EXCEPT ![1] = c]
<1>1. u = [t EXCEPT !.sections = ss]
  OBVIOUS
<1>2. /\ Shaped(t) /\ t \in Tables /\ t.sections \in Seq(Section) /\ Len(t.sections) \in Nat
      /\ 1 \in 1..Len(t.sections) /\ t.sections[1] \in Section
      /\ Len(t.sections) \in 1..Len(t.sections)
      /\ \A m \in Nums : t.index[m] \in 1..Len(t.sections)
  BY ShapedIs DEF TableOK, Shaped
<1>3. c \in Section /\ c.len = t.sections[1].len /\ c.e = t.sections[1].e
  BY <1>2 DEF Section
<1>. HIDE DEF c
<1>4. /\ ss \in Seq(Section) /\ Len(ss) = Len(t.sections)
      /\ \A i \in 1..Len(t.sections) : ss[i] = IF i = 1 THEN c ELSE t.sections[i]
  BY <1>2, <1>3
<1>. HIDE DEF ss
<1>5. /\ u \in Tables /\ u.sections = ss /\ u.ninc = t.ninc /\ u.base = t.base
      /\ u.index = t.index /\ u.len = t.len /\ u.closed = t.closed
      /\ u.startxref = t.startxref /\ u.streams = t.streams
  <2>1. ss \in Seq(Section)
    BY <1>4
  <2>. QED
    BY <1>1, <1>2, <2>1 DEF Tables
<1>6. \A i \in 1..Len(t.sections) : \A n \in Nums : At(u, i, n) = At(t, i, n)
  BY <1>3, <1>4, <1>5 DEF At
<1>7. \A i \in 1..Len(t.sections) : u.sections[i].len = t.sections[i].len
  BY <1>3, <1>4, <1>5
<1>8. Len(u.sections) = Len(t.sections)
  BY <1>4, <1>5
<1>9. Shaped(u)
  BY <1>2, <1>5, <1>8 DEF Shaped
<1>10. Measured(u)
  BY <1>5, <1>6, <1>7, <1>8 DEF TableOK, Measured
<1>11. Indexed(u)
  <2>1. \A m \in Nums : \A i \in 1..t.index[m] - 1 : i \in 1..Len(t.sections)
    BY <1>2
  <2>2. SUFFICES ASSUME NEW m \in Nums, NEW i \in 1..t.index[m] - 1
                 PROVE  /\ At(u, i, m).type # "n"
                        /\ i <= t.ninc => At(u, i, m).type = "none"
    BY <1>5 DEF Indexed
  <2>3. At(u, i, m) = At(t, i, m)
    BY <1>6, <2>1
  <2>. QED
    BY <2>3 DEF TableOK, Indexed
<1>12. NotRevived(u)
  <2>1. \A j \in 1..Len(t.sections) : \A i \in 1..j - 1 : i \in 1..Len(t.sections)
    BY <1>2
  <2>2. SUFFICES ASSUME NEW m \in Nums, NEW j \in 1..Len(t.sections), NEW i \in 1..j - 1,
                        At(u, j, m).type = "f"
                 PROVE  At(u, i, m).type # "n"
    BY <1>8 DEF NotRevived
  <2>3. At(u, i, m) = At(t, i, m) /\ At(u, j, m) = At(t, j, m)
    BY <1>6, <2>1
  <2>. QED
    BY <2>2, <2>3 DEF TableOK, NotRevived
<1>13. Oldest(u)
  BY <1>2, <1>6, <1>7, <1>8 DEF TableOK, Oldest
<1>14. TableOK(u)
  BY <1>9, <1>10, <1>11, <1>12, <1>13 DEF TableOK
<1>15. \A n \in Nums : Latest(u.sections, n) = Latest(t.sections, n)
  BY <1>2, <1>6, <1>8, <1>9, SameLatest
<1>. QED
  BY <1>5, <1>6, <1>8, <1>14, <1>15

\* A new object n is made of a number nothing has used, and object f, which is
\* in use, is set to v.
LEMMA SignFirst ==
  ASSUME NEW t, TableOK(t), t.base = 1, t.len + 1 \in Nums, NEW f \in Nums,
         NEW i, Newest(t, f, i), NEW v \in Vals,
         NEW c, c = CreateObject(t)
  PROVE  /\ f # t.len + 1 /\ TableOK(c) /\ c.base = 1 /\ Follows(c, t)
         /\ c.len = t.len + 1 /\ EnsureIncrementalXref(c) = c
         /\ At(c, 1, t.len + 1) = FreeEntry
         /\ \A j \in 2..Len(c.sections) : At(c, j, t.len + 1).type = "none"
         /\ \A m \in Nums : m # t.len + 1 => Latest(c.sections, m) = Latest(t.sections, m)
         /\ \E k : Newest(c, f, k) /\ At(c, k, f) = At(t, i, f)
<1>. DEFINE n == t.len + 1
            s == EnsureIncrementalXref(t)
<1>1. /\ Shaped(t) /\ Len(t.sections) \in Nat /\ t.len \in Nat /\ n \in Nums
      /\ n > t.len /\ n \in Nat
  BY ShapedIs DEF TableOK
<1>2. f # n
  <2>1. f <= t.sections[i].len /\ t.sections[i].len <= t.len /\ t.sections[i].len \in Nat
    <3>1. At(t, i, f).type # "none" /\ i \in 1..Len(t.sections)
      BY DEF Newest
    <3>2. t.sections[i].len \in 0..MaxNum
      BY <1>1, <3>1, ShapedIs
    <3>. QED
      BY <3>1, <3>2 DEF TableOK, Measured
  <2>2. f \in Nat
    BY DEF Nums
  <2>. QED
    BY <1>1, <2>1, <2>2
<1>3. Put(c, s, n, FreeEntry)
  BY <1>1, ObjectsIs
<1>4. Edited(c, t, n, FreeEntry)
  BY <1>1, CreateEdits
<1>5. /\ TableOK(s) /\ Shaped(s) /\ s.base = 1 /\ Len(s.sections) \in Nat
      /\ \E k : Newest(s, f, k) /\ At(s, k, f) = At(t, i, f)
  BY TopEntry
<1>6. ~NeedsSection(s)
  BY <1>1, EnsureShaped
<1>7. \A j \in 1..Len(s.sections) : At(s, j, n) = Blank
  BY <1>1, EnsureNotFree
<1>. HIDE DEF n, s
<1>8. EnsureIncrementalXref(c) = c
  <2>1. Shaped(c) /\ ~NeedsSection(c)
    BY <1>1, <1>3, <1>5, <1>6, PutShaped
  <2>. QED
    BY <2>1, EnsureIs
<1>9. /\ TableOK(c) /\ c.base = 1 /\ Follows(c, t) /\ c.len = Larger(t.len, n)
      /\ At(c, 1, n) = FreeEntry
      /\ \A m \in Nums : m # n => Latest(c.sections, m) = Latest(t.sections, m)
  BY <1>4 DEF Edited, Follows
<1>10. Larger(t.len, n) = n
  BY <1>1 DEF Larger
<1>11. Len(c.sections) = Len(s.sections)
       /\ \A j \in 1..Len(s.sections) : At(c, j, f) = At(s, j, f)
  BY <1>2, <1>3 DEF Put
<1>12. ASSUME NEW j \in 2..Len(c.sections)
       PROVE  At(c, j, n).type = "none"
  <2>1. j \in 1..Len(s.sections) /\ j # s.base
    BY <1>5, <1>11
  <2>2. At(c, j, n).type = At(s, j, n).type
    BY <1>1, <1>3, <1>5, <2>1, BlankOK, PutTypes
  <2>. QED
    BY <1>7, <2>1, <2>2, BlankOK
<1>13. \E k : Newest(c, f, k) /\ At(c, k, f) = At(t, i, f)
  <2>1. PICK k : Newest(s, f, k) /\ At(s, k, f) = At(t, i, f)
    BY <1>5
  <2>2. k \in 1..Len(s.sections) /\ \A j \in 1..k - 1 : j \in 1..Len(s.sections)
    BY <1>5, <2>1 DEF Newest
  <2>3. Newest(c, f, k) /\ At(c, k, f) = At(t, i, f)
    BY <1>11, <2>1, <2>2 DEF Newest
  <2>. QED
    BY <2>3
<1>. QED
  BY <1>2, <1>8, <1>9, <1>10, <1>12, <1>13 DEF n

\* Table u is t in which field f has been signed with the value v: object n
\* is the signature.
Signed(u, t, f, v, e, n) ==
  /\ Follows(u, t) /\ u.len = n
  /\ Latest(u.sections, f).type = "n" /\ Latest(u.sections, f).val = v
  /\ Stream(Latest(u.sections, f)) = Stream(e)
  /\ Latest(u.sections, n).type = "n" /\ Latest(u.sections, n).val = Signature
  /\ Stream(Latest(u.sections, n)) = None
  /\ \A m \in Nums : m # n /\ m # f => Latest(u.sections, m) = Latest(t.sections, m)

LEMMA SignEdits ==
  ASSUME NEW t, TableOK(t), t.base = 1, t.len + 1 \in Nums, NEW f \in Nums,
         NEW i, Newest(t, f, i), NEW v \in Vals
  PROVE  /\ f # t.len + 1
         /\ LET s == SetSignature(t, f, v)
            IN  /\ Signed(s, t, f, v, At(t, i, f), t.len + 1)
                /\ Signed(AlterObject(s, f, v), t, f, v, At(t, i, f), t.len + 1)
<1>. DEFINE n == t.len + 1
            e == At(t, i, f)
            c == CreateObject(t)
            a == AlterObject(c, f, v)
            b == UpdateObject(a, n, Signature)
            z == SetSignature(t, f, v)
            w == AlterObject(z, f, v)
            x == [e EXCEPT !.val = v]
            y == [FreeEntry EXCEPT !.type = "n", !.val = Signature]
<1>1. /\ f # n /\ TableOK(c) /\ c.base = 1 /\ Follows(c, t)
      /\ c.len = n /\ EnsureIncrementalXref(c) = c
      /\ At(c, 1, n) = FreeEntry
      /\ \A j \in 2..Len(c.sections) : At(c, j, n).type = "none"
      /\ \A m \in Nums : m # n => Latest(c.sections, m) = Latest(t.sections, m)
      /\ \E k : Newest(c, f, k) /\ At(c, k, f) = e
  BY SignFirst
<1>. HIDE DEF c
<1>2. PICK k : Newest(c, f, k) /\ At(c, k, f) = e
  BY <1>1
<1>3. /\ Edited(a, c, f, [At(c, k, f) EXCEPT !.val = v])
      /\ Put(a, EnsureIncrementalXref(c), f, [At(c, k, f) EXCEPT !.val = v])
      /\ [At(c, k, f) EXCEPT !.val = v].type = "n"
      /\ [At(c, k, f) EXCEPT !.val = v].val = v
      /\ Stream([At(c, k, f) EXCEPT !.val = v]) = Stream(At(c, k, f))
  BY <1>1, <1>2, AlterEdits
<1>4. /\ Edited(a, c, f, x) /\ Put(a, c, f, x)
      /\ x.type = "n" /\ x.val = v /\ Stream(x) = Stream(e)
  BY <1>1, <1>2, <1>3
<1>5. e \in Entries
  <2>1. At(t, i, f) \in Entries
    BY ShapedIs DEF TableOK, Newest
  <2>. QED
    BY <2>1
<1>. HIDE DEF e, a
<1>6. [x EXCEPT !.val = v] = x
  BY <1>5 DEF Entries
<1>. HIDE DEF x
<1>7. n \in Nums /\ n \in Nat /\ Signature \in Vals
  BY DEF Vals, Nums
<1>8. /\ TableOK(a) /\ Shaped(a) /\ a.base = 1 /\ Follows(a, c) /\ a.len = n
      /\ At(a, 1, f) = x /\ Latest(a.sections, f) = x
      /\ \A m \in Nums : m # f => Latest(a.sections, m) = Latest(c.sections, m)
  <2>1. f <= n /\ f \in Nat
    <3>1. At(c, k, f).type # "none" /\ k \in 1..Len(c.sections)
      BY <1>2 DEF Newest
    <3>2. f <= c.sections[k].len /\ c.sections[k].len <= c.len
      BY <1>1, <3>1 DEF TableOK, Measured
    <3>3. c.sections[k].len \in Nat
      BY <1>1, <3>1, ShapedIs DEF TableOK
    <3>. QED
      BY <1>1, <1>7, <3>2, <3>3 DEF Nums
  <2>2. Larger(n, f) = n
    BY <1>7, <2>1 DEF Larger
  <2>. QED
    BY <1>1, <1>4, <2>2 DEF Edited, Follows, TableOK
<1>9. EnsureIncrementalXref(a) = a
  <2>1. Shaped(c) /\ ~NeedsSection(c)
    BY <1>1, EnsureShaped DEF TableOK
  <2>2. ~NeedsSection(a)
    BY <1>4, <2>1, PutShaped
  <2>. QED
    BY <1>8, <2>2, EnsureIs
<1>10. /\ Len(a.sections) = Len(c.sections)
       /\ \A j \in 1..Len(c.sections) : At(a, j, n) = At(c, j, n)
  BY <1>1, <1>4, <1>7 DEF Put
<1>11. 1 \in 1..Len(c.sections) /\ Len(c.sections) \in Nat
  BY <1>1, ShapedIs DEF TableOK
<1>12. At(a, 1, n) = FreeEntry /\ \A j \in 2..Len(a.sections) : At(a, j, n).type # "f"
  <2>1. \A j \in 2..Len(a.sections) : j \in 1..Len(c.sections) /\ j \in 2..Len(c.sections)
    BY <1>10, <1>11
  <2>. QED
    BY <1>1, <1>10, <1>11, <2>1
<1>13. Put(b, a, n, y)
  <2>1. Put(UpdateObject(a, n, Signature), EnsureIncrementalXref(a), n,
            [At(EnsureIncrementalXref(a), EnsureIncrementalXref(a).base, n)
               EXCEPT !.type = "n", !.val = Signature])
    BY <1>7, <1>8, ObjectsIs
  <2>. QED
    BY <1>8, <1>9, <1>12, <2>1
<1>14. /\ y \in Entries /\ Tidy(y) /\ y.type = "n" /\ y.val = Signature
       /\ y.buf = None /\ y.stm = None
  <2>1. FreeEntry.stm = None
    BY DEF FreeEntry, Blank
  <2>. QED
    BY <1>7, <2>1, BlankOK, EntryChanged
<1>. HIDE DEF y, b, n
<1>15. Edited(b, a, n, y)
  BY <1>7, <1>8, <1>9, <1>12, <1>13, <1>14, PutEdits
<1>16. z = [b EXCEPT !.sections[1].sigs = TRUE]
  BY DEF SetSignature, b, a, c, n
<1>. HIDE DEF z
<1>17. /\ TableOK(b) /\ b.base = 1 /\ Follows(b, a) /\ b.len = n
       /\ Latest(b.sections, n) = y
       /\ \A m \in Nums : m # n => Latest(b.sections, m) = Latest(a.sections, m)
       /\ At(b, 1, f) = x
  <2>1. Larger(n, n) = n
    BY DEF Larger
  <2>2. At(b, 1, f) = At(a, 1, f)
    BY <1>1, <1>10, <1>11, <1>13 DEF Put
  <2>. QED
    BY <1>8, <1>15, <2>1, <2>2 DEF Edited, Follows
<1>18. /\ TableOK(z) /\ Len(z.sections) = Len(b.sections)
       /\ z.ninc = b.ninc /\ z.base = b.base /\ z.len = b.len /\ z.closed = b.closed
       /\ z.startxref = b.startxref /\ z.streams = b.streams
       /\ \A j \in 1..Len(b.sections) : \A m \in Nums : At(z, j, m) = At(b, j, m)
       /\ \A m \in Nums : Latest(z.sections, m) = Latest(b.sections, m)
  BY <1>16, <1>17, MarkKeeps
<1>19. Follows(z, b)
  <2>1. b.ninc \in Nat /\ Len(b.sections) \in Nat /\ b.ninc < Len(b.sections)
    BY <1>17, ShapedIs DEF TableOK, Shaped
  <2>2. \A p \in 1..Len(b.sections) - b.ninc : b.ninc + p \in 1..Len(b.sections)
    BY <2>1
  <2>. QED
    BY <1>17, <1>18, <2>2 DEF Follows
<1>20. Follows(z, t)
  BY <1>1, <1>8, <1>17, <1>19, FollowsTrans
<1>21. /\ Latest(z.sections, f) = x /\ Latest(z.sections, n) = y
       /\ \A m \in Nums : m # n /\ m # f => Latest(z.sections, m) = Latest(t.sections, m)
  <2>1. f # n
    BY <1>1 DEF n
  <2>2. \A m \in Nums : m # n => Latest(c.sections, m) = Latest(t.sections, m)
    BY <1>1 DEF n
  <2>. QED
    BY <1>7, <1>8, <1>17, <1>18, <2>1, <2>2
<1>22. Stream(y) = None
  BY <1>14 DEF Stream
<1>23. Signed(z, t, f, v, e, n)
  BY <1>4, <1>14, <1>17, <1>18, <1>20, <1>21, <1>22 DEF Signed
<1>24. At(z, 1, f) = x /\ z.base = 1
  <2>1. 1 \in 1..Len(b.sections)
    BY <1>17, ShapedIs DEF TableOK
  <2>. QED
    BY <1>17, <1>18, <2>1
<1>25. Edited(w, z, f, x)
  <2>1. Newest(z, f, 1)
    BY <1>4, <1>18, <1>24, TopIsNewest
  <2>2. Edited(w, z, f, [At(z, 1, f) EXCEPT !.val = v])
    BY <1>18, <1>24, <2>1, AlterEdits
  <2>. QED
    BY <1>6, <1>24, <2>2
<1>. HIDE DEF w
<1>26. Follows(w, t)
  BY <1>20, <1>25, FollowsTrans DEF Edited
<1>27. /\ Latest(w.sections, f) = x /\ Latest(w.sections, n) = y
       /\ \A m \in Nums : m # n /\ m # f => Latest(w.sections, m) = Latest(t.sections, m)
  BY <1>1, <1>7, <1>21, <1>25 DEF Edited
<1>28. w.len = n
  <2>1. w.len = Larger(n, f)
    BY <1>17, <1>18, <1>25 DEF Edited
  <2>2. f <= n /\ f \in Nat
    <3>1. At(z, 1, f).type # "none" /\ 1 \in 1..Len(z.sections)
      BY <1>4, <1>18, <1>24, ShapedIs DEF TableOK
    <3>2. f <= z.sections[1].len /\ z.sections[1].len <= z.len /\ z.sections[1].len \in Nat
      BY <1>18, <3>1, ShapedIs DEF TableOK, Measured
    <3>. QED
      BY <1>7, <1>17, <1>18, <3>2 DEF Nums
  <2>. QED
    BY <1>7, <2>1, <2>2 DEF Larger
<1>29. Signed(w, t, f, v, e, n)
  BY <1>4, <1>14, <1>22, <1>26, <1>27, <1>28 DEF Signed
<1>. QED
  BY <1>1, <1>23, <1>29 DEF w, z, e, n

-----------------------------------------------------------------------------
(* Reading a file.                                                         *)

\* The sections are read from the newest one to the oldest.
LEMMA ChainIs ==
  ASSUME NEW f, FileOK(f)
  PROVE  Chain(f) = [i \in 1..Len(f) |-> f[Len(f) + 1 - i]]
<1>. DEFINE L == Len(f)
            Step(g) == [k \in 0..L |-> IF k = 0 THEN <<>> ELSE <<f[k]>> \o g[f[k].prev]]
            h == [k \in 0..L |-> [i \in 1..k |-> f[k + 1 - i]]]
            g == CHOOSE g : g = Step(g)
<1>1. f \in Seq(FileSection) /\ L \in Nat /\ L >= 1 /\ \A k \in 1..L : f[k].prev = k - 1
  <2>1. f \in Seq(FileSection) /\ f # <<>> /\ \A k \in 1..L : f[k].prev = k - 1
    BY DEF FileOK
  <2>. QED
    BY <2>1
<1>2. Chain(f) = g[L]
  BY DEF Chain
<1>3. ASSUME NEW k \in 1..L, NEW r, r = [i \in 1..k - 1 |-> f[(k - 1) + 1 - i]]
      PROVE  <<f[k]>> \o r = [i \in 1..k |-> f[k + 1 - i]]
  <2>1. /\ r \in Seq(FileSection) /\ Len(r) = k - 1
    <3>1. \A i \in 1..k - 1 : (k - 1) + 1 - i \in 1..L
      BY <1>1
    <3>2. r \in [1..k - 1 -> FileSection] /\ k - 1 \in Nat
      BY <1>1, <1>3, <3>1
    <3>. QED
      BY <3>2
  <2>2. f[k] \in FileSection /\ <<f[k]>> \in Seq(FileSection) /\ Len(<<f[k]>>) = 1
    BY <1>1
  <2>3. /\ <<f[k]>> \o r \in Seq(FileSection) /\ Len(<<f[k]>> \o r) = k
    BY <1>1, <2>1, <2>2
  <2>4. ASSUME NEW i \in 1..k
        PROVE  (<<f[k]>> \o r)[i] = f[k + 1 - i]
    <3>1. CASE i = 1
      <4>1. (<<f[k]>> \o r)[1] = f[k]
        BY <1>1, <2>1, <2>2
      <4>2. k + 1 - 1 = k
        BY <1>1
      <4>. QED
        BY <3>1, <4>1, <4>2
    <3>2. CASE i # 1
      <4>1. i - 1 \in 1..k - 1 /\ (k - 1) + 1 - (i - 1) = k + 1 - i
        BY <1>1, <3>2
      <4>2. (<<f[k]>> \o r)[i] = r[i - 1]
        BY <1>1, <2>1, <2>2, <3>2, <4>1
      <4>. QED
        BY <1>3, <4>1, <4>2
    <3>. QED
      BY <3>1, <3>2
  <2>5. DOMAIN (<<f[k]>> \o r) = 1..k
    BY <2>3
  <2>6. <<f[k]>> \o r = [i \in 1..k |-> (<<f[k]>> \o r)[i]]
    BY <2>3, <2>5
  <2>. QED
    BY <2>4, <2>6
<1>4. h = Step(h)
  <2>1. ASSUME NEW k \in 0..L
        PROVE  h[k] = IF k = 0 THEN <<>> ELSE <<f[k]>> \o h[f[k].prev]
    <3>1. CASE k = 0
      <4>1. h[0] = [i \in 1..0 |-> f[0 + 1 - i]]
        BY <1>1
      <4>2. [i \in 1..0 |-> f[0 + 1 - i]] = <<>>
        OBVIOUS
      <4>. QED
        BY <3>1, <4>1, <4>2
    <3>2. CASE k # 0
      <4>1. k \in 1..L /\ k - 1 \in 0..L /\ f[k].prev = k - 1
        BY <1>1, <3>2
      <4>2. h[k - 1] = [i \in 1..k - 1 |-> f[(k - 1) + 1 - i]]
        BY <4>1
      <4>3. h[k] = [i \in 1..k |-> f[k + 1 - i]]
        OBVIOUS
      <4>. HIDE DEF h
      <4>4. <<f[k]>> \o h[k - 1] = [i \in 1..k |-> f[k + 1 - i]]
        BY <1>3, <4>1, <4>2
      <4>. QED
        BY <3>2, <4>1, <4>3, <4>4
    <3>. QED
      BY <3>1, <3>2
  <2>2. h = [k \in 0..L |-> h[k]]
    OBVIOUS
  <2>. HIDE DEF h
  <2>. QED
    BY <2>1, <2>2
<1>5. g = Step(g)
  <2>1. \E x : x = Step(x)
    BY <1>4
  <2>. HIDE DEF Step
  <2>. QED
    BY <2>1
<1>. HIDE DEF g
<1>6. \A k \in 0..L : g[k] = IF k = 0 THEN <<>> ELSE <<f[k]>> \o g[f[k].prev]
  BY <1>5
<1>7. \A k \in 0..L : h[k] = IF k = 0 THEN <<>> ELSE <<f[k]>> \o h[f[k].prev]
  <2>. HIDE DEF h
  <2>. QED
    BY <1>4
<1>8. h[L] = [i \in 1..L |-> f[L + 1 - i]]
  BY <1>1
<1>. HIDE DEF h
<1>9. \A k \in 0..L : g[k] = h[k]
  <2>. DEFINE D == {k \in 0..L : g[k] # h[k]}
  <2>1. CASE D = {}
    BY <2>1
  <2>2. CASE D # {}
    <3>1. D \in SUBSET Nat
      BY <1>1
    <3>2. PICK m \in D : \A x \in D : m <= x
      BY <2>2, <3>1, LeastExists
    <3>3. m \in 0..L /\ g[m] # h[m]
      BY <3>2
    <3>4. m # 0
      BY <1>6, <1>7, <3>3
    <3>5. m - 1 \in 0..L /\ f[m].prev = m - 1 /\ ~(m <= m - 1)
      BY <1>1, <3>3, <3>4
    <3>6. g[m - 1] = h[m - 1]
      BY <3>2, <3>5
    <3>. QED
      BY <1>6, <1>7, <3>3, <3>4, <3>5, <3>6
  <2>. QED
    BY <2>1, <2>2
<1>10. g[L] = h[L]
  BY <1>1, <1>9
<1>. QED
  BY <1>2, <1>8, <1>10

LEMMA GreatestOf ==
  ASSUME NEW n \in Nat, NEW S \in SUBSET (0..n), S # {}
  PROVE  \E m \in S : \A x \in S : x <= m
<1>. DEFINE D == {n - x : x \in S}
<1>1. \A x \in S : x \in Nat /\ x <= n /\ n - x \in Nat
  OBVIOUS
<1>2. D \in SUBSET Nat /\ D # {}
  BY <1>1
<1>3. PICK d \in D : \A x \in D : d <= x
  BY <1>2, LeastExists
<1>4. PICK m \in S : d = n - m
  BY <1>3
<1>5. \A x \in S : n - m <= n - x
  BY <1>3, <1>4
<1>. QED
  BY <1>1, <1>4, <1>5

LEMMA ReachIs ==
  ASSUME NEW e \in [Nums -> Entries]
  PROVE  /\ Reach(e) \in 0..MaxNum
         /\ \A n \in Nums : e[n].type # "none" => n <= Reach(e)
         /\ Reach(e) # 0 => Reach(e) \in Nums /\ e[Reach(e)].type # "none"
<1>. DEFINE D == {n \in Nums : e[n].type # "none"}
<1>1. MaxNum \in Nat /\ Nums = 1..MaxNum
  BY XrefAssumption DEF Nums
<1>2. CASE D = {}
  <2>1. Reach(e) = 0
    BY <1>2 DEF Reach
  <2>. QED
    BY <1>1, <1>2, <2>1
<1>3. CASE D # {}
  <2>1. D \in SUBSET (1..MaxNum)
    BY <1>1
  <2>. HIDE DEF D
  <2>2. \E n \in D : \A m \in D : m <= n
    BY <1>1, <1>3, <2>1, GreatestExists
  <2>3. Reach(e) = CHOOSE n \in D : \A m \in D : m <= n
    BY <1>3 DEF Reach, D
  <2>4. Reach(e) \in D /\ \A m \in D : m <= Reach(e)
    BY <2>2, <2>3
  <2>. QED
    BY <1>1, <2>4 DEF D
<1>. QED
  BY <1>2, <1>3

LEMMA PrimedIs ==
  ASSUME NEW ss \in Seq(Section), Len(ss) >= 1, NEW n \in Nums
  PROVE  /\ Primed(ss, n) \in 1..Len(ss)
         /\ \A i \in 1..Primed(ss, n) - 1 : ss[i].e[n].type # "n"
<1>. DEFINE live == {i \in DOMAIN ss : ss[i].e[n].type = "n"}
<1>1. DOMAIN ss = 1..Len(ss) /\ Len(ss) \in Nat /\ 1 \in 1..Len(ss)
  OBVIOUS
<1>2. CASE live = {}
  BY <1>1, <1>2 DEF Primed
<1>3. CASE live # {}
  <2>1. live \in SUBSET Nat
    BY <1>1
  <2>2. Primed(ss, n) = Least(live)
    BY <1>3 DEF Primed
  <2>. HIDE DEF live
  <2>3. Primed(ss, n) \in live /\ \A x \in live : Primed(ss, n) <= x
    BY <1>3, <2>1, <2>2, LeastIn
  <2>4. Primed(ss, n) \in 1..Len(ss)
    BY <1>1, <2>3 DEF live
  <2>5. ASSUME NEW i \in 1..Primed(ss, n) - 1
        PROVE  ss[i].e[n].type # "n"
    <3>1. i \in 1..Len(ss) /\ ~(Primed(ss, n) <= i)
      BY <1>1, <2>4
    <3>. QED
      BY <1>1, <2>3, <3>1 DEF live
  <2>. QED
    BY <2>4, <2>5
<1>. QED
  BY <1>2, <1>3

\* A table whose sections are those of the file, before anything is looked up.
ReadIs(t, f) ==
  /\ t \in Tables /\ Len(t.sections) = Len(f)
  /\ \A i \in 1..Len(f) : /\ t.sections[i].e = f[Len(f) + 1 - i].e
                          /\ t.sections[i].len = Reach(f[Len(f) + 1 - i].e)
                          /\ t.sections[i].len <= t.len
  /\ \A n \in Nums : t.index[n] = Primed(t.sections, n)
  /\ t.ninc = 0 /\ t.base = 1 /\ ~t.closed /\ t.startxref = Len(f)

LEMMA ReadOK ==
  ASSUME NEW f, FileOK(f), NEW t, ReadIs(t, f)
  PROVE  TableOK(t) /\ Loaded(t, f)
<1>. DEFINE L == Len(f)
<1>1. /\ f \in Seq(FileSection) /\ L \in Nat /\ L >= 1
      /\ \A k \in 1..L : f[k] \in FileSection /\ f[k].e \in [Nums -> Entries]
  <2>1. f \in Seq(FileSection) /\ f # <<>>
    BY DEF FileOK
  <2>2. L \in Nat /\ L >= 1 /\ \A k \in 1..L : f[k] \in FileSection
    BY <2>1
  <2>. QED
    BY <2>1, <2>2 DEF FileSection
<1>2. /\ t \in Tables /\ Len(t.sections) = L
      /\ \A i \in 1..L : /\ t.sections[i].e = f[L + 1 - i].e
                         /\ t.sections[i].len = Reach(f[L + 1 - i].e)
                         /\ t.sections[i].len <= t.len
      /\ \A n \in Nums : t.index[n] = Primed(t.sections, n)
      /\ t.ninc = 0 /\ t.base = 1 /\ ~t.closed
  BY DEF ReadIs
<1>3. t.sections \in Seq(Section) /\ t.index \in [Nums -> Nat]
  BY <1>2 DEF Tables
<1>. HIDE DEF L
<1>4. \A n \in Nums : /\ t.index[n] \in 1..L
                      /\ \A i \in 1..t.index[n] - 1 : At(t, i, n).type # "n"
  BY <1>1, <1>2, <1>3, PrimedIs DEF At
<1>5. t.index \in [Nums -> 1..Len(t.sections)]
  BY <1>2, <1>3, <1>4
<1>6. Shaped(t)
  BY <1>1, <1>2, <1>5 DEF Shaped
<1>7. \A i \in 1..L : /\ L + 1 - i \in 1..L
                      /\ \A n \in Nums : At(t, i, n) = f[L + 1 - i].e[n]
  BY <1>1, <1>2 DEF At
<1>8. Measured(t)
  <2>1. SUFFICES ASSUME NEW i \in 1..L, NEW n \in Nums
                 PROVE  /\ Tidy(At(t, i, n))
                        /\ At(t, i, n).type # "none" => n <= t.sections[i].len
                        /\ t.sections[i].len <= t.len
    BY <1>2 DEF Measured
  <2>2. L + 1 - i \in 1..L /\ At(t, i, n) = f[L + 1 - i].e[n]
    BY <1>7
  <2>3. Tidy(f[L + 1 - i].e[n])
    BY <2>2 DEF FileOK, L
  <2>4. f[L + 1 - i].e[n].type # "none" => n <= Reach(f[L + 1 - i].e)
    <3>1. f[L + 1 - i].e \in [Nums -> Entries]
      BY <1>1, <2>2
    <3>. QED
      BY <3>1, ReachIs
  <2>. QED
    BY <1>2, <2>2, <2>3, <2>4
<1>9. Indexed(t)
  <2>1. \A n \in Nums : \A i \in 1..t.index[n] - 1 : i >= 1
    BY <1>3
  <2>. QED
    BY <1>2, <1>3, <1>4, <2>1 DEF Indexed
<1>10. NotRevived(t)
  <2>1. SUFFICES ASSUME NEW n \in Nums, NEW j \in 1..L, NEW i \in 1..j - 1,
                        At(t, j, n).type = "f"
                 PROVE  At(t, i, n).type # "n"
    BY <1>2 DEF NotRevived
  <2>2. i \in 1..L /\ L + 1 - i \in 1..L /\ L + 1 - j \in 1..(L + 1 - i) - 1
    BY <1>1
  <2>3. f[L + 1 - j].e[n].type = "f"
    BY <1>7, <2>1
  <2>4. f[L + 1 - i].e[n].type # "n"
    BY <2>2, <2>3 DEF FileOK, L
  <2>. QED
    BY <1>7, <2>2, <2>4
<1>11. Oldest(t)
  <2>1. SUFFICES ASSUME NEW n \in Nums, n <= t.sections[L].len
                 PROVE  At(t, L, n).type # "none"
    BY <1>2 DEF Oldest
  <2>2. L \in 1..L /\ L + 1 - L = 1 /\ 1 \in 1..L
    BY <1>1
  <2>3. t.sections[L].len = Reach(f[1].e) /\ At(t, L, n) = f[1].e[n]
    <3>1. t.sections[L].len = Reach(f[L + 1 - L].e) /\ At(t, L, n) = f[L + 1 - L].e[n]
      BY <1>2, <1>7, <2>2
    <3>2. f[L + 1 - L] = f[1]
      BY <2>2
    <3>. QED
      BY <3>1, <3>2
  <2>4. /\ Reach(f[1].e) \in 0..MaxNum
        /\ Reach(f[1].e) # 0 => /\ Reach(f[1].e) \in Nums
                                /\ f[1].e[Reach(f[1].e)].type # "none"
    BY <1>1, <2>2, ReachIs
  <2>5. Reach(f[1].e) # 0
    BY <2>1, <2>3, <2>4 DEF Nums
  <2>6. \A a, b \in Nums : b <= a /\ f[1].e[a].type # "none" => f[1].e[b].type # "none"
    BY DEF FileOK
  <2>. QED
    BY <2>1, <2>3, <2>4, <2>5, <2>6
<1>12. Loaded(t, f)
  <2>1. \A k \in 1..L : 0 + k = k
    BY <1>1
  <2>2. Len(t.sections) = t.ninc + Len(f)
    BY <1>1, <1>2 DEF L
  <2>. QED
    BY <1>2, <1>7, <2>1, <2>2 DEF Loaded, L
<1>. QED
  BY <1>6, <1>8, <1>9, <1>10, <1>11, <1>12 DEF TableOK

LEMMA LoadIs ==
  ASSUME NEW f, FileOK(f)
  PROVE  LET t == LoadXref(f) IN
         /\ TableOK(t) /\ Loaded(t, f)
         /\ t.ninc = 0 /\ t.base = 1 /\ ~t.closed /\ t.startxref = Len(f)
<1>. DEFINE L == Len(f)
            read == [i \in 1..L |-> f[L + 1 - i]]
            ss == [i \in DOMAIN read |-> [len |-> Reach(read[i].e), e |-> read[i].e,
                                          sigs |-> FALSE]]
            lens == {ss[i].len : i \in DOMAIN ss}
            big == CHOOSE m \in lens : \A l \in lens : l <= m
            idx == [n \in Nums |-> Primed(ss, n)]
            str == \E i \in DOMAIN read : read[i].stream
            t == [sections |-> ss, ninc |-> 0, base |-> 1, index |-> idx, len |-> big,
                  closed |-> FALSE, startxref |-> L, streams |-> str]
<1>1. LoadXref(f) = LookAll(t)
  <2>1. Chain(f) = read
    BY ChainIs
  <2>. HIDE DEF read
  <2>. QED
    BY <2>1 DEF LoadXref
<1>2. /\ L \in Nat /\ L >= 1 /\ \A k \in 1..L : f[k].e \in [Nums -> Entries]
  <2>1. f \in Seq(FileSection) /\ f # <<>>
    BY DEF FileOK
  <2>2. L \in Nat /\ L >= 1 /\ \A k \in 1..L : f[k] \in FileSection
    BY <2>1
  <2>. QED
    BY <2>2 DEF FileSection
<1>. HIDE DEF L
<1>3. DOMAIN ss = 1..L
  OBVIOUS
<1>4. \A i \in 1..L : ss[i] = [len |-> Reach(f[L + 1 - i].e), e |-> f[L + 1 - i].e,
                               sigs |-> FALSE]
  OBVIOUS
<1>. HIDE DEF ss, read
<1>5. ASSUME NEW i \in 1..L
      PROVE  /\ ss[i] \in Section /\ ss[i].e = f[L + 1 - i].e
             /\ ss[i].len = Reach(f[L + 1 - i].e) /\ ss[i].len \in 0..MaxNum
  <2>1. L + 1 - i \in 1..L
    BY <1>2
  <2>2. f[L + 1 - i].e \in [Nums -> Entries]
    BY <1>2, <2>1
  <2>3. Reach(f[L + 1 - i].e) \in 0..MaxNum
    BY <2>2, ReachIs
  <2>4. ASSUME NEW l \in 0..MaxNum, NEW e \in [Nums -> Entries], NEW x,
               x = [len |-> l, e |-> e, sigs |-> FALSE]
        PROVE  x \in Section /\ x.e = e /\ x.len = l
    BY <2>4 DEF Section
  <2>5. ss[i] = [len |-> Reach(f[L + 1 - i].e), e |-> f[L + 1 - i].e, sigs |-> FALSE]
    BY <1>4
  <2>6. /\ ss[i] \in Section /\ ss[i].e = f[L + 1 - i].e
        /\ ss[i].len = Reach(f[L + 1 - i].e)
    BY <2>2, <2>3, <2>4, <2>5
  <2>. QED
    BY <2>3, <2>6
<1>6. ss \in Seq(Section) /\ Len(ss) = L
  <2>1. ss = [i \in 1..L |-> ss[i]]
    BY <1>3 DEF ss, read
  <2>2. ss \in [1..L -> Section]
    BY <1>5, <2>1
  <2>. QED
    BY <1>2, <2>2
<1>7. big \in 0..MaxNum /\ \A i \in 1..L : ss[i].len <= big
  <2>1. MaxNum \in Nat /\ 1 \in 1..L
    BY <1>2, XrefAssumption
  <2>2. lens \in SUBSET (0..MaxNum)
    BY <1>3, <1>5
  <2>3. lens # {} /\ \A i \in 1..L : ss[i].len \in lens
    BY <1>3, <2>1
  <2>. HIDE DEF lens
  <2>4. \E m \in lens : \A l \in lens : l <= m
    BY <2>1, <2>2, <2>3, GreatestOf
  <2>5. big \in lens /\ \A l \in lens : l <= big
    BY <2>4
  <2>. QED
    BY <2>2, <2>3, <2>5
<1>8. idx \in [Nums -> Nat]
  BY <1>2, <1>6, PrimedIs
<1>9. \A n \in Nums : idx[n] = Primed(ss, n)
  OBVIOUS
<1>10. str \in BOOLEAN
  OBVIOUS
<1>. HIDE DEF big, idx, str
<1>11. /\ t \in Tables /\ t.sections = ss /\ t.index = idx /\ t.len = big
       /\ t.ninc = 0 /\ t.base = 1 /\ ~t.closed /\ t.startxref = L
  <2>1. ss \in Seq(Section)
    BY <1>6
  <2>2. 0 \in Nat /\ 1 \in Nat /\ L \in Nat
    BY <1>2
  <2>. QED
    BY <1>7, <1>8, <1>10, <2>1, <2>2 DEF Tables
<1>. HIDE DEF t
<1>12. ReadIs(t, f)
  BY <1>5, <1>6, <1>7, <1>9, <1>11 DEF ReadIs, L
<1>13. TableOK(t) /\ Loaded(t, f)
  BY <1>12, ReadOK
<1>14. TableOK(LookAll(t)) /\ Reindexed(LookAll(t), t)
  BY <1>13, LookAllKeeps
<1>15. LookAll(t).sections = t.sections /\ LookAll(t).ninc = t.ninc
  BY <1>14 DEF Reindexed
<1>16. Loaded(LookAll(t), f)
  BY <1>13, <1>15 DEF Loaded, At
<1>. QED
  BY <1>1, <1>11, <1>14, <1>16 DEF Reindexed, L

\* What the file says of an object is what its newest entry in the table says.
LEMMA DiskIs ==
  ASSUME NEW f, FileOK(f), NEW t, t = LoadXref(f), NEW n \in Nums
  PROVE  Latest(t.sections, n) = Latest(Chain(f), n)
<1>. DEFINE L == Len(f)
            c == Chain(f)
            D == {i \in DOMAIN c : c[i].e[n].type # "none"}
            E == {i \in DOMAIN t.sections : t.sections[i].e[n].type # "none"}
<1>1. f \in Seq(FileSection) /\ L \in Nat
  BY DEF FileOK
<1>2. c = [i \in 1..L |-> f[L + 1 - i]]
  BY ChainIs
<1>3. Loaded(t, f) /\ t.ninc = 0 /\ DOMAIN t.sections = 1..Len(t.sections)
  BY LoadIs, ShapedIs DEF TableOK
<1>4. DOMAIN t.sections = 1..L
  BY <1>1, <1>3 DEF Loaded
<1>5. \A i \in 1..L : t.sections[i].e[n] = f[L + 1 - i].e[n]
  <2>1. \A i \in 1..L : At(t, 0 + i, n) = f[L + 1 - i].e[n] /\ 0 + i = i
    BY <1>1, <1>3 DEF Loaded
  <2>. QED
    BY <2>1 DEF At
<1>. HIDE DEF L, c
<1>6. DOMAIN c = 1..L /\ \A i \in 1..L : c[i].e[n] = f[L + 1 - i].e[n]
  BY <1>2
<1>7. D = E
  BY <1>4, <1>5, <1>6
<1>8. \A i \in D : c[i].e[n] = t.sections[i].e[n]
  BY <1>5, <1>6
<1>9. D \in SUBSET Nat
  BY <1>6
<1>10. /\ Latest(c, n) = IF D = {} THEN Blank ELSE c[Least(D)].e[n]
       /\ Latest(t.sections, n) = IF E = {} THEN Blank ELSE t.sections[Least(E)].e[n]
  BY DEF Latest
<1>. HIDE DEF D, E
<1>11. D # {} => Least(D) \in D
  BY <1>9, LeastIn
<1>12. Latest(t.sections, n) = Latest(c, n)
  BY <1>7, <1>8, <1>10, <1>11
<1>. QED
  BY <1>12 DEF c

-----------------------------------------------------------------------------
(* Writing.                                                                *)

\* Fields that say nothing of the entries.
LEMMA FieldsKeep ==
  ASSUME NEW t, TableOK(t), NEW u, u \in Tables, u.sections = t.sections,
         u.ninc = t.ninc, u.base \in 1..Len(t.sections), u.index = t.index, u.len = t.len,
         u.closed => t.closed \/ t.ninc > 0
  PROVE  TableOK(u)
<1>1. Shaped(t) /\ Measured(t) /\ Indexed(t) /\ NotRevived(t) /\ Oldest(t)
  BY DEF TableOK
<1>2. Shaped(u)
  BY <1>1 DEF Shaped
<1>3. \A i : \A n : At(u, i, n) = At(t, i, n)
  BY DEF At
<1>4. Measured(u)
  BY <1>1, <1>3 DEF Measured
<1>5. Indexed(u)
  BY <1>1, <1>3 DEF Indexed
<1>6. NotRevived(u)
  BY <1>1, <1>3 DEF NotRevived
<1>7. Oldest(u)
  BY <1>1, <1>3 DEF Oldest
<1>. QED
  BY <1>2, <1>4, <1>5, <1>6, <1>7 DEF TableOK

LEMMA FieldSet ==
  ASSUME NEW t \in Tables
  PROVE  /\ \A b \in Nat :
              LET u == [t EXCEPT !.base = b]
              IN  /\ u \in Tables /\ u.sections = t.sections /\ u.ninc = t.ninc
                  /\ u.base = b /\ u.index = t.index /\ u.len = t.len
                  /\ u.closed = t.closed /\ u.startxref = t.startxref
                  /\ u.streams = t.streams
         /\ \A x \in Nat :
              LET u == [t EXCEPT !.startxref = x]
              IN  /\ u \in Tables /\ u.sections = t.sections /\ u.ninc = t.ninc
                  /\ u.base = t.base /\ u.index = t.index /\ u.len = t.len
                  /\ u.closed = t.closed /\ u.startxref = x
                  /\ u.streams = t.streams
         /\ \A c \in BOOLEAN :
              LET u == [t EXCEPT !.closed = c]
              IN  /\ u \in Tables /\ u.sections = t.sections /\ u.ninc = t.ninc
                  /\ u.base = t.base /\ u.index = t.index /\ u.len = t.len
                  /\ u.closed = c /\ u.startxref = t.startxref
                  /\ u.streams = t.streams
<1>1. ASSUME NEW b \in Nat
      PROVE  LET u == [t EXCEPT !.base = b]
              IN  /\ u \in Tables /\ u.sections = t.sections /\ u.ninc = t.ninc
                  /\ u.base = b /\ u.index = t.index /\ u.len = t.len
                  /\ u.closed = t.closed /\ u.startxref = t.startxref
                  /\ u.streams = t.streams
  BY DEF Tables
<1>2. ASSUME NEW x \in Nat
      PROVE  LET u == [t EXCEPT !.startxref = x]
              IN  /\ u \in Tables /\ u.sections = t.sections /\ u.ninc = t.ninc
                  /\ u.base = t.base /\ u.index = t.index /\ u.len = t.len
                  /\ u.closed = t.closed /\ u.startxref = x
                  /\ u.streams = t.streams
  BY DEF Tables
<1>3. ASSUME NEW c \in BOOLEAN
      PROVE  LET u == [t EXCEPT !.closed = c]
              IN  /\ u \in Tables /\ u.sections = t.sections /\ u.ninc = t.ninc
                  /\ u.base = t.base /\ u.index = t.index /\ u.len = t.len
                  /\ u.closed = c /\ u.startxref = t.startxref
                  /\ u.streams = t.streams
  BY DEF Tables
<1>. QED
  BY <1>1, <1>2, <1>3

\* An object that the increment being written has is found there.
LEMMA WhereInBase ==
  ASSUME NEW t, TableOK(t), t.base <= t.ninc, NEW n \in Nums,
         At(t, t.base, n).type # "none"
  PROVE  Where(t, n) = t.base
<1>. DEFINE k == Larger(t.index[n], t.base)
            F == Defining(t, k, n)
<1>1. /\ Shaped(t) /\ t.base \in 1..Len(t.sections) /\ t.index[n] \in 1..Len(t.sections)
      /\ Len(t.sections) \in Nat /\ t.ninc \in Nat
  BY ShapedIs DEF TableOK
<1>2. t.index[n] <= t.base
  <2>1. t.base \notin 1..t.index[n] - 1
    BY DEF TableOK, Indexed
  <2>. QED
    BY <1>1, <2>1
<1>3. k = t.base
  BY <1>1, <1>2 DEF Larger
<1>4. /\ F \in SUBSET Nat
      /\ \A i : i \in F <=> i \in 1..Len(t.sections) /\ k <= i /\ At(t, i, n).type # "none"
  <2>1. k \in 1..Len(t.sections)
    BY <1>1, <1>3
  <2>. HIDE DEF k
  <2>. QED
    BY <1>1, <2>1, DefiningIs
<1>5. Where(t, n) = IF F # {} THEN Least(F)
                    ELSE IF /\ n <= t.sections[Len(t.sections)].len
                            /\ n <= t.sections[t.base].len
                         THEN t.base ELSE 1
  BY DEF Where
<1>. HIDE DEF F, k
<1>6. t.base \in F /\ \A x \in F : t.base <= x
  BY <1>1, <1>3, <1>4
<1>7. Least(F) = t.base
  BY <1>4, <1>6, LeastIs
<1>. QED
  BY <1>5, <1>6, <1>7

\* The entry of an object that holds a cross-reference stream.
XEntry == [FreeEntry EXCEPT !.type = "n", !.val = XRefStream]

LEMMA XEntryIs ==
  /\ XEntry \in Entries /\ Tidy(XEntry) /\ XEntry.type = "n" /\ XEntry.val = XRefStream
  /\ XEntry.buf = None /\ XRefStream \in Vals
<1>1. XRefStream \in Vals
  BY DEF Vals
<1>2. FreeEntry \in Entries /\ Tidy(FreeEntry) /\ FreeEntry.buf = None
  BY BlankOK
<1>. QED
  BY <1>1, <1>2, EntryChanged DEF XEntry

\* Table s is t with the object that holds the stream, if there is one.
Wrote(s, t) ==
  /\ TableOK(s) /\ Len(s.sections) = Len(t.sections) /\ s.ninc = t.ninc
  /\ s.base = t.base /\ s.closed = t.closed
  /\ s.startxref = t.startxref /\ s.streams = t.streams
  /\ s.len = IF t.streams THEN t.len + 1 ELSE t.len
  /\ \A i \in 1..Len(t.sections) : s.sections[i].sigs = t.sections[i].sigs
  /\ \A i \in 1..Len(t.sections) : \A n \in Nums :
       ~(t.streams /\ i = t.base /\ n = t.len + 1) => At(s, i, n) = At(t, i, n)
  /\ t.streams => At(s, t.base, t.len + 1) = XEntry

LEMMA WithStream ==
  ASSUME NEW t, TableOK(t), t.closed, t.base <= t.ninc, t.streams => t.len + 1 \in Nums,
         NEW s, s = IF t.streams
                    THEN UpdateObject(CreateObject(t), t.len + 1, XRefStream) ELSE t
  PROVE  /\ Wrote(s, t)
         /\ t.len + 1 \in Nums =>
              \A i \in 1..Len(t.sections) : At(t, i, t.len + 1) = Blank
<1>. DEFINE n == t.len + 1
<1>1. /\ Shaped(t) /\ t.len \in Nat /\ Len(t.sections) \in Nat /\ n > t.len
      /\ t.base \in 1..Len(t.sections) /\ t.streams \in BOOLEAN
  BY ShapedIs DEF TableOK
<1>2. EnsureIncrementalXref(t) = t
  BY DEF EnsureIncrementalXref
<1>3. n \in Nums => \A i \in 1..Len(t.sections) : At(t, i, n) = Blank
  BY <1>1, <1>2, EnsureNotFree
<1>4. CASE ~t.streams
  BY <1>1, <1>3, <1>4 DEF Wrote
<1>5. CASE t.streams
  <2>1. n \in Nums
    BY <1>5
  <2>2. Put(UpdateObject(CreateObject(t), n, XRefStream), EnsureIncrementalXref(t), n,
            [FreeEntry EXCEPT !.type = "n", !.val = XRefStream])
    BY <1>1, <2>1, XEntryIs, NewObjectIs
  <2>. HIDE DEF n
  <2>3. Put(s, t, n, XEntry)
    BY <1>2, <1>5, <2>2 DEF XEntry, n
  <2>4. TableOK(s)
    <3>1. \A j \in t.base + 1..Len(t.sections) : j \in 1..Len(t.sections)
      BY <1>1
    <3>2. \A j \in t.base + 1..Len(t.sections) : At(t, j, n).type # "f"
      BY <1>3, <2>1, <3>1, BlankOK
    <3>. QED
      BY <2>1, <2>3, <3>2, XEntryIs, PutKeeps
  <2>5. ASSUME NEW i \in 1..Len(t.sections), NEW m \in Nums, ~(i = t.base /\ m = n)
        PROVE  At(s, i, m) = At(t, i, m)
    <3>1. CASE m # n
      BY <2>3, <3>1 DEF Put
    <3>2. CASE m = n
      <4>1. At(t, i, m).buf = None
        BY <1>3, <2>1, <3>2, BlankOK
      <4>. QED
        BY <1>1, <2>1, <2>3, <2>5, <4>1, XEntryIs, PutTypes
    <3>. QED
      BY <3>1, <3>2
  <2>6. s.len = n
    <3>1. s.len = Larger(t.len, n)
      BY <2>3 DEF Put
    <3>. QED
      BY <1>1, <3>1 DEF Larger
  <2>7. /\ Len(s.sections) = Len(t.sections) /\ s.ninc = t.ninc
        /\ s.base = t.base /\ s.closed = t.closed
        /\ s.startxref = t.startxref /\ s.streams = t.streams
        /\ At(s, t.base, n) = XEntry
        /\ \A i \in 1..Len(t.sections) : s.sections[i].sigs = t.sections[i].sigs
    BY <2>3 DEF Put
  <2>. QED
    BY <1>3, <1>5, <2>4, <2>5, <2>6, <2>7 DEF Wrote, n
<1>. QED
  BY <1>1, <1>4, <1>5

\* What the writer puts in the file for object n, from the entry e it has in
\* the increment that is being written.
WrittenAs(w, e, n, used) ==
  \/ e.type # "n" /\ w = e
  \/ /\ e.type = "n" /\ n \in used
     /\ w = [type |-> "n", val |-> e.val, buf |-> None, stm |-> Stream(e)]
  \/ e.type = "n" /\ n \notin used /\ w = FreeEntry

LEMMA WrittenIs ==
  ASSUME NEW t, TableOK(t), t.base <= t.ninc, NEW s, Wrote(s, t),
         t.streams => t.len + 1 \in Nums,
         NEW live, \A n \in Nums : n \in live => At(t, Where(t, n), n).type = "n",
         NEW used, used = IF t.streams THEN live \cup {s.len} ELSE live,
         NEW n \in Nums
  PROVE  WrittenAs(Written(s, used)[n], At(s, t.base, n), n, used)
<1>. DEFINE e == At(s, t.base, n)
<1>1. /\ TableOK(s) /\ Shaped(s) /\ Shaped(t) /\ s.base = t.base /\ s.base <= s.ninc
      /\ t.base \in 1..Len(t.sections) /\ t.base \in 1..Len(s.sections)
      /\ Tidy(e) /\ e \in Entries
  <2>1. TableOK(s) /\ s.base = t.base /\ s.ninc = t.ninc /\ Len(s.sections) = Len(t.sections)
    BY DEF Wrote
  <2>2. t.base \in 1..Len(t.sections)
    BY ShapedIs DEF TableOK
  <2>3. Shaped(s) /\ Measured(s)
    BY <2>1 DEF TableOK
  <2>. QED
    BY <2>1, <2>2, <2>3, ShapedIs DEF TableOK, Measured
<1>2. InBase(s, n) <=> e.type # "none"
  <2>1. e.type # "none" => n <= s.sections[s.base].len
    BY <1>1 DEF TableOK, Measured
  <2>. QED
    BY <1>1, <2>1 DEF InBase, At
<1>3. e.type # "none" => s.sections[Where(s, n)].e[n] = e
  <2>1. e.type # "none" => Where(s, n) = s.base
    BY <1>1, WhereInBase
  <2>. QED
    BY <1>1, <2>1 DEF At
<1>4. e.type = "f" => n \notin used
  <2>1. SUFFICES ASSUME e.type = "f", n \in used PROVE FALSE
    OBVIOUS
  <2>2. ~(t.streams /\ n = t.len + 1)
    <3>1. t.streams /\ n = t.len + 1 => e = XEntry
      BY DEF Wrote
    <3>. QED
      BY <2>1, <3>1, XEntryIs
  <2>3. At(t, t.base, n) = e
    BY <1>1, <2>2 DEF Wrote
  <2>4. n \in live
    BY <2>1, <2>2 DEF Wrote
  <2>5. Where(t, n) = t.base
    BY <2>1, <2>3, WhereInBase
  <2>6. At(t, Where(t, n), n).type = "n"
    BY <2>4
  <2>. QED
    BY <2>1, <2>3, <2>5, <2>6
<1>5. Written(s, used)[n] =
        LET d == s.sections[Where(s, n)].e[n]
        IN  IF ~InBase(s, n) THEN Blank
            ELSE IF n \notin used THEN FreeEntry
            ELSE [type |-> "n", val |-> d.val, buf |-> None, stm |-> Stream(d)]
  BY DEF Written
<1>6. e.type \in {"none", "f", "n"}
  BY <1>1 DEF Entries
<1>. HIDE DEF e
<1>7. CASE e.type = "none"
  <2>1. Written(s, used)[n] = e
    BY <1>1, <1>2, <1>5, <1>7 DEF Tidy
  <2>. QED
    BY <1>7, <2>1 DEF WrittenAs, e
<1>8. CASE e.type = "f"
  <2>1. Written(s, used)[n] = e
    BY <1>1, <1>2, <1>4, <1>5, <1>8 DEF Tidy
  <2>. QED
    BY <1>8, <2>1 DEF WrittenAs, e
<1>9. CASE e.type = "n"
  <2>1. Written(s, used)[n] =
          IF n \notin used THEN FreeEntry
          ELSE [type |-> "n", val |-> e.val, buf |-> None, stm |-> Stream(e)]
    BY <1>2, <1>3, <1>5, <1>9
  <2>. QED
    BY <1>9, <2>1 DEF WrittenAs, e
<1>. QED
  BY <1>6, <1>7, <1>8, <1>9

LEMMA WrittenAsIs ==
  ASSUME NEW e \in Entries, Tidy(e), e.type # "n" => e.buf = None,
         NEW w, NEW n, NEW used, WrittenAs(w, e, n, used)
  PROVE  w \in Entries /\ Tidy(w) /\ w.buf = None
<1>1. CASE e.type # "n" /\ w = e
  BY <1>1
<1>2. CASE w = FreeEntry
  BY <1>2, BlankOK
<1>3. CASE e.type = "n" /\ w = [type |-> "n", val |-> e.val, buf |-> None, stm |-> Stream(e)]
  <2>1. e.val \in Vals \cup {None} /\ e.val # None /\ Stream(e) \in Data \cup {None}
    BY <1>3 DEF Entries, Tidy, Stream
  <2>. QED
    BY <1>3, <2>1 DEF Entries, Tidy
<1>. QED
  BY <1>1, <1>2, <1>3 DEF WrittenAs

\* An entry without an object has no buffer.
LEMMA NoBuffer ==
  ASSUME NEW e \in Entries, Tidy(e), e.type # "n"
  PROVE  e.buf = None
BY BlankOK DEF Entries, Tidy

\* With the second increment as the base, an object of the first is found:
\* among the older sections, which have no free entry for it, or, as the
\* oldest one does not reach as far, in the newest.
LEMMA FoundBehind ==
  ASSUME NEW t, TableOK(t), t.base = 2, t.ninc >= 2, NEW n \in Nums,
         At(t, 1, n).type = "n"
  PROVE  At(t, Where(t, n), n).type = "n"
<1>. DEFINE k == Larger(t.index[n], t.base)
            F == Defining(t, k, n)
            L == Len(t.sections)
<1>1. /\ Shaped(t) /\ t.index[n] \in 1..L /\ L \in Nat /\ t.ninc \in Nat
      /\ t.ninc < L /\ 2 \in 1..L /\ L \in 1..L /\ n \in Nat
      /\ \A i \in 1..L : At(t, i, n) \in Entries
  <2>1. Shaped(t) /\ t.ninc < L
    BY DEF TableOK, Shaped
  <2>2. /\ t.index[n] \in 1..L /\ L \in Nat /\ t.ninc \in Nat /\ n \in Nat
        /\ \A i \in 1..L : At(t, i, n) \in Entries
    BY <2>1, ShapedIs DEF Nums
  <2>. QED
    BY <2>1, <2>2
<1>2. k = 2
  <2>1. 1 \notin 1..t.index[n] - 1
    BY DEF TableOK, Indexed
  <2>2. t.index[n] = 1
    BY <1>1, <2>1
  <2>. QED
    BY <2>2 DEF Larger
<1>3. /\ F \in SUBSET Nat
      /\ \A i : i \in F <=> i \in 1..L /\ 2 <= i /\ At(t, i, n).type # "none"
  <2>. HIDE DEF k
  <2>. QED
    BY <1>1, <1>2, DefiningIs
<1>4. Where(t, n) = IF F # {} THEN Least(F)
                    ELSE IF /\ n <= t.sections[L].len
                            /\ n <= t.sections[t.base].len
                         THEN t.base ELSE 1
  BY DEF Where
<1>. HIDE DEF F, k, L
<1>5. CASE F # {}
  <2>. DEFINE j == Least(F)
  <2>1. j \in F
    BY <1>3, <1>5, LeastIn
  <2>. HIDE DEF j
  <2>2. j \in 1..L /\ 2 <= j /\ At(t, j, n).type # "none"
    BY <1>3, <2>1
  <2>3. At(t, j, n).type # "f"
    <3>1. 1 \in 1..j - 1
      BY <1>1, <2>2
    <3>. QED
      BY <2>2, <3>1 DEF TableOK, NotRevived, L
  <2>4. At(t, j, n) \in Entries
    BY <1>1, <2>2
  <2>. QED
    BY <1>4, <1>5, <2>2, <2>3, <2>4 DEF Entries, j
<1>6. CASE F = {}
  <2>1. At(t, L, n).type = "none"
    BY <1>1, <1>3, <1>6
  <2>2. ~(n <= t.sections[L].len)
    BY <2>1 DEF TableOK, Oldest, L
  <2>3. Where(t, n) = 1
    BY <1>4, <1>6, <2>2
  <2>. QED
    BY <2>3
<1>. QED
  BY <1>5, <1>6

\* The file with a section more.
LEMMA AppendOK ==
  ASSUME NEW f, FileOK(f), NEW e \in [Nums -> Entries], NEW st \in BOOLEAN,
         NEW g, g = [e |-> e, prev |-> Len(f), stream |-> st],
         \A n \in Nums : Tidy(e[n]) /\ e[n].buf = None,
         \A n \in Nums : \A j \in 1..Len(f) : f[j].e[n].type = "f" => e[n].type # "n"
  PROVE  /\ FileOK(Append(f, g)) /\ Len(Append(f, g)) = Len(f) + 1
         /\ \A k \in 1..Len(f) : Append(f, g)[k] = f[k]
         /\ Append(f, g)[Len(f) + 1].e = e
<1>. DEFINE h == Append(f, g)
            L == Len(f)
<1>1. /\ f \in Seq(FileSection) /\ f # <<>> /\ L \in Nat /\ L >= 1
      /\ \A k \in 1..L : f[k].prev = k - 1
      /\ \A k \in 1..L : \A n \in Nums : Tidy(f[k].e[n]) /\ f[k].e[n].buf = None
      /\ \A n \in Nums : \A k \in 1..L : \A j \in 1..k - 1 :
           f[j].e[n].type = "f" => f[k].e[n].type # "n"
      /\ \A n, m \in Nums : m <= n /\ f[1].e[n].type # "none" => f[1].e[m].type # "none"
  <2>1. f \in Seq(FileSection) /\ f # <<>>
    BY DEF FileOK
  <2>2. L \in Nat /\ L >= 1
    BY <2>1
  <2>. QED
    BY <2>1, <2>2 DEF FileOK
<1>2. g \in FileSection /\ g.e = e /\ g.prev = L
  <2>1. L \in Nat
    BY <1>1
  <2>. QED
    BY <2>1 DEF FileSection
<1>. HIDE DEF L
<1>3. /\ h \in Seq(FileSection) /\ Len(h) = L + 1 /\ h # <<>>
      /\ \A k \in 1..L : h[k] = f[k]
      /\ h[L + 1] = g
  <2>1. Len(f) = L
    BY DEF L
  <2>2. f \in Seq(FileSection) /\ g \in FileSection
    BY <1>1, <1>2
  <2>3. /\ h \in Seq(FileSection) /\ Len(h) = Len(f) + 1
        /\ \A k \in 1..Len(f) : h[k] = f[k]
        /\ h[Len(f) + 1] = g
    BY <2>2
  <2>4. h # <<>>
    BY <1>1, <2>1, <2>3
  <2>. QED
    BY <2>1, <2>3, <2>4
<1>. HIDE DEF h
<1>4. \A k \in 1..L + 1 : k \in 1..L \/ k = L + 1
  BY <1>1
<1>5. \A k \in 1..Len(h) : h[k].prev = k - 1
  <2>1. (L + 1) - 1 = L
    BY <1>1
  <2>. QED
    BY <1>1, <1>2, <1>3, <1>4, <2>1
<1>6. \A k \in 1..Len(h) : \A n \in Nums : Tidy(h[k].e[n]) /\ h[k].e[n].buf = None
  BY <1>1, <1>2, <1>3, <1>4
<1>7. ASSUME NEW n \in Nums, NEW k \in 1..Len(h), NEW j \in 1..k - 1, h[j].e[n].type = "f"
      PROVE  h[k].e[n].type # "n"
  <2>1. j \in 1..L
    BY <1>1, <1>3
  <2>2. f[j].e[n].type = "f"
    BY <1>3, <1>7, <2>1
  <2>3. CASE k \in 1..L
    BY <1>1, <1>3, <2>2, <2>3
  <2>4. CASE k = L + 1
    BY <1>2, <1>3, <2>1, <2>2, <2>4 DEF L
  <2>. QED
    BY <1>3, <1>4, <2>3, <2>4
<1>8. \A n, m \in Nums : m <= n /\ h[1].e[n].type # "none" => h[1].e[m].type # "none"
  <2>1. h[1] = f[1]
    BY <1>1, <1>3
  <2>. QED
    BY <1>1, <2>1
<1>9. FileOK(h)
  BY <1>3, <1>5, <1>6, <1>7, <1>8 DEF FileOK
<1>. QED
  BY <1>2, <1>3, <1>9 DEF h, L

\* The table t with the increment todo as its base, the objects live, the table
\* s with the object of the stream, and the objects used, when it is written.
Taken(t, live, s, used) ==
  /\ t = LookAll([table EXCEPT !.base = todo])
  /\ live \in SUBSET use
  /\ \A n \in use : n \in live <=> At(t, Where(t, n), n).type = "n"
  /\ s = IF t.streams THEN UpdateObject(CreateObject(t), t.len + 1, XRefStream) ELSE t
  /\ used = IF t.streams THEN live \cup {s.len} ELSE live

TakenIs(t, s, used) ==
  /\ TableOK(t) /\ t.base = todo /\ todo \in 1..table.ninc /\ todo # 0
  /\ t.ninc = table.ninc /\ t.len = table.len /\ t.startxref = Len(out)
  /\ t.streams = table.streams /\ t.closed /\ table.ninc \in Nat
  /\ t.sections = table.sections
  /\ Len(t.sections) = Len(table.sections) /\ table.ninc < Len(table.sections)
  /\ \A i : \A n : At(t, i, n) = At(table, i, n)
  /\ Wrote(s, t) /\ TableOK(s)
  /\ \A i \in 1..Len(table.sections) : \A n \in Nums :
       ~(table.streams /\ i = todo /\ n = table.len + 1) => At(s, i, n) = At(table, i, n)
  /\ table.streams => table.len + 1 \in Nums /\ At(s, todo, table.len + 1) = XEntry
  /\ table.len + 1 \in Nums =>
       \A i \in 1..Len(table.sections) : At(table, i, table.len + 1) = Blank
  /\ \A n \in Nums : WrittenAs(Written(s, used)[n], At(s, todo, n), n, used)
  /\ used \subseteq 1..s.len
  /\ \A n \in Nums : n \in used => n \in use \/ (table.streams /\ n = table.len + 1)
  /\ \A n \in Nums : n \in use /\ At(table, todo, n).type = "n" => n \in used

LEMMA IncrementFacts ==
  ASSUME IInv, out # <<>>, todo > 0,
         NEW t, NEW live, NEW s, NEW used, Taken(t, live, s, used)
  PROVE  TakenIs(t, s, used)
<1>. DEFINE t0 == [table EXCEPT !.base = todo]
<1>0. /\ t = LookAll(t0)
      /\ live \in SUBSET use
      /\ \A n \in use : n \in live <=> At(t, Where(t, n), n).type = "n"
      /\ s = IF t.streams THEN UpdateObject(CreateObject(t), t.len + 1, XRefStream) ELSE t
      /\ used = IF t.streams THEN live \cup {s.len} ELSE live
  BY DEF Taken
<1>1. /\ TableOK(table) /\ Writing /\ Typed
  BY DEF IInv
<1>2. /\ Shaped(table) /\ table \in Tables /\ table.ninc \in Nat /\ Len(table.sections) \in Nat
      /\ table.ninc < Len(table.sections) /\ todo \in 1..table.ninc /\ todo \in Nat /\ todo # 0
      /\ todo \in 1..Len(table.sections) /\ table.len \in Nat /\ MaxNum \in Nat
  <2>1. Shaped(table) /\ todo \in 0..table.ninc
    BY <1>1 DEF TableOK, Typed
  <2>2. /\ table.ninc \in Nat /\ Len(table.sections) \in Nat /\ table.len \in Nat /\ MaxNum \in Nat
        /\ table \in Tables /\ table.ninc < Len(table.sections)
    BY <2>1, ShapedIs DEF Shaped
  <2>. QED
    BY <2>1, <2>2
<1>3. table.closed
  BY <1>1, <1>2 DEF Writing
<1>4. /\ t0 \in Tables /\ t0.sections = table.sections /\ t0.ninc = table.ninc
      /\ t0.base = todo /\ t0.index = table.index /\ t0.len = table.len
      /\ t0.closed = table.closed /\ t0.startxref = table.startxref
      /\ t0.streams = table.streams
  BY <1>2, FieldSet
<1>. HIDE DEF t0
<1>5. TableOK(t0)
  BY <1>1, <1>2, <1>4, FieldsKeep
<1>6. TableOK(t) /\ Reindexed(t, t0)
  BY <1>0, <1>5, LookAllKeeps
<1>7. /\ t.sections = table.sections /\ t.base = todo /\ t.ninc = table.ninc
      /\ t.len = table.len /\ t.closed /\ t.streams = table.streams
      /\ t.startxref = Len(out)
  BY <1>1, <1>3, <1>4, <1>6 DEF Reindexed, Writing
<1>8. \A i : \A n : At(t, i, n) = At(table, i, n)
  BY <1>7 DEF At
<1>9. table.streams => table.len + 1 \in Nums
  <2>1. table.streams => table.len + todo <= MaxNum
    BY <1>1 DEF Writing
  <2>. QED
    BY <1>2, <2>1 DEF Nums
<1>10. t.base <= t.ninc
  BY <1>2, <1>7
<1>11. Wrote(s, t) /\ (t.len + 1 \in Nums =>
                         \A i \in 1..Len(t.sections) : At(t, i, t.len + 1) = Blank)
  BY <1>0, <1>6, <1>7, <1>9, <1>10, WithStream
<1>12. /\ TableOK(s) /\ s.len = IF table.streams THEN table.len + 1 ELSE table.len
       /\ \A i \in 1..Len(table.sections) : \A n \in Nums :
            ~(table.streams /\ i = todo /\ n = table.len + 1) => At(s, i, n) = At(table, i, n)
       /\ table.streams => At(s, todo, table.len + 1) = XEntry
  BY <1>7, <1>8, <1>11 DEF Wrote
<1>13. \A n \in Nums : n \in live <=> n \in use /\ At(t, Where(t, n), n).type = "n"
  BY <1>0
<1>14. \A n \in Nums : WrittenAs(Written(s, used)[n], At(s, todo, n), n, used)
  <2>1. t.streams => t.len + 1 \in Nums
    BY <1>7, <1>9
  <2>2. \A n \in Nums : WrittenAs(Written(s, used)[n], At(s, t.base, n), n, used)
    BY <1>6, <1>10, <1>11, <1>13, <2>1, <1>0, WrittenIs
  <2>. QED
    BY <1>7, <2>2
<1>15. live \subseteq use /\ use \subseteq 1..table.len
  BY <1>0, <1>1 DEF Typed
<1>16. used \subseteq 1..s.len
  <2>1. CASE table.streams
    <3>1. s.len = table.len + 1 /\ used = live \cup {table.len + 1}
      BY <1>0, <1>7, <1>12, <2>1
    <3>2. live \subseteq 1..table.len + 1 /\ table.len + 1 \in 1..table.len + 1
      BY <1>2, <1>15
    <3>. QED
      BY <3>1, <3>2
  <2>2. CASE ~table.streams
    BY <1>0, <1>7, <1>12, <1>15, <2>2
  <2>. QED
    BY <2>1, <2>2
<1>17. \A n \in Nums : n \in used => n \in use \/ (table.streams /\ n = table.len + 1)
  BY <1>0, <1>7, <1>12, <1>15
<1>18. ASSUME NEW n \in Nums, n \in use, At(table, todo, n).type = "n"
       PROVE  n \in used
  <2>1. Where(t, n) = todo
    BY <1>6, <1>7, <1>8, <1>10, <1>18, WhereInBase
  <2>2. n \in live
    BY <1>8, <1>13, <1>18, <2>1
  <2>. QED
    BY <1>0, <1>7, <2>2
<1>19. table.len + 1 \in Nums =>
         \A i \in 1..Len(table.sections) : At(table, i, table.len + 1) = Blank
  BY <1>7, <1>8, <1>11
<1>. QED
  BY <1>2, <1>6, <1>7, <1>8, <1>9, <1>11, <1>12, <1>14, <1>16, <1>17, <1>18, <1>19
     DEF TakenIs

LEMMA CopiedIs ==
  ASSUME NEW w, NEW e, NEW n, NEW used, WrittenAs(w, e, n, used),
         MaxIncrements <= 2 /\ e.type = "n" => n \in used
  PROVE  Copied(w, e, n, used)
<1>1. MaxIncrements <= 2 \/ MaxIncrements > 2
  BY XrefAssumption
<1>. QED
  BY <1>1 DEF WrittenAs, Copied

LEMMA WriteStep ==
  ASSUME IInv, WriteIncrement
  PROVE  IInv'
<1>. DEFINE t == LookAll([table EXCEPT !.base = todo])
            live == {n \in use : t.sections[Where(t, n)].e[n].type = "n"}
            s == IF t.streams
                 THEN UpdateObject(CreateObject(t), t.len + 1, XRefStream) ELSE t
            used == IF t.streams THEN live \cup {s.len} ELSE live
            E == Written(s, used)
            g == [e |-> E, prev |-> t.startxref, stream |-> t.streams]
            z == [s EXCEPT !.startxref = Len(out) + 1]
            L == Len(file)
            O == Len(out)
            new == table.len + 1
<1>1. /\ out # <<>> /\ todo > 0 /\ out' = Append(out, g) /\ use' = used /\ table' = z
      /\ todo' = todo - 1 /\ file' = file /\ saves' = saves /\ failures' = failures
      /\ edits' = edits /\ trust' = trust /\ written' = written
  BY DEF WriteIncrement
<1>0. /\ Taken(t, live, s, used)
      /\ \A n \in use : n \in live <=> At(t, Where(t, n), n).type = "n"
      /\ used = IF t.streams THEN live \cup {s.len} ELSE live
  BY DEF At, Taken
<1>. HIDE DEF t, live, s, used
<1>2. /\ TableOK(t) /\ t.base = todo /\ todo \in 1..table.ninc /\ todo # 0
      /\ t.ninc = table.ninc /\ t.len = table.len /\ t.startxref = O
      /\ t.streams = table.streams /\ t.closed /\ table.ninc \in Nat
      /\ Len(t.sections) = Len(table.sections) /\ table.ninc < Len(table.sections)
      /\ \A i : \A n : At(t, i, n) = At(table, i, n)
      /\ Wrote(s, t) /\ TableOK(s)
      /\ \A i \in 1..Len(table.sections) : \A n \in Nums :
           ~(table.streams /\ i = todo /\ n = new) => At(s, i, n) = At(table, i, n)
      /\ table.streams => new \in Nums /\ At(s, todo, new) = XEntry
      /\ new \in Nums => \A i \in 1..Len(table.sections) : At(table, i, new) = Blank
      /\ \A n \in Nums : WrittenAs(E[n], At(s, todo, n), n, used)
      /\ used \subseteq 1..s.len
      /\ \A n \in Nums : n \in used => n \in use \/ (table.streams /\ n = new)
      /\ \A n \in Nums : n \in use /\ At(table, todo, n).type = "n" => n \in used
  <2>1. TakenIs(t, s, used)
    BY <1>0, <1>1, IncrementFacts
  <2>. QED
    BY <2>1 DEF TakenIs
<1>3. table.streams => new \in used
  BY <1>0, <1>2 DEF Wrote
<1>4. E = [n \in Nums |-> E[n]]
  BY DEF Written
<1>. HIDE DEF E
<1>6. /\ TableOK(table) /\ Writing /\ Typed /\ Loaded(table, file) /\ Found /\ OutOK
      /\ FileOK(file) /\ FileOK(out) /\ Shaped(table) /\ Shaped(s) /\ L \in Nat /\ O \in Nat
      /\ O = L + table.ninc - todo /\ \A k \in 1..L : out[k] = file[k]
      /\ table.len \in Nat /\ Len(table.sections) \in Nat
  <2>1. /\ TableOK(table) /\ Writing /\ Typed /\ Loaded(table, file) /\ Found /\ FileOK(file)
    BY <1>1 DEF IInv
  <2>2. OutOK /\ Shaped(table) /\ Shaped(s) /\ FileOK(out)
    BY <1>2, <2>1 DEF Writing, OutOK, TableOK
  <2>3. L \in Nat /\ O \in Nat
    BY <2>1, <2>2 DEF FileOK
  <2>4. table.len \in Nat /\ Len(table.sections) \in Nat
    BY <2>2, ShapedIs
  <2>. QED
    BY <2>1, <2>2, <2>3, <2>4 DEF OutOK
<1>. HIDE DEF L, O
<1>7. /\ Len(s.sections) = Len(table.sections) /\ s.ninc = table.ninc /\ s.base = todo
      /\ s.closed /\ s.streams = table.streams /\ s \in Tables
      /\ s.len = IF table.streams THEN new ELSE table.len
  BY <1>2, <1>6 DEF Wrote, Shaped
<1>. HIDE DEF new
<1>8. /\ z \in Tables /\ z.sections = s.sections /\ z.ninc = s.ninc /\ z.base = s.base
      /\ z.index = s.index /\ z.len = s.len /\ z.closed = s.closed
      /\ z.startxref = O + 1 /\ z.streams = s.streams
  <2>1. Len(out) + 1 \in Nat /\ Len(out) + 1 = O + 1
    BY <1>6 DEF O
  <2>2. /\ z \in Tables /\ z.sections = s.sections /\ z.ninc = s.ninc
        /\ z.base = s.base /\ z.index = s.index /\ z.len = s.len
        /\ z.closed = s.closed /\ z.startxref = Len(out) + 1 /\ z.streams = s.streams
    BY <1>7, <2>1 DEF Tables
  <2>. QED
    BY <2>1, <2>2
<1>. HIDE DEF z
<1>9. TableOK(z) /\ \A i : \A n : At(z, i, n) = At(s, i, n)
  <2>1. z.base \in 1..Len(s.sections)
    BY <1>6, <1>8, ShapedIs
  <2>2. TableOK(z)
    BY <1>2, <1>8, <2>1, FieldsKeep
  <2>. QED
    BY <1>8, <2>2 DEF At
<1>10. \A n \in Nums : At(s, todo, n) \in Entries /\ Tidy(At(s, todo, n))
  <2>1. todo \in 1..Len(s.sections)
    BY <1>2, <1>6, <1>7
  <2>. QED
    BY <1>2, <1>6, <2>1, ShapedIs DEF TableOK, Measured
<1>11. E \in [Nums -> Entries] /\ \A n \in Nums : Tidy(E[n]) /\ E[n].buf = None
  <2>1. \A n \in Nums : E[n] \in Entries /\ Tidy(E[n]) /\ E[n].buf = None
    BY <1>2, <1>10, NoBuffer, WrittenAsIs
  <2>. QED
    BY <1>4, <2>1
<1>12. ASSUME NEW n \in Nums, NEW j \in 1..O, out[j].e[n].type = "f"
       PROVE  E[n].type # "n"
  <2>1. SUFFICES ASSUME E[n].type = "n" PROVE FALSE
    OBVIOUS
  <2>2. At(s, todo, n).type = "n" /\ n \in used
    <3>1. WrittenAs(E[n], At(s, todo, n), n, used)
      BY <1>2
    <3>2. E[n] # FreeEntry
      BY <2>1, BlankOK
    <3>. QED
      BY <2>1, <3>1, <3>2 DEF WrittenAs
  <2>3. ASSUME NEW i \in todo + 1..Len(table.sections), At(table, i, n).type = "f"
        PROVE  FALSE
    <3>1. i \in 1..Len(table.sections) /\ i # todo /\ todo \in 1..i - 1
      BY <1>2, <1>6
    <3>2. At(s, i, n).type = "f"
      BY <1>2, <2>3, <3>1
    <3>. QED
      BY <1>2, <1>7, <2>2, <3>1, <3>2 DEF TableOK, NotRevived
  <2>4. CASE j \in 1..L
    <3>. DEFINE k == L + 1 - j
    <3>1. k \in 1..L /\ L + 1 - k = j /\ Len(table.sections) = table.ninc + L
      BY <1>6, <2>4 DEF Loaded, L
    <3>2. At(table, table.ninc + k, n) = file[L + 1 - k].e[n]
      BY <1>6, <3>1 DEF Loaded, L
    <3>3. At(table, table.ninc + k, n).type = "f"
      BY <1>6, <1>12, <2>4, <3>1, <3>2
    <3>4. table.ninc + k \in todo + 1..Len(table.sections)
      BY <1>2, <1>6, <3>1
    <3>. QED
      BY <2>3, <3>3, <3>4
  <2>5. CASE j \notin 1..L
    <3>. DEFINE k == L + table.ninc + 1 - j
    <3>1. k \in todo + 1..table.ninc /\ L + table.ninc + 1 - k = j
      BY <1>2, <1>6, <2>5
    <3>2. Copied(out[L + table.ninc + 1 - k].e[n], At(table, k, n), n, use)
      BY <1>6, <3>1 DEF OutOK, L
    <3>3. Copied(out[j].e[n], At(table, k, n), n, use)
      BY <3>1, <3>2
    <3>4. k \in todo + 1..Len(table.sections) /\ k \in 1..Len(table.sections)
      BY <1>2, <1>6, <3>1
    <3>5. At(table, k, n).type # "f"
      BY <2>3, <3>4
    <3>6. At(table, k, n).type = "n" /\ n \notin use
      BY <1>12, <3>3, <3>5 DEF Copied
    <3>7. n # new
      BY <1>2, <3>4, <3>6, BlankOK
    <3>. QED
      BY <1>2, <2>2, <3>6, <3>7
  <2>. QED
    BY <2>4, <2>5
<1>13. /\ FileOK(out') /\ Len(out') = O + 1 /\ \A k \in 1..O : out'[k] = out[k]
       /\ out'[O + 1].e = E
  <2>1. g = [e |-> E, prev |-> Len(out), stream |-> t.streams]
    BY <1>2 DEF O
  <2>2. t.streams \in BOOLEAN
    BY <1>2, ShapedIs DEF TableOK
  <2>3. \A n \in Nums : \A j \in 1..Len(out) : out[j].e[n].type = "f" => E[n].type # "n"
    BY <1>12 DEF O
  <2>. HIDE DEF g
  <2>4. /\ FileOK(Append(out, g)) /\ Len(Append(out, g)) = Len(out) + 1
         /\ \A k \in 1..Len(out) : Append(out, g)[k] = out[k]
         /\ Append(out, g)[Len(out) + 1].e = E
    BY <1>6, <1>11, <2>1, <2>2, <2>3, AppendOK
  <2>. QED
    BY <1>1, <2>4 DEF O
<1>. HIDE DEF g
<1>14. ASSUME NEW n \in Nums
       PROVE  Copied(E[n], At(s, todo, n), n, used)
  <2>1. ASSUME MaxIncrements <= 2, At(s, todo, n).type = "n"
        PROVE  n \in used
    <3>1. CASE table.streams /\ n = new
      BY <1>3, <3>1
    <3>2. CASE ~(table.streams /\ n = new)
      <4>1. todo \in 1..Len(table.sections) /\ todo \in 1..todo
        BY <1>2, <1>6
      <4>2. At(table, todo, n).type = "n"
        BY <1>2, <2>1, <3>2, <4>1
      <4>3. n \in use
        BY <1>6, <2>1, <4>1, <4>2 DEF Writing
      <4>. QED
        BY <1>2, <4>2, <4>3
    <3>. QED
      BY <3>1, <3>2
  <2>. QED
    BY <1>2, <2>1, CopiedIs
<1>15. OutOK'
  <2>1. Len(out') = L + z.ninc - (todo - 1)
    BY <1>2, <1>6, <1>7, <1>8, <1>13
  <2>2. \A k \in 1..L : out'[k] = file[k]
    <3>1. \A k \in 1..L : k \in 1..O
      BY <1>2, <1>6
    <3>. QED
      BY <1>6, <1>13, <3>1
  <2>3. ASSUME NEW k \in todo..table.ninc, NEW n \in Nums
        PROVE  Copied(out'[L + table.ninc + 1 - k].e[n], At(z, k, n), n, used)
    <3>1. CASE k = todo
      <4>1. L + table.ninc + 1 - k = O + 1
        BY <1>2, <1>6, <3>1
      <4>. QED
        BY <1>9, <1>13, <1>14, <3>1, <4>1
    <3>2. CASE k # todo
      <4>1. /\ k \in todo + 1..table.ninc /\ L + table.ninc + 1 - k \in 1..O
            /\ k \in 1..Len(table.sections)
        BY <1>2, <1>6, <3>2
      <4>2. Copied(out[L + table.ninc + 1 - k].e[n], At(table, k, n), n, use)
        BY <1>6, <4>1 DEF OutOK, L
      <4>3. At(z, k, n) = At(table, k, n)
        BY <1>2, <1>9, <3>2, <4>1
      <4>4. At(table, k, n).type = "n" /\ n \notin use => n \notin used
        BY <1>2, <4>1, BlankOK
      <4>5. Copied(out[L + table.ninc + 1 - k].e[n], At(table, k, n), n, used)
        BY <4>2, <4>4 DEF Copied
      <4>. QED
        BY <1>13, <4>1, <4>3, <4>5
    <3>. QED
      BY <3>1, <3>2
  <2>4. (todo - 1) + 1 = todo
    BY <1>2
  <2>. QED
    BY <1>1, <1>7, <1>8, <1>13, <2>1, <2>2, <2>3, <2>4 DEF OutOK, L
<1>16. \A n \in Nums : Held(Latest(z.sections, n)) = Held(Latest(table.sections, n))
  <2>1. SUFFICES ASSUME NEW n \in Nums
                 PROVE  Held(Latest(s.sections, n)) = Held(Latest(table.sections, n))
    BY <1>8
  <2>2. CASE table.streams /\ n = new
    <3>1. Latest(table.sections, n) = Blank
      BY <1>2, <1>6, <2>2, BlankOK, LatestIs
    <3>2. Latest(s.sections, n) = XEntry
      <4>1. At(s, todo, n) = XEntry /\ todo \in 1..Len(s.sections)
        BY <1>2, <1>6, <1>7, <2>2
      <4>2. ASSUME NEW j \in 1..todo - 1
            PROVE  At(s, j, n).type = "none"
        <5>1. j \in 1..Len(table.sections) /\ j # todo
          BY <1>2, <1>6
        <5>. QED
          BY <1>2, <2>2, <5>1, BlankOK
      <4>. QED
        BY <1>6, <4>1, <4>2, XEntryIs, LatestIs
    <3>3. Held(Blank) = None /\ Held(XEntry) = None
      BY BlankOK, XEntryIs DEF Held, Known
    <3>. QED
      BY <3>1, <3>2, <3>3
  <2>3. CASE ~(table.streams /\ n = new)
    <3>1. \A i \in 1..Len(table.sections) : At(s, i, n) = At(table, i, n)
      BY <1>2, <2>3
    <3>2. Latest(s.sections, n) = Latest(table.sections, n)
      BY <1>6, <1>7, <3>1, SameLatest
    <3>. QED
      BY <3>2
  <2>. QED
    BY <2>2, <2>3
<1>17. Found'
  BY <1>1, <1>6, <1>16 DEF Found
<1>18. Loaded(z, file)
  <2>1. ASSUME NEW k \in 1..L, NEW n \in Nums
        PROVE  At(z, z.ninc + k, n) = file[L + 1 - k].e[n]
    <3>1. /\ table.ninc + k \in 1..Len(table.sections) /\ table.ninc + k # todo
      BY <1>2, <1>6 DEF Loaded, L
    <3>2. At(z, z.ninc + k, n) = At(table, table.ninc + k, n)
      BY <1>2, <1>7, <1>8, <1>9, <3>1
    <3>. QED
      BY <1>6, <3>2 DEF Loaded, L
  <2>2. Len(z.sections) = z.ninc + L
    BY <1>6, <1>7, <1>8 DEF Loaded, L
  <2>. QED
    BY <2>1, <2>2 DEF Loaded, L
<1>19. Typed'
  <2>1. /\ table.ninc <= MaxIncrements /\ trust \in BOOLEAN
        /\ saves \in 0..MaxSaves /\ failures \in 0..MaxFailures /\ edits \in 0..MaxEdits
        /\ written \in [Nums -> {None} \cup [val : Vals, stm : Data \cup {None}]]
    BY <1>6 DEF Typed
  <2>2. todo - 1 \in 0..z.ninc /\ used \subseteq 1..z.len
    BY <1>2, <1>7, <1>8
  <2>. QED
    BY <1>1, <1>7, <1>8, <2>1, <2>2 DEF Typed
<1>20. Writing'
  <2>1. table.streams => table.len + todo <= MaxNum
    BY <1>6 DEF Writing
  <2>2. z.streams => z.len + (todo - 1) <= MaxNum
    <3>1. z.streams => z.len = table.len + 1 /\ table.len + todo <= MaxNum
      BY <1>7, <1>8, <2>1 DEF new
    <3>. QED
      BY <1>2, <1>6, <3>1, XrefAssumption
  <2>3. ASSUME MaxIncrements <= 2, NEW i \in 1..todo - 1, NEW n \in Nums,
               At(z, i, n).type = "n"
        PROVE  n \in used
    <3>1. todo = 2 /\ i = 1 /\ table.ninc = 2
      <4>1. table.ninc <= 2
        BY <1>2, <1>6, <2>3, XrefAssumption DEF Typed
      <4>. QED
        BY <1>2, <2>3, <4>1
    <3>2. i \in 1..Len(table.sections) /\ i # todo /\ i \in 1..todo
      BY <1>2, <1>6, <3>1
    <3>3. At(table, i, n).type = "n" /\ At(t, 1, n).type = "n"
      BY <1>2, <1>9, <2>3, <3>1, <3>2
    <3>4. n \in use
      BY <1>6, <2>3, <3>2, <3>3 DEF Writing
    <3>5. At(t, Where(t, n), n).type = "n"
      BY <1>2, <3>1, <3>3, FoundBehind
    <3>6. n \in live
      BY <1>0, <3>4, <3>5
    <3>. QED
      BY <1>0, <3>6
  <2>4. trust /\ saves < MaxSaves
    BY <1>6 DEF Writing
  <2>5. z.startxref = Len(out') /\ z.closed
    BY <1>7, <1>8, <1>13
  <2>. QED
    BY <1>1, <1>15, <2>2, <2>3, <2>4, <2>5 DEF Writing
<1>21. out' # <<>>
  BY <1>6, <1>13 DEF FileOK
<1>. QED
  BY <1>1, <1>6, <1>9, <1>17, <1>18, <1>19, <1>20, <1>21 DEF IInv

-----------------------------------------------------------------------------
(* What the objects hold.                                                  *)

Holdings == {None} \cup [val : Vals, stm : Data \cup {None}]

LEMMA HeldIs ==
  ASSUME NEW e \in Entries, Tidy(e)
  PROVE  /\ Held(e) \in Holdings
         /\ e.type # "n" => Held(e) = None
         /\ e.type = "n" /\ e.val # XRefStream =>
              Held(e) = [val |-> e.val, stm |-> Stream(e)] /\ Held(e) # None
<1>1. e.type = "n" => [val |-> e.val, stm |-> Stream(e)] \in [val : Vals, stm : Data \cup {None}]
  BY DEF Entries, Tidy, Stream
<1>2. None \notin [val : Vals, stm : Data \cup {None}]
  BY XrefAssumption
<1>. QED
  BY <1>1, <1>2 DEF Held, Known, Holdings

LEMMA LatestIn ==
  ASSUME NEW t, TableOK(t), NEW n \in Nums
  PROVE  Latest(t.sections, n) \in Entries /\ Tidy(Latest(t.sections, n))
<1>1. Shaped(t)
  BY DEF TableOK
<1>2. \A i \in 1..Len(t.sections) : At(t, i, n) \in Entries /\ Tidy(At(t, i, n))
  BY <1>1, ShapedIs DEF TableOK, Measured
<1>3. CASE \A i \in 1..Len(t.sections) : At(t, i, n).type = "none"
  BY <1>1, <1>3, LatestIs, BlankOK
<1>4. CASE \E i \in 1..Len(t.sections) : /\ At(t, i, n).type # "none"
                                         /\ \A j \in 1..i - 1 : At(t, j, n).type = "none"
  BY <1>1, <1>2, <1>4, LatestIs
<1>. QED
  BY <1>1, <1>3, <1>4, FirstEntry

LEMMA NewestLatest ==
  ASSUME NEW t, TableOK(t), NEW n \in Nums, NEW i, Newest(t, n, i)
  PROVE  Latest(t.sections, n) = At(t, i, n)
BY LatestIs DEF TableOK, Newest

-----------------------------------------------------------------------------
(* The steps keep the invariant.                                           *)

\* The part of the invariant that is not about the table.
LEMMA EditKeeps ==
  ASSUME IInv, Ready, NEW u, Follows(u, table), u.ninc <= MaxIncrements
  PROVE  /\ TableOK(u) /\ Loaded(u, file) /\ u.base = 1 /\ u.startxref = Len(file)
         /\ todo = 0 /\ use = {} /\ 0 \in 0..u.ninc
<1>1. /\ TableOK(table) /\ FileOK(file) /\ Loaded(table, file) /\ Idle /\ trust /\ out = <<>>
  BY DEF IInv, Ready
<1>2. /\ TableOK(u) /\ u.base = 1 /\ u.startxref = table.startxref
      /\ Len(u.sections) - u.ninc = Len(table.sections) - table.ninc
      /\ todo = 0 /\ use = {} /\ table.startxref = Len(file)
  BY <1>1 DEF Follows, Idle
<1>3. /\ u.ninc \in Nat /\ Len(u.sections) \in Nat /\ table.ninc \in Nat
      /\ Len(table.sections) \in Nat /\ Len(file) \in Nat
  <2>1. Shaped(u) /\ Shaped(table) /\ file \in Seq(FileSection)
    BY <1>1, <1>2 DEF TableOK, FileOK
  <2>. QED
    BY <2>1, ShapedIs
<1>4. Len(table.sections) - table.ninc = Len(file)
  BY <1>1, <1>3 DEF Loaded
<1>5. ASSUME NEW k \in 1..Len(file), NEW n \in Nums
      PROVE  At(u, u.ninc + k, n) = file[Len(file) + 1 - k].e[n]
  <2>1. At(table, table.ninc + k, n) = file[Len(file) + 1 - k].e[n]
    BY <1>1 DEF Loaded
  <2>2. Len(file) + 1 - k \in 1..Len(file)
    BY <1>3
  <2>3. At(table, table.ninc + k, n).buf = None
    BY <1>1, <2>1, <2>2 DEF FileOK
  <2>4. At(u, u.ninc + k, n) = At(table, table.ninc + k, n)
    BY <1>4, <2>3 DEF Follows
  <2>. QED
    BY <2>1, <2>4
<1>6. Loaded(u, file)
  <2>1. Len(u.sections) = u.ninc + Len(file)
    BY <1>2, <1>3, <1>4
  <2>. QED
    BY <1>5, <2>1 DEF Loaded
<1>. QED
  BY <1>2, <1>3, <1>6

\* An edit that leaves the objects in accordance with what they were set to.
LEMMA EditStep ==
  ASSUME IInv, Ready, Follows(table', table), table'.ninc <= MaxIncrements,
         UNCHANGED <<file, out, todo, use, saves, failures>>,
         edits' \in 0..MaxEdits, trust' \in BOOLEAN,
         written' \in [Nums -> Holdings],
         \A n \in Nums :
           \/ Held(Latest(table'.sections, n)) = written'[n]
           \/ MaxIncrements > 2 /\ Held(Latest(table'.sections, n)) = None
  PROVE  IInv'
<1>1. /\ TableOK(table') /\ Loaded(table', file) /\ table'.base = 1
      /\ table'.startxref = Len(file) /\ todo = 0 /\ use = {} /\ 0 \in 0..table'.ninc
  BY EditKeeps
<1>2. FileOK(file) /\ Typed /\ out = <<>>
  BY DEF IInv, Ready
<1>3. Typed'
  BY <1>1, <1>2 DEF Typed, Holdings
<1>4. Idle'
  BY <1>1 DEF Idle
<1>5. Found'
  BY DEF Found
<1>. QED
  BY <1>1, <1>2, <1>3, <1>4, <1>5 DEF IInv

\* What is known of an object that is edited.
LEMMA UsableHas ==
  ASSUME IInv, Ready, NEW n \in Nums, Usable(n)
  PROVE  \E i : /\ Newest(table, n, i) /\ At(table, i, n) = Entry(n)
                /\ Entry(n) \in Entries /\ Tidy(Entry(n))
                /\ Entry(n).type = "n" /\ Entry(n).val # XRefStream
                /\ written[n] = [val |-> Entry(n).val, stm |-> Stream(Entry(n))]
<1>1. TableOK(table) /\ Shaped(table) /\ Indexed(table) /\ table.base = 1 /\ Found /\ trust
  BY DEF IInv, Ready, Idle, TableOK
<1>2. /\ ~Deleted(table, n) /\ At(table, Where(table, n), n).type = "n"
      /\ Entry(n).type = "n" /\ Entry(n).val # XRefStream
      /\ Entry(n) = At(table, Where(table, n), n)
  BY DEF Usable, Entry, At
<1>3. PICK i \in 1..Len(table.sections) : Newest(table, n, i) /\ Where(table, n) = i
  BY <1>1, <1>2, UsableIs
<1>4. Entry(n) = At(table, i, n) /\ Latest(table.sections, n) = Entry(n)
  BY <1>1, <1>2, <1>3, NewestLatest
<1>5. Entry(n) \in Entries /\ Tidy(Entry(n))
  BY <1>1, <1>4, LatestIn
<1>6. Held(Entry(n)) = [val |-> Entry(n).val, stm |-> Stream(Entry(n))] /\ Held(Entry(n)) # None
  BY <1>2, <1>5, HeldIs
<1>7. written[n] = Held(Entry(n))
  BY <1>1, <1>4, <1>6 DEF Found
<1>. QED
  BY <1>2, <1>3, <1>4, <1>5, <1>6, <1>7

LEMMA RoomKeeps ==
  ASSUME IInv, NEW k \in {0, 1}, EditRoom(k)
  PROVE  /\ edits' \in 0..MaxEdits /\ table.len + k <= MaxNum
         /\ k = 1 => table.len + 1 \in Nums
<1>1. edits \in 0..MaxEdits /\ TableOK(table)
  BY DEF IInv, Typed
<1>2. table.len \in 0..MaxNum /\ MaxNum \in Nat /\ MaxEdits \in Nat
  BY <1>1, ShapedIs, XrefAssumption DEF TableOK
<1>. QED
  BY <1>1, <1>2 DEF EditRoom, Nums

LEMMA WrittenIn ==
  ASSUME IInv
  PROVE  /\ written \in [Nums -> Holdings] /\ trust \in BOOLEAN
         /\ edits \in 0..MaxEdits
         /\ \A v \in Values : /\ v \in Vals /\ v # XRefStream
                              /\ [val |-> v, stm |-> None] \in Holdings
         /\ Signature \in Vals /\ Signature # XRefStream
         /\ [val |-> Signature, stm |-> None] \in Holdings
         /\ None \in Holdings
BY XrefAssumption DEF IInv, Typed, Holdings, Vals

LEMMA LoadObjectStep ==
  ASSUME IInv, NEW n \in Nums, LoadObject(n)
  PROVE  IInv'
<1>1. /\ Ready /\ table' = Look(table, n) /\ Look(table, n).ninc <= MaxIncrements
      /\ UNCHANGED <<file, out, todo, use, saves, failures, trust, edits, written>>
  BY DEF LoadObject, Changed
<1>2. TableOK(table) /\ Found /\ table.base = 1 /\ trust
  BY <1>1 DEF IInv, Ready, Idle
<1>3. TableOK(table') /\ Reindexed(table', table)
  BY <1>1, <1>2, LookKeeps, LookIs
<1>4. Follows(table', table)
  BY <1>2, <1>3 DEF Follows, Reindexed, At
<1>5. table'.sections = table.sections
  BY <1>3 DEF Reindexed
<1>6. \A m \in Nums :
        \/ Held(Latest(table'.sections, m)) = written'[m]
        \/ MaxIncrements > 2 /\ Held(Latest(table'.sections, m)) = None
  BY <1>1, <1>2, <1>5 DEF Found
<1>7. written' \in [Nums -> Holdings] /\ trust' \in BOOLEAN /\ edits' \in 0..MaxEdits
  BY <1>1, WrittenIn
<1>8. table'.ninc <= MaxIncrements
  BY <1>1
<1>. QED
  BY <1>1, <1>4, <1>6, <1>7, <1>8, EditStep

LEMMA NewObjectStep ==
  ASSUME IInv, NEW v \in Values, NewObject(v)
  PROVE  IInv'
<1>. DEFINE n == table.len + 1
            x == [FreeEntry EXCEPT !.type = "n", !.val = v]
<1>1. /\ Ready /\ EditRoom(1)
      /\ table' = UpdateObject(CreateObject(table), n, v) /\ table'.ninc <= MaxIncrements
      /\ UNCHANGED <<file, out, todo, use, saves, failures, trust>>
      /\ written' = [written EXCEPT ![n] = [val |-> v, stm |-> None]]
  BY DEF NewObject, Changed
<1>2. TableOK(table) /\ Found /\ table.base = 1 /\ trust
  BY <1>1 DEF IInv, Ready, Idle
<1>3. n \in Nums /\ edits' \in 0..MaxEdits
  BY <1>1, RoomKeeps
<1>4. /\ v \in Vals /\ v # XRefStream /\ written \in [Nums -> Holdings]
      /\ [val |-> v, stm |-> None] \in Holdings
  BY WrittenIn
<1>5. /\ Edited(table', table, n, x)
      /\ x.type = "n" /\ x.val = v /\ x.buf = None /\ x.stm = None
  BY <1>1, <1>2, <1>3, <1>4, NewObjectEdits
<1>. HIDE DEF n, x
<1>6. Held(x) = [val |-> v, stm |-> None]
  BY <1>4, <1>5 DEF Held, Known, Stream
<1>7. /\ written' \in [Nums -> Holdings] /\ written'[n] = Held(x)
      /\ \A m \in Nums : m # n => written'[m] = written[m]
  BY <1>1, <1>3, <1>4, <1>6
<1>8. \A m \in Nums :
        \/ Held(Latest(table'.sections, m)) = written'[m]
        \/ MaxIncrements > 2 /\ Held(Latest(table'.sections, m)) = None
  BY <1>2, <1>5, <1>7 DEF Found, Edited
<1>9. Follows(table', table) /\ trust' \in BOOLEAN
  BY <1>1, <1>2, <1>5 DEF Edited
<1>. QED
  BY <1>1, <1>3, <1>7, <1>8, <1>9, EditStep

\* What is left of the proof when one object has been edited.
LEMMA OneEdited ==
  ASSUME IInv, Ready, NEW n \in Nums, EditRoom(0), NEW x, Edited(table', table, n, x),
         table'.ninc <= MaxIncrements,
         UNCHANGED <<file, out, todo, use, saves, failures, trust>>,
         NEW h \in Holdings, Held(x) = h, written' = [written EXCEPT ![n] = h]
  PROVE  IInv'
<1>1. Found /\ trust /\ written \in [Nums -> Holdings] /\ edits' \in 0..MaxEdits
  BY WrittenIn, RoomKeeps DEF IInv, Ready
<1>2. /\ written' \in [Nums -> Holdings] /\ written'[n] = Held(x)
      /\ \A m \in Nums : m # n => written'[m] = written[m]
  BY <1>1
<1>3. \A m \in Nums :
        \/ Held(Latest(table'.sections, m)) = written'[m]
        \/ MaxIncrements > 2 /\ Held(Latest(table'.sections, m)) = None
  BY <1>1, <1>2 DEF Found, Edited
<1>4. Follows(table', table) /\ trust' \in BOOLEAN
  BY <1>1 DEF Edited
<1>. QED
  BY <1>1, <1>2, <1>3, <1>4, EditStep

LEMMA ReplaceStep ==
  ASSUME IInv, NEW n \in Nums, NEW v \in Values, Replace(n, v)
  PROVE  IInv'
<1>. DEFINE h == [val |-> v, stm |-> None]
<1>1. /\ Ready /\ EditRoom(0) /\ Usable(n) /\ Stream(Entry(n)) = None
      /\ table' = UpdateObject(table, n, v) /\ table'.ninc <= MaxIncrements
      /\ UNCHANGED <<file, out, todo, use, saves, failures, trust>>
      /\ written' = [written EXCEPT ![n].val = v]
  BY DEF Replace, Changed
<1>2. TableOK(table) /\ table.base = 1
  BY <1>1 DEF IInv, Ready, Idle
<1>3. PICK i : /\ Newest(table, n, i) /\ At(table, i, n) = Entry(n)
               /\ written[n] = [val |-> Entry(n).val, stm |-> Stream(Entry(n))]
  BY <1>1, UsableHas
<1>4. v \in Vals /\ v # XRefStream /\ h \in Holdings
  BY WrittenIn
<1>5. PICK x : /\ Edited(table', table, n, x)
               /\ x.type = "n" /\ x.val = v /\ Stream(x) = None
  BY <1>1, <1>2, <1>3, <1>4, ReplaceEdits
<1>6. Held(x) = h
  BY <1>4, <1>5 DEF Held, Known
<1>7. written' = [written EXCEPT ![n] = h]
  <2>1. [written[n] EXCEPT !.val = v] = h
    BY <1>1, <1>3
  <2>2. written' = [written EXCEPT ![n] = [written[n] EXCEPT !.val = v]]
    BY <1>1
  <2>. QED
    BY <2>1, <2>2
<1>. HIDE DEF h
<1>. QED
  BY <1>1, <1>4, <1>5, <1>6, <1>7, OneEdited

LEMMA DeleteStep ==
  ASSUME IInv, NEW n \in Nums, Delete(n)
  PROVE  IInv'
<1>1. /\ Ready /\ EditRoom(0)
      /\ table' = DeleteObject(table, n) /\ table'.ninc <= MaxIncrements
      /\ UNCHANGED <<file, out, todo, use, saves, failures, trust>>
      /\ written' = [written EXCEPT ![n] = None]
  BY DEF Delete, Changed
<1>2. TableOK(table) /\ table.base = 1
  BY <1>1 DEF IInv, Ready, Idle
<1>3. Edited(table', table, n, FreeEntry)
  BY <1>1, <1>2, DeleteEdits
<1>4. Held(FreeEntry) = None /\ None \in Holdings
  BY BlankOK, HeldIs, WrittenIn
<1>. QED
  BY <1>1, <1>3, <1>4, OneEdited

LEMMA AlterStep ==
  ASSUME IInv, NEW n \in Nums, NEW v \in Values, Alter(n, v)
  PROVE  IInv'
<1>. DEFINE h == [val |-> v, stm |-> Stream(Entry(n))]
<1>1. /\ Ready /\ EditRoom(0) /\ Usable(n)
      /\ table' = AlterObject(table, n, v) /\ table'.ninc <= MaxIncrements
      /\ UNCHANGED <<file, out, todo, use, saves, failures, trust>>
      /\ written' = [written EXCEPT ![n].val = v]
  BY DEF Alter, Changed
<1>2. TableOK(table) /\ table.base = 1
  BY <1>1 DEF IInv, Ready, Idle
<1>3. PICK i : /\ Newest(table, n, i) /\ At(table, i, n) = Entry(n) /\ Entry(n) \in Entries
               /\ written[n] = [val |-> Entry(n).val, stm |-> Stream(Entry(n))]
  BY <1>1, UsableHas
<1>4. v \in Vals /\ v # XRefStream
  BY WrittenIn
<1>5. h \in Holdings
  <2>1. Stream(Entry(n)) \in Data \cup {None}
    BY <1>3 DEF Entries, Stream
  <2>. QED
    BY <1>4, <2>1 DEF Holdings
<1>6. PICK x : /\ Edited(table', table, n, x)
               /\ x.type = "n" /\ x.val = v /\ Stream(x) = Stream(Entry(n))
  <2>1. /\ Edited(table', table, n, [At(table, i, n) EXCEPT !.val = v])
        /\ [At(table, i, n) EXCEPT !.val = v].type = "n"
        /\ [At(table, i, n) EXCEPT !.val = v].val = v
        /\ Stream([At(table, i, n) EXCEPT !.val = v]) = Stream(At(table, i, n))
    BY <1>1, <1>2, <1>3, <1>4, AlterEdits
  <2>. QED
    BY <1>3, <2>1
<1>7. Held(x) = h
  BY <1>4, <1>6 DEF Held, Known
<1>8. written' = [written EXCEPT ![n] = h]
  <2>1. [written[n] EXCEPT !.val = v] = h
    BY <1>3
  <2>2. written' = [written EXCEPT ![n] = [written[n] EXCEPT !.val = v]]
    BY <1>1
  <2>. QED
    BY <2>1, <2>2
<1>. HIDE DEF h
<1>. QED
  BY <1>1, <1>5, <1>6, <1>7, <1>8, OneEdited

LEMMA NewStreamStep ==
  ASSUME IInv, NEW n \in Nums, NEW d \in Data, NewStream(n, d)
  PROVE  IInv'
<1>. DEFINE h == [val |-> Entry(n).val, stm |-> d]
<1>1. /\ Ready /\ EditRoom(0) /\ Usable(n)
      /\ table' = UpdateStream(table, n, d) /\ table'.ninc <= MaxIncrements
      /\ UNCHANGED <<file, out, todo, use, saves, failures, trust>>
      /\ written' = [written EXCEPT ![n].stm = d]
  BY DEF NewStream, Changed
<1>2. TableOK(table) /\ table.base = 1
  BY <1>1 DEF IInv, Ready, Idle
<1>3. PICK i : /\ Newest(table, n, i) /\ At(table, i, n) = Entry(n) /\ Entry(n) \in Entries
               /\ Tidy(Entry(n)) /\ Entry(n).type = "n" /\ Entry(n).val # XRefStream
               /\ written[n] = [val |-> Entry(n).val, stm |-> Stream(Entry(n))]
  BY <1>1, UsableHas
<1>4. h \in Holdings
  <2>1. Entry(n).val \in Vals
    BY <1>3 DEF Entries, Tidy
  <2>. QED
    BY <2>1 DEF Holdings
<1>5. PICK x : /\ Edited(table', table, n, x)
               /\ x.type = "n" /\ x.val = Entry(n).val /\ x.buf = d
  <2>1. /\ Edited(table', table, n, [At(table, i, n) EXCEPT !.buf = d])
        /\ [At(table, i, n) EXCEPT !.buf = d].type = "n"
        /\ [At(table, i, n) EXCEPT !.buf = d].val = At(table, i, n).val
        /\ [At(table, i, n) EXCEPT !.buf = d].buf = d
    BY <1>1, <1>2, <1>3, StreamEdits
  <2>. QED
    BY <1>3, <2>1
<1>6. Held(x) = h
  <2>1. d # None
    BY XrefAssumption
  <2>. QED
    BY <1>3, <1>5, <2>1 DEF Held, Known, Stream
<1>7. written' = [written EXCEPT ![n] = h]
  <2>1. [written[n] EXCEPT !.stm = d] = h
    BY <1>3
  <2>2. written' = [written EXCEPT ![n] = [written[n] EXCEPT !.stm = d]]
    BY <1>1
  <2>. QED
    BY <2>1, <2>2
<1>. HIDE DEF h
<1>. QED
  BY <1>1, <1>4, <1>5, <1>6, <1>7, OneEdited

LEMMA SignStep ==
  ASSUME IInv, NEW f \in Nums, NEW v \in Values, NEW visible \in BOOLEAN,
         Sign(f, v, visible)
  PROVE  IInv'
<1>. DEFINE n == table.len + 1
            h == [val |-> v, stm |-> Stream(Entry(f))]
            g == [val |-> Signature, stm |-> None]
            s == SetSignature(table, f, v)
<1>1. /\ Ready /\ EditRoom(1) /\ Usable(f)
      /\ table' = IF visible THEN AlterObject(s, f, v) ELSE s
      /\ table'.ninc <= MaxIncrements /\ trust' = ~table.closed
      /\ written' = [written EXCEPT ![f].val = v, ![n] = g]
      /\ UNCHANGED <<file, out, todo, use, saves, failures>>
  BY DEF Sign
<1>2. TableOK(table) /\ table.base = 1 /\ Found /\ trust /\ trust' \in BOOLEAN
  BY <1>1 DEF IInv, Ready, Idle
<1>3. PICK i : /\ Newest(table, f, i) /\ At(table, i, f) = Entry(f) /\ Entry(f) \in Entries
               /\ written[f] = [val |-> Entry(f).val, stm |-> Stream(Entry(f))]
  BY <1>1, UsableHas
<1>4. /\ v \in Vals /\ v # XRefStream /\ Signature # XRefStream
      /\ g \in Holdings /\ written \in [Nums -> Holdings]
  BY WrittenIn
<1>5. h \in Holdings
  <2>1. Stream(Entry(f)) \in Data \cup {None}
    BY <1>3 DEF Entries, Stream
  <2>. QED
    BY <1>4, <2>1 DEF Holdings
<1>6. n \in Nums /\ edits' \in 0..MaxEdits
  BY <1>1, RoomKeeps
<1>7. f # n /\ Signed(table', table, f, v, Entry(f), n)
  <2>1. /\ f # n /\ Signed(s, table, f, v, At(table, i, f), n)
        /\ Signed(AlterObject(s, f, v), table, f, v, At(table, i, f), n)
    BY <1>2, <1>3, <1>4, <1>6, SignEdits
  <2>. HIDE DEF s
  <2>. QED
    BY <1>1, <1>3, <2>1
<1>8. Held(Latest(table'.sections, f)) = h /\ Held(Latest(table'.sections, n)) = g
  BY <1>4, <1>7 DEF Signed, Held, Known
<1>9. written' = [[written EXCEPT ![f] = h] EXCEPT ![n] = g]
  <2>1. [written[f] EXCEPT !.val = v] = h
    BY <1>3
  <2>2. written' = [[written EXCEPT ![f] = [written[f] EXCEPT !.val = v]] EXCEPT ![n] = g]
    BY <1>1
  <2>. QED
    BY <2>1, <2>2
<1>. HIDE DEF h, g, n
<1>10. /\ written' \in [Nums -> Holdings] /\ written'[f] = h /\ written'[n] = g
       /\ \A m \in Nums : m # n /\ m # f => written'[m] = written[m]
  BY <1>4, <1>5, <1>6, <1>7, <1>9
<1>11. \A m \in Nums :
        \/ Held(Latest(table'.sections, m)) = written'[m]
        \/ MaxIncrements > 2 /\ Held(Latest(table'.sections, m)) = None
  <2>1. SUFFICES ASSUME NEW m \in Nums
                 PROVE  \/ Held(Latest(table'.sections, m)) = written'[m]
                        \/ MaxIncrements > 2 /\ Held(Latest(table'.sections, m)) = None
    OBVIOUS
  <2>2. CASE m = f \/ m = n
    BY <1>8, <1>10, <2>2
  <2>3. CASE m # f /\ m # n
    <3>1. Latest(table'.sections, m) = Latest(table.sections, m) /\ written'[m] = written[m]
      BY <1>7, <1>10, <2>3 DEF Signed
    <3>. QED
      BY <1>2, <3>1 DEF Found
  <2>. QED
    BY <2>2, <2>3
<1>12. Follows(table', table)
  BY <1>7 DEF Signed
<1>. QED
  BY <1>1, <1>2, <1>6, <1>10, <1>11, <1>12, EditStep

\* The document is opened.
LEMMA OpenedIs ==
  ASSUME NEW f, FileOK(f), NEW t, t = LoadXref(f)
  PROVE  /\ TableOK(t) /\ Loaded(t, f)
         /\ t.ninc = 0 /\ t.base = 1 /\ t.startxref = Len(f)
         /\ Contents(f) \in [Nums -> Holdings]
         /\ \A n \in Nums : Held(Latest(t.sections, n)) = Contents(f)[n]
<1>1. /\ TableOK(t) /\ Loaded(t, f)
      /\ t.ninc = 0 /\ t.base = 1 /\ t.startxref = Len(f)
  BY LoadIs
<1>2. \A n \in Nums : Latest(t.sections, n) = Latest(Chain(f), n)
  BY DiskIs
<1>3. \A n \in Nums : Held(Latest(t.sections, n)) \in Holdings
  BY <1>1, LatestIn, HeldIs
<1>4. \A n \in Nums : Held(Latest(t.sections, n)) = Contents(f)[n]
  BY <1>2 DEF Contents
<1>5. Contents(f) = [n \in Nums |-> Contents(f)[n]]
  BY DEF Contents
<1>6. Contents(f) \in [Nums -> Holdings]
  BY <1>3, <1>4, <1>5
<1>. QED
  BY <1>1, <1>4, <1>6

LEMMA BeginStep ==
  ASSUME IInv, BeginWrite
  PROVE  IInv'
<1>1. /\ out = <<>> /\ trust /\ saves < MaxSaves
      /\ table.streams => table.len + table.ninc <= MaxNum
      /\ out' = file /\ todo' = table.ninc /\ use' = 1..table.len
      /\ table' = IF table.ninc = 0 THEN table
                  ELSE [LookAll(table) EXCEPT !.closed = TRUE]
      /\ UNCHANGED <<file, saves, failures, edits, trust, written>>
  BY DEF BeginWrite, Ready
<1>2. /\ TableOK(table) /\ FileOK(file) /\ Loaded(table, file) /\ Idle /\ Found /\ Typed
      /\ Shaped(table) /\ Measured(table)
  BY <1>1 DEF IInv, TableOK
<1>3. /\ table.ninc \in Nat /\ table.len \in Nat /\ Len(table.sections) \in Nat
      /\ Len(file) \in Nat /\ file # <<>> /\ table.startxref = Len(file)
      /\ table.ninc < Len(table.sections)
      /\ \A i \in 1..Len(table.sections) : table.sections[i].len \in Nat
  <2>1. Len(file) \in Nat /\ file # <<>>
    BY <1>2 DEF FileOK
  <2>2. \A i \in 1..Len(table.sections) : table.sections[i] \in Section
    BY <1>2, ShapedIs
  <2>3. \A i \in 1..Len(table.sections) : table.sections[i].len \in Nat
    BY <2>2, XrefAssumption DEF Section
  <2>4. /\ table.ninc \in Nat /\ table.len \in 0..MaxNum /\ MaxNum \in Nat
        /\ Len(table.sections) \in Nat
    BY <1>2, ShapedIs
  <2>. QED
    BY <1>1, <1>2, <2>1, <2>3, <2>4 DEF Idle, Shaped
<1>4. /\ TableOK(table') /\ table'.sections = table.sections /\ table'.ninc = table.ninc
      /\ table'.base = table.base /\ table'.len = table.len
      /\ table'.startxref = table.startxref /\ table'.streams = table.streams
      /\ table'.closed \/ table'.ninc = 0
  <2>1. CASE table.ninc = 0
    BY <1>1, <1>2, <2>1
  <2>2. CASE table.ninc # 0
    <3>. DEFINE u == LookAll(table)
                w == [u EXCEPT !.closed = TRUE]
    <3>1. TableOK(u) /\ Reindexed(u, table) /\ table' = w
      BY <1>1, <1>2, <2>2, LookAllKeeps
    <3>. HIDE DEF u
    <3>2. u \in Tables /\ u.ninc > 0 /\ u.base \in 1..Len(u.sections)
      BY <1>3, <2>2, <3>1 DEF TableOK, Shaped, Reindexed
    <3>3. /\ w \in Tables /\ w.sections = u.sections /\ w.ninc = u.ninc /\ w.base = u.base
          /\ w.index = u.index /\ w.len = u.len /\ w.closed
          /\ w.startxref = u.startxref /\ w.streams = u.streams
      BY <3>2 DEF Tables
    <3>. HIDE DEF w
    <3>4. TableOK(w)
      BY <3>1, <3>2, <3>3, FieldsKeep
    <3>. QED
      BY <3>1, <3>3, <3>4 DEF Reindexed
  <2>. QED
    BY <2>1, <2>2
<1>5. \A i : \A n : At(table', i, n) = At(table, i, n)
  BY <1>4 DEF At
<1>6. Loaded(table', file)
  BY <1>2, <1>4, <1>5 DEF Loaded
<1>7. Found'
  BY <1>1, <1>2, <1>4 DEF Found
<1>8. Typed'
  <2>1. table.ninc \in 0..table.ninc
    BY <1>3
  <2>. QED
    BY <1>1, <1>2, <1>4, <2>1 DEF Typed
<1>9. OutOK'
  <2>1. Len(file) = Len(file) + table.ninc - table.ninc
    BY <1>3
  <2>2. table.ninc + 1..table.ninc = {}
    BY <1>3
  <2>. QED
    BY <1>1, <1>2, <1>4, <2>1, <2>2 DEF OutOK
<1>10. ASSUME NEW i \in 1..table.ninc, NEW n \in Nums, At(table, i, n).type = "n"
       PROVE  n \in 1..table.len
  <2>1. i \in 1..Len(table.sections) /\ n \in Nat /\ n >= 1
    BY <1>3 DEF Nums
  <2>2. n <= table.sections[i].len /\ table.sections[i].len <= table.len
    BY <1>2, <1>10, <2>1 DEF Measured
  <2>. QED
    BY <1>3, <2>1, <2>2
<1>11. Writing'
  <2>1. trust' /\ saves' < MaxSaves /\ table'.startxref = Len(out')
    BY <1>1, <1>3, <1>4
  <2>2. table'.closed \/ table'.ninc = 0
    BY <1>4
  <2>3. table'.streams => table'.len + todo' <= MaxNum
    BY <1>1, <1>4
  <2>4. \A i \in 1..todo' : \A n \in Nums : At(table', i, n).type = "n" => n \in use'
    BY <1>1, <1>5, <1>10
  <2>. QED
    BY <1>9, <2>1, <2>2, <2>3, <2>4 DEF Writing
<1>. QED
  BY <1>1, <1>2, <1>3, <1>4, <1>6, <1>7, <1>8, <1>11 DEF IInv

\* What is known of the copy of an entry.
LEMMA CopyHolds ==
  ASSUME NEW e \in Entries, NEW w, NEW n, NEW u, Copied(w, e, n, u)
  PROVE  /\ w.type = "none" <=> e.type = "none"
         /\ \/ Held(w) = Held(e)
            \/ MaxIncrements > 2 /\ Held(w) = None
<1>1. CASE w = e
  BY <1>1
<1>2. CASE /\ e.type = "n"
           /\ w = [type |-> "n", val |-> e.val, buf |-> None, stm |-> Stream(e)]
  <2>1. w.type = "n" /\ w.val = e.val /\ Stream(w) = Stream(e)
    BY <1>2 DEF Stream
  <2>. QED
    BY <1>2, <2>1 DEF Held, Known
<1>3. CASE e.type = "n" /\ w = FreeEntry /\ MaxIncrements > 2
  BY <1>3, BlankOK DEF Held, Known
<1>. QED
  BY <1>1, <1>2, <1>3 DEF Copied

LEMMA FinishStep ==
  ASSUME IInv, FinishWrite
  PROVE  IInv'
<1>1. /\ out # <<>> /\ todo = 0 /\ file' = out /\ table' = LoadXref(out)
      /\ out' = <<>> /\ use' = {} /\ saves' = saves + 1
      /\ UNCHANGED <<todo, failures, edits, trust, written>>
  BY DEF FinishWrite
<1>2. /\ TableOK(table) /\ FileOK(file) /\ Loaded(table, file) /\ Writing /\ OutOK
      /\ FileOK(out) /\ trust /\ saves < MaxSaves /\ Found /\ Typed /\ Shaped(table)
  BY <1>1 DEF IInv, Writing, OutOK, TableOK
<1>3. /\ TableOK(table') /\ Loaded(table', out) /\ table'.ninc = 0 /\ table'.base = 1
      /\ table'.startxref = Len(out) /\ Shaped(table')
  BY <1>1, <1>2, OpenedIs DEF TableOK
<1>. DEFINE L == Len(file)
            N == table.ninc
            t == table'
<1>4. /\ N \in Nat /\ L \in Nat /\ Len(out) = L + N /\ Len(t.sections) = L + N
      /\ Len(table.sections) = L + N
  <2>1. N \in Nat /\ L \in Nat
    BY <1>2, ShapedIs DEF FileOK
  <2>2. Len(out) = L + N - 0
    BY <1>1, <1>2 DEF OutOK
  <2>3. Len(t.sections) = 0 + Len(out) /\ Len(table.sections) = N + L
    BY <1>2, <1>3 DEF Loaded
  <2>. QED
    BY <2>1, <2>2, <2>3
<1>5. ASSUME NEW n \in Nums, NEW i \in 1..L + N
      PROVE  At(t, i, n) = At(table, i, n) \/ Copied(At(t, i, n), At(table, i, n), n, use)
  <2>1. At(t, i, n) = out[L + N + 1 - i].e[n]
    <3>1. At(t, 0 + i, n) = out[Len(out) + 1 - i].e[n] /\ 0 + i = i
      BY <1>3, <1>4 DEF Loaded
    <3>. QED
      BY <1>4, <3>1
  <2>2. CASE i <= N
    <3>1. i \in 0 + 1..N
      BY <1>4, <2>2
    <3>2. Copied(out[L + N + 1 - i].e[n], At(table, i, n), n, use)
      BY <1>1, <1>2, <3>1 DEF OutOK
    <3>. QED
      BY <2>1, <3>2
  <2>3. CASE ~(i <= N)
    <3>. DEFINE k == i - N
    <3>1. k \in 1..L /\ N + k = i /\ L + 1 - k = L + N + 1 - i /\ L + 1 - k \in 1..L
      BY <1>4, <2>3
    <3>2. At(table, N + k, n) = file[L + 1 - k].e[n]
      BY <1>2, <3>1 DEF Loaded
    <3>3. out[L + 1 - k] = file[L + 1 - k]
      BY <1>2, <3>1 DEF OutOK
    <3>. QED
      BY <2>1, <3>1, <3>2, <3>3
  <2>. QED
    BY <2>2, <2>3
<1>6. ASSUME NEW n \in Nums, NEW i \in 1..L + N
      PROVE  /\ At(t, i, n).type = "none" <=> At(table, i, n).type = "none"
             /\ \/ Held(At(t, i, n)) = Held(At(table, i, n))
                \/ MaxIncrements > 2 /\ Held(At(t, i, n)) = None
  <2>1. At(table, i, n) \in Entries
    BY <1>2, <1>4, ShapedIs
  <2>. QED
    BY <1>5, <2>1, CopyHolds
<1>7. ASSUME NEW n \in Nums
      PROVE  \/ Held(Latest(t.sections, n)) = Held(Latest(table.sections, n))
             \/ MaxIncrements > 2 /\ Held(Latest(t.sections, n)) = None
  <2>1. CASE \A i \in 1..L + N : At(table, i, n).type = "none"
    <3>1. \A i \in 1..L + N : At(t, i, n).type = "none"
      BY <1>6, <2>1
    <3>2. Latest(table.sections, n) = Blank /\ Latest(t.sections, n) = Blank
      BY <1>2, <1>3, <1>4, <2>1, <3>1, LatestIs
    <3>. QED
      BY <3>2
  <2>2. CASE \E i \in 1..L + N : /\ At(table, i, n).type # "none"
                                 /\ \A j \in 1..i - 1 : At(table, j, n).type = "none"
    <3>1. PICK i \in 1..L + N : /\ At(table, i, n).type # "none"
                                /\ \A j \in 1..i - 1 : At(table, j, n).type = "none"
      BY <2>2
    <3>2. \A j \in 1..i - 1 : j \in 1..L + N
      BY <1>4
    <3>3. At(t, i, n).type # "none" /\ \A j \in 1..i - 1 : At(t, j, n).type = "none"
      BY <1>6, <3>1, <3>2
    <3>4. Latest(table.sections, n) = At(table, i, n)
      BY <1>2, <1>4, <3>1, LatestIs
    <3>5. Latest(t.sections, n) = At(t, i, n)
      BY <1>3, <1>4, <3>3, LatestIs
    <3>. QED
      BY <1>6, <3>4, <3>5
  <2>. QED
    BY <1>2, <1>4, <2>1, <2>2, FirstEntry
<1>8. Found'
  BY <1>1, <1>2, <1>7 DEF Found
<1>9. Idle'
  BY <1>1, <1>3 DEF Idle
<1>10. Typed'
  <2>1. saves + 1 \in 0..MaxSaves
    BY <1>2, XrefAssumption DEF Typed
  <2>2. 0 <= MaxIncrements /\ 0 \in 0..0 /\ {} \subseteq 1..table'.len
    BY XrefAssumption
  <2>. QED
    BY <1>1, <1>2, <1>3, <2>1, <2>2 DEF Typed
<1>. QED
  BY <1>1, <1>2, <1>3, <1>8, <1>9, <1>10 DEF IInv

LEMMA FailStep ==
  ASSUME IInv, FailWrite
  PROVE  IInv'
<1>1. /\ out # <<>> /\ table.ninc > 0 /\ failures < MaxFailures /\ failures' = failures + 1
      /\ table' = IF todo = 0 THEN [table EXCEPT !.base = 1, !.closed = FALSE]
                  ELSE [table EXCEPT !.base = todo]
      /\ trust' \in {FALSE, todo = 1 /\ table.ninc = 1 /\ ~table.sections[1].sigs}
      /\ out' = <<>> /\ use' = {} /\ todo' = 0
      /\ UNCHANGED <<file, saves, edits, written>>
  BY DEF FailWrite
<1>2. /\ TableOK(table) /\ FileOK(file) /\ Loaded(table, file) /\ Writing /\ OutOK
      /\ trust /\ Found /\ Typed /\ Shaped(table) /\ table \in Tables
      /\ table.startxref = Len(out)
  BY <1>1 DEF IInv, Writing, TableOK, Shaped
<1>3. /\ table.ninc \in Nat /\ Len(table.sections) \in Nat /\ Len(file) \in Nat
      /\ todo \in 0..table.ninc /\ table.ninc < Len(table.sections)
      /\ 1 \in 1..Len(table.sections)
  <2>1. Len(file) \in Nat
    BY <1>2 DEF FileOK
  <2>. QED
    BY <1>2, <2>1, ShapedIs DEF Typed, Shaped
<1>4. /\ table' \in Tables /\ table'.sections = table.sections /\ table'.ninc = table.ninc
      /\ table'.base = IF todo = 0 THEN 1 ELSE todo
      /\ table'.index = table.index /\ table'.len = table.len
      /\ table'.closed => table.closed
      /\ table'.startxref = table.startxref
  <2>1. CASE todo = 0
    <3>. DEFINE w == [table EXCEPT !.base = 1, !.closed = FALSE]
    <3>1. /\ w \in Tables /\ w.sections = table.sections /\ w.ninc = table.ninc
          /\ w.base = 1 /\ w.index = table.index /\ w.len = table.len
          /\ ~w.closed /\ w.startxref = table.startxref
      BY <1>2 DEF Tables
    <3>. QED
      BY <1>1, <2>1, <3>1
  <2>2. CASE todo # 0
    <3>. DEFINE w == [table EXCEPT !.base = todo]
    <3>1. /\ w \in Tables /\ w.sections = table.sections /\ w.ninc = table.ninc
          /\ w.base = todo /\ w.index = table.index /\ w.len = table.len
          /\ w.closed = table.closed /\ w.startxref = table.startxref
      BY <1>2, <1>3 DEF Tables
    <3>. QED
      BY <1>1, <2>2, <3>1
  <2>. QED
    BY <2>1, <2>2
<1>5. TableOK(table')
  <2>1. table'.base \in 1..Len(table.sections)
    BY <1>3, <1>4
  <2>. QED
    BY <1>2, <1>4, <2>1, FieldsKeep
<1>6. Loaded(table', file)
  BY <1>2, <1>4 DEF Loaded, At
<1>7. Found'
  BY <1>1, <1>2, <1>4 DEF Found
<1>8. Typed'
  <2>1. failures + 1 \in 0..MaxFailures
    BY <1>1, <1>2, XrefAssumption DEF Typed
  <2>2. 0 \in 0..table.ninc /\ {} \subseteq 1..table'.len
    BY <1>3
  <2>3. trust' \in BOOLEAN
    <3>. DEFINE e == todo = 1 /\ table.ninc = 1 /\ ~table.sections[1].sigs
    <3>1. e \in BOOLEAN
      OBVIOUS
    <3>2. trust' \in {FALSE, e}
      BY <1>1
    <3>. HIDE DEF e
    <3>. QED
      BY <3>1, <3>2
  <2>. QED
    BY <1>1, <1>2, <1>4, <2>1, <2>2, <2>3 DEF Typed
<1>9. Idle'
  <2>1. ASSUME trust' PROVE table'.base = 1 /\ table'.startxref = Len(file)
    <3>1. todo = 1 /\ table.ninc = 1
      BY <1>1, <2>1
    <3>2. Len(out) = Len(file) + 1 - 1
      BY <1>2, <3>1 DEF OutOK
    <3>. QED
      BY <1>2, <1>3, <1>4, <3>1, <3>2
  <2>. QED
    BY <1>1, <2>1 DEF Idle
<1>. QED
  BY <1>1, <1>2, <1>5, <1>6, <1>7, <1>8, <1>9 DEF IInv

LEMMA ReopenStep ==
  ASSUME IInv, Reopen
  PROVE  IInv'
<1>1. /\ out = <<>> /\ table' = LoadXref(file) /\ trust' = TRUE
      /\ written' = Contents(file)
      /\ UNCHANGED <<file, out, todo, use, saves, failures, edits>>
  BY DEF Reopen
<1>2. FileOK(file) /\ Typed /\ todo = 0 /\ use = {}
  BY <1>1 DEF IInv, Idle
<1>3. /\ TableOK(table') /\ Loaded(table', file) /\ table'.ninc = 0 /\ table'.base = 1
      /\ table'.startxref = Len(file) /\ written' \in [Nums -> Holdings]
      /\ \A n \in Nums : Held(Latest(table'.sections, n)) = written'[n]
  BY <1>1, <1>2, OpenedIs
<1>4. Typed'
  <2>1. 0 <= MaxIncrements /\ 0 \in 0..0 /\ {} \subseteq 1..table'.len /\ TRUE \in BOOLEAN
    BY XrefAssumption
  <2>. QED
    BY <1>1, <1>2, <1>3, <2>1 DEF Typed, Holdings
<1>5. Found'
  BY <1>3 DEF Found
<1>6. Idle'
  BY <1>1, <1>2, <1>3 DEF Idle
<1>. QED
  BY <1>1, <1>2, <1>3, <1>4, <1>5, <1>6 DEF IInv

-----------------------------------------------------------------------------
(* The file that is opened first.                                          *)

LEMMA LiveIs ==
  ASSUME NEW v \in Values, NEW d \in Data \cup {None}
  PROVE  /\ Live(v, d) \in Entries /\ Tidy(Live(v, d))
         /\ Live(v, d).type = "n" /\ Live(v, d).buf = None
BY XrefAssumption DEF Live, Blank, Entries, Tidy, Vals

LEMMA FirstIs ==
  ASSUME NEW s \in BOOLEAN
  PROVE  /\ FirstSection(s) \in FileSection /\ FirstSection(s).prev = 0
         /\ \A n \in Nums : LET e == FirstSection(s).e[n]
                            IN  Tidy(e) /\ e.buf = None /\ e.type # "f"
         /\ \A n, m \in Nums : m <= n /\ FirstSection(s).e[n].type # "none"
                                 => FirstSection(s).e[m].type # "none"
<1>. DEFINE v == CHOOSE w \in Values : TRUE
            d == CHOOSE w \in Data : TRUE
            x == Live(v, None)
            y == Live(v, d)
<1>1. v \in Values /\ d \in Data
  BY XrefAssumption
<1>. HIDE DEF v, d
<1>2. /\ x \in Entries /\ Tidy(x) /\ x.type = "n" /\ x.buf = None
      /\ y \in Entries /\ Tidy(y) /\ y.type = "n" /\ y.buf = None
  BY <1>1, LiveIs
<1>3. Original = [Empty EXCEPT ![1] = x, ![2] = y]
  BY DEF Original, v, d
<1>. HIDE DEF x, y
<1>4. /\ Original \in [Nums -> Entries]
      /\ \A n \in Nums : Original[n] = IF n = 2 THEN y ELSE IF n = 1 THEN x ELSE Blank
  BY <1>2, <1>3, BlankOK
<1>5. FirstSection(s) = [e |-> Original, prev |-> 0, stream |-> s]
  BY DEF FirstSection
<1>. HIDE DEF Original
<1>6. /\ FirstSection(s) \in FileSection /\ FirstSection(s).prev = 0
      /\ FirstSection(s).e = Original
  BY <1>4, <1>5 DEF FileSection
<1>7. \A n \in Nums : /\ Tidy(Original[n]) /\ Original[n].buf = None
                      /\ Original[n].type # "f"
                      /\ Original[n].type # "none" <=> n = 1 \/ n = 2
  BY <1>2, <1>4, BlankOK
<1>8. \A n, m \in Nums : m <= n /\ (n = 1 \/ n = 2) => m = 1 \/ m = 2
  BY XrefAssumption DEF Nums
<1>. QED
  BY <1>6, <1>7, <1>8

LEMMA SecondIs ==
  ASSUME NEW s \in BOOLEAN, NEW c \in {FreeEntry} \cup {Live(v, None) : v \in Values}
  PROVE  /\ SecondSection(c, s) \in FileSection /\ SecondSection(c, s).prev = 1
         /\ \A n \in Nums : LET e == SecondSection(c, s).e[n]
                            IN  Tidy(e) /\ e.buf = None
<1>1. c \in Entries /\ Tidy(c) /\ c.buf = None
  BY LiveIs, BlankOK
<1>. DEFINE e == [Empty EXCEPT ![1] = c]
<1>2. e \in [Nums -> Entries] /\ \A n \in Nums : e[n] = c \/ e[n] = Blank
  BY <1>1, BlankOK
<1>3. SecondSection(c, s) = [e |-> e, prev |-> 1, stream |-> s]
  BY DEF SecondSection
<1>. HIDE DEF e
<1>4. /\ SecondSection(c, s) \in FileSection /\ SecondSection(c, s).prev = 1
      /\ SecondSection(c, s).e = e
  BY <1>2, <1>3 DEF FileSection
<1>. QED
  BY <1>1, <1>2, <1>4, BlankOK

LEMMA InitFile ==
  ASSUME Init
  PROVE  FileOK(file)
<1>1. PICK s \in BOOLEAN :
        \/ file = <<FirstSection(s)>>
        \/ \E c \in {FreeEntry} \cup {Live(v, None) : v \in Values} :
             file = <<FirstSection(s), SecondSection(c, s)>>
  BY DEF Init
<1>. DEFINE a == FirstSection(s)
<1>2. /\ a \in FileSection /\ a.prev = 0
      /\ \A n \in Nums : Tidy(a.e[n]) /\ a.e[n].buf = None /\ a.e[n].type # "f"
      /\ \A n, m \in Nums : m <= n /\ a.e[n].type # "none" => a.e[m].type # "none"
  BY FirstIs
<1>. HIDE DEF a
<1>3. CASE file = <<a>>
  <2>1. /\ file \in Seq(FileSection) /\ file # <<>> /\ Len(file) = 1 /\ file[1] = a
        /\ 1..Len(file) = {1} /\ \A j : j \notin 1..1 - 1
    BY <1>2, <1>3
  <2>. QED
    BY <1>2, <2>1 DEF FileOK
<1>4. ASSUME NEW c \in {FreeEntry} \cup {Live(v, None) : v \in Values},
             file = <<a, SecondSection(c, s)>>
      PROVE  FileOK(file)
  <2>. DEFINE b == SecondSection(c, s)
  <2>1. /\ b \in FileSection /\ b.prev = 1
        /\ \A n \in Nums : Tidy(b.e[n]) /\ b.e[n].buf = None
    BY SecondIs
  <2>2. file = <<a, b>>
    BY <1>4
  <2>. HIDE DEF b
  <2>3. /\ file \in Seq(FileSection) /\ file # <<>> /\ Len(file) = 2
        /\ file[1] = a /\ file[2] = b
        /\ 1..Len(file) = {1, 2} /\ \A j : j \notin 1..1 - 1 /\ (j \in 1..2 - 1 => j = 1)
    BY <1>2, <2>1, <2>2
  <2>. QED
    BY <1>2, <2>1, <2>3 DEF FileOK
<1>. QED
  BY <1>1, <1>3, <1>4 DEF a

LEMMA InitOK ==
  ASSUME Init
  PROVE  IInv
<1>1. /\ table = LoadXref(file) /\ out = <<>> /\ todo = 0 /\ use = {}
      /\ saves = 0 /\ failures = 0 /\ edits = 0 /\ trust = TRUE /\ written = Contents(file)
  BY DEF Init
<1>2. FileOK(file)
  BY InitFile
<1>3. /\ TableOK(table) /\ Loaded(table, file) /\ table.ninc = 0 /\ table.base = 1
      /\ table.startxref = Len(file) /\ written \in [Nums -> Holdings]
      /\ \A n \in Nums : Held(Latest(table.sections, n)) = written[n]
  BY <1>1, <1>2, OpenedIs
<1>4. Typed
  <2>1. /\ 0 <= MaxIncrements /\ 0 \in 0..0 /\ {} \subseteq 1..table.len
        /\ 0 \in 0..MaxSaves /\ 0 \in 0..MaxFailures /\ 0 \in 0..MaxEdits
    BY XrefAssumption
  <2>. QED
    BY <1>1, <1>3, <2>1 DEF Typed, Holdings
<1>5. Found
  BY <1>3 DEF Found
<1>6. Idle
  BY <1>1, <1>3 DEF Idle
<1>. QED
  BY <1>1, <1>2, <1>3, <1>4, <1>5, <1>6 DEF IInv

LEMMA StutterStep ==
  ASSUME IInv, UNCHANGED vars
  PROVE  IInv'
BY DEF vars, IInv, Typed, Writing, OutOK, Idle, Found

-----------------------------------------------------------------------------
(* The theorems.                                                           *)

\* The inductive invariant: the sections are well-formed and stay above those
\* of the file, xref_index tells of none that is too old, the copy of the file
\* has the increments that have been written, and the newest entries are what
\* the objects were set to.
THEOREM SpecInvariant == Spec => []IInv
<1>1. Init => IInv
  BY InitOK
<1>2. IInv /\ [Next]_vars => IInv'
  <2>1. SUFFICES ASSUME IInv, [Next]_vars
                 PROVE  IInv'
    OBVIOUS
  <2>2. CASE UNCHANGED vars
    BY <2>1, <2>2, StutterStep
  <2>3. CASE \E n \in Nums : LoadObject(n) \/ Delete(n)
    BY <2>1, <2>3, LoadObjectStep, DeleteStep
  <2>4. CASE \E v \in Values : NewObject(v)
    BY <2>1, <2>4, NewObjectStep
  <2>5. CASE \E n \in Nums, v \in Values : Replace(n, v) \/ Alter(n, v)
    BY <2>1, <2>5, ReplaceStep, AlterStep
  <2>6. CASE \E n \in Nums, d \in Data : NewStream(n, d)
    BY <2>1, <2>6, NewStreamStep
  <2>7. CASE \E f \in Nums, v \in Values, visible \in BOOLEAN : Sign(f, v, visible)
    BY <2>1, <2>7, SignStep
  <2>8. CASE BeginWrite
    BY <2>1, <2>8, BeginStep
  <2>9. CASE WriteIncrement
    BY <2>1, <2>9, WriteStep
  <2>10. CASE FinishWrite
    BY <2>1, <2>10, FinishStep
  <2>11. CASE FailWrite
    BY <2>1, <2>11, FailStep
  <2>12. CASE Reopen
    BY <2>1, <2>12, ReopenStep
  <2>. QED
    BY <2>1, <2>2, <2>3, <2>4, <2>5, <2>6, <2>7, <2>8, <2>9, <2>10, <2>11, <2>12
       DEF Next
<1>. QED
  BY <1>1, <1>2, PTL DEF Spec

\* Every variable keeps its type, the position of the last cross-reference
\* section among them.
THEOREM SpecTypeOK == Spec => []TypeOK
<1>1. IInv => TypeOK
  <2>1. SUFFICES ASSUME IInv
                 PROVE  TypeOK
    OBVIOUS
  <2>2. Shaped(table) /\ Typed /\ FileOK(file) /\ (out # <<>> => FileOK(out) /\ Writing)
    BY <2>1 DEF IInv, TableOK, Writing, OutOK
  <2>3. /\ \A i \in DOMAIN table.sections :
             table.sections[i] \in [len : 0..MaxNum, e : [Nums -> Entries], sigs : BOOLEAN]
        /\ table.ninc \in 0..MaxIncrements /\ table.ninc < Len(table.sections)
        /\ table.base \in 1..Len(table.sections)
        /\ table.index \in [Nums -> 1..Len(table.sections)]
        /\ table.len \in 0..MaxNum
        /\ {table.closed, table.streams, trust} \subseteq BOOLEAN
    <3>1. table.ninc \in Nat /\ table.ninc <= MaxIncrements /\ trust \in BOOLEAN
      BY <2>2, ShapedIs DEF Typed
    <3>2. \A i \in DOMAIN table.sections : table.sections[i] \in Section
      BY <2>2, ShapedIs
    <3>3. table.ninc \in 0..MaxIncrements
      BY <3>1, XrefAssumption
    <3>. QED
      BY <2>2, <3>1, <3>2, <3>3, ShapedIs DEF Shaped, Section
  <2>4. ASSUME NEW f, FileOK(f), NEW k \in DOMAIN f
        PROVE  f[k] \in [e : [Nums -> Entries], prev : 0..k - 1, stream : BOOLEAN]
    <3>1. f[k] \in FileSection /\ f[k].prev = k - 1 /\ k \in Nat /\ k >= 1
      BY <2>4 DEF FileOK
    <3>2. f[k].prev \in 0..k - 1
      BY <3>1
    <3>. QED
      BY <3>1, <3>2 DEF FileSection
  <2>5. \A f \in {file, out} : \A k \in DOMAIN f :
          f[k] \in [e : [Nums -> Entries], prev : 0..k - 1, stream : BOOLEAN]
    BY <2>2, <2>4
  <2>6. table.startxref \in 1..Larger(Len(file), Len(out)) \/ ~trust
    <3>1. Len(file) \in Nat /\ Len(file) >= 1 /\ Len(out) \in Nat
      BY <2>2 DEF FileOK
    <3>2. CASE out = <<>> /\ trust
      <4>1. table.startxref = Len(file)
        BY <2>1, <3>2 DEF IInv, Idle
      <4>2. Larger(Len(file), Len(out)) = Len(file)
        BY <3>1, <3>2 DEF Larger
      <4>. QED
        BY <3>1, <4>1, <4>2
    <3>3. CASE out # <<>>
      <4>1. table.startxref = Len(out) /\ Len(out) >= 1
        BY <2>2, <3>1, <3>3 DEF Writing, FileOK
      <4>2. Len(out) <= Larger(Len(file), Len(out)) /\ Larger(Len(file), Len(out)) \in Nat
        BY <3>1 DEF Larger
      <4>. QED
        BY <3>1, <4>1, <4>2
    <3>4. trust \in BOOLEAN
      BY <2>2 DEF Typed
    <3>. QED
      BY <3>2, <3>3, <3>4
  <2>7. use \subseteq Nums
    <3>1. table.len \in 0..MaxNum /\ MaxNum \in Nat /\ use \subseteq 1..table.len
      BY <2>2, ShapedIs DEF Typed
    <3>. QED
      BY <3>1 DEF Nums
  <2>. QED
    BY <2>2, <2>3, <2>5, <2>6, <2>7 DEF TypeOK, Typed
<1>. QED
  BY <1>1, SpecInvariant, PTL

\* xref_index never leads past a section that has the object.
THEOREM SpecNoNewerEntry == Spec => []NoNewerEntry
<1>1. IInv => NoNewerEntry
  <2>1. SUFFICES ASSUME IInv, NEW n \in 1..table.len, NEW i \in 1..table.index[n] - 1
                 PROVE  table.sections[i].e[n].type # "n"
    BY DEF NoNewerEntry
  <2>2. Shaped(table) /\ Indexed(table)
    BY <2>1 DEF IInv, TableOK
  <2>3. n \in Nums
    BY <2>1, <2>2, ShapedIs DEF Nums
  <2>. QED
    BY <2>1, <2>2, <2>3 DEF Indexed, At
<1>. QED
  BY <1>1, SpecInvariant, PTL

\* No object number of the file is given to a new object.
THEOREM SpecNumbersNotReused == Spec => []NumbersNotReused
<1>1. IInv => NumbersNotReused
  <2>1. SUFFICES ASSUME IInv, NEW k \in DOMAIN file, NEW n \in Nums,
                        file[k].e[n].type # "none"
                 PROVE  n <= table.len
    BY DEF NumbersNotReused
  <2>2. Shaped(table) /\ Measured(table) /\ FileOK(file) /\ Loaded(table, file)
    BY <2>1 DEF IInv, TableOK
  <2>3. /\ k \in 1..Len(file) /\ Len(file) \in Nat /\ table.ninc \in Nat
        /\ Len(table.sections) = table.ninc + Len(file)
        /\ n \in Nat /\ table.len \in Nat
    BY <2>1, <2>2, ShapedIs DEF FileOK, Loaded, Nums
  <2>. DEFINE j == Len(file) + 1 - k
              i == table.ninc + j
  <2>4. j \in 1..Len(file) /\ Len(file) + 1 - j = k /\ i \in 1..Len(table.sections)
    BY <2>3
  <2>5. At(table, i, n) = file[Len(file) + 1 - j].e[n]
    BY <2>2, <2>4 DEF Loaded
  <2>6. At(table, i, n).type # "none"
    BY <2>1, <2>4, <2>5
  <2>. HIDE DEF i
  <2>7. /\ n <= table.sections[i].len /\ table.sections[i].len <= table.len
        /\ table.sections[i].len \in 0..MaxNum /\ MaxNum \in Nat
    BY <2>2, <2>4, <2>6, ShapedIs DEF Measured
  <2>. QED
    BY <2>3, <2>7
<1>. QED
  BY <1>1, SpecInvariant, PTL

\* What the document shows of an object is what its newest entry holds.
LEMMA DocumentIs ==
  ASSUME IInv, out = <<>>, trust, NEW n \in Nums
  PROVE  Document[n] = Held(Latest(table.sections, n))
<1>1. /\ TableOK(table) /\ Shaped(table) /\ Indexed(table) /\ table.base = 1
  BY DEF IInv, Idle, TableOK
<1>. DEFINE L == Len(table.sections)
            w == Where(table, n)
            D == Defining(table, 1, n)
<1>2. L \in Nat /\ 1 \in 1..L /\ w \in 1..L
  BY <1>1, ShapedIs, FindIs
<1>3. Document[n] = IF Deleted(table, n) THEN None ELSE Held(At(table, w, n))
  BY DEF Document, Entry, At
<1>4. /\ D \in SUBSET Nat
      /\ \A x : x \in D <=> x \in 1..L /\ 1 <= x /\ At(table, x, n).type # "none"
  BY <1>1, <1>2, DefiningIs
<1>5. Deleted(table, n) <=> D # {} /\ At(table, Least(D), n).type = "f"
  BY DEF Deleted, At
<1>6. \A i \in 1..L : At(table, i, n) \in Entries /\ Tidy(At(table, i, n))
  BY <1>1, ShapedIs DEF TableOK, Measured
<1>. HIDE DEF D, L, w
<1>7. CASE \A i \in 1..L : At(table, i, n).type = "none"
  <2>1. D = {} /\ At(table, w, n).type = "none"
    BY <1>2, <1>4, <1>7
  <2>2. Latest(table.sections, n) = Blank
    BY <1>1, <1>7, LatestIs DEF L
  <2>3. Held(At(table, w, n)) = None /\ Held(Blank) = None
    BY <2>1, BlankOK DEF Held, Known
  <2>. QED
    BY <1>3, <1>5, <2>1, <2>2, <2>3
<1>8. ASSUME NEW i \in 1..L, At(table, i, n).type # "none",
             \A j \in 1..i - 1 : At(table, j, n).type = "none"
      PROVE  Document[n] = Held(Latest(table.sections, n))
  <2>1. Latest(table.sections, n) = At(table, i, n)
    BY <1>1, <1>8, LatestIs DEF L
  <2>2. i \in D
    BY <1>2, <1>4, <1>8
  <2>3. ASSUME NEW x \in D PROVE i <= x
    <3>1. x \in 1..L /\ x \notin 1..i - 1
      BY <1>4, <1>8
    <3>. QED
      BY <1>2, <3>1
  <2>4. Least(D) = i
    BY <1>4, <2>2, <2>3, LeastIs
  <2>5. CASE At(table, i, n).type = "f"
    <3>1. Held(At(table, i, n)) = None
      BY <2>5 DEF Held, Known
    <3>. QED
      BY <1>3, <1>5, <2>1, <2>2, <2>4, <2>5, <3>1
  <2>6. CASE At(table, i, n).type # "f"
    <3>1. ~Deleted(table, n)
      BY <1>5, <2>4, <2>6
    <3>2. At(table, i, n).type = "n"
      BY <1>6, <1>8, <2>6 DEF Entries
    <3>3. w = i
      BY <1>1, <1>8, <3>2, FindIs DEF Newest, L, w
    <3>. QED
      BY <1>3, <2>1, <3>1, <3>3
  <2>. QED
    BY <2>5, <2>6
<1>9. \/ \A i \in 1..L : At(table, i, n).type = "none"
      \/ \E i \in 1..L : /\ At(table, i, n).type # "none"
                         /\ \A j \in 1..i - 1 : At(table, j, n).type = "none"
  BY <1>1, FirstEntry DEF L
<1>. QED
  BY <1>7, <1>8, <1>9

\* Each object is what it was last set to, as long as a document gets no more
\* than two increments: an object that only the first of three has is taken
\* for a free one when the last is written.
THEOREM SpecFindsLastChange ==
  ASSUME MaxIncrements <= 2
  PROVE  Spec => []FindsLastChange
<1>1. IInv => FindsLastChange
  <2>1. SUFFICES ASSUME IInv, out = <<>>, trust
                 PROVE  Document = written
    BY DEF FindsLastChange
  <2>2. Found /\ Typed
    BY <2>1 DEF IInv
  <2>3. \A n \in Nums : Held(Latest(table.sections, n)) = written[n]
    BY <2>1, <2>2, XrefAssumption DEF Found
  <2>4. \A n \in Nums : Document[n] = written[n]
    BY <2>1, <2>3, DocumentIs
  <2>5. Document = [n \in Nums |-> Document[n]]
    BY DEF Document
  <2>6. written = [n \in Nums |-> written[n]]
    BY <2>2 DEF Typed
  <2>. QED
    BY <2>4, <2>5, <2>6
<1>. QED
  BY <1>1, SpecInvariant, PTL

\* With any number of increments: what an object was before its last change is
\* never found.  It may be lost, but does not come back.
NothingStale ==
  out = <<>> /\ trust => \A n \in Nums : Document[n] \in {written[n], None}

THEOREM SpecNothingStale == Spec => []NothingStale
<1>1. IInv => NothingStale
  <2>1. SUFFICES ASSUME IInv, out = <<>>, trust, NEW n \in Nums
                 PROVE  Document[n] \in {written[n], None}
    BY DEF NothingStale
  <2>. QED
    BY <2>1, DocumentIs DEF IInv, Found
<1>. QED
  BY <1>1, SpecInvariant, PTL

-----------------------------------------------------------------------------
(* Versions.                                                               *)

\* Two stacks of sections whose entries of an object agree in type and value
\* show the same of it.
LEMMA SameAt ==
  ASSUME NEW S, NEW a \in Seq(S), NEW T, NEW b \in Seq(T), Len(a) = Len(b), NEW n \in Nums,
         \A i \in 1..Len(a) :
           /\ a[i].e[n].type = b[i].e[n].type
           /\ a[i].e[n].type = "n" => a[i].e[n].val = b[i].e[n].val
  PROVE  Version(a)[n] = Version(b)[n]
<1>. DEFINE D == {i \in DOMAIN a : a[i].e[n].type # "none"}
            E == {i \in DOMAIN b : b[i].e[n].type # "none"}
<1>1. D = E /\ D \in SUBSET Nat /\ D \subseteq 1..Len(a)
  OBVIOUS
<1>2. /\ Latest(a, n) = IF D = {} THEN Blank ELSE a[Least(D)].e[n]
      /\ Latest(b, n) = IF E = {} THEN Blank ELSE b[Least(E)].e[n]
  BY DEF Latest
<1>3. /\ Version(a)[n] = IF Known(Latest(a, n)) THEN Latest(a, n).val ELSE None
      /\ Version(b)[n] = IF Known(Latest(b, n)) THEN Latest(b, n).val ELSE None
  BY DEF Version
<1>. HIDE DEF D, E
<1>4. CASE D = {}
  BY <1>1, <1>2, <1>3, <1>4
<1>5. CASE D # {}
  <2>1. Least(D) \in D /\ Least(D) = Least(E)
    BY <1>1, <1>5, LeastIn
  <2>. HIDE DEF Least
  <2>2. /\ a[Least(D)].e[n].type = b[Least(D)].e[n].type
        /\ a[Least(D)].e[n].type = "n" => a[Least(D)].e[n].val = b[Least(D)].e[n].val
    BY <1>1, <2>1
  <2>. QED
    BY <1>1, <1>2, <1>3, <1>5, <2>1, <2>2 DEF Known
<1>. QED
  BY <1>4, <1>5

\* A stack without contents for an object shows nothing of it.
LEMMA NothingAt ==
  ASSUME NEW S, NEW a \in Seq(S), NEW n \in Nums,
         \A i \in 1..Len(a) : ~Known(a[i].e[n])
  PROVE  Version(a)[n] = None
<1>. DEFINE D == {i \in DOMAIN a : a[i].e[n].type # "none"}
<1>1. D \in SUBSET Nat /\ D \subseteq 1..Len(a)
  OBVIOUS
<1>2. Latest(a, n) = IF D = {} THEN Blank ELSE a[Least(D)].e[n]
  BY DEF Latest
<1>3. Version(a)[n] = IF Known(Latest(a, n)) THEN Latest(a, n).val ELSE None
  BY DEF Version
<1>4. ~Known(Blank)
  BY BlankOK DEF Known
<1>. HIDE DEF D
<1>5. D # {} => Least(D) \in D
  BY <1>1, LeastIn
<1>. QED
  BY <1>1, <1>2, <1>3, <1>4, <1>5

\* Section i of table u and section j of table t agree in types and values.
Like(u, i, t, j) ==
  \A n \in Nums : /\ At(u, i, n).type = At(t, j, n).type
                  /\ At(u, i, n).type = "n" => At(u, i, n).val = At(t, j, n).val

\* Stack a has the sections of table t from the one of number j on.
Suffix(a, t, j) ==
  /\ a \in Seq(Section) /\ Len(a) = Len(t.sections) + 1 - j
  /\ \A i \in 1..Len(t.sections) + 1 - j : \A n \in Nums :
       a[i].e[n] = At(t, i + j - 1, n)

LEMMA SuffixIs ==
  ASSUME NEW t, Shaped(t), NEW j \in 1..Len(t.sections)
  PROVE  Suffix(SubSeq(t.sections, j, Len(t.sections)), t, j)
<1>. DEFINE a == SubSeq(t.sections, j, Len(t.sections))
<1>1. t.sections \in Seq(Section) /\ Len(t.sections) \in Nat
  BY ShapedIs
<1>2. /\ a \in Seq(Section) /\ Len(a) = Len(t.sections) + 1 - j
      /\ \A i \in 1..Len(t.sections) + 1 - j : a[i] = t.sections[i + j - 1]
  BY <1>1
<1>. QED
  BY <1>2 DEF Suffix, At

\* Version has a value for every object.
LEMMA VersionIs ==
  ASSUME NEW a, NEW b, \A n \in Nums : Version(a)[n] = Version(b)[n]
  PROVE  Version(a) = Version(b)
BY DEF Version

\* What a version may show.
Shows == [Nums -> Vals \cup {None}]

LEMMA VersionIn ==
  ASSUME NEW S, NEW a \in Seq(S), \A i \in 1..Len(a) : \A n \in Nums : a[i].e[n] \in Entries
  PROVE  Version(a) \in Shows
<1>1. SUFFICES ASSUME NEW n \in Nums
               PROVE  Version(a)[n] \in Vals \cup {None}
  BY DEF Version, Shows
<1>. DEFINE D == {i \in DOMAIN a : a[i].e[n].type # "none"}
            e == Latest(a, n)
<1>2. e = IF D = {} THEN Blank ELSE a[Least(D)].e[n]
  BY DEF Latest
<1>3. D \in SUBSET Nat /\ D \subseteq 1..Len(a)
  OBVIOUS
<1>. HIDE DEF D
<1>4. D # {} => Least(D) \in 1..Len(a)
  BY <1>3, LeastIn
<1>5. e \in Entries
  <2>1. CASE D = {}
    BY <1>2, <2>1, BlankOK
  <2>2. CASE D # {}
    <3>1. PICK i : i = Least(D)
      OBVIOUS
    <3>. QED
      BY <1>2, <1>4, <2>2, <3>1, Zenon
  <2>. QED
    BY <2>1, <2>2
<1>6. Version(a)[n] = IF Known(e) THEN e.val ELSE None
  BY DEF Version
<1>7. e.val \in Vals \cup {None}
  BY <1>5 DEF Entries
<1>. QED
  BY <1>6, <1>7

LEMMA VersionFromIn ==
  ASSUME NEW t, Shaped(t), NEW j \in 1..Len(t.sections)
  PROVE  VersionFrom(t, j) \in Shows
<1>. DEFINE a == SubSeq(t.sections, j, Len(t.sections))
<1>1. Suffix(a, t, j)
  BY SuffixIs
<1>. HIDE DEF a
<1>2. a \in Seq(Section) /\ \A i \in 1..Len(a) : a[i] \in Section
  BY <1>1 DEF Suffix
<1>3. \A i \in 1..Len(a) : \A n \in Nums : a[i].e[n] \in Entries
  BY <1>2 DEF Section
<1>. QED
  BY <1>2, <1>3, VersionIn DEF VersionFrom, a

LEMMA SameFrom ==
  ASSUME NEW t, Shaped(t), NEW u, Shaped(u), NEW d \in {0, 1},
         Len(u.sections) = Len(t.sections) + d, NEW j \in 1..Len(t.sections),
         \A i \in j..Len(t.sections) : Like(u, i + d, t, i)
  PROVE  VersionFrom(u, j + d) = VersionFrom(t, j)
<1>. DEFINE a == SubSeq(u.sections, j + d, Len(u.sections))
            b == SubSeq(t.sections, j, Len(t.sections))
            L == Len(t.sections)
<1>1. L \in Nat /\ j + d \in 1..Len(u.sections)
  BY ShapedIs
<1>2. /\ a \in Seq(Section) /\ Len(a) = L + 1 - j
      /\ \A i \in 1..L + 1 - j : \A n \in Nums : a[i].e[n] = At(u, i + j - 1 + d, n)
  <2>1. /\ a \in Seq(Section) /\ Len(a) = Len(u.sections) + 1 - (j + d)
        /\ \A i \in 1..Len(u.sections) + 1 - (j + d) : \A n \in Nums :
             a[i].e[n] = At(u, i + (j + d) - 1, n)
    <3>1. Suffix(a, u, j + d)
      BY <1>1, SuffixIs
    <3>. QED
      BY <3>1 DEF Suffix
  <2>2. Len(u.sections) + 1 - (j + d) = L + 1 - j
    BY <1>1
  <2>3. \A i \in 1..L + 1 - j : i + (j + d) - 1 = i + j - 1 + d
    BY <1>1
  <2>. QED
    BY <2>1, <2>2, <2>3
<1>3. /\ b \in Seq(Section) /\ Len(b) = L + 1 - j
      /\ \A i \in 1..L + 1 - j : \A n \in Nums : b[i].e[n] = At(t, i + j - 1, n)
  <2>1. Suffix(b, t, j)
    BY SuffixIs
  <2>. QED
    BY <2>1 DEF Suffix
<1>. HIDE DEF a, b, L
<1>4. ASSUME NEW i \in 1..Len(a), NEW n \in Nums
      PROVE  /\ a[i].e[n].type = b[i].e[n].type
             /\ a[i].e[n].type = "n" => a[i].e[n].val = b[i].e[n].val
  <2>1. i \in 1..L + 1 - j /\ i + j - 1 \in j..L
    BY <1>1, <1>2
  <2>2. Like(u, i + j - 1 + d, t, i + j - 1)
    BY <2>1 DEF L
  <2>3. a[i].e[n] = At(u, i + j - 1 + d, n) /\ b[i].e[n] = At(t, i + j - 1, n)
    BY <1>2, <1>3, <2>1
  <2>4. /\ At(u, i + j - 1 + d, n).type = At(t, i + j - 1, n).type
        /\ At(u, i + j - 1 + d, n).type = "n"
             => At(u, i + j - 1 + d, n).val = At(t, i + j - 1, n).val
    BY <2>2 DEF Like
  <2>. QED
    BY <2>3, <2>4
<1>5. ASSUME NEW n \in Nums PROVE Version(a)[n] = Version(b)[n]
  <2>1. Len(a) = Len(b) /\ a \in Seq(Section) /\ b \in Seq(Section)
    BY <1>2, <1>3
  <2>2. \A i \in 1..Len(a) :
           /\ a[i].e[n].type = b[i].e[n].type
           /\ a[i].e[n].type = "n" => a[i].e[n].val = b[i].e[n].val
    BY <1>4
  <2>. QED
    BY <2>1, <2>2, SameAt
<1>6. Version(a) = Version(b)
  BY <1>5, VersionIs
<1>. QED
  BY <1>6 DEF VersionFrom, a, b

\* The version from the first section on is the one the table has now.
LEMMA WholeVersion ==
  ASSUME NEW t, Shaped(t)
  PROVE  VersionFrom(t, 1) = Version(t.sections)
<1>1. t.sections \in Seq(Section) /\ Len(t.sections) \in Nat
  BY ShapedIs
<1>2. SubSeq(t.sections, 1, Len(t.sections)) = t.sections
  BY <1>1
<1>. QED
  BY <1>2 DEF VersionFrom

-----------------------------------------------------------------------------
(* What an edit does to the increments.                                    *)

\* Table u is t after a change: d new sections have been put on it, and those
\* below the top one are what they were.
Grown(u, t, d) ==
  /\ d = IF NeedsSection(t) THEN 1 ELSE 0
  /\ Len(u.sections) = Len(t.sections) + d /\ u.ninc = t.ninc + d
  /\ d = 1 => ~u.sections[1].sigs
  /\ \A i \in 1..Len(t.sections) :
       /\ u.sections[i + d].sigs = t.sections[i].sigs
       /\ i + d # 1 => Like(u, i + d, t, i)

LEMMA PutGrows ==
  ASSUME NEW t, Shaped(t), t.base = 1, NEW n \in Nums, NEW x \in Entries,
         NEW u, Put(u, EnsureIncrementalXref(t), n, x)
  PROVE  \E d \in {0, 1} : Grown(u, t, d)
<1>. DEFINE s == EnsureIncrementalXref(t)
            d == IF NeedsSection(t) THEN 1 ELSE 0
<1>0. /\ d \in {0, 1} /\ (NeedsSection(t) => d = 1) /\ (~NeedsSection(t) => d = 0)
      /\ d = IF NeedsSection(t) THEN 1 ELSE 0
  OBVIOUS
<1>1. /\ Shaped(s) /\ Len(t.sections) \in Nat /\ t.ninc \in Nat /\ Len(s.sections) \in Nat
      /\ t.ninc + 0 = t.ninc /\ Len(t.sections) + 0 = Len(t.sections)
      /\ \A i \in 1..Len(t.sections) : i + 0 = i
  <2>1. Shaped(s)
    BY EnsureShaped
  <2>. QED
    BY <2>1, ShapedIs
<1>. HIDE DEF d
<1>2. /\ Len(s.sections) = Len(t.sections) + d /\ s.ninc = t.ninc + d /\ s.base = 1
      /\ d = 1 => ~s.sections[1].sigs
      /\ \A i \in 1..Len(t.sections) : s.sections[i + d] = t.sections[i]
  <2>1. CASE NeedsSection(t)
    BY <1>0, <1>1, <2>1, EnsureIs DEF Pushed
  <2>2. CASE ~NeedsSection(t)
    <3>1. s = t /\ d = 0
      BY <1>0, <2>2, EnsureIs
    <3>. QED
      BY <1>1, <3>1, ShapedIs, EnsureShaped
  <2>. QED
    BY <2>1, <2>2
<1>. HIDE DEF s
<1>4. /\ Len(u.sections) = Len(t.sections) + d /\ u.ninc = t.ninc + d
      /\ \A i \in 1..Len(s.sections) : u.sections[i].sigs = s.sections[i].sigs
  BY <1>1, <1>2 DEF Put, s
<1>5. d = 1 => ~u.sections[1].sigs
  BY <1>1, <1>2, <1>4
<1>6. ASSUME NEW i \in 1..Len(t.sections)
      PROVE  /\ u.sections[i + d].sigs = t.sections[i].sigs
             /\ i + d # 1 => Like(u, i + d, t, i)
  <2>1. i + d \in 1..Len(s.sections) /\ s.sections[i + d] = t.sections[i]
    <3>1. CASE d = 0
      BY <1>1, <1>2, <3>1
    <3>2. CASE d = 1
      BY <1>1, <1>2, <3>2
    <3>. QED
      BY <1>0, <3>1, <3>2
  <2>2. ASSUME i + d # 1, NEW m \in Nums
        PROVE  /\ At(u, i + d, m).type = At(t, i, m).type
               /\ At(u, i + d, m).val = At(t, i, m).val
    <3>1. At(s, i + d, m) = At(t, i, m)
      BY <2>1 DEF At
    <3>2. /\ At(u, i + d, m).type = At(s, i + d, m).type
          /\ At(u, i + d, m).val = At(s, i + d, m).val
      BY <1>1, <1>2, <2>1, <2>2, PutTypes DEF s
    <3>. QED
      BY <3>1, <3>2
  <2>3. u.sections[i + d].sigs = t.sections[i].sigs
    BY <1>4, <2>1
  <2>. QED
    BY <2>2, <2>3 DEF Like
<1>8. Grown(u, t, d)
  BY <1>4, <1>5, <1>6, <1>0 DEF Grown
<1>. QED
  BY <1>0, <1>8

LEMMA StreamGrows ==
  ASSUME NEW t, TableOK(t), t.base = 1, NEW n \in Nums, NEW i, Newest(t, n, i),
         NEW c \in Data
  PROVE  \E d \in {0, 1} : Grown(UpdateStream(t, n, c), t, d)
<1>. DEFINE e == At(t, i, n)
            y == [e EXCEPT !.buf = c]
            l == Look(t, n)
            t1 == [l EXCEPT !.sections[Where(l, n)].e[n].buf = c]
            s1 == EnsureIncrementalXref(t1)
            u == UpdateStream(t, n, c)
<1>1. /\ Shaped(t) /\ i \in 1..Len(t.sections) /\ Len(t.sections) \in Nat
      /\ e \in Entries /\ Tidy(e) /\ e.type = "n"
  BY ShapedIs DEF TableOK, Measured, Newest, Shaped
<1>2. y \in Entries /\ Tidy(y) /\ y.type = "n" /\ y.val = e.val
  <2>. HIDE DEF e
  <2>. QED
    BY <1>1, EntryChanged
<1>3. /\ TableOK(l) /\ Shaped(l) /\ Indexed(l) /\ l \in Tables
      /\ Reindexed(l, t) /\ l.sections = t.sections /\ l.base = 1
  <2>1. TableOK(l) /\ Reindexed(l, t)
    BY LookKeeps, LookIs
  <2>. QED
    BY <2>1 DEF TableOK, Shaped, Reindexed
<1>. HIDE DEF l
<1>4. Newest(l, n, i) /\ At(l, i, n) = e
  BY <1>3 DEF Newest, At
<1>5. Where(l, n) = i
  BY <1>3, <1>4, FindIs
<1>6. Sets(t1, l, i, n, [At(l, i, n) EXCEPT !.buf = c])
  BY <1>1, <1>3, <1>5, SettingFields
<1>. HIDE DEF t1
<1>7. Sets(t1, l, i, n, y)
  BY <1>4, <1>6
<1>8. TableOK(t1)
  BY <1>1, <1>2, <1>3, <1>4, <1>7, SetsKeeps
<1>. HIDE DEF y, e
<1>9. /\ t1.base = 1 /\ t1.ninc = t.ninc /\ Len(t1.sections) = Len(t.sections)
      /\ t1.closed = t.closed
      /\ \A j \in 1..Len(t.sections) : t1.sections[j].sigs = t.sections[j].sigs
      /\ \A j \in 1..Len(t.sections) : \A m \in Nums :
           At(t1, j, m) = IF j = i /\ m = n THEN y ELSE At(t, j, m)
  <2>1. \A j : \A m : At(l, j, m) = At(t, j, m)
    BY <1>3 DEF At
  <2>. QED
    BY <1>3, <1>7, <2>1 DEF Sets, Reindexed
<1>10. \A j \in 1..Len(t.sections) : Like(t1, j, t, j)
  BY <1>1, <1>2, <1>9 DEF Like, e
<1>11. Newest(t1, n, i)
  <2>1. \A j \in 1..i - 1 : j \in 1..Len(t.sections) /\ j # i
    BY <1>1
  <2>. QED
    BY <1>1, <1>2, <1>9, <2>1 DEF Newest
<1>12. /\ TableOK(s1) /\ Shaped(t1) /\ Shaped(s1) /\ s1.base = 1
       /\ \E k : Newest(s1, n, k) /\ At(s1, k, n) = At(t1, i, n)
  BY <1>8, <1>9, <1>11, TopEntry DEF TableOK
<1>13. u = EnsureIncrementalObject(t1, n)
  BY DEF UpdateStream, t1, l
<1>. HIDE DEF u
<1>14. Put(u, s1, n, y)
  <2>1. PICK k : Newest(s1, n, k) /\ At(s1, k, n) = At(t1, i, n)
    BY <1>12
  <2>2. At(s1, k, n) = y
    BY <1>1, <1>9, <2>1
  <2>. QED
    BY <1>12, <1>13, <2>1, <2>2, MoveIs
<1>15. PICK d \in {0, 1} : Grown(u, t1, d)
  BY <1>2, <1>9, <1>12, <1>14, PutGrows
<1>16. NeedsSection(t1) <=> NeedsSection(t)
  <2>1. 1 \in 1..Len(t.sections)
    BY <1>1, ShapedIs
  <2>. QED
    BY <1>9, <2>1 DEF NeedsSection
<1>17. ASSUME NEW j \in 1..Len(t.sections), j + d # 1
       PROVE  Like(u, j + d, t, j)
  <2>1. Like(u, j + d, t1, j) /\ Like(t1, j, t, j)
    BY <1>9, <1>10, <1>15, <1>17 DEF Grown
  <2>. QED
    BY <2>1 DEF Like
<1>18. Grown(u, t, d)
  BY <1>9, <1>15, <1>16, <1>17 DEF Grown
<1>. QED
  BY <1>18 DEF u

LEMMA GrownOn ==
  ASSUME NEW t, Shaped(t), NEW s, Shaped(s), NEW u, NEW d \in {0, 1}, Grown(s, t, d),
         ~NeedsSection(s), NEW e, Grown(u, s, e)
  PROVE  Grown(u, t, d)
<1>1. /\ e = 0 /\ Len(s.sections) \in Nat /\ Len(t.sections) \in Nat
      /\ s.ninc \in Nat /\ 1 \in 1..Len(s.sections)
  BY ShapedIs DEF Grown
<1>2. /\ Len(u.sections) = Len(s.sections) /\ u.ninc = s.ninc
      /\ \A i \in 1..Len(s.sections) :
           /\ u.sections[i].sigs = s.sections[i].sigs
           /\ i # 1 => Like(u, i, s, i)
  <2>1. /\ Len(u.sections) = Len(s.sections) + 0 /\ u.ninc = s.ninc + 0
        /\ \A i \in 1..Len(s.sections) :
             /\ u.sections[i + 0].sigs = s.sections[i].sigs
             /\ i + 0 # 1 => Like(u, i + 0, s, i)
    BY <1>1 DEF Grown
  <2>2. \A i \in 1..Len(s.sections) : i + 0 = i
    BY <1>1
  <2>. QED
    BY <1>1, <2>1, <2>2
<1>3. ASSUME NEW i \in 1..Len(t.sections)
      PROVE  /\ u.sections[i + d].sigs = t.sections[i].sigs
             /\ i + d # 1 => Like(u, i + d, t, i)
  <2>1. i + d \in 1..Len(s.sections)
    <3>1. Len(s.sections) = Len(t.sections) + d
      BY DEF Grown
    <3>. QED
      BY <1>1, <3>1
  <2>2. i + d # 1 => Like(u, i + d, s, i + d) /\ Like(s, i + d, t, i)
    BY <1>2, <2>1 DEF Grown
  <2>. QED
    BY <1>2, <2>1, <2>2 DEF Grown, Like
<1>. QED
  BY <1>1, <1>2, <1>3 DEF Grown

\* Table z is b with its top section marked as signed.
Marked(z, b) ==
  /\ TableOK(z) /\ TableOK(b) /\ z.base = 1 /\ Len(z.sections) = Len(b.sections)
  /\ z.ninc = b.ninc /\ z.closed = b.closed /\ z.sections[1].sigs
  /\ \A j \in 2..Len(b.sections) : z.sections[j].sigs = b.sections[j].sigs
  /\ \A j \in 1..Len(b.sections) : \A m \in Nums : At(z, j, m) = At(b, j, m)

LEMMA MarkIs ==
  ASSUME NEW b, TableOK(b), b.base = 1
  PROVE  Marked([b EXCEPT !.sections[1].sigs = TRUE], b)
<1>. DEFINE z == [b EXCEPT !.sections[1].sigs = TRUE]
            c == [b.sections[1] EXCEPT !.sigs = TRUE]
<1>1. /\ TableOK(z) /\ z.base = 1 /\ Len(z.sections) = Len(b.sections)
      /\ z.ninc = b.ninc /\ z.closed = b.closed
      /\ \A j \in 1..Len(b.sections) : \A m \in Nums : At(z, j, m) = At(b, j, m)
  BY MarkKeeps
<1>2. /\ b \in Tables /\ b.sections \in Seq(Section) /\ Len(b.sections) \in Nat
      /\ 1 \in 1..Len(b.sections) /\ b.sections[1] \in Section
  BY ShapedIs DEF TableOK, Shaped
<1>3. z.sections = [b.sections EXCEPT ![1] = c]
  BY <1>2 DEF Tables
<1>4. c.sigs
  BY <1>2 DEF Section
<1>. HIDE DEF z, c
<1>5. z.sections[1] = c /\ \A j \in 2..Len(b.sections) : z.sections[j] = b.sections[j]
  BY <1>2, <1>3
<1>6. Marked(z, b)
  BY <1>1, <1>4, <1>5 DEF Marked
<1>. QED
  BY <1>6 DEF z

LEMMA SignGrows ==
  ASSUME NEW t, TableOK(t), t.base = 1, t.len + 1 \in Nums, NEW f \in Nums,
         NEW i, Newest(t, f, i), NEW v \in Vals
  PROVE  \E b : /\ Marked(SetSignature(t, f, v), b) /\ Newest(SetSignature(t, f, v), f, 1)
                /\ \E d \in {0, 1} : Grown(b, t, d)
<1>. DEFINE n == t.len + 1
            e == At(t, i, f)
            c == CreateObject(t)
            a == AlterObject(c, f, v)
            b == UpdateObject(a, n, Signature)
            z == SetSignature(t, f, v)
            y == [FreeEntry EXCEPT !.type = "n", !.val = Signature]
<1>1. /\ f # n /\ TableOK(c) /\ Shaped(c) /\ c.base = 1
      /\ EnsureIncrementalXref(c) = c
      /\ At(c, 1, n) = FreeEntry
      /\ \A j \in 2..Len(c.sections) : At(c, j, n).type = "none"
      /\ \E k : Newest(c, f, k) /\ At(c, k, f) = e
  BY SignFirst DEF TableOK
<1>2. PICK d \in {0, 1} : Grown(c, t, d)
  <2>1. Shaped(t) /\ FreeEntry \in Entries
    BY BlankOK DEF TableOK
  <2>2. Put(c, EnsureIncrementalXref(t), n, FreeEntry)
    BY <2>1, ObjectsIs
  <2>. QED
    BY <2>1, <2>2, PutGrows
<1>. HIDE DEF c, e
<1>3. ~NeedsSection(c) /\ Len(c.sections) \in Nat /\ 1 \in 1..Len(c.sections)
  BY <1>1, EnsureShaped, ShapedIs
<1>4. PICK k : Newest(c, f, k) /\ At(c, k, f) = e
  BY <1>1
<1>. DEFINE x == [At(c, k, f) EXCEPT !.val = v]
<1>5. Edited(a, c, f, x) /\ Put(a, c, f, x) /\ x.type = "n"
  BY <1>1, <1>4, AlterEdits
<1>6. x \in Entries
  <2>1. At(c, k, f) \in Entries
    BY <1>1, <1>4, ShapedIs DEF Newest
  <2>. QED
    BY <2>1 DEF Entries
<1>. HIDE DEF a, x
<1>7. /\ TableOK(a) /\ Shaped(a) /\ a.base = 1 /\ ~NeedsSection(a)
      /\ EnsureIncrementalXref(a) = a /\ At(a, 1, f) = x
  <2>1. TableOK(a) /\ Shaped(a) /\ a.base = 1 /\ At(a, 1, f) = x
    BY <1>5 DEF Edited, Follows, TableOK
  <2>2. ~NeedsSection(a)
    BY <1>1, <1>3, <1>5, PutShaped
  <2>. QED
    BY <2>1, <2>2, EnsureIs
<1>8. Grown(a, t, d)
  <2>1. \E g \in {0, 1} : Grown(a, c, g)
    BY <1>1, <1>5, <1>6, PutGrows
  <2>. QED
    BY <1>1, <1>2, <1>3, <2>1, GrownOn DEF TableOK
<1>9. n \in Nums /\ Signature \in Vals
  BY DEF Vals
<1>. HIDE DEF n
<1>10. /\ At(a, 1, n) = FreeEntry
       /\ \A j \in 2..Len(a.sections) : At(a, j, n).type # "f"
  <2>1. /\ Len(a.sections) = Len(c.sections)
        /\ \A j \in 1..Len(c.sections) : At(a, j, n) = At(c, j, n)
    BY <1>1, <1>5, <1>9 DEF Put
  <2>2. \A j \in 2..Len(a.sections) : j \in 1..Len(c.sections) /\ j \in 2..Len(c.sections)
    BY <1>3, <2>1
  <2>. QED
    BY <1>1, <1>3, <2>1, <2>2
<1>11. Put(b, a, n, y)
  <2>1. Put(UpdateObject(a, n, Signature), EnsureIncrementalXref(a), n,
            [At(EnsureIncrementalXref(a), EnsureIncrementalXref(a).base, n)
               EXCEPT !.type = "n", !.val = Signature])
    BY <1>7, <1>9, ObjectsIs
  <2>. QED
    BY <1>7, <1>10, <2>1
<1>12. y \in Entries /\ Tidy(y) /\ y.type = "n"
  BY <1>9, BlankOK, EntryChanged
<1>. HIDE DEF y, b
<1>13. Edited(b, a, n, y)
  BY <1>7, <1>9, <1>10, <1>11, <1>12, PutEdits
<1>14. TableOK(b) /\ b.base = 1 /\ At(b, 1, f) = x
  <2>1. 1 \in 1..Len(a.sections)
    BY <1>7, ShapedIs
  <2>2. At(b, 1, f) = At(a, 1, f)
    BY <1>1, <1>11, <2>1 DEF Put, n
  <2>. QED
    BY <1>7, <1>13, <2>2 DEF Edited, Follows
<1>15. Grown(b, t, d)
  <2>1. \E g \in {0, 1} : Grown(b, a, g)
    BY <1>7, <1>9, <1>11, <1>12, PutGrows
  <2>. QED
    BY <1>7, <1>8, <2>1, GrownOn DEF TableOK
<1>16. z = [b EXCEPT !.sections[1].sigs = TRUE]
  BY DEF SetSignature, b, a, c, n
<1>. HIDE DEF z
<1>17. Marked(z, b)
  BY <1>14, <1>16, MarkIs
<1>18. Newest(z, f, 1)
  <2>1. At(z, 1, f).type = "n" /\ TableOK(z)
    <3>1. 1 \in 1..Len(b.sections)
      BY <1>14, ShapedIs DEF TableOK
    <3>. QED
      BY <1>5, <1>14, <1>17, <3>1 DEF Marked
  <2>. QED
    BY <2>1, TopIsNewest
<1>19. Marked(z, b) /\ Newest(z, f, 1) /\ Grown(b, t, d)
  BY <1>15, <1>17, <1>18
<1>. QED
  BY <1>19 DEF z

\* An edit does not reach a signed version, and signs none.
LEMMA GrownSigned ==
  ASSUME NEW t, TableOK(t), NEW u, Shaped(u), NEW d \in {0, 1}, Grown(u, t, d),
         t.closed => t.ninc = 1 /\ ~t.sections[1].sigs
  PROVE  SignedVersions(u) = SignedVersions(t)
<1>1. /\ Shaped(t) /\ t.ninc \in Nat /\ Len(t.sections) \in Nat /\ t.ninc < Len(t.sections)
      /\ 1 \in 1..Len(t.sections) /\ t.closed \in BOOLEAN
      /\ t.closed => t.ninc > 0 /\ t.sections[1].sigs \in BOOLEAN
  BY ShapedIs DEF TableOK, Shaped
<1>2. /\ d = IF NeedsSection(t) THEN 1 ELSE 0
      /\ Len(u.sections) = Len(t.sections) + d /\ u.ninc = t.ninc + d
      /\ d = 1 => ~u.sections[1].sigs
      /\ u.sections[1 + d].sigs = t.sections[1].sigs
      /\ \A i \in 1..Len(t.sections) : i + d # 1 => Like(u, i + d, t, i)
  BY <1>1 DEF Grown
<1>3. Sealed(u) = Sealed(t)
  BY <1>1, <1>2 DEF Sealed, NeedsSection
<1>4. ASSUME NEW k \in 1..Sealed(t)
      PROVE  VersionFrom(u, u.ninc + 1 - k) = VersionFrom(t, t.ninc + 1 - k)
  <2>. DEFINE j == t.ninc + 1 - k
  <2>1. /\ j \in 1..Len(t.sections) /\ u.ninc + 1 - k = j + d
        /\ \A i \in j..Len(t.sections) : i \in 1..Len(t.sections) /\ i + d # 1
    BY <1>1, <1>2, <1>4 DEF Sealed, NeedsSection
  <2>2. \A i \in j..Len(t.sections) : Like(u, i + d, t, i)
    BY <1>2, <2>1
  <2>. HIDE DEF j
  <2>3. VersionFrom(u, j + d) = VersionFrom(t, j)
    BY <1>1, <1>2, <2>1, <2>2, SameFrom
  <2>. QED
    BY <2>1, <2>3 DEF j
<1>. QED
  BY <1>3, <1>4 DEF SignedVersions

-----------------------------------------------------------------------------
(* The versions of a file.                                                 *)

LEMMA PrefixIs ==
  ASSUME NEW f, FileOK(f), NEW k \in 1..Len(f)
  PROVE  LET a == Chain(SubSeq(f, 1, k)) IN
         /\ a \in Seq(FileSection) /\ Len(a) = k
         /\ \A i \in 1..k : a[i] = f[k + 1 - i]
<1>. DEFINE p == SubSeq(f, 1, k)
            a == Chain(p)
<1>1. f \in Seq(FileSection) /\ Len(f) \in Nat /\ k \in Nat /\ k <= Len(f) /\ k >= 1
  BY DEF FileOK
<1>2. /\ p \in Seq(FileSection) /\ Len(p) = k
      /\ \A i \in 1..k : i \in 1..Len(f) /\ p[i] = f[i]
  BY <1>1
<1>. HIDE DEF p
<1>3. p # <<>> /\ 1 \in 1..k /\ 1 \in 1..Len(f) /\ p[1] = f[1]
  BY <1>1, <1>2
<1>4. \A i \in 1..Len(p) : p[i].prev = i - 1
  BY <1>2 DEF FileOK
<1>5. \A i \in 1..Len(p) : \A n \in Nums : Tidy(p[i].e[n]) /\ p[i].e[n].buf = None
  BY <1>2 DEF FileOK
<1>6. ASSUME NEW n \in Nums, NEW i \in 1..Len(p), NEW j \in 1..i - 1, p[j].e[n].type = "f"
      PROVE  p[i].e[n].type # "n"
  <2>1. i \in 1..Len(f) /\ j \in 1..k /\ p[i] = f[i] /\ p[j] = f[j]
    BY <1>1, <1>2
  <2>. QED
    BY <1>6, <2>1 DEF FileOK
<1>7. \A n, m \in Nums : m <= n /\ p[1].e[n].type # "none" => p[1].e[m].type # "none"
  BY <1>3 DEF FileOK
<1>8. FileOK(p)
  BY <1>2, <1>3, <1>4, <1>5, <1>6, <1>7 DEF FileOK
<1>9. a = [i \in 1..k |-> p[k + 1 - i]]
  BY <1>2, <1>8, ChainIs
<1>. HIDE DEF a
<1>10. \A i \in 1..k : k + 1 - i \in 1..k /\ p[k + 1 - i] \in FileSection
  <2>1. \A i \in 1..k : k + 1 - i \in 1..k
    BY <1>1
  <2>. QED
    BY <1>2, <2>1
<1>11. a \in Seq(FileSection) /\ Len(a) = k
  BY <1>1, <1>9, <1>10
<1>12. \A i \in 1..k : a[i] = f[k + 1 - i]
  BY <1>2, <1>9, <1>10
<1>. QED
  BY <1>11, <1>12 DEF a, p

\* Sections j and up of table t say what the first k sections of file f say.
Says(t, j, f, k) ==
  \A i \in 1..k : \A n \in Nums :
    /\ f[k + 1 - i].e[n].type = At(t, i + j - 1, n).type
    /\ f[k + 1 - i].e[n].type = "n"
         => f[k + 1 - i].e[n].val = At(t, i + j - 1, n).val

\* The version a file has in its first k sections is the one a table has from
\* section j on, if these sections say the same.
LEMMA StoredFrom ==
  ASSUME NEW f, FileOK(f), NEW k \in 1..Len(f), NEW t, Shaped(t),
         NEW j \in 1..Len(t.sections), Len(t.sections) + 1 - j = k, Says(t, j, f, k)
  PROVE  Version(Chain(SubSeq(f, 1, k))) = VersionFrom(t, j)
<1>. DEFINE a == Chain(SubSeq(f, 1, k))
            b == SubSeq(t.sections, j, Len(t.sections))
<1>1. /\ a \in Seq(FileSection) /\ Len(a) = k
      /\ \A i \in 1..k : a[i] = f[k + 1 - i]
  BY PrefixIs
<1>2. /\ b \in Seq(Section) /\ Len(b) = k
      /\ \A i \in 1..k : \A n \in Nums : b[i].e[n] = At(t, i + j - 1, n)
  <2>1. /\ b \in Seq(Section) /\ Len(b) = Len(t.sections) + 1 - j
        /\ \A i \in 1..Len(t.sections) + 1 - j : \A n \in Nums :
             b[i].e[n] = At(t, i + j - 1, n)
    <3>1. Suffix(b, t, j)
      BY SuffixIs
    <3>. QED
      BY <3>1 DEF Suffix
  <2>. HIDE DEF b
  <2>. QED
    BY <2>1
<1>. HIDE DEF a, b
<1>3. ASSUME NEW n \in Nums PROVE Version(a)[n] = Version(b)[n]
  <2>1. \A i \in 1..Len(a) : /\ a[i].e[n].type = b[i].e[n].type
                             /\ a[i].e[n].type = "n" => a[i].e[n].val = b[i].e[n].val
    BY <1>1, <1>2 DEF Says
  <2>2. Len(a) = Len(b)
    BY <1>1, <1>2
  <2>. QED
    BY <1>1, <1>2, <2>1, <2>2, SameAt
<1>4. Version(a) = Version(b)
  BY <1>3, VersionIs
<1>. QED
  BY <1>4 DEF VersionFrom, a, b

\* What the file says is what the table says below its increments.
LEMMA LoadedVersion ==
  ASSUME NEW t, TableOK(t), NEW f, FileOK(f), Loaded(t, f), NEW k \in 1..Len(f)
  PROVE  /\ t.ninc + Len(f) + 1 - k \in 1..Len(t.sections)
         /\ Version(Chain(SubSeq(f, 1, k))) = VersionFrom(t, t.ninc + Len(f) + 1 - k)
<1>. DEFINE L == Len(f)
            j == t.ninc + L + 1 - k
<1>1. Shaped(t) /\ t.ninc \in Nat /\ L \in Nat /\ Len(t.sections) = t.ninc + L
  BY ShapedIs DEF TableOK, FileOK, Loaded
<1>2. j \in 1..Len(t.sections) /\ Len(t.sections) + 1 - j = k
  BY <1>1
<1>3. ASSUME NEW i \in 1..k, NEW n \in Nums
      PROVE  f[k + 1 - i].e[n] = At(t, i + j - 1, n)
  <2>. DEFINE p == L + i - k
  <2>1. p \in 1..L /\ t.ninc + p = i + j - 1 /\ L + 1 - p = k + 1 - i
    BY <1>1
  <2>2. At(t, t.ninc + p, n) = f[L + 1 - p].e[n]
    BY <2>1 DEF Loaded
  <2>. QED
    BY <2>1, <2>2
<1>. HIDE DEF j
<1>4. Says(t, j, f, k)
  BY <1>3 DEF Says
<1>5. Version(Chain(SubSeq(f, 1, k))) = VersionFrom(t, j)
  BY <1>1, <1>2, <1>4, StoredFrom
<1>. QED
  BY <1>2, <1>5 DEF j

\* The last version of a file is what it shows when it is opened.
LEMMA LastOfFile ==
  ASSUME NEW f, FileOK(f)
  PROVE  /\ Len(FileVersions(f)) = Len(f) /\ Len(f) > 0
         /\ FileVersions(f) \in Seq(Shows)
         /\ R!Last(FileVersions(f)) = Version(Chain(f))
         /\ R!Shown(Contents(f)) = Version(Chain(f))
<1>1. f \in Seq(FileSection) /\ Len(f) \in Nat /\ Len(f) > 0
  BY DEF FileOK
<1>. DEFINE L == Len(f)
            F == FileVersions(f)
<1>2. SubSeq(f, 1, L) = f
  BY <1>1
<1>3. ASSUME NEW k \in 1..L
      PROVE  Version(Chain(SubSeq(f, 1, k))) \in Shows
  <2>. DEFINE a == Chain(SubSeq(f, 1, k))
  <2>1. a \in Seq(FileSection)
    BY PrefixIs
  <2>. HIDE DEF a
  <2>2. \A i \in 1..Len(a) : a[i] \in FileSection
    BY <2>1
  <2>3. \A i \in 1..Len(a) : \A n \in Nums : a[i].e[n] \in Entries
    BY <2>2 DEF FileSection
  <2>. QED
    BY <2>1, <2>3, VersionIn DEF a
<1>4. F = [k \in 1..L |-> Version(Chain(SubSeq(f, 1, k)))]
  BY <1>1 DEF FileVersions
<1>5. F \in Seq(Shows) /\ Len(F) = L
  BY <1>1, <1>3, <1>4
<1>6. R!Last(F) = F[Len(F)]
  BY DEF R!Last
<1>7. R!Last(F) = Version(Chain(f))
  <2>1. L \in 1..L
    BY <1>1
  <2>. QED
    BY <1>2, <1>4, <1>5, <1>6, <2>1
<1>8. ASSUME NEW n \in Nums
      PROVE  R!Shown(Contents(f))[n] = Version(Chain(f))[n]
  <2>. DEFINE e == Latest(Chain(f), n)
              o == Contents(f)
  <2>1. Version(Chain(f))[n] = IF Known(e) THEN e.val ELSE None
    BY DEF Version
  <2>2. R!Shown(o)[n] = IF o[n] = None THEN None ELSE o[n].val
    BY DEF R!Shown
  <2>3. o[n] = IF Known(e) THEN [val |-> e.val, stm |-> Stream(e)] ELSE None
    BY DEF Contents, Held
  <2>4. o \in [Nums -> Holdings]
    BY OpenedIs
  <2>. HIDE DEF e, o
  <2>5. CASE Known(e)
    <3>1. o[n] # None
      <4>1. o[n] = [val |-> e.val, stm |-> Stream(e)]
        BY <2>3, <2>5
      <4>2. e \in Entries /\ Tidy(e)
        <5>1. PICK t : t = LoadXref(f)
          OBVIOUS
        <5>2. TableOK(t) /\ e = Latest(t.sections, n)
          BY <5>1, OpenedIs, DiskIs DEF e
        <5>. QED
          BY <5>2, LatestIn
      <4>3. Held(e) # None
        BY <2>5, <4>2, HeldIs DEF Known
      <4>. QED
        BY <2>5, <4>1, <4>3 DEF Held
    <3>. QED
      BY <2>1, <2>2, <2>3, <2>5, <3>1 DEF e, o
  <2>6. CASE ~Known(e)
    BY <2>1, <2>2, <2>3, <2>6 DEF e, o
  <2>. QED
    BY <2>5, <2>6 DEF o
<1>9. R!Shown(Contents(f)) = Version(Chain(f))
  <2>1. R!Shown(Contents(f)) = [n \in Nums |-> R!Shown(Contents(f))[n]]
    BY DEF R!Shown
  <2>2. Version(Chain(f)) = [n \in Nums |-> Version(Chain(f))[n]]
    BY DEF Version
  <2>. QED
    BY <1>8, <2>1, <2>2
<1>. QED
  BY <1>1, <1>5, <1>7, <1>9

\* The document shows what its objects were last set to.
LEMMA ShownIs ==
  ASSUME NEW t, TableOK(t), NEW w, \A n \in Nums : Held(Latest(t.sections, n)) = w[n]
  PROVE  R!Shown(w) = Version(t.sections)
<1>1. ASSUME NEW n \in Nums
      PROVE  R!Shown(w)[n] = Version(t.sections)[n]
  <2>. DEFINE e == Latest(t.sections, n)
  <2>1. Version(t.sections)[n] = IF Known(e) THEN e.val ELSE None
    BY DEF Version
  <2>2. R!Shown(w)[n] = IF w[n] = None THEN None ELSE w[n].val
    BY DEF R!Shown
  <2>3. e \in Entries /\ Tidy(e)
    BY LatestIn
  <2>4. Held(e) = w[n]
    OBVIOUS
  <2>. HIDE DEF e
  <2>5. Held(e) = IF Known(e) THEN [val |-> e.val, stm |-> Stream(e)] ELSE None
    BY DEF Held
  <2>6. Known(e) => Held(e) # None
    BY <2>3, HeldIs DEF Known
  <2>. QED
    BY <2>1, <2>2, <2>4, <2>5, <2>6
<1>2. /\ R!Shown(w) = [n \in Nums |-> R!Shown(w)[n]]
      /\ Version(t.sections) = [n \in Nums |-> Version(t.sections)[n]]
  BY DEF R!Shown, Version
<1>. QED
  BY <1>1, <1>2

LEMMA ShownNow ==
  ASSUME IInv, trust, MaxIncrements <= 2
  PROVE  R!Shown(written) = Version(table.sections)
<1>1. TableOK(table) /\ \A n \in Nums : Held(Latest(table.sections, n)) = written[n]
  BY XrefAssumption DEF IInv, Found
<1>. QED
  BY <1>1, ShownIs

LEMMA ShownThen ==
  ASSUME IInv', trust', MaxIncrements <= 2
  PROVE  R!Shown(written') = Version(table'.sections)
<1>1. TableOK(table') /\ \A n \in Nums : Held(Latest(table'.sections, n)) = written'[n]
  BY XrefAssumption DEF IInv, Found
<1>. QED
  BY <1>1, ShownIs

-----------------------------------------------------------------------------
(* The increments of the open document.                                    *)

\* Every increment under the top one has been signed.
Below(t) == \A i \in 2..t.ninc : t.sections[i].sigs

LEMMA GrownBelow ==
  ASSUME NEW t, Shaped(t), Below(t), NEW u, NEW d \in {0, 1}, Grown(u, t, d)
  PROVE  Below(u)
<1>1. /\ t.ninc \in Nat /\ Len(t.sections) \in Nat
      /\ t.ninc < Len(t.sections) /\ 1 \in 1..Len(t.sections)
  BY ShapedIs DEF Shaped
<1>2. /\ d = IF NeedsSection(t) THEN 1 ELSE 0
      /\ u.ninc = t.ninc + d
      /\ \A i \in 1..Len(t.sections) : u.sections[i + d].sigs = t.sections[i].sigs
  BY DEF Grown
<1>3. SUFFICES ASSUME NEW i \in 2..u.ninc
               PROVE  u.sections[i].sigs
  BY DEF Below
<1>4. CASE d = 0
  <2>1. i \in 2..t.ninc /\ i \in 1..Len(t.sections) /\ i + d = i
    BY <1>1, <1>2, <1>4
  <2>. QED
    BY <1>2, <2>1 DEF Below
<1>5. CASE d = 1
  <2>. DEFINE j == i - 1
  <2>1. j \in 1..t.ninc /\ j \in 1..Len(t.sections) /\ j + d = i
    BY <1>1, <1>2, <1>5
  <2>2. t.sections[1].sigs
    BY <1>1, <1>2, <1>5, <2>1 DEF NeedsSection
  <2>3. j # 1 => j \in 2..t.ninc
    BY <1>1, <2>1
  <2>. QED
    BY <1>2, <2>1, <2>2, <2>3 DEF Below
<1>. QED
  BY <1>4, <1>5

\* A document that has failed to be written and can still be trusted has one
\* increment, without a signature.
Layered ==
  /\ out = <<>> /\ trust /\ table.closed => table.ninc = 1 /\ ~table.sections[1].sigs
  /\ Below(table)

LEMMA GrownLayered ==
  ASSUME IInv, Layered, NEW d \in {0, 1}, Grown(table', table, d),
         table'.closed = table.closed, out' = out, trust' => trust
  PROVE  Layered'
<1>1. Shaped(table) /\ table.ninc \in Nat /\ 1 \in 1..Len(table.sections)
  BY ShapedIs DEF IInv, TableOK
<1>2. /\ d = IF NeedsSection(table) THEN 1 ELSE 0
      /\ table'.ninc = table.ninc + d
      /\ table'.sections[1 + d].sigs = table.sections[1].sigs
  BY <1>1 DEF Grown
<1>3. ASSUME out' = <<>>, trust', table'.closed
      PROVE  table'.ninc = 1 /\ ~table'.sections[1].sigs
  <2>1. table.closed /\ table.ninc = 1 /\ ~table.sections[1].sigs
    BY <1>3 DEF Layered
  <2>2. d = 0 /\ 1 + d = 1
    BY <1>2, <2>1 DEF NeedsSection
  <2>. QED
    BY <1>1, <1>2, <2>1, <2>2
<1>4. Below(table')
  BY <1>1, GrownBelow DEF Layered
<1>. QED
  BY <1>3, <1>4 DEF Layered

\* A step that changes object n of the open document.
Edits(n) ==
  /\ Ready /\ trust' = trust /\ file' = file /\ out' = out
  /\ TableOK(table') /\ table'.closed = table.closed
  /\ \E d \in {0, 1} : Grown(table', table, d)
  /\ \A m \in Nums : m # n => written'[m] = written[m]

LEMMA EditFacts ==
  ASSUME IInv, Ready
  PROVE  /\ TableOK(table) /\ Shaped(table) /\ table.base = 1
         /\ written \in [Nums -> Holdings]
BY WrittenIn DEF IInv, Ready, Idle, TableOK

LEMMA NewObjectIsEdit ==
  ASSUME IInv, NEW v \in Values, NewObject(v)
  PROVE  table.len + 1 \in Nums /\ Edits(table.len + 1)
<1>. DEFINE n == table.len + 1
            x == [FreeEntry EXCEPT !.type = "n", !.val = v]
<1>1. /\ Ready /\ EditRoom(1)
      /\ table' = UpdateObject(CreateObject(table), n, v)
      /\ trust' = trust /\ file' = file /\ out' = out
      /\ written' = [written EXCEPT ![n] = [val |-> v, stm |-> None]]
  BY DEF NewObject, Changed
<1>2. TableOK(table) /\ Shaped(table) /\ table.base = 1 /\ written \in [Nums -> Holdings]
  BY <1>1, EditFacts
<1>3. n \in Nums /\ v \in Vals
  BY <1>1, RoomKeeps, WrittenIn
<1>4. Edited(table', table, n, x)
  BY <1>1, <1>2, <1>3, NewObjectEdits
<1>5. x \in Entries
  BY <1>3, BlankOK, EntryChanged
<1>6. \E d \in {0, 1} : Grown(table', table, d)
  <2>1. Put(table', EnsureIncrementalXref(table), n, x)
    BY <1>1, <1>2, <1>3, NewObjectIs
  <2>. HIDE DEF n, x
  <2>. QED
    BY <1>2, <1>3, <1>5, <2>1, PutGrows
<1>. QED
  BY <1>1, <1>2, <1>3, <1>4, <1>6 DEF Edits, Edited, Follows

LEMMA ReplaceIsEdit ==
  ASSUME IInv, NEW n \in Nums, NEW v \in Values, Replace(n, v)
  PROVE  Edits(n)
<1>. DEFINE s == EnsureIncrementalXref(table)
            y == [At(s, s.base, n) EXCEPT !.type = "n", !.val = v]
<1>1. /\ Ready /\ Usable(n) /\ Stream(Entry(n)) = None
      /\ table' = UpdateObject(table, n, v)
      /\ trust' = trust /\ file' = file /\ out' = out
      /\ written' = [written EXCEPT ![n].val = v]
  BY DEF Replace, Changed
<1>2. TableOK(table) /\ Shaped(table) /\ table.base = 1 /\ written \in [Nums -> Holdings]
  BY <1>1, EditFacts
<1>3. PICK i : Newest(table, n, i) /\ At(table, i, n) = Entry(n)
  BY <1>1, UsableHas
<1>4. v \in Vals
  BY WrittenIn
<1>5. \E x : Edited(table', table, n, x)
  BY <1>1, <1>2, <1>3, <1>4, ReplaceEdits
<1>6. y \in Entries
  <2>1. At(s, s.base, n) \in Entries
    <3>1. Shaped(s)
      BY <1>2, EnsureShaped
    <3>. HIDE DEF s
    <3>. QED
      BY <3>1, ShapedIs
  <2>. QED
    BY <1>4, <2>1 DEF Entries
<1>7. Put(table', s, n, y)
  BY <1>1, <1>2, <1>4, ObjectsIs
<1>. HIDE DEF y
<1>8. \E d \in {0, 1} : Grown(table', table, d)
  BY <1>2, <1>6, <1>7, PutGrows
<1>. QED
  BY <1>1, <1>2, <1>5, <1>8 DEF Edits, Edited, Follows

LEMMA DeleteIsEdit ==
  ASSUME IInv, NEW n \in Nums, Delete(n)
  PROVE  Edits(n)
<1>1. /\ Ready /\ table' = DeleteObject(table, n)
      /\ trust' = trust /\ file' = file /\ out' = out
      /\ written' = [written EXCEPT ![n] = None]
  BY DEF Delete, Changed
<1>2. TableOK(table) /\ Shaped(table) /\ table.base = 1 /\ written \in [Nums -> Holdings]
  BY <1>1, EditFacts
<1>3. Edited(table', table, n, FreeEntry)
  BY <1>1, <1>2, DeleteEdits
<1>4. Put(table', EnsureIncrementalXref(table), n, FreeEntry)
  BY <1>1, <1>2, ObjectsIs
<1>5. \E d \in {0, 1} : Grown(table', table, d)
  BY <1>2, <1>4, BlankOK, PutGrows
<1>. QED
  BY <1>1, <1>2, <1>3, <1>5 DEF Edits, Edited, Follows

LEMMA AlterIsEdit ==
  ASSUME IInv, NEW n \in Nums, NEW v \in Values, Alter(n, v)
  PROVE  Edits(n)
<1>1. /\ Ready /\ Usable(n) /\ table' = AlterObject(table, n, v)
      /\ trust' = trust /\ file' = file /\ out' = out
      /\ written' = [written EXCEPT ![n].val = v]
  BY DEF Alter, Changed
<1>2. TableOK(table) /\ Shaped(table) /\ table.base = 1 /\ written \in [Nums -> Holdings]
  BY <1>1, EditFacts
<1>3. PICK i : /\ Newest(table, n, i) /\ At(table, i, n) = Entry(n) /\ Entry(n) \in Entries
  BY <1>1, UsableHas
<1>4. v \in Vals
  BY WrittenIn
<1>. DEFINE x == [At(table, i, n) EXCEPT !.val = v]
<1>5. Edited(table', table, n, x) /\ Put(table', EnsureIncrementalXref(table), n, x)
  BY <1>1, <1>2, <1>3, <1>4, AlterEdits
<1>6. x \in Entries
  BY <1>3, <1>4 DEF Entries
<1>. HIDE DEF x
<1>7. \E d \in {0, 1} : Grown(table', table, d)
  BY <1>2, <1>5, <1>6, PutGrows
<1>. QED
  BY <1>1, <1>2, <1>5, <1>7 DEF Edits, Edited, Follows

LEMMA NewStreamIsEdit ==
  ASSUME IInv, NEW n \in Nums, NEW c \in Data, NewStream(n, c)
  PROVE  Edits(n)
<1>1. /\ Ready /\ Usable(n) /\ table' = UpdateStream(table, n, c)
      /\ trust' = trust /\ file' = file /\ out' = out
      /\ written' = [written EXCEPT ![n].stm = c]
  BY DEF NewStream, Changed
<1>2. TableOK(table) /\ Shaped(table) /\ table.base = 1 /\ written \in [Nums -> Holdings]
  BY <1>1, EditFacts
<1>3. PICK i : Newest(table, n, i)
  BY <1>1, UsableHas
<1>4. \E x : Edited(table', table, n, x)
  BY <1>1, <1>2, <1>3, StreamEdits
<1>5. \E d \in {0, 1} : Grown(table', table, d)
  BY <1>1, <1>2, <1>3, StreamGrows
<1>. QED
  BY <1>1, <1>2, <1>4, <1>5 DEF Edits, Edited, Follows

\* What looking an object up, or beginning to write, leaves alone.
SameSections(u, t) == u.sections = t.sections /\ u.ninc = t.ninc

LEMMA SameSigned ==
  ASSUME NEW t, NEW u, SameSections(u, t)
  PROVE  SignedVersions(u) = SignedVersions(t)
BY DEF SameSections, SignedVersions, Sealed, VersionFrom

LEMMA EditImplements ==
  ASSUME IInv, Layered, NEW n \in Nums, Edits(n)
  PROVE  R!Edit /\ Layered'
<1>1. PICK d \in {0, 1} : Grown(table', table, d)
  BY DEF Edits
<1>2. /\ trust /\ trust' = trust /\ file' = file /\ out = <<>> /\ out' = out
      /\ TableOK(table') /\ Shaped(table') /\ table'.closed = table.closed /\ TableOK(table)
      /\ \A m \in Nums \ {n} : written'[m] = written[m]
  BY DEF Edits, Ready, TableOK, IInv
<1>3. SignedVersions(table') = SignedVersions(table)
  BY <1>1, <1>2, GrownSigned DEF Layered
<1>4. Layered'
  BY <1>1, <1>2, GrownLayered
<1>. QED
  BY <1>2, <1>3, <1>4 DEF R!Edit

-----------------------------------------------------------------------------
(* Sequences of versions.                                                  *)

\* The signed versions as a sequence.
LEMMA SignedIs ==
  ASSUME NEW t, Shaped(t)
  PROVE  /\ Sealed(t) \in 0..t.ninc /\ SignedVersions(t) \in Seq(Shows)
         /\ Len(SignedVersions(t)) = Sealed(t)
         /\ \A k \in 1..Sealed(t) : SignedVersions(t)[k] = VersionFrom(t, t.ninc + 1 - k)
<1>1. t.ninc \in Nat /\ Len(t.sections) \in Nat /\ t.ninc < Len(t.sections)
  BY ShapedIs DEF Shaped
<1>2. Sealed(t) \in 0..t.ninc
  BY <1>1 DEF Sealed
<1>3. \A k \in 1..Sealed(t) : VersionFrom(t, t.ninc + 1 - k) \in Shows
  <2>1. \A k \in 1..Sealed(t) : t.ninc + 1 - k \in 1..Len(t.sections)
    BY <1>1, <1>2
  <2>. QED
    BY <2>1, VersionFromIn
<1>4. SignedVersions(t) = [k \in 1..Sealed(t) |-> VersionFrom(t, t.ninc + 1 - k)]
  BY DEF SignedVersions
<1>. HIDE DEF SignedVersions, VersionFrom
<1>. QED
  BY <1>1, <1>2, <1>3, <1>4

LEMMA OneMore ==
  ASSUME NEW S, NEW a \in Seq(S), NEW b \in Seq(S), Len(b) = Len(a) + 1,
         \A k \in 1..Len(a) : b[k] = a[k]
  PROVE  a = SubSeq(b, 1, Len(a))
OBVIOUS

LEMMA Joined ==
  ASSUME NEW S, NEW a \in Seq(S), NEW b \in Seq(S), NEW c \in Seq(S),
         Len(c) = Len(a) + Len(b), \A k \in 1..Len(a) : c[k] = a[k],
         \A k \in 1..Len(b) : c[Len(a) + k] = b[k]
  PROVE  c = a \o b
<1>1. Len(a) \in Nat /\ Len(b) \in Nat /\ a \o b \in Seq(S) /\ Len(a \o b) = Len(a) + Len(b)
  OBVIOUS
<1>2. ASSUME NEW k \in 1..Len(c) PROVE c[k] = (a \o b)[k]
  <2>1. CASE k <= Len(a)
    BY <1>1, <2>1
  <2>2. CASE k > Len(a)
    <3>. DEFINE m == k - Len(a)
    <3>1. m \in 1..Len(b) /\ Len(a) + m = k
      BY <1>1, <2>2
    <3>2. c[k] = b[m]
      BY <3>1
    <3>. QED
      BY <1>1, <2>2, <3>2
  <2>. QED
    BY <1>1, <2>1, <2>2
<1>. QED
  BY <1>1, <1>2

-----------------------------------------------------------------------------
(* A signature.                                                            *)

LEMMA MarkSigned ==
  ASSUME NEW t, TableOK(t), ~t.closed, NEW b, NEW z, Marked(z, b),
         NEW d \in {0, 1}, Grown(b, t, d)
  PROVE  /\ Sealed(z) = Sealed(t) + 1
         /\ \A k \in 1..Sealed(t) : SignedVersions(z)[k] = SignedVersions(t)[k]
         /\ SignedVersions(z)[Sealed(z)] = Version(z.sections)
<1>1. /\ Shaped(t) /\ Shaped(z) /\ t.ninc \in Nat /\ Len(t.sections) \in Nat
      /\ t.ninc < Len(t.sections) /\ 1 \in 1..Len(t.sections)
      /\ t.sections[1].sigs \in BOOLEAN
  BY ShapedIs DEF TableOK, Shaped, Marked
<1>2. /\ d = IF NeedsSection(t) THEN 1 ELSE 0
      /\ Len(z.sections) = Len(t.sections) + d /\ z.ninc = t.ninc + d
      /\ z.sections[1].sigs
  BY DEF Grown, Marked
<1>3. Sealed(z) = z.ninc /\ Sealed(z) = Sealed(t) + 1
  BY <1>1, <1>2 DEF Sealed, NeedsSection
<1>4. ASSUME NEW k \in 1..Sealed(t)
      PROVE  SignedVersions(z)[k] = SignedVersions(t)[k]
  <2>. DEFINE j == t.ninc + 1 - k
  <2>1. /\ j \in 1..Len(t.sections) /\ z.ninc + 1 - k = j + d /\ k \in 1..Sealed(z)
        /\ \A i \in j..Len(t.sections) : /\ i \in 1..Len(t.sections) /\ i + d # 1
                                         /\ i + d \in 1..Len(b.sections)
    <3>1. Len(b.sections) = Len(t.sections) + d
      BY DEF Grown
    <3>2. Sealed(t) = (t.ninc - 1) + d
      BY <1>1, <1>2 DEF Sealed, NeedsSection
    <3>3. k \in Nat /\ k >= 1 /\ k <= (t.ninc - 1) + d /\ d \in Nat /\ d <= 1
      BY <1>1, <3>2
    <3>4. j \in 1..Len(t.sections) /\ j + d >= 2
      BY <1>1, <3>3
    <3>5. z.ninc + 1 - k = j + d /\ k \in 1..Sealed(z)
      BY <1>1, <1>2, <1>3, <3>2, <3>3
    <3>. HIDE DEF j
    <3>6. \A i \in j..Len(t.sections) : /\ i \in 1..Len(t.sections) /\ i + d # 1
                                        /\ i + d \in 1..Len(b.sections)
      BY <1>1, <3>1, <3>3, <3>4
    <3>. QED
      BY <3>4, <3>5, <3>6
  <2>2. ASSUME NEW i \in j..Len(t.sections) PROVE Like(z, i + d, t, i)
    <3>1. Like(b, i + d, t, i) /\ \A m \in Nums : At(z, i + d, m) = At(b, i + d, m)
      BY <2>1 DEF Grown, Marked
    <3>. QED
      BY <3>1 DEF Like
  <2>. HIDE DEF j
  <2>3. j \in 1..Len(t.sections) /\ Len(z.sections) = Len(t.sections) + d
    BY <1>2, <2>1
  <2>4. \A i \in j..Len(t.sections) : Like(z, i + d, t, i)
    BY <2>2
  <2>5. VersionFrom(z, j + d) = VersionFrom(t, j)
    BY <1>1, <2>3, <2>4, SameFrom
  <2>. QED
    BY <1>1, <2>1, <2>5, SignedIs DEF j
<1>5. SignedVersions(z)[Sealed(z)] = Version(z.sections)
  <2>1. Sealed(z) \in 1..Sealed(z) /\ z.ninc + 1 - Sealed(z) = 1
    <3>1. Sealed(t) \in Nat
      BY <1>1, SignedIs
    <3>. QED
      BY <1>3, <3>1
  <2>. QED
    BY <1>1, <2>1, SignedIs, WholeVersion
<1>. QED
  BY <1>3, <1>4, <1>5

LEMMA MarkBelow ==
  ASSUME NEW b, NEW z, Marked(z, b), Below(b)
  PROVE  Below(z)
<1>1. b.ninc \in Nat /\ Len(b.sections) \in Nat /\ b.ninc < Len(b.sections)
  BY ShapedIs DEF Marked, TableOK, Shaped
<1>2. \A i \in 2..b.ninc : i \in 2..Len(b.sections)
  BY <1>1
<1>. QED
  BY <1>2 DEF Marked, Below

\* The table after a signature.  The field has another appearance, if it got
\* one, than in the version that has been signed.
SignedAs(u, z, t, f) ==
  /\ Shaped(z) /\ Sealed(z) = Sealed(t) + 1
  /\ \A k \in 1..Sealed(t) : SignedVersions(z)[k] = SignedVersions(t)[k]
  /\ SignedVersions(z)[Sealed(z)] = Version(z.sections)
  /\ SignedVersions(u) = SignedVersions(z)
  /\ \A n \in Nums \ {f} : Latest(u.sections, n) = Latest(z.sections, n)

LEMMA SignTable ==
  ASSUME IInv, Layered, NEW f \in Nums, NEW v \in Values, NEW visible \in BOOLEAN,
         Sign(f, v, visible)
  PROVE  /\ Below(table') /\ table'.closed = table.closed
         /\ ~table.closed => \E z : SignedAs(table', z, table, f)
<1>. DEFINE z == SetSignature(table, f, v)
            w == AlterObject(z, f, v)
<1>1. /\ Ready /\ EditRoom(1) /\ Usable(f)
      /\ table' = IF visible THEN AlterObject(SetSignature(table, f, v), f, v)
                  ELSE SetSignature(table, f, v)
  BY DEF Sign
<1>2. TableOK(table) /\ Shaped(table) /\ table.base = 1
  BY <1>1, EditFacts
<1>3. table.len + 1 \in Nums /\ v \in Vals /\ \E i : Newest(table, f, i)
  BY <1>1, RoomKeeps, WrittenIn, UsableHas
<1>4. PICK b : /\ Marked(z, b) /\ Newest(z, f, 1)
               /\ \E d \in {0, 1} : Grown(b, table, d)
  BY <1>2, <1>3, SignGrows
<1>5. z.closed = table.closed
  <2>1. PICK i : Newest(table, f, i)
    BY <1>3
  <2>2. Signed(SetSignature(table, f, v), table, f, v, At(table, i, f), table.len + 1)
    BY <1>2, <1>3, <2>1, SignEdits
  <2>. QED
    BY <2>2 DEF Signed, Follows
<1>6. (visible => table' = w) /\ (~visible => table' = z)
  BY <1>1
<1>. HIDE DEF z
<1>7. TableOK(z) /\ Shaped(z) /\ z.base = 1 /\ Below(z) /\ z.sections[1].sigs
  <2>1. Below(b)
    BY <1>2, <1>4, GrownBelow DEF Layered
  <2>. QED
    BY <1>4, <2>1, MarkBelow DEF Marked, TableOK
<1>8. ~table.closed =>
        /\ Sealed(z) = Sealed(table) + 1
        /\ \A k \in 1..Sealed(table) : SignedVersions(z)[k] = SignedVersions(table)[k]
        /\ SignedVersions(z)[Sealed(z)] = Version(z.sections)
  BY <1>2, <1>4, MarkSigned
<1>9. CASE ~visible
  <2>1. table' = z
    BY <1>6, <1>9
  <2>. QED
    BY <1>5, <1>7, <1>8, <2>1 DEF SignedAs
<1>10. CASE visible
  <2>. DEFINE x == [At(z, 1, f) EXCEPT !.val = v]
  <2>1. table' = w
    BY <1>6, <1>10
  <2>2. Edited(w, z, f, x) /\ Put(w, EnsureIncrementalXref(z), f, x)
    BY <1>3, <1>4, <1>7, AlterEdits
  <2>3. x \in Entries
    <3>1. At(z, 1, f) \in Entries
      BY <1>4, <1>7, ShapedIs DEF Newest
    <3>. QED
      BY <1>3, <3>1 DEF Entries
  <2>. HIDE DEF x, w
  <2>4. /\ Shaped(w) /\ w.closed = z.closed
        /\ \A n \in Nums \ {f} : Latest(w.sections, n) = Latest(z.sections, n)
    BY <2>2 DEF Edited, Follows, TableOK
  <2>5. PICK d \in {0, 1} : Grown(w, z, d)
    BY <1>7, <2>2, <2>3, PutGrows
  <2>6. Below(w)
    BY <1>7, <2>5, GrownBelow
  <2>7. ~table.closed => SignedVersions(w) = SignedVersions(z)
    BY <1>5, <1>7, <2>4, <2>5, GrownSigned
  <2>. QED
    BY <1>5, <1>7, <1>8, <2>1, <2>4, <2>6, <2>7 DEF SignedAs
<1>. QED
  BY <1>9, <1>10

\* A number that is given to a new object had no contents.
LEMMA NewIsGone ==
  ASSUME IInv, trust, MaxIncrements <= 2, table.len + 1 \in Nums
  PROVE  written[table.len + 1] = None
<1>. DEFINE n == table.len + 1
<1>1. /\ TableOK(table) /\ Shaped(table) /\ Measured(table) /\ Found
      /\ MaxIncrements \in Nat /\ table.len \in Nat
  BY ShapedIs, XrefAssumption DEF IInv, TableOK
<1>2. ASSUME NEW i \in 1..Len(table.sections)
      PROVE  At(table, i, n).type = "none"
  <2>1. At(table, i, n).type # "none" => n <= table.sections[i].len
    BY <1>1 DEF Measured
  <2>2. table.sections[i].len \in Nat /\ table.sections[i].len <= table.len
    <3>1. table.sections[i] \in Section
      BY <1>1, ShapedIs
    <3>. QED
      BY <1>1, <3>1, XrefAssumption DEF Section, Measured
  <2>. QED
    BY <1>1, <2>1, <2>2
<1>. HIDE DEF n
<1>3. Latest(table.sections, n) = Blank
  BY <1>1, <1>2, LatestIs DEF n
<1>4. Held(Blank) = None
  BY BlankOK DEF Held, Known
<1>. QED
  BY <1>1, <1>3, <1>4 DEF Found, n

LEMMA SignImplements ==
  ASSUME IInv, IInv', Layered, MaxIncrements <= 2, NEW f \in Nums, NEW v \in Values,
         NEW visible \in BOOLEAN, Sign(f, v, visible)
  PROVE  (R!Sign \/ R!Fail) /\ Layered'
<1>. DEFINE n == table.len + 1
            g == [val |-> Signature, stm |-> None]
            a == SignedVersions(table)
            b == SignedVersions(table')
<1>1. /\ Ready /\ EditRoom(1) /\ Usable(f) /\ out = <<>> /\ trust
      /\ trust' = ~table.closed /\ file' = file /\ out' = out
      /\ written' = [written EXCEPT ![f].val = v, ![n] = g]
  BY DEF Sign, Ready
<1>2. /\ Below(table') /\ table'.closed = table.closed
      /\ ~table.closed => \E z : SignedAs(table', z, table, f)
  BY SignTable
<1>3. Layered'
  BY <1>1, <1>2 DEF Layered
<1>4. CASE table.closed
  BY <1>1, <1>3, <1>4 DEF R!Fail
<1>5. CASE ~table.closed
  <2>1. PICK z : SignedAs(table', z, table, f)
    BY <1>2, <1>5
  <2>2. /\ n \in Nums /\ f # n /\ written[n] = None /\ written \in [Nums -> Holdings]
        /\ g # None /\ \E i : Newest(table, f, i) /\ v \in Vals
    <3>1. n \in Nums /\ \E i : Newest(table, f, i) /\ v \in Vals
      BY <1>1, RoomKeeps, UsableHas, WrittenIn
    <3>2. f # n
      BY <1>1, <3>1, EditFacts, SignEdits
    <3>3. g # None
      <4>1. g \in [val : Vals, stm : Data \cup {None}]
        BY WrittenIn
      <4>. QED
        BY <4>1, XrefAssumption
    <3>. QED
      BY <1>1, <3>1, <3>2, <3>3, NewIsGone, WrittenIn
  <2>3. /\ written'[n] # None
        /\ \A m \in Nums \ {f, n} : written'[m] = written[m]
    <3>. HIDE DEF g, n
    <3>. QED
      BY <1>1, <2>2
  <2>4. /\ a \in Seq(Shows) /\ b \in Seq(Shows) /\ Len(b) = Len(a) + 1
        /\ \A k \in 1..Len(a) : b[k] = a[k]
        /\ b[Len(b)] = Version(z.sections)
    <3>1. Shaped(table) /\ Shaped(table') /\ Shaped(z)
      BY <2>1 DEF IInv, TableOK, SignedAs
    <3>2. /\ a \in Seq(Shows) /\ Len(a) = Sealed(table)
          /\ SignedVersions(z) \in Seq(Shows) /\ Len(SignedVersions(z)) = Sealed(z)
      BY <3>1, SignedIs
    <3>. QED
      BY <2>1, <3>2 DEF SignedAs
  <2>5. a = SubSeq(b, 1, Len(a))
    <3>. HIDE DEF a, b
    <3>. QED
      BY <2>4, OneMore
  <2>6. ASSUME NEW m \in Nums \ {f}
        PROVE  R!Last(b)[m] = R!Shown(written')[m]
    <3>1. R!Shown(written')[m] = Version(table'.sections)[m]
      BY <1>1, <1>5, ShownThen
    <3>2. Latest(table'.sections, m) = Latest(z.sections, m)
      BY <2>1 DEF SignedAs
    <3>3. Version(table'.sections)[m] = Version(z.sections)[m]
      BY <3>2 DEF Version
    <3>. QED
      BY <2>4, <3>1, <3>3 DEF R!Last
  <2>7. R!Sign
    BY <1>1, <1>5, <2>2, <2>3, <2>4, <2>5, <2>6 DEF R!Sign
  <2>. QED
    BY <1>3, <2>7
<1>. QED
  BY <1>4, <1>5
-----------------------------------------------------------------------------
(* Steps that are no step of the abstract specification.                   *)

LEMMA LoadImplements ==
  ASSUME IInv, Layered, NEW n \in Nums, LoadObject(n)
  PROVE  UNCHANGED R!rvars /\ Layered'
<1>1. /\ Ready /\ table' = Look(table, n)
      /\ UNCHANGED <<file, out, trust, written>>
  BY DEF LoadObject, Changed
<1>2. TableOK(table)
  BY DEF IInv
<1>3. Reindexed(table', table)
  BY <1>1, <1>2, LookIs
<1>4. /\ table'.sections = table.sections /\ table'.ninc = table.ninc
      /\ table'.closed = table.closed
  BY <1>3 DEF Reindexed
<1>5. SignedVersions(table') = SignedVersions(table)
  BY <1>4, SameSigned DEF SameSections
<1>6. Layered'
  BY <1>1, <1>4 DEF Layered, Below
<1>. QED
  BY <1>1, <1>5, <1>6 DEF R!rvars

LEMMA BeginImplements ==
  ASSUME IInv, Layered, BeginWrite
  PROVE  UNCHANGED R!rvars /\ Layered'
<1>1. /\ out' = file /\ UNCHANGED <<file, trust, written>>
      /\ table' = IF table.ninc = 0 THEN table
                  ELSE [LookAll(table) EXCEPT !.closed = TRUE]
  BY DEF BeginWrite
<1>2. TableOK(table) /\ FileOK(file)
  BY DEF IInv
<1>3. table'.sections = table.sections /\ table'.ninc = table.ninc
  <2>. DEFINE u == LookAll(table)
              w == [u EXCEPT !.closed = TRUE]
  <2>1. Reindexed(u, table)
    BY <1>2, LookAllKeeps
  <2>. HIDE DEF u
  <2>2. u \in Tables /\ u.sections = table.sections /\ u.ninc = table.ninc
    BY <2>1 DEF Reindexed
  <2>3. w.sections = u.sections /\ w.ninc = u.ninc
    BY <2>2 DEF Tables
  <2>4. table' = table \/ table' = w
    BY <1>1 DEF u
  <2>. QED
    BY <2>2, <2>3, <2>4
<1>4. SignedVersions(table') = SignedVersions(table)
  BY <1>3, SameSigned DEF SameSections
<1>5. Layered'
  BY <1>1, <1>2, <1>3 DEF Layered, Below, FileOK
<1>. QED
  BY <1>1, <1>4, <1>5 DEF R!rvars

\* An object that holds a cross-reference stream is not part of a version.
LEMMA WroteVersion ==
  ASSUME NEW t, TableOK(t), NEW s, Wrote(s, t), NEW j \in 1..Len(t.sections),
         t.streams =>
           \A i \in 1..Len(t.sections) : At(t, i, t.len + 1) = Blank
  PROVE  VersionFrom(s, j) = VersionFrom(t, j)
<1>. DEFINE a == SubSeq(s.sections, j, Len(s.sections))
            b == SubSeq(t.sections, j, Len(t.sections))
            L == Len(t.sections) + 1 - j
<1>1. /\ Shaped(t) /\ Shaped(s) /\ Len(t.sections) \in Nat
      /\ Len(s.sections) = Len(t.sections)
  BY ShapedIs DEF TableOK, Wrote
<1>2. Suffix(a, s, j) /\ Suffix(b, t, j)
  BY <1>1, SuffixIs
<1>. HIDE DEF a, b
<1>3. /\ a \in Seq(Section) /\ b \in Seq(Section) /\ Len(a) = L /\ Len(b) = L
      /\ \A i \in 1..L : \A n \in Nums : /\ a[i].e[n] = At(s, i + j - 1, n)
                                         /\ b[i].e[n] = At(t, i + j - 1, n)
      /\ \A i \in 1..L : i + j - 1 \in 1..Len(t.sections)
  BY <1>1, <1>2 DEF Suffix
<1>. HIDE DEF L
<1>4. ASSUME NEW n \in Nums PROVE Version(a)[n] = Version(b)[n]
  <2>1. CASE t.streams /\ n = t.len + 1
    <3>1. ~Known(Blank) /\ ~Known(XEntry)
      BY BlankOK, XEntryIs DEF Known
    <3>2. ASSUME NEW i \in 1..L PROVE ~Known(a[i].e[n]) /\ ~Known(b[i].e[n])
      <4>1. /\ a[i].e[n] = At(s, i + j - 1, n) /\ b[i].e[n] = At(t, i + j - 1, n)
            /\ i + j - 1 \in 1..Len(t.sections)
        BY <1>3
      <4>2. At(t, i + j - 1, n) = Blank
        BY <2>1, <4>1
      <4>3. At(s, i + j - 1, n) \in {XEntry, At(t, i + j - 1, n)}
        BY <2>1, <4>1 DEF Wrote
      <4>. QED
        BY <3>1, <4>1, <4>2, <4>3
    <3>3. Version(a)[n] = None
      BY <1>3, <3>2, NothingAt
    <3>4. Version(b)[n] = None
      BY <1>3, <3>2, NothingAt
    <3>. QED
      BY <3>3, <3>4
  <2>2. CASE ~(t.streams /\ n = t.len + 1)
    <3>1. \A i \in 1..L : a[i].e[n] = b[i].e[n]
      BY <1>3, <2>2 DEF Wrote
    <3>2. \A i \in 1..Len(a) : /\ a[i].e[n].type = b[i].e[n].type
                               /\ a[i].e[n].type = "n" => a[i].e[n].val = b[i].e[n].val
      BY <1>3, <3>1
    <3>3. Len(a) = Len(b)
      BY <1>3
    <3>. QED
      BY <1>3, <3>2, <3>3, SameAt
  <2>. QED
    BY <2>1, <2>2
<1>5. Version(a) = Version(b)
  BY <1>4, VersionIs
<1>. QED
  BY <1>5 DEF VersionFrom, a, b

LEMMA WriteImplements ==
  ASSUME IInv, IInv', Layered, WriteIncrement
  PROVE  UNCHANGED R!rvars /\ Layered'
<1>. DEFINE t == LookAll([table EXCEPT !.base = todo])
            live == {n \in use : t.sections[Where(t, n)].e[n].type = "n"}
            s == IF t.streams
                 THEN UpdateObject(CreateObject(t), t.len + 1, XRefStream) ELSE t
            used == IF t.streams THEN live \cup {s.len} ELSE live
            g == [e |-> Written(s, used), prev |-> t.startxref, stream |-> t.streams]
            z == [s EXCEPT !.startxref = Len(out) + 1]
<1>1. /\ out # <<>> /\ todo > 0 /\ out' = Append(out, g) /\ table' = z
      /\ file' = file /\ trust' = trust /\ written' = written
  BY DEF WriteIncrement
<1>2. Taken(t, live, s, used)
  BY DEF At, Taken
<1>. HIDE DEF t, live, s, used, g
<1>3. TakenIs(t, s, used)
  BY <1>1, <1>2, IncrementFacts
<1>4. /\ TableOK(t) /\ TableOK(s) /\ Wrote(s, t) /\ t.ninc = table.ninc
      /\ t.sections = table.sections /\ s.ninc = t.ninc
      /\ Len(s.sections) = Len(t.sections)
      /\ t.streams => \A i \in 1..Len(t.sections) : At(t, i, t.len + 1) = Blank
      /\ \A i \in 1..Len(t.sections) : s.sections[i].sigs = t.sections[i].sigs
  BY <1>3 DEF TakenIs, Wrote
<1>5. /\ t.ninc \in Nat /\ Len(t.sections) \in Nat /\ t.ninc < Len(t.sections)
      /\ s \in Tables /\ Shaped(t) /\ Shaped(s)
  BY <1>4, ShapedIs DEF TableOK, Shaped
<1>6. z.sections = s.sections /\ z.ninc = s.ninc
  BY <1>5 DEF Tables
<1>7. SignedVersions(s) = SignedVersions(t)
  <2>1. Sealed(s) = Sealed(t)
    BY <1>4, <1>5 DEF Sealed
  <2>2. \A k \in 1..Sealed(t) : t.ninc + 1 - k \in 1..Len(t.sections)
    BY <1>5, SignedIs
  <2>3. \A k \in 1..Sealed(t) : VersionFrom(s, t.ninc + 1 - k) = VersionFrom(t, t.ninc + 1 - k)
    BY <1>4, <2>2, WroteVersion
  <2>. QED
    BY <1>4, <2>1, <2>3 DEF SignedVersions
<1>8. SignedVersions(t) = SignedVersions(table) /\ SignedVersions(z) = SignedVersions(s)
  BY <1>4, <1>6, SameSigned DEF SameSections
<1>9. out' # <<>>
  <2>1. out \in Seq(FileSection)
    BY <1>1 DEF IInv, Writing, OutOK, FileOK
  <2>. QED
    BY <1>1, <2>1
<1>10. Below(z)
  <2>1. \A i \in 2..t.ninc : i \in 1..Len(t.sections)
    BY <1>5
  <2>. QED
    BY <1>4, <1>6, <2>1 DEF Layered, Below
<1>. HIDE DEF z
<1>11. Layered'
  BY <1>1, <1>9, <1>10 DEF Layered
<1>. QED
  BY <1>1, <1>7, <1>8, <1>11 DEF R!rvars

-----------------------------------------------------------------------------
(* Saving, failing and opening.                                            *)

\* Of the copy: section j of the table has been written as it is.
LEMMA CopySays ==
  ASSUME NEW e \in Entries, NEW w, NEW n, NEW u, Copied(w, e, n, u), MaxIncrements <= 2
  PROVE  w.type = e.type /\ (w.type = "n" => w.val = e.val)
<1>1. ~(MaxIncrements > 2)
  BY XrefAssumption
<1>. QED
  BY <1>1 DEF Copied

LEMMA OutVersion ==
  ASSUME IInv, out # <<>>, todo = 0, MaxIncrements <= 2, NEW k \in 1..Len(out)
  PROVE  /\ Len(out) = Len(table.sections) /\ Len(out) = Len(file) + table.ninc
         /\ Len(out) + 1 - k \in 1..Len(table.sections)
         /\ Version(Chain(SubSeq(out, 1, k))) = VersionFrom(table, Len(out) + 1 - k)
<1>. DEFINE L == Len(file)
            N == table.ninc
            O == Len(out)
            j == O + 1 - k
<1>1. /\ TableOK(table) /\ Shaped(table) /\ Loaded(table, file) /\ OutOK /\ FileOK(out)
  BY DEF IInv, Writing, OutOK, TableOK
<1>2. L \in Nat /\ N \in Nat /\ O = L + N /\ O \in Nat /\ Len(table.sections) = O
  <2>1. N \in Nat /\ L \in Nat
    BY <1>1, ShapedIs DEF IInv, FileOK
  <2>2. O = L + N - 0 /\ Len(table.sections) = N + L
    BY <1>1 DEF OutOK, Loaded
  <2>. QED
    BY <2>1, <2>2
<1>3. ASSUME NEW i \in 1..O, NEW n \in Nums
      PROVE  /\ out[O + 1 - i].e[n].type = At(table, i, n).type
             /\ out[O + 1 - i].e[n].type = "n"
                  => out[O + 1 - i].e[n].val = At(table, i, n).val
  <2>1. CASE i <= N
    <3>1. i \in 0 + 1..N /\ L + N + 1 - i = O + 1 - i /\ i \in 1..Len(table.sections)
      BY <1>2, <2>1
    <3>2. Copied(out[L + N + 1 - i].e[n], At(table, i, n), n, use)
      BY <1>1, <3>1 DEF OutOK
    <3>3. At(table, i, n) \in Entries
      BY <1>1, <3>1, ShapedIs
    <3>. QED
      BY <3>1, <3>2, <3>3, CopySays
  <2>2. CASE ~(i <= N)
    <3>. DEFINE m == i - N
    <3>1. m \in 1..L /\ N + m = i /\ L + 1 - m = O + 1 - i /\ L + 1 - m \in 1..L
      BY <1>2, <2>2
    <3>2. At(table, N + m, n) = file[L + 1 - m].e[n]
      BY <1>1, <3>1 DEF Loaded
    <3>3. out[L + 1 - m] = file[L + 1 - m]
      BY <1>1, <3>1 DEF OutOK
    <3>. QED
      BY <3>1, <3>2, <3>3
  <2>. QED
    BY <2>1, <2>2
<1>4. j \in 1..Len(table.sections) /\ Len(table.sections) + 1 - j = k
  BY <1>2
<1>5. Says(table, j, out, k)
  <2>1. SUFFICES ASSUME NEW i \in 1..k, NEW n \in Nums
                 PROVE  /\ out[k + 1 - i].e[n].type = At(table, i + j - 1, n).type
                        /\ out[k + 1 - i].e[n].type = "n"
                             => out[k + 1 - i].e[n].val = At(table, i + j - 1, n).val
    BY DEF Says
  <2>2. i + j - 1 \in 1..O /\ O + 1 - (i + j - 1) = k + 1 - i
    <3>1. O \in Nat /\ k \in 1..O /\ i \in 1..k
      BY <1>2
    <3>2. j = O + 1 - k
      OBVIOUS
    <3>. HIDE DEF O, j
    <3>3. k \in Int /\ i \in Int /\ 1 <= k /\ k <= O /\ 1 <= i /\ i <= k
      BY <3>1
    <3>4. j \in Int /\ i + j - 1 = O - (k - i)
      BY <3>1, <3>2, <3>3
    <3>5. k - i \in Int /\ 0 <= k - i /\ k - i <= O - 1
      BY <3>1, <3>3
    <3>6. i + j - 1 \in Int /\ 1 <= i + j - 1 /\ i + j - 1 <= O
      BY <3>1, <3>4, <3>5
    <3>7. O + 1 - (i + j - 1) = k + 1 - i
      BY <3>1, <3>3, <3>4
    <3>. QED
      BY <3>1, <3>6, <3>7
  <2>. HIDE DEF j, O
  <2>. QED
    BY <1>3, <2>2
<1>. HIDE DEF j
<1>6. Version(Chain(SubSeq(out, 1, k))) = VersionFrom(table, j)
  BY <1>1, <1>4, <1>5, StoredFrom
<1>. QED
  BY <1>2, <1>4, <1>6 DEF j
LEMMA FinishImplements ==
  ASSUME IInv, IInv', Layered, MaxIncrements <= 2, FinishWrite
  PROVE  R!Save /\ Layered'
<1>. DEFINE L == Len(file)
            N == table.ninc
            O == Len(out)
            a == FileVersions(file)
            b == SignedVersions(table)
            c == FileVersions(out)
            w == R!Shown(written)
<1>1. /\ out # <<>> /\ todo = 0 /\ file' = out /\ table' = LoadXref(out)
      /\ out' = <<>> /\ trust' = trust /\ written' = written
  BY DEF FinishWrite
<1>2. /\ TableOK(table) /\ Shaped(table) /\ OutOK /\ FileOK(out) /\ FileOK(file) /\ trust
  BY <1>1 DEF IInv, Writing, OutOK, TableOK
<1>3. /\ table'.ninc = 0 /\ Shaped(table') /\ ~table'.closed
  <2>1. TableOK(table') /\ table'.ninc = 0
    BY <1>1, <1>2, OpenedIs
  <2>. QED
    BY <2>1, ShapedIs DEF TableOK, Shaped
<1>4. /\ L \in Nat /\ N \in Nat /\ O \in Nat /\ O = L + N /\ O > 0
      /\ \A k \in 1..O : c[k] = VersionFrom(table, O + 1 - k)
      /\ Len(table.sections) = O
  <2>1. N \in Nat /\ L \in Nat /\ O \in Nat /\ O > 0
    BY <1>1, <1>2, ShapedIs DEF FileOK
  <2>2. \A k \in 1..O : /\ Version(Chain(SubSeq(out, 1, k))) = VersionFrom(table, O + 1 - k)
                        /\ O = L + N /\ Len(table.sections) = O
    BY <1>1, OutVersion
  <2>3. DOMAIN out = 1..O
    BY <1>2 DEF FileOK
  <2>4. 1 \in 1..O
    BY <2>1
  <2>5. \A k \in 1..O : c[k] = Version(Chain(SubSeq(out, 1, k)))
    BY <2>3 DEF FileVersions
  <2>. HIDE DEF c, O, L, N
  <2>. QED
    BY <2>1, <2>2, <2>4, <2>5
<1>5. /\ c \in Seq(Shows) /\ Len(c) = O /\ a \in Seq(Shows) /\ Len(a) = L
      /\ b \in Seq(Shows) /\ Len(b) = Sealed(table) /\ Sealed(table) \in 0..N
      /\ \A k \in 1..Sealed(table) : b[k] = VersionFrom(table, N + 1 - k)
  BY <1>2, LastOfFile, SignedIs
<1>6. w = VersionFrom(table, 1) /\ w \in Shows /\ c[O] = w
  <2>1. w = VersionFrom(table, 1)
    BY <1>2, ShownNow, WholeVersion
  <2>2. 1 \in 1..Len(table.sections) /\ O \in 1..O /\ O + 1 - O = 1
    BY <1>4
  <2>3. VersionFrom(table, 1) \in Shows
    BY <1>2, <2>2, VersionFromIn
  <2>4. c[O] = VersionFrom(table, 1)
    <3>. HIDE DEF c, O
    <3>. QED
      BY <1>4, <2>2
  <2>. QED
    BY <2>1, <2>3, <2>4
<1>7. \A k \in 1..L : c[k] = a[k]
  <2>1. SUFFICES ASSUME NEW k \in 1..L PROVE c[k] = a[k]
    OBVIOUS
  <2>2. SubSeq(out, 1, k) = SubSeq(file, 1, k)
    <3>1. out \in Seq(FileSection) /\ file \in Seq(FileSection)
      BY <1>2 DEF FileOK
    <3>2. \A i \in 1..k : out[i] = file[i] /\ i \in 1..L /\ i \in 1..O
      BY <1>2, <1>4 DEF OutOK
    <3>. QED
      BY <1>4, <3>1, <3>2
  <2>3. k \in DOMAIN out /\ k \in DOMAIN file
    BY <1>2, <1>4 DEF FileOK
  <2>. QED
    BY <2>2, <2>3 DEF FileVersions
<1>8. \A k \in 1..N : L + k \in 1..O /\ O + 1 - (L + k) = N + 1 - k
  BY <1>4
<1>. HIDE DEF a, b, c, w, L, N, O
<1>9. \A k \in 1..N : c[L + k] = VersionFrom(table, N + 1 - k)
  BY <1>4, <1>8
<1>10. \E x \in {b, Append(b, w)} : c = a \o x
  <2>1. CASE Sealed(table) = N
    <3>1. \A k \in 1..N : c[L + k] = b[k]
      BY <1>5, <1>9, <2>1
    <3>2. c = a \o b
      BY <1>4, <1>5, <1>7, <2>1, <3>1, Joined
    <3>. QED
      BY <3>2
  <2>2. CASE Sealed(table) # N
    <3>1. N > 0 /\ Sealed(table) = N - 1
      BY <1>4, <1>5, <2>2 DEF Sealed, N
    <3>. DEFINE x == Append(b, w)
    <3>2. x \in Seq(Shows) /\ Len(x) = N /\ x[N] = w /\ \A k \in 1..N - 1 : x[k] = b[k]
      BY <1>4, <1>5, <1>6, <3>1
    <3>. HIDE DEF x
    <3>3. ASSUME NEW k \in 1..N PROVE c[L + k] = x[k]
      <4>1. CASE k = N
        BY <1>4, <1>6, <3>2, <4>1
      <4>2. CASE k # N
        <5>1. k \in 1..N - 1
          BY <1>4, <4>2
        <5>. QED
          BY <1>5, <1>9, <3>1, <3>2, <5>1
      <4>. QED
        BY <4>1, <4>2
    <3>4. Len(c) = Len(a) + Len(x)
      BY <1>4, <1>5, <3>2
    <3>5. \A k \in 1..Len(a) : c[k] = a[k]
      BY <1>5, <1>7
    <3>6. \A k \in 1..Len(x) : c[Len(a) + k] = x[k]
      BY <1>5, <3>2, <3>3
    <3>7. c = a \o x
      BY <1>5, <3>2, <3>4, <3>5, <3>6, Joined
    <3>. QED
      BY <3>7 DEF x
  <2>. QED
    BY <2>1, <2>2
<1>11. R!Last(c) = w
  BY <1>5, <1>6 DEF R!Last
<1>12. SignedVersions(table') = <<>>
  <2>1. Len(SignedVersions(table')) = 0 /\ SignedVersions(table') \in Seq(Shows)
    BY <1>3, SignedIs
  <2>. QED
    BY <2>1
<1>13. Layered'
  BY <1>3 DEF Layered, Below
<1>14. R!Save
  BY <1>1, <1>2, <1>10, <1>11, <1>12 DEF R!Save, a, b, c, w
<1>. QED
  BY <1>13, <1>14

LEMMA FailImplements ==
  ASSUME IInv, Layered, FailWrite
  PROVE  (R!Fail \/ UNCHANGED R!rvars) /\ Layered'
<1>1. /\ out # <<>> /\ out' = <<>> /\ file' = file /\ written' = written
      /\ table' = IF todo = 0 THEN [table EXCEPT !.base = 1, !.closed = FALSE]
                  ELSE [table EXCEPT !.base = todo]
      /\ trust' \in {FALSE, todo = 1 /\ table.ninc = 1 /\ ~table.sections[1].sigs}
  BY DEF FailWrite
<1>2. trust /\ trust' \in BOOLEAN /\ table \in Tables
  BY <1>1 DEF IInv, Writing, TableOK, Shaped
<1>3. table'.sections = table.sections /\ table'.ninc = table.ninc
  BY <1>1, <1>2 DEF Tables
<1>4. SignedVersions(table') = SignedVersions(table)
  BY <1>3, SameSigned DEF SameSections
<1>5. Layered'
  <2>1. Below(table')
    BY <1>3 DEF Layered, Below
  <2>2. trust' => table'.ninc = 1 /\ ~table'.sections[1].sigs
    BY <1>1, <1>3
  <2>. QED
    BY <2>1, <2>2 DEF Layered
<1>6. CASE trust'
  BY <1>1, <1>2, <1>4, <1>5, <1>6 DEF R!rvars
<1>7. CASE ~trust'
  BY <1>1, <1>5, <1>7 DEF R!Fail
<1>. QED
  BY <1>6, <1>7

\* A document that has just been opened has no increments.
LEMMA NothingSigned ==
  ASSUME NEW f, FileOK(f), NEW t, t = LoadXref(f)
  PROVE  SignedVersions(t) = <<>> /\ t.ninc = 0 /\ ~t.closed
<1>1. TableOK(t) /\ t.ninc = 0
  BY OpenedIs
<1>2. Shaped(t) /\ ~t.closed
  BY <1>1 DEF TableOK, Shaped
<1>3. Len(SignedVersions(t)) = 0 /\ SignedVersions(t) \in Seq(Shows)
  BY <1>1, <1>2, SignedIs
<1>. QED
  BY <1>1, <1>2, <1>3

LEMMA ReopenImplements ==
  ASSUME IInv, Reopen
  PROVE  R!Discard /\ Layered'
<1>1. /\ table' = LoadXref(file) /\ trust' = TRUE /\ written' = Contents(file) /\ file' = file
  BY DEF Reopen
<1>2. FileOK(file)
  BY DEF IInv
<1>3. SignedVersions(table') = <<>> /\ table'.ninc = 0 /\ ~table'.closed
  BY <1>1, <1>2, NothingSigned
<1>4. R!Shown(Contents(file)) = R!Last(FileVersions(file))
  BY <1>2, LastOfFile
<1>5. Layered'
  BY <1>3 DEF Layered, Below
<1>. QED
  BY <1>1, <1>3, <1>4, <1>5 DEF R!Discard

LEMMA InitImplements ==
  ASSUME Init
  PROVE  R!Init /\ Layered
<1>1. table = LoadXref(file) /\ trust = TRUE /\ written = Contents(file)
  BY DEF Init
<1>2. FileOK(file)
  BY InitOK DEF IInv
<1>3. SignedVersions(table) = <<>> /\ table.ninc = 0 /\ ~table.closed
  BY <1>1, <1>2, NothingSigned
<1>4. /\ R!Shown(Contents(file)) = R!Last(FileVersions(file))
      /\ Len(FileVersions(file)) > 0
  BY <1>2, LastOfFile
<1>5. Layered
  BY <1>3 DEF Layered, Below
<1>. QED
  BY <1>1, <1>3, <1>4, <1>5 DEF R!Init

\* The table, its sections and the file implement the abstract specification.
\* No edit, save or failed save reaches a version that has been signed, and
\* what is read back from the file is every version it had, every signed one
\* and the last.  With more than two increments objects get lost (see
\* NothingStale), and a version with them.
THEOREM SpecKeepsRevisions ==
  ASSUME MaxIncrements <= 2
  PROVE  Spec => KeepsRevisions
<1>1. Init => R!Init /\ Layered
  BY InitImplements
<1>2. IInv /\ IInv' /\ Layered /\ [Next]_vars => [R!Next]_R!rvars /\ Layered'
  <2>1. SUFFICES ASSUME IInv, IInv', Layered, [Next]_vars
                 PROVE  (R!Next \/ UNCHANGED R!rvars) /\ Layered'
    OBVIOUS
  <2>2. CASE UNCHANGED vars
    BY <2>1, <2>2 DEF vars, R!rvars, Layered
  <2>3. ASSUME NEW n \in Nums, Edits(n)
        PROVE  R!Next /\ Layered'
    BY <2>1, <2>3, EditImplements DEF R!Next
  <2>4. CASE \E n \in Nums : LoadObject(n)
    BY <2>1, <2>4, LoadImplements
  <2>5. CASE \E v \in Values : NewObject(v)
    BY <2>1, <2>3, <2>5, NewObjectIsEdit
  <2>6. CASE \E n \in Nums, v \in Values : Replace(n, v)
    BY <2>1, <2>3, <2>6, ReplaceIsEdit
  <2>7. CASE \E n \in Nums : Delete(n)
    BY <2>1, <2>3, <2>7, DeleteIsEdit
  <2>8. CASE \E n \in Nums, v \in Values : Alter(n, v)
    BY <2>1, <2>3, <2>8, AlterIsEdit
  <2>9. CASE \E n \in Nums, d \in Data : NewStream(n, d)
    BY <2>1, <2>3, <2>9, NewStreamIsEdit
  <2>10. CASE \E f \in Nums, v \in Values, visible \in BOOLEAN : Sign(f, v, visible)
    BY <2>1, <2>10, SignImplements DEF R!Next
  <2>11. CASE BeginWrite
    BY <2>1, <2>11, BeginImplements
  <2>12. CASE WriteIncrement
    BY <2>1, <2>12, WriteImplements
  <2>13. CASE FinishWrite
    BY <2>1, <2>13, FinishImplements DEF R!Next
  <2>14. CASE FailWrite
    BY <2>1, <2>14, FailImplements DEF R!Next
  <2>15. CASE Reopen
    BY <2>1, <2>15, ReopenImplements DEF R!Next
  <2>. QED
    BY <2>1, <2>2, <2>4, <2>5, <2>6, <2>7, <2>8, <2>9, <2>10, <2>11, <2>12, <2>13,
       <2>14, <2>15 DEF Next
<1>. QED
  BY <1>1, <1>2, SpecInvariant, PTL DEF Spec, KeepsRevisions, R!Spec
=============================================================================
