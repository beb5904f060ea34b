----------------------------- MODULE Revisions -----------------------------
(***************************************************************************)
(* What an editor of a PDF document is promised by the object table of the *)
(* library: an object is what it was last set to, a version that has been  *)
(* signed stays what it was when it was signed, and a saved file holds     *)
(* every signed version and the last one, after all versions it held.      *)
(* A version is what it shows, the values of its objects; of the current   *)
(* document their streams are known as well.                               *)
(***************************************************************************)
EXTENDS Naturals, Sequences

CONSTANTS Nums,      \* the object numbers
          Gone       \* what an object without contents is

VARIABLES obj,       \* the objects of the open document
          signed,    \* its versions that were signed and not yet saved
          stored,    \* the versions the file holds
          trust      \* FALSE: the promise is off until the file is opened again

rvars == <<obj, signed, stored, trust>>

Shown(o) == [n \in Nums |-> IF o[n] = Gone THEN Gone ELSE o[n].val]
Last(s) == s[Len(s)]

Init ==
  /\ signed = <<>> /\ trust = TRUE
  /\ Len(stored) > 0 /\ Last(stored) = Shown(obj)

(* An edit gives one object new contents, or deletes it.                   *)
Edit ==
  /\ trust /\ trust'
  /\ \E n \in Nums : \A m \in Nums \ {n} : obj'[m] = obj[m]
  /\ UNCHANGED <<signed, stored>>

(* A field is given a new object as its signature.  Its appearance, if it  *)
(* has one, is made afterwards: it belongs to the next version.            *)
Sign ==
  /\ trust /\ trust'
  /\ Len(signed') = Len(signed) + 1
  /\ signed = SubSeq(signed', 1, Len(signed))
  /\ \E f, s \in Nums :
       /\ f # s /\ obj[s] = Gone /\ obj'[s] # Gone
       /\ \A n \in Nums \ {f, s} : obj'[n] = obj[n]
       /\ \A n \in Nums \ {f} : Last(signed')[n] = Shown(obj')[n]
  /\ UNCHANGED stored

Save ==
  /\ trust /\ trust'
  /\ \E w \in {signed, Append(signed, Shown(obj))} : stored' = stored \o w
  /\ Last(stored') = Shown(obj)
  /\ signed' = <<>>
  /\ UNCHANGED obj

(* The document is given up and its file opened again.                     *)
Discard ==
  /\ trust'
  /\ Shown(obj') = Last(stored)
  /\ signed' = <<>>
  /\ UNCHANGED stored

(* A failure from which the open document does not recover.  The file is   *)
(* never harmed.                                                           *)
Fail == ~trust' /\ UNCHANGED stored

Next == Edit \/ Sign \/ Save \/ Discard \/ Fail

Spec == Init /\ [][Next]_rvars
=============================================================================
