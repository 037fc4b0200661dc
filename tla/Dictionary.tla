------------------------------ MODULE Dictionary ------------------------------
(***************************************************************************)
(* What a map of addresses promises (include/ft/cols/iphashmap.h): each     *)
(* address has at most one entry, which keeps its data until it is popped.  *)
(* An entry that is new holds any data: nobody has set them.  "answer" is   *)
(* what the last call returned, the data of the entry or None.              *)
(***************************************************************************)
EXTENDS Naturals

CONSTANTS Key, Data, None

VARIABLES dict, answer

Held == DOMAIN dict
Value(k) == IF k \in Held THEN dict[k] ELSE None

\* An entry there is already is returned as it is; a new one may be refused.
Add(k) ==
  \/ /\ k \in Held
     /\ answer' = dict[k] /\ UNCHANGED dict
  \/ /\ k \notin Held
     /\ \E d \in Data :
          /\ dict' = [j \in Held \cup {k} |-> IF j = k THEN d ELSE dict[j]]
          /\ answer' = d
  \/ /\ k \notin Held
     /\ answer' = None /\ UNCHANGED dict
Refuse == answer' = None /\ UNCHANGED dict
Get(k) == answer' = Value(k) /\ UNCHANGED dict
Pop(k) == answer' = Value(k) /\ dict' = [j \in Held \ {k} |-> dict[j]]
Set(k, d) == /\ k \in Held
             /\ dict' = [dict EXCEPT ![k] = d]
             /\ UNCHANGED answer
Clear == dict' = [j \in {} |-> None] /\ UNCHANGED answer

Init == dict = [j \in {} |-> None] /\ answer = None
Next == \/ Refuse \/ Clear
        \/ \E k \in Key : \/ Add(k) \/ Get(k) \/ Pop(k)
                          \/ \E d \in Data : Set(k, d)
Spec == Init /\ [][Next]_<<dict, answer>>
=============================================================================
