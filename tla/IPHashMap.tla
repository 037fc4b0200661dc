------------------------------- MODULE IPHashMap -------------------------------
(***************************************************************************)
(* The hash map of IP addresses (src/cols/iphashmap.c): buckets that are    *)
(* allocated when the first entry comes and freed when the last one goes,   *)
(* each a chain of the entries whose hash falls into it.                    *)
(*                                                                         *)
(* A text is [colon, dot, v4, v6]: which of the two characters it has, and  *)
(* what inet_pton makes of it in either family (a key, or None).  A file is *)
(* a sequence of what fgets returns: None for a blank or a comment, or a    *)
(* text.  malloc may fail each time.  One thread uses a map at a time.      *)
(*                                                                         *)
(* An operator that is not reached from Next is the next definition with a  *)
(* bug in it; the properties are known to catch it.                         *)
(***************************************************************************)
EXTENDS Naturals, Sequences, FiniteSets

CONSTANTS
  Key,          \* addresses, of both families
  Hash,         \* ft_iphashmap_hash_ip4 and _ip6, see module IPHash
  BucketSize,   \* buckets of a map
  Data,         \* what an application keeps in an entry
  Texts, Files, \* addresses as texts, and files of them
  None, NULL

ASSUME MapAssumption == /\ Hash \in [Key -> Nat] /\ BucketSize \in Nat \ {0}
                        /\ None \notin Data /\ None \notin Key
                        /\ IsFiniteSet(Key)
\* What inet_pton makes of a text is an address, or none.
ASSUME TextAssumption == /\ \A t \in Texts : {t.v4, t.v6} \subseteq Key \cup {None}
                         /\ Files \subseteq Seq(Texts \cup {None})

VARIABLES
  buckets,      \* NULL, or the chain of each bucket
  count,
  answer,       \* what the last call returned: the data of an entry, or None
  file,         \* the lines ft_iphashmap_load has still to read
  loaded        \* the lines it has made entries of

vars == <<buckets, count, answer, file, loaded>>

Entry == [key : Key, data : Data]
Bucket == 0 .. BucketSize - 1
Index(k) == Hash[k] % BucketSize
Chain(B, k) == B[Index(k)]
At(B, k, i) == i \in DOMAIN Chain(B, k) /\ Chain(B, k)[i].key = k
Has(B, k) == B # NULL /\ \E i \in DOMAIN Chain(B, k) : At(B, k, i)
ValueOf(B, k) == IF Has(B, k)
                 THEN LET i == CHOOSE i \in DOMAIN Chain(B, k) : At(B, k, i)
                      IN  Chain(B, k)[i].data
                 ELSE None

ASSUME NullAssumption == NULL \notin [Bucket -> Seq(Entry)]

\* ft_iphashmap_alloc
Empty == [b \in Bucket |-> <<>>]
Allocated == IF buckets = NULL THEN Empty ELSE buckets

-----------------------------------------------------------------------------
\* ft_iphashmap_add_int_: an entry that is there is returned; a new one goes to
\* the end of its chain.  The buckets stay when there is no memory for the entry.
AddNew(k) == \E d \in Data :
  /\ ~Has(buckets, k)
  /\ buckets' = [Allocated EXCEPT ![Index(k)] = Append(@, [key |-> k, data |-> d])]
  /\ count' = count + 1
  /\ answer' = d
AddThere(k) == Has(buckets, k) /\ answer' = ValueOf(buckets, k) /\ UNCHANGED <<buckets, count>>
AddFails(k) == /\ ~Has(buckets, k)
               /\ answer' = None
               /\ buckets' \in {buckets, Allocated}
               /\ UNCHANGED count
AddKey(k) == AddNew(k) \/ AddThere(k) \/ AddFails(k)

\* ft_iphashmap_get
GetKey(k) == answer' = ValueOf(buckets, k) /\ UNCHANGED <<buckets, count>>

\* ft_iphashmap_pop_int_: the buckets go with the last entry.
UnlinkRest(q, i) == SubSeq(q, 1, i - 1)
Unlink(q, i) == [j \in 1 .. Len(q) - 1 |-> IF j < i THEN q[j] ELSE q[j + 1]]
Freed(c) == c = 0
PopThere(k) == \E i \in DOMAIN Chain(buckets, k) :
  /\ At(buckets, k, i)
  /\ answer' = Chain(buckets, k)[i].data
  /\ count' = count - 1
  /\ buckets' = IF Freed(count - 1) THEN NULL
                ELSE [buckets EXCEPT ![Index(k)] = Unlink(@, i)]
PopNot(k) == ~Has(buckets, k) /\ answer' = None /\ UNCHANGED <<buckets, count>>
PopKey(k) == (buckets # NULL /\ PopThere(k)) \/ PopNot(k)

\* The family is taken from the text if the caller leaves it open.
Family == {"AF_INET", "AF_INET6", "AF_UNSPEC"}
Detected(f, t) == IF f # "AF_UNSPEC" THEN f
                  ELSE IF t.colon THEN "AF_INET6"
                  ELSE IF t.dot THEN "AF_INET" ELSE "unknown"
Parsed(f, t) == CASE Detected(f, t) = "AF_INET" -> t.v4
                  [] Detected(f, t) = "AF_INET6" -> t.v6
                  [] OTHER -> None
Nothing == answer' = None /\ UNCHANGED <<buckets, count>>
AddParsed(k) == IF k = None THEN Nothing ELSE AddKey(k)

-----------------------------------------------------------------------------
Idle == file = <<>> /\ UNCHANGED <<file, loaded>>

Add == Idle /\ \E f \in Family, t \in Texts : AddParsed(Parsed(f, t))
AddAddr == Idle /\ \E k \in Key : AddKey(k)
\* ft_iphashmap_get_sa; a NULL or a socket address of another family is nowhere.
GetSa == Idle /\ (Nothing \/ \E k \in Key : GetKey(k))
Pop == Idle /\ \E f \in Family, t \in Texts :
         LET k == Parsed(f, t) IN IF k = None THEN Nothing ELSE PopKey(k)
PopAddr == Idle /\ \E k \in Key : PopKey(k)

\* The application sets the data of an entry it has been given.
SetData == Idle /\ \E k \in Key, d \in Data :
  /\ Has(buckets, k)
  /\ \E i \in DOMAIN Chain(buckets, k) :
       /\ At(buckets, k, i)
       /\ buckets' = [buckets EXCEPT ![Index(k)][i].data = d]
  /\ UNCHANGED <<count, answer>>

\* ft_iphashmap_clear.  (The entries themselves are not freed.)
Clear == Idle /\ buckets' = NULL /\ count' = 0 /\ UNCHANGED answer

\* ft_iphashmap_load: line by line; nothing else runs until the file ends.
LoadStart == /\ file = <<>>
             /\ file' \in Files /\ loaded' = 0
             /\ UNCHANGED <<buckets, count, answer>>
LoadLine ==
  /\ file # <<>>
  /\ file' = Tail(file)
  /\ IF Head(file) = None THEN UNCHANGED <<buckets, count, answer, loaded>>
     ELSE /\ AddParsed(Parsed("AF_UNSPEC", Head(file)))
          /\ loaded' = loaded + (IF answer' = None THEN 0 ELSE 1)

Init == buckets = NULL /\ count = 0 /\ answer = None /\ file = <<>> /\ loaded = 0
Next == \/ Add \/ AddAddr \/ GetSa \/ Pop \/ PopAddr \/ SetData \/ Clear
        \/ LoadStart \/ LoadLine
Spec == Init /\ [][Next]_vars
-----------------------------------------------------------------------------
\* Every entry is in the chain of its hash, and no address has two: an entry
\* could be found by no call, or the wrong one be returned.
ChainOk(b, q) == /\ \A i \in DOMAIN q : Index(q[i].key) = b
                 /\ \A i, j \in DOMAIN q : q[i].key = q[j].key => i = j
Typed(B) == B # NULL => B \in [Bucket -> Seq(Entry)]
Sound(B) == B # NULL => \A b \in Bucket : ChainOk(b, B[b])
TypeOK == count \in Nat /\ answer \in Data \cup {None} /\ Typed(buckets)
ChainsSound == Sound(buckets)

\* The count is that of the addresses that can be found, whatever has been added
\* twice, popped twice or refused: the buckets are freed with the last entry and
\* not before (assert(this->count > 0), and no entry is lost with the buckets).
Held(B) == {k \in Key : Has(B, k)}
CountExact == count = Cardinality(Held(buckets))

\* What calls return is what a dictionary would: an address that has been added
\* is found, with the data that were set last, until it is popped.
Dict == INSTANCE Dictionary WITH dict <- [k \in Held(buckets) |-> ValueOf(buckets, k)]
DictSpec == Dict!Spec
=============================================================================
