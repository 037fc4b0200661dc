------------------------------ MODULE MCIPHashMap ------------------------------
(* Four addresses, two of each family, three of which share a bucket of two; texts *)
(* that name one, several families' worth or none; files with comments and doubles. *)
EXTENDS IPHashMap, IPHash, TLC
LOCAL Ip4(w) == [family |-> "ip4", words |-> w]
LOCAL Ip6(x, y) == [family |-> "ip6", words |-> <<x, 0, 0, 0, 0, 0, 0, y>>]
LOCAL a == Ip4(<<513, 1027>>)
LOCAL b == Ip4(<<513, 1283>>)
LOCAL c == Ip6(0, 2)
LOCAL d == Ip6(4660, 1)
MCKey == {a, b, c, d}
MCHash == (a :> 1536) @@ (b :> 1792) @@ (c :> 8) @@ (d :> 4671)
ASSUME MCHashAssumption == \A k \in MCKey : MCHash[k] = HashOf(k)
LOCAL T(colon, dot, v4, v6) == [colon |-> colon, dot |-> dot, v4 |-> v4, v6 |-> v6]
LOCAL ta == T(FALSE, TRUE, a, None)
LOCAL tc == T(TRUE, FALSE, None, c)
LOCAL mapped == T(TRUE, TRUE, None, d)
LOCAL name == T(FALSE, FALSE, None, None)
MCTexts == {ta, tc, mapped, name}
MCFiles == {<<None, ta, ta, name, tc>>, <<mapped, None, tc>>}
=============================================================================
