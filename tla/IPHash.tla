-------------------------------- MODULE IPHash --------------------------------
(* The hash functions of src/cols/iphashmap.c.  An address is its family and its *)
(* 16-bit words: two of an IPv4 address, eight of an IPv6 address.               *)
EXTENDS Integers, Sequences, Bitwise

LOCAL AF == [ip4 |-> 2, ip6 |-> 10]
\* (v is bound to a value, which a parameter need not be.)
XorAll[words \in Seq(0 .. 2^16 - 1), x \in 0 .. 2^16 - 1] ==
  IF words = <<>> THEN x
  ELSE CHOOSE r \in {XorAll[Tail(words), v] : v \in {x ^^ Head(words)}} : TRUE
HashOf(a) == XorAll[a.words, AF[a.family]]
=============================================================================
