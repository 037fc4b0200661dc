-------------------------------- MODULE MCSocks --------------------------------
(* Clients for model checking: every address type, a user, a choice of methods, *)
(* messages that are refused or not understood; names that just fit the buffer,  *)
(* are one longer, are empty or hold a NUL; users that just fill a frame, and    *)
(* overflow it.                                                                  *)
EXTENDS Socks
LOCAL R(vn, cd, m, a, h, u) == [vn |-> vn, cd |-> cd, methods |-> m, atyp |-> a,
                                host |-> h, port |-> <<0, 80>>, user |-> u]
LOCAL User(n) == [i \in 1 .. n |-> 7]
MCRequests ==
  { R(4, 1, <<>>, 1, <<10, 0, 0, 9>>, <<>>), R(4, 1, <<>>, 1, <<10, 0, 0, 0>>, <<7>>),
    R(4, 1, <<>>, 3, <<97, 98>>, <<7>>), R(4, 2, <<>>, 1, <<10, 0, 0, 9>>, <<>>),
    R(5, 1, <<0>>, 1, <<10, 0, 0, 9>>, <<>>), R(5, 1, <<2, 0>>, 3, <<97, 98>>, <<>>),
    R(5, 1, <<0>>, 4, [i \in 1 .. 16 |-> i], <<>>), R(5, 1, <<2>>, 1, <<10, 0, 0, 9>>, <<>>),
    R(5, 1, <<0>>, 3, <<97, 98, 99>>, <<>>), R(5, 1, <<0>>, 3, <<97, 98, 99, 100>>, <<>>),
    R(5, 1, <<0>>, 3, <<97, 0, 98>>, <<>>), R(5, 1, <<0>>, 3, <<>>, <<>>),
    R(4, 1, <<>>, 3, <<97, 98, 99, 100>>, <<>>), R(4, 1, <<>>, 3, <<97, 98, 99, 100, 101>>, <<>>),
    R(4, 1, <<>>, 3, <<>>, <<>>),
    R(4, 1, <<>>, 1, <<10, 0, 0, 9>>, User(14)), R(4, 1, <<>>, 1, <<10, 0, 0, 9>>, User(15)),
    R(4, 1, <<>>, 3, <<97, 98>>, User(9)), R(4, 1, <<>>, 3, <<97, 98>>, User(14)),
    R(5, 1, <<0>>, 9, <<10>>, <<>>), R(6, 1, <<>>, 1, <<10, 0, 0, 9>>, <<>>) }
MCPayload == <<201>>
MCAnswer == <<211>>
MCStale == {0, 7}
=============================================================================
