----------------------------- MODULE MCWc24Title ----------------------------
(* Small instances of Wc24Title for TLC. *)
EXTENDS Wc24Title, TLC

U(name, base) == [name |-> name, base |-> base]
O(id, url) == [ID |-> id, url |-> url]
App == U("test", 1)

\* Four slots, the first reserved for mail, where the Wii's own is.  Only that
\* one is taken where programs are booted over HTTP, so that all of the title's
\* entries fit; one more is another title's where wc24app changes the list, so
\* that it gets full; and it is full where the flag is set.
Mail  == [i \in Slot |-> IF i = 0 THEN O(3, U("mail", 1)) ELSE NoOwner]
Other == [Mail EXCEPT ![3] = O(3, U("test", 1))]
Full  == [Other EXCEPT ![1] = O(3, U("mail", 2)), ![2] = O(3, U("test", 2))]
MCHomes == {[table |-> Mail, asks |-> {"http"}], [table |-> Full, asks |-> {"flag"}],
            [table |-> Other, asks |-> {"install", "delete", "restore"}]}

\* The backup holds the entry of wc24app where the list may have another one.
MCBackup == [Other EXCEPT ![1] = O(1, App), ![2] = O(2, U("installer", 1))]
MCUpdates == <<"installer", "verinfo">>
MCBase == [v \in 1 .. MaxVer |-> v]
=============================================================================
