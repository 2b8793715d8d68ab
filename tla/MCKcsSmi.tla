------------------------------- MODULE MCKcsSmi -------------------------------
(* One request of two bytes for each host, answered with two bytes of its    *)
(* own, so that a byte of the other host's message shows.                    *)
EXTENDS KcsSmi

MCDxeRequests == {<<"d1", "d2">>}
MCSmmRequests == {<<"s1", "s2">>}
MCRequests == MCDxeRequests \cup MCSmmRequests
MCReplies == {<<"a1", "a2">>, <<"b1", "b2">>}
MCAnswersTo ==
  [m \in MCRequests |-> IF m \in MCDxeRequests THEN {<<"a1", "a2">>} ELSE {<<"b1", "b2">>}]
===============================================================================
