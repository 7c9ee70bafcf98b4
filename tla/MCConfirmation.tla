--------------------------- MODULE MCConfirmation ---------------------------
(***************************************************************************)
(* Instances of Confirmation for TLC: users ask for a change of the mail   *)
(* address, and there is one manager, who has no address.                  *)
(***************************************************************************)
EXTENDS Confirmation

CONSTANTS s1, s2, v1, v2

OneSender == {s1}
OneVisitor == {v1}
TwoSenders == {s1, s2}
TwoVisitors == {v1, v2}

ToNobody == {"memo", "blank"}
OneManager == {"memo"}

\* One request has a mail with the link and one with the news.
One == {1}
OnesMails == {"link 1", "news 1"} \union ToNobody
LinkOfOne == <<"link 1">>
NewsOfOne == <<"news 1">>

\* Two requests, of which the id of the one may be part of that of the other.
Two == {1, 2}
NoneWithin == {}
OneWithinTwo == {<<1, 2>>}
TwosMails == {"link 1", "link 2", "news 1", "news 2"} \union ToNobody
LinkOfTwo == <<"link 1", "link 2">>
NewsOfTwo == <<"news 1", "news 2">>
=============================================================================
