----------------------------- MODULE MCStanzas -----------------------------
(* Two applications, one of them bound to an address without a node, whose *)
(* resource holds an at sign; the other changes its resource.              *)
EXTENDS Stanzas

TheCharacters ==
    {"@", "/", "u", "d", "p", "q", "k", "r", "s", "i", "chat", "normal", "groupchat",
     "headline", "error", "get", "set", "result"}

User == <<"u", "@", "d">>
Phone == User \o <<"/", "p", "/", "q">>
Desk == User \o <<"/", "k">>
Component == <<"d", "/", "r", "@", "s">>

TwoApps == {"user", "component"}
TheirAddresses == [user |-> {Phone, Desk}, component |-> {Component}]
SomeTargets == {User, Component}

Attr(from, type) ==
    [n \in Attributes |-> IF n = "from" THEN from ELSE IF n = "type" THEN type ELSE <<>>]
Plain(name, inner) ==
    [root |-> [name |-> name, has |-> {"from"}, attr |-> Attr(Component, <<>>)],
     inner |-> inner]
Within(name) == [name |-> name, has |-> {"from", "type"}, attr |-> Attr(Desk, <<"chat">>)]
SomeForeign == {Plain("iq", {Within("message")}), Plain("iq", {}),
                Plain("presence", {Within("message")})}
=============================================================================
