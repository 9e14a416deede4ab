--------------------------------- MODULE Jid ---------------------------------
(***************************************************************************)
(* JID.hpp: how an address is taken from a string and put into one.        *)
(* A string is a sequence of characters; only "@" and "/" are told apart    *)
(* from the others.                                                        *)
(***************************************************************************)
EXTENDS Integers, Sequences

CONSTANT Characters
ASSUME CharactersAssumption == {"@", "/"} \subseteq Characters

(* string::find; what stands for npos is the place behind the last.         *)
Places(c, s) == {i \in 1 .. Len(s) : s[i] = c}
Find(c, s) ==
    IF Places(c, s) = {} THEN Len(s) + 1
    ELSE CHOOSE i \in Places(c, s) : \A j \in Places(c, s) : i <= j

LoadJID(s) ==
    LET slash == Find("/", s)
        at == Find("@", s)
    IN  [user |-> IF at < slash THEN SubSeq(s, 1, at - 1) ELSE <<>>,
         domain |-> SubSeq(s, IF at < slash THEN at + 1 ELSE 1, slash - 1),
         resource |-> SubSeq(s, slash + 1, Len(s))]

GetBareJID(j) == IF j.user = <<>> THEN j.domain ELSE j.user \o <<"@">> \o j.domain

GetFullJID(j) ==
    IF j.resource = <<>> THEN GetBareJID(j) ELSE GetBareJID(j) \o <<"/">> \o j.resource

Strings == Seq(Characters)
JIDs == [user : Strings, domain : Strings, resource : Strings]

(* An address as the protocol defines it: neither separator is in its node  *)
(* or in its domain.                                                        *)
Free(s) == \A i \in 1 .. Len(s) : s[i] \notin {"@", "/"}
WellFormed(j) == Free(j.user) /\ Free(j.domain)
=============================================================================
