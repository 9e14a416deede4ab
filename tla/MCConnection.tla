---------------------------- MODULE MCConnection ----------------------------
(***************************************************************************)
(* Connection for TLC: the servers it may meet.                            *)
(***************************************************************************)
EXTENDS Connection

(* Servers with and without TLS, that change what they offer over TLS, and  *)
(* one that offers nothing the client knows.                                *)
AnyOffers == { {"starttls", "PLAIN"}, {"starttls", "SCRAM-SHA-1", "EXTERNAL"},
               {"DIGEST-MD5", "PLAIN"}, {} }

(* Servers that always offer a mechanism the client can use. *)
UsableOffers == { {"starttls", "SCRAM-SHA-1", "PLAIN"}, {"DIGEST-MD5"},
                  {"EXTERNAL", "PLAIN"} }
=============================================================================
