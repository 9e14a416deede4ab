--------------------------- MODULE MCReadFraming ---------------------------
(* Instances of ReadFraming for TLC: documents with nested names, one that *)
(* does not parse, one that restarts the stream, one with a <stream/>.     *)
EXTENDS ReadFraming

SomeNames == {"stream:stream", "stream:features", "stream", "message", "body", "success", "iq"}

Leaf(n) == <<Open(n), Close(n)>>
In(n, s) == <<Open(n)>> \o s \o <<Close(n)>>

Message == In("message", Leaf("body"))
Forwarded == In("message", Leaf("message"))
Success == Leaf("success")
Broken == Leaf("iq")
Jingle == In("iq", Leaf("stream"))

SomeDocuments == {Message, Forwarded, Success, Broken}
JustSuccess == {Success}
JustBroken == {Broken}
WithStream == {Message, Jingle}
None == {}
=============================================================================
