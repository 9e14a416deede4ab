----------------------------- MODULE ReadFraming -----------------------------
(***************************************************************************)
(* The reading side: how the bytes of a stream, cut into reads wherever    *)
(* TCP cuts them, become documents, and which of them are handled.         *)
(* HandleRead appends a read to ReadDataStream; while the connection waits *)
(* for features the text is searched and then dropped whole; later expat   *)
(* delimits one document after the other, and what is left over is         *)
(* searched for the end of the stream.                                     *)
(*                                                                         *)
(* A text is a sequence of tags.  A read that ends within a tag is modelled *)
(* as ending before it: neither expat nor the searches see half a tag.     *)
(***************************************************************************)
EXTENDS Naturals, Sequences, FiniteSets

CONSTANTS Names,        \* the names of elements
          Documents,    \* what the server may send: sequences of tags
          Unparsable,   \* those that expat delimits and pugixml refuses
          Restarts,     \* those after which the client opens a new stream
          MaxDocuments, \* bound on the documents of a behaviour
          Eager         \* the server does not wait for the client's answers

Tags == [k : {"open", "close"}, n : Names]
Prefix(s, i) == SubSeq(s, 1, i)

Opens(s)  == {i \in DOMAIN s : s[i].k = "open"}
Closes(s) == {i \in DOMAIN s : s[i].k = "close"}
Named(s, I, n) == {i \in I : s[i].n = n}

(* What SAXEndElementHandler waits for: as many ends as beginnings of the   *)
(* root's name, whatever is nested.                                         *)
RootEnded(s) ==
    /\ s # <<>> /\ s[1].k = "open"
    /\ Cardinality(Named(s, Opens(s), s[1].n)) = Cardinality(Named(s, Closes(s), s[1].n))

(* expat goes on only as long as every end tag closes the innermost tag.    *)
Depth(s, i) == Cardinality(Opens(Prefix(s, i))) - Cardinality(Closes(Prefix(s, i)))
WellFormed(s) ==
    \A i \in Closes(s) : \E j \in Named(s, Opens(s), s[i].n) :
        j < i /\ Cardinality(Opens(SubSeq(s, j, i))) = Cardinality(Closes(SubSeq(s, j, i)))
              /\ \A h \in j .. i - 1 :
                    Cardinality(Opens(SubSeq(s, j, h))) > Cardinality(Closes(SubSeq(s, j, h)))

Whole(s) == RootEnded(s) /\ WellFormed(s)
Minimal(s) == Whole(s) /\ \A i \in 1 .. Len(s) - 1 : ~Whole(Prefix(s, i))

ASSUME FramingAssumption ==
    /\ {"stream:stream", "stream:features"} \subseteq Names
    /\ Documents \subseteq Seq(Tags) /\ \A d \in Documents : Minimal(d)
    /\ Unparsable \subseteq Documents /\ Restarts \subseteq Documents
    /\ Unparsable \cap Restarts = {}
    /\ MaxDocuments \in Nat /\ Eager \in BOOLEAN

VARIABLES
    wire,       \* sent by the server and not yet read
    stream,     \* ReadDataStream
    incoming,   \* IncomingDocuments
    phase,      \* "features" while the connection waits for them, "open", "ended"
    io,         \* where the IO thread is in CheckStreamForValidXML
    loadMore,   \* its LoadMore
    server,     \* what the server does next
    sent,       \* the documents the server sent that parse (history)
    garbled,    \* how many it sent that do not (history)
    handled,    \* those the connection handled (history)
    stuck       \* the last text delimited did not parse (history)

vars == <<wire, stream, incoming, phase, io, loadMore, server, sent, garbled, handled, stuck>>

Open(n) == [k |-> "open", n |-> n]
Close(n) == [k |-> "close", n |-> n]
Header == <<Open("stream:stream"), Open("stream:features"), Close("stream:features")>>

Has(s, tag) == \E i \in DOMAIN s : s[i] = tag

Init ==
    /\ wire = <<>> /\ stream = <<>> /\ incoming = <<>>
    /\ phase = "features" /\ io = "idle" /\ loadMore = TRUE
    /\ server = "features"
    /\ sent = <<>> /\ garbled = 0 /\ handled = <<>> /\ stuck = FALSE

-----------------------------------------------------------------------------
(* The server: it answers an opened stream with features; then it answers  *)
(* the client, which writes something once it has the features, until it    *)
(* has sent a document of Restarts, after which it waits for a new stream.  *)

client == <<stream, incoming, phase, io, loadMore, handled, stuck>>

SendFeatures ==
    /\ server = "features"
    /\ wire' = wire \o Header
    /\ server' = "answers"
    /\ UNCHANGED <<client, sent, garbled>>

Answers == server = "answers" /\ (Eager \/ phase = "open")

SendDocument(d) ==
    /\ Answers /\ Len(sent) + garbled < MaxDocuments
    /\ wire' = wire \o d
    /\ IF d \in Unparsable
       THEN garbled' = garbled + 1 /\ UNCHANGED sent
       ELSE sent' = Append(sent, d) /\ UNCHANGED garbled
    /\ server' = IF d \in Restarts THEN "restarting" ELSE server
    /\ UNCHANGED client

CloseStream ==
    /\ Answers
    /\ wire' = Append(wire, Close("stream:stream"))
    /\ server' = "closed"
    /\ UNCHANGED <<client, sent, garbled>>

-----------------------------------------------------------------------------
(* The client. *)

HandleRead ==
    /\ io = "idle"
    /\ \E n \in 1 .. Len(wire) :
         /\ stream' = stream \o Prefix(wire, n)
         /\ wire' = SubSeq(wire, n + 1, Len(wire))
    /\ io' = IF phase = "features" THEN "features" ELSE "load"
    /\ loadMore' = TRUE /\ stuck' = FALSE
    /\ UNCHANGED <<incoming, phase, server, sent, garbled, handled>>

(* Mutated: the text stays in ReadDataStream. *)
FeaturesKept ==
    /\ io = "features"
    /\ phase' = IF Has(stream, Close("stream:features")) THEN "open" ELSE phase
    /\ io' = "idle"
    /\ UNCHANGED <<wire, stream, incoming, loadMore, server, sent, garbled, handled, stuck>>

CheckStreamForFeatures ==
    /\ io = "features"
    /\ IF Has(stream, Close("stream:features"))
       THEN stream' = <<>> /\ phase' = "open"
       ELSE UNCHANGED <<stream, phase>>
    /\ io' = "idle"
    /\ UNCHANGED <<wire, incoming, loadMore, server, sent, garbled, handled, stuck>>

(* EndPosition of the SAX handlers; 0 when no document is complete.         *)
Ends(text) == {i \in DOMAIN text : Whole(Prefix(text, i))}
EndPosition(text) ==
    IF Ends(text) = {} THEN 0
    ELSE CHOOSE i \in Ends(text) : \A j \in Ends(text) : i <= j

Incomplete ==
    /\ io = "load" /\ EndPosition(stream) = 0
    /\ loadMore' = FALSE /\ io' = "fetch"
    /\ UNCHANGED <<wire, stream, incoming, phase, server, sent, garbled, handled, stuck>>

(* Mutated: the loop stops after the first document of a read. *)
LoadOnce ==
    LET end == EndPosition(stream)
    IN  /\ io = "load" /\ end > 0
        /\ stream' = SubSeq(stream, end + 1, Len(stream))
        /\ incoming' = Append(incoming, Prefix(stream, end))
        /\ loadMore' = FALSE /\ io' = "fetch"
        /\ UNCHANGED <<wire, phase, server, sent, garbled, handled, stuck>>

(* Mutated: the last tag of the document stays behind. *)
LoadShort ==
    LET end == EndPosition(stream)
    IN  /\ io = "load" /\ end > 0
        /\ stream' = SubSeq(stream, end, Len(stream))
        /\ incoming' = Append(incoming, Prefix(stream, end - 1))
        /\ io' = "fetch"
        /\ UNCHANGED <<wire, phase, loadMore, server, sent, garbled, handled, stuck>>

InnerLoadXML ==
    LET end == EndPosition(stream)
        doc == Prefix(stream, end)
    IN  /\ io = "load" /\ end > 0
        /\ stream' = SubSeq(stream, end + 1, Len(stream))
        /\ IF doc \in Unparsable
           THEN stuck' = TRUE /\ UNCHANGED incoming
           ELSE incoming' = Append(incoming, doc) /\ UNCHANGED stuck
        /\ io' = "fetch"
        /\ UNCHANGED <<wire, phase, loadMore, server, sent, garbled, handled>>

(* Mutated: the document is not popped. *)
FetchFront ==
    /\ io = "fetch" /\ incoming # <<>>
    /\ handled' = IF phase = "open" THEN Append(handled, Head(incoming)) ELSE handled
    /\ io' = "load"
    /\ UNCHANGED <<wire, stream, incoming, phase, loadMore, server, sent, garbled, stuck>>

(* One turn of the loop of CheckStreamForValidXML; documents fetched while  *)
(* the connection waits for features, or has ended, are dropped.            *)
FetchDocument ==
    /\ io = "fetch" /\ incoming # <<>>
    /\ incoming' = Tail(incoming)
    /\ handled' = IF phase = "open" THEN Append(handled, Head(incoming)) ELSE handled
    /\ IF phase = "open" /\ Head(incoming) \in Restarts
       THEN phase' = "features" /\ server' = "features"
       ELSE UNCHANGED <<phase, server>>
    /\ io' = IF loadMore THEN "load" ELSE "fetch"
    /\ UNCHANGED <<wire, stream, loadMore, sent, garbled, stuck>>

(* Mutated: the loop returns without a look at what is left. *)
LeaveLoop ==
    /\ io = "fetch" /\ incoming = <<>>
    /\ io' = "idle"
    /\ UNCHANGED <<wire, stream, incoming, phase, loadMore, server, sent, garbled, handled, stuck>>

CheckForStreamEnd ==
    /\ io = "fetch" /\ incoming = <<>>
    /\ IF Has(stream, Close("stream:stream")) \/ Has(stream, Close("stream"))
       THEN stream' = <<>> /\ phase' = "ended"
       ELSE UNCHANGED <<stream, phase>>
    /\ io' = "idle"
    /\ UNCHANGED <<wire, incoming, loadMore, server, sent, garbled, handled, stuck>>

-----------------------------------------------------------------------------
ServerSteps == SendFeatures \/ (\E d \in Documents : SendDocument(d)) \/ CloseStream
Loop == CheckStreamForFeatures \/ Incomplete \/ InnerLoadXML \/ FetchDocument \/ CheckForStreamEnd

Next == ServerSteps \/ HandleRead \/ Loop

SafeSpec == Init /\ [][Next]_vars

(* What the server wrote arrives, and the IO thread runs. *)
Spec == SafeSpec /\ WF_vars(HandleRead) /\ WF_vars(Loop)

-----------------------------------------------------------------------------
TypeOK ==
    /\ wire \in Seq(Tags) /\ stream \in Seq(Tags)
    /\ incoming \in Seq(Seq(Tags)) /\ Len(incoming) <= 1
    /\ phase \in {"features", "open", "ended"}
    /\ io \in {"idle", "features", "load", "fetch"}
    /\ loadMore \in BOOLEAN /\ stuck \in BOOLEAN
    /\ server \in {"features", "answers", "restarting", "closed"}
    /\ sent \in Seq(Documents) /\ garbled \in Nat /\ handled \in Seq(Seq(Tags))

(* Wherever the reads are cut, the connection handles the documents that    *)
(* were sent, whole, in order, none twice and none left out in between,     *)
(* unparsable ones apart: across features, restarts and leftovers.          *)
HandledInOrder ==
    /\ Len(handled) <= Len(sent)
    /\ handled = Prefix(sent, Len(handled))

(* When the IO thread goes back to reading, no complete document lies in    *)
(* the buffer waiting for bytes that may never come, unless the text just   *)
(* before it did not parse (InnerLoadXML then ends the loop).               *)
NothingWaits ==
    io = "idle" /\ phase = "open" /\ ~stuck => EndPosition(stream) = 0

(* The end of the server's stream is noticed, wherever the reads are cut    *)
(* and whatever documents precede it.                                       *)
EndIsNoticed == server = "closed" ~> phase = "ended"

(* The reading side is an ordered channel for documents, up to the end of   *)
(* the stream or to a document that does not parse: those behind it wait    *)
(* for a read that may never come.                                          *)
Channel == INSTANCE OrderedChannel WITH
    accepted <- Len(sent),
    delivered <- [i \in DOMAIN handled |-> i],
    broken <- phase = "ended" \/ garbled > 0

ImplementsOrderedChannel == Channel!Spec

(* "Got end of stream from xmppserver" (Connection.cpp:218) is said of a    *)
(* server that ended its stream.                                            *)
EndOnlyWhenClosed == phase = "ended" => server = "closed"
=============================================================================
