-------------------------- MODULE ReadFramingProofs --------------------------
(***************************************************************************)
(* Theorems about ReadFraming, for any documents the server may send,      *)
(* however the reads cut them: what expat counts need not be computed, only *)
(* that a document ends where it ends and not before (Minimal).            *)
(***************************************************************************)
EXTENDS ReadFraming, SequenceTheorems, WellFoundedInduction, TLAPS

(* What is on its way to the parser.                                        *)
Text == stream \o wire

(* The texts it is made of: documents, which may parse or not, and the end  *)
(* of the stream.                                                           *)
Ending == <<Close("stream:stream")>>
Pieces == Documents \cup {Ending}
Parses(d) == d \in Documents \ Unparsable

(* text is the texts of docs one after the other, cut at these positions.   *)
Framed(text, docs, cut) ==
    /\ docs \in Seq(Pieces)
    /\ cut \in [0 .. Len(docs) -> 0 .. Len(text)]
    /\ cut[0] = 0 /\ cut[Len(docs)] = Len(text)
    /\ \A i, j \in 0 .. Len(docs) : i <= j => cut[i] <= cut[j]
    /\ \A i \in 1 .. Len(docs) :
         /\ cut[i] = cut[i - 1] + Len(docs[i])
         /\ \A k \in 1 .. Len(docs[i]) : text[cut[i - 1] + k] = docs[i][k]

(* Those of docs that parse are the elements of list behind the first       *)
(* taken: num[i] counts up to the i-th of docs.                             *)
Numbered(list, docs, num, taken) ==
    /\ num \in [0 .. Len(docs) -> 0 .. Len(list)]
    /\ num[0] = taken /\ num[Len(docs)] = Len(list)
    /\ \A i \in 1 .. Len(docs) :
         IF Parses(docs[i]) THEN num[i] = num[i - 1] + 1 /\ docs[i] = list[num[i]]
                            ELSE num[i] = num[i - 1]

(* Behind a document that restarts the stream the server waits.             *)
RestartIsLast(docs) ==
    \A i \in 1 .. Len(docs) : docs[i] \in Restarts => i = Len(docs) /\ server = "restarting"

(* The loop, and why it may stop. *)
LoopInv ==
    /\ io = "features" => phase = "features"
    /\ io # "fetch" => incoming = <<>>
    /\ io = "load" => loadMore
    /\ io = "fetch" /\ ~loadMore => incoming = <<>> /\ EndPosition(stream) = 0
    /\ io = "fetch" /\ incoming = <<>> /\ loadMore => stuck

(* Before the features nothing but them is on its way. *)
FeaturesInv ==
    phase = "features" =>
        /\ handled = sent /\ incoming = <<>>
        /\ io \in {"load", "fetch"} => stream = <<>>
        /\ server \in {"features", "answers"}
        /\ Text = IF server = "features" THEN <<>> ELSE Header

(* Behind them the documents sent and not yet taken are. *)
OpenInv ==
    phase = "open" =>
        /\ server # "features"
        /\ \E docs \in Seq(Pieces) : \E cut, num :
             /\ Framed(Text, docs, cut)
             /\ Numbered(sent, docs, num, Len(handled) + Len(incoming))
             /\ RestartIsLast(docs)
             /\ incoming # <<>> /\ Head(incoming) \in Restarts =>
                    docs = <<>> /\ server = "restarting"

(* What was taken and not yet handled follows what was handled.             *)
TakenInv ==
    phase = "open" /\ incoming # <<>> =>
        Len(handled) < Len(sent) /\ Head(incoming) = sent[Len(handled) + 1]

(* The invariant of a server that waits for the client's answers.          *)
FramingInv == HandledInOrder /\ FeaturesInv /\ OpenInv /\ TakenInv

-----------------------------------------------------------------------------
(* Sequences. *)

(* The first n elements. *)
LEMMA PrefixOf ==
  ASSUME NEW S, NEW s \in Seq(S), NEW n \in 0 .. Len(s)
  PROVE  /\ Prefix(s, n) \in Seq(S) /\ Len(Prefix(s, n)) = n
         /\ \A i \in 1 .. n : Prefix(s, n)[i] = s[i]
<1>1. \A i \in 1 .. n : s[i] \in S
  BY ElementOfSeq
<1>2. /\ SubSeq(s, 1, n) \in Seq(S)
      /\ Len(SubSeq(s, 1, n)) = IF 1 <= n THEN n - 1 + 1 ELSE 0
      /\ \A i \in 1 .. n - 1 + 1 : SubSeq(s, 1, n)[i] = s[1 + i - 1]
  BY <1>1, SubSeqProperties
<1> QED
  BY <1>2 DEF Prefix

(* The others. *)
LEMMA RestOf ==
  ASSUME NEW S, NEW s \in Seq(S), NEW n \in 0 .. Len(s)
  PROVE  /\ SubSeq(s, n + 1, Len(s)) \in Seq(S)
         /\ Len(SubSeq(s, n + 1, Len(s))) = Len(s) - n
         /\ \A i \in 1 .. Len(s) - n : SubSeq(s, n + 1, Len(s))[i] = s[n + i]
<1>1. Len(s) \in Nat
  OBVIOUS
<1>2. \A i \in n + 1 .. Len(s) : s[i] \in S
  BY <1>1, ElementOfSeq
<1>3. /\ SubSeq(s, n + 1, Len(s)) \in Seq(S)
      /\ Len(SubSeq(s, n + 1, Len(s))) = IF n + 1 <= Len(s) THEN Len(s) - (n + 1) + 1 ELSE 0
      /\ \A i \in 1 .. Len(s) - (n + 1) + 1 : SubSeq(s, n + 1, Len(s))[i] = s[n + 1 + i - 1]
  BY <1>1, <1>2, SubSeqProperties
<1> QED
  BY <1>1, <1>3

(* A read moves the cut between what was read and what was not. *)
LEMMA ReadKeepsText ==
  ASSUME NEW S, NEW s \in Seq(S), NEW w \in Seq(S), NEW n \in 1 .. Len(w)
  PROVE  (s \o Prefix(w, n)) \o SubSeq(w, n + 1, Len(w)) = s \o w
<1>1. Prefix(w, n) \in Seq(S) /\ SubSeq(w, n + 1, Len(w)) \in Seq(S)
  BY PrefixOf, RestOf
<1>2. Prefix(w, n) \o SubSeq(w, n + 1, Len(w)) = w
  <2>1. SubSeq(w, 1, n) \o SubSeq(w, n + 1, Len(w)) = SubSeq(w, 1, Len(w))
    BY ConcatAdjacentSubSeq
  <2> QED
    BY <2>1, SubSeqFull DEF Prefix
<1> DEFINE p == Prefix(w, n)
           r == SubSeq(w, n + 1, Len(w))
<1> HIDE DEF p, r
<1>3. p \in Seq(S) /\ r \in Seq(S)
  BY <1>1 DEF p, r
<1>4. (s \o p) \o r = s \o (p \o r)
  BY <1>3, ConcatAssociative
<1> QED
  BY <1>2, <1>4 DEF p, r

(* What is left of a text, of which the front was read. *)
LEMMA RestOfConcat ==
  ASSUME NEW S, NEW s \in Seq(S), NEW w \in Seq(S), NEW n \in 0 .. Len(s)
  PROVE  SubSeq(s, n + 1, Len(s)) \o w = SubSeq(s \o w, n + 1, Len(s \o w))
<1> DEFINE r == SubSeq(s, n + 1, Len(s))
<1>1. /\ s \o w \in Seq(S) /\ Len(s \o w) = Len(s) + Len(w)
      /\ \A i \in 1 .. Len(s) + Len(w) : (s \o w)[i] = IF i <= Len(s) THEN s[i] ELSE w[i - Len(s)]
  BY ConcatProperties
<1>2. r \in Seq(S) /\ Len(r) = Len(s) - n /\ \A i \in 1 .. Len(s) - n : r[i] = s[n + i]
  BY RestOf
<1>3. Len(s) \in Nat /\ Len(w) \in Nat
  OBVIOUS
<1> DEFINE t == SubSeq(s \o w, n + 1, Len(s \o w))
<1>4. /\ t \in Seq(S) /\ Len(t) = Len(s) + Len(w) - n
      /\ \A i \in 1 .. Len(s) + Len(w) - n : t[i] = (s \o w)[n + i]
  BY <1>1, <1>3, RestOf
<1> HIDE DEF r, t
<1>5. /\ r \o w \in Seq(S) /\ Len(r \o w) = Len(r) + Len(w)
      /\ \A i \in 1 .. Len(r) + Len(w) : (r \o w)[i] = IF i <= Len(r) THEN r[i] ELSE w[i - Len(r)]
  BY <1>2, ConcatProperties
<1>6. ASSUME NEW i \in 1 .. Len(s) + Len(w) - n PROVE (r \o w)[i] = t[i]
  <2>1. t[i] = (s \o w)[n + i] /\ n + i \in 1 .. Len(s) + Len(w)
    BY <1>3, <1>4
  <2>2. CASE i <= Len(s) - n
    <3>1. (r \o w)[i] = s[n + i] /\ (s \o w)[n + i] = s[n + i]
      BY <1>1, <1>2, <1>3, <1>5, <2>1, <2>2
    <3> QED
      BY <2>1, <3>1
  <2>3. CASE i > Len(s) - n
    <3>1. (r \o w)[i] = w[i - (Len(s) - n)] /\ (s \o w)[n + i] = w[n + i - Len(s)]
      BY <1>1, <1>2, <1>3, <1>5, <2>1, <2>3
    <3>2. i - (Len(s) - n) = n + i - Len(s)
      BY <1>3
    <3> QED
      BY <2>1, <3>1, <3>2
  <2>4. i <= Len(s) - n \/ i > Len(s) - n
    BY <1>3
  <2> QED
    BY <2>2, <2>3, <2>4
<1>7. Len(r \o w) = Len(t)
  BY <1>2, <1>3, <1>4, <1>5
<1>8. \A i \in 1 .. Len(r \o w) : (r \o w)[i] = t[i]
  BY <1>4, <1>6, <1>7
<1>9. r \o w = t
  BY <1>4, <1>5, <1>7, <1>8, SeqEqual
<1> QED
  BY <1>9 DEF r, t

-----------------------------------------------------------------------------
(* Delimiting. *)

(* Every document is a non-empty sequence of tags, whole at its end. *)
LEMMA DocumentType ==
  ASSUME NEW d \in Documents
  PROVE  d \in Seq(Tags) /\ d # <<>> /\ Len(d) \in Nat \ {0} /\ Whole(d) /\ Minimal(d)
<1>1. d \in Seq(Tags) /\ Minimal(d) /\ Whole(d)
  BY FramingAssumption DEF FramingAssumption, Minimal
<1>2. d # <<>>
  BY <1>1 DEF Whole, RootEnded
<1> QED
  BY <1>1, <1>2, EmptySeq

(* Every piece of the text is a non-empty sequence of tags; the end of the  *)
(* stream is no beginning of a document.                                    *)
LEMMA PieceType ==
  ASSUME NEW d \in Pieces
  PROVE  d \in Seq(Tags) /\ Len(d) \in Nat \ {0}
<1>1. CASE d \in Documents
  BY <1>1, DocumentType
<1>2. CASE d = Ending
  <2>1. Close("stream:stream") \in Tags
    BY FramingAssumption DEF FramingAssumption, Close, Tags
  <2> QED
    BY <1>2, <2>1 DEF Ending
<1> QED
  BY <1>1, <1>2 DEF Pieces

(* EndPosition is where the first whole document ends, or zero. *)
LEMMA EndOfFirst ==
  ASSUME NEW s \in Seq(Tags), NEW n \in 1 .. Len(s), Whole(Prefix(s, n)),
         \A i \in 1 .. n - 1 : ~Whole(Prefix(s, i))
  PROVE  EndPosition(s) = n
<1>1. Len(s) \in Nat /\ DOMAIN s = 1 .. Len(s)
  OBVIOUS
<1>2. n \in Ends(s) /\ \A i \in Ends(s) : i \in Nat /\ n <= i
  BY <1>1 DEF Ends
<1>3. \A i \in Ends(s) : (\A j \in Ends(s) : i <= j) => i = n
  BY <1>2
<1>4. (CHOOSE i \in Ends(s) : \A j \in Ends(s) : i <= j) = n
  BY <1>2, <1>3
<1> QED
  BY <1>2, <1>4 DEF EndPosition

(* Without a whole document it is zero. *)
LEMMA NoEnd ==
  ASSUME NEW s \in Seq(Tags), \A i \in 1 .. Len(s) : ~Whole(Prefix(s, i))
  PROVE  EndPosition(s) = 0
<1>1. DOMAIN s = 1 .. Len(s)
  OBVIOUS
<1> QED
  BY <1>1 DEF EndPosition, Ends

(* The empty text ends no document. *)
LEMMA NothingHasNoEnd == EndPosition(<<>>) = 0
<1>1. <<>> \in Seq(Tags) /\ Len(<<>>) = 0
  BY EmptySeq
<1>2. \A i \in 1 .. Len(<<>>) : ~Whole(Prefix(<<>>, i))
  BY <1>1
<1> QED
  BY <1>1, <1>2, NoEnd

(* Two texts that agree on their first n tags. *)
LEMMA SamePrefix ==
  ASSUME NEW s \in Seq(Tags), NEW d \in Seq(Tags), NEW n \in Nat,
         n <= Len(s), n <= Len(d), \A i \in 1 .. n : s[i] = d[i]
  PROVE  Prefix(s, n) = Prefix(d, n)
<1>1. n \in 0 .. Len(s) /\ n \in 0 .. Len(d)
  OBVIOUS
<1>2. /\ Prefix(s, n) \in Seq(Tags) /\ Len(Prefix(s, n)) = n
      /\ \A i \in 1 .. n : Prefix(s, n)[i] = s[i]
  BY <1>1, PrefixOf
<1>3. /\ Prefix(d, n) \in Seq(Tags) /\ Len(Prefix(d, n)) = n
      /\ \A i \in 1 .. n : Prefix(d, n)[i] = d[i]
  BY <1>1, PrefixOf
<1> QED
  BY <1>2, <1>3, SeqEqual

(* A text that begins with a document, whole or not yet. *)
LEMMA DocumentFirst ==
  ASSUME NEW s \in Seq(Tags), NEW d \in Documents,
         \A i \in 1 .. Len(d) : i <= Len(s) => s[i] = d[i]
  PROVE  IF Len(d) <= Len(s) THEN EndPosition(s) = Len(d) /\ Prefix(s, Len(d)) = d
                             ELSE EndPosition(s) = 0
<1>1. d \in Seq(Tags) /\ Len(d) \in Nat \ {0} /\ Whole(d) /\ Minimal(d)
  BY DocumentType
<1>2. Len(s) \in Nat
  OBVIOUS
<1>3. ASSUME NEW n \in Nat, n <= Len(s), n <= Len(d) PROVE Prefix(s, n) = Prefix(d, n)
  <2>1. \A i \in 1 .. n : s[i] = d[i]
    BY <1>1, <1>2, <1>3
  <2> QED
    BY <1>1, <1>3, <2>1, SamePrefix
<1>4. ASSUME NEW n \in 1 .. Len(d) - 1, n <= Len(s) PROVE ~Whole(Prefix(s, n))
  <2>1. Prefix(s, n) = Prefix(d, n)
    BY <1>1, <1>3, <1>4
  <2> QED
    BY <1>1, <1>4, <2>1 DEF Minimal
<1>5. CASE Len(d) <= Len(s)
  <2>1. Prefix(s, Len(d)) = d
    BY <1>1, <1>3, <1>5, SubSeqFull DEF Prefix
  <2>2. Len(d) \in 1 .. Len(s) /\ \A i \in 1 .. Len(d) - 1 : ~Whole(Prefix(s, i))
    BY <1>1, <1>2, <1>4, <1>5
  <2>3. EndPosition(s) = Len(d)
    BY <1>1, <2>1, <2>2, EndOfFirst
  <2> QED
    BY <1>5, <2>1, <2>3
<1>6. CASE ~(Len(d) <= Len(s))
  <2>1. \A i \in 1 .. Len(s) : ~Whole(Prefix(s, i))
    BY <1>1, <1>2, <1>4, <1>6
  <2>2. EndPosition(s) = 0
    BY <2>1, NoEnd
  <2> QED
    BY <1>6, <2>2
<1> QED
  BY <1>5, <1>6

(* One that begins with an end tag holds no document. *)
LEMMA EndingFirst ==
  ASSUME NEW s \in Seq(Tags), s # <<>>, s[1].k = "close"
  PROVE  EndPosition(s) = 0
<1>1. ASSUME NEW n \in 1 .. Len(s) PROVE ~Whole(Prefix(s, n))
  <2>1. n \in 0 .. Len(s)
    OBVIOUS
  <2>2. Prefix(s, n)[1] = s[1]
    BY <2>1, PrefixOf
  <2> QED
    BY <2>2 DEF Whole, RootEnded
<1> QED
  BY <1>1, NoEnd

(* A non-empty set of positions has a first. *)
LEMMA FirstPosition ==
  ASSUME NEW T, T \subseteq Nat, T # {}
  PROVE  \E x \in T : \A y \in T : x <= y
<1>1. \E x \in T : \A y \in T : ~ (<<y, x>> \in OpToRel(<, Nat))
  BY NatLessThanWellFounded, WFMin
<1>2. ASSUME NEW x \in T, NEW y \in T, ~ (<<y, x>> \in OpToRel(<, Nat)) PROVE x <= y
  BY <1>2 DEF OpToRel
<1> QED
  BY <1>1, <1>2

(* EndPosition is a position of the text, or zero. *)
LEMMA EndRange ==
  ASSUME NEW s \in Seq(Tags) PROVE EndPosition(s) \in 0 .. Len(s)
<1>1. Len(s) \in Nat /\ Ends(s) \subseteq 1 .. Len(s)
  BY DEF Ends
<1>2. CASE Ends(s) = {}
  BY <1>1, <1>2 DEF EndPosition
<1>3. CASE Ends(s) # {}
  <2>1. Ends(s) \subseteq Nat
    BY <1>1
  <2>2. \E i \in Ends(s) : \A j \in Ends(s) : i <= j
    BY <1>3, <2>1, FirstPosition
  <2>3. EndPosition(s) \in Ends(s)
    BY <1>3, <2>2 DEF EndPosition
  <2> QED
    BY <1>1, <2>3
<1> QED
  BY <1>2, <1>3

-----------------------------------------------------------------------------
(* The loop. *)

(* A turn of the loop loads at most one document and fetches it; the loop   *)
(* stops when nothing is complete, or behind a document that did not parse. *)
LEMMA LoopStep == ASSUME TypeOK, LoopInv, [Next]_vars PROVE LoopInv'
<1> USE DEF TypeOK, LoopInv, client
<1>1. CASE ServerSteps
  BY <1>1 DEF ServerSteps, SendFeatures, SendDocument, Answers, CloseStream
<1>2. CASE HandleRead
  BY <1>2 DEF HandleRead
<1>3. CASE CheckStreamForFeatures
  BY <1>3 DEF CheckStreamForFeatures
<1>4. CASE Incomplete
  BY <1>4 DEF Incomplete
<1>5. CASE InnerLoadXML
  <2>1. incoming' # <<>> \/ stuck'
    BY <1>5, EmptySeq DEF InnerLoadXML
  <2> QED
    BY <1>5, <2>1 DEF InnerLoadXML
<1>6. CASE FetchDocument
  <2>1. loadMore /\ Tail(incoming) = <<>>
    BY <1>6 DEF FetchDocument
  <2> QED
    BY <1>6, <2>1 DEF FetchDocument
<1>7. CASE CheckForStreamEnd
  BY <1>7 DEF CheckForStreamEnd
<1>8. CASE UNCHANGED vars
  BY <1>8 DEF vars
<1> QED
  BY <1>1, <1>2, <1>3, <1>4, <1>5, <1>6, <1>7, <1>8 DEF Next, Loop

(* What the server sends besides documents. *)
LEMMA HeaderType == Header \in Seq(Tags) /\ Ending \in Seq(Tags)
<1>1. /\ Open("stream:stream") \in Tags /\ Close("stream:stream") \in Tags
      /\ Open("stream:features") \in Tags /\ Close("stream:features") \in Tags
  BY FramingAssumption DEF FramingAssumption, Open, Close, Tags
<1> QED
  BY <1>1 DEF Header, Ending

(* Every step keeps the types. *)
LEMMA TypeStep == ASSUME TypeOK, LoopInv, [Next]_vars PROVE TypeOK'
<1> USE DEF TypeOK, client
<1>1. CASE SendFeatures
  <2>1. wire' \in Seq(Tags)
    BY <1>1, HeaderType DEF SendFeatures
  <2> QED
    BY <1>1, <2>1 DEF SendFeatures
<1>2. ASSUME NEW d \in Documents, SendDocument(d) PROVE TypeOK'
  <2>1. wire' \in Seq(Tags)
    BY <1>2, DocumentType DEF SendDocument
  <2>2. sent' \in Seq(Documents) /\ garbled' \in Nat
    <3>1. Append(sent, d) \in Seq(Documents) /\ garbled + 1 \in Nat
      OBVIOUS
    <3> QED
      BY <1>2, <3>1 DEF SendDocument
  <2>3. server' \in {"features", "answers", "restarting", "closed"}
    BY <1>2 DEF SendDocument
  <2> QED
    BY <1>2, <2>1, <2>2, <2>3 DEF SendDocument
<1>3. CASE CloseStream
  <2>1. wire' \in Seq(Tags)
    BY <1>3, FramingAssumption DEF CloseStream, FramingAssumption, Close, Tags
  <2> QED
    BY <1>3, <2>1 DEF CloseStream
<1>4. CASE HandleRead
  <2>1. PICK n \in 1 .. Len(wire) :
           stream' = stream \o Prefix(wire, n) /\ wire' = SubSeq(wire, n + 1, Len(wire))
    BY <1>4 DEF HandleRead
  <2>2. Prefix(wire, n) \in Seq(Tags) /\ wire' \in Seq(Tags)
    BY <2>1, PrefixOf, RestOf
  <2>3. stream' \in Seq(Tags)
    BY <2>1, <2>2
  <2> QED
    BY <1>4, <2>2, <2>3 DEF HandleRead
<1>5. CASE CheckStreamForFeatures
  <2>1. stream' \in Seq(Tags)
    BY <1>5, EmptySeq DEF CheckStreamForFeatures
  <2> QED
    BY <1>5, <2>1 DEF CheckStreamForFeatures
<1>6. CASE Incomplete
  BY <1>6 DEF Incomplete
<1>7. CASE InnerLoadXML
  <2>1. EndPosition(stream) \in 0 .. Len(stream)
    BY EndRange
  <2>2. stream' \in Seq(Tags) /\ Prefix(stream, EndPosition(stream)) \in Seq(Tags)
    BY <1>7, <2>1, PrefixOf, RestOf DEF InnerLoadXML
  <2>3. incoming = <<>>
    BY <1>7 DEF InnerLoadXML, LoopInv
  <2> DEFINE doc == Prefix(stream, EndPosition(stream))
  <2>4. Append(<<>>, doc) \in Seq(Seq(Tags)) /\ Len(Append(<<>>, doc)) = 1
    BY <2>2
  <2>5. incoming' = incoming \/ incoming' = Append(<<>>, doc)
    BY <1>7, <2>3 DEF InnerLoadXML
  <2>6. stuck' = TRUE \/ stuck' = stuck
    BY <1>7, Zenon DEF InnerLoadXML
  <2> DEFINE one == Append(<<>>, doc)
  <2> HIDE DEF one
  <2>7. incoming' \in Seq(Seq(Tags)) /\ Len(incoming') <= 1
    <3>1. one \in Seq(Seq(Tags)) /\ Len(one) <= 1
      BY <2>4 DEF one
    <3>2. incoming' = incoming \/ incoming' = one
      BY <2>5 DEF one
    <3> QED
      BY <3>1, <3>2
  <2>8. stuck' \in BOOLEAN
    BY <2>6, Zenon
  <2> QED
    BY <1>7, <2>2, <2>7, <2>8 DEF InnerLoadXML
<1>8. CASE FetchDocument
  <2>1. Head(incoming) \in Seq(Tags) /\ incoming' \in Seq(Seq(Tags)) /\ Len(incoming') <= 1
    BY <1>8, HeadTailProperties DEF FetchDocument
  <2>2. handled' \in Seq(Seq(Tags))
    BY <1>8, <2>1 DEF FetchDocument
  <2> QED
    BY <1>8, <2>1, <2>2 DEF FetchDocument
<1>9. CASE CheckForStreamEnd
  <2>1. stream' \in Seq(Tags)
    BY <1>9, EmptySeq DEF CheckForStreamEnd
  <2> QED
    BY <1>9, <2>1 DEF CheckForStreamEnd
<1>10. CASE UNCHANGED vars
  BY <1>10 DEF vars
<1> QED
  BY <1>1, <1>2, <1>3, <1>4, <1>5, <1>6, <1>7, <1>8, <1>9, <1>10 DEF Next, ServerSteps, Loop

(* The types and the loop go together. *)
LEMMA LoopInvariance == SafeSpec => [](TypeOK /\ LoopInv)
<1>1. Init => TypeOK
  <2>1. <<>> \in Seq(Tags) /\ <<>> \in Seq(Seq(Tags)) /\ <<>> \in Seq(Documents)
    BY EmptySeq
  <2>2. Len(<<>>) <= 1
    BY EmptySeq
  <2>3. Init => wire \in Seq(Tags) /\ stream \in Seq(Tags) /\ sent \in Seq(Documents)
    BY <2>1, Zenon DEF Init
  <2>4. Init => incoming \in Seq(Seq(Tags)) /\ handled \in Seq(Seq(Tags)) /\ Len(incoming) <= 1
    BY <2>1, <2>2, Zenon DEF Init
  <2>5. Init => /\ phase \in {"features", "open", "ended"} /\ io \in {"idle", "features", "load", "fetch"}
                /\ server \in {"features", "answers", "restarting", "closed"} /\ garbled \in Nat
    BY DEF Init
  <2>6. Init => loadMore \in BOOLEAN /\ stuck \in BOOLEAN
    BY Zenon DEF Init
  <2> QED
    BY <2>3, <2>4, <2>5, <2>6, Zenon DEF TypeOK
<1>2. Init => LoopInv
  BY DEF Init, LoopInv
<1>3. TypeOK /\ LoopInv /\ [Next]_vars => TypeOK' /\ LoopInv'
  BY LoopStep, TypeStep
<1> QED
  BY <1>1, <1>2, <1>3, PTL DEF SafeSpec

(* Every variable keeps its type, and at most one document waits to be      *)
(* fetched, whatever the server sends and when.                             *)
THEOREM TypeCorrect == SafeSpec => []TypeOK
BY LoopInvariance, PTL

(* The buffer of an idle IO thread is empty of documents. *)
LEMMA WaitsStep == ASSUME TypeOK, LoopInv, NothingWaits, [Next]_vars PROVE NothingWaits'
<1> USE DEF NothingWaits, client
<1>1. CASE ServerSteps
  BY <1>1 DEF ServerSteps, SendFeatures, SendDocument, CloseStream
<1>2. CASE HandleRead \/ Incomplete \/ InnerLoadXML
  BY <1>2 DEF HandleRead, Incomplete, InnerLoadXML
<1>3. CASE CheckStreamForFeatures
  BY <1>3, NothingHasNoEnd DEF CheckStreamForFeatures, LoopInv
<1>4. CASE FetchDocument
  BY <1>4 DEF FetchDocument, LoopInv
<1>5. CASE CheckForStreamEnd
  BY <1>5 DEF CheckForStreamEnd, LoopInv, TypeOK
<1>6. CASE UNCHANGED vars
  BY <1>6 DEF vars
<1> QED
  BY <1>1, <1>2, <1>3, <1>4, <1>5, <1>6 DEF Next, Loop

(* CheckStreamForValidXML returns to the next read only when expat finds    *)
(* no document in what is left, or behind one that pugixml refused.         *)
THEOREM NoDocumentWaits == SafeSpec => []NothingWaits
<1>1. Init => NothingWaits
  BY DEF Init, NothingWaits
<1>2. TypeOK /\ LoopInv /\ NothingWaits /\ [Next]_vars => NothingWaits'
  BY WaitsStep
<1> QED
  BY <1>1, <1>2, LoopInvariance, PTL DEF SafeSpec

-----------------------------------------------------------------------------
(* The text on its way. *)

(* What the server writes comes behind the rest. *)
LEMMA FramedSend ==
  ASSUME NEW text \in Seq(Tags), NEW docs, NEW cut, Framed(text, docs, cut), NEW d \in Pieces
  PROVE  \E c : Framed(text \o d, Append(docs, d), c)
<1> DEFINE n == Len(docs)
           more == Append(docs, d)
           whole == text \o d
           c == [i \in 0 .. n + 1 |-> IF i <= n THEN cut[i] ELSE Len(text) + Len(d)]
<1>1. docs \in Seq(Pieces) /\ n \in Nat /\ Len(text) \in Nat
  BY DEF Framed
<1>2. d \in Seq(Tags) /\ Len(d) \in Nat \ {0}
  BY PieceType
<1>3. /\ whole \in Seq(Tags) /\ Len(whole) = Len(text) + Len(d)
      /\ \A i \in 1 .. Len(text) + Len(d) : whole[i] = IF i <= Len(text) THEN text[i] ELSE d[i - Len(text)]
  BY <1>2, ConcatProperties
<1>4. /\ more \in Seq(Pieces) /\ Len(more) = n + 1 /\ more[n + 1] = d
      /\ \A i \in 1 .. n : more[i] = docs[i]
  BY <1>1
<1>5. /\ cut \in [0 .. n -> 0 .. Len(text)] /\ cut[0] = 0 /\ cut[n] = Len(text)
      /\ \A i, j \in 0 .. n : i <= j => cut[i] <= cut[j]
      /\ \A i \in 1 .. n :
           /\ cut[i] = cut[i - 1] + Len(docs[i])
           /\ \A k \in 1 .. Len(docs[i]) : text[cut[i - 1] + k] = docs[i][k]
  BY DEF Framed
<1> HIDE DEF n, more, whole
<1>6. c \in [0 .. n + 1 -> 0 .. Len(whole)]
  BY <1>1, <1>2, <1>3, <1>5
<1>7. c[0] = 0 /\ c[n + 1] = Len(whole) /\ \A i \in 0 .. n : c[i] = cut[i]
  BY <1>1, <1>3, <1>5
<1>8. ASSUME NEW i \in 0 .. n + 1, NEW j \in 0 .. n + 1, i <= j PROVE c[i] <= c[j]
  BY <1>1, <1>2, <1>5, <1>8
<1> HIDE DEF c
<1>9. ASSUME NEW i \in 1 .. n + 1
      PROVE  /\ c[i] = c[i - 1] + Len(more[i])
             /\ \A k \in 1 .. Len(more[i]) : whole[c[i - 1] + k] = more[i][k]
  <2>1. CASE i <= n
    <3>1. i \in 1 .. n /\ i - 1 \in 0 .. n /\ i \in 0 .. n
      BY <1>1, <2>1
    <3>2. c[i] = cut[i] /\ c[i - 1] = cut[i - 1] /\ more[i] = docs[i]
      BY <1>4, <1>7, <3>1
    <3>3. cut[i] \in 0 .. Len(text) /\ cut[i - 1] \in 0 .. Len(text)
      BY <1>5, <3>1
    <3>4. cut[i] = cut[i - 1] + Len(docs[i])
      BY <1>5, <3>1
    <3>5. ASSUME NEW k \in 1 .. Len(docs[i]) PROVE whole[cut[i - 1] + k] = docs[i][k]
      <4>1. docs[i] \in Pieces
        BY <1>1, <3>1, ElementOfSeq DEF n
      <4>2. Len(docs[i]) \in Nat
        BY <4>1, PieceType
      <4>3. text[cut[i - 1] + k] = docs[i][k]
        BY <1>5, <3>1
      <4>4. cut[i - 1] + k \in 1 .. Len(text)
        BY <1>1, <3>3, <3>4, <4>2
      <4> QED
        BY <1>1, <1>2, <1>3, <4>3, <4>4
    <3> QED
      BY <3>2, <3>4, <3>5
  <2>2. CASE i = n + 1
    <3>1. more[i] = d /\ c[i] = Len(text) + Len(d) /\ c[i - 1] = Len(text)
      BY <1>1, <1>3, <1>4, <1>5, <1>7, <2>2
    <3>2. ASSUME NEW k \in 1 .. Len(d) PROVE whole[Len(text) + k] = d[k]
      <4>1. Len(text) + k \in 1 .. Len(text) + Len(d) /\ ~(Len(text) + k <= Len(text))
        BY <1>1, <1>2
      <4>2. Len(text) + k - Len(text) = k
        BY <1>1, <1>2
      <4> QED
        BY <1>3, <4>1, <4>2
    <3> QED
      BY <3>1, <3>2
  <2> QED
    BY <1>1, <2>1, <2>2
<1>10. Framed(whole, more, c)
  BY <1>4, <1>6, <1>7, <1>8, <1>9 DEF Framed
<1> QED
  BY <1>10 DEF more, whole

(* What is loaded goes from the front. *)
LEMMA FramedTake ==
  ASSUME NEW text \in Seq(Tags), NEW docs, NEW cut, Framed(text, docs, cut), docs # <<>>
  PROVE  /\ docs[1] \in Pieces /\ Len(docs[1]) \in 0 .. Len(text)
         /\ \A k \in 1 .. Len(docs[1]) : text[k] = docs[1][k]
         /\ \E c : Framed(SubSeq(text, Len(docs[1]) + 1, Len(text)), Tail(docs), c)
<1> DEFINE n == Len(docs)
           more == Tail(docs)
           one == Len(docs[1])
           rest == SubSeq(text, one + 1, Len(text))
           c == [i \in 0 .. n - 1 |-> cut[i + 1] - cut[1]]
<1>1. docs \in Seq(Pieces) /\ Len(text) \in Nat
  BY DEF Framed
<1>2. n \in Nat \ {0}
  BY <1>1, EmptySeq
<1>3. docs[1] \in Pieces
  BY <1>1, <1>2, ElementOfSeq
<1>4. one \in Nat \ {0}
  BY <1>3, PieceType
<1>5. /\ cut \in [0 .. n -> 0 .. Len(text)] /\ cut[0] = 0 /\ cut[n] = Len(text)
      /\ \A i, j \in 0 .. n : i <= j => cut[i] <= cut[j]
      /\ \A i \in 1 .. n :
           /\ cut[i] = cut[i - 1] + Len(docs[i])
           /\ \A k \in 1 .. Len(docs[i]) : text[cut[i - 1] + k] = docs[i][k]
  BY DEF Framed
<1>6. /\ more \in Seq(Pieces) /\ Len(more) = n - 1
      /\ \A i \in 1 .. n - 1 : more[i] = docs[i + 1]
  BY <1>1, HeadTailProperties
<1>7. cut[1] = one /\ one \in 0 .. Len(text)
  BY <1>2, <1>4, <1>5
<1>8. \A k \in 1 .. one : text[k] = docs[1][k]
  BY <1>2, <1>4, <1>5
<1>9. /\ rest \in Seq(Tags) /\ Len(rest) = Len(text) - one
      /\ \A i \in 1 .. Len(text) - one : rest[i] = text[one + i]
  BY <1>7, RestOf
<1> HIDE DEF n, more, one, rest
<1>10. \A i \in 0 .. n - 1 : /\ c[i] = cut[i + 1] - one /\ cut[i + 1] \in one .. Len(text)
  <2> SUFFICES ASSUME NEW i \in 0 .. n - 1
               PROVE  c[i] = cut[i + 1] - one /\ cut[i + 1] \in one .. Len(text)
    OBVIOUS
  <2>1. i + 1 \in 0 .. n /\ 1 \in 0 .. n /\ 1 <= i + 1
    BY <1>2
  <2> QED
    BY <1>1, <1>4, <1>5, <1>7, <2>1
<1>11. c \in [0 .. n - 1 -> 0 .. Len(rest)]
  BY <1>1, <1>4, <1>7, <1>9, <1>10
<1>12. c[0] = 0 /\ c[n - 1] = Len(rest)
  <2>1. 0 \in 0 .. n - 1 /\ n - 1 \in 0 .. n - 1 /\ n - 1 + 1 = n
    BY <1>2
  <2> QED
    BY <1>4, <1>5, <1>7, <1>9, <1>10, <2>1
<1>13. ASSUME NEW i \in 0 .. n - 1, NEW j \in 0 .. n - 1, i <= j PROVE c[i] <= c[j]
  <2>1. i + 1 \in 0 .. n /\ j + 1 \in 0 .. n /\ i + 1 <= j + 1
    BY <1>2, <1>13
  <2>2. cut[i + 1] <= cut[j + 1]
    BY <1>5, <2>1
  <2> QED
    BY <1>1, <1>4, <1>10, <2>2
<1> HIDE DEF c
<1>14. ASSUME NEW i \in 1 .. n - 1
       PROVE  /\ c[i] = c[i - 1] + Len(more[i])
              /\ \A k \in 1 .. Len(more[i]) : rest[c[i - 1] + k] = more[i][k]
  <2>1. i + 1 \in 1 .. n /\ i \in 0 .. n - 1 /\ i - 1 \in 0 .. n - 1 /\ i - 1 + 1 = i /\ i + 1 - 1 = i
    BY <1>2
  <2>2. /\ more[i] = docs[i + 1] /\ c[i] = cut[i + 1] - one /\ c[i - 1] = cut[i] - one
        /\ cut[i] \in one .. Len(text) /\ cut[i + 1] \in one .. Len(text)
    <3>1. cut[i - 1 + 1] = cut[i]
      BY <2>1
    <3> QED
      BY <1>6, <1>10, <2>1, <3>1
  <2>3. docs[i + 1] \in Pieces
    BY <1>1, <2>1, ElementOfSeq DEF n
  <2>4. Len(docs[i + 1]) \in Nat
    BY <2>3, PieceType
  <2>5. /\ cut[i + 1] = cut[i] + Len(docs[i + 1])
        /\ \A k \in 1 .. Len(docs[i + 1]) : text[cut[i] + k] = docs[i + 1][k]
    <3>1. /\ cut[i + 1] = cut[i + 1 - 1] + Len(docs[i + 1])
          /\ \A k \in 1 .. Len(docs[i + 1]) : text[cut[i + 1 - 1] + k] = docs[i + 1][k]
      BY <1>5, <2>1
    <3> QED
      BY <2>1, <3>1
  <2>6. ASSUME NEW k \in 1 .. Len(docs[i + 1]) PROVE rest[c[i - 1] + k] = docs[i + 1][k]
    <3>1. c[i - 1] + k \in 1 .. Len(text) - one
      BY <1>1, <1>4, <2>2, <2>4, <2>5
    <3>2. one + (c[i - 1] + k) = cut[i] + k
      BY <1>1, <1>4, <2>2, <2>4
    <3>3. rest[c[i - 1] + k] = text[one + (c[i - 1] + k)]
      BY <1>9, <3>1
    <3> QED
      BY <2>5, <3>2, <3>3
  <2>7. c[i] = c[i - 1] + Len(docs[i + 1])
    BY <1>1, <1>4, <2>2, <2>4, <2>5
  <2> QED
    BY <2>2, <2>6, <2>7
<1>15. Framed(rest, more, c)
  BY <1>6, <1>11, <1>12, <1>13, <1>14 DEF Framed
<1> QED
  BY <1>3, <1>7, <1>8, <1>15 DEF one, rest, more

(* When something is delimited it is the first of the documents on the way, *)
(* whole.                                                                   *)
LEMMA FramedFirst ==
  ASSUME NEW s \in Seq(Tags), NEW w \in Seq(Tags), NEW docs, NEW cut,
         Framed(s \o w, docs, cut), EndPosition(s) > 0
  PROVE  /\ docs # <<>> /\ docs[1] \in Documents
         /\ EndPosition(s) = Len(docs[1]) /\ EndPosition(s) \in 0 .. Len(s)
         /\ Prefix(s, EndPosition(s)) = docs[1]
<1>1. s # <<>> /\ Len(s) \in Nat \ {0} /\ Len(w) \in Nat
  BY NothingHasNoEnd, EmptySeq
<1>2. /\ s \o w \in Seq(Tags) /\ Len(s \o w) = Len(s) + Len(w)
      /\ \A i \in 1 .. Len(s) : (s \o w)[i] = s[i]
  BY <1>1, ConcatProperties
<1>3. docs # <<>>
  <2> SUFFICES ASSUME docs = <<>> PROVE FALSE
    OBVIOUS
  <2>1. Len(docs) = 0
    BY EmptySeq
  <2> QED
    BY <1>1, <1>2, <2>1 DEF Framed
<1>4. /\ docs[1] \in Pieces /\ Len(docs[1]) \in 0 .. Len(s \o w)
      /\ \A k \in 1 .. Len(docs[1]) : (s \o w)[k] = docs[1][k]
  BY <1>2, <1>3, FramedTake
<1>5. \A k \in 1 .. Len(docs[1]) : k <= Len(s) => s[k] = docs[1][k]
  BY <1>1, <1>2, <1>4
<1>6. docs[1] # Ending
  <2> SUFFICES ASSUME docs[1] = Ending PROVE FALSE
    OBVIOUS
  <2>1. Len(docs[1]) = 1 /\ docs[1][1].k = "close"
    BY DEF Ending, Close
  <2>2. s[1].k = "close"
    BY <1>1, <1>5, <2>1
  <2> QED
    BY <1>1, <2>2, EndingFirst
<1>7. docs[1] \in Documents
  BY <1>4, <1>6 DEF Pieces
<1>8. IF Len(docs[1]) <= Len(s)
        THEN EndPosition(s) = Len(docs[1]) /\ Prefix(s, Len(docs[1])) = docs[1]
        ELSE EndPosition(s) = 0
  BY <1>5, <1>7, DocumentFirst
<1> QED
  BY <1>3, <1>7, <1>8, EndRange

(* The numbers of the documents, when one is sent and when one is loaded.   *)
LEMMA NumberedSend ==
  ASSUME NEW list \in Seq(Documents), NEW docs \in Seq(Pieces), NEW num, NEW taken,
         Numbered(list, docs, num, taken), NEW d \in Pieces
  PROVE  \E n : Numbered(IF Parses(d) THEN Append(list, d) ELSE list, Append(docs, d), n, taken)
<1> DEFINE n == Len(docs)
           more == Append(docs, d)
           longer == IF Parses(d) THEN Append(list, d) ELSE list
           nums == [i \in 0 .. n + 1 |-> IF i <= n THEN num[i] ELSE Len(longer)]
<1>1. n \in Nat /\ Len(list) \in Nat
  OBVIOUS
<1>2. /\ Len(more) = n + 1 /\ more[n + 1] = d
      /\ \A i \in 1 .. n : more[i] = docs[i]
  OBVIOUS
<1>3. /\ Parses(d) => Len(longer) = Len(list) + 1 /\ longer[Len(list) + 1] = d
      /\ ~Parses(d) => Len(longer) = Len(list)
      /\ \A i \in 1 .. Len(list) : longer[i] = list[i]
  <2>1. Parses(d) => d \in Documents
    BY DEF Parses
  <2> QED
    BY <2>1
<1>4. /\ num \in [0 .. n -> 0 .. Len(list)] /\ num[0] = taken /\ num[n] = Len(list)
      /\ \A i \in 1 .. n : IF Parses(docs[i]) THEN num[i] = num[i - 1] + 1 /\ docs[i] = list[num[i]]
                                              ELSE num[i] = num[i - 1]
  BY DEF Numbered
<1> HIDE DEF n, more, longer
<1>5. Len(longer) \in Nat /\ Len(list) <= Len(longer)
  BY <1>1, <1>3
<1>6. nums \in [0 .. n + 1 -> 0 .. Len(longer)]
  BY <1>1, <1>4, <1>5
<1>7. nums[n + 1] = Len(longer) /\ \A i \in 0 .. n : nums[i] = num[i]
  BY <1>1
<1> HIDE DEF nums
<1>8. ASSUME NEW i \in 1 .. n + 1
      PROVE  IF Parses(more[i]) THEN nums[i] = nums[i - 1] + 1 /\ more[i] = longer[nums[i]]
                                ELSE nums[i] = nums[i - 1]
  <2>1. CASE i <= n
    <3>1. i \in 1 .. n /\ i - 1 \in 0 .. n /\ i \in 0 .. n
      BY <1>1, <2>1
    <3>2. /\ nums[i] = num[i] /\ nums[i - 1] = num[i - 1] /\ more[i] = docs[i]
          /\ num[i] \in 0 .. Len(list) /\ num[i - 1] \in 0 .. Len(list)
      BY <1>2, <1>4, <1>7, <3>1
    <3>3. IF Parses(docs[i]) THEN num[i] = num[i - 1] + 1 /\ docs[i] = list[num[i]]
                             ELSE num[i] = num[i - 1]
      BY <1>4, <3>1
    <3>4. Parses(docs[i]) => num[i] \in 1 .. Len(list)
      BY <1>1, <3>2, <3>3
    <3> QED
      BY <1>3, <3>2, <3>3, <3>4
  <2>2. CASE i = n + 1
    <3>1. nums[i] = Len(longer) /\ nums[i - 1] = Len(list) /\ more[i] = d
      BY <1>1, <1>2, <1>4, <1>7, <2>2
    <3> QED
      BY <1>3, <3>1
  <2> QED
    BY <1>1, <2>1, <2>2
<1>9. nums[0] = taken
  BY <1>1, <1>4, <1>7
<1>10. Numbered(longer, more, nums, taken)
  BY <1>2, <1>6, <1>7, <1>8, <1>9 DEF Numbered
<1> QED
  BY <1>10 DEF longer, more

(* The document loaded, if it parses, is the next of the list. *)
LEMMA NumberedTake ==
  ASSUME NEW list \in Seq(Documents), NEW docs \in Seq(Pieces), NEW num, NEW taken,
         Numbered(list, docs, num, taken), docs # <<>>
  PROVE  IF Parses(docs[1])
           THEN /\ taken + 1 \in 1 .. Len(list) /\ docs[1] = list[taken + 1]
                /\ \E n : Numbered(list, Tail(docs), n, taken + 1)
           ELSE \E n : Numbered(list, Tail(docs), n, taken)
<1> DEFINE n == Len(docs)
           more == Tail(docs)
           nums == [i \in 0 .. n - 1 |-> num[i + 1]]
<1>1. n \in Nat \ {0} /\ Len(list) \in Nat
  BY EmptySeq
<1>2. Len(more) = n - 1 /\ \A i \in 1 .. n - 1 : more[i] = docs[i + 1]
  BY HeadTailProperties
<1>3. /\ num \in [0 .. n -> 0 .. Len(list)] /\ num[0] = taken /\ num[n] = Len(list)
      /\ \A i \in 1 .. n : IF Parses(docs[i]) THEN num[i] = num[i - 1] + 1 /\ docs[i] = list[num[i]]
                                              ELSE num[i] = num[i - 1]
  BY DEF Numbered
<1> HIDE DEF n, more
<1>4. nums \in [0 .. n - 1 -> 0 .. Len(list)] /\ nums[0] = num[1] /\ nums[n - 1] = Len(list)
  <2>1. n - 1 + 1 = n /\ 0 + 1 = 1 /\ 0 \in 0 .. n - 1 /\ n - 1 \in 0 .. n - 1
    BY <1>1
  <2>2. \A i \in 0 .. n - 1 : i + 1 \in 0 .. n
    BY <1>1
  <2> QED
    BY <1>3, <2>1, <2>2
<1>5. \A i \in 0 .. n - 1 : nums[i] = num[i + 1]
  OBVIOUS
<1> HIDE DEF nums
<1>6. ASSUME NEW i \in 1 .. n - 1
      PROVE  IF Parses(more[i]) THEN nums[i] = nums[i - 1] + 1 /\ more[i] = list[nums[i]]
                                ELSE nums[i] = nums[i - 1]
  <2>1. i + 1 \in 1 .. n /\ i \in 0 .. n - 1 /\ i - 1 \in 0 .. n - 1 /\ i - 1 + 1 = i /\ i + 1 - 1 = i
    BY <1>1
  <2>2. nums[i] = num[i + 1] /\ nums[i - 1] = num[i - 1 + 1] /\ more[i] = docs[i + 1]
    BY <1>2, <1>5, <2>1
  <2>3. IF Parses(docs[i + 1]) THEN num[i + 1] = num[i + 1 - 1] + 1 /\ docs[i + 1] = list[num[i + 1]]
                               ELSE num[i + 1] = num[i + 1 - 1]
    BY <1>3, <2>1
  <2> QED
    BY <2>1, <2>2, <2>3
<1>7. Numbered(list, more, nums, num[1])
  BY <1>2, <1>4, <1>6 DEF Numbered
<1>8. /\ 1 \in 1 .. n /\ 1 - 1 = 0 /\ taken \in 0 .. Len(list) /\ num[1] \in 0 .. Len(list)
      /\ IF Parses(docs[1]) THEN num[1] = num[1 - 1] + 1 /\ docs[1] = list[num[1]] ELSE num[1] = num[1 - 1]
  BY <1>1, <1>3
<1>9. IF Parses(docs[1]) THEN num[1] = taken + 1 /\ docs[1] = list[num[1]] ELSE num[1] = taken
  BY <1>3, <1>8
<1> QED
  BY <1>1, <1>7, <1>8, <1>9 DEF more

(* What was handled stays a prefix of what was sent. *)
LEMMA PrefixIff ==
  ASSUME NEW S, NEW h \in Seq(S), NEW s \in Seq(S), Len(h) <= Len(s)
  PROVE  h = Prefix(s, Len(h)) <=> \A i \in 1 .. Len(h) : h[i] = s[i]
<1>1. Len(h) \in 0 .. Len(s)
  OBVIOUS
<1> DEFINE p == Prefix(s, Len(h))
<1>2. p \in Seq(S) /\ Len(p) = Len(h) /\ \A i \in 1 .. Len(h) : p[i] = s[i]
  BY <1>1, PrefixOf
<1> HIDE DEF p
<1>3. (\A i \in 1 .. Len(h) : h[i] = s[i]) => h = p
  BY <1>2, SeqEqual
<1>4. h = p => \A i \in 1 .. Len(h) : h[i] = s[i]
  BY <1>2
<1> QED
  BY <1>3, <1>4 DEF p

(* Also when another document is sent, *)
LEMMA PrefixGrows ==
  ASSUME NEW S, NEW h \in Seq(S), NEW s \in Seq(S), NEW x \in S,
         Len(h) <= Len(s), h = Prefix(s, Len(h))
  PROVE  Len(h) <= Len(Append(s, x)) /\ h = Prefix(Append(s, x), Len(h))
<1> DEFINE t == Append(s, x)
<1>1. t \in Seq(S) /\ Len(t) = Len(s) + 1 /\ \A i \in 1 .. Len(s) : t[i] = s[i]
  OBVIOUS
<1>2. Len(h) \in Nat /\ Len(s) \in Nat
  OBVIOUS
<1>3. \A i \in 1 .. Len(h) : h[i] = s[i]
  BY PrefixIff
<1> HIDE DEF t
<1>4. Len(h) <= Len(t) /\ \A i \in 1 .. Len(h) : h[i] = t[i]
  BY <1>1, <1>2, <1>3
<1>5. h = Prefix(t, Len(h))
  BY <1>1, <1>4, PrefixIff
<1> QED
  BY <1>4, <1>5 DEF t

(* and when the next one is handled. *)
LEMMA PrefixNext ==
  ASSUME NEW S, NEW h \in Seq(S), NEW s \in Seq(S), Len(h) < Len(s),
         h = Prefix(s, Len(h))
  PROVE  /\ Len(Append(h, s[Len(h) + 1])) = Len(h) + 1 /\ Len(h) + 1 <= Len(s)
         /\ Append(h, s[Len(h) + 1]) = Prefix(s, Len(h) + 1)
<1> DEFINE t == Append(h, s[Len(h) + 1])
<1>1. Len(h) \in Nat /\ Len(s) \in Nat /\ s[Len(h) + 1] \in S
  BY ElementOfSeq
<1>2. /\ t \in Seq(S) /\ Len(t) = Len(h) + 1 /\ t[Len(h) + 1] = s[Len(h) + 1]
      /\ \A i \in 1 .. Len(h) : t[i] = h[i]
  BY <1>1
<1>3. \A i \in 1 .. Len(h) : h[i] = s[i]
  BY <1>1, PrefixIff
<1> HIDE DEF t
<1>4. Len(t) <= Len(s) /\ \A i \in 1 .. Len(t) : t[i] = s[i]
  <2>1. \A i \in 1 .. Len(h) + 1 : i \in 1 .. Len(h) \/ i = Len(h) + 1
    BY <1>1
  <2> QED
    BY <1>1, <1>2, <1>3, <2>1
<1>5. t = Prefix(s, Len(t))
  BY <1>2, <1>4, PrefixIff
<1> QED
  BY <1>1, <1>2, <1>5 DEF t

-----------------------------------------------------------------------------
(* From the server to the application. *)

(* Documents are texts. *)
LEMMA SentType == TypeOK => sent \in Seq(Seq(Tags))
<1>1. Documents \subseteq Seq(Tags)
  BY DocumentType
<1> QED
  BY <1>1, SeqMonotonic DEF TypeOK

(* A server that waits for the client answers only an open stream.          *)
LEMMA SendStep ==
  ASSUME ~Eager, TypeOK, LoopInv, FramingInv, ServerSteps
  PROVE  FramingInv'
<1> USE DEF client
<1>1. stream \in Seq(Tags) /\ wire \in Seq(Tags) /\ Text \in Seq(Tags)
  BY DEF TypeOK, Text
<1>2. CASE SendFeatures
  <2>1. UNCHANGED <<phase, handled, sent, incoming, io, stream>> /\ server' = "answers"
        /\ server = "features" /\ wire' = wire \o Header
    BY <1>2 DEF SendFeatures
  <2>2. phase # "open"
    BY <2>1 DEF FramingInv, OpenInv
  <2>3. HandledInOrder' /\ OpenInv' /\ TakenInv'
    BY <2>1, <2>2 DEF FramingInv, HandledInOrder, OpenInv, TakenInv
  <2>4. ASSUME phase = "features" PROVE Text' = Header
    <3>1. Text = <<>>
      BY <2>1, <2>4 DEF FramingInv, FeaturesInv
    <3>2. stream = <<>> /\ wire = <<>>
      BY <1>1, <3>1, ConcatEqualIffEmpty DEF Text
    <3>3. <<>> \o Header = Header
      BY HeaderType, ConcatEmptySeq
    <3> QED
      BY <2>1, <3>2, <3>3 DEF Text
  <2>5. FeaturesInv'
    BY <2>1, <2>4 DEF FramingInv, FeaturesInv
  <2> QED
    BY <2>3, <2>5 DEF FramingInv
<1>3. ASSUME NEW d \in Pieces, Answers, UNCHANGED client, wire' = wire \o d,
             sent' = IF Parses(d) THEN Append(sent, d) ELSE sent,
             server' # "features", d \in Restarts => server' = "restarting"
      PROVE  FramingInv'
  <2>1. phase = "open" /\ server = "answers" /\ phase' = "open"
    BY <1>3 DEF Answers
  <2>2. PICK docs \in Seq(Pieces) : \E cut, num :
             /\ Framed(Text, docs, cut)
             /\ Numbered(sent, docs, num, Len(handled) + Len(incoming))
             /\ RestartIsLast(docs)
             /\ incoming # <<>> /\ Head(incoming) \in Restarts =>
                    docs = <<>> /\ server = "restarting"
    BY <2>1 DEF FramingInv, OpenInv
  <2>3. PICK cut, num :
             /\ Framed(Text, docs, cut)
             /\ Numbered(sent, docs, num, Len(handled) + Len(incoming))
             /\ RestartIsLast(docs)
             /\ incoming # <<>> /\ Head(incoming) \in Restarts =>
                    docs = <<>> /\ server = "restarting"
    BY <2>2
  <2> DEFINE more == Append(docs, d)
  <2>4. Text' = Text \o d
    <3>1. d \in Seq(Tags)
      BY PieceType
    <3>2. (stream \o wire) \o d = stream \o (wire \o d)
      BY <1>1, <3>1, ConcatAssociative
    <3> QED
      BY <1>3, <3>2 DEF Text
  <2>5. \E c : Framed(Text', more, c)
    BY <1>1, <2>3, <2>4, FramedSend
  <2>6. \E n : Numbered(sent', more, n, Len(handled') + Len(incoming'))
    <3>1. sent \in Seq(Documents) /\ handled' = handled /\ incoming' = incoming
      BY <1>3 DEF TypeOK
    <3>2. \E n : Numbered(IF Parses(d) THEN Append(sent, d) ELSE sent, more, n, Len(handled) + Len(incoming))
      BY <2>3, <3>1, NumberedSend
    <3> QED
      BY <1>3, <3>1, <3>2
  <2>7. more \in Seq(Pieces) /\ Len(more) = Len(docs) + 1 /\ more[Len(docs) + 1] = d
        /\ Len(docs) \in Nat /\ \A i \in 1 .. Len(docs) : more[i] = docs[i]
    OBVIOUS
  <2>8. RestartIsLast(more)'
    <3>1. \A i \in 1 .. Len(docs) : docs[i] \notin Restarts
      BY <2>1, <2>3 DEF RestartIsLast
    <3>2. \A i \in 1 .. Len(docs) + 1 : i \in 1 .. Len(docs) \/ i = Len(docs) + 1
      BY <2>7
    <3> QED
      BY <1>3, <2>7, <3>1, <3>2 DEF RestartIsLast
  <2>9. ~(incoming' # <<>> /\ Head(incoming') \in Restarts)
    BY <1>3, <2>1, <2>3
  <2> HIDE DEF more
  <2>10. OpenInv'
    BY <1>3, <2>5, <2>6, <2>7, <2>8, <2>9 DEF OpenInv
  <2>11. FeaturesInv'
    BY <2>1 DEF FeaturesInv
  <2>12. HandledInOrder'
    <3>1. handled \in Seq(Seq(Tags)) /\ sent \in Seq(Seq(Tags)) /\ d \in Seq(Tags)
      BY SentType, PieceType DEF TypeOK
    <3>2. Len(handled) <= Len(sent) /\ handled = Prefix(sent, Len(handled))
      BY DEF FramingInv, HandledInOrder
    <3>3. Len(handled) <= Len(Append(sent, d)) /\ handled = Prefix(Append(sent, d), Len(handled))
      BY <3>1, <3>2, PrefixGrows
    <3> QED
      BY <1>3, <3>2, <3>3 DEF HandledInOrder
  <2>13. TakenInv'
    <3>1. sent \in Seq(Seq(Tags)) /\ handled \in Seq(Seq(Tags)) /\ d \in Seq(Tags)
      BY SentType, PieceType DEF TypeOK
    <3>2. Len(handled) \in Nat /\ Len(sent) \in Nat /\ Len(Append(sent, d)) = Len(sent) + 1
          /\ \A i \in 1 .. Len(sent) : Append(sent, d)[i] = sent[i]
      BY <3>1
    <3>3. Len(sent) <= Len(sent') /\ \A i \in 1 .. Len(sent) : sent'[i] = sent[i]
      BY <1>3, <3>2
    <3>4. Len(handled) < Len(sent) => Len(handled) + 1 \in 1 .. Len(sent)
      BY <3>2
    <3>5. Len(handled) < Len(sent) => Len(handled) < Len(sent')
      BY <1>3, <3>2
    <3> QED
      BY <1>3, <2>1, <3>3, <3>4, <3>5 DEF FramingInv, TakenInv
  <2> QED
    BY <2>10, <2>11, <2>12, <2>13 DEF FramingInv
<1>4. ASSUME NEW d \in Documents, SendDocument(d) PROVE FramingInv'
  <2>1. Parses(d) <=> d \notin Unparsable
    BY DEF Parses
  <2> QED
    BY <1>3, <1>4, <2>1 DEF SendDocument, Answers, Pieces
<1>5. CASE CloseStream
  <2>1. Ending \notin Documents
    <3> SUFFICES ASSUME Ending \in Documents PROVE FALSE
      OBVIOUS
    <3>1. Whole(Ending)
      BY DocumentType
    <3> QED
      BY <3>1 DEF Whole, RootEnded, Ending, Close
  <2>2. ~Parses(Ending) /\ Ending \notin Restarts /\ Ending \in Pieces
    BY <2>1, FramingAssumption DEF FramingAssumption, Parses, Pieces
  <2>3. wire' = wire \o Ending
    BY <1>1, <1>5 DEF CloseStream, Ending
  <2>4. Answers /\ UNCHANGED client /\ sent' = sent /\ server' # "features"
    BY <1>5 DEF CloseStream
  <2> QED
    BY <1>3, <2>2, <2>3, <2>4
<1> QED
  BY <1>2, <1>4, <1>5 DEF ServerSteps

(* Reading moves nothing out of the text, and features are all there is in  *)
(* it.                                                                      *)
LEMMA ReadStep ==
  ASSUME TypeOK, LoopInv, FramingInv, HandleRead \/ CheckStreamForFeatures \/ Incomplete
  PROVE  FramingInv'
<1> USE DEF FramingInv
<1>1. stream \in Seq(Tags) /\ wire \in Seq(Tags)
  BY DEF TypeOK
<1>2. ASSUME UNCHANGED <<phase, handled, sent, incoming, server>>, Text' = Text,
             phase = "features" /\ io' \in {"load", "fetch"} => stream' = <<>>
      PROVE  FramingInv'
  BY <1>2 DEF HandledInOrder, FeaturesInv, OpenInv, TakenInv, RestartIsLast
<1>3. CASE HandleRead
  <2>1. PICK n \in 1 .. Len(wire) :
           stream' = stream \o Prefix(wire, n) /\ wire' = SubSeq(wire, n + 1, Len(wire))
    BY <1>3 DEF HandleRead
  <2>2. Text' = Text
    BY <1>1, <2>1, ReadKeepsText DEF Text
  <2>3. UNCHANGED <<phase, handled, sent, incoming, server>>
        /\ (phase = "features" => io' = "features")
    BY <1>3 DEF HandleRead
  <2> QED
    BY <1>2, <2>2, <2>3
<1>4. CASE CheckStreamForFeatures
  <2>1. phase = "features" /\ incoming = <<>> /\ handled = sent
    BY <1>4 DEF CheckStreamForFeatures, LoopInv, FeaturesInv
  <2>2. CASE ~Has(stream, Close("stream:features"))
    <3>1. UNCHANGED <<phase, handled, sent, incoming, server, stream, wire>> /\ io' = "idle"
      BY <1>4, <2>2 DEF CheckStreamForFeatures
    <3>2. Text' = Text
      BY <3>1 DEF Text
    <3> QED
      BY <1>2, <3>1, <3>2
  <2>3. CASE Has(stream, Close("stream:features"))
    <3>1. PICK i \in DOMAIN stream : stream[i] = Close("stream:features")
      BY <2>3 DEF Has
    <3>2. Len(stream) \in Nat /\ Len(wire) \in Nat /\ i \in 1 .. Len(stream)
      BY <1>1
    <3>3. /\ Text \in Seq(Tags) /\ Len(Text) = Len(stream) + Len(wire) /\ Text[i] = stream[i]
      BY <1>1, <3>2, ConcatProperties DEF Text
    <3>4. Text # <<>>
      BY <3>2, <3>3, EmptySeq
    <3>5. server = "answers" /\ Text = Header
      BY <2>1, <3>4 DEF FeaturesInv
    <3>6. Len(Header) = 3 /\ Header[1] # Close("stream:features") /\ Header[2] # Close("stream:features")
      BY DEF Header, Open, Close
    <3>7. wire = <<>>
      <4>1. i # 1 /\ i # 2
        BY <3>1, <3>3, <3>5, <3>6
      <4>2. Len(stream) + Len(wire) = 3
        BY <3>3, <3>5, <3>6
      <4>3. Len(wire) = 0
        BY <3>2, <4>1, <4>2
      <4> QED
        BY <1>1, <4>3, EmptySeq
    <3>8. /\ phase' = "open" /\ stream' = <<>> /\ wire' = <<>>
          /\ UNCHANGED <<handled, sent, incoming, server>>
      BY <1>4, <2>3, <3>7 DEF CheckStreamForFeatures
    <3> DEFINE cut == [k \in 0 .. 0 |-> 0]
               num == [k \in 0 .. 0 |-> Len(sent)]
    <3>9. <<>> \in Seq(Tags) /\ <<>> \in Seq(Pieces) /\ Len(<<>>) = 0
      BY EmptySeq
    <3>10. Text' = <<>>
      BY <3>8, <3>9, ConcatEmptySeq DEF Text
    <3>11. Framed(<<>>, <<>>, cut)
      BY <3>9 DEF Framed
    <3>12. Len(sent) \in Nat /\ Len(incoming) = 0
      BY <2>1, <3>9 DEF TypeOK
    <3>13. Numbered(sent, <<>>, num, Len(sent))
      BY <3>9, <3>12 DEF Numbered
    <3>14. Len(handled') + Len(incoming') = Len(sent)
      BY <2>1, <3>8, <3>12
    <3>15. RestartIsLast(<<>>)'
      BY <3>9 DEF RestartIsLast
    <3>16. server' # "features" /\ incoming' = <<>> /\ sent' = sent
      BY <2>1, <3>5, <3>8
    <3> HIDE DEF cut, num
    <3>17. OpenInv'
      BY <3>9, <3>10, <3>11, <3>13, <3>14, <3>15, <3>16 DEF OpenInv
    <3> QED
      BY <3>8, <3>16, <3>17 DEF HandledInOrder, FeaturesInv, TakenInv
  <2> QED
    BY <2>2, <2>3
<1>5. CASE Incomplete
  <2>1. UNCHANGED <<phase, handled, sent, incoming, server, stream, wire>> /\ io = "load"
    BY <1>5 DEF Incomplete
  <2>2. Text' = Text
    BY <2>1 DEF Text
  <2>3. phase = "features" => stream' = <<>>
    BY <2>1 DEF FeaturesInv
  <2> QED
    BY <1>2, <2>1, <2>2, <2>3
<1> QED
  BY <1>3, <1>4, <1>5

(* The document loaded is the next that was sent. *)
LEMMA LoadStep ==
  ASSUME TypeOK, LoopInv, FramingInv, InnerLoadXML
  PROVE  FramingInv'
<1> USE DEF FramingInv
<1>1. /\ stream \in Seq(Tags) /\ wire \in Seq(Tags) /\ Text \in Seq(Tags)
      /\ sent \in Seq(Documents) /\ Len(handled) \in Nat
  BY DEF TypeOK, Text
<1>2. /\ incoming = <<>> /\ EndPosition(stream) > 0 /\ UNCHANGED <<phase, handled, sent, server, wire>>
      /\ stream' = SubSeq(stream, EndPosition(stream) + 1, Len(stream))
  BY DEF InnerLoadXML, LoopInv
<1>3. HandledInOrder'
  BY <1>2 DEF HandledInOrder
<1>4. CASE phase # "open"
  <2>1. phase # "features"
    <3> SUFFICES ASSUME phase = "features" PROVE FALSE
      OBVIOUS
    <3>1. stream = <<>>
      BY DEF FeaturesInv, InnerLoadXML
    <3> QED
      BY <1>2, <3>1, NothingHasNoEnd
  <2> QED
    BY <1>2, <1>3, <1>4, <2>1 DEF FeaturesInv, OpenInv, TakenInv
<1>5. CASE phase = "open"
  <2>1. PICK docs \in Seq(Pieces) : \E cut, num :
             /\ Framed(Text, docs, cut)
             /\ Numbered(sent, docs, num, Len(handled) + Len(incoming))
             /\ RestartIsLast(docs)
    BY <1>5 DEF OpenInv
  <2>2. PICK cut, num :
             /\ Framed(Text, docs, cut)
             /\ Numbered(sent, docs, num, Len(handled) + Len(incoming))
             /\ RestartIsLast(docs)
    BY <2>1
  <2> DEFINE end == EndPosition(stream)
             doc == docs[1]
             more == Tail(docs)
  <2>restart. \A i \in 1 .. Len(docs) : docs[i] \in Restarts => i = Len(docs) /\ server = "restarting"
    BY <2>2 DEF RestartIsLast
  <2>3. /\ docs # <<>> /\ doc \in Documents /\ end = Len(doc) /\ end \in 0 .. Len(stream)
        /\ Prefix(stream, end) = doc
    BY <1>1, <1>2, <2>2, FramedFirst DEF Text
  <2>4. \E c : Framed(SubSeq(Text, end + 1, Len(Text)), more, c)
    BY <1>1, <2>2, <2>3, FramedTake
  <2>5. Text' = SubSeq(Text, end + 1, Len(Text))
    BY <1>1, <1>2, <2>3, RestOfConcat DEF Text
  <2>6. Len(handled) + Len(incoming) = Len(handled)
    BY <1>1, <1>2, EmptySeq
  <2>7. IF Parses(doc)
          THEN /\ Len(handled) + 1 \in 1 .. Len(sent) /\ doc = sent[Len(handled) + 1]
               /\ \E n : Numbered(sent, more, n, Len(handled) + 1)
          ELSE \E n : Numbered(sent, more, n, Len(handled))
    BY <1>1, <2>2, <2>3, <2>6, NumberedTake
  <2>8. /\ more \in Seq(Pieces) /\ Len(more) = Len(docs) - 1 /\ Len(docs) \in Nat \ {0}
        /\ \A i \in 1 .. Len(more) : more[i] = docs[i + 1]
    BY <2>3, HeadTailProperties, EmptySeq
  <2> HIDE DEF more, doc, end
  <2>9. RestartIsLast(more)'
    <3> SUFFICES ASSUME NEW i \in 1 .. Len(more), more[i] \in Restarts
                 PROVE  i = Len(more) /\ server' = "restarting"
      BY DEF RestartIsLast
    <3>1. i + 1 \in 1 .. Len(docs) /\ docs[i + 1] \in Restarts
      BY <2>8
    <3> QED
      BY <1>2, <2>8, <2>restart, <3>1
  <2>10. doc \in Restarts => more = <<>> /\ server' = "restarting"
    <3> SUFFICES ASSUME doc \in Restarts PROVE more = <<>> /\ server' = "restarting"
      OBVIOUS
    <3>1. 1 \in 1 .. Len(docs)
      BY <2>8
    <3>2. 1 = Len(docs) /\ server = "restarting"
      BY <2>restart, <3>1 DEF doc
    <3>3. Len(more) = 0
      BY <2>8, <3>2
    <3> QED
      BY <1>2, <2>8, <3>2, <3>3, EmptySeq
  <2>11. server' # "features" /\ phase' = "open"
    BY <1>2, <1>5 DEF OpenInv
  <2>12. CASE doc \in Unparsable
    <3>1. ~Parses(doc) /\ incoming' = <<>>
      BY <1>2, <2>3, <2>12 DEF Parses, InnerLoadXML, end
    <3>2. Len(handled') + Len(incoming') = Len(handled)
      BY <1>2, <2>6, <3>1
    <3>3. OpenInv'
      BY <1>2, <2>4, <2>5, <2>7, <2>8, <2>9, <2>11, <3>1, <3>2 DEF OpenInv
    <3> QED
      BY <1>3, <2>11, <3>1, <3>3 DEF FeaturesInv, TakenInv
  <2>13. CASE doc \notin Unparsable
    <3>1. Parses(doc) /\ incoming' = Append(<<>>, doc)
      BY <1>2, <2>3, <2>13 DEF Parses, InnerLoadXML, end
    <3>2. incoming' = <<doc>>
      BY <3>1
    <3>3. Len(incoming') = 1 /\ Head(incoming') = doc /\ incoming' # <<>>
      BY <3>2
    <3>4. Len(handled') + Len(incoming') = Len(handled) + 1
      BY <1>2, <3>3
    <3>5. OpenInv'
      BY <1>2, <2>4, <2>5, <2>7, <2>8, <2>9, <2>10, <2>11, <3>1, <3>3, <3>4 DEF OpenInv
    <3>6. TakenInv'
      <4>1. Len(handled) < Len(sent) /\ doc = sent[Len(handled) + 1]
        BY <1>1, <2>7, <3>1
      <4> QED
        BY <1>2, <3>3, <4>1 DEF TakenInv
    <3> QED
      BY <1>3, <2>11, <3>5, <3>6 DEF FeaturesInv
  <2> QED
    BY <2>12, <2>13
<1> QED
  BY <1>4, <1>5

(* The document handled is the one that was loaded; behind one that         *)
(* restarts the stream nothing is on its way.                               *)
LEMMA FetchStep ==
  ASSUME TypeOK, LoopInv, FramingInv, FetchDocument
  PROVE  FramingInv'
<1> USE DEF FramingInv
<1>1. /\ stream \in Seq(Tags) /\ wire \in Seq(Tags) /\ Text \in Seq(Tags)
      /\ sent \in Seq(Seq(Tags)) /\ handled \in Seq(Seq(Tags))
      /\ Len(sent) \in Nat /\ Len(handled) \in Nat
  BY SentType DEF TypeOK, Text
<1>2. /\ incoming # <<>> /\ incoming \in Seq(Seq(Tags)) /\ Len(incoming) = 1 /\ incoming' = <<>>
      /\ UNCHANGED <<wire, stream, sent>>
  <2>1. incoming # <<>> /\ incoming \in Seq(Seq(Tags)) /\ Len(incoming) <= 1
        /\ incoming' = Tail(incoming) /\ UNCHANGED <<wire, stream, sent>>
    BY DEF FetchDocument, TypeOK
  <2>2. Len(incoming) = 1
    <3> DEFINE n == Len(incoming)
    <3>1. n \in Nat \ {0} /\ n <= 1
      BY <2>1, EmptySeq
    <3> HIDE DEF n
    <3>2. n = 1
      BY <3>1
    <3> QED
      BY <3>2 DEF n
  <2>3. Len(Tail(incoming)) = 0 /\ Tail(incoming) \in Seq(Seq(Tags))
    BY <2>1, <2>2, HeadTailProperties
  <2> QED
    BY <2>1, <2>2, <2>3, EmptySeq
<1>3. Text' = Text /\ phase # "features"
  BY <1>2 DEF Text, FeaturesInv
<1>4. CASE phase # "open"
  BY <1>2, <1>3, <1>4 DEF FetchDocument, HandledInOrder, FeaturesInv, OpenInv, TakenInv
<1>5. CASE phase = "open"
  <2>1. Len(handled) < Len(sent) /\ Head(incoming) = sent[Len(handled) + 1]
    BY <1>2, <1>5 DEF TakenInv
  <2>2. handled' = Append(handled, sent[Len(handled) + 1])
    BY <1>5, <2>1 DEF FetchDocument
  <2>3. /\ Len(handled') = Len(handled) + 1 /\ Len(handled) + 1 <= Len(sent)
        /\ handled' = Prefix(sent, Len(handled) + 1)
    BY <1>1, <2>1, <2>2, PrefixNext DEF HandledInOrder
  <2>4. HandledInOrder'
    BY <1>2, <2>3 DEF HandledInOrder
  <2>5. PICK docs \in Seq(Pieces) : \E cut, num :
             /\ Framed(Text, docs, cut)
             /\ Numbered(sent, docs, num, Len(handled) + Len(incoming))
             /\ RestartIsLast(docs)
             /\ incoming # <<>> /\ Head(incoming) \in Restarts =>
                    docs = <<>> /\ server = "restarting"
    BY <1>5 DEF OpenInv
  <2>6. Len(handled') + Len(incoming') = Len(handled) + Len(incoming)
    BY <1>1, <1>2, <2>3, EmptySeq
  <2>7. CASE Head(incoming) \in Restarts
    <3>1. phase' = "features" /\ server' = "features" /\ docs = <<>>
      BY <1>2, <1>5, <2>5, <2>7 DEF FetchDocument
    <3>2. PICK cut, num :
             /\ Framed(Text, docs, cut)
             /\ Numbered(sent, docs, num, Len(handled) + Len(incoming))
      BY <2>5
    <3>3. Len(Text) = 0 /\ Len(handled) + 1 = Len(sent)
      <4>1. Len(docs) = 0
        BY <3>1, EmptySeq
      <4> QED
        BY <1>2, <3>2, <4>1 DEF Framed, Numbered
    <3>4. Text = <<>>
      BY <1>1, <3>3, EmptySeq
    <3>5. stream = <<>>
      BY <1>1, <3>4, ConcatEqualIffEmpty DEF Text
    <3>6. handled' = sent
      BY <1>1, <2>3, <3>3, SubSeqFull DEF Prefix
    <3>7. FeaturesInv'
      BY <1>2, <1>3, <3>1, <3>4, <3>5, <3>6 DEF FeaturesInv
    <3> QED
      BY <2>4, <3>1, <3>7 DEF OpenInv, TakenInv
  <2>8. CASE Head(incoming) \notin Restarts
    <3>1. phase' = "open" /\ server' = server
      BY <1>5, <2>8 DEF FetchDocument
    <3>2. RestartIsLast(docs)'
      BY <2>5, <3>1 DEF RestartIsLast
    <3>3. server' # "features"
      BY <1>5, <3>1 DEF OpenInv
    <3>4. OpenInv'
      BY <1>2, <1>3, <2>5, <2>6, <3>2, <3>3 DEF OpenInv
    <3> QED
      BY <1>2, <2>4, <3>1, <3>4 DEF FeaturesInv, TakenInv
  <2> QED
    BY <2>7, <2>8
<1> QED
  BY <1>4, <1>5

(* Every step keeps FramingInv. *)
LEMMA FramingStep ==
  ASSUME ~Eager, TypeOK, LoopInv, FramingInv, [Next]_vars PROVE FramingInv'
<1>1. CASE ServerSteps
  BY <1>1, SendStep
<1>2. CASE HandleRead \/ CheckStreamForFeatures \/ Incomplete
  BY <1>2, ReadStep
<1>3. CASE InnerLoadXML
  BY <1>3, LoadStep
<1>4. CASE FetchDocument
  BY <1>4, FetchStep
<1>5. CASE CheckForStreamEnd
  <2>1. UNCHANGED <<wire, sent, handled, incoming, server>> /\ io' = "idle"
        /\ (UNCHANGED <<stream, phase>> \/ phase' = "ended")
    BY <1>5 DEF CheckForStreamEnd
  <2>2. HandledInOrder'
    BY <2>1 DEF FramingInv, HandledInOrder
  <2>3. FeaturesInv' /\ OpenInv' /\ TakenInv'
    BY <2>1 DEF FramingInv, FeaturesInv, OpenInv, TakenInv, Text, RestartIsLast
  <2> QED
    BY <2>2, <2>3 DEF FramingInv
<1>6. CASE UNCHANGED vars
  BY <1>6 DEF vars, FramingInv, HandledInOrder, FeaturesInv, OpenInv, TakenInv, Text, RestartIsLast
<1> QED
  BY <1>1, <1>2, <1>3, <1>4, <1>5, <1>6 DEF Next, Loop

(* What is handled, taken and on its way is what was sent, for a server     *)
(* that waits for the client's answers.                                     *)
THEOREM FramingInvariance == ~Eager => (SafeSpec => []FramingInv)
<1> SUFFICES ASSUME ~Eager PROVE SafeSpec => []FramingInv
  OBVIOUS
<1>1. Init => FramingInv
  <2> SUFFICES ASSUME Init PROVE FramingInv
    OBVIOUS
  <2>1. wire = <<>> /\ stream = <<>> /\ phase = "features" /\ server = "features" /\ io = "idle"
        /\ handled = <<>> /\ sent = <<>> /\ incoming = <<>>
    BY DEF Init
  <2>2. <<>> \in Seq(Tags) /\ Len(<<>>) = 0 /\ <<>> \o <<>> = <<>>
    BY EmptySeq, ConcatEmptySeq
  <2>3. <<>> = Prefix(<<>>, 0)
    BY SubSeqEmpty DEF Prefix
  <2>4. HandledInOrder
    BY <2>1, <2>2, <2>3 DEF HandledInOrder
  <2>5. FeaturesInv /\ OpenInv /\ TakenInv
    BY <2>1, <2>2 DEF FeaturesInv, OpenInv, TakenInv, Text
  <2> QED
    BY <2>4, <2>5 DEF FramingInv
<1> QED
  BY <1>1, FramingStep, LoopInvariance, PTL DEF SafeSpec

(* HandleRead, InnerLoadXML and the loop over the documents hand over every *)
(* document whole, once and in order, wherever the reads are cut and        *)
(* however elements are nested.                                             *)
THEOREM DocumentsInOrder == ~Eager => (SafeSpec => []HandledInOrder)
<1>1. FramingInv => HandledInOrder
  BY DEF FramingInv
<1> QED
  BY <1>1, FramingInvariance, PTL

-----------------------------------------------------------------------------
(* The reading side implements OrderedChannel. *)

(* Every step is one of the channel or leaves it alone. *)
LEMMA ChannelStep ==
  ASSUME TypeOK, LoopInv, FramingInv, [Next]_vars PROVE [Channel!Next]_(Channel!vars)
<1> USE DEF Channel!vars, client
<1>1. ASSUME UNCHANGED <<sent, handled, phase, garbled>> PROVE UNCHANGED Channel!vars
  BY <1>1
<1>2. ASSUME NEW d \in Documents, SendDocument(d) PROVE [Channel!Next]_(Channel!vars)
  <2>1. CASE d \in Unparsable
    <3>1. garbled \in Nat /\ garbled' = garbled + 1 /\ UNCHANGED <<sent, handled, phase>>
      BY <1>2, <2>1 DEF SendDocument, TypeOK
    <3>2. garbled' > 0
      BY <3>1
    <3> QED
      BY <3>1, <3>2 DEF Channel!Next, Channel!Break
  <2>2. CASE d \notin Unparsable
    <3>1. sent \in Seq(Documents) /\ sent' = Append(sent, d) /\ UNCHANGED <<handled, phase, garbled>>
      BY <1>2, <2>2 DEF SendDocument, TypeOK
    <3>2. Len(sent') = Len(sent) + 1
      BY <3>1
    <3> QED
      BY <3>1, <3>2 DEF Channel!Next, Channel!Accept
  <2> QED
    BY <2>1, <2>2
<1>3. CASE FetchDocument
  <2>1. CASE phase = "open"
    <3>1. /\ handled \in Seq(Seq(Tags)) /\ incoming \in Seq(Seq(Tags)) /\ incoming # <<>>
          /\ handled' = Append(handled, Head(incoming)) /\ Len(handled) < Len(sent)
          /\ UNCHANGED <<sent, garbled>> /\ phase' # "ended"
      BY <1>3, <2>1 DEF FetchDocument, TypeOK, FramingInv, TakenInv
    <3>2. Head(incoming) \in Seq(Tags)
      BY <3>1, HeadTailProperties
    <3> DEFINE n == Len(handled)
               before == [i \in DOMAIN handled |-> i]
               after == [i \in DOMAIN handled' |-> i]
    <3>3. n \in Nat /\ DOMAIN handled = 1 .. n /\ DOMAIN handled' = 1 .. n + 1
      BY <3>1, <3>2
    <3>4. before \in Seq(Nat) /\ Len(before) = n /\ after \in Seq(Nat) /\ Len(after) = n + 1
      BY <3>3
    <3>5. after = Append(before, n + 1)
      BY <3>3, <3>4
    <3>6. Channel!Deliver
      BY <2>1, <3>1, <3>4, <3>5 DEF Channel!Deliver
    <3> QED
      BY <3>6 DEF Channel!Next
  <2>2. CASE phase # "open"
    BY <1>1, <1>3, <2>2 DEF FetchDocument
  <2> QED
    BY <2>1, <2>2
<1>4. CASE CheckForStreamEnd
  <2>1. UNCHANGED <<sent, handled, garbled>> /\ (phase' = phase \/ phase' = "ended")
    BY <1>4 DEF CheckForStreamEnd
  <2>2. CASE phase' = phase
    BY <1>1, <2>1, <2>2
  <2>3. CASE phase' = "ended"
    BY <2>1, <2>3 DEF Channel!Next, Channel!Break
  <2> QED
    BY <2>1, <2>2, <2>3
<1>5. CASE CheckStreamForFeatures
  <2>1. UNCHANGED <<sent, handled, garbled>> /\ phase # "ended" /\ phase' # "ended"
    BY <1>5 DEF CheckStreamForFeatures, LoopInv
  <2> QED
    BY <2>1
<1>6. CASE SendFeatures \/ CloseStream \/ HandleRead \/ Incomplete \/ InnerLoadXML
  BY <1>1, <1>6 DEF SendFeatures, CloseStream, HandleRead, Incomplete, InnerLoadXML
<1>7. CASE UNCHANGED vars
  BY <1>1, <1>7 DEF vars
<1> QED
  BY <1>2, <1>3, <1>4, <1>5, <1>6, <1>7 DEF Next, ServerSteps, Loop

(* Every step of the reading side accepts, delivers or breaks, or leaves    *)
(* the channel alone.                                                       *)
THEOREM SafeRefinement == ~Eager => (SafeSpec => Channel!SafeSpec)
<1> SUFFICES ASSUME ~Eager PROVE SafeSpec => Channel!SafeSpec
  OBVIOUS
<1>1. Init => Channel!Init
  <2> SUFFICES ASSUME Init PROVE Channel!Init
    OBVIOUS
  <2>1. sent = <<>> /\ handled = <<>> /\ phase = "features" /\ garbled = 0
    BY DEF Init
  <2>2. Len(sent) = 0 /\ [i \in DOMAIN handled |-> i] = <<>>
    BY <2>1
  <2> QED
    BY <2>1, <2>2 DEF Channel!Init
<1>2. TypeOK /\ LoopInv /\ FramingInv /\ [Next]_vars => [Channel!Next]_(Channel!vars)
  BY ChannelStep
<1> QED
  BY <1>1, <1>2, LoopInvariance, FramingInvariance, PTL DEF SafeSpec, Channel!SafeSpec
=============================================================================
