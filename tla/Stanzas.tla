------------------------------- MODULE Stanzas -------------------------------
(***************************************************************************)
(* Stanzas: how applications create them, fill them in and send them, and  *)
(* what an application of this library at the other end is handed.         *)
(*                                                                         *)
(* A document is its root and at most one element within it: as much as    *)
(* the searches for "//message" and "//iq" tell apart.  The server in the  *)
(* middle hands documents on as they are, in order.  The Connections are   *)
(* Connected and their stanza handlers set: what sending does otherwise is  *)
(* in Connection, and handlers that are reset are in Teardown.             *)
(***************************************************************************)
EXTENDS Jid, FiniteSets

CONSTANTS Apps,        \* applications, each with a Connection
          Addresses,   \* the addresses the server may bind each of them to
          Targets,     \* other addresses an application writes to
          Foreign,     \* documents that come from elsewhere
          MaxNew,      \* bound on the stanzas created or come from elsewhere
          MaxSent      \* bound on the stanzas sent

MessageText == [Chat |-> <<"chat">>, Normal |-> <<"normal">>, Groupchat |-> <<"groupchat">>,
                Headline |-> <<"headline">>, Error |-> <<"error">>]
IQText == [Get |-> <<"get">>, Set |-> <<"set">>, Result |-> <<"result">>, Error |-> <<"error">>]
Text == [message |-> MessageText, iq |-> IQText]

Kinds == {"message", "iq"}
Names == Kinds \cup {"presence", "other"}
TypesOf(kind) == DOMAIN Text[kind]
Unset == "unset"    \* what the constructor of an iq leaves in IQType

(* An element: its name, the attributes it has, and what they read as,      *)
(* which is nothing for those it has not.                                   *)
Attributes == {"from", "to", "type", "id"}
Elements == [name : Names, has : SUBSET Attributes, attr : [Attributes -> Strings]]
Documents == [root : Elements, inner : SUBSET Elements]

Proper(s) == s \in Strings /\ WellFormed(LoadJID(s))

ProperParts(doc) ==
    \A e \in {doc.root} \cup doc.inner : Proper(e.attr["from"]) /\ Proper(e.attr["to"])

ASSUME StanzasAssumption ==
    /\ "i" \in Characters /\ \A k \in Kinds : \A t \in TypesOf(k) : Text[k][t] \in Strings
    /\ Addresses \in [Apps -> SUBSET Strings]
    /\ \A a \in Apps : \A s \in Addresses[a] : Proper(s)
    /\ \A a, b \in Apps : \A s \in Addresses[a], t \in Addresses[b] :
          GetBareJID(LoadJID(s)) = GetBareJID(LoadJID(t)) => a = b
    /\ \A s \in Targets : Proper(s)
    /\ Foreign \subseteq Documents
    /\ \A d \in Foreign : \A e, f \in d.inner : e = f
    /\ \A d \in Foreign : ProperParts(d)
    /\ \A d \in Foreign : \A e \in {d.root} \cup d.inner : \A n \in Attributes \ e.has : e.attr[n] = <<>>
    /\ MaxNew \in Nat /\ MaxSent \in Nat

VARIABLES
    bound,    \* the address of each application's Connection: its MyJID
    stanzas,  \* the Stanza objects, in the order of their construction
    wire,     \* documents on their way, each with its place in sent
    sent,     \* what was sent, as the sender had filled it in (history)
    fault     \* a Stanza was used after its document was freed

vars == <<bound, stanzas, wire, sent, fault>>

MyJID(a) == LoadJID(bound[a])
News == Cardinality({i \in DOMAIN stanzas : stanzas[i].of = 0})

(* set_value of an attribute that is not there does nothing. *)
SetValue(e, n, v) == IF n \in e.has THEN [e EXCEPT !.attr[n] = v] ELSE e

(* select_node("//name"): the root, or else what is within it. *)
Found(doc, name) ==
    IF doc.root.name = name THEN "root"
    ELSE IF \E e \in doc.inner : e.name = name THEN "inner" ELSE "nowhere"
Mixed(doc) == \A k \in Kinds : Found(doc, k) # "nowhere"

Init ==
    /\ bound \in [Apps -> UNION {Addresses[a] : a \in Apps}]
    /\ \A a \in Apps : bound[a] \in Addresses[a]
    /\ stanzas = <<>> /\ wire = <<>> /\ sent = <<>> /\ fault = FALSE

-----------------------------------------------------------------------------
(* The sending application. *)

(* The n-th random id is n letters long. *)
ID(n) == [k \in 1 .. n |-> "i"]

NewElement(kind, id) ==
    [name |-> kind, has |-> Attributes,
     attr |-> [n \in Attributes |-> IF n = "id" THEN id ELSE <<>>]]

NewStanza(a, kind, to, answers) ==
    LET id == ID(Len(stanzas) + 1)
    IN  [app |-> a, kind |-> kind, type |-> IF kind = "message" THEN "Chat" ELSE "Get",
         to |-> to, from |-> MyJID(a), id |-> id,
         doc |-> [root |-> NewElement(kind, id), inner |-> {}],
         payload |-> "root", owns |-> TRUE, of |-> 0, answers |-> answers]

CreateStanza(a, kind, to, answers) ==
    /\ ~fault /\ News < MaxNew
    /\ stanzas' = Append(stanzas, NewStanza(a, kind, to, answers))
    /\ UNCHANGED <<bound, wire, sent, fault>>

Write(a, kind, s) == CreateStanza(a, kind, LoadJID(s), 0)

(* The examples answer a stanza with one to its From. *)
Answer(a, kind, i) ==
    /\ stanzas[i].app = a
    /\ CreateStanza(a, kind, stanzas[i].from, i)

(* The fields are public: before it sends a stanza, an application sets     *)
(* MessageType or IQType, and may take ID from the stanza it answers.       *)
Assigned(s, type, id) == [s EXCEPT !.type = type, !.id = id]
Ready(s) ==
    {Assigned(s, type, id) :
        type \in TypesOf(s.kind) \cup {s.type},
        id \in {s.id} \cup (IF s.answers = 0 THEN {} ELSE {stanzas[s.answers].id})}

(* Mutated: the type is written only where none is. *)
ProvisionOnce(s, e) ==
    IF s.type \in TypesOf(s.kind) /\ e.attr["type"] = <<>>
    THEN SetValue(e, "type", Text[s.kind][s.type]) ELSE e

ProvisionOutgoingStanza(s, e) ==
    IF s.type \in TypesOf(s.kind) THEN SetValue(e, "type", Text[s.kind][s.type]) ELSE e

Fill(s, e) ==
    SetValue(SetValue(SetValue(ProvisionOutgoingStanza(s, e),
        "from", GetFullJID(MyJID(s.app))), "to", GetFullJID(s.to)), "id", s.id)

(* The payload is filled in, and the whole document written. *)
Filled(s) ==
    IF s.payload = "root" THEN [s.doc EXCEPT !.root = Fill(s, s.doc.root)]
    ELSE [s.doc EXCEPT !.inner = {Fill(s, e) : e \in s.doc.inner}]

(* A stanza that has a place for every field. *)
Complete(s) ==
    /\ s.payload = "root" /\ s.doc.root.has = Attributes
    /\ s.type \in TypesOf(s.kind)

Fields(s) == [kind |-> s.kind, type |-> s.type, to |-> s.to, from |-> s.from, id |-> s.id]

SendStanza(i) ==
    /\ ~fault /\ stanzas[i].owns /\ Len(sent) < MaxSent
    /\ \E s \in Ready(stanzas[i]) :
         LET doc == Filled(s)
         IN  /\ stanzas' = [stanzas EXCEPT ![i] = [s EXCEPT !.doc = doc]]
             /\ wire' = Append(wire, [doc |-> doc, of |-> Len(sent) + 1])
             /\ sent' = Append(sent, [by |-> s.app, complete |-> Complete(s), answers |-> s.answers,
                                      fields |-> [Fields(s) EXCEPT !.from = MyJID(s.app)]])
    /\ UNCHANGED <<bound, fault>>

SendFreed(i) ==
    /\ ~fault /\ ~stanzas[i].owns
    /\ fault' = TRUE
    /\ UNCHANGED <<bound, stanzas, wire, sent>>

(* Mutated: the resource of the address is lost. *)
CheckForBareBindSuccess(a, s) ==
    /\ ~fault
    /\ bound' = [bound EXCEPT ![a] = GetBareJID(LoadJID(s))]
    /\ UNCHANGED <<stanzas, wire, sent, fault>>

(* Reconnect, and the address the server binds the Connection to then. *)
CheckForBindSuccess(a, s) ==
    /\ ~fault
    /\ bound' = [bound EXCEPT ![a] = s]
    /\ UNCHANGED <<stanzas, wire, sent, fault>>

-----------------------------------------------------------------------------
(* The receiving application. *)

Known(kind, text) == {t \in TypesOf(kind) : Text[kind][t] = text}

(* A message takes any other type for normal; an iq leaves its type as it   *)
(* was in memory, which may look like any of the four or like none.         *)
MessageTypesRead(text) ==
    IF Known("message", text) # {} THEN Known("message", text) ELSE {"Normal"}

IQTypesRead(text) ==
    IF Known("iq", text) # {} THEN Known("iq", text) ELSE TypesOf("iq") \cup {Unset}

TypesRead(kind, text) ==
    IF kind = "message" THEN MessageTypesRead(text) ELSE IQTypesRead(text)

Payload(doc, kind) == Found(doc, kind)

Element(doc, payload) == IF payload = "root" THEN doc.root ELSE CHOOSE e \in doc.inner : TRUE

(* Mutated: From is read from the attribute of To. *)
StanzaReadOneJID(a, doc, of, kind, type) ==
    LET e == Element(doc, Payload(doc, kind))
    IN  [app |-> a, kind |-> kind, type |-> type,
         to |-> LoadJID(e.attr["to"]), from |-> LoadJID(e.attr["to"]),
         id |-> e.attr["id"], doc |-> doc, payload |-> Payload(doc, kind),
         owns |-> TRUE, of |-> of, answers |-> 0]

StanzaRead(a, doc, of, kind, type) ==
    LET e == Element(doc, Payload(doc, kind))
    IN  [app |-> a, kind |-> kind, type |-> type,
         to |-> LoadJID(e.attr["to"]), from |-> LoadJID(e.attr["from"]),
         id |-> e.attr["id"], doc |-> doc, payload |-> Payload(doc, kind),
         owns |-> TRUE, of |-> of, answers |-> 0]

(* A document with an iq is handed over as an iq.  The first stanza made of *)
(* a document takes it, and a message takes it along when an iq, which got  *)
(* none, is put in its place.                                               *)
Owner(doc) == IF Found(doc, "message") # "nowhere" THEN "message" ELSE "iq"
Handed(doc) == IF Found(doc, "iq") # "nowhere" THEN "iq" ELSE "message"

Dispatched(a, doc, of) ==
    LET kind == Handed(doc)
        types == TypesRead(kind, Element(doc, Payload(doc, kind)).attr["type"])
    IN  {[StanzaRead(a, doc, of, kind, t) EXCEPT !.owns = Owner(doc) = kind] : t \in types}

DispatchStanza(a, doc, of) ==
    IF \E k \in Kinds : Found(doc, k) # "nowhere"
    THEN \E s \in Dispatched(a, doc, of) : stanzas' = Append(stanzas, s)
    ELSE UNCHANGED stanzas

(* The server: to whom a document goes, and documents of others. *)
Addressed(a, doc) ==
    doc.root.attr["to"] \in {bound[a], GetBareJID(MyJID(a))}

Arrive(a) ==
    /\ ~fault /\ wire # <<>> /\ Addressed(a, Head(wire).doc)
    /\ DispatchStanza(a, Head(wire).doc, Head(wire).of)
    /\ wire' = Tail(wire)
    /\ UNCHANGED <<bound, sent, fault>>

Bounce ==
    /\ wire # <<>> /\ \A a \in Apps : ~Addressed(a, Head(wire).doc)
    /\ wire' = Tail(wire)
    /\ UNCHANGED <<bound, stanzas, sent, fault>>

ArriveForeign(a, doc) ==
    /\ ~fault /\ News < MaxNew
    /\ DispatchStanza(a, doc, 0)
    /\ UNCHANGED <<bound, wire, sent, fault>>

-----------------------------------------------------------------------------
Creates == \E a \in Apps, kind \in Kinds :
              \/ \E s \in Targets : Write(a, kind, s)
              \/ \E i \in DOMAIN stanzas : Answer(a, kind, i)

Sends == \E i \in DOMAIN stanzas : SendStanza(i) \/ SendFreed(i)

Binds == \E a \in Apps : \E s \in Addresses[a] : CheckForBindSuccess(a, s)

Arrivals == Bounce \/ \E a \in Apps : Arrive(a) \/ \E doc \in Foreign : ArriveForeign(a, doc)

Next == Creates \/ Sends \/ Binds \/ Arrivals

Spec == Init /\ [][Next]_vars

-----------------------------------------------------------------------------
Types == {Unset} \cup UNION {TypesOf(k) : k \in Kinds}
Objects == [app : Apps, kind : Kinds, type : Types, to : JIDs, from : JIDs, id : Strings,
            doc : Documents, payload : {"root", "inner"}, owns : BOOLEAN, of : Nat, answers : Nat]
Filling == [kind : Kinds, type : Types, to : JIDs, from : JIDs, id : Strings]
Records == [by : Apps, complete : BOOLEAN, answers : Nat, fields : Filling]

TypeOK ==
    /\ bound \in [Apps -> Strings] /\ \A a \in Apps : bound[a] \in Addresses[a]
    /\ stanzas \in Seq(Objects)
    /\ \A i \in DOMAIN stanzas :
          /\ stanzas[i].type \in TypesOf(stanzas[i].kind) \cup {Unset}
          /\ stanzas[i].answers < i /\ stanzas[i].of <= Len(sent)
    /\ wire \in Seq([doc : Documents, of : Nat])
    /\ \A i \in DOMAIN wire : wire[i].of \in DOMAIN sent
    /\ sent \in Seq(Records)
    /\ fault \in BOOLEAN

(* What the application at the other end is handed has the kind, the type,  *)
(* the id and the two addresses that the stanza had when it was sent,       *)
(* however often it was filled in, sent or sent on before.                  *)
ArrivesAsSent ==
    [][\A i \in DOMAIN stanzas' \ DOMAIN stanzas :
          LET s == stanzas'[i]
          IN  s.of # 0 /\ sent[s.of].complete => Fields(s) = sent[s.of].fields]_vars

(* A stanza made as an answer reaches the application that asked, and no    *)
(* other, over whatever address it asked.                                   *)
AnswersReachTheAsker ==
    \A i \in DOMAIN stanzas :
        LET s == stanzas[i]
            q == IF s.of = 0 THEN 0 ELSE sent[s.of].answers
        IN  q # 0 /\ stanzas[q].of # 0 /\ sent[stanzas[q].of].complete /\ sent[s.of].complete
              => s.app = sent[stanzas[q].of].by

-----------------------------------------------------------------------------
(* The inductive invariant behind ArrivesAsSent: among the rest, a Payload  *)
(* is the element its kind says, in a document the stanza owns unless that  *)
(* has a message and an iq.                                                 *)

GoodDocument(doc) == doc \in Documents /\ ProperParts(doc) /\ \A e, f \in doc.inner : e = f

GoodStanza(s) ==
    /\ s \in Objects /\ s.type \in TypesOf(s.kind) \cup {Unset}
    /\ WellFormed(s.to) /\ WellFormed(s.from) /\ GoodDocument(s.doc)
    /\ s.payload = "inner" => s.doc.inner # {}
    /\ Element(s.doc, s.payload).name = s.kind
    /\ s.owns <=> ~Mixed(s.doc)

GoodRecord(r) == r \in Records /\ WellFormed(r.fields.to) /\ WellFormed(r.fields.from)

(* A document on its way carries what its sender had filled in. *)
Carries(doc, f) ==
    /\ doc.root.name = f.kind /\ ~Mixed(doc)
    /\ f.type \in TypesOf(f.kind) /\ doc.root.attr["type"] = Text[f.kind][f.type]
    /\ doc.root.attr["from"] = GetFullJID(f.from)
    /\ doc.root.attr["to"] = GetFullJID(f.to)
    /\ doc.root.attr["id"] = f.id

StanzasInv ==
    /\ stanzas \in Seq(Objects)
    /\ \A i \in 1 .. Len(stanzas) :
          GoodStanza(stanzas[i]) /\ stanzas[i].answers < i /\ stanzas[i].of <= Len(sent)

SentInv == sent \in Seq(Records) /\ \A i \in 1 .. Len(sent) : GoodRecord(sent[i])

WireInv ==
    /\ wire \in Seq([doc : Documents, of : Nat])
    /\ \A i \in 1 .. Len(wire) :
          /\ GoodDocument(wire[i].doc) /\ wire[i].of \in 1 .. Len(sent)
          /\ sent[wire[i].of].complete => Carries(wire[i].doc, sent[wire[i].of].fields)

BoundInv == bound \in [Apps -> Strings] /\ \A a \in Apps : bound[a] \in Addresses[a]

StanzaInv == BoundInv /\ StanzasInv /\ SentInv /\ WireInv /\ fault \in BOOLEAN

(* And behind AnswersReachTheAsker: an answer goes to the From of what it   *)
(* answers, and that is an address of the application that sent it.         *)
AskInv ==
    /\ \A k \in 1 .. Len(sent) : \E s \in Addresses[sent[k].by] : sent[k].fields.from = LoadJID(s)
    /\ \A k \in 1 .. Len(sent) :
          sent[k].answers # 0 => /\ sent[k].answers \in 1 .. Len(stanzas)
                                 /\ sent[k].fields.to = stanzas[sent[k].answers].from
    /\ \A i \in 1 .. Len(stanzas) :
          stanzas[i].answers # 0 => stanzas[i].to = stanzas[stanzas[i].answers].from
    /\ \A i \in 1 .. Len(stanzas) :
          stanzas[i].of # 0 /\ sent[stanzas[i].of].complete =>
              stanzas[i].from = sent[stanzas[i].of].fields.from
=============================================================================
