---------------------------- MODULE StanzasProofs ----------------------------
(***************************************************************************)
(* Addresses survive being written and read, and with them stanzas arrive  *)
(* as they were sent.                                                      *)
(***************************************************************************)
EXTENDS Stanzas, FiniteSetTheorems, SequenceTheorems, TLAPS

(* find comes to the first place there is, or behind the last. *)
LEMMA FindProperties ==
  ASSUME NEW S, NEW s \in Seq(S), NEW c
  PROVE  /\ Find(c, s) \in 1 .. Len(s) + 1
         /\ \A i \in 1 .. Len(s) : i < Find(c, s) => s[i] # c
         /\ Find(c, s) <= Len(s) => s[Find(c, s)] = c
<1>1. CASE Places(c, s) = {}
  BY <1>1 DEF Find, Places
<1>2. CASE Places(c, s) # {}
  <2>1. \E i \in Places(c, s) : \A j \in Places(c, s) : i <= j
    <3> DEFINE D == 1 .. Len(s)
               Upto(i) == Places(c, s) \cap 1 .. i
               T == {Upto(i) : i \in Places(c, s)}
    <3>1. IsFiniteSet(D)
      BY FS_Interval
    <3>2. T \subseteq FiniteSubsetsOf(D) /\ T # {}
      <4>1. \A i \in Places(c, s) : Upto(i) \subseteq D
        BY DEF Places
      <4>2. \A U \in SUBSET D : IsFiniteSet(U)
        BY <3>1, FS_Subset
      <4> QED
        BY <1>2, <4>1, <4>2 DEF FiniteSubsetsOf
    <3>3. PICK U \in T : \A V \in T : <<V, U>> \notin StrictSubsetOrdering(D)
      BY <3>2, FS_StrictSubsetOrderingWellFounded, WFMin
    <3>4. PICK i \in Places(c, s) : U = Upto(i)
      BY <3>3
    <3>5. ASSUME NEW j \in Places(c, s), j < i PROVE FALSE
      <4>1. Upto(j) \subseteq Upto(i) /\ i \in Upto(i) /\ i \notin Upto(j)
        BY <3>5 DEF Places
      <4>2. Upto(j) \in T /\ Upto(i) \subseteq D /\ Upto(j) \subseteq D
        BY DEF Places
      <4> HIDE DEF Upto, D, T
      <4>3. <<Upto(j), Upto(i)>> \in StrictSubsetOrdering(D)
        BY <4>1, <4>2 DEF StrictSubsetOrdering
      <4> QED
        BY <3>3, <3>4, <4>2, <4>3
    <3> QED
      BY <3>5 DEF Places
  <2>2. /\ Find(c, s) \in Places(c, s)
        /\ \A j \in Places(c, s) : Find(c, s) <= j
    BY <1>2, <2>1 DEF Find
  <2> QED
    BY <2>2 DEF Places
<1> QED
  BY <1>1, <1>2

(* Where something is found and nothing before it, find ends. *)
LEMMA FindThere ==
  ASSUME NEW S, NEW s \in Seq(S), NEW c, NEW n \in 1 .. Len(s) + 1,
         \A i \in 1 .. n - 1 : s[i] # c,
         n <= Len(s) => s[n] = c
  PROVE  Find(c, s) = n
  BY FindProperties

(* Whatever is read, LoadJID makes an address of it. *)
LEMMA LoadJIDType ==
  ASSUME NEW s \in Strings
  PROVE  LoadJID(s) \in JIDs
<1>1. /\ Find("/", s) \in 1 .. Len(s) + 1
      /\ Find("@", s) \in 1 .. Len(s) + 1
  BY FindProperties DEF Strings
<1>2. ASSUME NEW m \in Nat, NEW n \in Nat, 1 <= m, n <= Len(s)
      PROVE  SubSeq(s, m, n) \in Strings
  <2>1. \A i \in m .. n : s[i] \in Characters
    BY <1>2 DEF Strings
  <2> QED
    BY <2>1, SubSeqProperties DEF Strings
<1>3. Len(s) \in Nat
  BY DEF Strings
<1>4. <<>> \in Strings
  BY DEF Strings
<1> QED
  BY <1>1, <1>2, <1>3, <1>4 DEF LoadJID, JIDs

(* A stretch of a string that reads as another string is that string. *)
LEMMA Slice ==
  ASSUME NEW S, NEW s \in Seq(S), NEW t \in Seq(S), NEW k \in Nat,
         k + Len(t) <= Len(s),
         \A i \in 1 .. Len(t) : s[k + i] = t[i]
  PROVE  SubSeq(s, k + 1, k + Len(t)) = t
<1>1. \A i \in k + 1 .. k + Len(t) : s[i] \in S
  OBVIOUS
<1>2. /\ SubSeq(s, k + 1, k + Len(t)) \in Seq(S)
      /\ Len(SubSeq(s, k + 1, k + Len(t))) = Len(t)
      /\ \A i \in 1 .. Len(t) : SubSeq(s, k + 1, k + Len(t))[i] = s[k + i]
  <2>1. Len(t) \in Nat
    OBVIOUS
  <2> QED
    BY <1>1, <2>1, SubSeqProperties
<1> QED
  BY <1>2, SeqEqual

(* Two strings with a separator between them, character by character. *)
LEMMA Joined ==
  ASSUME NEW S, NEW u \in Seq(S), NEW v \in Seq(S), NEW x \in S
  PROVE  /\ u \o <<x>> \o v \in Seq(S) /\ Len(u \o <<x>> \o v) = Len(u) + 1 + Len(v)
         /\ \A i \in 1 .. Len(u) : (u \o <<x>> \o v)[i] = u[i]
         /\ (u \o <<x>> \o v)[Len(u) + 1] = x
         /\ \A i \in 1 .. Len(v) : (u \o <<x>> \o v)[Len(u) + 1 + i] = v[i]
<1> DEFINE w == Append(u, x)
<1>1. u \o <<x>> = w
  BY AppendIsConcat
<1>2. /\ w \in Seq(S) /\ Len(w) = Len(u) + 1
      /\ \A i \in 1 .. Len(u) : w[i] = u[i]
      /\ w[Len(u) + 1] = x
  BY AppendProperties
<1> HIDE DEF w
<1>3. /\ w \o v \in Seq(S) /\ Len(w \o v) = Len(w) + Len(v)
      /\ \A i \in 1 .. Len(w) + Len(v) :
           (w \o v)[i] = IF i <= Len(w) THEN w[i] ELSE v[i - Len(w)]
  BY <1>2, ConcatProperties
<1>4. Len(u) \in Nat /\ Len(v) \in Nat
  OBVIOUS
<1>5. /\ w \o v \in Seq(S) /\ Len(w \o v) = Len(u) + 1 + Len(v)
      /\ \A i \in 1 .. Len(u) : (w \o v)[i] = u[i]
      /\ (w \o v)[Len(u) + 1] = x
      /\ \A i \in 1 .. Len(v) : (w \o v)[Len(u) + 1 + i] = v[i]
  BY <1>2, <1>3, <1>4
<1> QED
  BY <1>1, <1>5

(* Reading splits off what is behind the first separator. *)
LEMMA Before ==
  ASSUME NEW S, NEW u \in Seq(S), NEW v \in Seq(S), NEW x \in S,
         \A i \in 1 .. Len(u) : u[i] # x
  PROVE  /\ u \o <<x>> \o v \in Seq(S)
         /\ Find(x, u \o <<x>> \o v) = Len(u) + 1
         /\ SubSeq(u \o <<x>> \o v, 1, Len(u)) = u
         /\ SubSeq(u \o <<x>> \o v, Len(u) + 2, Len(u \o <<x>> \o v)) = v
<1> DEFINE r == u \o <<x>> \o v
<1>1. /\ r \in Seq(S) /\ Len(r) = Len(u) + 1 + Len(v)
      /\ \A i \in 1 .. Len(u) : r[i] = u[i]
      /\ r[Len(u) + 1] = x
      /\ \A i \in 1 .. Len(v) : r[Len(u) + 1 + i] = v[i]
  BY Joined
<1> HIDE DEF r
<1>2. Len(u) \in Nat /\ Len(v) \in Nat /\ Len(r) \in Nat
  BY <1>1
<1>3. Find(x, r) = Len(u) + 1
  <2>1. Len(u) + 1 \in 1 .. Len(r) + 1
    BY <1>1, <1>2
  <2>2. \A i \in 1 .. (Len(u) + 1) - 1 : r[i] # x
    BY <1>1, <1>2
  <2>3. Len(u) + 1 <= Len(r) => r[Len(u) + 1] = x
    BY <1>1
  <2> DEFINE n == Len(u) + 1
  <2> HIDE DEF n
  <2>4. Find(x, r) = n
    <3>1. /\ n \in 1 .. Len(r) + 1
          /\ \A i \in 1 .. n - 1 : r[i] # x
          /\ n <= Len(r) => r[n] = x
      BY <2>1, <2>2, <2>3 DEF n
    <3>2. r \in Seq(S)
      BY <1>1
    <3> QED
      BY <3>1, <3>2, FindThere
  <2> QED
    BY <2>4 DEF n
<1>4. SubSeq(r, 0 + 1, 0 + Len(u)) = u
  <2>1. \A i \in 1 .. Len(u) : r[0 + i] = u[i]
    BY <1>1, <1>2
  <2>2. 0 + Len(u) <= Len(r) /\ 0 \in Nat
    BY <1>1, <1>2
  <2> QED
    BY <1>1, <2>1, <2>2, Slice
<1>5. SubSeq(r, (Len(u) + 1) + 1, (Len(u) + 1) + Len(v)) = v
  <2>1. (Len(u) + 1) + Len(v) <= Len(r) /\ Len(u) + 1 \in Nat
    BY <1>1, <1>2
  <2> QED
    BY <1>1, <2>1, Slice
<1>6. /\ 0 + 1 = 1 /\ 0 + Len(u) = Len(u)
      /\ (Len(u) + 1) + 1 = Len(u) + 2 /\ (Len(u) + 1) + Len(v) = Len(r)
  BY <1>1, <1>2
<1> QED
  BY <1>1, <1>3, <1>4, <1>5, <1>6 DEF r

(* Where nothing is found, find ends behind the last. *)
LEMMA NotThere ==
  ASSUME NEW S, NEW s \in Seq(S), NEW c, \A i \in 1 .. Len(s) : s[i] # c
  PROVE  Find(c, s) = Len(s) + 1
<1>1. Places(c, s) = {}
  BY DEF Places
<1> QED
  BY <1>1 DEF Find

(* What follows a string leaves alone what is found and taken in it. *)
LEMMA FindInPrefix ==
  ASSUME NEW S, NEW b \in Seq(S), NEW f \in Seq(S), NEW c, Len(b) <= Len(f),
         \A i \in 1 .. Len(b) : f[i] = b[i]
  PROVE  IF Find(c, b) <= Len(b) THEN Find(c, f) = Find(c, b) ELSE Len(b) < Find(c, f)
<1>1. /\ Len(b) \in Nat /\ Len(f) \in Nat
      /\ Find(c, b) \in 1 .. Len(b) + 1 /\ Find(c, f) \in 1 .. Len(f) + 1
      /\ \A i \in 1 .. Len(b) : i < Find(c, b) => b[i] # c
      /\ Find(c, b) <= Len(b) => b[Find(c, b)] = c
      /\ \A i \in 1 .. Len(f) : i < Find(c, f) => f[i] # c
      /\ Find(c, f) <= Len(f) => f[Find(c, f)] = c
  BY FindProperties
<1> QED
  BY <1>1

(* So does substr: what it takes from within the string is the same. *)
LEMMA SliceOfPrefix ==
  ASSUME NEW S, NEW b \in Seq(S), NEW f \in Seq(S), Len(b) <= Len(f),
         \A i \in 1 .. Len(b) : f[i] = b[i],
         NEW m \in Nat \ {0}, NEW n \in Nat, n <= Len(b)
  PROVE  SubSeq(f, m, n) = SubSeq(b, m, n)
<1>1. \A i \in m .. n : b[i] \in S /\ f[i] \in S /\ f[i] = b[i]
  OBVIOUS
<1>2. /\ SubSeq(f, m, n) \in Seq(S) /\ SubSeq(b, m, n) \in Seq(S)
      /\ Len(SubSeq(f, m, n)) = IF m <= n THEN n - m + 1 ELSE 0
      /\ Len(SubSeq(b, m, n)) = IF m <= n THEN n - m + 1 ELSE 0
      /\ \A i \in 1 .. n - m + 1 : SubSeq(f, m, n)[i] = f[m + i - 1]
                                  /\ SubSeq(b, m, n)[i] = b[m + i - 1]
  BY <1>1, SubSeqProperties
<1>3. \A i \in 1 .. Len(SubSeq(f, m, n)) : SubSeq(f, m, n)[i] = SubSeq(b, m, n)[i]
  BY <1>1, <1>2
<1> QED
  BY <1>2, <1>3, SeqEqual

(* The resource, and the bare address before it, are found again. *)
LEMMA ResourceRead ==
  ASSUME NEW S, NEW c \in S, NEW b \in Seq(S), NEW r \in Seq(S),
         \A i \in 1 .. Len(b) : b[i] # c
  PROVE  LET f == IF r = <<>> THEN b ELSE b \o <<c>> \o r
         IN  /\ f \in Seq(S) /\ Len(b) <= Len(f)
             /\ \A i \in 1 .. Len(b) : f[i] = b[i]
             /\ Find(c, f) = Len(b) + 1
             /\ SubSeq(f, Len(b) + 2, Len(f)) = r
<1> DEFINE f == IF r = <<>> THEN b ELSE b \o <<c>> \o r
<1> HIDE DEF f
<1> SUFFICES /\ f \in Seq(S) /\ Len(b) <= Len(f)
             /\ \A i \in 1 .. Len(b) : f[i] = b[i]
             /\ Find(c, f) = Len(b) + 1
             /\ SubSeq(f, Len(b) + 2, Len(f)) = r
  BY DEF f
<1>1. CASE r = <<>>
  <2>1. f = b /\ Len(b) \in Nat
    BY <1>1 DEF f
  <2>2. Find(c, b) = Len(b) + 1
    BY NotThere
  <2>3. SubSeq(b, Len(b) + 2, Len(b)) = <<>>
    BY <2>1, SubSeqEmpty
  <2> QED
    BY <1>1, <2>1, <2>2, <2>3
<1>2. CASE r # <<>>
  <2> DEFINE w == b \o <<c>> \o r
  <2>1. f = w
    BY <1>2 DEF f
  <2>2. /\ w \in Seq(S) /\ Len(w) = Len(b) + 1 + Len(r)
        /\ \A i \in 1 .. Len(b) : w[i] = b[i]
    BY Joined
  <2>3. /\ Find(c, w) = Len(b) + 1
        /\ SubSeq(w, Len(b) + 2, Len(w)) = r
    BY Before
  <2> HIDE DEF w
  <2>4. Len(b) <= Len(w)
    BY <2>2
  <2> QED
    BY <2>1, <2>2, <2>3, <2>4
<1> QED
  BY <1>1, <1>2

(* The node and the domain of an address are found again. *)
LEMMA NodeRead ==
  ASSUME NEW S, NEW at \in S, NEW u \in Seq(S), NEW d \in Seq(S),
         \A i \in 1 .. Len(u) : u[i] # at
  PROVE  LET w == u \o <<at>> \o d
         IN  /\ w \in Seq(S) /\ Len(w) = Len(u) + 1 + Len(d)
             /\ \A i \in 1 .. Len(u) : w[i] = u[i]
             /\ w[Len(u) + 1] = at
             /\ \A i \in 1 .. Len(d) : w[Len(u) + 1 + i] = d[i]
             /\ Find(at, w) = Len(u) + 1
             /\ SubSeq(w, 1, Len(u)) = u
             /\ SubSeq(w, Len(u) + 2, Len(w)) = d
<1> DEFINE w == u \o <<at>> \o d
<1>1. /\ w \in Seq(S) /\ Len(w) = Len(u) + 1 + Len(d)
      /\ \A i \in 1 .. Len(u) : w[i] = u[i]
      /\ w[Len(u) + 1] = at
      /\ \A i \in 1 .. Len(d) : w[Len(u) + 1 + i] = d[i]
  BY Joined
<1>2. /\ Find(at, w) = Len(u) + 1
      /\ SubSeq(w, 1, Len(u)) = u
      /\ SubSeq(w, Len(u) + 2, Len(w)) = d
  BY Before
<1> HIDE DEF w
<1> QED
  BY <1>1, <1>2 DEF w

(* The bare address has no slash, and reads as its two parts. *)
LEMMA BareRead ==
  ASSUME NEW j \in JIDs, WellFormed(j)
  PROVE  LET b == GetBareJID(j)
         IN  /\ b \in Strings
             /\ \A i \in 1 .. Len(b) : b[i] # "/"
             /\ IF j.user = <<>> THEN /\ Find("@", b) = Len(b) + 1
                                     /\ b = j.domain
                ELSE /\ Find("@", b) <= Len(b)
                     /\ SubSeq(b, 1, Find("@", b) - 1) = j.user
                     /\ SubSeq(b, Find("@", b) + 1, Len(b)) = j.domain
<1> DEFINE u == j.user
           d == j.domain
<1>1. u \in Seq(Characters) /\ d \in Seq(Characters)
  BY DEF JIDs, Strings
<1>2. /\ \A i \in 1 .. Len(u) : u[i] # "@" /\ u[i] # "/"
      /\ \A i \in 1 .. Len(d) : d[i] # "@" /\ d[i] # "/"
  BY DEF WellFormed, Free
<1>3. CASE u = <<>>
  <2>1. GetBareJID(j) = d
    BY <1>3 DEF GetBareJID
  <2> HIDE DEF u, d
  <2>2. Find("@", d) = Len(d) + 1
    BY <1>1, <1>2, NotThere
  <2> QED
    BY <1>1, <1>2, <1>3, <2>1, <2>2 DEF u, d, Strings
<1>4. CASE u # <<>>
  <2> DEFINE w == u \o <<"@">> \o d
  <2>1. GetBareJID(j) = w
    BY <1>4 DEF GetBareJID
  <2> HIDE DEF u, d
  <2>2. "@" \in Characters
    BY CharactersAssumption
  <2>3. /\ w \in Seq(Characters) /\ Len(w) = Len(u) + 1 + Len(d)
        /\ \A i \in 1 .. Len(u) : w[i] = u[i]
        /\ w[Len(u) + 1] = "@"
        /\ \A i \in 1 .. Len(d) : w[Len(u) + 1 + i] = d[i]
        /\ Find("@", w) = Len(u) + 1
        /\ SubSeq(w, 1, Len(u)) = u
        /\ SubSeq(w, Len(u) + 2, Len(w)) = d
    BY <1>1, <1>2, <2>2, NodeRead
  <2> HIDE DEF w
  <2>4. Len(u) \in Nat /\ Len(d) \in Nat
    BY <1>1
  <2>5. ASSUME NEW i \in 1 .. Len(w) PROVE w[i] # "/"
    <3>1. CASE i <= Len(u)
      BY <1>2, <2>3, <2>4, <3>1
    <3>2. CASE i = Len(u) + 1
      BY <2>3, <3>2
    <3>3. CASE i > Len(u) + 1
      <4>1. i - (Len(u) + 1) \in 1 .. Len(d) /\ Len(u) + 1 + (i - (Len(u) + 1)) = i
        BY <2>3, <2>4, <3>3
      <4> QED
        BY <1>2, <2>3, <4>1
    <3> QED
      BY <2>4, <3>1, <3>2, <3>3
  <2>6. /\ Find("@", w) <= Len(w)
        /\ Find("@", w) - 1 = Len(u) /\ Find("@", w) + 1 = Len(u) + 2
    BY <2>3, <2>4
  <2>7. /\ w \in Strings
        /\ SubSeq(w, 1, Find("@", w) - 1) = u
        /\ SubSeq(w, Find("@", w) + 1, Len(w)) = d
    BY <2>3, <2>6 DEF Strings
  <2> QED
    BY <1>4, <2>1, <2>5, <2>6, <2>7 DEF u, d
<1> QED
  BY <1>3, <1>4

(* Written out and read back, an address is what it was: GetFullJID and     *)
(* LoadJID of JID.hpp, for every address whose node and domain are free of  *)
(* the separators, whatever its resource holds.                             *)
THEOREM RoundTrip ==
  ASSUME NEW j \in JIDs, WellFormed(j)
  PROVE  GetFullJID(j) \in Strings /\ LoadJID(GetFullJID(j)) = j
<1> DEFINE b == GetBareJID(j)
           f == GetFullJID(j)
           r == j.resource
<1>1. /\ b \in Seq(Characters) /\ r \in Seq(Characters)
      /\ \A i \in 1 .. Len(b) : b[i] # "/"
  BY BareRead DEF Strings, JIDs
<1>2. f = (IF r = <<>> THEN b ELSE b \o <<"/">> \o r)
  BY DEF GetFullJID
<1>3. IF j.user = <<>> THEN Find("@", b) = Len(b) + 1 /\ b = j.domain
      ELSE /\ Find("@", b) <= Len(b)
           /\ SubSeq(b, 1, Find("@", b) - 1) = j.user
           /\ SubSeq(b, Find("@", b) + 1, Len(b)) = j.domain
  BY BareRead
<1> HIDE DEF b, f
<1>4. /\ f \in Seq(Characters) /\ Len(b) <= Len(f) /\ \A i \in 1 .. Len(b) : f[i] = b[i]
      /\ Find("/", f) = Len(b) + 1
      /\ SubSeq(f, Len(b) + 2, Len(f)) = r
  <2> HIDE DEF r
  <2>1. "/" \in Characters
    BY CharactersAssumption
  <2>2. b \in Seq(Characters) /\ r \in Seq(Characters) /\ \A i \in 1 .. Len(b) : b[i] # "/"
    BY <1>1
  <2> DEFINE g == IF r = <<>> THEN b ELSE b \o <<"/">> \o r
  <2>3. /\ g \in Seq(Characters) /\ Len(b) <= Len(g) /\ \A i \in 1 .. Len(b) : g[i] = b[i]
        /\ Find("/", g) = Len(b) + 1
        /\ SubSeq(g, Len(b) + 2, Len(g)) = r
    BY <2>1, <2>2, ResourceRead
  <2>4. f = g
    BY <1>2
  <2> HIDE DEF g
  <2> QED
    BY <2>3, <2>4
<1>5. /\ Len(b) \in Nat /\ Find("@", b) \in 1 .. Len(b) + 1
      /\ IF Find("@", b) <= Len(b) THEN Find("@", f) = Find("@", b) ELSE Len(b) < Find("@", f)
      /\ Find("@", f) \in 1 .. Len(f) + 1 /\ Len(f) \in Nat
  BY <1>1, <1>4, FindInPrefix, FindProperties
<1>6. \A m \in Nat \ {0} : SubSeq(f, m, Len(b)) = SubSeq(b, m, Len(b))
  BY <1>1, <1>4, <1>5, SliceOfPrefix
<1>7. SubSeq(b, 1, Len(b)) = b
  <2>1. \A i \in 1 .. Len(b) : b[0 + i] = b[i]
    BY <1>5
  <2>2. 0 + Len(b) <= Len(b) /\ 0 \in Nat /\ 0 + Len(b) = Len(b) /\ 0 + 1 = 1
    BY <1>5
  <2>3. SubSeq(b, 0 + 1, 0 + Len(b)) = b
    BY <1>1, <2>1, <2>2, Slice
  <2> QED
    BY <2>2, <2>3
<1>8. j = [user |-> j.user, domain |-> j.domain, resource |-> j.resource]
  BY DEF JIDs
<1> DEFINE at == Find("@", f)
           slash == Find("/", f)
<1>9. LoadJID(f) =
        [user |-> IF at < slash THEN SubSeq(f, 1, at - 1) ELSE <<>>,
         domain |-> SubSeq(f, IF at < slash THEN at + 1 ELSE 1, slash - 1),
         resource |-> SubSeq(f, slash + 1, Len(f))]
  BY DEF LoadJID
<1>10. /\ SubSeq(f, slash + 1, Len(f)) = r
       /\ \A m \in Nat : SubSeq(f, m, slash - 1) = SubSeq(f, m, Len(b))
  <2>1. slash + 1 = Len(b) + 2 /\ slash - 1 = Len(b)
    BY <1>4, <1>5
  <2> HIDE DEF slash
  <2> QED
    BY <1>4, <2>1
<1>11. ASSUME j.user = <<>> PROVE LoadJID(f) = j
  <2>1. ~(at < slash)
    BY <1>3, <1>4, <1>5, <1>11
  <2>2. SubSeq(f, 1, Len(b)) = j.domain
    <3>1. SubSeq(f, 1, Len(b)) = SubSeq(b, 1, Len(b))
      BY <1>6
    <3> QED
      BY <1>3, <1>7, <1>11, <3>1
  <2>3. SubSeq(f, 1, slash - 1) = j.domain
    BY <1>10, <2>2
  <2> HIDE DEF at, slash, r
  <2>4. LoadJID(f) = [user |-> <<>>, domain |-> j.domain, resource |-> r]
    BY <1>9, <1>10, <2>1, <2>3
  <2> QED
    BY <1>8, <1>11, <2>4 DEF r
<1>12. ASSUME j.user # <<>> PROVE LoadJID(f) = j
  <2>1. at < slash /\ at = Find("@", b) /\ at \in 1 .. Len(b)
    BY <1>3, <1>4, <1>5, <1>12
  <2>2. SubSeq(b, 1, at - 1) = j.user /\ SubSeq(b, at + 1, Len(b)) = j.domain
    BY <1>3, <1>12, <2>1
  <2> HIDE DEF at, slash
  <2>3. SubSeq(f, 1, at - 1) = SubSeq(b, 1, at - 1)
    <3>1. at - 1 \in Nat /\ at - 1 <= Len(b) /\ 1 \in Nat \ {0}
      BY <1>5, <2>1
    <3> QED
      BY <1>1, <1>4, <3>1, SliceOfPrefix
  <2>4. SubSeq(f, at + 1, Len(b)) = SubSeq(b, at + 1, Len(b))
    <3>1. at + 1 \in Nat \ {0}
      BY <1>5, <2>1
    <3> QED
      BY <1>6, <3>1
  <2>5. at + 1 \in Nat
    BY <1>5, <2>1
  <2>6. SubSeq(f, at + 1, slash - 1) = j.domain
    BY <1>10, <2>2, <2>4, <2>5
  <2>7. SubSeq(f, 1, at - 1) = j.user
    BY <2>2, <2>3
  <2> HIDE DEF at, slash, r
  <2>8. LoadJID(f) = [user |-> j.user, domain |-> j.domain, resource |-> r]
    BY <1>9, <1>10, <2>1, <2>6, <2>7
  <2> QED
    BY <1>8, <2>8 DEF r
<1>13. LoadJID(f) = j
  BY <1>11, <1>12
<1> QED
  BY <1>4, <1>13 DEF f, Strings

-----------------------------------------------------------------------------
(* Documents and the stanzas in them. *)

(* Nothing at all is a proper address. *)
LEMMA EmptyIsProper == Proper(<<>>)
<1>1. <<>> \in Strings /\ Len(<<>>) = 0
  BY DEF Strings
<1>2. LoadJID(<<>>).user \in {<<>>} /\ LoadJID(<<>>).domain \in {<<>>}
  <2>1. Find("/", <<>>) = 1 /\ Find("@", <<>>) = 1
    BY DEF Find, Places
  <2>2. SubSeq(<<>>, 1, 0) = <<>>
    BY SubSeqEmpty
  <2> QED
    BY <2>1, <2>2 DEF LoadJID
<1> QED
  BY <1>1, <1>2 DEF Proper, WellFormed, Free

(* The address of a well-formed JID is proper. *)
LEMMA WrittenIsProper ==
  ASSUME NEW j \in JIDs, WellFormed(j)
  PROVE  Proper(GetFullJID(j))
  BY RoundTrip DEF Proper

(* The words ProvisionOutgoingStanza writes for the types are strings. *)
LEMMA TextsAreStrings ==
  ASSUME NEW kind \in Kinds, NEW type \in TypesOf(kind)
  PROVE  Text[kind][type] \in Strings
  BY StanzasAssumption

(* The address CheckForBindSuccess sets is well formed. *)
LEMMA MyJIDGood ==
  ASSUME BoundInv, NEW a \in Apps
  PROVE  MyJID(a) \in JIDs /\ WellFormed(MyJID(a))
  BY StanzasAssumption, LoadJIDType DEF BoundInv, MyJID, Proper

(* What SetValue does to the attributes of an element. *)
LEMMA SetValueElement ==
  ASSUME NEW e \in Elements, NEW n \in Attributes, NEW v \in Strings
  PROVE  /\ SetValue(e, n, v) \in Elements
         /\ SetValue(e, n, v).name = e.name /\ SetValue(e, n, v).has = e.has
         /\ SetValue(e, n, v).attr = IF n \in e.has THEN [e.attr EXCEPT ![n] = v] ELSE e.attr
  BY DEF SetValue, Elements

(* What Fill does to a payload: its name and what is within it stay, its    *)
(* addresses are proper, and every attribute that is there says what the    *)
(* stanza says.                                                            *)
LEMMA FillElement ==
  ASSUME BoundInv, NEW s \in Objects, WellFormed(s.to),
         NEW e \in Elements, Proper(e.attr["from"]), Proper(e.attr["to"])
  PROVE  /\ Fill(s, e) \in Elements /\ Fill(s, e).name = e.name /\ Fill(s, e).has = e.has
         /\ Proper(Fill(s, e).attr["from"]) /\ Proper(Fill(s, e).attr["to"])
         /\ e.has = Attributes /\ s.type \in TypesOf(s.kind) =>
              /\ Fill(s, e).attr["type"] = Text[s.kind][s.type]
              /\ Fill(s, e).attr["from"] = GetFullJID(MyJID(s.app))
              /\ Fill(s, e).attr["to"] = GetFullJID(s.to)
              /\ Fill(s, e).attr["id"] = s.id
<1> DEFINE from == GetFullJID(MyJID(s.app))
           to == GetFullJID(s.to)
           e1 == ProvisionOutgoingStanza(s, e)
           e2 == SetValue(e1, "from", from)
           e3 == SetValue(e2, "to", to)
           e4 == SetValue(e3, "id", s.id)
           known == s.type \in TypesOf(s.kind)
<1>1. /\ from \in Strings /\ Proper(from) /\ to \in Strings /\ Proper(to)
      /\ s.id \in Strings /\ s.kind \in Kinds
      /\ {"from", "to", "id", "type"} = Attributes
      /\ s.app \in Apps /\ s.to \in JIDs
  <2>1. s.app \in Apps /\ s.to \in JIDs /\ s.id \in Strings /\ s.kind \in Kinds
    BY DEF Objects
  <2> QED
    BY <2>1, MyJIDGood, RoundTrip, WrittenIsProper DEF Attributes
<1>2. Fill(s, e) = e4
  BY DEF Fill
<1> HIDE DEF from, to
<1>3. /\ e1 \in Elements /\ e1.name = e.name /\ e1.has = e.has
      /\ e1.attr["from"] = e.attr["from"] /\ e1.attr["to"] = e.attr["to"]
      /\ e.has = Attributes /\ known => e1.attr["type"] = Text[s.kind][s.type]
  <2>1. e.attr \in [Attributes -> Strings]
    BY DEF Elements
  <2>2. CASE known
    <3>1. "type" \in Attributes /\ Text[s.kind][s.type] \in Strings
      BY <1>1, <2>2, TextsAreStrings
    <3>2. e1 = SetValue(e, "type", Text[s.kind][s.type])
      BY <2>2 DEF ProvisionOutgoingStanza
    <3>3. /\ e1 \in Elements /\ e1.name = e.name /\ e1.has = e.has
          /\ e1.attr = IF "type" \in e.has THEN [e.attr EXCEPT !["type"] = Text[s.kind][s.type]]
                       ELSE e.attr
      BY <3>1, <3>2, SetValueElement
    <3> HIDE DEF e1
    <3>4. "from" \in Attributes /\ "to" \in Attributes
      BY <1>1
    <3> QED
      BY <2>1, <3>1, <3>3, <3>4
  <2>3. CASE ~known
    BY <2>3 DEF ProvisionOutgoingStanza
  <2> QED
    BY <2>2, <2>3
<1> HIDE DEF e1
<1>4. /\ e2 \in Elements /\ e2.name = e.name /\ e2.has = e.has
      /\ e2.attr = IF "from" \in e.has THEN [e1.attr EXCEPT !["from"] = from] ELSE e1.attr
      /\ e1.attr \in [Attributes -> Strings]
  <2>1. "from" \in Attributes /\ from \in Strings /\ e1 \in Elements
    BY <1>1, <1>3
  <2>2. /\ e2 \in Elements /\ e2.name = e1.name /\ e2.has = e1.has
        /\ e2.attr = IF "from" \in e1.has THEN [e1.attr EXCEPT !["from"] = from] ELSE e1.attr
    BY <2>1, SetValueElement
  <2>3. e1.attr \in [Attributes -> Strings]
    BY <2>1 DEF Elements
  <2> HIDE DEF e2
  <2> QED
    BY <1>3, <2>2, <2>3
<1> HIDE DEF e2
<1>5. /\ e3 \in Elements /\ e3.name = e.name /\ e3.has = e.has
      /\ e3.attr = IF "to" \in e.has THEN [e2.attr EXCEPT !["to"] = to] ELSE e2.attr
      /\ e2.attr \in [Attributes -> Strings]
  <2>1. "to" \in Attributes /\ to \in Strings /\ e2 \in Elements
    BY <1>1, <1>4
  <2>2. /\ e3 \in Elements /\ e3.name = e2.name /\ e3.has = e2.has
        /\ e3.attr = IF "to" \in e2.has THEN [e2.attr EXCEPT !["to"] = to] ELSE e2.attr
    BY <2>1, SetValueElement
  <2>3. e2.attr \in [Attributes -> Strings]
    BY <2>1 DEF Elements
  <2> HIDE DEF e3
  <2> QED
    BY <1>4, <2>2, <2>3
<1> HIDE DEF e3
<1>6. /\ e4 \in Elements /\ e4.name = e.name /\ e4.has = e.has
      /\ e4.attr = IF "id" \in e.has THEN [e3.attr EXCEPT !["id"] = s.id] ELSE e3.attr
      /\ e3.attr \in [Attributes -> Strings]
  <2>1. "id" \in Attributes /\ s.id \in Strings /\ e3 \in Elements
    BY <1>1, <1>5
  <2>2. /\ e4 \in Elements /\ e4.name = e3.name /\ e4.has = e3.has
        /\ e4.attr = IF "id" \in e3.has THEN [e3.attr EXCEPT !["id"] = s.id] ELSE e3.attr
    BY <2>1, SetValueElement
  <2>3. e3.attr \in [Attributes -> Strings]
    BY <2>1 DEF Elements
  <2> HIDE DEF e4
  <2> QED
    BY <1>5, <2>2, <2>3
<1> HIDE DEF e4
<1>7. /\ e4.attr["from"] = IF "from" \in e.has THEN from ELSE e.attr["from"]
      /\ e4.attr["to"] = IF "to" \in e.has THEN to ELSE e.attr["to"]
      /\ e4.attr["type"] = e1.attr["type"]
      /\ "id" \in e.has => e4.attr["id"] = s.id
  <2>1. "from" \in Attributes /\ "to" \in Attributes /\ "id" \in Attributes /\ "type" \in Attributes
    BY <1>1
  <2> QED
    BY <1>3, <1>4, <1>5, <1>6, <2>1
<1>8. Proper(e4.attr["from"]) /\ Proper(e4.attr["to"])
  BY <1>1, <1>7
<1>9. e.has = Attributes /\ known =>
        /\ e4.attr["type"] = Text[s.kind][s.type] /\ e4.attr["from"] = from
        /\ e4.attr["to"] = to /\ e4.attr["id"] = s.id
  BY <1>1, <1>3, <1>7
<1> QED
  BY <1>2, <1>6, <1>8, <1>9 DEF from, to

(* Which elements are found depends on names only. *)
LEMMA SameNames ==
  ASSUME NEW c, NEW d, c.root.name = d.root.name,
         {e.name : e \in c.inner} = {e.name : e \in d.inner}
  PROVE  /\ \A n : Found(c, n) = Found(d, n)
         /\ Mixed(c) <=> Mixed(d)
<1>1. ASSUME NEW n PROVE (\E e \in c.inner : e.name = n) <=> (\E e \in d.inner : e.name = n)
  OBVIOUS
<1>2. ASSUME NEW n PROVE Found(c, n) = Found(d, n)
  BY <1>1 DEF Found
<1> QED
  BY <1>2 DEF Mixed

(* The one element within a document. *)
LEMMA Within1 ==
  ASSUME NEW doc, NEW e \in doc.inner, \A f, g \in doc.inner : f = g
  PROVE  doc.inner = {e} /\ Element(doc, "inner") = e
<1>1. doc.inner = {e}
  OBVIOUS
<1>2. (CHOOSE x \in {e} : TRUE) = e
  OBVIOUS
<1> QED
  BY <1>1, <1>2 DEF Element

(* A stanza filled in is as good as it was, and its document says what its  *)
(* fields say if it has a place for each.                                   *)
LEMMA FilledGood ==
  ASSUME BoundInv, NEW s, GoodStanza(s)
  PROVE  /\ GoodDocument(Filled(s)) /\ (s.owns <=> ~Mixed(Filled(s)))
         /\ s.payload = "inner" => Filled(s).inner # {}
         /\ Element(Filled(s), s.payload).name = s.kind
         /\ s.owns /\ Complete(s) =>
              Carries(Filled(s), [Fields(s) EXCEPT !.from = MyJID(s.app)])
<1> DEFINE doc == s.doc
           d == Filled(s)
<1>1. /\ s \in Objects /\ WellFormed(s.to) /\ doc \in Documents /\ s.payload \in {"root", "inner"}
      /\ doc.root \in Elements /\ doc.inner \subseteq Elements
      /\ \A e \in {doc.root} \cup doc.inner : Proper(e.attr["from"]) /\ Proper(e.attr["to"])
      /\ \A e, f \in doc.inner : e = f
      /\ s.payload = "inner" => doc.inner # {}
      /\ Element(doc, s.payload).name = s.kind
      /\ s.owns <=> ~Mixed(doc)
  <2>1. s \in Objects /\ doc \in Documents /\ s.payload \in {"root", "inner"}
    BY DEF GoodStanza, Objects, GoodDocument
  <2>2. doc.root \in Elements /\ doc.inner \subseteq Elements
    BY <2>1 DEF Documents
  <2> QED
    BY <2>1, <2>2 DEF GoodStanza, GoodDocument, ProperParts
<1>2. ASSUME NEW e \in {doc.root} \cup doc.inner
      PROVE  /\ Fill(s, e) \in Elements /\ Fill(s, e).name = e.name /\ Fill(s, e).has = e.has
             /\ Proper(Fill(s, e).attr["from"]) /\ Proper(Fill(s, e).attr["to"])
             /\ e.has = Attributes /\ s.type \in TypesOf(s.kind) =>
                  /\ Fill(s, e).attr["type"] = Text[s.kind][s.type]
                  /\ Fill(s, e).attr["from"] = GetFullJID(MyJID(s.app))
                  /\ Fill(s, e).attr["to"] = GetFullJID(s.to)
                  /\ Fill(s, e).attr["id"] = s.id
  <2>1. e \in Elements /\ Proper(e.attr["from"]) /\ Proper(e.attr["to"])
    BY <1>1
  <2> QED
    BY <1>1, <2>1, FillElement
<1>3. CASE s.payload = "root"
  <2>1. d = [doc EXCEPT !.root = Fill(s, doc.root)]
    BY <1>3 DEF Filled
  <2>2. d \in Documents /\ d.root = Fill(s, doc.root) /\ d.inner = doc.inner
    BY <1>1, <1>2, <2>1 DEF Documents
  <2> HIDE DEF d
  <2>3. GoodDocument(d)
    BY <1>1, <1>2, <2>2 DEF GoodDocument, ProperParts
  <2>4. d.root.name = doc.root.name
    BY <1>2, <2>2
  <2>5. Mixed(d) <=> Mixed(doc)
    BY <2>2, <2>4, SameNames
  <2>6. Element(d, s.payload).name = s.kind /\ d.root.name = s.kind
    BY <1>1, <1>3, <2>4 DEF Element
  <2>7. ASSUME s.owns, Complete(s)
        PROVE  Carries(d, [Fields(s) EXCEPT !.from = MyJID(s.app)])
    <3>1. doc.root.has = Attributes /\ s.type \in TypesOf(s.kind)
      BY <2>7 DEF Complete
    <3>2. /\ d.root.attr["type"] = Text[s.kind][s.type]
          /\ d.root.attr["from"] = GetFullJID(MyJID(s.app))
          /\ d.root.attr["to"] = GetFullJID(s.to)
          /\ d.root.attr["id"] = s.id
      BY <1>2, <2>2, <3>1
    <3> DEFINE f == [Fields(s) EXCEPT !.from = MyJID(s.app)]
    <3>3. f.kind = s.kind /\ f.type = s.type /\ f.to = s.to /\ f.from = MyJID(s.app) /\ f.id = s.id
      BY DEF Fields
    <3> HIDE DEF f
    <3>4. Carries(d, f)
      BY <1>1, <2>5, <2>6, <2>7, <3>1, <3>2, <3>3 DEF Carries
    <3> QED
      BY <3>4 DEF f
  <2> QED
    BY <1>1, <1>3, <2>3, <2>5, <2>6, <2>7 DEF d
<1>4. CASE s.payload = "inner"
  <2>1. d = [doc EXCEPT !.inner = {Fill(s, e) : e \in doc.inner}]
    BY <1>4 DEF Filled
  <2>2. PICK e \in doc.inner : TRUE
    BY <1>1, <1>4
  <2>3. doc.inner = {e} /\ Element(doc, "inner") = e
    BY <1>1, Within1
  <2>4. Fill(s, e) \in Elements /\ Fill(s, e).name = e.name
    BY <1>2
  <2>5. d \in Documents /\ d.root = doc.root /\ d.inner = {Fill(s, e)}
    BY <1>1, <2>1, <2>3, <2>4 DEF Documents
  <2> HIDE DEF d
  <2>6. GoodDocument(d)
    BY <1>1, <1>2, <2>3, <2>5 DEF GoodDocument, ProperParts
  <2>7. Mixed(d) <=> Mixed(doc)
    <3>1. {x.name : x \in d.inner} = {x.name : x \in doc.inner}
      BY <2>3, <2>4, <2>5
    <3> QED
      BY <2>5, <3>1, SameNames
  <2>8. Element(d, "inner") = Fill(s, e)
    BY <2>5, Within1
  <2>9. ~Complete(s)
    BY <1>4 DEF Complete
  <2> QED
    BY <1>1, <1>4, <2>3, <2>4, <2>5, <2>6, <2>7, <2>8, <2>9 DEF d
<1> QED
  BY <1>1, <1>3, <1>4

(* A new stanza is good. *)
LEMMA NewGood ==
  ASSUME BoundInv, NEW a \in Apps, NEW kind \in Kinds, NEW to \in JIDs, WellFormed(to),
         NEW answers \in Nat, Len(stanzas) \in Nat
  PROVE  /\ GoodStanza(NewStanza(a, kind, to, answers))
         /\ NewStanza(a, kind, to, answers).answers = answers
         /\ NewStanza(a, kind, to, answers).of = 0 /\ NewStanza(a, kind, to, answers).to = to
<1> DEFINE id == ID(Len(stanzas) + 1)
           e == NewElement(kind, id)
           doc == [root |-> e, inner |-> {}]
           s == NewStanza(a, kind, to, answers)
<1>1. id \in Strings
  <2>1. "i" \in Characters
    BY StanzasAssumption
  <2> QED
    BY <2>1 DEF ID, Strings
<1>2. <<>> \in Strings
  BY DEF Strings
<1> HIDE DEF id
<1>3. /\ e \in Elements /\ e.name = kind
      /\ e.attr["from"] = <<>> /\ e.attr["to"] = <<>>
  <2>1. kind \in Names
    BY DEF Names
  <2>2. [n \in Attributes |-> IF n = "id" THEN id ELSE <<>>] \in [Attributes -> Strings]
    BY <1>1, <1>2
  <2> QED
    BY <2>1, <2>2 DEF NewElement, Elements, Attributes
<1> HIDE DEF e
<1>4. GoodDocument(doc)
  BY <1>3, EmptyIsProper DEF GoodDocument, ProperParts, Documents
<1>5. Element(doc, "root") = e /\ ~Mixed(doc)
  <2>1. \E k \in Kinds : k # kind
    BY DEF Kinds
  <2> QED
    BY <1>3, <2>1 DEF Element, Mixed, Found
<1>6. /\ s = [app |-> a, kind |-> kind, type |-> IF kind = "message" THEN "Chat" ELSE "Get",
              to |-> to, from |-> MyJID(a), id |-> id, doc |-> doc,
              payload |-> "root", owns |-> TRUE, of |-> 0, answers |-> answers]
      /\ s.type \in TypesOf(kind) /\ s.type \in Types
  BY DEF NewStanza, id, e, Types, TypesOf, Text, MessageText, IQText, Kinds
<1>7. doc \in Documents
  BY <1>4 DEF GoodDocument
<1>8. MyJID(a) \in JIDs /\ WellFormed(MyJID(a))
  BY MyJIDGood
<1> HIDE DEF s, doc
<1>9. s \in Objects
  BY <1>1, <1>6, <1>7, <1>8 DEF Objects
<1>10. GoodStanza(s)
  BY <1>3, <1>4, <1>5, <1>6, <1>8, <1>9 DEF GoodStanza
<1> QED
  BY <1>6, <1>10 DEF s

(* Where something of a kind is found is an element of that name. *)
LEMMA FoundElement ==
  ASSUME NEW doc, GoodDocument(doc), NEW kind \in Kinds, Found(doc, kind) # "nowhere"
  PROVE  LET payload == Payload(doc, kind)
         IN  /\ payload \in {"root", "inner"}
             /\ payload = "inner" => doc.inner # {}
             /\ Element(doc, payload) \in {doc.root} \cup doc.inner
             /\ Element(doc, payload).name = kind
<1>1. CASE doc.root.name = kind
  BY <1>1 DEF Payload, Found, Element
<1>2. CASE doc.root.name # kind
  <2>1. PICK e \in doc.inner : e.name = kind
    BY <1>2 DEF Found
  <2>2. Found(doc, kind) = "inner"
    BY <1>2, <2>1 DEF Found
  <2>3. Element(doc, "inner") = e
    BY <2>1, Within1 DEF GoodDocument
  <2> QED
    BY <2>1, <2>2, <2>3 DEF Payload
<1> QED
  BY <1>1, <1>2

(* Every type is read from its own text only. *)
LEMMA TypesReadBack ==
  ASSUME NEW kind \in Kinds
  PROVE  /\ \A text : TypesRead(kind, text) \subseteq TypesOf(kind) \cup {Unset}
         /\ \A type \in TypesOf(kind) : TypesRead(kind, Text[kind][type]) = {type}
<1>1. CASE kind = "message"
  BY <1>1 DEF TypesRead, MessageTypesRead, Known, TypesOf, Text, MessageText
<1>2. CASE kind = "iq"
  BY <1>2 DEF TypesRead, IQTypesRead, Known, TypesOf, Text, IQText
<1> QED
  BY <1>1, <1>2 DEF Kinds

(* Only of a document with a message and an iq is a stanza handed over that *)
(* does not own it.                                                         *)
LEMMA OwnerHanded ==
  ASSUME NEW doc, \E k \in Kinds : Found(doc, k) # "nowhere"
  PROVE  /\ Handed(doc) \in Kinds /\ Found(doc, Handed(doc)) # "nowhere"
         /\ Owner(doc) = Handed(doc) <=> ~Mixed(doc)
BY DEF Kinds, Owner, Handed, Mixed

(* What is handed over of a good document is a good stanza, with the fields *)
(* the document carries.                                                    *)
LEMMA ReadGood ==
  ASSUME NEW a \in Apps, NEW doc, GoodDocument(doc), NEW of \in Nat,
         \E k \in Kinds : Found(doc, k) # "nowhere",
         NEW s \in Dispatched(a, doc, of)
  PROVE  /\ GoodStanza(s) /\ s.of = of /\ s.answers = 0 /\ s.app = a
         /\ \A f \in Filling : WellFormed(f.to) /\ WellFormed(f.from) /\ Carries(doc, f)
                                  => Fields(s) = f
<1> DEFINE kind == Handed(doc)
           e == Element(doc, Payload(doc, kind))
<1>1. kind \in Kinds /\ Found(doc, kind) # "nowhere" /\ (Owner(doc) = kind <=> ~Mixed(doc))
  BY OwnerHanded
<1>2. PICK type \in TypesRead(kind, e.attr["type"]) :
        s = [StanzaRead(a, doc, of, kind, type) EXCEPT !.owns = Owner(doc) = kind]
  BY DEF Dispatched
<1>3. s = [app |-> a, kind |-> kind, type |-> type,
           to |-> LoadJID(e.attr["to"]), from |-> LoadJID(e.attr["from"]),
           id |-> e.attr["id"], doc |-> doc, payload |-> Payload(doc, kind),
           owns |-> Owner(doc) = kind, of |-> of, answers |-> 0]
  BY <1>2 DEF StanzaRead
<1>4. /\ Payload(doc, kind) \in {"root", "inner"}
      /\ Payload(doc, kind) = "inner" => doc.inner # {}
      /\ e \in {doc.root} \cup doc.inner /\ e.name = kind
  <2> HIDE DEF kind
  <2> QED
    BY <1>1, FoundElement
<1>5. /\ doc \in Documents /\ e \in Elements /\ e.attr \in [Attributes -> Strings]
      /\ Proper(e.attr["from"]) /\ Proper(e.attr["to"])
  BY <1>4 DEF GoodDocument, ProperParts, Documents, Elements
<1>6. type \in TypesOf(kind) \cup {Unset} /\ type \in Types
  <2> HIDE DEF kind, e
  <2> QED
    BY <1>1, <1>2, TypesReadBack DEF Types
<1>7. /\ e.attr["from"] \in Strings /\ e.attr["to"] \in Strings /\ e.attr["id"] \in Strings
      /\ LoadJID(e.attr["from"]) \in JIDs /\ LoadJID(e.attr["to"]) \in JIDs
      /\ WellFormed(LoadJID(e.attr["from"])) /\ WellFormed(LoadJID(e.attr["to"]))
  BY <1>5, LoadJIDType DEF Attributes, Proper
<1>8. (Owner(doc) = kind) \in BOOLEAN
  OBVIOUS
<1>9. ASSUME NEW f \in Filling, WellFormed(f.to), WellFormed(f.from), Carries(doc, f)
      PROVE  Fields(s) = f
  <2>1. f.kind \in Kinds /\ f.to \in JIDs /\ f.from \in JIDs
        /\ f = [kind |-> f.kind, type |-> f.type, to |-> f.to, from |-> f.from, id |-> f.id]
    BY DEF Filling
  <2>2. /\ doc.root.name = f.kind /\ ~Mixed(doc) /\ f.type \in TypesOf(f.kind)
        /\ doc.root.attr["type"] = Text[f.kind][f.type]
        /\ doc.root.attr["from"] = GetFullJID(f.from)
        /\ doc.root.attr["to"] = GetFullJID(f.to) /\ doc.root.attr["id"] = f.id
    BY <1>9 DEF Carries
  <2>3. Found(doc, f.kind) = "root"
    BY <2>2 DEF Found
  <2>4. kind = f.kind
    BY <2>1, <2>2, <2>3 DEF Mixed, Kinds, Handed
  <2>5. e = doc.root
    BY <2>3, <2>4 DEF Payload, Element
  <2>6. type = f.type
    <3> HIDE DEF kind, e
    <3> QED
      BY <1>2, <2>1, <2>2, <2>4, <2>5, TypesReadBack
  <2>7. LoadJID(GetFullJID(f.to)) = f.to /\ LoadJID(GetFullJID(f.from)) = f.from
    BY <1>9, <2>1, RoundTrip
  <2> HIDE DEF kind, e
  <2>8. Fields(s) = [kind |-> f.kind, type |-> f.type, to |-> f.to, from |-> f.from, id |-> f.id]
    BY <1>3, <2>2, <2>4, <2>5, <2>6, <2>7 DEF Fields
  <2> QED
    BY <2>1, <2>8
<1> HIDE DEF kind, e
<1>10. s \in Objects
  BY <1>1, <1>3, <1>4, <1>5, <1>6, <1>7, <1>8 DEF Objects
<1>11. /\ s.type = type /\ s.kind = kind /\ s.doc = doc /\ s.payload = Payload(doc, kind)
       /\ s.owns = (Owner(doc) = kind) /\ s.to = LoadJID(e.attr["to"]) /\ s.from = LoadJID(e.attr["from"])
       /\ s.of = of /\ s.answers = 0 /\ s.app = a
  BY <1>3
<1>12. Element(s.doc, s.payload).name = s.kind
  BY <1>4, <1>11 DEF e
<1>13. GoodStanza(s)
  BY <1>1, <1>4, <1>6, <1>7, <1>10, <1>11, <1>12 DEF GoodStanza
<1> QED
  BY <1>9, <1>11, <1>13

(* A stanza with its type set, or the id of the one it answers, stays good.  *)
LEMMA ReadyGood ==
  ASSUME StanzasInv, NEW i \in 1 .. Len(stanzas), NEW s \in Ready(stanzas[i])
  PROVE  /\ GoodStanza(s) /\ s.app = stanzas[i].app /\ s.owns = stanzas[i].owns
         /\ s.of = stanzas[i].of /\ s.answers = stanzas[i].answers
         /\ s.to = stanzas[i].to /\ s.from = stanzas[i].from
<1> DEFINE o == stanzas[i]
<1>1. GoodStanza(o) /\ o \in Objects /\ o.answers \in Nat /\ o.answers < i /\ Len(stanzas) \in Nat
  BY DEF StanzasInv, GoodStanza, Objects
<1> DEFINE IDs == {o.id} \cup (IF o.answers = 0 THEN {} ELSE {stanzas[o.answers].id})
<1>2. \E type \in TypesOf(o.kind) \cup {o.type}, id \in IDs : s = Assigned(o, type, id)
  BY DEF Ready
<1>3. PICK type \in TypesOf(o.kind) \cup {o.type}, id \in IDs :
        s = [o EXCEPT !.type = type, !.id = id]
  BY <1>2 DEF Assigned
<1>4. id \in Strings
  <2>1. o.answers # 0 => o.answers \in 1 .. Len(stanzas)
    BY <1>1
  <2>2. o.answers # 0 => stanzas[o.answers] \in Objects
    BY <2>1 DEF StanzasInv, GoodStanza
  <2> QED
    BY <1>1, <1>3, <2>2 DEF Objects
<1>5. type \in TypesOf(o.kind) \cup {Unset} /\ type \in Types
  BY <1>1, <1>3 DEF GoodStanza, Types, Objects
<1> HIDE DEF o
<1>6. s \in Objects
  BY <1>1, <1>3, <1>4, <1>5 DEF Objects
<1>7. /\ s.type = type /\ s.kind = o.kind /\ s.doc = o.doc /\ s.payload = o.payload
      /\ s.owns = o.owns /\ s.to = o.to /\ s.from = o.from /\ s.app = o.app
      /\ s.of = o.of /\ s.answers = o.answers
  BY <1>1, <1>3 DEF Objects
<1> QED
  BY <1>1, <1>5, <1>6, <1>7 DEF GoodStanza, o

-----------------------------------------------------------------------------
(* The steps. *)

(* What ArrivesAsSent says of a step. *)
ArrivesStep ==
    \A i \in DOMAIN stanzas' \ DOMAIN stanzas :
        stanzas'[i].of # 0 /\ sent[stanzas'[i].of].complete =>
            Fields(stanzas'[i]) = sent[stanzas'[i].of].fields

(* A stanza put behind the others. *)
LEMMA AppendGood ==
  ASSUME StanzasInv, SentInv, sent' = sent, NEW s, GoodStanza(s), s.answers <= Len(stanzas), s.of <= Len(sent),
         stanzas' = Append(stanzas, s),
         s.of # 0 /\ sent[s.of].complete => Fields(s) = sent[s.of].fields
  PROVE  StanzasInv' /\ ArrivesStep
<1>1. s \in Objects /\ s.answers \in Nat /\ s.of \in Nat
  BY DEF GoodStanza, Objects
<1>2. /\ stanzas \in Seq(Objects) /\ Len(stanzas) \in Nat
      /\ \A i \in 1 .. Len(stanzas) :
            GoodStanza(stanzas[i]) /\ stanzas[i].answers < i /\ stanzas[i].of <= Len(sent)
  BY DEF StanzasInv
<1>3. /\ stanzas' \in Seq(Objects) /\ Len(stanzas') = Len(stanzas) + 1
      /\ \A i \in 1 .. Len(stanzas) : stanzas'[i] = stanzas[i]
      /\ stanzas'[Len(stanzas) + 1] = s
  BY <1>1, <1>2, AppendProperties
<1>4. ASSUME NEW i \in 1 .. Len(stanzas')
      PROVE  GoodStanza(stanzas'[i]) /\ stanzas'[i].answers < i /\ stanzas'[i].of <= Len(sent)
  <2>1. CASE i \in 1 .. Len(stanzas)
    BY <1>2, <1>3, <2>1
  <2>2. CASE i = Len(stanzas) + 1
    BY <1>1, <1>2, <1>3, <2>2
  <2> QED
    BY <1>2, <1>3, <2>1, <2>2
<1>5. StanzasInv'
  BY <1>3, <1>4 DEF StanzasInv
<1>6. \A i \in DOMAIN stanzas' \ DOMAIN stanzas : stanzas'[i] = s
  BY <1>2, <1>3
<1> QED
  BY <1>5, <1>6 DEF ArrivesStep

(* Constructing a stanza preserves the invariant. *)
LEMMA CreateStep ==
  ASSUME StanzaInv, NEW a \in Apps, NEW kind \in Kinds, NEW to \in JIDs, WellFormed(to),
         NEW answers \in 0 .. Len(stanzas), CreateStanza(a, kind, to, answers)
  PROVE  StanzaInv' /\ ArrivesStep
<1> DEFINE s == NewStanza(a, kind, to, answers)
<1>1. Len(stanzas) \in Nat /\ Len(sent) \in Nat /\ answers \in Nat /\ answers <= Len(stanzas)
  BY DEF StanzaInv, StanzasInv, SentInv
<1>2. GoodStanza(s) /\ s.answers = answers /\ s.of = 0
  BY <1>1, NewGood DEF StanzaInv
<1>3. stanzas' = Append(stanzas, s) /\ UNCHANGED <<bound, wire, sent, fault>>
  BY DEF CreateStanza
<1> HIDE DEF s
<1>4. StanzasInv' /\ ArrivesStep
  BY <1>1, <1>2, <1>3, AppendGood DEF StanzaInv
<1> QED
  BY <1>3, <1>4 DEF StanzaInv, BoundInv, SentInv, WireInv

(* So does a stanza to an address of the application's choice. *)
LEMMA WriteStep ==
  ASSUME StanzaInv, NEW a \in Apps, NEW kind \in Kinds, NEW t \in Targets, Write(a, kind, t)
  PROVE  StanzaInv' /\ ArrivesStep
<1>1. LoadJID(t) \in JIDs /\ WellFormed(LoadJID(t))
  BY StanzasAssumption, LoadJIDType DEF Proper
<1>2. 0 \in 0 .. Len(stanzas)
  BY DEF StanzaInv, StanzasInv
<1> QED
  BY <1>1, <1>2, CreateStep DEF Write

(* So does an answer, as the examples make it. *)
LEMMA AnswerStep ==
  ASSUME StanzaInv, NEW a \in Apps, NEW kind \in Kinds, NEW i \in DOMAIN stanzas, Answer(a, kind, i)
  PROVE  StanzaInv' /\ ArrivesStep
<1>1. i \in 0 .. Len(stanzas) /\ i \in 1 .. Len(stanzas)
  BY DEF StanzaInv, StanzasInv
<1>2. stanzas[i].from \in JIDs /\ WellFormed(stanzas[i].from)
  BY <1>1 DEF StanzaInv, StanzasInv, GoodStanza, Objects
<1> QED
  BY <1>1, <1>2, CreateStep DEF Answer

(* A document handed over. *)
LEMMA DispatchStep ==
  ASSUME StanzaInv, NEW a \in Apps, NEW doc, GoodDocument(doc), NEW of \in 0 .. Len(sent),
         of # 0 /\ sent[of].complete => Carries(doc, sent[of].fields),
         DispatchStanza(a, doc, of), sent' = sent
  PROVE  StanzasInv' /\ ArrivesStep
<1>1. CASE \E k \in Kinds : Found(doc, k) # "nowhere"
  <2>1. PICK s \in Dispatched(a, doc, of) : stanzas' = Append(stanzas, s)
    BY <1>1 DEF DispatchStanza
  <2>2. /\ of \in Nat /\ Len(stanzas) \in Nat /\ of <= Len(sent)
        /\ of # 0 => of \in 1 .. Len(sent)
    BY DEF StanzaInv, StanzasInv, SentInv
  <2>3. /\ GoodStanza(s) /\ s.of = of /\ s.answers = 0
        /\ \A f \in Filling : WellFormed(f.to) /\ WellFormed(f.from) /\ Carries(doc, f)
                                 => Fields(s) = f
    BY <1>1, <2>2, ReadGood
  <2>4. of # 0 => /\ sent[of].fields \in Filling
                  /\ WellFormed(sent[of].fields.to) /\ WellFormed(sent[of].fields.from)
    BY <2>2 DEF StanzaInv, SentInv, GoodRecord, Records
  <2>5. s.of # 0 /\ sent[s.of].complete => Fields(s) = sent[s.of].fields
    BY <2>3, <2>4
  <2>6. s.answers <= Len(stanzas) /\ s.of <= Len(sent)
    BY <2>2, <2>3
  <2> QED
    BY <2>1, <2>3, <2>5, <2>6, AppendGood DEF StanzaInv
<1>2. CASE ~\E k \in Kinds : Found(doc, k) # "nowhere"
  BY <1>2 DEF DispatchStanza, StanzaInv, StanzasInv, ArrivesStep
<1> QED
  BY <1>1, <1>2

(* Taking the first document off the wire leaves the others good. *)
LEMMA WireTail ==
  ASSUME WireInv, wire # <<>>, wire' = Tail(wire), sent' = sent
  PROVE  WireInv' /\ Head(wire) = wire[1] /\ 1 \in 1 .. Len(wire)
<1>1. /\ Tail(wire) \in Seq([doc : Documents, of : Nat]) /\ Len(Tail(wire)) = Len(wire) - 1
      /\ \A i \in 1 .. Len(Tail(wire)) : Tail(wire)[i] = wire[i + 1]
      /\ Len(wire) \in Nat /\ Len(wire) # 0
  BY HeadTailProperties DEF WireInv
<1>2. \A i \in 1 .. Len(wire') : i + 1 \in 1 .. Len(wire) /\ wire'[i] = wire[i + 1]
  BY <1>1
<1> QED
  BY <1>1, <1>2 DEF WireInv

(* DispatchStanza hands over what another application sent. *)
LEMMA ArriveStep ==
  ASSUME StanzaInv, NEW a \in Apps, Arrive(a)
  PROVE  StanzaInv' /\ ArrivesStep
<1> DEFINE m == Head(wire)
<1>1. /\ wire # <<>> /\ wire' = Tail(wire) /\ UNCHANGED <<bound, sent, fault>>
      /\ DispatchStanza(a, m.doc, m.of)
  BY DEF Arrive
<1>2. WireInv' /\ m = wire[1] /\ 1 \in 1 .. Len(wire)
  BY <1>1, WireTail DEF StanzaInv
<1> HIDE DEF m
<1>3. /\ GoodDocument(m.doc) /\ m.of \in 1 .. Len(sent)
      /\ sent[m.of].complete => Carries(m.doc, sent[m.of].fields)
  BY <1>2 DEF StanzaInv, WireInv
<1>4. m.of \in 0 .. Len(sent)
  BY <1>3 DEF StanzaInv, SentInv
<1>5. StanzasInv' /\ ArrivesStep
  BY <1>1, <1>3, <1>4, DispatchStep
<1> QED
  BY <1>1, <1>2, <1>5 DEF StanzaInv, BoundInv, SentInv

(* DispatchStanza hands over what comes from elsewhere. *)
LEMMA ForeignStep ==
  ASSUME StanzaInv, NEW a \in Apps, NEW doc \in Foreign, ArriveForeign(a, doc)
  PROVE  StanzaInv' /\ ArrivesStep
<1>1. GoodDocument(doc)
  BY StanzasAssumption DEF GoodDocument
<1>2. DispatchStanza(a, doc, 0) /\ UNCHANGED <<bound, wire, sent, fault>>
  BY DEF ArriveForeign
<1>3. 0 \in 0 .. Len(sent)
  BY DEF StanzaInv, SentInv
<1>4. StanzasInv' /\ ArrivesStep
  BY <1>1, <1>2, <1>3, DispatchStep
<1> QED
  BY <1>2, <1>4 DEF StanzaInv, BoundInv, SentInv, WireInv

(* Steps that leave the stanzas alone. *)
LEMMA QuietStep ==
  ASSUME StanzaInv,
         \/ Bounce \/ UNCHANGED vars
         \/ \E i \in DOMAIN stanzas : SendFreed(i)
         \/ \E a \in Apps : \E s \in Addresses[a] : CheckForBindSuccess(a, s)
  PROVE  StanzaInv' /\ ArrivesStep
<1>1. ASSUME stanzas' = stanzas PROVE ArrivesStep
  BY <1>1 DEF ArrivesStep
<1>2. CASE Bounce
  <2>1. /\ wire # <<>> /\ wire' = Tail(wire) /\ UNCHANGED <<bound, stanzas, sent, fault>>
    BY <1>2 DEF Bounce
  <2>2. WireInv'
    BY <2>1, WireTail DEF StanzaInv
  <2> QED
    BY <1>1, <2>1, <2>2 DEF StanzaInv, BoundInv, SentInv, StanzasInv
<1>3. CASE UNCHANGED vars
  BY <1>1, <1>3 DEF vars, StanzaInv, BoundInv, SentInv, StanzasInv, WireInv
<1>4. CASE \E i \in DOMAIN stanzas : SendFreed(i)
  BY <1>1, <1>4 DEF SendFreed, StanzaInv, BoundInv, SentInv, StanzasInv, WireInv
<1>5. ASSUME NEW a \in Apps, NEW s \in Addresses[a], CheckForBindSuccess(a, s)
      PROVE  StanzaInv' /\ ArrivesStep
  <2>1. bound' = [bound EXCEPT ![a] = s] /\ UNCHANGED <<stanzas, wire, sent, fault>>
    BY <1>5 DEF CheckForBindSuccess
  <2>2. s \in Strings
    BY StanzasAssumption
  <2>3. BoundInv'
    BY <2>1, <2>2 DEF StanzaInv, BoundInv
  <2> QED
    BY <1>1, <2>1, <2>3 DEF StanzaInv, SentInv, StanzasInv, WireInv
<1> QED
  BY <1>2, <1>3, <1>4, <1>5

(* SendStanza puts a document on the wire that carries the fields, and     *)
(* leaves the stanza good to be sent again.                                *)
LEMMA SendStep ==
  ASSUME StanzaInv, NEW i \in DOMAIN stanzas, SendStanza(i)
  PROVE  StanzaInv' /\ ArrivesStep
<1>1. i \in 1 .. Len(stanzas) /\ Len(stanzas) \in Nat /\ Len(sent) \in Nat /\ stanzas[i].owns
  BY DEF StanzaInv, StanzasInv, SentInv, SendStanza
<1>2. PICK s \in Ready(stanzas[i]) :
        /\ stanzas' = [stanzas EXCEPT ![i] = [s EXCEPT !.doc = Filled(s)]]
        /\ wire' = Append(wire, [doc |-> Filled(s), of |-> Len(sent) + 1])
        /\ sent' = Append(sent, [by |-> s.app, complete |-> Complete(s), answers |-> s.answers,
                                 fields |-> [Fields(s) EXCEPT !.from = MyJID(s.app)]])
  BY DEF SendStanza
<1> DEFINE doc == Filled(s)
           o == [s EXCEPT !.doc = doc]
           f == [Fields(s) EXCEPT !.from = MyJID(s.app)]
           m == [doc |-> doc, of |-> Len(sent) + 1]
           r == [by |-> s.app, complete |-> Complete(s), answers |-> s.answers, fields |-> f]
<1>3. /\ GoodStanza(s) /\ s \in Objects /\ s.app \in Apps /\ s.owns
      /\ s.of = stanzas[i].of /\ s.answers = stanzas[i].answers
      /\ s.answers < i /\ s.of <= Len(sent) /\ s.answers \in Nat /\ s.of \in Nat
  <2>1. /\ GoodStanza(s) /\ s.owns /\ s.of = stanzas[i].of /\ s.answers = stanzas[i].answers
    BY <1>1, ReadyGood DEF StanzaInv
  <2> QED
    BY <1>1, <2>1 DEF GoodStanza, Objects, StanzaInv, StanzasInv
<1>4. /\ GoodDocument(doc) /\ (s.owns <=> ~Mixed(doc))
      /\ s.payload = "inner" => doc.inner # {}
      /\ Element(doc, s.payload).name = s.kind
      /\ Complete(s) => Carries(doc, f)
  BY <1>3, FilledGood DEF StanzaInv
<1>5. GoodRecord(r)
  <2>1. /\ MyJID(s.app) \in JIDs /\ WellFormed(MyJID(s.app))
        /\ s.kind \in Kinds /\ s.type \in Types /\ s.to \in JIDs /\ s.id \in Strings
        /\ WellFormed(s.to)
    BY <1>3, MyJIDGood DEF StanzaInv, GoodStanza, Objects
  <2>2. f = [kind |-> s.kind, type |-> s.type, to |-> s.to, from |-> MyJID(s.app), id |-> s.id]
    BY DEF Fields
  <2> HIDE DEF f
  <2>3. f \in Filling /\ WellFormed(f.to) /\ WellFormed(f.from)
    BY <2>1, <2>2 DEF Filling
  <2>4. Complete(s) \in BOOLEAN
    BY DEF Complete
  <2> QED
    BY <1>3, <2>3, <2>4 DEF GoodRecord, Records
<1>6. GoodStanza(o) /\ o \in Objects /\ o.of = s.of /\ o.answers = s.answers
  <2>1. doc \in Documents
    BY <1>4 DEF GoodDocument
  <2> HIDE DEF doc
  <2>2. /\ o \in Objects /\ o.doc = doc /\ o.kind = s.kind /\ o.type = s.type /\ o.to = s.to
        /\ o.from = s.from /\ o.payload = s.payload /\ o.owns = s.owns
        /\ o.of = s.of /\ o.answers = s.answers
    BY <1>3, <2>1 DEF Objects
  <2> HIDE DEF o
  <2> QED
    BY <1>3, <1>4, <2>2 DEF GoodStanza
<1>7. m \in [doc : Documents, of : Nat] /\ r \in Records
  BY <1>1, <1>4, <1>5 DEF GoodDocument, GoodRecord
<1>8. m.doc = doc /\ m.of = Len(sent) + 1 /\ r.complete = Complete(s) /\ r.fields = f
  OBVIOUS
<1>9. /\ stanzas' = [stanzas EXCEPT ![i] = o] /\ wire' = Append(wire, m) /\ sent' = Append(sent, r)
      /\ UNCHANGED <<bound, fault>>
  BY <1>2 DEF SendStanza
<1> HIDE DEF doc, o, f, m, r
<1>10. /\ sent' \in Seq(Records) /\ Len(sent') = Len(sent) + 1
       /\ \A j \in 1 .. Len(sent) : sent'[j] = sent[j]
       /\ sent'[Len(sent) + 1] = r
  BY <1>7, <1>9, AppendProperties DEF StanzaInv, SentInv
<1>11. SentInv'
  BY <1>1, <1>5, <1>10 DEF StanzaInv, SentInv
<1>12. /\ stanzas' \in Seq(Objects) /\ Len(stanzas') = Len(stanzas)
       /\ \A j \in 1 .. Len(stanzas) : stanzas'[j] = IF j = i THEN o ELSE stanzas[j]
       /\ DOMAIN stanzas' = DOMAIN stanzas
  BY <1>1, <1>6, <1>9 DEF StanzaInv, StanzasInv
<1>13. StanzasInv'
  <2>1. ASSUME NEW j \in 1 .. Len(stanzas)
        PROVE  /\ GoodStanza(stanzas'[j]) /\ stanzas'[j].answers < j
               /\ stanzas'[j].of <= Len(sent) + 1
    <3>1. CASE j = i
      BY <1>1, <1>3, <1>6, <1>12, <3>1
    <3>2. CASE j # i
      <4>1. GoodStanza(stanzas[j]) /\ stanzas[j].answers < j /\ stanzas[j].of <= Len(sent)
            /\ stanzas[j].of \in Nat
        BY DEF StanzaInv, StanzasInv, Objects, GoodStanza
      <4> QED
        BY <1>1, <1>12, <3>2, <4>1
    <3> QED
      BY <3>1, <3>2
  <2> QED
    BY <1>10, <1>12, <2>1 DEF StanzasInv
<1>14. /\ wire' \in Seq([doc : Documents, of : Nat]) /\ Len(wire') = Len(wire) + 1
       /\ \A j \in 1 .. Len(wire) : wire'[j] = wire[j]
       /\ wire'[Len(wire) + 1] = m /\ Len(wire) \in Nat
  BY <1>7, <1>9, AppendProperties DEF StanzaInv, WireInv
<1>15. WireInv'
  <2>1. ASSUME NEW j \in 1 .. Len(wire')
        PROVE  /\ GoodDocument(wire'[j].doc) /\ wire'[j].of \in 1 .. Len(sent')
               /\ sent'[wire'[j].of].complete => Carries(wire'[j].doc, sent'[wire'[j].of].fields)
    <3>1. CASE j \in 1 .. Len(wire)
      <4>1. /\ GoodDocument(wire[j].doc) /\ wire[j].of \in 1 .. Len(sent)
            /\ sent[wire[j].of].complete => Carries(wire[j].doc, sent[wire[j].of].fields)
        BY <3>1 DEF StanzaInv, WireInv
      <4> QED
        BY <1>1, <1>10, <1>14, <3>1, <4>1
    <3>2. CASE j = Len(wire) + 1
      BY <1>1, <1>4, <1>8, <1>10, <1>14, <3>2
    <3> QED
      BY <1>14, <3>1, <3>2
  <2> QED
    BY <1>14, <2>1 DEF WireInv
<1>16. ArrivesStep
  BY <1>12 DEF ArrivesStep
<1> QED
  BY <1>9, <1>11, <1>13, <1>15, <1>16 DEF StanzaInv, BoundInv

(* The invariant holds before there is any stanza. *)
LEMMA InitInv == Init => StanzaInv
<1> SUFFICES ASSUME Init PROVE StanzaInv
  OBVIOUS
<1>1. BoundInv
  <2>1. bound \in [Apps -> UNION {Addresses[a] : a \in Apps}] /\ \A a \in Apps : bound[a] \in Addresses[a]
    BY DEF Init
  <2>2. \A a \in Apps : Addresses[a] \subseteq Strings
    BY StanzasAssumption
  <2> QED
    BY <2>1, <2>2 DEF BoundInv
<1>2. /\ stanzas = <<>> /\ sent = <<>> /\ wire = <<>> /\ fault = FALSE
  BY DEF Init
<1>3. StanzasInv /\ SentInv /\ WireInv
  BY <1>2 DEF StanzasInv, SentInv, WireInv
<1> QED
  BY <1>1, <1>2, <1>3 DEF StanzaInv

(* Every step preserves it, and hands over what was sent. *)
LEMMA Step == StanzaInv /\ [Next]_vars => StanzaInv' /\ ArrivesStep
<1> SUFFICES ASSUME StanzaInv, [Next]_vars PROVE StanzaInv' /\ ArrivesStep
  OBVIOUS
<1>1. CASE Creates
  BY <1>1, WriteStep, AnswerStep DEF Creates
<1>2. CASE Sends
  BY <1>2, SendStep, QuietStep DEF Sends
<1>3. CASE Binds
  BY <1>3, QuietStep DEF Binds
<1>4. CASE Arrivals
  BY <1>4, ArriveStep, ForeignStep, QuietStep DEF Arrivals
<1>5. CASE UNCHANGED vars
  BY <1>5, QuietStep
<1> QED
  BY <1>1, <1>2, <1>3, <1>4, <1>5 DEF Next

(* Documents, stanzas and what is on the wire stay good, whatever is        *)
(* created, answered, sent again, bound anew and dispatched: the Stanza     *)
(* classes and SendStanza, DispatchStanza and CheckForBindSuccess of        *)
(* Connection.cpp.                                                         *)
THEOREM Invariance == Spec => []StanzaInv
<1>1. Init => StanzaInv
  BY InitInv
<1>2. StanzaInv /\ [Next]_vars => StanzaInv'
  BY Step
<1> QED
  BY <1>1, <1>2, PTL DEF Spec

(* Every variable keeps its type: the objects of Stanza.hpp, also those     *)
(* whose IQType was never set, and what Connection.cpp sends of them.       *)
THEOREM TypeCorrect == Spec => []TypeOK
<1>1. StanzaInv => TypeOK
  <2> SUFFICES ASSUME StanzaInv PROVE TypeOK
    OBVIOUS
  <2>1. /\ DOMAIN stanzas = 1 .. Len(stanzas) /\ DOMAIN wire = 1 .. Len(wire)
        /\ DOMAIN sent = 1 .. Len(sent)
    BY DEF StanzaInv, StanzasInv, WireInv, SentInv
  <2>2. \A i \in DOMAIN stanzas :
          /\ stanzas[i].type \in TypesOf(stanzas[i].kind) \cup {Unset}
          /\ stanzas[i].answers < i /\ stanzas[i].of <= Len(sent)
    BY <2>1 DEF StanzaInv, StanzasInv, GoodStanza
  <2>3. \A i \in DOMAIN wire : wire[i].of \in DOMAIN sent
    BY <2>1 DEF StanzaInv, WireInv
  <2> QED
    BY <2>2, <2>3 DEF TypeOK, StanzaInv, BoundInv, StanzasInv, WireInv, SentInv
<1> QED
  BY <1>1, Invariance, PTL

(* What an application is handed has the kind, type, id and addresses it    *)
(* was sent with: ProvisionOutgoingStanza and SendStanza at one end, the    *)
(* constructors of Stanza.hpp at the other.                                *)
THEOREM Faithful == Spec => ArrivesAsSent
<1>1. StanzaInv /\ [Next]_vars => ArrivesStep
  BY Step
<1>2. ArrivesStep =>
        \A i \in DOMAIN stanzas' \ DOMAIN stanzas :
            LET s == stanzas'[i]
            IN  s.of # 0 /\ sent[s.of].complete => Fields(s) = sent[s.of].fields
  BY DEF ArrivesStep
<1> QED
  BY <1>1, <1>2, Invariance, PTL DEF ArrivesAsSent, Spec
-----------------------------------------------------------------------------
(* Answers. *)

(* A bare address reads as the address without its resource. *)
LEMMA WithoutResource ==
  ASSUME NEW j \in JIDs, WellFormed(j)
  PROVE  LoadJID(GetBareJID(j)) = [j EXCEPT !.resource = <<>>]
<1> DEFINE b == [j EXCEPT !.resource = <<>>]
<1>1. <<>> \in Strings
  BY DEF Strings
<1>2. b \in JIDs /\ b.user = j.user /\ b.domain = j.domain /\ b.resource = <<>>
  BY <1>1 DEF JIDs
<1> HIDE DEF b
<1>3. WellFormed(b) /\ GetFullJID(b) = GetBareJID(b) /\ GetBareJID(b) = GetBareJID(j)
  BY <1>2 DEF WellFormed, GetFullJID, GetBareJID
<1>4. LoadJID(GetFullJID(b)) = b
  BY <1>2, <1>3, RoundTrip
<1> QED
  BY <1>3, <1>4 DEF b

(* A document to an address of an application goes to that application.     *)
LEMMA ReachesItsOwner ==
  ASSUME BoundInv, NEW a \in Apps, NEW b \in Apps, NEW s \in Addresses[b],
         NEW doc, Addressed(a, doc), doc.root.attr["to"] = GetFullJID(LoadJID(s))
  PROVE  a = b
<1> DEFINE j == LoadJID(s)
           i == MyJID(a)
<1>1. j \in JIDs /\ WellFormed(j) /\ i \in JIDs /\ WellFormed(i)
  <2>1. Proper(s)
    BY StanzasAssumption
  <2> QED
    BY <2>1, LoadJIDType, MyJIDGood DEF Proper
<1>2. i = LoadJID(bound[a]) /\ bound[a] \in Addresses[a]
  BY DEF MyJID, BoundInv
<1>3. GetFullJID(j) = bound[a] \/ GetFullJID(j) = GetBareJID(i)
  BY DEF Addressed
<1> HIDE DEF i
<1>4. GetBareJID(j) = GetBareJID(i)
  <2> HIDE DEF j
  <2>1. LoadJID(GetFullJID(j)) = j
    BY <1>1, RoundTrip
  <2>2. CASE GetFullJID(j) = bound[a]
    BY <1>2, <2>1, <2>2
  <2>3. CASE GetFullJID(j) = GetBareJID(i)
    <3>1. j = [i EXCEPT !.resource = <<>>]
      BY <1>1, <2>1, <2>3, WithoutResource
    <3>2. j.user = i.user /\ j.domain = i.domain
      BY <1>1, <3>1 DEF JIDs
    <3> QED
      BY <3>2 DEF GetBareJID
  <2> QED
    BY <1>3, <2>2, <2>3
<1> QED
  BY <1>2, <1>4, StanzasAssumption

(* What AnswersReachTheAsker says of one stanza. *)
Reaches(s) ==
    LET q == IF s.of = 0 THEN 0 ELSE sent[s.of].answers
    IN  q # 0 /\ stanzas[q].of # 0 /\ sent[stanzas[q].of].complete /\ sent[s.of].complete
          => s.app = sent[stanzas[q].of].by

(* The inductive form of AnswersReachTheAsker. *)
Asking == AskInv /\ \A i \in 1 .. Len(stanzas) : Reaches(stanzas[i])

(* A stanza put behind the others keeps Asking if it does so itself. *)
LEMMA AskAppend ==
  ASSUME StanzaInv, Asking, sent' = sent, NEW s \in Objects, stanzas' = Append(stanzas, s),
         s.answers # 0 => /\ s.answers \in 1 .. Len(stanzas)
                          /\ s.to = stanzas[s.answers].from,
         s.of # 0 => s.of \in 1 .. Len(sent),
         s.of # 0 /\ sent[s.of].complete => s.from = sent[s.of].fields.from,
         Reaches(s)
  PROVE  Asking'
<1>1. /\ Len(stanzas) \in Nat /\ Len(stanzas') = Len(stanzas) + 1
      /\ \A i \in 1 .. Len(stanzas) : stanzas'[i] = stanzas[i] /\ i \in 1 .. Len(stanzas')
      /\ stanzas'[Len(stanzas) + 1] = s
  BY AppendProperties DEF StanzaInv, StanzasInv
<1>2. \A k \in 1 .. Len(sent) :
        sent[k].answers # 0 => sent[k].answers \in 1 .. Len(stanzas)
  BY DEF Asking, AskInv
<1>3. ASSUME NEW i \in 1 .. Len(stanzas)
      PROVE  /\ stanzas[i].of # 0 => stanzas[i].of \in 1 .. Len(sent)
             /\ stanzas[i].answers # 0 => stanzas[i].answers \in 1 .. Len(stanzas)
  BY <1>1 DEF StanzaInv, StanzasInv, GoodStanza, Objects
<1>4. ASSUME NEW o, o.of # 0 => o.of \in 1 .. Len(sent), Reaches(o)
      PROVE  Reaches(o)'
  <2> DEFINE q == IF o.of = 0 THEN 0 ELSE sent[o.of].answers
  <2>1. q # 0 => q \in 1 .. Len(stanzas) /\ stanzas'[q] = stanzas[q]
    BY <1>1, <1>2, <1>4
  <2> QED
    BY <1>4, <2>1 DEF Reaches
<1>5. ASSUME NEW i \in 1 .. Len(stanzas') PROVE Reaches(stanzas[i])' 
  <2>1. CASE i \in 1 .. Len(stanzas)
    <3>1. Reaches(stanzas[i]) /\ stanzas'[i] = stanzas[i]
      BY <1>1, <2>1 DEF Asking
    <3> QED
      BY <1>3, <1>4, <2>1, <3>1 DEF Reaches
  <2>2. CASE i = Len(stanzas) + 1
    <3>1. stanzas'[i] = s /\ Reaches(s)'
      BY <1>1, <1>4, <2>2
    <3> QED
      BY <3>1 DEF Reaches
  <2>3. i \in 1 .. Len(stanzas) \/ i = Len(stanzas) + 1
    BY <1>1
  <2> QED
    BY <2>1, <2>2, <2>3
<1>6. ASSUME NEW i \in 1 .. Len(stanzas')
      PROVE  /\ stanzas'[i].answers # 0 => stanzas'[i].to = stanzas'[stanzas'[i].answers].from
             /\ stanzas'[i].of # 0 /\ sent[stanzas'[i].of].complete =>
                   stanzas'[i].from = sent[stanzas'[i].of].fields.from
  <2>1. CASE i \in 1 .. Len(stanzas)
    BY <1>1, <1>3, <2>1 DEF Asking, AskInv
  <2>2. CASE i = Len(stanzas) + 1
    BY <1>1, <2>2
  <2>3. i \in 1 .. Len(stanzas) \/ i = Len(stanzas) + 1
    BY <1>1
  <2> QED
    BY <2>1, <2>2, <2>3
<1>7. AskInv'
  BY <1>1, <1>2, <1>6 DEF Asking, AskInv
<1> QED
  BY <1>5, <1>7 DEF Asking

(* A stanza made for an answer goes to the From of what it answers. *)
LEMMA AskCreate ==
  ASSUME StanzaInv, Asking, NEW a \in Apps, NEW kind \in Kinds, NEW to \in JIDs, WellFormed(to),
         NEW answers \in 0 .. Len(stanzas), answers # 0 => to = stanzas[answers].from,
         CreateStanza(a, kind, to, answers)
  PROVE  Asking'
<1> DEFINE s == NewStanza(a, kind, to, answers)
<1>1. Len(stanzas) \in Nat /\ answers \in Nat
  BY DEF StanzaInv, StanzasInv
<1>2. s \in Objects /\ s.answers = answers /\ s.of = 0 /\ s.to = to
  BY <1>1, NewGood DEF StanzaInv, GoodStanza
<1>3. stanzas' = Append(stanzas, s) /\ sent' = sent
  BY DEF CreateStanza
<1> HIDE DEF s
<1>4. Reaches(s)
  BY <1>2 DEF Reaches
<1> QED
  BY <1>1, <1>2, <1>3, <1>4, AskAppend

(* A document that answers one from this library is handed over by the      *)
(* application that asked, for it goes to the address it asked from.        *)
LEMMA AskDispatch ==
  ASSUME StanzaInv, Asking, NEW a \in Apps, NEW doc, GoodDocument(doc), NEW of \in 0 .. Len(sent),
         of # 0 => Addressed(a, doc),
         of # 0 /\ sent[of].complete => Carries(doc, sent[of].fields),
         DispatchStanza(a, doc, of), sent' = sent
  PROVE  Asking'
<1>1. CASE \E k \in Kinds : Found(doc, k) # "nowhere"
  <2>1. PICK s \in Dispatched(a, doc, of) : stanzas' = Append(stanzas, s)
    BY <1>1 DEF DispatchStanza
  <2>2. /\ of \in Nat /\ Len(stanzas) \in Nat
        /\ of # 0 => of \in 1 .. Len(sent)
    BY DEF StanzaInv, StanzasInv, SentInv
  <2>3. /\ s \in Objects /\ s.of = of /\ s.answers = 0 /\ s.app = a
        /\ \A f \in Filling : WellFormed(f.to) /\ WellFormed(f.from) /\ Carries(doc, f)
                                 => Fields(s) = f
    BY <1>1, <2>2, ReadGood DEF GoodStanza
  <2>4. of # 0 => /\ sent[of].fields \in Filling
                  /\ WellFormed(sent[of].fields.to) /\ WellFormed(sent[of].fields.from)
    BY <2>2 DEF StanzaInv, SentInv, GoodRecord, Records
  <2>5. s.of # 0 /\ sent[s.of].complete => s.from = sent[s.of].fields.from
    <3>1. ASSUME s.of # 0, sent[s.of].complete PROVE Fields(s) = sent[s.of].fields
      BY <2>3, <2>4, <3>1
    <3>2. Fields(s).from = s.from
      BY DEF Fields
    <3> QED
      BY <3>1, <3>2
  <2>6. Reaches(s)
    <3> DEFINE q == sent[of].answers
               k == stanzas[q].of
    <3>1. SUFFICES ASSUME of # 0, q # 0, k # 0, sent[k].complete, sent[of].complete
                   PROVE  a = sent[k].by
      BY <2>3 DEF Reaches
    <3>2. q \in 1 .. Len(stanzas) /\ sent[of].fields.to = stanzas[q].from
      BY <2>2, <3>1 DEF Asking, AskInv
    <3>3. stanzas[q].from = sent[k].fields.from
      BY <3>1, <3>2 DEF Asking, AskInv
    <3>4. k \in 1 .. Len(sent) /\ sent[k].by \in Apps
      BY <3>1, <3>2 DEF StanzaInv, StanzasInv, SentInv, GoodStanza, GoodRecord, Objects, Records
    <3>5. PICK t \in Addresses[sent[k].by] : sent[k].fields.from = LoadJID(t)
      BY <3>4 DEF Asking, AskInv
    <3>6. doc.root.attr["to"] = GetFullJID(sent[of].fields.to)
      BY <3>1 DEF Carries
    <3>7. doc.root.attr["to"] = GetFullJID(LoadJID(t))
      BY <3>2, <3>3, <3>5, <3>6
    <3> QED
      BY <3>1, <3>4, <3>7, ReachesItsOwner DEF StanzaInv
  <2> QED
    BY <2>1, <2>2, <2>3, <2>5, <2>6, AskAppend
<1>2. CASE ~\E k \in Kinds : Found(doc, k) # "nowhere"
  BY <1>2 DEF DispatchStanza, Asking, AskInv, Reaches
<1> QED
  BY <1>1, <1>2

(* A stanza that is sent keeps what it answers, whom it goes to and whom it *)
(* is from, and goes out with the address its application is bound to.      *)
LEMMA AskSend ==
  ASSUME StanzaInv, Asking, NEW i \in DOMAIN stanzas, SendStanza(i)
  PROVE  Asking'
<1>1. i \in 1 .. Len(stanzas) /\ Len(stanzas) \in Nat /\ Len(sent) \in Nat
  BY DEF StanzaInv, StanzasInv, SentInv
<1>2. PICK s \in Ready(stanzas[i]) :
        /\ stanzas' = [stanzas EXCEPT ![i] = [s EXCEPT !.doc = Filled(s)]]
        /\ sent' = Append(sent, [by |-> s.app, complete |-> Complete(s), answers |-> s.answers,
                                 fields |-> [Fields(s) EXCEPT !.from = MyJID(s.app)]])
  BY DEF SendStanza
<1> DEFINE o == [s EXCEPT !.doc = Filled(s)]
           r == [by |-> s.app, complete |-> Complete(s), answers |-> s.answers,
                 fields |-> [Fields(s) EXCEPT !.from = MyJID(s.app)]]
<1>3. /\ s \in Objects /\ s.app = stanzas[i].app /\ s.of = stanzas[i].of
      /\ s.answers = stanzas[i].answers /\ s.to = stanzas[i].to /\ s.from = stanzas[i].from
  BY <1>1, ReadyGood DEF StanzaInv, GoodStanza
<1>4. /\ o.app = stanzas[i].app /\ o.of = stanzas[i].of /\ o.answers = stanzas[i].answers
      /\ o.to = stanzas[i].to /\ o.from = stanzas[i].from
  BY <1>3 DEF Objects
<1>5. /\ r.by = stanzas[i].app /\ r.answers = stanzas[i].answers
      /\ r.fields.to = stanzas[i].to /\ r.fields.from = MyJID(r.by)
  BY <1>3 DEF Fields
<1>6. stanzas' = [stanzas EXCEPT ![i] = o] /\ sent' = Append(sent, r)
  BY <1>2
<1> HIDE DEF o, r
<1>7. ASSUME NEW j \in 1 .. Len(stanzas)
      PROVE  /\ stanzas[j].of \in Nat /\ stanzas[j].of <= Len(sent)
             /\ stanzas[j].answers \in Nat /\ stanzas[j].answers < j
             /\ stanzas[j].app \in Apps
             /\ stanzas[j].of # 0 => stanzas[j].of \in 1 .. Len(sent)
             /\ stanzas[j].answers # 0 => stanzas[j].answers \in 1 .. Len(stanzas)
  BY <1>1 DEF StanzaInv, StanzasInv, GoodStanza, Objects
<1>8. /\ Len(stanzas') = Len(stanzas)
      /\ \A j \in 1 .. Len(stanzas) :
           /\ stanzas'[j].app = stanzas[j].app /\ stanzas'[j].of = stanzas[j].of
           /\ stanzas'[j].answers = stanzas[j].answers
           /\ stanzas'[j].to = stanzas[j].to /\ stanzas'[j].from = stanzas[j].from
  <2>1. /\ Len(stanzas') = Len(stanzas)
        /\ \A j \in 1 .. Len(stanzas) : stanzas'[j] = IF j = i THEN o ELSE stanzas[j]
    BY <1>1, <1>6 DEF StanzaInv, StanzasInv
  <2> QED
    BY <1>4, <2>1
<1>9. /\ Len(sent') = Len(sent) + 1 /\ sent'[Len(sent) + 1] = r
      /\ \A k \in 1 .. Len(sent) : sent'[k] = sent[k]
  BY <1>6, AppendProperties DEF StanzaInv, SentInv
<1>10. ASSUME NEW k \in 1 .. Len(sent')
       PROVE  /\ \E t \in Addresses[sent'[k].by] : sent'[k].fields.from = LoadJID(t)
              /\ sent'[k].answers # 0 => /\ sent'[k].answers \in 1 .. Len(stanzas)
                                         /\ sent'[k].fields.to = stanzas[sent'[k].answers].from
  <2>1. CASE k \in 1 .. Len(sent)
    BY <1>9, <2>1 DEF Asking, AskInv
  <2>2. CASE k = Len(sent) + 1
    <3>1. sent'[k] = r /\ r.by \in Apps
      BY <1>1, <1>5, <1>7, <1>9, <2>2
    <3>2. bound[r.by] \in Addresses[r.by] /\ r.fields.from = LoadJID(bound[r.by])
      BY <1>5, <3>1 DEF StanzaInv, BoundInv, MyJID
    <3>3. r.answers # 0 => /\ r.answers \in 1 .. Len(stanzas)
                           /\ r.fields.to = stanzas[r.answers].from
      BY <1>1, <1>5, <1>7 DEF Asking, AskInv
    <3> QED
      BY <3>1, <3>2, <3>3
  <2>3. k \in 1 .. Len(sent) \/ k = Len(sent) + 1
    BY <1>1, <1>9
  <2> QED
    BY <2>1, <2>2, <2>3
<1>11. ASSUME NEW j \in 1 .. Len(stanzas)
       PROVE  /\ stanzas'[j].answers # 0 => stanzas'[j].to = stanzas'[stanzas'[j].answers].from
              /\ stanzas'[j].of # 0 /\ sent'[stanzas'[j].of].complete =>
                    stanzas'[j].from = sent'[stanzas'[j].of].fields.from
  BY <1>7, <1>8, <1>9 DEF Asking, AskInv
<1>12. ASSUME NEW j \in 1 .. Len(stanzas) PROVE Reaches(stanzas[j])'
  <2> DEFINE q == IF stanzas[j].of = 0 THEN 0 ELSE sent[stanzas[j].of].answers
  <2>1. /\ stanzas[j].of # 0 => /\ stanzas[j].of \in 1 .. Len(sent)
                                /\ sent'[stanzas[j].of] = sent[stanzas[j].of]
        /\ stanzas'[j].of = stanzas[j].of /\ stanzas'[j].app = stanzas[j].app
    BY <1>7, <1>8, <1>9
  <2>2. q = IF stanzas'[j].of = 0 THEN 0 ELSE sent'[stanzas'[j].of].answers
    BY <2>1
  <2>3. q # 0 => q \in 1 .. Len(stanzas)
    BY <2>1 DEF Asking, AskInv
  <2> HIDE DEF q
  <2>4. q # 0 => /\ stanzas'[q].of = stanzas[q].of
                 /\ stanzas[q].of # 0 => sent'[stanzas[q].of] = sent[stanzas[q].of]
    BY <1>7, <1>8, <1>9, <2>3
  <2>5. q # 0 /\ stanzas[q].of # 0 /\ sent[stanzas[q].of].complete /\ sent[stanzas[j].of].complete
          => stanzas[j].app = sent[stanzas[q].of].by
    BY DEF Asking, Reaches, q
  <2>6. q # 0 => stanzas[j].of # 0
    BY DEF q
  <2>7. q # 0 /\ stanzas'[q].of # 0 /\ sent'[stanzas'[q].of].complete /\ sent'[stanzas'[j].of].complete
          => stanzas'[j].app = sent'[stanzas'[q].of].by
    BY <2>1, <2>4, <2>5, <2>6
  <2> QED
    BY <2>2, <2>7 DEF Reaches
<1>13. AskInv'
  BY <1>8, <1>10, <1>11 DEF AskInv
<1> QED
  BY <1>8, <1>12, <1>13 DEF Asking

(* Asking holds at first and is kept by every step. *)
LEMMA AskStep == StanzaInv /\ Asking /\ [Next]_vars => Asking'
<1> SUFFICES ASSUME StanzaInv, Asking, [Next]_vars PROVE Asking'
  OBVIOUS
<1>1. ASSUME stanzas' = stanzas, sent' = sent PROVE Asking'
  BY <1>1 DEF Asking, AskInv, Reaches
<1>2. ASSUME NEW a \in Apps, NEW kind \in Kinds, NEW t \in Targets, Write(a, kind, t)
      PROVE  Asking'
  <2>1. LoadJID(t) \in JIDs /\ WellFormed(LoadJID(t))
    BY StanzasAssumption, LoadJIDType DEF Proper
  <2>2. 0 \in 0 .. Len(stanzas)
    BY DEF StanzaInv, StanzasInv
  <2> QED
    BY <1>2, <2>1, <2>2, AskCreate DEF Write
<1>3. ASSUME NEW a \in Apps, NEW kind \in Kinds, NEW i \in DOMAIN stanzas, Answer(a, kind, i)
      PROVE  Asking'
  <2>1. i \in 0 .. Len(stanzas) /\ i \in 1 .. Len(stanzas)
    BY DEF StanzaInv, StanzasInv
  <2>2. stanzas[i].from \in JIDs /\ WellFormed(stanzas[i].from)
    BY <2>1 DEF StanzaInv, StanzasInv, GoodStanza, Objects
  <2> QED
    BY <1>3, <2>1, <2>2, AskCreate DEF Answer
<1>4. ASSUME NEW a \in Apps, Arrive(a) PROVE Asking'
  <2> DEFINE m == Head(wire)
  <2>1. /\ wire # <<>> /\ wire' = Tail(wire) /\ sent' = sent /\ Addressed(a, m.doc)
        /\ DispatchStanza(a, m.doc, m.of)
    BY <1>4 DEF Arrive
  <2>2. m = wire[1] /\ 1 \in 1 .. Len(wire)
    BY <2>1, WireTail DEF StanzaInv
  <2> HIDE DEF m
  <2>3. /\ GoodDocument(m.doc) /\ m.of \in 1 .. Len(sent) /\ m.of \in 0 .. Len(sent)
        /\ sent[m.of].complete => Carries(m.doc, sent[m.of].fields)
    BY <2>2 DEF StanzaInv, WireInv, SentInv
  <2> QED
    BY <2>1, <2>3, AskDispatch
<1>5. ASSUME NEW a \in Apps, NEW doc \in Foreign, ArriveForeign(a, doc) PROVE Asking'
  <2>1. GoodDocument(doc)
    BY StanzasAssumption DEF GoodDocument
  <2>2. DispatchStanza(a, doc, 0) /\ sent' = sent /\ 0 \in 0 .. Len(sent)
    BY <1>5 DEF ArriveForeign, StanzaInv, SentInv
  <2> QED
    BY <2>1, <2>2, AskDispatch
<1>6. CASE Creates
  BY <1>2, <1>3, <1>6 DEF Creates
<1>7. CASE Sends
  BY <1>1, <1>7, AskSend DEF Sends, SendFreed
<1>8. CASE Binds
  BY <1>1, <1>8 DEF Binds, CheckForBindSuccess
<1>9. CASE Arrivals
  BY <1>1, <1>4, <1>5, <1>9 DEF Arrivals, Bounce
<1>10. CASE UNCHANGED vars
  BY <1>1, <1>10 DEF vars
<1> QED
  BY <1>6, <1>7, <1>8, <1>9, <1>10 DEF Next

(* An answer reaches the application that asked: the From an application    *)
(* reads and answers to is the address the other was bound to when it sent, *)
(* as SendStanza writes and LoadJID reads it.                              *)
THEOREM AnswersReach == Spec => []AnswersReachTheAsker
<1>1. Init => Asking
  BY DEF Init, Asking, AskInv
<1>2. StanzaInv /\ Asking /\ [Next]_vars => Asking'
  BY AskStep
<1>3. StanzaInv /\ Asking => AnswersReachTheAsker
  <2> SUFFICES ASSUME StanzaInv, Asking, NEW i \in DOMAIN stanzas PROVE Reaches(stanzas[i])
    BY DEF Reaches, AnswersReachTheAsker
  <2>1. i \in 1 .. Len(stanzas)
    BY DEF StanzaInv, StanzasInv
  <2> QED
    BY <2>1 DEF Asking
<1> QED
  BY <1>1, <1>2, <1>3, Invariance, PTL DEF Spec

=============================================================================
