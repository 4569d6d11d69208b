---------------------------- MODULE SwigDocProofs ----------------------------
(***************************************************************************)
(* The objects of doxyxml and the generation of the interface file, for    *)
(* every directory doxygen may write and every use a client makes of the   *)
(* objects before.                                                         *)
(***************************************************************************)
EXTENDS SwigDoc, SequenceTheorems, FiniteSetTheorems, FunctionTheorems, WellFoundedInduction, TLAPS

------------------------------------------------------------------------------
(* What the operations make of the store                                    *)

IsStore(t) ==
  DOMAIN t = {"refs", "nameless", "parsed", "failed", "members", "top", "raised"}

\* t holds what s0 holds, but for its instances.
OnlyInstances(s0, t) ==
  /\ t.parsed = s0.parsed /\ t.failed = s0.failed /\ t.members = s0.members
  /\ t.top = s0.top /\ t.raised = s0.raised

\* The instances of s0 are among those of t, of the same class; the others are of new.
MoreInstances(s0, t, new) ==
  /\ DOMAIN s0.refs \subseteq DOMAIN t.refs
  /\ DOMAIN t.refs \subseteq DOMAIN s0.refs \cup new
  /\ \A x \in DOMAIN s0.refs : t.refs[x] = s0.refs[x]

LEMMA FromParseDataStore ==
  ASSUME NEW s0, IsStore(s0), NEW c
  PROVE  LET t == FromParseData(s0, c)
         IN  /\ IsStore(t)
             /\ OnlyInstances(s0, t)
             /\ MoreInstances(s0, t, {c.refid})
             /\ t.nameless = s0.nameless
             /\ c.refid \in DOMAIN t.refs
             /\ c.refid \notin DOMAIN s0.refs => t.refs[c.refid] = c.kind
<1>1. CASE c.refid \in DOMAIN s0.refs
  BY <1>1 DEF FromParseData, OnlyInstances, MoreInstances
<1>2. CASE c.refid \notin DOMAIN s0.refs
  <2> DEFINE more == Put(s0.refs, {c.refid}, c.kind)
             t == [s0 EXCEPT !.refs = more]
  <2>1. FromParseData(s0, c) = t
    BY <1>2 DEF FromParseData
  <2>2. /\ DOMAIN more = DOMAIN s0.refs \cup {c.refid}
        /\ more[c.refid] = c.kind
        /\ \A z \in DOMAIN s0.refs : z # c.refid => more[z] = s0.refs[z]
    BY DEF Put
  <2> HIDE DEF more
  <2>3. /\ IsStore(t) /\ OnlyInstances(s0, t)
        /\ t.refs = more /\ t.nameless = s0.nameless
    BY DEF IsStore, OnlyInstances
  <2> HIDE DEF t
  <2> QED
    BY <1>2, <2>1, <2>2, <2>3 DEF MoreInstances
<1> QED
  BY <1>1, <1>2

LEMMA FromRefidStore ==
  ASSUME NEW s0, IsStore(s0), NEW kind, NEW refids
  PROVE  LET t == FromRefid(s0, kind, refids)
         IN  /\ IsStore(t)
             /\ OnlyInstances(s0, t)
             /\ MoreInstances(s0, t, refids)
             /\ t.nameless = s0.nameless \cup (DOMAIN t.refs \ DOMAIN s0.refs)
             /\ refids \subseteq DOMAIN t.refs
<1> DEFINE new == refids \ DOMAIN s0.refs
           more == Put(s0.refs, new, kind)
           t == [s0 EXCEPT !.refs = more, !.nameless = @ \cup new]
<1>1. FromRefid(s0, kind, refids) = t
  BY DEF FromRefid
<1>2. /\ DOMAIN more = DOMAIN s0.refs \cup new
      /\ \A z \in DOMAIN s0.refs : z \notin new => more[z] = s0.refs[z]
  <2> HIDE DEF new
  <2> QED
    BY DEF Put
<1> HIDE DEF more
<1>3. /\ IsStore(t) /\ OnlyInstances(s0, t)
      /\ t.refs = more /\ t.nameless = s0.nameless \cup new
  BY DEF IsStore, OnlyInstances
<1> HIDE DEF t
<1> QED
  BY <1>1, <1>2, <1>3 DEF MoreInstances

\* What a store has in common with what _parse makes of it, for the object refid.
Parsed(v, s0, refid, t) ==
  /\ IsStore(t)
  /\ t.top = s0.top
  /\ t.parsed = s0.parsed \cup {refid}
  /\ DOMAIN s0.members \subseteq DOMAIN t.members
  /\ MoreInstances(s0, t, ToSet(v.xml[refid].groups) \cup ToSet(v.xml[refid].classes))
  /\ t.nameless = s0.nameless \cup (DOMAIN t.refs \ DOMAIN s0.refs)
  /\ s0.refs[refid] # "group" => t.refs = s0.refs

\* Nothing was read: the object had been parsed, or its class reads nothing.
NothingRead(s0, refid, t) ==
  /\ refid \in s0.parsed \/ s0.refs[refid] \notin {"class", "file", "group"}
  /\ t.failed = s0.failed /\ t.members = s0.members /\ t.raised = "no"

\* The file was read, for the first time as far as s0 knows: it failed, or gave the members.
FileRead(v, s0, refid, t) ==
  LET x == v.xml[refid] IN
  /\ refid \notin s0.parsed /\ s0.refs[refid] \in {"class", "file", "group"}
  /\ \/ /\ x.file \notin {"good", "broken"} /\ t.raised = "IOError"
        /\ t.failed = s0.failed /\ t.members = s0.members
     \/ /\ x.file = "broken"
        /\ t.raised = IF s0.refs[refid] = "file" THEN "AttributeError" ELSE "no"
        /\ t.failed = s0.failed \cup {refid} /\ t.members = s0.members
     \/ /\ x.file = "good" /\ t.raised = "no" /\ t.failed = s0.failed
        /\ \E ms : /\ t.members = Put(s0.members, {refid}, ms)
                   /\ s0.refs[refid] # "group" => ms = Unique(x.members)

\* t is s0 after retrieve_data.
Retrieved(v, s0, refid, t) ==
  /\ IsStore(t)
  /\ t.refs = s0.refs /\ t.nameless = s0.nameless /\ t.parsed = s0.parsed
  /\ t.members = s0.members /\ t.top = s0.top
  /\ t.failed = IF v.xml[refid].file = "broken" THEN s0.failed \cup {refid} ELSE s0.failed
  /\ t.raised = IF v.xml[refid].file \in {"good", "broken"} THEN "no" ELSE "IOError"

LEMMA ReadFileStore ==
  ASSUME NEW v, NEW s0, IsStore(s0), s0.raised = "no", NEW refid
  PROVE  Retrieved(v, s0, refid, ReadFile(v, s0, refid))
<1> DEFINE file == v.xml[refid].file
<1>1. ReadFile(v, s0, refid) =
        CASE file = "good"   -> s0
          [] file = "broken" -> [s0 EXCEPT !.failed = @ \cup {refid}]
          [] OTHER           -> [s0 EXCEPT !.raised = "IOError"]
  BY DEF ReadFile
<1> HIDE DEF file
<1>2. CASE file = "good"
  BY <1>1, <1>2 DEF Retrieved, file
<1>3. CASE file = "broken"
  <2> DEFINE t == [s0 EXCEPT !.failed = @ \cup {refid}]
  <2>1. /\ IsStore(t)
        /\ t.refs = s0.refs /\ t.nameless = s0.nameless /\ t.parsed = s0.parsed
        /\ t.members = s0.members /\ t.top = s0.top /\ t.failed = s0.failed \cup {refid}
        /\ t.raised = s0.raised
    BY DEF IsStore
  <2>2. ReadFile(v, s0, refid) = t
    BY <1>1, <1>3
  <2> HIDE DEF t
  <2> QED
    BY <1>3, <2>1, <2>2 DEF Retrieved, file
<1>4. CASE file \notin {"good", "broken"}
  <2> DEFINE t == [s0 EXCEPT !.raised = "IOError"]
  <2>1. /\ IsStore(t)
        /\ t.refs = s0.refs /\ t.nameless = s0.nameless /\ t.parsed = s0.parsed
        /\ t.members = s0.members /\ t.top = s0.top /\ t.failed = s0.failed
        /\ t.raised = "IOError"
    BY DEF IsStore
  <2>2. ReadFile(v, s0, refid) = t
    BY <1>1, <1>4
  <2> HIDE DEF t
  <2> QED
    BY <1>4, <2>1, <2>2 DEF Retrieved, file
<1> QED
  BY <1>2, <1>3, <1>4

LEMMA ParseStore ==
  ASSUME NEW v, NEW s0, IsStore(s0), s0.failed \subseteq s0.parsed, NEW refid
  PROVE  LET t == Parse(v, s0, refid)
         IN  /\ Parsed(v, s0, refid, t)
             /\ NothingRead(s0, refid, t) \/ FileRead(v, s0, refid, t)
<1> DEFINE t == Parse(v, s0, refid)
           kind == s0.refs[refid]
           marked == [s0 EXCEPT !.parsed = @ \cup {refid}, !.raised = "no"]
           read == ReadFile(v, marked, refid)
           x == v.xml[refid]
           own == Unique(x.members)
           inner == FromRefid(FromRefid(read, "group", ToSet(x.groups)), "class", ToSet(x.classes))
           all == Inner("group", x.groups) \o Inner("class", x.classes) \o own
<1>1. CASE refid \in s0.parsed
  <2> DEFINE u == [s0 EXCEPT !.raised = "no"]
  <2>1. t = u
    BY <1>1 DEF Parse, AlreadyParsed
  <2>2. /\ IsStore(u) /\ u.refs = s0.refs /\ u.nameless = s0.nameless /\ u.parsed = s0.parsed
        /\ u.failed = s0.failed /\ u.members = s0.members /\ u.top = s0.top /\ u.raised = "no"
    BY DEF IsStore
  <2> HIDE DEF u, t
  <2>3. Parsed(v, s0, refid, t)
    BY <1>1, <2>1, <2>2 DEF Parsed, MoreInstances
  <2>4. NothingRead(s0, refid, t)
    BY <1>1, <2>1, <2>2 DEF NothingRead
  <2> QED
    BY <2>3, <2>4 DEF t
<1>2. CASE refid \notin s0.parsed
  <2>1. /\ IsStore(marked) /\ marked.refs = s0.refs /\ marked.nameless = s0.nameless
        /\ marked.parsed = s0.parsed \cup {refid} /\ marked.failed = s0.failed
        /\ marked.members = s0.members /\ marked.top = s0.top
        /\ marked.raised = "no"
    BY DEF IsStore
  <2>2. t = IF kind \notin {"class", "file", "group"} THEN marked
            ELSE IF read.raised # "no" THEN read
            ELSE IF refid \in read.failed
                 THEN IF kind = "file" THEN [read EXCEPT !.raised = "AttributeError"] ELSE read
            ELSE IF kind = "group" THEN [inner EXCEPT !.members = Put(@, {refid}, all)]
            ELSE [read EXCEPT !.members = Put(@, {refid}, own)]
    BY <1>2 DEF Parse, AlreadyParsed
  <2> HIDE DEF marked
  <2>9. Retrieved(v, marked, refid, read)
    BY <2>1, ReadFileStore
  <2>3. /\ IsStore(read)
        /\ read.refs = s0.refs /\ read.nameless = s0.nameless
        /\ read.parsed = s0.parsed \cup {refid}
        /\ read.members = s0.members /\ read.top = s0.top
        /\ read.failed = IF x.file = "broken" THEN s0.failed \cup {refid} ELSE s0.failed
        /\ read.raised = IF x.file \in {"good", "broken"} THEN "no" ELSE "IOError"
    BY <2>1, <2>9 DEF Retrieved
  <2> HIDE DEF read, t, kind, x, own, all
  <2>4. CASE kind \notin {"class", "file", "group"}
    <3>1. t = marked
      BY <2>2, <2>4
    <3>2. Parsed(v, s0, refid, t)
      BY <2>1, <3>1 DEF Parsed, MoreInstances
    <3>3. NothingRead(s0, refid, t)
      BY <2>1, <2>4, <3>1 DEF NothingRead, kind
    <3> QED
      BY <3>2, <3>3 DEF t
  <2>5. CASE kind \in {"class", "file", "group"} /\ x.file \notin {"good", "broken"}
    <3>1. t = read /\ t.raised = "IOError"
      BY <2>2, <2>3, <2>5
    <3>2. Parsed(v, s0, refid, t)
      BY <2>3, <3>1 DEF Parsed, MoreInstances
    <3>3. FileRead(v, s0, refid, t)
      BY <1>2, <2>3, <2>5, <3>1 DEF FileRead, kind, x
    <3> QED
      BY <3>2, <3>3 DEF t
  <2>6. CASE kind \in {"class", "file", "group"} /\ x.file = "broken"
    <3> DEFINE u == [read EXCEPT !.raised = "AttributeError"]
    <3>1. t = IF kind = "file" THEN u ELSE read
      BY <2>2, <2>3, <2>6
    <3>2. /\ IsStore(u) /\ u.refs = read.refs /\ u.nameless = read.nameless
          /\ u.parsed = read.parsed /\ u.failed = read.failed /\ u.members = read.members
          /\ u.top = read.top /\ u.raised = "AttributeError"
      BY <2>3 DEF IsStore
    <3> HIDE DEF u
    <3>3. /\ IsStore(t) /\ t.refs = read.refs /\ t.nameless = read.nameless
          /\ t.parsed = read.parsed /\ t.failed = read.failed /\ t.members = read.members
          /\ t.top = read.top
          /\ t.raised = IF kind = "file" THEN "AttributeError" ELSE "no"
      BY <2>3, <2>6, <3>1, <3>2
    <3>4. Parsed(v, s0, refid, t)
      BY <2>3, <3>3 DEF Parsed, MoreInstances
    <3>5. FileRead(v, s0, refid, t)
      BY <1>2, <2>3, <2>6, <3>3 DEF FileRead, kind, x
    <3> QED
      BY <3>4, <3>5 DEF t
  <2>7. CASE kind \in {"class", "file"} /\ x.file = "good"
    <3> DEFINE ms == Put(s0.members, {refid}, own)
               u == [read EXCEPT !.members = ms]
    <3>1. t = u
      BY <1>2, <2>2, <2>3, <2>7
    <3> HIDE DEF ms
    <3>2. /\ IsStore(u) /\ u.refs = read.refs /\ u.nameless = read.nameless
          /\ u.parsed = read.parsed /\ u.failed = read.failed /\ u.members = ms
          /\ u.top = read.top /\ u.raised = "no"
      BY <2>3, <2>7 DEF IsStore
    <3> HIDE DEF u
    <3>3. DOMAIN s0.members \subseteq DOMAIN ms
      BY DEF ms, Put
    <3>4. Parsed(v, s0, refid, t)
      BY <2>3, <3>1, <3>2, <3>3 DEF Parsed, MoreInstances
    <3>5. FileRead(v, s0, refid, t)
      BY <1>2, <2>3, <2>7, <3>1, <3>2 DEF FileRead, kind, x, ms, own
    <3> QED
      BY <3>4, <3>5 DEF t
  <2>8. CASE kind = "group" /\ x.file = "good"
    <3> DEFINE one == FromRefid(read, "group", ToSet(x.groups))
               ms == Put(s0.members, {refid}, all)
               u == [inner EXCEPT !.members = ms]
    <3>1. /\ IsStore(one) /\ OnlyInstances(read, one)
          /\ MoreInstances(read, one, ToSet(x.groups))
          /\ one.nameless = read.nameless \cup (DOMAIN one.refs \ DOMAIN read.refs)
      BY <2>3, FromRefidStore
    <3>2. inner = FromRefid(one, "class", ToSet(x.classes))
      OBVIOUS
    <3> HIDE DEF one, inner
    <3>3. /\ IsStore(inner) /\ OnlyInstances(one, inner)
          /\ MoreInstances(one, inner, ToSet(x.classes))
          /\ inner.nameless = one.nameless \cup (DOMAIN inner.refs \ DOMAIN one.refs)
      BY <3>1, <3>2, FromRefidStore
    <3>4. t = u
      BY <1>2, <2>2, <2>3, <2>8, <3>1, <3>3 DEF OnlyInstances
    <3> HIDE DEF ms
    <3>5. /\ IsStore(u) /\ u.refs = inner.refs /\ u.nameless = inner.nameless
          /\ u.parsed = read.parsed /\ u.failed = read.failed /\ u.members = ms
          /\ u.top = read.top /\ u.raised = "no"
      BY <2>3, <2>8, <3>1, <3>3 DEF IsStore, OnlyInstances
    <3> HIDE DEF u
    <3>6. MoreInstances(s0, t, ToSet(x.groups) \cup ToSet(x.classes))
      BY <2>3, <3>1, <3>3, <3>4, <3>5 DEF MoreInstances
    <3>7. t.nameless = s0.nameless \cup (DOMAIN t.refs \ DOMAIN s0.refs)
      BY <2>3, <3>1, <3>3, <3>4, <3>5 DEF MoreInstances
    <3>8. DOMAIN s0.members \subseteq DOMAIN ms
      BY DEF ms, Put
    <3>9. Parsed(v, s0, refid, t)
      BY <2>3, <2>8, <3>4, <3>5, <3>6, <3>7, <3>8 DEF Parsed, kind, x
    <3>10. FileRead(v, s0, refid, t)
      BY <1>2, <2>3, <2>8, <3>4, <3>5 DEF FileRead, kind, x, ms
    <3> QED
      BY <3>9, <3>10 DEF t
  <2> QED
    BY <2>4, <2>5, <2>6, <2>7, <2>8
<1> QED
  BY <1>1, <1>2

------------------------------------------------------------------------------
(* The members of a compound                                                *)

\* A set of numbers has a least one, and induction over them.
LEMMA LeastNumber ==
  ASSUME NEW T \in SUBSET Nat, T # {}
  PROVE  \E m \in T : \A k \in T : m <= k
<1> DEFINE R == {ss \in Nat \X Nat : ss[1] < ss[2]}
<1>1. IsWellFoundedOn(R, Nat)
  BY NatLessThanWellFounded DEF OpToRel
<1> HIDE DEF R
<1>2. PICK x \in T : \A y \in T : ~ (<<y, x>> \in R)
  BY <1>1, WFMin, Zenon
<1>3. \A y \in T : ~(y < x)
  BY <1>2 DEF R
<1> QED
  BY <1>3

LEMMA SetInduction ==
  ASSUME NEW T, 0 \in T, \A n \in Nat : n \in T => n + 1 \in T
  PROVE  Nat \subseteq T
<1> SUFFICES ASSUME Nat \ T # {} PROVE FALSE
  OBVIOUS
<1>1. PICK m \in Nat \ T : \A k \in Nat \ T : m <= k
  BY LeastNumber
<1>2. m # 0 /\ m - 1 \in Nat
  BY <1>1
<1>3. m - 1 \in T
  BY <1>1, <1>2
<1>4. m - 1 + 1 \in T
  BY <1>2, <1>3
<1> QED
  BY <1>1, <1>4

\* What becomes of done, the members kept so far, when member n follows.
Kept(defs, done, n) ==
  IF \E m \in 1..(n - 1) : defs[m].name = defs[n].name THEN done
  ELSE Append(done, IF HasClass(defs[n].kind) THEN defs[n] ELSE None)

\* The members kept of the first n, for all n up to N.
Keeps(g, defs, N) == \A n \in 0..N : g[n] = IF n = 0 THEN <<>> ELSE Kept(defs, g[n - 1], n)

LEMMA KeepsExist == \A defs : \A N \in Nat : \E g : Keeps(g, defs, N)
<1> SUFFICES ASSUME NEW defs PROVE \A N \in Nat : \E g : Keeps(g, defs, N)
  OBVIOUS
<1> DEFINE T == {N \in Nat : \E g : Keeps(g, defs, N)}
<1>1. 0 \in T
  <2> DEFINE g == [n \in {0} |-> <<>>]
  <2>1. Keeps(g, defs, 0)
    BY DEF Keeps
  <2> QED
    BY <2>1
<1>2. ASSUME NEW N \in Nat, N \in T PROVE N + 1 \in T
  <2>1. PICK g : Keeps(g, defs, N)
    BY <1>2
  <2> DEFINE next(n) == IF n = 0 THEN <<>> ELSE Kept(defs, g[n - 1], n)
             h == [n \in 0..(N + 1) |-> next(n)]
  <2>2. ASSUME NEW n \in 0..N PROVE next(n) = g[n]
    BY <2>1 DEF Keeps
  <2>3. ASSUME NEW n \in 0..(N + 1)
        PROVE  h[n] = IF n = 0 THEN <<>> ELSE Kept(defs, h[n - 1], n)
    <3>1. h[n] = next(n)
      OBVIOUS
    <3>2. n # 0 => h[n - 1] = next(n - 1) /\ n - 1 \in 0..N
      OBVIOUS
    <3>3. n # 0 => h[n - 1] = g[n - 1]
      <4> HIDE DEF h, next
      <4> QED
        BY <2>2, <3>2
    <3> HIDE DEF h
    <3> QED
      BY <3>1, <3>3
  <2>4. Keeps(h, defs, N + 1)
    <3> HIDE DEF h
    <3> QED
      BY <2>3 DEF Keeps
  <2> QED
    BY <2>4
<1> HIDE DEF T
<1>3. Nat \subseteq T
  BY <1>1, <1>2, SetInduction
<1> QED
  BY <1>3 DEF T

\* So the recursion that defines Unique has a solution, and Unique is its last value.
LEMMA UniqueKeeps ==
  ASSUME NEW defs, Len(defs) \in Nat
  PROVE  \E g : Keeps(g, defs, Len(defs)) /\ Unique(defs) = g[Len(defs)]
<1>1. PICK g : Keeps(g, defs, Len(defs))
  BY KeepsExist
<1> DEFINE f == [n \in 0..Len(defs) |-> g[n]]
<1>2. f = [n \in 0..Len(defs) |-> IF n = 0 THEN <<>> ELSE Kept(defs, f[n - 1], n)]
  <2>1. ASSUME NEW n \in 0..Len(defs)
        PROVE  g[n] = IF n = 0 THEN <<>> ELSE Kept(defs, f[n - 1], n)
    <3>1. n # 0 => f[n - 1] = g[n - 1]
      OBVIOUS
    <3> HIDE DEF f
    <3> QED
      BY <1>1, <3>1 DEF Keeps
  <2> QED
    BY <2>1
<1> HIDE DEF f
<1>3. PICK h : (h = [n \in 0..Len(defs) |-> IF n = 0 THEN <<>> ELSE
                       IF \E m \in 1..(n - 1) : defs[m].name = defs[n].name THEN h[n - 1]
                       ELSE Append(h[n - 1], IF HasClass(defs[n].kind) THEN defs[n] ELSE None)])
               /\ Unique(defs) = h[Len(defs)]
  <2>1. \E h : h = [n \in 0..Len(defs) |-> IF n = 0 THEN <<>> ELSE
                       IF \E m \in 1..(n - 1) : defs[m].name = defs[n].name THEN h[n - 1]
                       ELSE Append(h[n - 1], IF HasClass(defs[n].kind) THEN defs[n] ELSE None)]
    BY <1>2 DEF Kept
  <2> QED
    BY <2>1, Zenon DEF Unique
<1>4. Keeps(h, defs, Len(defs))
  BY <1>3 DEF Keeps, Kept
<1> QED
  BY <1>3, <1>4

\* Of the members of a compound some are kept, each as it is or, without a class, as None.
LEMMA UniqueType ==
  ASSUME NEW S, NEW defs \in Seq(S)
  PROVE  Unique(defs) \in Seq(S \cup {None})
<1> DEFINE N == Len(defs)
<1>1. N \in Nat
  OBVIOUS
<1>2. PICK g : Keeps(g, defs, N) /\ Unique(defs) = g[N]
  BY <1>1, UniqueKeeps
<1> HIDE DEF N
<1> DEFINE T == {n \in Nat : n \in 0..N => g[n] \in Seq(S \cup {None})}
<1>3. 0 \in T
  <2>1. 0 \in 0..N => g[0] = <<>>
    BY <1>2 DEF Keeps
  <2>2. <<>> \in Seq(S \cup {None})
    OBVIOUS
  <2> QED
    BY <2>1, <2>2
<1>4. ASSUME NEW n \in Nat, n \in T PROVE n + 1 \in T
  <2> SUFFICES ASSUME n + 1 \in 0..N PROVE g[n + 1] \in Seq(S \cup {None})
    OBVIOUS
  <2>1. PICK next : next = n + 1
    OBVIOUS
  <2>2. next \in 1..N /\ next - 1 = n /\ n \in 0..N
    BY <1>1, <2>1
  <2>3. g[n] \in Seq(S \cup {None})
    BY <1>4, <2>2
  <2>4. defs[next] \in S
    BY <2>2, ElementOfSeq DEF N
  <2>5. g[next] = Kept(defs, g[n], next)
    BY <1>2, <2>2 DEF Keeps
  <2> QED
    BY <2>1, <2>3, <2>4, <2>5 DEF Kept
<1> HIDE DEF T
<1>5. N \in T
  BY <1>1, <1>3, <1>4, SetInduction
<1> QED
  BY <1>1, <1>2, <1>5 DEF T

\* What becomes of done, the members chosen so far, when member n follows.
Chosen(defs, kind, done, n) == IF defs[n].kind = kind THEN Append(done, defs[n]) ELSE done

\* The members chosen of the first n, for all n up to N.
Chooses(g, defs, kind, N) ==
  \A n \in 0..N : g[n] = IF n = 0 THEN <<>> ELSE Chosen(defs, kind, g[n - 1], n)

LEMMA ChoosesExist == \A defs, kind : \A N \in Nat : \E g : Chooses(g, defs, kind, N)
<1> SUFFICES ASSUME NEW defs, NEW kind PROVE \A N \in Nat : \E g : Chooses(g, defs, kind, N)
  OBVIOUS
<1> DEFINE T == {N \in Nat : \E g : Chooses(g, defs, kind, N)}
<1>1. 0 \in T
  <2> DEFINE g == [n \in {0} |-> <<>>]
  <2>1. Chooses(g, defs, kind, 0)
    BY DEF Chooses
  <2> QED
    BY <2>1
<1>2. ASSUME NEW N \in Nat, N \in T PROVE N + 1 \in T
  <2>1. PICK g : Chooses(g, defs, kind, N)
    BY <1>2
  <2> DEFINE next(n) == IF n = 0 THEN <<>> ELSE Chosen(defs, kind, g[n - 1], n)
             h == [n \in 0..(N + 1) |-> next(n)]
  <2>2. ASSUME NEW n \in 0..N PROVE next(n) = g[n]
    BY <2>1 DEF Chooses
  <2>3. ASSUME NEW n \in 0..(N + 1)
        PROVE  h[n] = IF n = 0 THEN <<>> ELSE Chosen(defs, kind, h[n - 1], n)
    <3>1. h[n] = next(n)
      OBVIOUS
    <3>2. n # 0 => h[n - 1] = next(n - 1) /\ n - 1 \in 0..N
      OBVIOUS
    <3>3. n # 0 => h[n - 1] = g[n - 1]
      <4> HIDE DEF h, next
      <4> QED
        BY <2>2, <3>2
    <3> HIDE DEF h
    <3> QED
      BY <3>1, <3>3
  <2>4. Chooses(h, defs, kind, N + 1)
    <3> HIDE DEF h
    <3> QED
      BY <2>3 DEF Chooses
  <2> QED
    BY <2>4
<1> HIDE DEF T
<1>3. Nat \subseteq T
  BY <1>1, <1>2, SetInduction
<1> QED
  BY <1>3 DEF T

LEMMA OfKindDefined ==
  ASSUME NEW defs, NEW kind, Len(defs) \in Nat
  PROVE  \E g : Chooses(g, defs, kind, Len(defs)) /\ OfKind(defs, kind) = g[Len(defs)]
<1>1. PICK g : Chooses(g, defs, kind, Len(defs))
  BY ChoosesExist
<1> DEFINE f == [n \in 0..Len(defs) |-> g[n]]
<1>2. f = [n \in 0..Len(defs) |-> IF n = 0 THEN <<>> ELSE Chosen(defs, kind, f[n - 1], n)]
  <2>1. ASSUME NEW n \in 0..Len(defs)
        PROVE  g[n] = IF n = 0 THEN <<>> ELSE Chosen(defs, kind, f[n - 1], n)
    <3>1. n # 0 => f[n - 1] = g[n - 1]
      OBVIOUS
    <3> HIDE DEF f
    <3> QED
      BY <1>1, <3>1 DEF Chooses
  <2> QED
    BY <2>1
<1> HIDE DEF f
<1>3. PICK h : (h = [n \in 0..Len(defs) |-> IF n = 0 THEN <<>>
                       ELSE IF defs[n].kind = kind THEN Append(h[n - 1], defs[n])
                       ELSE h[n - 1]])
               /\ OfKind(defs, kind) = h[Len(defs)]
  <2>1. \E h : h = [n \in 0..Len(defs) |-> IF n = 0 THEN <<>>
                       ELSE IF defs[n].kind = kind THEN Append(h[n - 1], defs[n])
                       ELSE h[n - 1]]
    BY <1>2 DEF Chosen
  <2> QED
    BY <2>1, Zenon DEF OfKind
<1>4. Chooses(h, defs, kind, Len(defs))
  BY <1>3 DEF Chooses, Chosen
<1> QED
  BY <1>3, <1>4

\* The members of a kind are members, and of that kind.
LEMMA OfKindChooses ==
  ASSUME NEW S, NEW defs \in Seq(S), NEW kind
  PROVE  /\ OfKind(defs, kind) \in Seq(S)
         /\ ToSet(OfKind(defs, kind)) \subseteq {d \in ToSet(defs) : d.kind = kind}
<1> DEFINE N == Len(defs)
           R == {d \in S : d \in ToSet(defs) /\ d.kind = kind}
<1>1. N \in Nat /\ DOMAIN defs = 1..N
  OBVIOUS
<1>2. PICK g : Chooses(g, defs, kind, N) /\ OfKind(defs, kind) = g[N]
  BY <1>1, OfKindDefined
<1> HIDE DEF N
<1> DEFINE T == {n \in Nat : n \in 0..N => g[n] \in Seq(R)}
<1>3. 0 \in T
  <2>1. 0 \in 0..N => g[0] = <<>>
    BY <1>2 DEF Chooses
  <2>2. <<>> \in Seq(R)
    OBVIOUS
  <2> QED
    BY <2>1, <2>2
<1>4. ASSUME NEW n \in Nat, n \in T PROVE n + 1 \in T
  <2> SUFFICES ASSUME n + 1 \in 0..N PROVE g[n + 1] \in Seq(R)
    OBVIOUS
  <2>1. PICK next : next = n + 1
    OBVIOUS
  <2>2. next \in 1..N /\ next - 1 = n /\ n \in 0..N
    BY <1>1, <2>1
  <2>3. g[n] \in Seq(R)
    BY <1>4, <2>2
  <2>4. defs[next] \in S /\ defs[next] \in ToSet(defs)
    BY <1>1, <2>2, ElementOfSeq DEF N, ToSet
  <2>5. g[next] = Chosen(defs, kind, g[n], next)
    BY <1>2, <2>2 DEF Chooses
  <2>6. defs[next].kind = kind => defs[next] \in R
    BY <2>4
  <2> HIDE DEF R
  <2> QED
    BY <2>1, <2>3, <2>5, <2>6 DEF Chosen
<1> HIDE DEF T
<1>5. N \in T
  BY <1>1, <1>3, <1>4, SetInduction
<1>6. OfKind(defs, kind) \in Seq(R)
  BY <1>1, <1>2, <1>5 DEF T
<1>7. ToSet(OfKind(defs, kind)) \subseteq R
  <2> HIDE DEF R
  <2>1. \A i \in DOMAIN OfKind(defs, kind) : OfKind(defs, kind)[i] \in R
    BY <1>6, ElementOfSeq
  <2> QED
    BY <2>1 DEF ToSet
<1>8. OfKind(defs, kind) \in Seq(S)
  <2>1. R \subseteq S
    OBVIOUS
  <2> HIDE DEF R
  <2> QED
    BY <1>6, <2>1, SeqMonotonic
<1> QED
  BY <1>7, <1>8

\* What was found among the members of an object is there only if the object has members.
LEMMA FoundInside ==
  ASSUME NEW t, NEW refid, NEW kind, NEW name,
         GetMember(MembersOf(t, refid), kind, name) = "found"
  PROVE  refid \in DOMAIN t.members
<1> SUFFICES ASSUME refid \notin DOMAIN t.members PROVE FALSE
  OBVIOUS
<1>1. MembersOf(t, refid) = <<>>
  BY DEF MembersOf, Get
<1>2. Named(MembersOf(t, refid), kind, name) = {}
  BY <1>1 DEF Named
<1> QED
  BY <1>2 DEF GetMember

\* A member that follows others is named when it fits; those before it stay as they are.
LEMMA NamedAppend ==
  ASSUME NEW S, NEW q \in Seq(S), NEW d \in S, NEW kind, NEW name
  PROVE  Named(Append(q, d), kind, name) =
           Named(q, kind, name) \cup (IF d.kind = kind /\ d.name = name THEN {Len(q) + 1} ELSE {})
<1> DEFINE r == Append(q, d)
<1>1. /\ DOMAIN q = 1..Len(q) /\ DOMAIN r = 1..(Len(q) + 1) /\ Len(q) \in Nat
      /\ r[Len(q) + 1] = d /\ \A i \in 1..Len(q) : r[i] = q[i]
  OBVIOUS
<1> HIDE DEF r
<1>2. \A i \in DOMAIN r : i \in DOMAIN q \/ i = Len(q) + 1
  BY <1>1
<1>3. \A i \in DOMAIN q : i # Len(q) + 1 /\ i \in DOMAIN r /\ r[i] = q[i]
  BY <1>1
<1>4. Len(q) + 1 \in DOMAIN r
  BY <1>1
<1>5. \A i : i \in Named(r, kind, name) <=>
             \/ i \in Named(q, kind, name)
             \/ i = Len(q) + 1 /\ d.kind = kind /\ d.name = name
  BY <1>1, <1>2, <1>3, <1>4 DEF Named
<1> QED
  BY <1>5 DEF r

\* Of the members q kept of the first n there is a function of the name from member i on.
FoundFrom(q, name, n, i) ==
  /\ n < i => Named(q, "function", name) = {}
  /\ n >= i => \E k : Named(q, "function", name) = {k}

\* A member that is the first with its name, and a function, is found among those kept.
LEMMA FirstFound ==
  ASSUME NEW S, NEW defs \in Seq(S), NEW name, FunctionFirst(defs, name)
  PROVE  GetMember(Unique(defs), "function", name) = "found"
<1> DEFINE N == Len(defs)
           D == S \cup {None}
<1>1. N \in Nat /\ DOMAIN defs = 1..N
  OBVIOUS
<1>2. PICK i \in 1..N : /\ defs[i].kind = "function" /\ defs[i].name = name
                        /\ \A j \in 1..(i - 1) : defs[j].name # name
  BY <1>1 DEF FunctionFirst, First
<1>3. PICK g : Keeps(g, defs, N) /\ Unique(defs) = g[N]
  BY <1>1, UniqueKeeps
<1> HIDE DEF N
<1> DEFINE T == {n \in Nat : n \in 0..N => g[n] \in Seq(D) /\ FoundFrom(g[n], name, n, i)}
<1>4. 0 \in T
  <2> SUFFICES ASSUME 0 \in 0..N PROVE g[0] \in Seq(D) /\ FoundFrom(g[0], name, 0, i)
    OBVIOUS
  <2>1. g[0] = <<>>
    BY <1>3 DEF Keeps
  <2>2. Named(g[0], "function", name) = {}
    BY <2>1 DEF Named
  <2>3. <<>> \in Seq(D)
    OBVIOUS
  <2> HIDE DEF D
  <2> QED
    BY <1>2, <2>1, <2>2, <2>3 DEF FoundFrom
<1>5. ASSUME NEW n \in Nat, n \in T PROVE n + 1 \in T
  <2> SUFFICES ASSUME n + 1 \in 0..N
               PROVE  g[n + 1] \in Seq(D) /\ FoundFrom(g[n + 1], name, n + 1, i)
    OBVIOUS
  <2>1. PICK next : next = n + 1
    OBVIOUS
  <2>2. next \in 1..N /\ next - 1 = n /\ n \in 0..N /\ next \in Nat /\ i \in Nat
    BY <1>1, <1>2, <2>1
  <2>3. g[n] \in Seq(D) /\ FoundFrom(g[n], name, n, i)
    BY <1>5, <2>2
  <2>4. g[next] = Kept(defs, g[n], next)
    BY <1>3, <2>2 DEF Keeps
  <2>5. PICK d : d = IF HasClass(defs[next].kind) THEN defs[next] ELSE None
    OBVIOUS
  <2>6. d \in D
    BY <1>1, <2>2, <2>5, ElementOfSeq
  <2>7. g[next] = g[n] \/ g[next] = Append(g[n], d)
    BY <2>4, <2>5 DEF Kept
  <2>8. PICK q, r : q = g[n] /\ r = g[next]
    OBVIOUS
  <2>9. q \in Seq(D)
    BY <2>3, <2>8
  <2> HIDE DEF D
  <2>10. Named(Append(q, d), "function", name) =
           Named(q, "function", name) \cup
             (IF d.kind = "function" /\ d.name = name THEN {Len(q) + 1} ELSE {})
    BY <2>6, <2>9, NamedAppend
  <2>11. r \in Seq(D)
    <3>1. Append(q, d) \in Seq(D)
      BY <2>6, <2>9
    <3> QED
      BY <2>7, <2>8, <2>9, <3>1
  <2>12. None.kind # "function"
    BY DEF None
  <2>13. r = q \/ r = Append(q, d)
    BY <2>7, <2>8
  <2>14. FoundFrom(q, name, n, i)
    BY <2>3, <2>8
  <2>15. FoundFrom(r, name, next, i)
    <3>1. CASE next < i
      <4>1. ~(d.kind = "function" /\ d.name = name)
        BY <1>2, <2>2, <2>5, <2>12, <3>1
      <4>2. Named(q, "function", name) = {}
        BY <1>2, <2>2, <2>14, <3>1 DEF FoundFrom
      <4>3. Named(r, "function", name) = {}
        BY <2>10, <2>13, <4>1, <4>2
      <4> QED
        BY <1>2, <2>2, <3>1, <4>3 DEF FoundFrom
    <3>2. CASE next = i
      <4>1. ~\E m \in 1..(next - 1) : defs[m].name = defs[next].name
        BY <1>2, <3>2
      <4>2. r = Append(q, d)
        BY <2>2, <2>4, <2>5, <2>8, <4>1 DEF Kept
      <4>3. d.kind = "function" /\ d.name = name
        BY <1>2, <2>5, <3>2 DEF HasClass
      <4>4. Named(q, "function", name) = {}
        BY <1>2, <2>2, <2>14, <3>2 DEF FoundFrom
      <4>5. Named(r, "function", name) = {Len(q) + 1}
        BY <2>10, <4>2, <4>3, <4>4
      <4>6. ~(next < i)
        BY <2>2, <3>2
      <4> QED
        BY <4>5, <4>6, Zenon DEF FoundFrom
    <3>3. CASE next > i
      <4>1. n >= i /\ ~(next < i)
        BY <2>2, <3>3
      <4>2. PICK k : Named(q, "function", name) = {k}
        BY <2>14, <4>1, Zenon DEF FoundFrom
      <4>3. Named(r, "function", name) = {k}
        <5>1. CASE r = q
          BY <4>2, <5>1
        <5>2. CASE r # q
          <6>1. ~\E m \in 1..(next - 1) : defs[m].name = defs[next].name
            BY <2>2, <2>4, <2>8, <5>2 DEF Kept
          <6>2. i \in 1..(next - 1)
            BY <1>2, <2>2, <3>3
          <6>3. ~(d.kind = "function" /\ d.name = name)
            BY <1>2, <2>5, <2>12, <6>1, <6>2
          <6> QED
            BY <2>10, <2>13, <4>2, <5>2, <6>3
        <5> QED
          BY <5>1, <5>2
      <4> QED
        BY <4>1, <4>3, Zenon DEF FoundFrom
    <3> QED
      BY <1>2, <2>2, <3>1, <3>2, <3>3
  <2> QED
    BY <2>1, <2>8, <2>11, <2>15
<1> HIDE DEF T
<1>6. N \in T
  BY <1>1, <1>4, <1>5, SetInduction
<1>7. FoundFrom(g[N], name, N, i) /\ N >= i
  BY <1>1, <1>2, <1>6 DEF T
<1>8. PICK k : Named(Unique(defs), "function", name) = {k}
  BY <1>3, <1>7 DEF FoundFrom
<1> QED
  BY <1>8 DEF GetMember

\* A name that first belongs to no function is the name of no function kept.
LEMMA NotFirst ==
  ASSUME NEW S, NEW defs \in Seq(S), NEW kind, kind # "None", NEW name,
         ~First(defs, kind, name)
  PROVE  Named(Unique(defs), kind, name) = {}
<1> DEFINE N == Len(defs)
           D == S \cup {None}
<1>1. N \in Nat /\ DOMAIN defs = 1..N
  OBVIOUS
<1>2. PICK g : Keeps(g, defs, N) /\ Unique(defs) = g[N]
  BY <1>1, UniqueKeeps
<1> HIDE DEF N
<1> DEFINE T == {n \in Nat : n \in 0..N => /\ g[n] \in Seq(D)
                                           /\ Named(g[n], kind, name) = {}}
<1>3. 0 \in T
  <2>1. 0 \in 0..N => g[0] = <<>>
    BY <1>2 DEF Keeps
  <2>2. Named(<<>>, kind, name) = {}
    BY DEF Named
  <2>3. <<>> \in Seq(D)
    OBVIOUS
  <2> HIDE DEF D
  <2> QED
    BY <2>1, <2>2, <2>3
<1>4. ASSUME NEW n \in Nat, n \in T PROVE n + 1 \in T
  <2> SUFFICES ASSUME n + 1 \in 0..N
               PROVE  g[n + 1] \in Seq(D) /\ Named(g[n + 1], kind, name) = {}
    OBVIOUS
  <2>1. PICK next : next = n + 1
    OBVIOUS
  <2>2. next \in 1..N /\ next - 1 = n /\ n \in 0..N
    BY <1>1, <2>1
  <2>3. PICK q, r, d : /\ q = g[n] /\ r = g[next]
                       /\ d = IF HasClass(defs[next].kind) THEN defs[next] ELSE None
    OBVIOUS
  <2>4. q \in Seq(D) /\ Named(q, kind, name) = {}
    BY <1>4, <2>2, <2>3
  <2>5. r = IF \E m \in 1..(next - 1) : defs[m].name = defs[next].name THEN q ELSE Append(q, d)
    BY <1>2, <2>2, <2>3 DEF Keeps, Kept
  <2>6. d \in D
    BY <1>1, <2>2, <2>3, ElementOfSeq
  <2> HIDE DEF D
  <2>7. CASE r = q
    BY <2>1, <2>3, <2>4, <2>7
  <2>8. CASE /\ r = Append(q, d)
             /\ ~\E m \in 1..(next - 1) : defs[m].name = defs[next].name
    <3>1. ~(d.kind = kind /\ d.name = name)
      <4>1. None.kind # kind
        BY DEF None
      <4> QED
        BY <1>1, <2>2, <2>3, <2>8, <4>1 DEF First
    <3>2. Named(Append(q, d), kind, name) =
            Named(q, kind, name) \cup
              (IF d.kind = kind /\ d.name = name THEN {Len(q) + 1} ELSE {})
      BY <2>4, <2>6, NamedAppend
    <3>3. Append(q, d) \in Seq(D)
      BY <2>4, <2>6
    <3> QED
      BY <2>1, <2>3, <2>4, <2>8, <3>1, <3>2, <3>3
  <2> QED
    BY <2>5, <2>7, <2>8
<1> HIDE DEF T
<1>5. N \in T
  BY <1>1, <1>3, <1>4, SetInduction
<1> QED
  BY <1>1, <1>2, <1>5 DEF T

------------------------------------------------------------------------------
(* The store of a directory                                                 *)

\* Compounds and members (that a literal is a string is not known to the provers).
Def == [kind : STRING \cup {"None"}, refid : STRING \cup {""}, name : STRING \cup {""}]

\* What was read is there, or noted as failed.
ReadInv(v, s0) ==
  /\ \A r \in s0.failed : v.xml[r].file = "broken"
  /\ DOMAIN s0.members \subseteq DOMAIN s0.refs
  /\ \A r \in DOMAIN s0.members :
       /\ v.xml[r].file = "good"
       /\ s0.refs[r] # "group" => s0.members[r] = Unique(v.xml[r].members)

\* A class that was parsed failed, or has its members, or has no file.
ClassInv(v, s0) ==
  \A r \in s0.parsed \ {"index"} :
    s0.refs[r] = "class" => r \in s0.failed \cup DOMAIN s0.members \/ v.xml[r].file = "missing"

\* The members of the index that are classes are its compounds.
TopInv(v, s0) ==
  /\ s0.top \in Seq(Def)
  /\ \A d \in ToSet(s0.top) : d.kind = "class" => d \in ToSet(v.index) /\ d.refid \in DOMAIN s0.refs

StoreInv(v, s0) ==
  /\ IsStore(s0)
  /\ DOMAIN s0.refs \subseteq DOMAIN v.xml
  /\ s0.nameless \subseteq DOMAIN s0.refs
  /\ s0.failed \subseteq s0.parsed
  /\ s0.parsed \subseteq DOMAIN s0.refs \cup {"index"}
  /\ DOMAIN s0.members \subseteq s0.parsed \ s0.failed
  /\ ReadInv(v, s0)
  /\ ClassInv(v, s0)
  /\ TopInv(v, s0)

LEMMA ParseInv ==
  ASSUME NEW v, IsWorld(v), NEW s0, StoreInv(v, s0), NEW refid \in DOMAIN s0.refs
  PROVE  StoreInv(v, Parse(v, s0, refid))
<1> DEFINE t == Parse(v, s0, refid)
           x == v.xml[refid]
<1>1. /\ Parsed(v, s0, refid, t)
      /\ NothingRead(s0, refid, t) \/ FileRead(v, s0, refid, t)
  BY ParseStore DEF StoreInv
<1> HIDE DEF t
<1>2. /\ refid \in DOMAIN v.xml /\ refid # "index"
      /\ ToSet(x.groups) \subseteq DOMAIN v.xml /\ ToSet(x.classes) \subseteq DOMAIN v.xml
  <2>1. refid \in DOMAIN v.xml /\ refid # "index"
    BY DEF StoreInv, IsWorld
  <2>2. x.groups \in Seq(DOMAIN v.xml) /\ x.classes \in Seq(DOMAIN v.xml)
    BY <2>1 DEF IsWorld
  <2>3. \A q : q \in Seq(DOMAIN v.xml) => ToSet(q) \subseteq DOMAIN v.xml
    BY ElementOfSeq DEF ToSet
  <2> QED
    BY <2>1, <2>2, <2>3
<1>3. /\ IsStore(t)
      /\ DOMAIN t.refs \subseteq DOMAIN v.xml
      /\ DOMAIN s0.refs \subseteq DOMAIN t.refs
      /\ \A r \in DOMAIN s0.refs : t.refs[r] = s0.refs[r]
      /\ t.nameless \subseteq DOMAIN t.refs
      /\ t.parsed = s0.parsed \cup {refid}
      /\ t.parsed \subseteq DOMAIN t.refs \cup {"index"}
      /\ t.top = s0.top
  BY <1>1, <1>2 DEF Parsed, MoreInstances, StoreInv
<1>4. TopInv(v, t)
  BY <1>3 DEF StoreInv, TopInv
<1>5. /\ t.failed \subseteq t.parsed
      /\ DOMAIN t.members \subseteq t.parsed \ t.failed
      /\ ReadInv(v, t)
  <2>1. CASE NothingRead(s0, refid, t)
    <3>1. t.failed = s0.failed /\ t.members = s0.members
      BY <2>1 DEF NothingRead
    <3> QED
      BY <1>3, <3>1 DEF StoreInv, ReadInv
  <2>2. CASE FileRead(v, s0, refid, t)
    <3>1. refid \notin s0.parsed
      BY <2>2 DEF FileRead
    <3>2. \/ /\ t.failed = s0.failed /\ t.members = s0.members
          \/ /\ x.file = "broken"
             /\ t.failed = s0.failed \cup {refid} /\ t.members = s0.members
          \/ /\ x.file = "good" /\ t.failed = s0.failed
             /\ \E ms : /\ t.members = Put(s0.members, {refid}, ms)
                        /\ s0.refs[refid] # "group" => ms = Unique(x.members)
      BY <2>2 DEF FileRead
    <3>3. CASE t.failed = s0.failed /\ t.members = s0.members
      BY <1>3, <3>3 DEF StoreInv, ReadInv
    <3>4. CASE /\ x.file = "broken"
               /\ t.failed = s0.failed \cup {refid} /\ t.members = s0.members
      BY <1>3, <3>1, <3>4 DEF StoreInv, ReadInv
    <3>5. CASE /\ x.file = "good" /\ t.failed = s0.failed
               /\ \E ms : /\ t.members = Put(s0.members, {refid}, ms)
                          /\ s0.refs[refid] # "group" => ms = Unique(x.members)
      <4>1. PICK ms : /\ t.members = Put(s0.members, {refid}, ms)
                      /\ s0.refs[refid] # "group" => ms = Unique(x.members)
        BY <3>5
      <4>2. /\ DOMAIN t.members = DOMAIN s0.members \cup {refid}
            /\ t.members[refid] = ms
            /\ \A r \in DOMAIN s0.members : r # refid => t.members[r] = s0.members[r]
        BY <4>1 DEF Put
      <4>3. refid \notin s0.failed
        BY <3>1 DEF StoreInv
      <4>4. /\ t.failed \subseteq t.parsed
            /\ DOMAIN t.members \subseteq t.parsed \ t.failed
            /\ DOMAIN t.members \subseteq DOMAIN t.refs
            /\ \A r \in t.failed : v.xml[r].file = "broken"
        BY <1>3, <3>5, <4>2, <4>3 DEF StoreInv, ReadInv
      <4>5. \A r \in DOMAIN t.members :
              /\ v.xml[r].file = "good"
              /\ t.refs[r] # "group" => t.members[r] = Unique(v.xml[r].members)
        <5>1. refid \in DOMAIN s0.refs
          OBVIOUS
        <5> QED
          BY <1>3, <3>5, <4>1, <4>2, <5>1 DEF StoreInv, ReadInv
      <4> QED
        BY <4>4, <4>5 DEF ReadInv
    <3> QED
      BY <3>2, <3>3, <3>4, <3>5
  <2> QED
    BY <1>1, <2>1, <2>2
<1>6. ClassInv(v, t)
  <2>1. ASSUME NEW r \in t.parsed \ {"index"}, t.refs[r] = "class"
        PROVE  r \in t.failed \cup DOMAIN t.members \/ v.xml[r].file = "missing"
    <3>1. r \in DOMAIN s0.refs /\ s0.refs[r] = "class"
      BY <1>3, <2>1 DEF StoreInv
    <3>2. CASE NothingRead(s0, refid, t)
      <4>1. r \in s0.parsed \ {"index"} /\ t.failed = s0.failed /\ t.members = s0.members
        BY <1>3, <2>1, <3>1, <3>2 DEF NothingRead
      <4> QED
        BY <3>1, <4>1 DEF StoreInv, ClassInv
    <3>3. CASE FileRead(v, s0, refid, t) /\ r = refid
      <4>1. v.xml[refid].file \in {"good", "broken", "missing"}
        BY <1>2 DEF IsWorld
      <4>2. \/ x.file \notin {"good", "broken"}
            \/ t.failed = s0.failed \cup {refid}
            \/ \E ms : t.members = Put(s0.members, {refid}, ms)
        BY <3>3 DEF FileRead
      <4>3. \A ms : refid \in DOMAIN Put(s0.members, {refid}, ms)
        BY DEF Put
      <4> QED
        BY <3>3, <4>1, <4>2, <4>3
    <3>4. CASE FileRead(v, s0, refid, t) /\ r # refid
      <4>1. r \in s0.parsed \ {"index"} /\ s0.failed \subseteq t.failed
            /\ DOMAIN s0.members \subseteq DOMAIN t.members
        BY <1>1, <1>3, <2>1, <3>4 DEF FileRead, Parsed
      <4> QED
        BY <3>1, <4>1 DEF StoreInv, ClassInv
    <3> QED
      BY <1>1, <3>2, <3>3, <3>4
  <2> QED
    BY <2>1 DEF ClassInv
<1> QED
  BY <1>3, <1>4, <1>5, <1>6 DEF StoreInv, t

\* u differs from t in the exception and the members of the index at most.
SameObjects(t, u) ==
  /\ IsStore(u)
  /\ u.refs = t.refs /\ u.nameless = t.nameless /\ u.parsed = t.parsed
  /\ u.failed = t.failed /\ u.members = t.members

LEMMA SameObjectsInv ==
  ASSUME NEW v, NEW t, StoreInv(v, t), NEW u, SameObjects(t, u), TopInv(v, u)
  PROVE  StoreInv(v, u)
  BY DEF StoreInv, SameObjects, ReadInv, ClassInv

LEMMA Raises ==
  ASSUME NEW v, NEW t, StoreInv(v, t), NEW e
  PROVE  /\ SameObjects(t, [t EXCEPT !.raised = e])
         /\ [t EXCEPT !.raised = e].top = t.top
         /\ [t EXCEPT !.raised = e].raised = e
         /\ StoreInv(v, [t EXCEPT !.raised = e])
<1> DEFINE u == [t EXCEPT !.raised = e]
<1>1. SameObjects(t, u) /\ u.top = t.top /\ u.raised = e
  BY DEF StoreInv, IsStore, SameObjects
<1> HIDE DEF u
<1>2. TopInv(v, u)
  BY <1>1 DEF StoreInv, TopInv, SameObjects
<1>3. StoreInv(v, u)
  BY <1>1, <1>2, SameObjectsInv
<1> QED
  BY <1>1, <1>3 DEF u

LEMMA ConfirmInv ==
  ASSUME NEW v, IsWorld(v), NEW s0, StoreInv(v, s0), NEW refid \in DOMAIN s0.refs
  PROVE  LET t == Parse(v, s0, refid)
             u == Confirm(v, s0, refid)
         IN  /\ StoreInv(v, u) /\ SameObjects(t, u) /\ u.top = t.top
             /\ u.raised = IF t.raised = "no" /\ refid \in t.failed
                           THEN "ParsingError" ELSE t.raised
<1> DEFINE t == Parse(v, s0, refid)
<1>1. StoreInv(v, t)
  BY ParseInv
<1>2. Confirm(v, s0, refid) = IF t.raised = "no" /\ refid \in t.failed
                              THEN [t EXCEPT !.raised = "ParsingError"] ELSE t
  BY DEF Confirm
<1> HIDE DEF t
<1>3. CASE t.raised = "no" /\ refid \in t.failed
  BY <1>1, <1>2, <1>3, Raises DEF t
<1>4. CASE ~(t.raised = "no" /\ refid \in t.failed)
  <2>1. SameObjects(t, t)
    BY <1>1 DEF StoreInv, SameObjects
  <2> QED
    BY <1>1, <1>2, <1>4, <2>1 DEF t
<1> QED
  BY <1>3, <1>4

\* The compounds of the index, and that a refid belongs to one of them.
LEMMA IndexTypes ==
  ASSUME NEW v, IsWorld(v), NEW c \in ToSet(v.index)
  PROVE  /\ c \in Def /\ c.refid \in DOMAIN v.xml
         /\ \A d \in ToSet(v.index) : d.refid = c.refid => d = c
<1>1. PICK S : S = [kind : CompoundKind, refid : DOMAIN v.xml, name : STRING]
  OBVIOUS
<1>2. v.index \in Seq(S)
  BY <1>1 DEF IsWorld
<1>3. \A i \in DOMAIN v.index : v.index[i] \in S
  BY <1>2, ElementOfSeq
<1>4. c \in S
  BY <1>3 DEF ToSet
<1>5. DOMAIN v.xml \subseteq STRING
  BY DEF IsWorld
<1>6. \A d \in ToSet(v.index) : d.refid = c.refid => d = c
  BY DEF ToSet, IsWorld
<1> QED
  BY <1>1, <1>4, <1>5, <1>6 DEF Def, CompoundKind

LEMMA FromParseDataInv ==
  ASSUME NEW v, IsWorld(v), NEW s0, StoreInv(v, s0), NEW c \in ToSet(v.index)
  PROVE  StoreInv(v, FromParseData(s0, c))
<1> DEFINE t == FromParseData(s0, c)
<1>1. /\ IsStore(t) /\ OnlyInstances(s0, t) /\ MoreInstances(s0, t, {c.refid})
      /\ t.nameless = s0.nameless
  BY FromParseDataStore DEF StoreInv
<1>2. c.refid \in DOMAIN v.xml
  BY IndexTypes
<1> HIDE DEF t
<1>3. ReadInv(v, t)
  BY <1>1 DEF OnlyInstances, MoreInstances, StoreInv, ReadInv
<1>4. TopInv(v, t)
  BY <1>1 DEF OnlyInstances, MoreInstances, StoreInv, TopInv
<1>5. ClassInv(v, t)
  BY <1>1 DEF OnlyInstances, MoreInstances, StoreInv, ClassInv
<1> QED
  BY <1>1, <1>2, <1>3, <1>4, <1>5 DEF OnlyInstances, MoreInstances, StoreInv, t

\* The members of a class or file are no compounds.
LEMMA MembersTypes ==
  ASSUME NEW v, IsWorld(v), NEW s0, StoreInv(v, s0), NEW refid,
         refid \in DOMAIN s0.members => s0.refs[refid] # "group"
  PROVE  /\ MembersOf(s0, refid) \in Seq(Def)
         /\ \A d \in ToSet(MembersOf(s0, refid)) : d.kind \notin {"class", "file"}
<1>1. CASE refid \notin DOMAIN s0.members
  <2>1. MembersOf(s0, refid) = <<>>
    BY <1>1 DEF MembersOf, Get
  <2> QED
    BY <2>1 DEF ToSet
<1>2. CASE refid \in DOMAIN s0.members
  <2>1. PICK S : S = [kind : MemberKind, refid : {""}, name : STRING]
    OBVIOUS
  <2>2. refid \in DOMAIN v.xml
    BY <1>2 DEF StoreInv, ReadInv
  <2>3. v.xml[refid].members \in Seq(S)
    BY <2>1, <2>2 DEF IsWorld
  <2>4. MembersOf(s0, refid) = Unique(v.xml[refid].members)
    BY <1>2 DEF MembersOf, Get, StoreInv, ReadInv
  <2>5. MembersOf(s0, refid) \in Seq(S \cup {None})
    BY <2>3, <2>4, UniqueType
  <2>6. \A d \in S \cup {None} : d \in Def /\ d.kind \notin {"class", "file"}
    <3>1. None \in Def /\ None.kind \notin {"class", "file"}
      BY DEF Def, None
    <3>2. \A d \in S : d \in Def /\ d.kind \notin {"class", "file"}
      BY <2>1 DEF Def, MemberKind
    <3> QED
      BY <3>1, <3>2
  <2>7. \A i \in DOMAIN MembersOf(s0, refid) : MembersOf(s0, refid)[i] \in S \cup {None}
    BY <2>5, ElementOfSeq
  <2>8. \A d \in ToSet(MembersOf(s0, refid)) : d.kind \notin {"class", "file"}
    BY <2>6, <2>7 DEF ToSet
  <2>9. S \cup {None} \subseteq Def
    BY <2>6
  <2> QED
    BY <2>5, <2>8, <2>9, SeqMonotonic
<1> QED
  BY <1>1, <1>2

\* While the index is read, its objects come from it alone.
IndexKinds(v, s0) ==
  \A d \in ToSet(v.index) : d.refid \in DOMAIN s0.refs => s0.refs[d.refid] = d.kind

LEMMA ToSetConcat ==
  ASSUME NEW S, NEW q \in Seq(S), NEW r \in Seq(S)
  PROVE  q \o r \in Seq(S) /\ ToSet(q \o r) = ToSet(q) \cup ToSet(r)
<1>1. q \o r \in Seq(S) /\ Len(q \o r) = Len(q) + Len(r)
  OBVIOUS
<1>2. \A i \in 1..Len(q) : (q \o r)[i] = q[i]
  OBVIOUS
<1>3. \A i \in 1..Len(r) : (q \o r)[Len(q) + i] = r[i]
  OBVIOUS
<1>4. /\ DOMAIN q = 1..Len(q) /\ DOMAIN r = 1..Len(r)
      /\ DOMAIN (q \o r) = 1..(Len(q) + Len(r)) /\ Len(q) \in Nat /\ Len(r) \in Nat
  BY <1>1
<1>5. ASSUME NEW i \in 1..(Len(q) + Len(r)) PROVE (q \o r)[i] \in ToSet(q) \cup ToSet(r)
  <2>1. CASE i <= Len(q)
    BY <1>2, <1>4, <2>1 DEF ToSet
  <2>2. CASE i > Len(q)
    <3>1. PICK j : j = i - Len(q)
      OBVIOUS
    <3>2. j \in 1..Len(r) /\ i = Len(q) + j
      BY <1>4, <2>2, <3>1
    <3> QED
      BY <1>3, <1>4, <3>2 DEF ToSet
  <2> QED
    BY <1>4, <2>1, <2>2
<1>6. ToSet(q) \subseteq ToSet(q \o r)
  BY <1>2, <1>4 DEF ToSet
<1>7. ToSet(r) \subseteq ToSet(q \o r)
  <2> SUFFICES ASSUME NEW j \in 1..Len(r) PROVE r[j] \in ToSet(q \o r)
    BY <1>4 DEF ToSet
  <2>1. Len(q) + j \in DOMAIN (q \o r)
    BY <1>4
  <2> QED
    BY <1>3, <2>1 DEF ToSet
<1>8. ToSet(q \o r) \subseteq ToSet(q) \cup ToSet(r)
  BY <1>4, <1>5 DEF ToSet
<1> QED
  BY <1>1, <1>6, <1>7, <1>8

LEMMA FromParseDataKinds ==
  ASSUME NEW v, IsWorld(v), NEW s0, StoreInv(v, s0), IndexKinds(v, s0), NEW c \in ToSet(v.index)
  PROVE  IndexKinds(v, FromParseData(s0, c))
<1> DEFINE t == FromParseData(s0, c)
<1>1. /\ MoreInstances(s0, t, {c.refid})
      /\ c.refid \notin DOMAIN s0.refs => t.refs[c.refid] = c.kind
  BY FromParseDataStore DEF StoreInv
<1>2. \A d \in ToSet(v.index) : d.refid = c.refid => d = c
  BY IndexTypes
<1> HIDE DEF t
<1> QED
  BY <1>1, <1>2 DEF MoreInstances, IndexKinds, t

\* Nothing in compound c keeps the index from being read on.
CompoundReadable(v, c) ==
  HasClass(c.kind) /\ (c.kind = "file" /\ c.name \in Headers => v.xml[c.refid].file = "good")

\* What the index makes of one compound.
IndexStep(v, s0, c, t) ==
  /\ StoreInv(v, t) /\ IndexKinds(v, t)
  /\ DOMAIN s0.refs \subseteq DOMAIN t.refs /\ s0.parsed \subseteq t.parsed
  /\ DOMAIN s0.members \subseteq DOMAIN t.members
  /\ t.nameless = s0.nameless
  /\ t.raised = "no" => c.refid \in DOMAIN t.refs
  /\ CompoundReadable(v, c) => t.raised = "no"

LEMMA IndexCompoundStep ==
  ASSUME NEW v, IsWorld(v), NEW s0, StoreInv(v, s0), IndexKinds(v, s0), NEW c \in ToSet(v.index)
  PROVE  IndexStep(v, s0, c, IndexCompound(v, s0, c))
<1> DEFINE known == FromParseData(s0, c)
           parsed == Parse(v, known, c.refid)
           sure == Confirm(v, known, c.refid)
           t == IndexCompound(v, s0, c)
<1>1. /\ StoreInv(v, known) /\ IndexKinds(v, known)
      /\ OnlyInstances(s0, known) /\ MoreInstances(s0, known, {c.refid})
      /\ known.nameless = s0.nameless /\ c.refid \in DOMAIN known.refs
  BY FromParseDataInv, FromParseDataKinds, FromParseDataStore DEF StoreInv
<1>2. c \in Def /\ c.refid \in DOMAIN v.xml
  BY IndexTypes
<1>3. /\ StoreInv(v, sure) /\ SameObjects(parsed, sure) /\ sure.top = parsed.top
      /\ sure.raised = IF parsed.raised = "no" /\ c.refid \in parsed.failed
                       THEN "ParsingError" ELSE parsed.raised
  BY <1>1, ConfirmInv
<1>4. /\ Parsed(v, known, c.refid, parsed)
      /\ NothingRead(known, c.refid, parsed) \/ FileRead(v, known, c.refid, parsed)
  BY <1>1, ParseStore DEF StoreInv
<1>5. t = IF ~HasClass(c.kind) THEN [s0 EXCEPT !.raised = "StandardError"]
          ELSE IF c.kind # "file" THEN [known EXCEPT !.top = Append(@, c), !.raised = "no"]
          ELSE IF c.name \notin Headers THEN [known EXCEPT !.raised = "no"]
          ELSE IF sure.raised # "no" THEN sure
          ELSE [sure EXCEPT !.top = @ \o MembersOf(sure, c.refid) \o <<c>>]
  BY DEF IndexCompound
<1> HIDE DEF known, parsed, sure, t
<1>6. CASE ~HasClass(c.kind)
  <2>1. t = [s0 EXCEPT !.raised = "StandardError"]
    BY <1>5, <1>6
  <2>2. /\ StoreInv(v, t) /\ t.refs = s0.refs /\ t.parsed = s0.parsed /\ t.members = s0.members
        /\ t.nameless = s0.nameless /\ t.raised = "StandardError"
    BY <2>1, Raises DEF SameObjects
  <2> QED
    BY <1>6, <2>2 DEF IndexStep, IndexKinds, CompoundReadable, t
<1>7. CASE HasClass(c.kind) /\ c.kind # "file"
  <2> DEFINE top_ == Append(known.top, c)
             u == [known EXCEPT !.top = top_, !.raised = "no"]
  <2>1. t = u
    BY <1>5, <1>7
  <2>2. known.top \in Seq(Def) /\ <<c>> \in Seq(Def) /\ top_ = known.top \o <<c>>
    BY <1>1, <1>2, AppendIsConcat DEF StoreInv, TopInv
  <2>3. top_ \in Seq(Def) /\ ToSet(top_) = ToSet(known.top) \cup ToSet(<<c>>)
    <3>1. PICK q, r : q = known.top /\ r = <<c>>
      OBVIOUS
    <3>2. q \in Seq(Def) /\ r \in Seq(Def) /\ top_ = q \o r
      BY <2>2, <3>1
    <3> HIDE DEF top_
    <3>3. q \o r \in Seq(Def) /\ ToSet(q \o r) = ToSet(q) \cup ToSet(r)
      BY <3>2, ToSetConcat
    <3> QED
      BY <3>1, <3>2, <3>3
  <2>4. ToSet(<<c>>) = {c}
    BY DEF ToSet
  <2> HIDE DEF top_
  <2>5. SameObjects(known, u) /\ u.top = top_ /\ u.raised = "no"
    BY <1>1 DEF StoreInv, IsStore, SameObjects
  <2> HIDE DEF u
  <2>6. TopInv(v, u)
    BY <1>1, <2>3, <2>4, <2>5 DEF TopInv, StoreInv, SameObjects
  <2>7. StoreInv(v, u)
    BY <1>1, <2>5, <2>6, SameObjectsInv
  <2> QED
    BY <1>1, <2>1, <2>5, <2>7 DEF IndexStep, IndexKinds, SameObjects, OnlyInstances,
       MoreInstances, t
<1>8. CASE HasClass(c.kind) /\ c.kind = "file" /\ c.name \notin Headers
  <2>1. t = [known EXCEPT !.raised = "no"]
    BY <1>5, <1>8
  <2>2. SameObjects(known, t) /\ StoreInv(v, t) /\ t.raised = "no"
    BY <1>1, <2>1, Raises
  <2> QED
    BY <1>1, <2>2 DEF IndexStep, IndexKinds, SameObjects, OnlyInstances, MoreInstances, t
<1>9. CASE HasClass(c.kind) /\ c.kind = "file" /\ c.name \in Headers
  <2>1. known.refs[c.refid] = "file"
    BY <1>1, <1>9 DEF IndexKinds
  <2>2. /\ sure.refs = known.refs /\ sure.nameless = known.nameless
        /\ sure.parsed = known.parsed \cup {c.refid}
        /\ DOMAIN known.members \subseteq DOMAIN sure.members
    BY <1>3, <1>4, <2>1 DEF Parsed, SameObjects
  <2>3. v.xml[c.refid].file = "good" => sure.raised = "no"
    <3> SUFFICES ASSUME v.xml[c.refid].file = "good" PROVE sure.raised = "no"
      OBVIOUS
    <3>1. parsed.raised = "no"
      BY <1>4 DEF NothingRead, FileRead
    <3>2. c.refid \notin sure.failed
      BY <1>3 DEF StoreInv, ReadInv
    <3> QED
      BY <1>3, <3>1, <3>2 DEF SameObjects
  <2>4. CASE sure.raised # "no"
    BY <1>1, <1>3, <1>5, <1>9, <2>2, <2>3, <2>4 DEF IndexStep, IndexKinds, OnlyInstances,
       MoreInstances, CompoundReadable, t
  <2>5. CASE sure.raised = "no"
    <3> DEFINE ms == MembersOf(sure, c.refid)
               top_ == sure.top \o ms \o <<c>>
               u == [sure EXCEPT !.top = top_]
    <3>1. t = u
      BY <1>5, <1>9, <2>5
    <3>2. ms \in Seq(Def) /\ \A d \in ToSet(ms) : d.kind # "class"
      BY <1>3, <2>1, <2>2, MembersTypes
    <3> HIDE DEF ms
    <3>3. sure.top \in Seq(Def) /\ <<c>> \in Seq(Def)
      BY <1>2, <1>3 DEF StoreInv, TopInv
    <3>4. sure.top \o ms \in Seq(Def) /\ ToSet(sure.top \o ms) = ToSet(sure.top) \cup ToSet(ms)
      BY <3>2, <3>3, ToSetConcat
    <3>5. top_ \in Seq(Def) /\ ToSet(top_) = ToSet(sure.top \o ms) \cup ToSet(<<c>>)
      <4>1. PICK q, r : q = sure.top \o ms /\ r = <<c>>
        OBVIOUS
      <4>2. q \in Seq(Def) /\ r \in Seq(Def) /\ top_ = q \o r
        BY <3>3, <3>4, <4>1
      <4> HIDE DEF top_
      <4>3. q \o r \in Seq(Def) /\ ToSet(q \o r) = ToSet(q) \cup ToSet(r)
        BY <4>2, ToSetConcat
      <4> QED
        BY <4>1, <4>2, <4>3
    <3>6. ToSet(<<c>>) = {c}
      BY DEF ToSet
    <3> HIDE DEF top_
    <3>7. SameObjects(sure, u) /\ u.top = top_ /\ u.raised = "no"
      BY <1>3, <2>5 DEF StoreInv, IsStore, SameObjects
    <3> HIDE DEF u
    <3>8. TopInv(v, u)
      BY <1>3, <1>9, <3>2, <3>4, <3>5, <3>6, <3>7 DEF TopInv, StoreInv, SameObjects
    <3>9. StoreInv(v, u)
      BY <1>3, <3>7, <3>8, SameObjectsInv
    <3> QED
      BY <1>1, <2>2, <3>1, <3>7, <3>9 DEF IndexStep, IndexKinds, SameObjects, OnlyInstances,
         MoreInstances, t
  <2> QED
    BY <2>4, <2>5
<1> QED
  BY <1>6, <1>7, <1>8, <1>9

------------------------------------------------------------------------------
(* The index, the search for blocks and the client                          *)

PCs == {"client", "index", "blocks", "entries", "functions", "classes", "done", "crashed"}

ControlInv ==
  /\ w \in Worlds
  /\ pc \in PCs /\ back \in {"client", "blocks"}
  /\ calls \in 0..MaxCalls
  /\ blocks \in Seq(Def) /\ ToSet(blocks) \subseteq Compounds("class")

\* Nothing is made before the index is asked for; from then on its compounds are made,
\* and while they are, nothing else is.
IndexInv ==
  /\ "index" \notin s.parsed => DOMAIN s.refs = {}
  /\ pc = "index" =>
       /\ left \in Seq(Def) /\ ToSet(left) \subseteq ToSet(w.index)
       /\ IndexKinds(w, s) /\ s.nameless = {} /\ "index" \in s.parsed
       /\ \A c \in ToSet(w.index) : c \in ToSet(left) \/ c.refid \in DOMAIN s.refs
  /\ pc # "index" /\ "index" \in s.parsed /\ IndexReadable =>
       /\ \A c \in ToSet(w.index) : c.refid \in DOMAIN s.refs \ s.nameless
       /\ IndexKinds(w, s)

\* The classes among the members of the index are parsed one after the other.
Classes == {d \in ToSet(s.top) : d.kind = "class"}
SearchInv ==
  /\ pc = "blocks" => /\ left \in Seq(Def) /\ ToSet(left) \subseteq ToSet(s.top)
                      /\ \A d \in Classes : d \in ToSet(left) \/ d.refid \in s.parsed
  /\ pc \in {"entries", "functions", "classes"} => \A d \in Classes : d.refid \in s.parsed
  /\ pc = "entries" => left \in Seq(Def) /\ ToSet(left) \subseteq ToSet(blocks)
  /\ pc = "functions" => left \in Seq(Def) /\ \A d \in ToSet(left) : d.kind = "function"
  /\ pc = "classes" => left \in Seq(Def) /\ ToSet(left) \subseteq Classes

\* The blocks found could be read, and have a make function to look for; after an index
\* read to its end what was read is the file of the block.
BlockInv ==
  \A b \in ToSet(blocks) : /\ b.name \in DOMAIN MakeName /\ b.refid \in DOMAIN s.members
                           /\ IndexReadable => IsBlockFile(b)

GenInv == ControlInv /\ StoreInv(w, s) /\ IndexInv /\ SearchInv /\ BlockInv

LEMMA BlocksStay ==
  ASSUME BlockInv, UNCHANGED <<w, blocks>>, DOMAIN s.members \subseteq DOMAIN s'.members
  PROVE  BlockInv'
<1>1. IndexReadable' <=> IndexReadable
  BY DEF IndexReadable, HeaderFiles, Compounds, Good
<1>2. \A b : IsBlockFile(b)' <=> IsBlockFile(b)
  BY DEF IsBlockFile, Good
<1> QED
  BY <1>1, <1>2 DEF BlockInv

LEMMA HeadTailSet ==
  ASSUME NEW S, NEW q \in Seq(S), q # <<>>
  PROVE  /\ Tail(q) \in Seq(S) /\ Head(q) \in ToSet(q)
         /\ ToSet(q) = {Head(q)} \cup ToSet(Tail(q))
<1>1. /\ Tail(q) \in Seq(S) /\ Len(q) \in Nat \ {0} /\ Len(Tail(q)) = Len(q) - 1
      /\ DOMAIN q = 1..Len(q) /\ DOMAIN Tail(q) = 1..Len(Tail(q)) /\ Head(q) = q[1]
  OBVIOUS
<1>2. \A i \in 1..(Len(q) - 1) : Tail(q)[i] = q[i + 1]
  OBVIOUS
<1>3. Head(q) \in ToSet(q)
  BY <1>1 DEF ToSet
<1>4. ToSet(Tail(q)) \subseteq ToSet(q)
  <2> SUFFICES ASSUME NEW i \in 1..(Len(q) - 1) PROVE Tail(q)[i] \in ToSet(q)
    BY <1>1 DEF ToSet
  <2>1. i + 1 \in DOMAIN q
    BY <1>1
  <2> QED
    BY <1>2, <2>1 DEF ToSet
<1>5. ToSet(q) \subseteq {Head(q)} \cup ToSet(Tail(q))
  <2> SUFFICES ASSUME NEW i \in 1..Len(q), i # 1 PROVE q[i] \in ToSet(Tail(q))
    BY <1>1 DEF ToSet
  <2>1. PICK j : j = i - 1
    OBVIOUS
  <2>2. j \in 1..(Len(q) - 1) /\ i = j + 1 /\ j \in DOMAIN Tail(q)
    BY <1>1, <2>1
  <2>3. Tail(q)[j] = q[i]
    BY <1>2, <2>2
  <2> QED
    BY <2>2, <2>3 DEF ToSet
<1> QED
  BY <1>1, <1>3, <1>4, <1>5

LEMMA StoreTypes ==
  ASSUME GenInv
  PROVE  IsWorld(w) /\ s.top \in Seq(Def)
  BY WorldsAssumption DEF GenInv, ControlInv, StoreInv, TopInv

\* The index is marked as parsed before it is.
LEMMA AskedInv ==
  ASSUME NEW v, NEW s0, StoreInv(v, s0)
  PROVE  LET t == [s0 EXCEPT !.parsed = @ \cup {"index"}]
         IN  /\ StoreInv(v, t) /\ t.parsed = s0.parsed \cup {"index"}
             /\ t.refs = s0.refs /\ t.nameless = s0.nameless /\ t.top = s0.top
             /\ t.members = s0.members
<1> DEFINE t == [s0 EXCEPT !.parsed = @ \cup {"index"}]
<1>1. /\ IsStore(t) /\ t.refs = s0.refs /\ t.nameless = s0.nameless
      /\ t.parsed = s0.parsed \cup {"index"} /\ t.failed = s0.failed
      /\ t.members = s0.members /\ t.top = s0.top
  BY DEF StoreInv, IsStore
<1> HIDE DEF t
<1>2. "index" \notin DOMAIN s0.members \/ "index" \in s0.parsed
  BY DEF StoreInv
<1>3. ReadInv(v, t) /\ ClassInv(v, t) /\ TopInv(v, t)
  BY <1>1 DEF StoreInv, ReadInv, ClassInv, TopInv
<1>4. StoreInv(v, t)
  BY <1>1, <1>2, <1>3 DEF StoreInv
<1> QED
  BY <1>1, <1>4 DEF t

LEMMA GenInit == Init => GenInv
<1> SUFFICES ASSUME Init PROVE GenInv
  OBVIOUS
<1>1. /\ s.refs = <<>> /\ s.nameless = {} /\ s.parsed = {} /\ s.failed = {}
      /\ s.members = <<>> /\ s.top = <<>> /\ IsStore(s)
  BY DEF Init, NewStore, IsStore
<1>2. DOMAIN s.refs = {} /\ DOMAIN s.members = {} /\ ToSet(s.top) = {}
  BY <1>1 DEF ToSet
<1>3. <<>> \in Seq(Def) /\ ToSet(<<>>) = {}
  BY DEF ToSet
<1>4. StoreInv(w, s)
  BY <1>1, <1>2, <1>3 DEF StoreInv, ReadInv, ClassInv, TopInv
<1>5. ControlInv
  BY <1>3, CallsAssumption DEF Init, ControlInv, PCs
<1>6. IndexInv /\ SearchInv /\ BlockInv
  BY <1>1, <1>2, <1>3 DEF Init, IndexInv, SearchInv, BlockInv
<1> QED
  BY <1>4, <1>5, <1>6 DEF GenInv

LEMMA AskIndexGen ==
  ASSUME GenInv, pc = "client", NEW from \in {"client", "blocks"}, AskIndex(from),
         calls' \in 0..MaxCalls, UNCHANGED <<w, blocks>>
  PROVE  GenInv'
<1>1. /\ StoreInv(w, s') /\ s'.parsed = s.parsed \cup {"index"}
      /\ s'.refs = s.refs /\ s'.nameless = s.nameless /\ s'.top = s.top /\ back' = from
      /\ s'.members = s.members
  BY AskedInv DEF AskIndex, GenInv
<1>2. BlockInv'
  BY <1>1, BlocksStay DEF GenInv
<1>3. CASE IndexParsed
  <2>1. pc' = from /\ left' = IF from = "blocks" THEN s.top ELSE <<>>
    BY <1>3 DEF AskIndex
  <2>2. ControlInv'
    BY <1>1, <2>1 DEF GenInv, ControlInv, PCs, Compounds
  <2>3. IndexInv'
    BY <1>1, <1>3, <2>1 DEF GenInv, IndexInv, IndexParsed, IndexReadable, HeaderFiles, Compounds,
       Good, IndexKinds
  <2>4. SearchInv'
    BY <1>1, <2>1, StoreTypes DEF SearchInv, Classes
  <2> QED
    BY <1>2, <1>1, <2>2, <2>3, <2>4 DEF GenInv
<1>4. CASE ~IndexParsed
  <2>1. pc' = "index" /\ left' = w.index /\ DOMAIN s.refs = {}
    BY <1>4 DEF AskIndex, IndexParsed, GenInv, IndexInv
  <2>2. ControlInv'
    BY <1>1, <2>1 DEF GenInv, ControlInv, PCs, Compounds
  <2>3. w.index \in Seq(Def)
    <3>1. PICK S : S = [kind : CompoundKind, refid : DOMAIN w.xml, name : STRING]
      OBVIOUS
    <3>2. w.index \in Seq(S)
      BY <3>1, StoreTypes DEF IsWorld
    <3>3. S \subseteq Def
      BY <3>1, StoreTypes DEF IsWorld, Def, CompoundKind
    <3> QED
      BY <3>2, <3>3, SeqMonotonic
  <2>4. IndexInv'
    BY <1>1, <2>1, <2>3 DEF IndexInv, IndexKinds, GenInv, StoreInv
  <2>5. SearchInv'
    BY <2>1 DEF SearchInv
  <2> QED
    BY <1>2, <1>1, <2>2, <2>4, <2>5 DEF GenInv
<1> QED
  BY <1>3, <1>4

LEMMA ParseIndexGen ==
  ASSUME GenInv, ParseIndex
  PROVE  GenInv'
<1>1. /\ pc = "index" /\ left \in Seq(Def) /\ ToSet(left) \subseteq ToSet(w.index)
      /\ IndexKinds(w, s) /\ s.nameless = {}
      /\ \A c \in ToSet(w.index) : c \in ToSet(left) \/ c.refid \in DOMAIN s.refs
      /\ UNCHANGED <<w, back, calls, blocks>> /\ StoreInv(w, s)
  BY DEF ParseIndex, GenInv, IndexInv
<1>2. pc' \in PCs => ControlInv'
  BY <1>1 DEF GenInv, ControlInv, Compounds
<1>3. CASE left = <<>>
  <2>1. pc' = back /\ left' = (IF back = "blocks" THEN s.top ELSE <<>>) /\ s' = s
    BY <1>1, <1>3 DEF ParseIndex
  <2>2. pc' \in {"client", "blocks"}
    BY <2>1 DEF GenInv, ControlInv
  <2>3. IndexInv'
    <3>1. \A c \in ToSet(w.index) : c.refid \in DOMAIN s.refs
      BY <1>1, <1>3 DEF ToSet
    <3> QED
      BY <1>1, <2>1, <2>2, <3>1 DEF GenInv, IndexInv, IndexKinds
  <2>4. SearchInv'
    BY <2>1, <2>2, StoreTypes DEF SearchInv, Classes
  <2>5. BlockInv'
    BY <1>1, <2>1, BlocksStay DEF GenInv
  <2> QED
    BY <1>1, <1>2, <2>1, <2>2, <2>3, <2>4, <2>5 DEF GenInv, PCs
<1>4. CASE left # <<>>
  <2> DEFINE c == Head(left)
             t == IndexCompound(w, s, c)
  <2>1. /\ IF t.raised # "no" THEN Raise(t) ELSE s' = t /\ left' = Tail(left) /\ pc' = pc
        /\ s' = t
    BY <1>1, <1>4 DEF ParseIndex, Raise
  <2>2. Tail(left) \in Seq(Def) /\ c \in ToSet(left) /\ ToSet(left) = {c} \cup ToSet(Tail(left))
    BY <1>1, <1>4, HeadTailSet
  <2>3. IndexStep(w, s, c, t)
    BY <1>1, <2>2, StoreTypes, IndexCompoundStep
  <2> HIDE DEF c, t
  <2>4. "index" \in s'.parsed
    <3>1. "index" \in s.parsed
      BY <1>1 DEF GenInv, IndexInv
    <3> QED
      BY <2>1, <2>3, <3>1 DEF IndexStep
  <2>5. BlockInv'
    BY <1>1, <2>1, <2>3, BlocksStay DEF GenInv, IndexStep
  <2>6. CASE t.raised # "no"
    <3>1. pc' \in {"client", "crashed"} /\ left' = <<>>
      BY <2>1, <2>6 DEF Raise
    <3>2. ~IndexReadable
      <4>1. ~CompoundReadable(w, c) /\ c \in ToSet(w.index)
        BY <1>1, <2>2, <2>3, <2>6 DEF IndexStep
      <4> QED
        BY <4>1 DEF CompoundReadable, IndexReadable, HeaderFiles, Compounds, Good
    <3>3. ~IndexReadable'
      BY <1>1, <3>2 DEF IndexReadable, HeaderFiles, Compounds, Good
    <3>4. IndexInv'
      BY <2>4, <3>1, <3>3 DEF IndexInv
    <3> QED
      BY <1>1, <1>2, <2>1, <2>3, <2>5, <3>1, <3>4 DEF GenInv, SearchInv, PCs, IndexStep
  <2>7. CASE t.raised = "no"
    <3>1. pc' = "index" /\ left' = Tail(left) /\ s' = t
      BY <1>1, <2>1, <2>7
    <3>2. IndexInv'
      BY <1>1, <2>2, <2>3, <2>4, <2>7, <3>1 DEF IndexInv, IndexStep
    <3> QED
      BY <1>1, <1>2, <2>3, <2>5, <3>1, <3>2 DEF GenInv, SearchInv, PCs, IndexStep
  <2> QED
    BY <2>6, <2>7
<1> QED
  BY <1>3, <1>4

\* An object is parsed: new ones are made for what had none, and only those are nameless.
LEMMA ParsedGen ==
  ASSUME GenInv, pc # "index", NEW refid \in DOMAIN s.refs,
         NEW t, Parsed(w, s, refid, t), StoreInv(w, t), s' = t, w' = w, pc' # "index"
  PROVE  StoreInv(w, s)' /\ IndexInv'
<1>1. /\ DOMAIN s.refs \subseteq DOMAIN t.refs /\ t.parsed = s.parsed \cup {refid}
      /\ \A r \in DOMAIN s.refs : t.refs[r] = s.refs[r]
      /\ t.nameless = s.nameless \cup (DOMAIN t.refs \ DOMAIN s.refs)
  BY DEF Parsed, MoreInstances
<1>2. "index" \in s.parsed
  BY DEF GenInv, IndexInv
<1>3. IndexReadable' <=> IndexReadable
  BY DEF IndexReadable, HeaderFiles, Compounds, Good
<1> QED
  BY <1>1, <1>2, <1>3 DEF GenInv, IndexInv, IndexKinds

LEMMA ClientCallGen ==
  ASSUME GenInv, ClientCall
  PROVE  GenInv'
<1>1. PICK refid \in DOMAIN s.refs : s' = Confirm(w, s, refid)
  BY DEF ClientCall
<1>2. /\ pc = "client" /\ pc' = pc /\ calls < MaxCalls /\ calls' = calls + 1
      /\ UNCHANGED <<w, back, left, blocks>>
  BY DEF ClientCall
<1>3. PICK t : t = Parse(w, s, refid)
  OBVIOUS
<1>4. StoreInv(w, s') /\ SameObjects(t, s') /\ s'.top = t.top
  BY <1>1, <1>3, StoreTypes, ConfirmInv DEF GenInv
<1>5. Parsed(w, s, refid, t)
  BY <1>3, ParseStore DEF GenInv, StoreInv
<1>6. Parsed(w, s, refid, s')
  BY <1>4, <1>5 DEF Parsed, SameObjects, MoreInstances
<1>7. StoreInv(w, s)' /\ IndexInv'
  BY <1>2, <1>4, <1>6, ParsedGen
<1>8. ControlInv'
  BY <1>2, CallsAssumption DEF GenInv, ControlInv, Compounds
<1>9. BlockInv'
  BY <1>2, <1>6, BlocksStay DEF GenInv, Parsed
<1> QED
  BY <1>2, <1>7, <1>8, <1>9 DEF GenInv, SearchInv

\* What includes() takes for a block has the friend in its file.
LEMMA BlockFound ==
  ASSUME GenInv, pc # "index", IndexReadable, NEW c \in Compounds("class"),
         NEW t, StoreInv(w, t), IsBlock(t, c), c.refid \in DOMAIN t.members,
         c.refid \in DOMAIN s.refs, t.refs[c.refid] = s.refs[c.refid]
  PROVE  IsBlockFile(c)
<1>1. c \in ToSet(w.index) /\ c.kind = "class" /\ "index" \in s.parsed
  BY DEF Compounds, GenInv, IndexInv
<1>2. t.refs[c.refid] = "class"
  BY <1>1 DEF GenInv, IndexInv, IndexKinds
<1>3. /\ Good(c)
      /\ MembersOf(t, c.refid) = Unique(w.xml[c.refid].members)
  BY <1>2 DEF StoreInv, ReadInv, MembersOf, Get, Good
<1>4. PICK S : S = [kind : MemberKind, refid : {""}, name : STRING]
  OBVIOUS
<1>5. w.xml[c.refid].members \in Seq(S)
  BY <1>1, <1>4, StoreTypes, IndexTypes DEF IsWorld
<1>6. Named(MembersOf(t, c.refid), "friend", MakeName[c.name]) # {}
  BY DEF IsBlock, GetMember
<1>7. First(w.xml[c.refid].members, "friend", MakeName[c.name])
  BY <1>3, <1>5, <1>6, NotFirst
<1> QED
  BY <1>3, <1>7 DEF IsBlockFile, IsBlock

LEMMA FindBlocksGen ==
  ASSUME GenInv, FindBlocks
  PROVE  GenInv'
<1>1. /\ pc = "blocks" /\ left \in Seq(Def) /\ ToSet(left) \subseteq ToSet(s.top)
      /\ UNCHANGED <<w, back, calls>> /\ StoreInv(w, s) /\ blocks \in Seq(Def)
      /\ ToSet(blocks) \subseteq Compounds("class")
  BY DEF FindBlocks, GenInv, SearchInv, ControlInv
<1>2. \A d \in Classes : d \in ToSet(left) \/ d.refid \in s.parsed
  BY <1>1 DEF GenInv, SearchInv
<1>3. CASE left = <<>>
  <2>1. pc' = "entries" /\ UNCHANGED <<s, blocks>> /\ left' = blocks
    BY <1>3 DEF FindBlocks
  <2>2. IndexReadable' <=> IndexReadable
    BY <1>1 DEF IndexReadable, HeaderFiles, Compounds, Good
  <2>3. SearchInv'
    BY <1>1, <1>3, <1>2, <2>1 DEF SearchInv, Classes, ToSet
  <2>4. BlockInv'
    BY <1>1, <2>1, BlocksStay DEF GenInv
  <2> QED
    BY <1>1, <2>1, <2>2, <2>3, <2>4 DEF GenInv, ControlInv, PCs, Compounds, IndexInv, IndexKinds
<1>4. CASE left # <<>>
  <2> DEFINE c == Head(left)
             t == IF c.kind = "class" THEN Parse(w, s, c.refid) ELSE s
  <2>1. /\ s' = t
        /\ \/ pc' \in {"client", "crashed"} /\ blocks' = blocks
           \/ /\ pc' = pc /\ left' = Tail(left)
              /\ \/ blocks' = blocks
                 \/ c.kind = "class" /\ IsBlock(t, c) /\ blocks' = Append(blocks, c)
    BY <1>4 DEF FindBlocks, Raise
  <2>2. Tail(left) \in Seq(Def) /\ c \in ToSet(left) /\ ToSet(left) = {c} \cup ToSet(Tail(left))
    BY <1>1, <1>4, HeadTailSet
  <2>3. c.kind = "class" => c \in ToSet(w.index) /\ c.refid \in DOMAIN s.refs
    BY <1>1, <2>2 DEF StoreInv, TopInv
  <2>4. c \in Def
    <3>1. \A i \in DOMAIN left : left[i] \in Def
      BY <1>1, ElementOfSeq
    <3> QED
      BY <2>2, <3>1 DEF ToSet
  <2> HIDE DEF c
  <2>5. /\ StoreInv(w, s)' /\ IndexInv' /\ s'.top = s.top
        /\ DOMAIN s.members \subseteq DOMAIN s'.members
        /\ s.parsed \subseteq s'.parsed
        /\ c.kind = "class" => c.refid \in s'.parsed /\ s'.refs[c.refid] = s.refs[c.refid]
    <3>1. CASE c.kind = "class"
      <4>1. StoreInv(w, t) /\ Parsed(w, s, c.refid, t)
        BY <1>1, <2>3, <3>1, StoreTypes, ParseInv, ParseStore DEF StoreInv
      <4> HIDE DEF t
      <4>2. StoreInv(w, s)' /\ IndexInv'
        BY <1>1, <2>1, <2>3, <3>1, <4>1, ParsedGen
      <4> QED
        BY <2>1, <2>3, <3>1, <4>1, <4>2 DEF Parsed, MoreInstances
    <3>2. CASE c.kind # "class"
      <4>1. s' = s
        BY <2>1, <3>2
      <4>2. IndexReadable' <=> IndexReadable
        BY <1>1 DEF IndexReadable, HeaderFiles, Compounds, Good
      <4> QED
        BY <1>1, <2>1, <3>2, <4>1, <4>2 DEF GenInv, IndexInv, IndexKinds
    <3> QED
      BY <3>1, <3>2
  <2> HIDE DEF t
  <2>6. blocks' \in Seq(Def) /\ ToSet(blocks') \subseteq Compounds("class") /\ BlockInv'
    <3>1. CASE blocks' = blocks
      BY <1>1, <2>5, <3>1, BlocksStay DEF GenInv
    <3>2. CASE c.kind = "class" /\ IsBlock(t, c) /\ blocks' = Append(blocks, c)
      <4>1. PICK q : q = <<c>>
        OBVIOUS
      <4>2. q \in Seq(Def) /\ ToSet(q) = {c} /\ blocks' = blocks \o q
        BY <1>1, <2>4, <3>2, <4>1, AppendIsConcat DEF ToSet
      <4>3. blocks \o q \in Seq(Def) /\ ToSet(blocks \o q) = ToSet(blocks) \cup ToSet(q)
        BY <1>1, <4>2, ToSetConcat
      <4>4. c \in Compounds("class")
        BY <2>3, <3>2 DEF Compounds
      <4>5. c.name \in DOMAIN MakeName /\ c.refid \in DOMAIN s'.members
        BY <2>1, <3>2, FoundInside DEF IsBlock
      <4>6. IndexReadable => IsBlockFile(c)
        <5>1. StoreInv(w, t) /\ t.refs[c.refid] = s.refs[c.refid] /\ c.refid \in DOMAIN t.members
          BY <1>1, <2>1, <2>5, <3>2, <4>5
        <5> QED
          BY <1>1, <2>3, <3>2, <4>4, <5>1, BlockFound
      <4>7. BlockInv'
        <5>1. IndexReadable' <=> IndexReadable
          BY <1>1 DEF IndexReadable, HeaderFiles, Compounds, Good
        <5>2. \A b : IsBlockFile(b)' <=> IsBlockFile(b)
          BY <1>1 DEF IsBlockFile, Good
        <5> QED
          BY <2>5, <4>2, <4>3, <4>5, <4>6, <5>1, <5>2 DEF GenInv, BlockInv
      <4> QED
        BY <1>1, <4>2, <4>3, <4>4, <4>7
    <3> QED
      BY <2>1, <3>1, <3>2
  <2>7. ControlInv'
    BY <1>1, <2>1, <2>6 DEF GenInv, ControlInv, PCs, Compounds
  <2>8. SearchInv'
    BY <1>1, <1>2, <2>1, <2>2, <2>5 DEF SearchInv, Classes
  <2> QED
    BY <2>5, <2>6, <2>7, <2>8 DEF GenInv
<1> QED
  BY <1>3, <1>4

\* The entries are written from what is there.
LEMMA EntriesGen ==
  ASSUME GenInv, BlockEntries \/ FunctionEntries \/ ClassEntries
  PROVE  GenInv'
<1>1. /\ UNCHANGED <<w, back, calls, blocks>> /\ s' = s
      /\ pc \in {"entries", "functions", "classes"} /\ pc' \in PCs \ {"index", "blocks"}
  BY DEF BlockEntries, FunctionEntries, ClassEntries, Raise, PCs
<1>2. IndexReadable' <=> IndexReadable
  BY <1>1 DEF IndexReadable, HeaderFiles, Compounds, Good
<1>3. \A d \in Classes : d.refid \in s.parsed
  BY <1>1 DEF GenInv, SearchInv
<1>4. s.top \in Seq(Def) /\ Classes' = Classes
  BY <1>1, StoreTypes DEF Classes
<1>5. pc' = "entries" => left' \in Seq(Def) /\ ToSet(left') \subseteq ToSet(blocks)
  <2> SUFFICES ASSUME pc' = "entries" PROVE left' \in Seq(Def) /\ ToSet(left') \subseteq ToSet(blocks)
    OBVIOUS
  <2>1. pc = "entries" /\ left # <<>> /\ left' = Tail(left)
    BY DEF BlockEntries, FunctionEntries, ClassEntries, Raise
  <2>2. left \in Seq(Def) /\ ToSet(left) \subseteq ToSet(blocks)
    BY <2>1 DEF GenInv, SearchInv
  <2> QED
    BY <2>1, <2>2, HeadTailSet
<1>6. pc' = "classes" => left' \in Seq(Def) /\ ToSet(left') \subseteq Classes
  <2> SUFFICES ASSUME pc' = "classes" PROVE left' \in Seq(Def) /\ ToSet(left') \subseteq Classes
    OBVIOUS
  <2>1. \/ left' = OfKind(s.top, "class")
        \/ pc = "classes" /\ left # <<>> /\ left' = Tail(left)
    BY DEF BlockEntries, FunctionEntries, ClassEntries, Raise
  <2>2. CASE left' = OfKind(s.top, "class")
    BY <1>4, <2>2, OfKindChooses DEF Classes
  <2>3. CASE pc = "classes" /\ left # <<>> /\ left' = Tail(left)
    <3>1. left \in Seq(Def) /\ ToSet(left) \subseteq Classes
      BY <2>3 DEF GenInv, SearchInv
    <3> QED
      BY <2>3, <3>1, HeadTailSet
  <2> QED
    BY <2>1, <2>2, <2>3
<1>7. pc' = "functions" => left' \in Seq(Def) /\ \A d \in ToSet(left') : d.kind = "function"
  <2> SUFFICES ASSUME pc' = "functions"
               PROVE  left' \in Seq(Def) /\ \A d \in ToSet(left') : d.kind = "function"
    OBVIOUS
  <2>1. \/ left' = OfKind(s.top, "function")
        \/ pc = "functions" /\ left # <<>> /\ left' = Tail(left)
    BY DEF BlockEntries, FunctionEntries, ClassEntries, Raise
  <2>2. CASE left' = OfKind(s.top, "function")
    BY <1>4, <2>2, OfKindChooses
  <2>3. CASE pc = "functions" /\ left # <<>> /\ left' = Tail(left)
    <3>1. left \in Seq(Def) /\ \A d \in ToSet(left) : d.kind = "function"
      BY <2>3 DEF GenInv, SearchInv
    <3> QED
      BY <2>3, <3>1, HeadTailSet
  <2> QED
    BY <2>1, <2>2, <2>3
<1>8. SearchInv'
  BY <1>1, <1>3, <1>4, <1>5, <1>6, <1>7 DEF SearchInv
<1>9. BlockInv'
  BY <1>1, BlocksStay DEF GenInv
<1> QED
  BY <1>1, <1>2, <1>8, <1>9 DEF GenInv, ControlInv, Compounds, IndexInv, IndexKinds

LEMMA GenNext == GenInv /\ [Next]_vars => GenInv'
<1> SUFFICES ASSUME GenInv, [Next]_vars PROVE GenInv'
  OBVIOUS
<1>1. CASE ClientIndex
  <2>1. calls' \in 0..MaxCalls
    BY <1>1, CallsAssumption DEF ClientIndex, GenInv, ControlInv
  <2> QED
    BY <1>1, <2>1, AskIndexGen DEF ClientIndex
<1>2. CASE ClientCall
  BY <1>2, ClientCallGen
<1>3. CASE Start
  <2>1. calls' \in 0..MaxCalls
    BY <1>3 DEF Start, GenInv, ControlInv
  <2> QED
    BY <1>3, <2>1, AskIndexGen DEF Start
<1>4. CASE ParseIndex
  BY <1>4, ParseIndexGen
<1>5. CASE FindBlocks
  BY <1>5, FindBlocksGen
<1>6. CASE BlockEntries \/ FunctionEntries \/ ClassEntries
  BY <1>6, EntriesGen
<1>7. CASE UNCHANGED vars
  <2>1. UNCHANGED <<w, s, pc, back, left, calls, blocks>>
    BY <1>7 DEF vars
  <2>2. IndexReadable' <=> IndexReadable
    BY <2>1 DEF IndexReadable, HeaderFiles, Compounds, Good
  <2>3. SearchInv' /\ BlockInv'
    BY <2>1, BlocksStay DEF GenInv, SearchInv, Classes
  <2> QED
    BY <2>1, <2>2, <2>3 DEF GenInv, ControlInv, Compounds, IndexInv, IndexKinds
<1> QED
  BY <1>1, <1>2, <1>3, <1>4, <1>5, <1>6, <1>7 DEF Next

\* Every reachable state of the client and the script satisfies the invariant, in which
\* base.py:47-89, base.py:185-219 and doxyindex.py:39-54 work together.
THEOREM GenAlways == Spec => []GenInv
  BY GenInit, GenNext, PTL DEF Spec

\* An object that failed or has members was parsed, only what exists was, and the blocks
\* found are classes of the index (base.py:192, swig_doc.py:198).
THEOREM ObjectsTyped == Spec => []TypeOK
<1>1. GenInv => TypeOK
  BY DEF GenInv, ControlInv, StoreInv, TypeOK, PCs
<1> QED
  BY <1>1, GenAlways, PTL

\* Where the index can be read to its end, every object of a compound has its name,
\* although groups list the same compounds and make what has no instance yet
\* (base.py:65, :77): they come too late for that.
THEOREM CompoundsNamed == Spec => []NamesKnown
<1>1. GenInv => NamesKnown
  BY DEF GenInv, IndexInv, NamesKnown, NameRaises
<1> QED
  BY <1>1, GenAlways, PTL

------------------------------------------------------------------------------
(* What the generation fails for                                            *)

\* The objects of the classes are those the index made, when it was read to its end.
LEMMA ClassObjects ==
  ASSUME GenInv, pc # "index", IndexReadable,
         NEW c \in Compounds("class"), c.refid \in DOMAIN s.refs
  PROVE  /\ c \in ToSet(w.index) /\ c.refid # "index" /\ "index" \in s.parsed
         /\ w.xml[c.refid].file \in {"good", "broken", "missing"}
         /\ w.xml[c.refid].members \in Seq([kind : MemberKind, refid : {""}, name : STRING])
         /\ s.refs[c.refid] = "class"
<1>1. c \in ToSet(w.index) /\ c.kind = "class"
  BY DEF Compounds
<1>2. c.refid \in DOMAIN w.xml
  BY <1>1, StoreTypes, IndexTypes
<1>3. /\ c.refid # "index" /\ w.xml[c.refid].file \in {"good", "broken", "missing"}
      /\ w.xml[c.refid].members \in Seq([kind : MemberKind, refid : {""}, name : STRING])
  BY <1>2, StoreTypes DEF IsWorld
<1>4. "index" \in s.parsed /\ IndexKinds(w, s)
  BY DEF GenInv, IndexInv
<1>5. s.refs[c.refid] = "class"
  BY <1>1, <1>4 DEF IndexKinds
<1> QED
  BY <1>1, <1>3, <1>4, <1>5

\* The generation failed for what the properties name.
Caused ==
  \/ ~IndexReadable
  \/ \E c \in Compounds("class") : Missing(c)
  \/ \E c \in Compounds("class") : IsBlockFile(c) /\ Incomplete(c)

\* What is asked of the objects changes nothing of the directory.
LEMMA CausedStays ==
  ASSUME Caused, w' = w, s'.top = s.top
  PROVE  Caused'
  BY DEF Caused, IndexReadable, HeaderFiles, Compounds, Good, Missing, Incomplete, IsBlockFile

LEMMA ParseIndexCause ==
  ASSUME GenInv, ParseIndex, pc' = "crashed"
  PROVE  Caused'
<1>1. /\ pc = "index" /\ left \in Seq(Def) /\ ToSet(left) \subseteq ToSet(w.index)
      /\ IndexKinds(w, s) /\ w' = w /\ StoreInv(w, s) /\ back # "crashed"
  BY DEF ParseIndex, GenInv, IndexInv, ControlInv
<1>2. left # <<>> /\ IndexCompound(w, s, Head(left)).raised # "no"
  BY <1>1 DEF ParseIndex
<1>3. Head(left) \in ToSet(w.index)
  BY <1>1, <1>2, HeadTailSet
<1>4. ~CompoundReadable(w, Head(left))
  BY <1>1, <1>2, <1>3, StoreTypes, IndexCompoundStep DEF IndexStep
<1>5. ~IndexReadable
  BY <1>3, <1>4 DEF CompoundReadable, IndexReadable, HeaderFiles, Compounds, Good
<1> QED
  BY <1>1, <1>5 DEF Caused, IndexReadable, HeaderFiles, Compounds, Good

LEMMA FindBlocksCause ==
  ASSUME GenInv, GenInv', FindBlocks, pc' = "crashed"
  PROVE  Caused'
<1>1. /\ pc = "blocks" /\ left \in Seq(Def) /\ ToSet(left) \subseteq ToSet(s.top)
      /\ w' = w /\ StoreInv(w, s)
  BY DEF FindBlocks, GenInv, SearchInv
<1>2. PICK c, t : c = Head(left) /\ t = Parse(w, s, c.refid)
  OBVIOUS
<1>3. /\ left # <<>> /\ c.kind = "class" /\ s' = t
      /\ t.raised # "no" \/ NameRaises(t, c.refid)
  BY <1>1, <1>2 DEF FindBlocks, Raise
<1>4. c \in ToSet(w.index) /\ c.refid \in DOMAIN s.refs
  BY <1>1, <1>2, <1>3, HeadTailSet DEF StoreInv, TopInv
<1>5. c \in Compounds("class")
  BY <1>3, <1>4 DEF Compounds
<1>6. IndexReadable' <=> IndexReadable
  BY <1>1 DEF IndexReadable, HeaderFiles, Compounds, Good
<1> SUFFICES ASSUME IndexReadable PROVE \E d \in Compounds("class") : Missing(d)
  BY <1>1, <1>6 DEF Caused, Compounds, Missing
<1>7. /\ "index" \in s.parsed /\ s.refs[c.refid] = "class"
      /\ w.xml[c.refid].file \in {"good", "broken", "missing"}
  BY <1>1, <1>4, <1>5, ClassObjects
<1>8. Parsed(w, s, c.refid, t) /\ (NothingRead(s, c.refid, t) \/ FileRead(w, s, c.refid, t))
  BY <1>1, <1>2, ParseStore DEF StoreInv
<1>9. ~NameRaises(t, c.refid)
  <2>1. "index" \in t.parsed
    BY <1>7, <1>8 DEF Parsed
  <2> QED
    BY <1>1, <1>3, <1>4, <1>6, <2>1 DEF GenInv, IndexInv, NameRaises
<1>10. t.raised # "no"
  BY <1>3, <1>9
<1>11. w.xml[c.refid].file = "missing"
  BY <1>7, <1>8, <1>10 DEF NothingRead, FileRead
<1> QED
  BY <1>5, <1>11 DEF Missing

LEMMA BlockEntriesCause ==
  ASSUME GenInv, BlockEntries, pc' = "crashed"
  PROVE  Caused'
<1>1. /\ pc = "entries" /\ left \in Seq(Def) /\ ToSet(left) \subseteq ToSet(blocks)
      /\ w' = w /\ StoreInv(w, s)
  BY DEF BlockEntries, GenInv, SearchInv
<1>2. PICK c : c = Head(left)
  OBVIOUS
<1>3. left # <<>> /\ BlockRaises(c) /\ s' = s
  BY <1>1, <1>2 DEF BlockEntries, Raise
<1>4. c \in ToSet(blocks)
  BY <1>1, <1>2, <1>3, HeadTailSet
<1>5. c \in Compounds("class") /\ c.name \in DOMAIN MakeName /\ c.refid \in DOMAIN s.members
  BY <1>4 DEF GenInv, ControlInv, BlockInv
<1> SUFFICES ASSUME IndexReadable PROVE Incomplete(c)
  <2>1. IndexReadable /\ Incomplete(c) => Caused
    <3>1. IndexReadable => IsBlockFile(c)
      BY <1>4 DEF GenInv, BlockInv
    <3> QED
      BY <1>5, <3>1 DEF Caused
  <2>2. ~IndexReadable => Caused
    BY DEF Caused
  <2> QED
    BY <1>1, <1>3, <2>1, <2>2, CausedStays
<1>6. c.refid \in DOMAIN s.refs
  BY <1>1, <1>5 DEF StoreInv, ReadInv
<1>7. /\ s.refs[c.refid] = "class"
      /\ w.xml[c.refid].members \in Seq([kind : MemberKind, refid : {""}, name : STRING])
  BY <1>1, <1>5, <1>6, ClassObjects
<1>8. /\ Good(c)
      /\ MembersOf(s, c.refid) = Unique(w.xml[c.refid].members)
  BY <1>1, <1>5, <1>7 DEF StoreInv, ReadInv, MembersOf, Get, Good
<1>9. CASE GetMember(MembersOf(s, c.refid), "function", c.name) # "found"
  <2>1. ~FunctionFirst(w.xml[c.refid].members, c.name)
    BY <1>7, <1>8, <1>9, FirstFound
  <2> QED
    BY <1>8, <2>1 DEF Incomplete
<1>10. CASE ~(GetMember(MembersOf(s, c.refid), "function", c.name) # "found")
  BY <1>3, <1>8, <1>10 DEF BlockRaises, Incomplete
<1> QED
  BY <1>9, <1>10

LEMMA ClassEntriesCause ==
  ASSUME GenInv, ClassEntries, pc' = "crashed"
  PROVE  Caused'
<1>1. /\ pc = "classes" /\ left \in Seq(Def) /\ ToSet(left) \subseteq Classes
      /\ \A d \in Classes : d.refid \in s.parsed
      /\ w' = w /\ StoreInv(w, s)
  BY DEF ClassEntries, GenInv, SearchInv
<1>2. PICK c : c = Head(left)
  OBVIOUS
<1>3. left # <<>> /\ Undescribed(c) /\ s' = s
  BY <1>1, <1>2 DEF ClassEntries, Raise
<1>4. c \in Classes
  BY <1>1, <1>2, <1>3, HeadTailSet
<1>5. c \in Compounds("class") /\ c.refid \in DOMAIN s.refs /\ c.refid \in s.parsed
  BY <1>1, <1>4 DEF Classes, Compounds, StoreInv, TopInv
<1> SUFFICES ASSUME IndexReadable PROVE Missing(c)
  <2>1. Missing(c) \/ ~IndexReadable => Caused
    BY <1>5 DEF Caused
  <2> QED
    BY <1>1, <1>3, <2>1, CausedStays
<1>6. s.refs[c.refid] = "class" /\ c.refid # "index"
  BY <1>1, <1>5, ClassObjects
<1> QED
  BY <1>1, <1>3, <1>5, <1>6 DEF Undescribed, StoreInv, ClassInv, Missing

LEMMA CauseNext == GenInv /\ GenInv' /\ CrashHasCause /\ [Next]_vars => CrashHasCause'
<1> SUFFICES ASSUME GenInv, GenInv', CrashHasCause, [Next]_vars, pc' = "crashed" PROVE Caused'
  BY DEF CrashHasCause, Caused
<1>1. CASE pc = "crashed"
  <2>1. w' = w /\ s' = s
    BY <1>1 DEF Next, vars, ClientIndex, ClientCall, Start, ParseIndex, FindBlocks,
       BlockEntries, FunctionEntries, ClassEntries
  <2>2. Caused
    BY <1>1 DEF CrashHasCause, Caused
  <2> QED
    BY <2>1, <2>2, CausedStays
<1>2. CASE pc # "crashed"
  <2>1. ParseIndex \/ FindBlocks \/ BlockEntries \/ ClassEntries
    BY <1>2 DEF Next, vars, ClientIndex, ClientCall, Start, AskIndex, FunctionEntries
  <2> QED
    BY <2>1, ParseIndexCause, FindBlocksCause, BlockEntriesCause, ClassEntriesCause
<1> QED
  BY <1>1, <1>2

\* The generation ends in an exception only for an index that cannot be read to its end, a
\* class whose file is missing, or a block without one of the functions its entry needs or
\* with two headers (swig_doc.py:158-178): the objects never fail for another reason,
\* whatever was asked of them before.
THEOREM CrashesHaveCauses == Spec => []CrashHasCause
<1>1. Init => CrashHasCause
  BY DEF Init, CrashHasCause
<1> QED
  BY <1>1, GenInit, GenNext, CauseNext, PTL DEF Spec

------------------------------------------------------------------------------
(* Every class and every method has one entry: the lists                    *)

ClassesIn(q) == {d \in ToSet(q) : d.kind = "class"}
FilesIn(q)   == {d \in ToSet(q) : d.kind = "file"}

\* No class is in q twice, and no refid.
NoTwice(q)    == \A i, j \in DOMAIN q : q[i] = q[j] /\ q[i].kind = "class" => i = j
RefidsOnce(q) == \A i, j \in DOMAIN q : q[i].refid = q[j].refid => i = j

LEMMA TailOnce ==
  ASSUME NEW S, NEW q \in Seq(S), q # <<>>
  PROVE  /\ NoTwice(q) => NoTwice(Tail(q))
         /\ NoTwice(q) /\ Head(q).kind = "class" => Head(q) \notin ToSet(Tail(q))
         /\ RefidsOnce(q) => RefidsOnce(Tail(q))
         /\ RefidsOnce(q) => \A d \in ToSet(Tail(q)) : d.refid # Head(q).refid
<1>1. PICK r : r = Tail(q)
  OBVIOUS
<1>2. /\ Len(q) \in Nat \ {0} /\ DOMAIN q = 1..Len(q) /\ DOMAIN r = 1..(Len(q) - 1)
      /\ Head(q) = q[1] /\ \A i \in 1..(Len(q) - 1) : r[i] = q[i + 1]
  BY <1>1
<1>3. \A i \in DOMAIN r : i + 1 \in DOMAIN q /\ i + 1 # 1 /\ 1 \in DOMAIN q /\ r[i] = q[i + 1]
  BY <1>2
<1>4. NoTwice(q) => NoTwice(r)
  <2> SUFFICES ASSUME NoTwice(q), NEW i \in DOMAIN r, NEW j \in DOMAIN r,
                      r[i] = r[j], r[i].kind = "class"
               PROVE  i = j
    BY DEF NoTwice
  <2>1. i + 1 = j + 1
    BY <1>3 DEF NoTwice
  <2> QED
    BY <1>2, <2>1
<1>5. NoTwice(q) /\ Head(q).kind = "class" => Head(q) \notin ToSet(r)
  BY <1>2, <1>3 DEF NoTwice, ToSet
<1>6. RefidsOnce(q) => RefidsOnce(r)
  <2> SUFFICES ASSUME RefidsOnce(q), NEW i \in DOMAIN r, NEW j \in DOMAIN r, r[i].refid = r[j].refid
               PROVE  i = j
    BY DEF RefidsOnce
  <2>1. i + 1 = j + 1
    BY <1>3 DEF RefidsOnce
  <2> QED
    BY <1>2, <2>1
<1>7. RefidsOnce(q) => \A d \in ToSet(r) : d.refid # Head(q).refid
  BY <1>2, <1>3 DEF RefidsOnce, ToSet
<1> QED
  BY <1>1, <1>4, <1>5, <1>6, <1>7

\* A class that follows what it is not in, and what is no class, make none double.
LEMMA ConcatOnce ==
  ASSUME NEW S, NEW q \in Seq(S), NEW r \in Seq(S), NoTwice(q), NoTwice(r),
         \A d \in ToSet(r) : d.kind = "class" => d \notin ToSet(q)
  PROVE  NoTwice(q \o r)
<1>1. PICK t : t = q \o r
  OBVIOUS
<1>2. /\ Len(q) \in Nat /\ Len(r) \in Nat
      /\ DOMAIN q = 1..Len(q) /\ DOMAIN r = 1..Len(r) /\ DOMAIN t = 1..(Len(q) + Len(r))
      /\ \A i \in 1..Len(q) : t[i] = q[i]
      /\ \A i \in 1..Len(r) : t[Len(q) + i] = r[i]
  BY <1>1
<1>3. \A i \in DOMAIN t : \/ i \in DOMAIN q /\ t[i] = q[i]
                          \/ \E k \in DOMAIN r : i = Len(q) + k /\ t[i] = r[k]
  <2> SUFFICES ASSUME NEW i \in DOMAIN t, i \notin DOMAIN q
               PROVE  \E k \in DOMAIN r : i = Len(q) + k /\ t[i] = r[k]
    BY <1>2
  <2>1. PICK k : k = i - Len(q)
    OBVIOUS
  <2>2. k \in 1..Len(r) /\ i = Len(q) + k
    BY <1>2, <2>1
  <2> QED
    BY <1>2, <2>2
<1>4. ASSUME NEW i \in DOMAIN t, NEW j \in DOMAIN t, t[i] = t[j], t[i].kind = "class"
      PROVE  i = j
  <2>1. CASE i \in DOMAIN q /\ t[i] = q[i] /\ j \in DOMAIN q /\ t[j] = q[j]
    BY <1>4, <2>1 DEF NoTwice
  <2>2. CASE i \in DOMAIN q /\ t[i] = q[i] /\ \E k \in DOMAIN r : j = Len(q) + k /\ t[j] = r[k]
    BY <1>4, <2>2 DEF ToSet
  <2>3. CASE j \in DOMAIN q /\ t[j] = q[j] /\ \E k \in DOMAIN r : i = Len(q) + k /\ t[i] = r[k]
    BY <1>4, <2>3 DEF ToSet
  <2>4. CASE /\ \E k \in DOMAIN r : i = Len(q) + k /\ t[i] = r[k]
             /\ \E k \in DOMAIN r : j = Len(q) + k /\ t[j] = r[k]
    <3>1. PICK k \in DOMAIN r : i = Len(q) + k /\ t[i] = r[k]
      BY <2>4
    <3>2. PICK m \in DOMAIN r : j = Len(q) + m /\ t[j] = r[m]
      BY <2>4
    <3>3. k = m
      BY <1>4, <3>1, <3>2 DEF NoTwice
    <3> QED
      BY <3>1, <3>2, <3>3
  <2> QED
    BY <1>3, <2>1, <2>2, <2>3, <2>4
<1> QED
  BY <1>1, <1>4 DEF NoTwice

LEMMA OneOnce ==
  ASSUME NEW d
  PROVE  NoTwice(<<d>>) /\ ToSet(<<d>>) = {d} /\ ClassesIn(<<d>>) = {e \in {d} : e.kind = "class"}
  BY DEF NoTwice, ToSet, ClassesIn

\* What the index makes of one compound, as to its list of members: a class is added, and
\* what cannot be read raises an exception when it is read for the first time.
TopStep(v, s0, c, t) ==
  /\ t.parsed \subseteq s0.parsed \cup {c.refid}
  /\ t.raised # "no" => t.top = s0.top
  /\ t.raised = "no" =>
       /\ ClassesIn(t.top) = ClassesIn(s0.top) \cup ClassesIn(<<c>>)
       /\ FilesIn(t.top) = FilesIn(s0.top) \cup {e \in {c} : e.kind = "file" /\ e.name \in Headers}
  /\ NoTwice(s0.top) /\ c \notin ClassesIn(s0.top) => NoTwice(t.top)
  /\ ~CompoundReadable(v, c) /\ c.refid \notin s0.parsed => t.raised # "no"

LEMMA IndexCompoundTop ==
  ASSUME NEW v, IsWorld(v), NEW s0, StoreInv(v, s0), IndexKinds(v, s0), NEW c \in ToSet(v.index)
  PROVE  TopStep(v, s0, c, IndexCompound(v, s0, c))
<1> DEFINE known == FromParseData(s0, c)
           parsed == Parse(v, known, c.refid)
           sure == Confirm(v, known, c.refid)
           t == IndexCompound(v, s0, c)
<1>1. /\ StoreInv(v, known) /\ IndexKinds(v, known) /\ c.refid \in DOMAIN known.refs
      /\ known.top = s0.top /\ known.parsed = s0.parsed
  BY FromParseDataInv, FromParseDataKinds, FromParseDataStore DEF StoreInv, OnlyInstances
<1>2. c \in Def /\ c.refid \in DOMAIN v.xml
  BY IndexTypes
<1>3. /\ StoreInv(v, sure) /\ SameObjects(parsed, sure) /\ sure.top = parsed.top
      /\ sure.raised = IF parsed.raised = "no" /\ c.refid \in parsed.failed
                       THEN "ParsingError" ELSE parsed.raised
  BY <1>1, ConfirmInv
<1>4. /\ Parsed(v, known, c.refid, parsed)
      /\ NothingRead(known, c.refid, parsed) \/ FileRead(v, known, c.refid, parsed)
  BY <1>1, ParseStore DEF StoreInv
<1>5. t = IF ~HasClass(c.kind) THEN [s0 EXCEPT !.raised = "StandardError"]
          ELSE IF c.kind # "file" THEN [known EXCEPT !.top = Append(@, c), !.raised = "no"]
          ELSE IF c.name \notin Headers THEN [known EXCEPT !.raised = "no"]
          ELSE IF sure.raised # "no" THEN sure
          ELSE [sure EXCEPT !.top = @ \o MembersOf(sure, c.refid) \o <<c>>]
  BY DEF IndexCompound
<1>6. PICK one : one = <<c>>
  OBVIOUS
<1>7. /\ NoTwice(one) /\ ToSet(one) = {c} /\ ClassesIn(one) = {e \in {c} : e.kind = "class"}
      /\ one \in Seq(Def)
  <2>1. <<c>> \in Seq(Def)
    BY <1>2
  <2> QED
    BY <1>6, <2>1, OneOnce
<1>8. s0.top \in Seq(Def)
  BY DEF StoreInv, TopInv
<1> HIDE DEF known, parsed, sure, t
<1>9. CASE ~HasClass(c.kind)
  <2>1. t = [s0 EXCEPT !.raised = "StandardError"]
    BY <1>5, <1>9
  <2>2. t.top = s0.top /\ t.parsed = s0.parsed /\ t.raised = "StandardError"
    BY <2>1, Raises DEF SameObjects
  <2> QED
    BY <2>2 DEF TopStep, t
<1>10. CASE HasClass(c.kind) /\ c.kind # "file"
  <2> DEFINE top_ == Append(known.top, c)
             u == [known EXCEPT !.top = top_, !.raised = "no"]
  <2>1. t = u
    BY <1>5, <1>10
  <2>2. top_ = s0.top \o one
    BY <1>1, <1>2, <1>6, <1>8, AppendIsConcat
  <2>3. ToSet(s0.top \o one) = ToSet(s0.top) \cup ToSet(one)
    BY <1>7, <1>8, ToSetConcat
  <2>4. NoTwice(s0.top) /\ c \notin ClassesIn(s0.top) => NoTwice(s0.top \o one)
    BY <1>7, <1>8, ConcatOnce DEF ClassesIn
  <2> HIDE DEF top_
  <2>5. u.top = top_ /\ u.raised = "no" /\ u.parsed = known.parsed
    BY <1>1 DEF StoreInv, IsStore
  <2> HIDE DEF u
  <2>6. ClassesIn(t.top) = ClassesIn(s0.top) \cup ClassesIn(one)
    BY <2>1, <2>2, <2>3, <2>5 DEF ClassesIn
  <2>7. FilesIn(t.top) = FilesIn(s0.top)
    BY <1>7, <1>10, <2>1, <2>2, <2>3, <2>5 DEF FilesIn
  <2>8. CompoundReadable(v, c)
    BY <1>10 DEF CompoundReadable
  <2> QED
    BY <1>1, <1>6, <1>10, <2>1, <2>2, <2>4, <2>5, <2>6, <2>7, <2>8 DEF TopStep, t
<1>11. CASE HasClass(c.kind) /\ c.kind = "file" /\ c.name \notin Headers
  <2>1. t = [known EXCEPT !.raised = "no"]
    BY <1>5, <1>11
  <2>2. t.top = s0.top /\ t.parsed = s0.parsed /\ t.raised = "no"
    BY <1>1, <2>1, Raises DEF SameObjects
  <2>3. CompoundReadable(v, c) /\ ClassesIn(one) = {}
    BY <1>7, <1>11 DEF CompoundReadable
  <2> QED
    BY <1>6, <1>11, <2>2, <2>3 DEF TopStep, t, FilesIn
<1>12. CASE HasClass(c.kind) /\ c.kind = "file" /\ c.name \in Headers
  <2>1. known.refs[c.refid] = "file"
    BY <1>1, <1>12 DEF IndexKinds
  <2>2. /\ sure.refs = known.refs /\ sure.parsed = s0.parsed \cup {c.refid} /\ sure.top = s0.top
    BY <1>1, <1>3, <1>4, <2>1 DEF Parsed, SameObjects
  <2>3. ~CompoundReadable(v, c) /\ c.refid \notin s0.parsed => sure.raised # "no"
    <3> SUFFICES ASSUME ~CompoundReadable(v, c), c.refid \notin s0.parsed PROVE sure.raised # "no"
      OBVIOUS
    <3>1. v.xml[c.refid].file # "good" /\ FileRead(v, known, c.refid, parsed)
      BY <1>1, <1>4, <1>12, <2>1 DEF CompoundReadable, NothingRead
    <3>2. parsed.raised # "no"
      BY <2>1, <3>1 DEF FileRead
    <3> QED
      BY <1>3, <3>2
  <2>4. ClassesIn(one) = {}
    BY <1>7, <1>12
  <2>5. CASE sure.raised # "no"
    <3>1. t = sure
      BY <1>5, <1>12, <2>5
    <3> QED
      BY <2>2, <2>5, <3>1 DEF TopStep, t
  <2>6. CASE sure.raised = "no"
    <3>1. PICK ms : ms = MembersOf(sure, c.refid)
      OBVIOUS
    <3> DEFINE top_ == sure.top \o ms \o one
               u == [sure EXCEPT !.top = top_]
    <3>2. t = u
      BY <1>5, <1>6, <1>12, <2>6, <3>1
    <3>3. ms \in Seq(Def) /\ \A d \in ToSet(ms) : d.kind \notin {"class", "file"}
      BY <1>3, <2>1, <2>2, <3>1, MembersTypes
    <3>4. PICK q : q = s0.top \o ms
      OBVIOUS
    <3>5. /\ q \in Seq(Def) /\ ToSet(q) = ToSet(s0.top) \cup ToSet(ms)
          /\ NoTwice(s0.top) => NoTwice(q)
      <4>1. NoTwice(ms)
        BY <3>3 DEF NoTwice, ToSet
      <4>2. q \in Seq(Def) /\ ToSet(q) = ToSet(s0.top) \cup ToSet(ms)
        BY <1>8, <3>3, <3>4, ToSetConcat
      <4>3. NoTwice(s0.top) => NoTwice(q)
        BY <1>8, <3>3, <3>4, <4>1, ConcatOnce
      <4> QED
        BY <4>2, <4>3
    <3>6. /\ ToSet(q \o one) = ToSet(q) \cup ToSet(one)
          /\ NoTwice(q) => NoTwice(q \o one)
      BY <1>7, <1>12, <3>5, ToSetConcat, ConcatOnce
    <3>7. top_ = q \o one
      BY <2>2, <3>4
    <3> HIDE DEF top_
    <3>8. u.top = top_ /\ u.raised = "no" /\ u.parsed = sure.parsed
      BY <1>3, <2>6 DEF StoreInv, IsStore
    <3> HIDE DEF u
    <3>9. ClassesIn(t.top) = ClassesIn(s0.top) \cup ClassesIn(one)
      BY <1>7, <1>12, <3>2, <3>3, <3>5, <3>6, <3>7, <3>8 DEF ClassesIn
    <3>10. FilesIn(t.top) = FilesIn(s0.top) \cup {e \in {c} : e.kind = "file" /\ e.name \in Headers}
      BY <1>7, <1>12, <3>2, <3>3, <3>5, <3>6, <3>7, <3>8 DEF FilesIn
    <3> QED
      BY <1>6, <2>2, <2>3, <2>6, <3>2, <3>5, <3>6, <3>7, <3>8, <3>9, <3>10 DEF TopStep, t
  <2> QED
    BY <2>5, <2>6
<1> QED
  BY <1>9, <1>10, <1>11, <1>12

\* The classes of a list, chosen from it, are in it once each if they were.
LEMMA OfKindOnce ==
  ASSUME NEW S, NEW defs \in Seq(S), NoTwice(defs)
  PROVE  /\ NoTwice(OfKind(defs, "class"))
         /\ ClassesIn(defs) \subseteq ToSet(OfKind(defs, "class"))
<1> DEFINE N == Len(defs)
           Before(n) == {d \in S : d.kind = "class" /\ \E j \in 1..n : defs[j] = d}
<1>1. N \in Nat /\ DOMAIN defs = 1..N
  OBVIOUS
<1>2. PICK g : Chooses(g, defs, "class", N) /\ OfKind(defs, "class") = g[N]
  BY <1>1, OfKindDefined
<1> HIDE DEF N
<1> DEFINE T == {n \in Nat : n \in 0..N => /\ g[n] \in Seq(S) /\ NoTwice(g[n])
                                           /\ ToSet(g[n]) = Before(n)}
<1>3. 0 \in T
  <2>1. 0 \in 0..N => g[0] = <<>>
    BY <1>2 DEF Chooses
  <2>2. <<>> \in Seq(S) /\ NoTwice(<<>>) /\ ToSet(<<>>) = {}
    BY DEF NoTwice, ToSet
  <2>3. Before(0) = {}
    OBVIOUS
  <2> HIDE DEF Before
  <2> QED
    BY <2>1, <2>2, <2>3
<1>4. ASSUME NEW n \in Nat, n \in T PROVE n + 1 \in T
  <2> SUFFICES ASSUME n + 1 \in 0..N
               PROVE  /\ g[n + 1] \in Seq(S) /\ NoTwice(g[n + 1])
                      /\ ToSet(g[n + 1]) = Before(n + 1)
    OBVIOUS
  <2>1. PICK next : next = n + 1
    OBVIOUS
  <2>2. next \in 1..N /\ next - 1 = n /\ n \in 0..N /\ next \in Nat
    BY <1>1, <2>1
  <2>3. g[n] \in Seq(S) /\ NoTwice(g[n]) /\ ToSet(g[n]) = Before(n)
    BY <1>4, <2>2
  <2>4. PICK q, r, d : q = g[n] /\ r = g[next] /\ d = defs[next]
    OBVIOUS
  <2>5. d \in S
    BY <1>1, <2>2, <2>4, ElementOfSeq
  <2>6. r = IF d.kind = "class" THEN Append(q, d) ELSE q
    BY <1>2, <2>2, <2>4 DEF Chooses, Chosen
  <2>7. \A j \in 1..next : j = next \/ j \in 1..n
    BY <2>2
  <2>8. next \in 1..next /\ \A j \in 1..n : j \in 1..next /\ j # next
    BY <2>1, <2>2
  <2>9. Before(next) = Before(n) \cup {e \in {d} : e.kind = "class"}
    BY <2>4, <2>5, <2>7, <2>8
  <2>10. d.kind = "class" => d \notin Before(n)
    <3> SUFFICES ASSUME d.kind = "class", NEW j \in 1..n, defs[j] = d PROVE FALSE
      OBVIOUS
    <3>1. j \in DOMAIN defs /\ next \in DOMAIN defs /\ j # next
      BY <1>1, <2>2
    <3> QED
      BY <2>4, <3>1 DEF NoTwice
  <2> HIDE DEF Before
  <2>11. CASE d.kind = "class"
    <3>1. PICK one : one = <<d>>
      OBVIOUS
    <3>2. one \in Seq(S) /\ NoTwice(one) /\ ToSet(one) = {d}
      <4>1. <<d>> \in Seq(S)
        BY <2>5
      <4> QED
        BY <3>1, <4>1, OneOnce
    <3>3. r = q \o one
      BY <2>3, <2>4, <2>5, <2>6, <2>11, <3>1, AppendIsConcat
    <3>4. /\ q \o one \in Seq(S) /\ ToSet(q \o one) = ToSet(q) \cup ToSet(one)
          /\ NoTwice(q \o one)
      BY <2>3, <2>4, <2>10, <2>11, <3>2, ToSetConcat, ConcatOnce
    <3> QED
      BY <2>1, <2>3, <2>4, <2>9, <2>11, <3>2, <3>3, <3>4
  <2>12. CASE d.kind # "class"
    BY <2>1, <2>3, <2>4, <2>6, <2>9, <2>12
  <2> QED
    BY <2>11, <2>12
<1> HIDE DEF T
<1>5. N \in T
  BY <1>1, <1>3, <1>4, SetInduction
<1>6. NoTwice(OfKind(defs, "class")) /\ ToSet(OfKind(defs, "class")) = Before(N)
  BY <1>1, <1>2, <1>5 DEF T
<1>7. ClassesIn(defs) \subseteq Before(N)
  <2>1. \A i \in DOMAIN defs : defs[i] \in S
    BY ElementOfSeq
  <2> QED
    BY <1>1, <2>1 DEF ClassesIn, ToSet
<1> QED
  BY <1>6, <1>7

\* Every class of the index is among its members, once.
Files == {d \in ToSet(s.top) : d.kind = "file"}
TopListInv ==
  /\ NoTwice(s.top) /\ Files \subseteq HeaderFiles
  /\ "index" \notin s.parsed => s.top = <<>> /\ pc = "client"
  /\ pc = "index" => /\ RefidsOnce(left)
                     /\ \A d \in Classes : d \notin ToSet(left)
                     /\ Compounds("class") \subseteq ToSet(left) \cup Classes
                     /\ HeaderFiles \subseteq ToSet(left) \cup Files
                     /\ \A c \in ToSet(left) : c.refid \notin s.parsed
  /\ pc # "index" /\ "index" \in s.parsed /\ IndexReadable =>
       Compounds("class") \subseteq Classes /\ HeaderFiles \subseteq Files

\* The loops come to every class and every block once, and nothing is found or written
\* before they begin.
LoopInv ==
  /\ pc = "blocks" => /\ NoTwice(left) /\ NoTwice(blocks)
                      /\ \A b \in ToSet(blocks) : b \notin ToSet(left)
  /\ pc \in {"entries", "classes"} => NoTwice(left)
  /\ pc \in {"client", "index"} => blocks = <<>>
  /\ pc \in {"client", "index", "blocks"} => out = <<>> /\ made = {}
  /\ pc \notin {"client", "index"} => back = "blocks"

\* Without calls of a client the generation gets past the index only if all of it can be read.
SoundInv ==
  calls = 0 =>
    /\ pc = "client" => "index" \notin s.parsed
    /\ pc = "index" => /\ back = "blocks"
                       /\ \A c \in ToSet(w.index) : c \in ToSet(left) \/ CompoundReadable(w, c)
    /\ pc \notin {"client", "index", "crashed"} => IndexReadable

ListInv == TopListInv /\ LoopInv /\ SoundInv

LEMMA WorldStays ==
  ASSUME w' = w
  PROVE  /\ IndexReadable' <=> IndexReadable
         /\ Compounds("class")' = Compounds("class") /\ HeaderFiles' = HeaderFiles
  BY DEF IndexReadable, HeaderFiles, Compounds, Good

LEMMA ListInit == Init => ListInv
<1> SUFFICES ASSUME Init PROVE ListInv
  OBVIOUS
<1>1. s.top = <<>> /\ s.parsed = {}
  BY DEF Init, NewStore
<1>2. NoTwice(<<>>) /\ ToSet(<<>>) = {}
  BY DEF NoTwice, ToSet
<1> QED
  BY <1>1, <1>2 DEF Init, ListInv, TopListInv, LoopInv, SoundInv, Files

LEMMA AskIndexList ==
  ASSUME GenInv, ListInv, pc = "client", NEW from \in {"client", "blocks"}, AskIndex(from),
         UNCHANGED <<w, blocks, made, out>>, calls' = 0 => from = "blocks" /\ calls = 0
  PROVE  ListInv'
<1>1. /\ s'.parsed = s.parsed \cup {"index"} /\ s'.top = s.top /\ back' = from
      /\ IsWorld(w) /\ s.top \in Seq(Def) /\ Classes' = Classes /\ StoreInv(w, s)
      /\ Files' = Files
  BY AskedInv, StoreTypes DEF AskIndex, GenInv, Classes, Files
<1>2. NoTwice(s.top) /\ Files \subseteq HeaderFiles /\ blocks = <<>> /\ out = <<>> /\ made = {}
  BY DEF ListInv, TopListInv, LoopInv
<1>3. CASE IndexParsed
  <2>1. pc' = from /\ left' = (IF from = "blocks" THEN s.top ELSE <<>>) /\ "index" \in s.parsed
    BY <1>3 DEF AskIndex, IndexParsed
  <2>2. TopListInv'
    BY <1>1, <1>2, <2>1, WorldStays DEF ListInv, TopListInv
  <2>3. LoopInv'
    BY <1>1, <1>2, <2>1 DEF LoopInv, NoTwice, ToSet
  <2>4. SoundInv'
    BY <1>1, <2>1 DEF ListInv, SoundInv
  <2> QED
    BY <2>2, <2>3, <2>4 DEF ListInv
<1>4. CASE ~IndexParsed
  <2>1. pc' = "index" /\ left' = w.index /\ "index" \notin s.parsed
    BY <1>4 DEF AskIndex, IndexParsed
  <2>2. s.top = <<>> /\ Classes = {} /\ s.parsed = {}
    <3>1. s.top = <<>> /\ DOMAIN s.refs = {}
      BY <2>1 DEF ListInv, TopListInv, GenInv, IndexInv
    <3> QED
      BY <1>1, <2>1, <3>1 DEF Classes, ToSet, StoreInv
  <2>3. TopListInv'
    <3>1. RefidsOnce(w.index)
      BY <1>1 DEF RefidsOnce, IsWorld
    <3>2. Compounds("class") \subseteq ToSet(w.index) /\ HeaderFiles \subseteq ToSet(w.index)
      BY DEF Compounds, HeaderFiles
    <3>3. \A c \in ToSet(w.index) : c.refid # "index"
      BY <1>1, IndexTypes DEF IsWorld
    <3> QED
      BY <1>1, <1>2, <2>1, <2>2, <3>1, <3>2, <3>3, WorldStays DEF TopListInv
  <2>4. LoopInv'
    BY <1>1, <1>2, <2>1 DEF LoopInv
  <2>5. SoundInv'
    BY <1>1, <2>1, <2>2 DEF SoundInv
  <2> QED
    BY <2>3, <2>4, <2>5 DEF ListInv
<1> QED
  BY <1>3, <1>4

LEMMA ParseIndexList ==
  ASSUME GenInv, ListInv, ParseIndex
  PROVE  ListInv'
<1>1. /\ pc = "index" /\ left \in Seq(Def) /\ ToSet(left) \subseteq ToSet(w.index)
      /\ IndexKinds(w, s) /\ "index" \in s.parsed /\ StoreInv(w, s) /\ IsWorld(w)
      /\ UNCHANGED <<w, back, calls, blocks, made, out>> /\ s.top \in Seq(Def)
      /\ back \in {"client", "blocks"}
  BY StoreTypes DEF ParseIndex, GenInv, IndexInv, ControlInv
<1>2. /\ NoTwice(s.top) /\ RefidsOnce(left) /\ \A d \in Classes : d \notin ToSet(left)
      /\ Compounds("class") \subseteq ToSet(left) \cup Classes
      /\ Files \subseteq HeaderFiles /\ HeaderFiles \subseteq ToSet(left) \cup Files
      /\ \A c \in ToSet(left) : c.refid \notin s.parsed
      /\ blocks = <<>> /\ out = <<>> /\ made = {}
  BY <1>1 DEF ListInv, TopListInv, LoopInv
<1>3. calls = 0 => /\ back = "blocks"
                   /\ \A c \in ToSet(w.index) : c \in ToSet(left) \/ CompoundReadable(w, c)
  BY <1>1 DEF ListInv, SoundInv
<1>4. CASE left = <<>>
  <2>1. pc' = back /\ left' = (IF back = "blocks" THEN s.top ELSE <<>>) /\ s' = s
    BY <1>1, <1>4 DEF ParseIndex
  <2>2. ToSet(left) = {}
    BY <1>4 DEF ToSet
  <2>3. TopListInv'
    BY <1>1, <1>2, <2>1, <2>2, WorldStays DEF TopListInv, Classes, Files
  <2>4. LoopInv'
    BY <1>1, <1>2, <2>1 DEF LoopInv, NoTwice, ToSet
  <2>5. SoundInv'
    <3>1. calls = 0 => IndexReadable
      BY <1>3, <2>2 DEF CompoundReadable, IndexReadable, HeaderFiles, Compounds, Good
    <3> QED
      BY <1>1, <1>3, <2>1, <3>1, WorldStays DEF SoundInv
  <2> QED
    BY <2>3, <2>4, <2>5 DEF ListInv
<1>5. CASE left # <<>>
  <2> DEFINE c == Head(left)
             t == IndexCompound(w, s, c)
  <2>1. /\ IF t.raised # "no"
           THEN /\ pc' = (IF back = "client" THEN "client" ELSE "crashed")
                /\ left' = <<>>
           ELSE left' = Tail(left) /\ pc' = pc
        /\ s' = t
    BY <1>1, <1>5 DEF ParseIndex, Raise
  <2>2. /\ Tail(left) \in Seq(Def) /\ c \in ToSet(left)
        /\ ToSet(left) = {c} \cup ToSet(Tail(left))
        /\ RefidsOnce(Tail(left)) /\ \A d \in ToSet(Tail(left)) : d.refid # c.refid
    BY <1>1, <1>2, <1>5, HeadTailSet, TailOnce
  <2>3. TopStep(w, s, c, t) /\ IndexStep(w, s, c, t)
    BY <1>1, <2>2, IndexCompoundTop, IndexCompoundStep
  <2>4. /\ Classes = ClassesIn(s.top) /\ Classes' = ClassesIn(s'.top)
        /\ ClassesIn(<<c>>) = {e \in {c} : e.kind = "class"}
        /\ Files = FilesIn(s.top) /\ Files' = FilesIn(s'.top)
    BY OneOnce DEF Classes, ClassesIn, Files, FilesIn
  <2> HIDE DEF c, t
  <2>5. "index" \in s'.parsed /\ NoTwice(s'.top) /\ Files' \subseteq HeaderFiles
    <3>1. "index" \in s'.parsed /\ NoTwice(s'.top)
      BY <1>1, <1>2, <2>1, <2>2, <2>3, <2>4 DEF IndexStep, TopStep
    <3>2. \/ Files' = Files
          \/ Files' = Files \cup {e \in {c} : e.kind = "file" /\ e.name \in Headers}
      BY <2>1, <2>3, <2>4 DEF TopStep
    <3>3. c \in ToSet(w.index)
      BY <1>1, <2>2
    <3> QED
      BY <1>2, <3>1, <3>2, <3>3 DEF HeaderFiles, Compounds
  <2>6. CASE t.raised # "no"
    <3>1. ~IndexReadable
      <4>1. ~CompoundReadable(w, c) /\ c \in ToSet(w.index)
        BY <1>1, <2>2, <2>3, <2>6 DEF IndexStep
      <4> QED
        BY <4>1 DEF CompoundReadable, IndexReadable, HeaderFiles, Compounds, Good
    <3>2. pc' \in {"client", "crashed"} /\ (back = "blocks" => pc' = "crashed")
          /\ (pc' = "crashed" => back = "blocks")
      BY <1>1, <2>1, <2>6
    <3>3. TopListInv'
      BY <1>1, <2>5, <3>1, <3>2, WorldStays DEF TopListInv
    <3>4. LoopInv'
      BY <1>1, <1>2, <3>2 DEF LoopInv
    <3>5. SoundInv'
      BY <1>1, <1>3, <3>2 DEF SoundInv
    <3> QED
      BY <3>3, <3>4, <3>5 DEF ListInv
  <2>7. CASE t.raised = "no"
    <3>1. pc' = "index" /\ left' = Tail(left) /\ s' = t
      BY <1>1, <2>1, <2>7
    <3>2. Classes' = Classes \cup {e \in {c} : e.kind = "class"}
      BY <2>3, <2>4, <2>7, <3>1 DEF TopStep
    <3>3. TopListInv'
      <4>1. \A d \in Classes' : d \notin ToSet(left')
        BY <1>2, <2>2, <3>1, <3>2
      <4>2. Compounds("class") \subseteq ToSet(left') \cup Classes'
        BY <1>2, <2>2, <3>1, <3>2 DEF Compounds
      <4>3. \A d \in ToSet(left') : d.refid \notin s'.parsed
        BY <1>2, <2>2, <2>3, <3>1 DEF TopStep
      <4>4. HeaderFiles \subseteq ToSet(left') \cup Files'
        <5>1. Files' = Files \cup {e \in {c} : e.kind = "file" /\ e.name \in Headers}
          BY <2>3, <2>4, <2>7, <3>1 DEF TopStep
        <5> QED
          BY <1>2, <2>2, <3>1, <5>1 DEF HeaderFiles, Compounds
      <4> QED
        BY <1>1, <2>2, <2>5, <3>1, <4>1, <4>2, <4>3, <4>4, WorldStays DEF TopListInv
    <3>4. LoopInv'
      BY <1>1, <1>2, <3>1 DEF LoopInv
    <3>5. SoundInv'
      <4> SUFFICES ASSUME calls = 0
                   PROVE  \A d \in ToSet(w.index) : d \in ToSet(left') \/ CompoundReadable(w, d)
        BY <1>1, <1>3, <3>1 DEF SoundInv
      <4>1. CompoundReadable(w, c)
        BY <1>2, <2>2, <2>3, <2>7 DEF TopStep
      <4> QED
        BY <1>3, <2>2, <3>1, <4>1
    <3> QED
      BY <3>3, <3>4, <3>5 DEF ListInv
  <2> QED
    BY <2>6, <2>7
<1> QED
  BY <1>4, <1>5

LEMMA ClientCallList ==
  ASSUME GenInv, ListInv, ClientCall
  PROVE  ListInv'
<1>1. PICK refid \in DOMAIN s.refs : s' = Confirm(w, s, refid)
  BY DEF ClientCall
<1>2. /\ pc = "client" /\ pc' = pc /\ calls' = calls + 1 /\ calls \in Nat
      /\ UNCHANGED <<w, back, left, blocks, made, out>>
  BY CallsAssumption DEF ClientCall, GenInv, ControlInv
<1>3. PICK t : t = Parse(w, s, refid)
  OBVIOUS
<1>4. SameObjects(t, s') /\ s'.top = t.top
  BY <1>1, <1>3, StoreTypes, ConfirmInv DEF GenInv
<1>5. Parsed(w, s, refid, t)
  BY <1>3, ParseStore DEF GenInv, StoreInv
<1>6. s'.top = s.top /\ "index" \in s.parsed /\ "index" \in s'.parsed
  BY <1>1, <1>4, <1>5 DEF Parsed, SameObjects, GenInv, IndexInv
<1>7. TopListInv'
  BY <1>2, <1>6, WorldStays DEF ListInv, TopListInv, Classes, Files
<1>8. LoopInv' /\ SoundInv'
  BY <1>2 DEF ListInv, LoopInv, SoundInv
<1> QED
  BY <1>7, <1>8 DEF ListInv

LEMMA FindBlocksList ==
  ASSUME GenInv, ListInv, FindBlocks
  PROVE  ListInv'
<1>1. /\ pc = "blocks" /\ left \in Seq(Def) /\ ToSet(left) \subseteq ToSet(s.top)
      /\ UNCHANGED <<w, back, calls, made, out>> /\ StoreInv(w, s) /\ blocks \in Seq(Def)
      /\ IsWorld(w)
  BY StoreTypes DEF FindBlocks, GenInv, SearchInv, ControlInv
<1>2. /\ NoTwice(left) /\ NoTwice(blocks) /\ \A b \in ToSet(blocks) : b \notin ToSet(left)
      /\ out = <<>> /\ made = {} /\ back = "blocks"
      /\ calls = 0 => IndexReadable
  BY <1>1 DEF ListInv, LoopInv, SoundInv
<1>3. CASE left = <<>>
  <2>1. pc' = "entries" /\ left' = blocks /\ UNCHANGED <<s, blocks>>
    BY <1>3 DEF FindBlocks
  <2>2. TopListInv'
    BY <1>1, <2>1, WorldStays DEF ListInv, TopListInv, Classes, Files
  <2>3. LoopInv' /\ SoundInv'
    BY <1>1, <1>2, <2>1, WorldStays DEF LoopInv, SoundInv
  <2> QED
    BY <2>2, <2>3 DEF ListInv
<1>4. CASE left # <<>>
  <2>1. PICK c, t : c = Head(left) /\ t = IF c.kind = "class" THEN Parse(w, s, c.refid) ELSE s
    OBVIOUS
  <2>2. /\ s' = t
        /\ \/ pc' = "crashed" /\ blocks' = blocks
           \/ /\ pc' = pc /\ left' = Tail(left)
              /\ \/ blocks' = blocks
                 \/ c.kind = "class" /\ blocks' = Append(blocks, c)
    BY <1>2, <1>4, <2>1 DEF FindBlocks, Raise
  <2>3. /\ Tail(left) \in Seq(Def) /\ c \in ToSet(left)
        /\ ToSet(left) = {c} \cup ToSet(Tail(left))
        /\ NoTwice(Tail(left)) /\ (c.kind = "class" => c \notin ToSet(Tail(left)))
    BY <1>1, <1>2, <1>4, <2>1, HeadTailSet, TailOnce
  <2>4. t.top = s.top /\ s.parsed \subseteq t.parsed /\ ("index" \in t.parsed <=> "index" \in s.parsed)
    <3>1. CASE c.kind = "class"
      <4>1. c \in ToSet(w.index)
        BY <1>1, <2>3, <3>1 DEF StoreInv, TopInv
      <4>2. c.refid # "index"
        BY <1>1, <4>1, IndexTypes DEF IsWorld
      <4>3. Parsed(w, s, c.refid, t)
        BY <1>1, <2>1, <3>1, ParseStore DEF StoreInv
      <4> QED
        BY <4>2, <4>3 DEF Parsed
    <3>2. CASE c.kind # "class"
      BY <2>1, <3>2
    <3> QED
      BY <3>1, <3>2
  <2>5. TopListInv'
    BY <1>1, <2>2, <2>4, WorldStays DEF ListInv, TopListInv, Classes, Files
  <2>6. SoundInv'
    BY <1>1, <1>2, <2>2, WorldStays DEF SoundInv
  <2>7. CASE pc' = "crashed"
    BY <1>1, <1>2, <2>5, <2>6, <2>7 DEF ListInv, LoopInv
  <2>8. CASE pc' = pc /\ left' = Tail(left) /\ blocks' = blocks
    BY <1>1, <1>2, <2>3, <2>5, <2>6, <2>8 DEF ListInv, LoopInv
  <2>9. CASE /\ pc' = pc /\ left' = Tail(left)
             /\ c.kind = "class" /\ blocks' = Append(blocks, c)
    <3>1. PICK one : one = <<c>>
      OBVIOUS
    <3>2. c \in Def
      <4>1. \A i \in DOMAIN left : left[i] \in Def
        BY <1>1, ElementOfSeq
      <4> QED
        BY <2>3, <4>1 DEF ToSet
    <3>3. one \in Seq(Def) /\ NoTwice(one) /\ ToSet(one) = {c} /\ blocks' = blocks \o one
      <4>1. <<c>> \in Seq(Def)
        BY <3>2
      <4> QED
        BY <1>1, <2>9, <3>1, <3>2, <4>1, OneOnce, AppendIsConcat
    <3>4. /\ NoTwice(blocks \o one) /\ ToSet(blocks \o one) = ToSet(blocks) \cup ToSet(one)
      BY <1>1, <1>2, <2>3, <3>3, ToSetConcat, ConcatOnce
    <3>5. LoopInv'
      BY <1>1, <1>2, <2>3, <2>9, <3>3, <3>4 DEF LoopInv
    <3> QED
      BY <2>5, <2>6, <3>5 DEF ListInv
  <2> QED
    BY <2>2, <2>7, <2>8, <2>9
<1> QED
  BY <1>3, <1>4

LEMMA EntriesList ==
  ASSUME GenInv, ListInv, BlockEntries \/ FunctionEntries \/ ClassEntries
  PROVE  ListInv'
<1>1. /\ UNCHANGED <<w, back, calls, blocks>> /\ s' = s
      /\ pc \in {"entries", "functions", "classes"}
      /\ pc' \in PCs \ {"index", "blocks", "client"} \/ back = "client"
  BY DEF BlockEntries, FunctionEntries, ClassEntries, Raise, PCs
<1>2. back = "blocks" /\ pc' \in PCs \ {"index", "blocks", "client"}
  BY <1>1 DEF ListInv, LoopInv
<1>3. TopListInv'
  BY <1>1, <1>2, WorldStays DEF ListInv, TopListInv, Classes, Files
<1>4. SoundInv'
  BY <1>1, <1>2, WorldStays DEF ListInv, SoundInv
<1>5. pc' \in {"entries", "classes"} => NoTwice(left')
  <2> SUFFICES ASSUME pc' \in {"entries", "classes"} PROVE NoTwice(left')
    OBVIOUS
  <2>1. \/ left' = OfKind(s.top, "class")
        \/ pc = pc' /\ left # <<>> /\ left' = Tail(left)
    BY <1>1 DEF BlockEntries, FunctionEntries, ClassEntries, Raise
  <2>2. CASE left' = OfKind(s.top, "class")
    BY <2>2, StoreTypes, OfKindOnce DEF ListInv, TopListInv
  <2>3. CASE pc = pc' /\ left # <<>> /\ left' = Tail(left)
    <3>1. left \in Seq(Def) /\ NoTwice(left)
      BY <2>3 DEF GenInv, SearchInv, ListInv, LoopInv
    <3> QED
      BY <2>3, <3>1, TailOnce
  <2> QED
    BY <2>1, <2>2, <2>3
<1>6. LoopInv'
  BY <1>1, <1>2, <1>5 DEF LoopInv
<1> QED
  BY <1>3, <1>4, <1>6 DEF ListInv

LEMMA ListNext == GenInv /\ ListInv /\ [Next]_vars => ListInv'
<1> SUFFICES ASSUME GenInv, ListInv, [Next]_vars PROVE ListInv'
  OBVIOUS
<1>1. CASE ClientIndex
  <2>1. calls' # 0
    BY <1>1, CallsAssumption DEF ClientIndex, GenInv, ControlInv
  <2> QED
    BY <1>1, <2>1, AskIndexList DEF ClientIndex
<1>2. CASE ClientCall
  BY <1>2, ClientCallList
<1>3. CASE Start
  BY <1>3, AskIndexList DEF Start
<1>4. CASE ParseIndex
  BY <1>4, ParseIndexList
<1>5. CASE FindBlocks
  BY <1>5, FindBlocksList
<1>6. CASE BlockEntries \/ FunctionEntries \/ ClassEntries
  BY <1>6, EntriesList
<1>7. CASE UNCHANGED vars
  <2>1. UNCHANGED <<w, s, pc, back, left, calls, blocks, made, out>>
    BY <1>7 DEF vars
  <2> QED
    BY <2>1, WorldStays DEF ListInv, TopListInv, LoopInv, SoundInv, Classes, Files
<1> QED
  BY <1>1, <1>2, <1>3, <1>4, <1>5, <1>6, <1>7 DEF Next

------------------------------------------------------------------------------
(* How often something is in a list                                         *)

Places(q, X) == {i \in DOMAIN q : q[i] \in X}
Occurs(q, X) == Cardinality(Places(q, X))

LEMMA OccursType ==
  ASSUME NEW S, NEW q \in Seq(S), NEW X
  PROVE  IsFiniteSet(Places(q, X)) /\ Occurs(q, X) \in Nat
<1>1. Len(q) \in Nat /\ DOMAIN q = 1..Len(q)
  OBVIOUS
<1>2. IsFiniteSet(1..Len(q))
  BY <1>1, FS_Interval
<1>3. Places(q, X) \in SUBSET (1..Len(q))
  BY <1>1 DEF Places
<1>4. IsFiniteSet(Places(q, X))
  BY <1>2, <1>3, FS_Subset
<1> QED
  BY <1>4, FS_CardinalityType DEF Occurs

LEMMA OccursNever ==
  ASSUME NEW S, NEW q \in Seq(S), NEW X, \A d \in ToSet(q) : d \notin X
  PROVE  Occurs(q, X) = 0
<1>1. Places(q, X) = {}
  BY DEF Places, ToSet
<1> QED
  BY <1>1, FS_EmptySet DEF Occurs

LEMMA OccursOne ==
  ASSUME NEW d, NEW X
  PROVE  Occurs(<<d>>, X) = IF d \in X THEN 1 ELSE 0
<1>1. PICK q : q = <<d>>
  OBVIOUS
<1>2. DOMAIN q = {1} /\ q[1] = d
  BY <1>1
<1>3. Places(q, X) = IF d \in X THEN {1} ELSE {}
  BY <1>2 DEF Places
<1> QED
  BY <1>1, <1>3, FS_EmptySet, FS_Singleton DEF Occurs

LEMMA Shifted ==
  ASSUME NEW n \in Nat, NEW P \in SUBSET Nat, IsFiniteSet(P)
  PROVE  /\ IsFiniteSet({n + i : i \in P})
         /\ Cardinality({n + i : i \in P}) = Cardinality(P)
<1> DEFINE T == {n + i : i \in P}
           f == [i \in P |-> n + i]
<1>1. f \in [P -> T]
  OBVIOUS
<1>2. \A i, j \in P : f[i] = f[j] => i = j
  OBVIOUS
<1>3. \A k \in T : \E i \in P : f[i] = k
  OBVIOUS
<1>4. f \in Bijection(P, T)
  <2> HIDE DEF f, T
  <2> QED
    BY <1>1, <1>2, <1>3, Fun_IsBij
<1>5. ExistsBijection(P, T)
  <2> HIDE DEF f, T
  <2> QED
    BY <1>4 DEF ExistsBijection
<1> QED
  BY <1>5, FS_Bijection

LEMMA OccursConcat ==
  ASSUME NEW S, NEW q \in Seq(S), NEW r \in Seq(S), NEW X
  PROVE  Occurs(q \o r, X) = Occurs(q, X) + Occurs(r, X)
<1>1. PICK t : t = q \o r
  OBVIOUS
<1>2. /\ Len(q) \in Nat /\ Len(r) \in Nat
      /\ DOMAIN q = 1..Len(q) /\ DOMAIN r = 1..Len(r) /\ DOMAIN t = 1..(Len(q) + Len(r))
      /\ \A i \in 1..Len(q) : t[i] = q[i]
      /\ \A i \in 1..Len(r) : t[Len(q) + i] = r[i]
  BY <1>1
<1> DEFINE P == Places(q, X)
           R == {Len(q) + i : i \in Places(r, X)}
<1>3. ASSUME NEW i \in Places(t, X) PROVE i \in P \cup R
  <2>1. i \in DOMAIN t /\ t[i] \in X
    BY <1>3 DEF Places
  <2>2. CASE i \in DOMAIN q
    BY <1>2, <2>1, <2>2 DEF Places
  <2>3. CASE i \notin DOMAIN q
    <3>1. PICK k : k = i - Len(q)
      OBVIOUS
    <3>2. k \in 1..Len(r) /\ i = Len(q) + k
      BY <1>2, <2>1, <2>3, <3>1
    <3>3. k \in Places(r, X)
      BY <1>2, <2>1, <3>2 DEF Places
    <3> QED
      BY <3>2, <3>3
  <2> QED
    BY <2>2, <2>3
<1>4. P \subseteq Places(t, X)
  BY <1>2 DEF Places
<1>5. ASSUME NEW k \in Places(r, X) PROVE Len(q) + k \in Places(t, X)
  <2>1. k \in 1..Len(r) /\ r[k] \in X
    BY <1>2, <1>5 DEF Places
  <2>2. Len(q) + k \in DOMAIN t
    BY <1>2, <2>1
  <2> QED
    BY <1>2, <2>1, <2>2 DEF Places
<1>6. Places(t, X) = P \cup R
  BY <1>3, <1>4, <1>5
<1>7. P \cap R = {}
  <2> SUFFICES ASSUME NEW k \in Places(r, X), Len(q) + k \in P PROVE FALSE
    OBVIOUS
  <2>1. k \in 1..Len(r) /\ Len(q) + k \in 1..Len(q)
    BY <1>2 DEF Places
  <2> QED
    BY <1>2, <2>1
<1>8. IsFiniteSet(P) /\ IsFiniteSet(Places(r, X)) /\ Places(r, X) \in SUBSET Nat
  <2>1. IsFiniteSet(Places(q, X)) /\ IsFiniteSet(Places(r, X))
    BY OccursType
  <2>2. Places(r, X) \in SUBSET Nat
    BY <1>2 DEF Places
  <2> QED
    BY <2>1, <2>2
<1>9. IsFiniteSet(R) /\ Cardinality(R) = Occurs(r, X)
  BY <1>2, <1>8, Shifted DEF Occurs
<1> HIDE DEF P, R
<1>10. Cardinality(P \cup R) = Cardinality(P) + Cardinality(R) - Cardinality(P \cap R)
  BY <1>8, <1>9, FS_Union
<1>11. Cardinality(P \cap R) = 0 /\ Cardinality(P) \in Nat /\ Cardinality(R) \in Nat
  BY <1>7, <1>8, <1>9, FS_EmptySet, FS_CardinalityType
<1>12. Cardinality(P \cup R) = Cardinality(P) + Cardinality(R)
  BY <1>10, <1>11
<1> QED
  BY <1>1, <1>6, <1>9, <1>12 DEF Occurs, P

LEMMA OccursAppend ==
  ASSUME NEW S, NEW q \in Seq(S), NEW d \in S, NEW X
  PROVE  Occurs(Append(q, d), X) = Occurs(q, X) + (IF d \in X THEN 1 ELSE 0)
<1>1. PICK one : one = <<d>>
  OBVIOUS
<1>2. one \in Seq(S) /\ Occurs(one, X) = IF d \in X THEN 1 ELSE 0
  <2>1. <<d>> \in Seq(S)
    OBVIOUS
  <2> QED
    BY <1>1, <2>1, OccursOne
<1>3. Append(q, d) = q \o one
  BY <1>1, AppendIsConcat
<1> QED
  BY <1>2, <1>3, OccursConcat

LEMMA OccursTail ==
  ASSUME NEW S, NEW q \in Seq(S), q # <<>>, NEW X
  PROVE  Occurs(q, X) = (IF Head(q) \in X THEN 1 ELSE 0) + Occurs(Tail(q), X)
<1>1. PICK one, r, d : d = Head(q) /\ one = <<d>> /\ r = Tail(q)
  OBVIOUS
<1>2. d \in S /\ r \in Seq(S)
  BY <1>1
<1>3. one \in Seq(S) /\ Occurs(one, X) = IF d \in X THEN 1 ELSE 0
  <2>1. <<d>> \in Seq(S)
    BY <1>2
  <2> QED
    BY <1>1, <2>1, OccursOne
<1>4. q = one \o r
  BY <1>1, <1>2
<1>5. Occurs(one \o r, X) = Occurs(one, X) + Occurs(r, X)
  BY <1>2, <1>3, OccursConcat
<1> QED
  BY <1>1, <1>3, <1>4, <1>5

\* The places up to n.
Upto(q, X, n) == {i \in 1..n : q[i] \in X}

LEMMA UptoNext ==
  ASSUME NEW q, NEW X, NEW n \in Nat, NEW next, next = n + 1
  PROVE  /\ Cardinality(Upto(q, X, n)) \in Nat
         /\ Cardinality(Upto(q, X, next)) =
              Cardinality(Upto(q, X, n)) + (IF q[next] \in X THEN 1 ELSE 0)
<1>1. IsFiniteSet(1..n) /\ Upto(q, X, n) \in SUBSET (1..n)
  BY FS_Interval DEF Upto
<1>2. IsFiniteSet(Upto(q, X, n))
  BY <1>1, FS_Subset
<1>3. PICK P : P = Upto(q, X, n)
  OBVIOUS
<1>4. next \notin P
  BY <1>3 DEF Upto
<1>5. IsFiniteSet(P) /\ Cardinality(P) \in Nat
  BY <1>2, <1>3, FS_CardinalityType
<1>6. Cardinality(P \cup {next}) = Cardinality(P) + 1
  BY <1>4, <1>5, FS_AddElement
<1>7. \A i : i \in 1..next <=> i \in 1..n \/ i = next
  BY <1>3
<1>8. Upto(q, X, next) = IF q[next] \in X THEN P \cup {next} ELSE P
  BY <1>3, <1>7 DEF Upto
<1> QED
  BY <1>3, <1>5, <1>6, <1>8

LEMMA UptoNone ==
  ASSUME NEW q, NEW X
  PROVE  Cardinality(Upto(q, X, 0)) = 0
<1>1. Upto(q, X, 0) = {}
  BY DEF Upto
<1> QED
  BY <1>1, FS_EmptySet

\* A category has the members of its kind as often as the list they are in.
LEMMA OfKindOccurs ==
  ASSUME NEW S, NEW defs \in Seq(S), NEW kind, NEW X
  PROVE  Occurs(OfKind(defs, kind), X) = Occurs(defs, {d \in X : d.kind = kind})
<1> DEFINE N == Len(defs)
           Y == {d \in X : d.kind = kind}
<1>1. N \in Nat /\ DOMAIN defs = 1..N
  OBVIOUS
<1>2. PICK g : Chooses(g, defs, kind, N) /\ OfKind(defs, kind) = g[N]
  BY <1>1, OfKindDefined
<1> HIDE DEF N
<1> DEFINE T == {n \in Nat : n \in 0..N => /\ g[n] \in Seq(S)
                                           /\ Occurs(g[n], X) = Cardinality(Upto(defs, Y, n))}
<1>3. 0 \in T
  <2>1. 0 \in 0..N => g[0] = <<>>
    BY <1>2 DEF Chooses
  <2>2. <<>> \in Seq(S) /\ ToSet(<<>>) = {}
    BY DEF ToSet
  <2>3. Occurs(<<>>, X) = 0
    BY <2>2, OccursNever
  <2>4. Cardinality(Upto(defs, Y, 0)) = 0
    BY UptoNone
  <2> HIDE DEF Y
  <2> QED
    BY <2>1, <2>2, <2>3, <2>4
<1>4. ASSUME NEW n \in Nat, n \in T PROVE n + 1 \in T
  <2> SUFFICES ASSUME n + 1 \in 0..N
               PROVE  /\ g[n + 1] \in Seq(S)
                      /\ Occurs(g[n + 1], X) = Cardinality(Upto(defs, Y, n + 1))
    OBVIOUS
  <2>1. PICK next : next = n + 1
    OBVIOUS
  <2>2. next \in 1..N /\ next - 1 = n /\ n \in 0..N
    BY <1>1, <2>1
  <2>3. PICK q, r, d : q = g[n] /\ r = g[next] /\ d = defs[next]
    OBVIOUS
  <2>4. q \in Seq(S) /\ Occurs(q, X) = Cardinality(Upto(defs, Y, n))
    BY <1>4, <2>2, <2>3
  <2>5. d \in S
    BY <1>1, <2>2, <2>3, ElementOfSeq
  <2>6. r = IF d.kind = kind THEN Append(q, d) ELSE q
    BY <1>2, <2>2, <2>3 DEF Chooses, Chosen
  <2>7. d \in Y <=> d \in X /\ d.kind = kind
    OBVIOUS
  <2> HIDE DEF Y
  <2>8. Cardinality(Upto(defs, Y, next)) =
          Cardinality(Upto(defs, Y, n)) + (IF d \in Y THEN 1 ELSE 0)
    BY <2>1, <2>3, UptoNext
  <2>9. Cardinality(Upto(defs, Y, n)) \in Nat
    BY UptoNext
  <2>10. CASE d.kind = kind
    <3>1. Append(q, d) \in Seq(S) /\ Occurs(Append(q, d), X) = Occurs(q, X) + (IF d \in X THEN 1 ELSE 0)
      BY <2>4, <2>5, OccursAppend
    <3> QED
      BY <2>1, <2>3, <2>4, <2>6, <2>7, <2>8, <2>10, <3>1
  <2>11. CASE d.kind # kind
    BY <2>1, <2>3, <2>4, <2>6, <2>7, <2>8, <2>9, <2>11
  <2> QED
    BY <2>10, <2>11
<1> HIDE DEF T
<1>5. N \in T
  BY <1>1, <1>3, <1>4, SetInduction
<1>6. Occurs(g[N], X) = Cardinality(Upto(defs, Y, N))
  BY <1>1, <1>5 DEF T
<1>7. Upto(defs, Y, N) = Places(defs, Y)
  BY <1>1 DEF Upto, Places
<1> QED
  BY <1>2, <1>6, <1>7 DEF Occurs

\* The sequences of the first n of qs one after the other, for all n up to N.
Flattens(g, qs, N) == \A n \in 1..N : g[n] = IF n = 1 THEN qs[n] ELSE g[n - 1] \o qs[n]

LEMMA FlattensExist == \A qs : \A N \in Nat : \E g : Flattens(g, qs, N)
<1> SUFFICES ASSUME NEW qs PROVE \A N \in Nat : \E g : Flattens(g, qs, N)
  OBVIOUS
<1> DEFINE T == {N \in Nat : \E g : Flattens(g, qs, N)}
<1>1. 0 \in T
  BY DEF Flattens
<1>2. ASSUME NEW N \in Nat, N \in T PROVE N + 1 \in T
  <2>1. PICK g : Flattens(g, qs, N)
    BY <1>2
  <2> DEFINE next(n) == IF n = 1 THEN qs[n] ELSE g[n - 1] \o qs[n]
             h == [n \in 1..(N + 1) |-> next(n)]
  <2>2. ASSUME NEW n \in 1..N PROVE next(n) = g[n]
    BY <2>1 DEF Flattens
  <2>3. ASSUME NEW n \in 1..(N + 1)
        PROVE  h[n] = IF n = 1 THEN qs[n] ELSE h[n - 1] \o qs[n]
    <3>1. h[n] = next(n)
      OBVIOUS
    <3>2. n # 1 => h[n - 1] = next(n - 1) /\ n - 1 \in 1..N
      OBVIOUS
    <3>3. n # 1 => h[n - 1] = g[n - 1]
      <4> HIDE DEF h, next
      <4> QED
        BY <2>2, <3>2
    <3> HIDE DEF h
    <3> QED
      BY <3>1, <3>3
  <2>4. Flattens(h, qs, N + 1)
    <3> HIDE DEF h
    <3> QED
      BY <2>3 DEF Flattens
  <2> QED
    BY <2>4
<1> HIDE DEF T
<1>3. Nat \subseteq T
  BY <1>1, <1>2, SetInduction
<1> QED
  BY <1>3 DEF T

LEMMA FlattenDefined ==
  ASSUME NEW qs, Len(qs) \in Nat \ {0}
  PROVE  \E g : Flattens(g, qs, Len(qs)) /\ FlattenSeq(qs) = g[Len(qs)]
<1>1. PICK g : Flattens(g, qs, Len(qs))
  BY FlattensExist
<1> DEFINE f == [n \in 1..Len(qs) |-> g[n]]
<1>2. f = [n \in 1..Len(qs) |-> IF n = 1 THEN qs[n] ELSE f[n - 1] \o qs[n]]
  <2>1. ASSUME NEW n \in 1..Len(qs)
        PROVE  g[n] = IF n = 1 THEN qs[n] ELSE f[n - 1] \o qs[n]
    <3>1. n # 1 => f[n - 1] = g[n - 1]
      OBVIOUS
    <3> HIDE DEF f
    <3> QED
      BY <1>1, <3>1 DEF Flattens
  <2> QED
    BY <2>1
<1> HIDE DEF f
<1>3. PICK h : (h = [n \in 1..Len(qs) |-> IF n = 1 THEN qs[n] ELSE h[n - 1] \o qs[n]])
               /\ FlattenSeq(qs) = h[Len(qs)]
  <2>1. \E h : h = [n \in 1..Len(qs) |-> IF n = 1 THEN qs[n] ELSE h[n - 1] \o qs[n]]
    BY <1>2
  <2>2. Len(qs) # 0
    OBVIOUS
  <2> QED
    BY <2>1, <2>2, Zenon DEF FlattenSeq
<1>4. Flattens(h, qs, Len(qs))
  BY <1>3 DEF Flattens
<1> QED
  BY <1>3, <1>4

LEMMA FlattenType ==
  ASSUME NEW S, NEW qs \in Seq(Seq(S))
  PROVE  FlattenSeq(qs) \in Seq(S)
<1> DEFINE N == Len(qs)
<1>1. N \in Nat /\ DOMAIN qs = 1..N
  OBVIOUS
<1>2. CASE N = 0
  <2>1. FlattenSeq(qs) = qs
    BY <1>2 DEF FlattenSeq
  <2>2. qs = <<>>
    BY <1>2
  <2> QED
    BY <2>1, <2>2
<1>3. CASE N # 0
  <2>1. PICK g : Flattens(g, qs, N) /\ FlattenSeq(qs) = g[N]
    BY <1>1, <1>3, FlattenDefined
  <2> HIDE DEF N
  <2> DEFINE T == {n \in Nat : n \in 1..N => g[n] \in Seq(S)}
  <2>2. 0 \in T
    OBVIOUS
  <2>3. ASSUME NEW n \in Nat, n \in T PROVE n + 1 \in T
    <3> SUFFICES ASSUME n + 1 \in 1..N PROVE g[n + 1] \in Seq(S)
      OBVIOUS
    <3>1. PICK next : next = n + 1
      OBVIOUS
    <3>2. next \in 1..N /\ next - 1 = n /\ (next # 1 => n \in 1..N)
      BY <1>1, <3>1
    <3>3. qs[next] \in Seq(S)
      BY <1>1, <3>2, ElementOfSeq DEF N
    <3>4. next # 1 => g[n] \in Seq(S)
      BY <2>3, <3>2
    <3>5. g[next] = IF next = 1 THEN qs[next] ELSE g[n] \o qs[next]
      BY <2>1, <3>2 DEF Flattens
    <3> QED
      BY <3>1, <3>3, <3>4, <3>5
  <2> HIDE DEF T
  <2>4. N \in T
    BY <1>1, <2>2, <2>3, SetInduction
  <2> QED
    BY <1>1, <1>3, <2>1, <2>4 DEF T
<1> QED
  BY <1>2, <1>3

\* Lists one after the other, of which each has X once or never.
LEMMA FlattenOccurs ==
  ASSUME NEW S, NEW qs \in Seq(Seq(S)), NEW X, NEW fs, NEW Y, DOMAIN fs = DOMAIN qs,
         \A i \in DOMAIN qs : Occurs(qs[i], X) = IF fs[i] \in Y THEN 1 ELSE 0
  PROVE  Occurs(FlattenSeq(qs), X) = Occurs(fs, Y)
<1> DEFINE N == Len(qs)
<1>1. N \in Nat /\ DOMAIN qs = 1..N
  OBVIOUS
<1>2. CASE N = 0
  <2>1. FlattenSeq(qs) = qs
    BY <1>2 DEF FlattenSeq
  <2>2. DOMAIN qs = {}
    BY <1>1, <1>2
  <2>3. Places(qs, X) = {} /\ Places(fs, Y) = {}
    BY <2>2 DEF Places
  <2> QED
    BY <2>1, <2>3 DEF Occurs
<1>3. CASE N # 0
  <2>1. PICK g : Flattens(g, qs, N) /\ FlattenSeq(qs) = g[N]
    BY <1>1, <1>3, FlattenDefined
  <2> HIDE DEF N
  <2> DEFINE T == {n \in Nat : n \in 1..N => /\ g[n] \in Seq(S)
                                             /\ Occurs(g[n], X) = Cardinality(Upto(fs, Y, n))}
  <2>2. 0 \in T
    OBVIOUS
  <2>3. ASSUME NEW n \in Nat, n \in T PROVE n + 1 \in T
    <3> SUFFICES ASSUME n + 1 \in 1..N
                 PROVE  /\ g[n + 1] \in Seq(S)
                        /\ Occurs(g[n + 1], X) = Cardinality(Upto(fs, Y, n + 1))
      OBVIOUS
    <3>1. PICK next : next = n + 1
      OBVIOUS
    <3>2. next \in 1..N /\ next - 1 = n /\ (next # 1 => n \in 1..N) /\ (next = 1 => n = 0)
      BY <1>1, <3>1
    <3>3. PICK q, r, p : q = g[n] /\ r = g[next] /\ p = qs[next]
      OBVIOUS
    <3>4. p \in Seq(S) /\ Occurs(p, X) = IF fs[next] \in Y THEN 1 ELSE 0
      BY <1>1, <3>2, <3>3, ElementOfSeq
    <3>5. Cardinality(Upto(fs, Y, next)) =
            Cardinality(Upto(fs, Y, n)) + (IF fs[next] \in Y THEN 1 ELSE 0)
      BY <3>1, UptoNext
    <3>6. CASE next = 1
      <4>1. r = p
        BY <2>1, <3>2, <3>3, <3>6 DEF Flattens
      <4>2. Cardinality(Upto(fs, Y, n)) = 0
        BY <3>2, <3>6, UptoNone
      <4> QED
        BY <3>1, <3>3, <3>4, <3>5, <4>1, <4>2
    <3>7. CASE next # 1
      <4>1. q \in Seq(S) /\ Occurs(q, X) = Cardinality(Upto(fs, Y, n))
        BY <2>3, <3>2, <3>3, <3>7
      <4>2. r = q \o p
        BY <2>1, <3>2, <3>3, <3>7 DEF Flattens
      <4>3. q \o p \in Seq(S) /\ Occurs(q \o p, X) = Occurs(q, X) + Occurs(p, X)
        BY <3>4, <4>1, OccursConcat
      <4> QED
        BY <3>1, <3>3, <3>4, <3>5, <4>1, <4>2, <4>3
    <3> QED
      BY <3>6, <3>7
  <2> HIDE DEF T
  <2>4. N \in T
    BY <1>1, <2>2, <2>3, SetInduction
  <2>5. Occurs(g[N], X) = Cardinality(Upto(fs, Y, N))
    BY <1>1, <1>3, <2>4 DEF T
  <2>6. Upto(fs, Y, N) = Places(fs, Y)
    BY <1>1 DEF Upto, Places
  <2> QED
    BY <2>1, <2>5, <2>6 DEF Occurs
<1> QED
  BY <1>2, <1>3

\* The functions of a name.
Function(name) == {d \in Def : d.kind = "function" /\ d.name = name}

\* A class or header keeps a function of a name once if the name first belongs to one.
LEMMA UniqueOccurs ==
  ASSUME NEW S, NEW defs \in Seq(S), Unique(defs) \in Seq(Def), NEW name
  PROVE  Occurs(Unique(defs), Function(name)) = IF FunctionFirst(defs, name) THEN 1 ELSE 0
<1>1. PICK q : q = Unique(defs)
  OBVIOUS
<1>2. \A i \in DOMAIN q : q[i] \in Def
  <2>1. q \in Seq(Def)
    BY <1>1
  <2> QED
    BY <2>1, ElementOfSeq
<1>3. Places(q, Function(name)) = Named(q, "function", name)
  BY <1>2 DEF Places, Function, Named
<1>4. CASE FunctionFirst(defs, name)
  <2>1. GetMember(q, "function", name) = "found"
    BY <1>1, <1>4, FirstFound
  <2>2. PICK k : Named(q, "function", name) = {k}
    BY <2>1 DEF GetMember
  <2> QED
    BY <1>1, <1>3, <1>4, <2>2, FS_Singleton DEF Occurs
<1>5. CASE ~FunctionFirst(defs, name)
  <2>1. Named(q, "function", name) = {}
    BY <1>1, <1>5, NotFirst DEF FunctionFirst
  <2> QED
    BY <1>1, <1>3, <1>5, <2>1, FS_EmptySet DEF Occurs
<1> QED
  BY <1>4, <1>5

------------------------------------------------------------------------------
(* Every class and every method has one entry: what is written              *)

Names    == STRING \cup {""} \cup {MakeName[n] : n \in DOMAIN MakeName}
EntryRec == [of : STRING \cup {"class", "function"}, name : Names, desc : {"block", "own"}]
EntriesOf(of, name) == {e \in EntryRec : e.of = of /\ e.name = name}

\* An operator gets no entry, everything else one.
IsEntry(q, of, name, desc) ==
  /\ q \in Seq(EntryRec)
  /\ \A e \in ToSet(q) : e.of = of /\ e.name = name /\ e.desc = desc
  /\ \A o, n : Occurs(q, EntriesOf(o, n)) =
                 IF o = of /\ n = name /\ n \notin Operators THEN 1 ELSE 0

LEMMA EntryWritten ==
  ASSUME NEW of \in STRING \cup {"class", "function"}, NEW name \in Names,
         NEW desc \in {"block", "own"}
  PROVE  IsEntry(Entry(of, name, desc), of, name, desc)
<1>1. PICK e : e = [of |-> of, name |-> name, desc |-> desc]
  OBVIOUS
<1>2. e \in EntryRec /\ e.of = of /\ e.name = name /\ e.desc = desc
  BY <1>1 DEF EntryRec
<1>3. PICK q : q = Entry(of, name, desc)
  OBVIOUS
<1>4. CASE name \in Operators
  <2>1. q = <<>>
    BY <1>3, <1>4 DEF Entry
  <2>2. q \in Seq(EntryRec) /\ ToSet(q) = {}
    BY <2>1 DEF ToSet
  <2>3. \A X : Occurs(q, X) = 0
    BY <2>2, OccursNever
  <2> QED
    BY <1>3, <1>4, <2>2, <2>3 DEF IsEntry
<1>5. CASE name \notin Operators
  <2>1. q = <<e>>
    BY <1>1, <1>3, <1>5 DEF Entry
  <2>2. q \in Seq(EntryRec) /\ ToSet(q) = {e}
    <3>1. <<e>> \in Seq(EntryRec)
      BY <1>2
    <3> QED
      BY <2>1, <3>1, OneOnce
  <2>3. \A X : Occurs(q, X) = IF e \in X THEN 1 ELSE 0
    BY <2>1, OccursOne
  <2>4. \A o, n : e \in EntriesOf(o, n) <=> o = of /\ n = name
    BY <1>2 DEF EntriesOf
  <2> QED
    BY <1>2, <1>3, <1>5, <2>2, <2>3, <2>4 DEF IsEntry
<1> QED
  BY <1>4, <1>5

\* The methods of a class come with its refid, as often as its functions are kept.
LEMMA MethodsWritten ==
  ASSUME NEW c, MembersOf(s, c.refid) \in Seq(Def), c.refid \in STRING
  PROVE  /\ Methods(c) \in Seq(EntryRec)
         /\ \A o, n : Occurs(Methods(c), EntriesOf(o, n)) =
                        IF o = c.refid /\ n \notin Operators
                        THEN Occurs(MembersOf(s, c.refid), Function(n)) ELSE 0
<1>1. PICK defs, fs : defs = MembersOf(s, c.refid) /\ fs = OfKind(defs, "function")
  OBVIOUS
<1>2. defs \in Seq(Def) /\ fs \in Seq(Def)
  BY <1>1, OfKindChooses
<1>3. PICK qs : qs = [i \in DOMAIN fs |-> Entry(c.refid, fs[i].name, "own")]
  OBVIOUS
<1>4. ASSUME NEW i \in DOMAIN fs
      PROVE  fs[i] \in Def /\ IsEntry(qs[i], c.refid, fs[i].name, "own")
  <2>1. fs[i] \in Def
    BY <1>2, ElementOfSeq
  <2>2. fs[i].name \in Names
    BY <2>1 DEF Def, Names
  <2>3. IsEntry(Entry(c.refid, fs[i].name, "own"), c.refid, fs[i].name, "own")
    BY <2>2, EntryWritten
  <2> QED
    BY <1>3, <2>1, <2>3
<1>5. qs \in Seq(Seq(EntryRec)) /\ DOMAIN qs = DOMAIN fs
  <2>1. DOMAIN fs = 1..Len(fs) /\ Len(fs) \in Nat
    BY <1>2
  <2> QED
    BY <1>3, <1>4, <2>1 DEF IsEntry
<1>6. Methods(c) = FlattenSeq(qs)
  BY <1>1, <1>3 DEF Methods
<1>7. Methods(c) \in Seq(EntryRec)
  BY <1>5, <1>6, FlattenType
<1>8. ASSUME NEW o, NEW n, o = c.refid /\ n \notin Operators
      PROVE  Occurs(FlattenSeq(qs), EntriesOf(o, n)) = Occurs(defs, Function(n))
  <2>1. PICK Y : Y = {d \in Def : d.name = n}
    OBVIOUS
  <2>2. \A i \in DOMAIN qs : Occurs(qs[i], EntriesOf(o, n)) = IF fs[i] \in Y THEN 1 ELSE 0
    BY <1>4, <1>5, <1>8, <2>1 DEF IsEntry
  <2>3. Occurs(FlattenSeq(qs), EntriesOf(o, n)) = Occurs(fs, Y)
    <3>1. PICK X : X = EntriesOf(o, n)
      OBVIOUS
    <3>2. PICK S : S = EntryRec
      OBVIOUS
    <3>3. qs \in Seq(Seq(S)) /\ DOMAIN fs = DOMAIN qs
      BY <1>5, <3>2
    <3>4. \A i \in DOMAIN qs : Occurs(qs[i], X) = IF fs[i] \in Y THEN 1 ELSE 0
      BY <2>2, <3>1
    <3>5. Occurs(FlattenSeq(qs), X) = Occurs(fs, Y)
      BY <3>3, <3>4, FlattenOccurs
    <3> QED
      BY <3>1, <3>5
  <2>4. {d \in Y : d.kind = "function"} = Function(n)
    BY <2>1 DEF Function
  <2>5. Occurs(fs, Y) = Occurs(defs, {d \in Y : d.kind = "function"})
    BY <1>1, <1>2, OfKindOccurs
  <2> QED
    BY <2>3, <2>4, <2>5
<1>9. ASSUME NEW o, NEW n, ~(o = c.refid /\ n \notin Operators)
      PROVE  Occurs(FlattenSeq(qs), EntriesOf(o, n)) = 0
  <2>1. PICK Y : Y = {}
    OBVIOUS
  <2>2. \A i \in DOMAIN qs : Occurs(qs[i], EntriesOf(o, n)) = IF fs[i] \in Y THEN 1 ELSE 0
    BY <1>4, <1>5, <1>9, <2>1 DEF IsEntry
  <2>3. Occurs(FlattenSeq(qs), EntriesOf(o, n)) = Occurs(fs, Y)
    <3>1. PICK X : X = EntriesOf(o, n)
      OBVIOUS
    <3>2. PICK S : S = EntryRec
      OBVIOUS
    <3>3. qs \in Seq(Seq(S)) /\ DOMAIN fs = DOMAIN qs
      BY <1>5, <3>2
    <3>4. \A i \in DOMAIN qs : Occurs(qs[i], X) = IF fs[i] \in Y THEN 1 ELSE 0
      BY <2>2, <3>1
    <3>5. Occurs(FlattenSeq(qs), X) = Occurs(fs, Y)
      BY <3>3, <3>4, FlattenOccurs
    <3> QED
      BY <3>1, <3>5
  <2>4. Occurs(fs, Y) = 0
    BY <1>2, <2>1, OccursNever
  <2> QED
    BY <2>3, <2>4
<1> QED
  BY <1>1, <1>6, <1>7, <1>8, <1>9

\* q has the entry of c, if there is something to tell, and those of its methods k times.
ClassIn(c, q, k) ==
  /\ Occurs(q, EntriesOf("class", c.name)) = IF c.name \notin Operators /\ Told(c) THEN k ELSE 0
  /\ \A n : n \notin Operators =>
       Occurs(q, EntriesOf(c.refid, n)) =
         IF FunctionFirst(w.xml[c.refid].members, n) THEN k ELSE 0

LEMMA ClassConcat ==
  ASSUME NEW S, NEW q \in Seq(S), NEW r \in Seq(S), NEW c, NEW j \in Nat, NEW k \in Nat,
         ClassIn(c, q, j), ClassIn(c, r, k)
  PROVE  ClassIn(c, q \o r, j + k)
<1>1. \A X : Occurs(q \o r, X) = Occurs(q, X) + Occurs(r, X)
  BY OccursConcat
<1> QED
  BY <1>1 DEF ClassIn

\* q has the entries of the classes of C once, and no entry of another class.
HasEntries(q, C) ==
  /\ q \in Seq(EntryRec)
  /\ \A d \in Compounds("class") : ClassIn(d, q, IF d \in C THEN 1 ELSE 0)

LEMMA HasConcat ==
  ASSUME NEW q, NEW r, NEW C, NEW D, HasEntries(q, C), HasEntries(r, D),
         \A d \in Compounds("class") : d \in C => d \notin D
  PROVE  HasEntries(q \o r, C \cup D)
<1>1. q \in Seq(EntryRec) /\ r \in Seq(EntryRec)
  BY DEF HasEntries
<1>2. ASSUME NEW d \in Compounds("class")
      PROVE  ClassIn(d, q \o r, IF d \in C \cup D THEN 1 ELSE 0)
  <2>1. PICK j, k : j = (IF d \in C THEN 1 ELSE 0) /\ k = (IF d \in D THEN 1 ELSE 0)
    OBVIOUS
  <2>2. ClassIn(d, q, j) /\ ClassIn(d, r, k)
    BY <2>1 DEF HasEntries
  <2>3. j \in Nat /\ k \in Nat /\ j + k = IF d \in C \cup D THEN 1 ELSE 0
    BY <2>1
  <2>4. ClassIn(d, q \o r, j + k)
    BY <1>1, <2>2, <2>3, ClassConcat
  <2> QED
    BY <2>3, <2>4
<1>3. q \o r \in Seq(EntryRec)
  BY <1>1
<1> QED
  BY <1>2, <1>3 DEF HasEntries

\* The classes with an entry; what is left of a loop tells how far it came.
Written ==
  CASE pc = "entries"   -> ToSet(blocks) \ ToSet(left)
    [] pc = "functions" -> ToSet(blocks)
    [] pc = "classes"   -> ToSet(blocks) \cup {c \in Classes \ ToSet(left) : Good(c)}
    [] OTHER            -> {c \in Compounds("class") : Good(c)}

Writing    == pc \in {"entries", "functions", "classes", "done"} /\ IndexReadable
WrittenInv == Writing => HasEntries(out, Written)

\* What is known of a class once it was asked for.
ClassRead(c) ==
  /\ c.kind = "class" /\ c.refid \in STRING \ {"class", "function"} /\ c.name \in Names
  /\ MembersOf(s, c.refid) \in Seq(Def)
  /\ c.refid \in s.failed => ~Good(c)
  /\ c.refid \in DOMAIN s.members =>
       /\ Good(c)
       /\ \A n : Occurs(MembersOf(s, c.refid), Function(n)) =
                   IF FunctionFirst(w.xml[c.refid].members, n) THEN 1 ELSE 0
  /\ \A d \in Compounds("class") : c.name = d.name \/ c.refid = d.refid => c = d

\* Once the blocks are found every class was asked for, and those read without error are
\* the good ones.
LEMMA ClassesRead ==
  ASSUME GenInv, ListInv, Writing
  PROVE  /\ Classes = Compounds("class")
         /\ ToSet(blocks) \subseteq {c \in Compounds("class") : Good(c)}
         /\ \A c \in Compounds("class") : ClassRead(c)
<1>1. pc \notin {"client", "index"} /\ IndexReadable /\ "index" \in s.parsed
  BY DEF Writing, ListInv, TopListInv
<1>2. /\ IsWorld(w) /\ StoreInv(w, s) /\ IndexKinds(w, s)
      /\ \A c \in ToSet(w.index) : c.refid \in DOMAIN s.refs
  BY <1>1, StoreTypes DEF GenInv, IndexInv
<1>3. Classes = Compounds("class")
  <2>1. Compounds("class") \subseteq Classes
    BY <1>1 DEF ListInv, TopListInv
  <2>2. Classes \subseteq Compounds("class")
    BY <1>2 DEF Classes, Compounds, StoreInv, TopInv
  <2> QED
    BY <2>1, <2>2
<1>4. ToSet(blocks) \subseteq {c \in Compounds("class") : Good(c)}
  BY <1>2 DEF GenInv, ControlInv, BlockInv, StoreInv, ReadInv, Good
<1>5. ASSUME NEW c \in Compounds("class") PROVE ClassRead(c)
  <2>1. c \in ToSet(w.index) /\ c.kind = "class" /\ c.refid \in DOMAIN s.refs
    BY <1>2 DEF Compounds
  <2>2. c \in Def /\ c.refid \in DOMAIN w.xml /\ DOMAIN w.xml \subseteq STRING \ {"class", "function"}
    <3>1. DOMAIN w.xml \subseteq STRING \ {"class", "function"}
      BY <1>2 DEF IsWorld
    <3> QED
      BY <1>2, <2>1, <3>1, IndexTypes
  <2>3. c.name \in Names
    BY <2>2 DEF Def, Names
  <2>4. s.refs[c.refid] = "class"
    BY <1>2, <2>1 DEF IndexKinds
  <2>5. MembersOf(s, c.refid) \in Seq(Def)
    BY <1>2, <2>4, MembersTypes
  <2>6. /\ c.refid \in s.failed => ~Good(c)
        /\ c.refid \in DOMAIN s.members => Good(c)
    BY <1>2 DEF StoreInv, ReadInv, Good
  <2>7. ASSUME c.refid \in DOMAIN s.members, NEW n
        PROVE  Occurs(MembersOf(s, c.refid), Function(n)) =
                 IF FunctionFirst(w.xml[c.refid].members, n) THEN 1 ELSE 0
    <3>1. PICK defs, S : defs = w.xml[c.refid].members
                         /\ S = [kind : MemberKind, refid : {""}, name : STRING]
      OBVIOUS
    <3>2. defs \in Seq(S)
      BY <1>2, <2>2, <3>1 DEF IsWorld
    <3>3. MembersOf(s, c.refid) = Unique(defs)
      BY <1>2, <2>4, <2>7, <3>1 DEF MembersOf, Get, StoreInv, ReadInv
    <3> QED
      BY <2>5, <3>1, <3>2, <3>3, UniqueOccurs
  <2>8. ASSUME NEW d \in Compounds("class"), c.name = d.name \/ c.refid = d.refid
        PROVE  c = d
    BY <1>2, <2>8 DEF Compounds, ToSet, IsWorld
  <2> QED
    BY <2>1, <2>2, <2>3, <2>5, <2>6, <2>7, <2>8 DEF ClassRead
<1> QED
  BY <1>3, <1>4, <1>5

\* A class gets one entry of its own, and one for each of its methods.
LEMMA ClassEntryWritten ==
  ASSUME \A d \in Compounds("class") : ClassRead(d),
         NEW c \in Compounds("class"), c.refid \in DOMAIN s.members, NEW desc \in {"block", "own"},
         NEW text, text <=> Told(c)
  PROVE  /\ HasEntries(ClassEntry(c, desc, text), {c})
         /\ \A n : Occurs(ClassEntry(c, desc, text), EntriesOf("function", n)) = 0
<1>1. ClassRead(c)
  OBVIOUS
<1>2. PICK q, r : q = (IF text THEN Entry("class", c.name, desc) ELSE <<>>) /\ r = Methods(c)
  OBVIOUS
<1>3. /\ q \in Seq(EntryRec)
      /\ \A o, n : Occurs(q, EntriesOf(o, n)) =
                     IF o = "class" /\ n = c.name /\ n \notin Operators /\ Told(c) THEN 1 ELSE 0
  <2>1. CASE text
    <3>1. IsEntry(q, "class", c.name, desc)
      BY <1>1, <1>2, <2>1, EntryWritten DEF ClassRead
    <3> QED
      BY <2>1, <3>1 DEF IsEntry
  <2>2. CASE ~text
    <3>1. q = <<>>
      BY <1>2, <2>2
    <3>2. q \in Seq(EntryRec) /\ ToSet(q) = {}
      BY <3>1 DEF ToSet
    <3>3. \A X : Occurs(q, X) = 0
      BY <3>2, OccursNever
    <3> QED
      BY <2>2, <3>2, <3>3
  <2> QED
    BY <2>1, <2>2
<1>4. /\ r \in Seq(EntryRec)
      /\ \A o, n : Occurs(r, EntriesOf(o, n)) =
                     IF o = c.refid /\ n \notin Operators
                     THEN IF FunctionFirst(w.xml[c.refid].members, n) THEN 1 ELSE 0 ELSE 0
  BY <1>1, <1>2, MethodsWritten DEF ClassRead
<1>5. ClassEntry(c, desc, text) = q \o r
  BY <1>2 DEF ClassEntry
<1>6. q \in Seq(EntryRec) /\ q \o r \in Seq(EntryRec)
  BY <1>3, <1>4
<1>7. \A X : Occurs(q \o r, X) = Occurs(q, X) + Occurs(r, X)
  BY <1>4, <1>6, OccursConcat
<1>8. ASSUME NEW o, NEW n
      PROVE  Occurs(q \o r, EntriesOf(o, n)) =
               IF o = "class" /\ n = c.name /\ n \notin Operators /\ Told(c) THEN 1
               ELSE IF o = c.refid /\ n \notin Operators /\ FunctionFirst(w.xml[c.refid].members, n)
               THEN 1 ELSE 0
  BY <1>1, <1>3, <1>4, <1>7 DEF ClassRead
<1>9. ASSUME NEW d \in Compounds("class") PROVE ClassIn(d, q \o r, IF d \in {c} THEN 1 ELSE 0)
  <2>1. ClassRead(d)
    OBVIOUS
  <2> QED
    BY <1>1, <1>8, <2>1 DEF ClassIn, ClassRead
<1>10. \A n : Occurs(q \o r, EntriesOf("function", n)) = 0
  BY <1>1, <1>8 DEF ClassRead
<1> QED
  BY <1>5, <1>6, <1>9, <1>10 DEF HasEntries

\* A function is no class.
LEMMA FunctionWritten ==
  ASSUME \A d \in Compounds("class") : ClassRead(d), NEW name \in Names, NEW desc \in {"block", "own"}
  PROVE  HasEntries(Entry("function", name, desc), {})
<1>1. PICK q : q = Entry("function", name, desc)
  OBVIOUS
<1>2. IsEntry(q, "function", name, desc)
  BY <1>1, EntryWritten
<1>3. ASSUME NEW d \in Compounds("class") PROVE ClassIn(d, q, IF d \in {} THEN 1 ELSE 0)
  <2>1. d.refid # "function"
    BY DEF ClassRead
  <2> QED
    BY <1>2, <2>1 DEF IsEntry, ClassIn
<1> QED
  BY <1>1, <1>2, <1>3 DEF IsEntry, HasEntries

\* What is to be told of a class depends on the directory and the blocks.
LEMMA ToldStays ==
  ASSUME UNCHANGED <<w, blocks>>, NEW c
  PROVE  Told(c)' <=> Told(c)
  BY DEF Told, HasText, HeaderFiles, Compounds

LEMMA NothingWritten ==
  ASSUME WrittenInv, UNCHANGED <<w, blocks, out>>, Writing' => Writing,
         \A c \in Compounds("class") : c \in Written' <=> c \in Written
  PROVE  WrittenInv'
<1>1. ASSUME Writing PROVE HasEntries(out, Written)'
  <2>1. \A c : Told(c)' <=> Told(c)
    BY ToldStays
  <2> QED
    BY <1>1, <2>1 DEF WrittenInv, HasEntries, ClassIn, Compounds
<1> QED
  BY <1>1 DEF WrittenInv

\* A step that writes the entries r of the classes of C.
LEMMA MoreWritten ==
  ASSUME WrittenInv, Writing, UNCHANGED <<w, blocks>>, NEW r, NEW C, HasEntries(r, C), out' = out \o r,
         \A c \in Compounds("class") : c \in Written => c \notin C,
         \A c \in Compounds("class") : c \in Written' <=> c \in Written \cup C
  PROVE  WrittenInv'
<1>1. HasEntries(out \o r, Written \cup C)
  BY HasConcat DEF WrittenInv
<1>2. \A c : Told(c)' <=> Told(c)
  BY ToldStays
<1> QED
  BY <1>1, <1>2 DEF WrittenInv, HasEntries, ClassIn, Compounds

LEMMA BlocksWritten ==
  ASSUME GenInv, ListInv, FindBlocks
  PROVE  WrittenInv'
<1>1. pc = "blocks" /\ out = <<>> /\ w' = w /\ out' = out
  BY DEF FindBlocks, ListInv, LoopInv
<1>2. Writing' => pc' = "entries" /\ left' = blocks'
  BY <1>1 DEF FindBlocks, Raise, Writing
<1>3. <<>> \in Seq(EntryRec) /\ \A X : Occurs(<<>>, X) = 0
  <2>1. <<>> \in Seq(EntryRec) /\ ToSet(<<>>) = {}
    BY DEF ToSet
  <2> QED
    BY <2>1, OccursNever
<1>4. ASSUME Writing' PROVE HasEntries(out, Written)'
  <2>1. Written' = {}
    BY <1>2, <1>4 DEF Written
  <2> QED
    BY <1>1, <1>3, <2>1 DEF HasEntries, ClassIn
<1> QED
  BY <1>4 DEF WrittenInv

\* The header whose description a block is given is the one of its name in the index.
LEMMA BlockTold ==
  ASSUME GenInv, ListInv, Writing, NEW c \in ToSet(blocks)
  PROVE  BlockText(c) <=> Told(c)
<1>1. Files = HeaderFiles
  BY DEF Writing, ListInv, TopListInv
<1>2. \A name : (\E i \in Named(s.top, "file", name) : HasText("compound", s.top[i].refid)) <=>
                 (\E h \in Files : h.name = name /\ HasText("compound", h.refid))
  BY DEF Named, Files, ToSet
<1> QED
  BY <1>1, <1>2 DEF BlockText, Told

LEMMA BlockEntriesWritten ==
  ASSUME GenInv, ListInv, WrittenInv, BlockEntries
  PROVE  WrittenInv'
<1>1. /\ pc = "entries" /\ UNCHANGED <<w, back, blocks>> /\ back = "blocks"
      /\ left \in Seq(Def) /\ ToSet(left) \subseteq ToSet(blocks) /\ NoTwice(left)
  BY DEF BlockEntries, GenInv, SearchInv, ListInv, LoopInv
<1>2. Writing' => Writing
  BY <1>1, WorldStays DEF Writing
<1>3. CASE left = <<>>
  <2>1. pc' = "functions" /\ UNCHANGED out
    BY <1>3 DEF BlockEntries
  <2>2. Written' = Written
    BY <1>1, <1>3, <2>1 DEF Written, ToSet
  <2> QED
    BY <1>1, <1>2, <2>1, <2>2, NothingWritten
<1>4. CASE left # <<>> /\ pc' = "crashed"
  BY <1>4 DEF WrittenInv, Writing
<1>5. CASE left # <<>> /\ pc' # "crashed"
  <2> SUFFICES ASSUME Writing PROVE WrittenInv'
    BY <1>2 DEF WrittenInv
  <2>1. PICK c : c = Head(left)
    OBVIOUS
  <2>2. PICK p, q : /\ p = ClassEntry(c, "block", BlockText(c))
                    /\ q = Entry("function", MakeName[c.name], "block")
    OBVIOUS
  <2>3. pc' = pc /\ left' = Tail(left) /\ out' = (out \o p) \o q
    BY <1>1, <1>5, <2>1, <2>2 DEF BlockEntries, Raise
  <2>4. \A d \in Compounds("class") : ClassRead(d)
    BY ClassesRead
  <2>5. /\ c \in Compounds("class") /\ c.kind = "class" /\ ToSet(blocks) \subseteq Compounds("class")
        /\ c.refid \in DOMAIN s.members /\ MakeName[c.name] \in Names
        /\ BlockText(c) <=> Told(c)
    <3>1. c \in ToSet(blocks)
      BY <1>1, <1>5, <2>1, HeadTailSet
    <3>2. c \in Compounds("class") /\ ToSet(blocks) \subseteq Compounds("class")
      BY <3>1, ClassesRead
    <3>3. BlockText(c) <=> Told(c)
      BY <3>1, BlockTold
    <3> QED
      BY <2>4, <3>1, <3>2, <3>3 DEF ClassRead, GenInv, BlockInv, Names
  <2>6. /\ c \in ToSet(left) /\ ToSet(left) = {c} \cup ToSet(left') /\ c \notin ToSet(left')
    BY <1>1, <1>5, <2>1, <2>3, <2>5, HeadTailSet, TailOnce
  <2>7. Written' = Written \cup {c} /\ c \notin Written
    BY <1>1, <2>3, <2>6 DEF Written
  <2>8. PICK C, D : C = {c} /\ D = {}
    OBVIOUS
  <2>9. HasEntries(p, C) /\ HasEntries(q, D)
    BY <2>2, <2>4, <2>5, <2>8, ClassEntryWritten, FunctionWritten
  <2>10. HasEntries(p \o q, C)
    <3>1. C \cup D = C
      BY <2>8
    <3> QED
      BY <2>8, <2>9, <3>1, HasConcat
  <2>11. out' = out \o (p \o q)
    <3>1. out \in Seq(EntryRec) /\ p \in Seq(EntryRec) /\ q \in Seq(EntryRec)
      BY <2>9 DEF WrittenInv, HasEntries
    <3> QED
      BY <2>3, <3>1, ConcatAssociative
  <2>12. /\ \A d \in Compounds("class") : d \in Written => d \notin C
         /\ \A d \in Compounds("class") : d \in Written' <=> d \in Written \cup C
    BY <2>7, <2>8
  <2> QED
    BY <1>1, <2>10, <2>11, <2>12, MoreWritten
<1> QED
  BY <1>3, <1>4, <1>5

LEMMA FunctionEntriesWritten ==
  ASSUME GenInv, ListInv, WrittenInv, FunctionEntries
  PROVE  WrittenInv'
<1>1. pc = "functions" /\ UNCHANGED <<w, s, blocks>>
  BY DEF FunctionEntries
<1>2. Writing' => Writing
  BY <1>1, WorldStays DEF Writing
<1>3. CASE left = <<>>
  <2>1. pc' = "classes" /\ left' = OfKind(s.top, "class") /\ UNCHANGED out
    BY <1>3 DEF FunctionEntries
  <2>2. Classes \subseteq ToSet(left')
    BY <2>1, StoreTypes, OfKindOnce DEF ListInv, TopListInv, Classes, ClassesIn
  <2>3. Classes' = Classes
    BY <1>1 DEF Classes
  <2>4. Written' = Written
    BY <1>1, <2>1, <2>2, <2>3 DEF Written
  <2> QED
    BY <1>1, <1>2, <2>1, <2>4, NothingWritten
<1>4. CASE left # <<>>
  <2>1. PICK q : q = Entry("function", Head(left).name, "own")
    OBVIOUS
  <2>2. pc' = pc /\ (out' = out \/ out' = out \o q)
    BY <1>4, <2>1 DEF FunctionEntries
  <2>3. Written' = Written
    BY <1>1, <2>2 DEF Written
  <2>4. CASE out' = out
    BY <1>1, <1>2, <2>3, <2>4, NothingWritten
  <2>5. CASE out' = out \o q
    <3> SUFFICES ASSUME Writing PROVE WrittenInv'
      BY <1>2 DEF WrittenInv
    <3>1. PICK C : C = {}
      OBVIOUS
    <3>2. \A d \in Compounds("class") : ClassRead(d)
      BY ClassesRead
    <3>3. Head(left).name \in Names
      <4>1. left \in Seq(Def)
        BY <1>1 DEF GenInv, SearchInv
      <4>2. Head(left) \in Def
        BY <1>4, <4>1
      <4> QED
        BY <4>2 DEF Def, Names
    <3>4. HasEntries(q, C)
      BY <2>1, <3>1, <3>2, <3>3, FunctionWritten
    <3> QED
      BY <1>1, <2>3, <2>5, <3>1, <3>4, MoreWritten
  <2> QED
    BY <2>2, <2>4, <2>5
<1> QED
  BY <1>3, <1>4

LEMMA ClassEntriesWritten ==
  ASSUME GenInv, ListInv, WrittenInv, ClassEntries
  PROVE  WrittenInv'
<1>1. /\ pc = "classes" /\ UNCHANGED <<w, back, blocks>> /\ back = "blocks" /\ s' = s
      /\ left \in Seq(Def) /\ ToSet(left) \subseteq Classes /\ NoTwice(left) /\ Classes' = Classes
  BY DEF ClassEntries, Raise, GenInv, SearchInv, ListInv, LoopInv, Classes
<1>2. Writing' => Writing
  BY <1>1, WorldStays DEF Writing
<1> SUFFICES ASSUME Writing, Writing' PROVE WrittenInv'
  BY <1>2 DEF WrittenInv
<1>3. /\ Classes = Compounds("class") /\ Compounds("class")' = Compounds("class")
      /\ ToSet(blocks) \subseteq {c \in Compounds("class") : Good(c)}
      /\ \A d \in Compounds("class") : ClassRead(d)
      /\ \A c : Good(c)' <=> Good(c)
  BY <1>1, ClassesRead, WorldStays DEF Good
<1>4. CASE left = <<>>
  <2>1. pc' = "done" /\ UNCHANGED out
    BY <1>4 DEF ClassEntries
  <2>2. ToSet(left) = {}
    BY <1>4 DEF ToSet
  <2>3. Written' = Written
    BY <1>1, <1>3, <2>1, <2>2 DEF Written
  <2> QED
    BY <1>1, <2>1, <2>3, NothingWritten
<1>5. CASE left # <<>>
  <2>1. PICK c : c = Head(left)
    OBVIOUS
  <2>2. PICK r : r = ClassEntry(c, "own", HasText("compound", c.refid))
    OBVIOUS
  <2>3. /\ pc' = pc /\ left' = Tail(left) /\ (InBlocks(c) \/ ~Undescribed(c))
        /\ out' = IF InBlocks(c) \/ c.refid \in s.failed THEN out ELSE out \o r
    BY <1>1, <1>5, <2>1, <2>2 DEF ClassEntries, Raise, Writing
  <2>4. c \in Compounds("class")
    BY <1>1, <1>3, <1>5, <2>1, HeadTailSet
  <2>5. ClassRead(c)
    BY <1>3, <2>4
  <2>6. /\ c \in ToSet(left) /\ ToSet(left) = {c} \cup ToSet(left') /\ c \notin ToSet(left')
    BY <1>1, <1>5, <2>1, <2>3, <2>5, HeadTailSet, TailOnce DEF ClassRead
  <2>7. Written' = Written \cup (IF Good(c) THEN {c} ELSE {})
    BY <1>1, <1>3, <2>3, <2>4, <2>6 DEF Written
  <2>8. InBlocks(c) <=> c \in ToSet(blocks)
    BY <1>3, <2>5 DEF InBlocks, ClassRead
  <2>9. CASE InBlocks(c) \/ c.refid \in s.failed
    <3>1. c.refid \in s.failed => ~Good(c)
      BY <2>5 DEF ClassRead
    <3>2. Written' = Written
      BY <1>1, <1>3, <2>7, <2>8, <2>9, <3>1 DEF Written
    <3> QED
      BY <1>1, <2>3, <2>9, <3>2, NothingWritten
  <2>10. CASE ~(InBlocks(c) \/ c.refid \in s.failed)
    <3>1. c.refid \in DOMAIN s.members /\ Good(c)
      BY <2>3, <2>5, <2>10 DEF Undescribed, ClassRead
    <3>2. Written' = Written \cup {c} /\ c \notin Written
      BY <1>1, <2>6, <2>7, <2>8, <2>10, <3>1 DEF Written
    <3>3. PICK C : C = {c}
      OBVIOUS
    <3>4. HasEntries(r, C)
      <4>1. HasText("compound", c.refid) <=> Told(c)
        BY <2>8, <2>10 DEF Told
      <4> QED
        BY <1>3, <2>2, <2>4, <3>1, <3>3, <4>1, ClassEntryWritten
    <3>5. out' = out \o r
      BY <2>3, <2>10
    <3>6. /\ \A d \in Compounds("class") : d \in Written => d \notin C
          /\ \A d \in Compounds("class") : d \in Written' <=> d \in Written \cup C
      BY <3>2, <3>3
    <3> QED
      BY <1>1, <3>4, <3>5, <3>6, MoreWritten
  <2> QED
    BY <2>9, <2>10
<1> QED
  BY <1>4, <1>5

LEMMA WrittenNext == GenInv /\ ListInv /\ WrittenInv /\ [Next]_vars => WrittenInv'
<1> SUFFICES ASSUME GenInv, ListInv, WrittenInv, [Next]_vars PROVE WrittenInv'
  OBVIOUS
<1>1. CASE ClientIndex \/ ClientCall \/ Start \/ ParseIndex
  <2>1. pc' \in {"client", "index", "blocks", "crashed"}
    BY <1>1 DEF ClientIndex, ClientCall, Start, ParseIndex, AskIndex, Raise, GenInv, ControlInv
  <2> QED
    BY <2>1 DEF WrittenInv, Writing
<1>2. CASE FindBlocks
  BY <1>2, BlocksWritten
<1>3. CASE BlockEntries \/ FunctionEntries \/ ClassEntries
  BY <1>3, BlockEntriesWritten, FunctionEntriesWritten, ClassEntriesWritten
<1>4. CASE UNCHANGED vars
  <2>1. UNCHANGED <<w, s, pc, left, blocks, out>>
    BY <1>4 DEF vars
  <2>2. (Writing' <=> Writing) /\ Written' = Written
    BY <2>1, WorldStays DEF Writing, Written, Classes, Compounds, Good
  <2> QED
    BY <2>1, <2>2, NothingWritten
<1> QED
  BY <1>1, <1>2, <1>3, <1>4 DEF Next

\* What the properties count in the file.
LEMMA EntriesCounted ==
  ASSUME out \in Seq(EntryRec), NEW of, NEW name
  PROVE  Entries(of, name) = Places(out, EntriesOf(of, name))
<1>1. \A i \in DOMAIN out : out[i] \in EntryRec
  BY ElementOfSeq
<1> QED
  BY <1>1 DEF Entries, Places, EntriesOf

\* At the end the entries are those of the classes that could be read.
LEMMA EntriesDone ==
  ASSUME GenInv, ListInv, WrittenInv, pc = "done", calls = 0 \/ IndexReadable,
         NEW c \in Compounds("class")
  PROVE  /\ Writing /\ out \in Seq(EntryRec)
         /\ ClassIn(c, out, IF Good(c) THEN 1 ELSE 0)
<1>1. IndexReadable
  BY DEF ListInv, SoundInv
<1>2. Writing /\ HasEntries(out, Written) /\ (c \in Written <=> Good(c))
  BY <1>1 DEF WrittenInv, Writing, Written
<1> QED
  BY <1>2 DEF HasEntries

LEMMA WrittenInit == Init => WrittenInv
  BY DEF Init, WrittenInv, Writing

\* In the file every class that could be read and is described has one entry, the others
\* have none, in whatever order the client, the index, the blocks, the functions and the
\* classes make, read and write them (swig_doc.py:88-111, :197-224).
THEOREM ClassesWrittenOnce == Spec => []EveryClassOnce
<1>1. GenInv /\ ListInv /\ WrittenInv => EveryClassOnce
  <2> SUFFICES ASSUME GenInv, ListInv, WrittenInv, pc = "done", calls = 0 \/ IndexReadable,
                      NEW c \in Compounds("class")
               PROVE  Cardinality(Entries("class", c.name)) =
                        IF Good(c) /\ Told(c) /\ c.name \notin Operators THEN 1 ELSE 0
    BY DEF EveryClassOnce
  <2>1. out \in Seq(EntryRec) /\ ClassIn(c, out, IF Good(c) THEN 1 ELSE 0)
    BY EntriesDone
  <2> QED
    BY <2>1, EntriesCounted DEF ClassIn, Occurs
<1> QED
  BY <1>1, GenInit, GenNext, ListInit, ListNext, WrittenInit, WrittenNext, PTL DEF Spec

\* Every class that could be read documents each of its functions once: those a name
\* belongs to first (base.py:177, swig_doc.py:136), as a block or as a class.
THEOREM MethodsWrittenOnce == Spec => []MethodsOnce
<1>1. GenInv /\ ListInv /\ WrittenInv => MethodsOnce
  <2> SUFFICES ASSUME GenInv, ListInv, WrittenInv, pc = "done", calls = 0 \/ IndexReadable,
                      NEW c \in Compounds("class"), Good(c), NEW n, n \notin Operators
               PROVE  Cardinality(Entries(c.refid, n)) =
                        IF FunctionFirst(w.xml[c.refid].members, n) THEN 1 ELSE 0
    BY DEF MethodsOnce
  <2>1. out \in Seq(EntryRec) /\ ClassIn(c, out, IF Good(c) THEN 1 ELSE 0)
    BY EntriesDone
  <2> QED
    BY <2>1, EntriesCounted DEF ClassIn, Occurs
<1> QED
  BY <1>1, GenInit, GenNext, ListInit, ListNext, WrittenInit, WrittenNext, PTL DEF Spec

------------------------------------------------------------------------------
(* Every function has an entry for each header it is in: what the index has  *)

\* The headers among H that have a function of the name.
Declaring(H, n) == {c \in H : FunctionFirst(w.xml[c.refid].members, n)}

\* The headers read so far, and how often a function is among the members of the index.
HeadersRead == IF pc = "index" THEN HeaderFiles \ ToSet(left) ELSE HeaderFiles
Declared(n) == Occurs(s.top, Function(n))

CountInv ==
  "index" \in s.parsed /\ (pc # "index" => IndexReadable) =>
    \A n : Declared(n) = Cardinality(Declaring(HeadersRead, n))

\* A header brings each of its functions once, every other compound none.
LEMMA IndexCompoundCount ==
  ASSUME NEW v, IsWorld(v), NEW s0, StoreInv(v, s0), IndexKinds(v, s0), NEW c \in ToSet(v.index),
         c.refid \notin s0.parsed, IndexCompound(v, s0, c).raised = "no", NEW n
  PROVE  Occurs(IndexCompound(v, s0, c).top, Function(n)) =
           Occurs(s0.top, Function(n)) +
             (IF /\ c.kind = "file" /\ c.name \in Headers
                 /\ FunctionFirst(v.xml[c.refid].members, n) THEN 1 ELSE 0)
<1> DEFINE known == FromParseData(s0, c)
           parsed == Parse(v, known, c.refid)
           sure == Confirm(v, known, c.refid)
           t == IndexCompound(v, s0, c)
<1>1. /\ StoreInv(v, known) /\ IndexKinds(v, known) /\ c.refid \in DOMAIN known.refs
      /\ known.top = s0.top /\ known.parsed = s0.parsed
  BY FromParseDataInv, FromParseDataKinds, FromParseDataStore DEF StoreInv, OnlyInstances
<1>2. c \in Def /\ c.refid \in DOMAIN v.xml /\ c.kind # "function"
  <2>1. PICK S : S = [kind : CompoundKind, refid : DOMAIN v.xml, name : STRING]
    OBVIOUS
  <2>2. v.index \in Seq(S)
    BY <2>1 DEF IsWorld
  <2>3. \A i \in DOMAIN v.index : v.index[i] \in S
    BY <2>2, ElementOfSeq
  <2>4. c.kind # "function"
    BY <2>1, <2>3 DEF ToSet, CompoundKind
  <2> QED
    BY <2>4, IndexTypes
<1>3. /\ StoreInv(v, sure) /\ SameObjects(parsed, sure) /\ sure.top = parsed.top
      /\ sure.raised = IF parsed.raised = "no" /\ c.refid \in parsed.failed
                       THEN "ParsingError" ELSE parsed.raised
  BY <1>1, ConfirmInv
<1>4. /\ Parsed(v, known, c.refid, parsed)
      /\ NothingRead(known, c.refid, parsed) \/ FileRead(v, known, c.refid, parsed)
  BY <1>1, ParseStore DEF StoreInv
<1>5. t = IF ~HasClass(c.kind) THEN [s0 EXCEPT !.raised = "StandardError"]
          ELSE IF c.kind # "file" THEN [known EXCEPT !.top = Append(@, c), !.raised = "no"]
          ELSE IF c.name \notin Headers THEN [known EXCEPT !.raised = "no"]
          ELSE IF sure.raised # "no" THEN sure
          ELSE [sure EXCEPT !.top = @ \o MembersOf(sure, c.refid) \o <<c>>]
  BY DEF IndexCompound
<1>6. PICK one : one = <<c>>
  OBVIOUS
<1>7. one \in Seq(Def) /\ Occurs(one, Function(n)) = 0
  <2>1. <<c>> \in Seq(Def)
    BY <1>2
  <2>2. c \notin Function(n)
    BY <1>2 DEF Function
  <2> QED
    BY <1>6, <2>1, <2>2, OccursOne
<1>8. s0.top \in Seq(Def) /\ Occurs(s0.top, Function(n)) \in Nat
  <2>1. s0.top \in Seq(Def)
    BY DEF StoreInv, TopInv
  <2> QED
    BY <2>1, OccursType
<1>9. t.raised = "no"
  OBVIOUS
<1> HIDE DEF known, parsed, sure, t
<1>10. CASE ~HasClass(c.kind)
  <2>1. t.raised = "StandardError"
    BY <1>5, <1>10, Raises
  <2> QED
    BY <1>9, <2>1
<1>11. CASE HasClass(c.kind) /\ c.kind # "file"
  <2> DEFINE top_ == Append(known.top, c)
             u == [known EXCEPT !.top = top_, !.raised = "no"]
  <2>1. t = u
    BY <1>5, <1>11
  <2>2. top_ = s0.top \o one
    BY <1>1, <1>2, <1>6, <1>8, AppendIsConcat
  <2>3. Occurs(s0.top \o one, Function(n)) = Occurs(s0.top, Function(n)) + Occurs(one, Function(n))
    BY <1>7, <1>8, OccursConcat
  <2> HIDE DEF top_
  <2>4. u.top = top_
    BY <1>1 DEF StoreInv, IsStore
  <2> QED
    BY <1>7, <1>8, <1>11, <2>1, <2>2, <2>3, <2>4 DEF t
<1>12. CASE HasClass(c.kind) /\ c.kind = "file" /\ c.name \notin Headers
  <2>1. t = [known EXCEPT !.raised = "no"]
    BY <1>5, <1>12
  <2>2. t.top = s0.top
    BY <1>1, <2>1, Raises
  <2> QED
    BY <1>8, <1>12, <2>2 DEF t
<1>13. CASE HasClass(c.kind) /\ c.kind = "file" /\ c.name \in Headers
  <2>1. known.refs[c.refid] = "file"
    BY <1>1, <1>13 DEF IndexKinds
  <2>2. sure.refs = known.refs /\ sure.top = s0.top /\ sure.members = parsed.members
    BY <1>1, <1>3, <1>4, <2>1 DEF Parsed, SameObjects
  <2>3. sure.raised = "no"
    BY <1>5, <1>9, <1>13
  <2>4. FileRead(v, known, c.refid, parsed) /\ parsed.raised = "no" /\ c.refid \notin parsed.failed
    BY <1>1, <1>3, <1>4, <2>1, <2>3 DEF NothingRead
  <2>5. PICK defs, S : defs = v.xml[c.refid].members
                       /\ S = [kind : MemberKind, refid : {""}, name : STRING]
    OBVIOUS
  <2>6. defs \in Seq(S)
    BY <1>2, <2>5 DEF IsWorld
  <2>7. PICK ms : ms = MembersOf(sure, c.refid)
    OBVIOUS
  <2>8. ms \in Seq(Def)
    BY <1>3, <2>1, <2>2, <2>7, MembersTypes
  <2>9. c.refid \in DOMAIN sure.members
    <3>1. PICK new : parsed.members = Put(known.members, {c.refid}, new)
      BY <2>1, <2>4 DEF FileRead
    <3> QED
      BY <2>2, <3>1 DEF Put
  <2>10. ms = Unique(defs)
    BY <1>3, <2>1, <2>2, <2>5, <2>7, <2>9 DEF MembersOf, Get, StoreInv, ReadInv
  <2>11. Occurs(ms, Function(n)) = IF FunctionFirst(defs, n) THEN 1 ELSE 0
    BY <2>6, <2>8, <2>10, UniqueOccurs
  <2> DEFINE top_ == sure.top \o ms \o one
             u == [sure EXCEPT !.top = top_]
  <2>12. t = u
    BY <1>5, <1>6, <1>13, <2>3, <2>7
  <2>13. PICK q : q = s0.top \o ms
    OBVIOUS
  <2>14. q \in Seq(Def) /\ Occurs(q, Function(n)) = Occurs(s0.top, Function(n)) + Occurs(ms, Function(n))
    BY <1>8, <2>8, <2>13, OccursConcat
  <2>15. Occurs(q \o one, Function(n)) = Occurs(q, Function(n)) + Occurs(one, Function(n))
    BY <1>7, <2>14, OccursConcat
  <2>16. top_ = q \o one
    BY <2>2, <2>13
  <2> HIDE DEF top_
  <2>17. u.top = top_
    BY <1>3 DEF StoreInv, IsStore
  <2>18. t.top = q \o one
    BY <2>12, <2>16, <2>17
  <2> HIDE DEF u
  <2>19. Occurs(ms, Function(n)) \in Nat
    BY <2>8, OccursType
  <2>20. Occurs(t.top, Function(n)) = Occurs(s0.top, Function(n)) + Occurs(ms, Function(n))
    BY <1>7, <1>8, <2>14, <2>15, <2>18, <2>19
  <2> QED
    BY <1>13, <2>5, <2>11, <2>20 DEF t
<1> QED
  BY <1>10, <1>11, <1>12, <1>13

LEMMA ToSetFinite ==
  ASSUME NEW S, NEW q \in Seq(S)
  PROVE  IsFiniteSet(ToSet(q))
<1>1. Len(q) \in Nat /\ DOMAIN q = 1..Len(q)
  OBVIOUS
<1>2. PICK T : T = ToSet(q)
  OBVIOUS
<1>3. q \in [1..Len(q) -> T] /\ \A d \in T : \E i \in 1..Len(q) : q[i] = d
  <2>1. q = [i \in 1..Len(q) |-> q[i]]
    OBVIOUS
  <2> QED
    BY <1>1, <1>2, <2>1 DEF ToSet
<1>4. q \in Surjection(1..Len(q), T)
  BY <1>3, Fun_IsSurj
<1>5. IsFiniteSet(1..Len(q))
  BY <1>1, FS_Interval
<1> QED
  BY <1>2, <1>4, <1>5, FS_Surjection

LEMMA HeadersFinite ==
  ASSUME GenInv
  PROVE  IsFiniteSet(HeaderFiles)
<1>1. PICK S : S = [kind : CompoundKind, refid : DOMAIN w.xml, name : STRING]
  OBVIOUS
<1>2. w.index \in Seq(S)
  BY <1>1, StoreTypes DEF IsWorld
<1>3. IsFiniteSet(ToSet(w.index))
  BY <1>2, ToSetFinite
<1>4. HeaderFiles \in SUBSET ToSet(w.index)
  BY DEF HeaderFiles, Compounds
<1> QED
  BY <1>3, <1>4, FS_Subset

LEMMA CountStays ==
  ASSUME CountInv, UNCHANGED <<w, s>>, pc # "index", pc' # "index"
  PROVE  CountInv'
<1>1. HeaderFiles' = HeaderFiles /\ (IndexReadable' <=> IndexReadable)
  BY DEF IndexReadable, HeaderFiles, Compounds, Good
<1> QED
  BY <1>1 DEF CountInv, Declared, Declaring, HeadersRead

\* The members of the index do not change after it is read.
LEMMA CountTop ==
  ASSUME GenInv, ListInv, CountInv, ClientCall \/ FindBlocks
  PROVE  CountInv'
<1>1. /\ w' = w /\ pc # "index" /\ pc' # "index" /\ "index" \in s.parsed
      /\ StoreInv(w, s) /\ IsWorld(w)
  <2>1. CASE ClientCall
    BY <2>1, StoreTypes DEF ClientCall, GenInv, IndexInv
  <2>2. CASE FindBlocks
    BY <2>2, StoreTypes DEF FindBlocks, Raise, ListInv, TopListInv, GenInv
  <2> QED
    BY <2>1, <2>2
<1>2. s'.top = s.top
  <2>1. CASE ClientCall
    <3>1. PICK refid \in DOMAIN s.refs : s' = Confirm(w, s, refid)
      BY <2>1 DEF ClientCall
    <3>2. s'.top = Parse(w, s, refid).top
      BY <1>1, <3>1, ConfirmInv
    <3>3. Parsed(w, s, refid, Parse(w, s, refid))
      BY <1>1, ParseStore DEF StoreInv
    <3> QED
      BY <3>2, <3>3 DEF Parsed
  <2>2. CASE FindBlocks
    <3>1. s' = s \/ s' = Parse(w, s, Head(left).refid)
      BY <2>2 DEF FindBlocks, Raise
    <3>2. Parsed(w, s, Head(left).refid, Parse(w, s, Head(left).refid))
      BY <1>1, ParseStore DEF StoreInv
    <3> QED
      BY <3>1, <3>2 DEF Parsed
  <2> QED
    BY <2>1, <2>2
<1>3. HeaderFiles' = HeaderFiles /\ (IndexReadable' <=> IndexReadable)
  BY <1>1 DEF IndexReadable, HeaderFiles, Compounds, Good
<1> QED
  BY <1>1, <1>2, <1>3 DEF CountInv, Declared, Declaring, HeadersRead

LEMMA AskIndexCount ==
  ASSUME GenInv, ListInv, CountInv, pc = "client", NEW from \in {"client", "blocks"},
         AskIndex(from), w' = w
  PROVE  CountInv'
<1>1. HeaderFiles' = HeaderFiles /\ (IndexReadable' <=> IndexReadable)
  BY DEF IndexReadable, HeaderFiles, Compounds, Good
<1>2. /\ s'.parsed = s.parsed \cup {"index"} /\ s'.top = s.top
  BY AskedInv DEF AskIndex, GenInv
<1>3. CASE IndexParsed
  <2>1. pc' = from /\ "index" \in s.parsed
    BY <1>3 DEF AskIndex, IndexParsed
  <2> QED
    BY <1>1, <1>2, <2>1 DEF CountInv, Declared, Declaring, HeadersRead
<1>4. CASE ~IndexParsed
  <2>1. pc' = "index" /\ left' = w.index /\ s'.top = <<>>
    BY <1>2, <1>4 DEF AskIndex, IndexParsed, ListInv, TopListInv
  <2>2. HeaderFiles \subseteq ToSet(w.index)
    BY DEF HeaderFiles, Compounds
  <2>3. HeadersRead' = {}
    BY <1>1, <2>1, <2>2 DEF HeadersRead
  <2>4. \A n : Declaring(HeadersRead, n)' = {}
    BY <2>3 DEF Declaring
  <2>5. \A X : Occurs(<<>>, X) = 0
    <3>1. <<>> \in Seq(Def) /\ ToSet(<<>>) = {}
      BY DEF ToSet
    <3> QED
      BY <3>1, OccursNever
  <2> QED
    BY <2>1, <2>4, <2>5, FS_EmptySet DEF CountInv, Declared
<1> QED
  BY <1>3, <1>4

LEMMA ParseIndexCount ==
  ASSUME GenInv, ListInv, CountInv, ParseIndex
  PROVE  CountInv'
<1>1. /\ pc = "index" /\ left \in Seq(Def) /\ ToSet(left) \subseteq ToSet(w.index)
      /\ IndexKinds(w, s) /\ "index" \in s.parsed /\ StoreInv(w, s) /\ IsWorld(w)
      /\ w' = w /\ back \in {"client", "blocks"}
      /\ RefidsOnce(left) /\ \A c \in ToSet(left) : c.refid \notin s.parsed
  BY StoreTypes DEF ParseIndex, GenInv, IndexInv, ControlInv, ListInv, TopListInv
<1>2. HeaderFiles' = HeaderFiles /\ (IndexReadable' <=> IndexReadable)
  BY <1>1 DEF IndexReadable, HeaderFiles, Compounds, Good
<1>3. HeadersRead = HeaderFiles \ ToSet(left) /\ \A n : Declared(n) = Cardinality(Declaring(HeadersRead, n))
  BY <1>1 DEF CountInv, HeadersRead
<1>4. CASE left = <<>>
  <2>1. pc' = back /\ s' = s
    BY <1>1, <1>4 DEF ParseIndex
  <2>2. HeadersRead' = HeadersRead
    BY <1>1, <1>2, <1>3, <1>4, <2>1 DEF HeadersRead, ToSet
  <2> QED
    BY <1>1, <1>3, <2>1, <2>2 DEF CountInv, Declared, Declaring
<1>5. CASE left # <<>>
  <2> DEFINE c == Head(left)
             t == IndexCompound(w, s, c)
  <2>1. /\ IF t.raised # "no"
           THEN pc' = IF back = "client" THEN "client" ELSE "crashed"
           ELSE left' = Tail(left) /\ pc' = pc
        /\ s' = t
    BY <1>1, <1>5 DEF ParseIndex, Raise
  <2>2. /\ c \in ToSet(left) /\ c \in ToSet(w.index)
        /\ ToSet(left) = {c} \cup ToSet(Tail(left)) /\ c \notin ToSet(Tail(left))
    BY <1>1, <1>5, HeadTailSet, TailOnce
  <2>3. CASE t.raised # "no"
    <3>1. ~CompoundReadable(w, c)
      BY <1>1, <2>2, <2>3, IndexCompoundStep DEF IndexStep
    <3>2. ~IndexReadable
      BY <2>2, <3>1 DEF CompoundReadable, IndexReadable, HeaderFiles, Compounds, Good
    <3> QED
      BY <1>1, <1>2, <2>1, <2>3, <3>2 DEF CountInv
  <2>4. CASE t.raised = "no"
    <3>1. pc' = "index" /\ left' = Tail(left)
      BY <1>1, <2>1, <2>4
    <3>2. c.refid \notin s.parsed
      BY <1>1, <2>2
    <3>3. ASSUME NEW n
          PROVE  Occurs(t.top, Function(n)) = Occurs(s.top, Function(n)) +
                   (IF /\ c.kind = "file" /\ c.name \in Headers
                       /\ FunctionFirst(w.xml[c.refid].members, n) THEN 1 ELSE 0)
      BY <1>1, <2>2, <2>4, <3>2, IndexCompoundCount
    <3> HIDE DEF c, t
    <3>4. HeadersRead' = HeadersRead \cup (IF c \in HeaderFiles THEN {c} ELSE {})
          /\ c \notin HeadersRead
      BY <1>2, <1>3, <2>2, <3>1 DEF HeadersRead
    <3>5. c \in HeaderFiles <=> c.kind = "file" /\ c.name \in Headers
      BY <2>2 DEF HeaderFiles, Compounds
    <3>6. ASSUME NEW n PROVE Declared(n)' = Cardinality(Declaring(HeadersRead, n))'
      <4>1. PICK H, A, B : H = HeadersRead' /\ A = Declaring(HeadersRead, n) /\ B = Declaring(H, n)
        OBVIOUS
      <4>2. IsFiniteSet(A)
        <5>1. A \in SUBSET HeaderFiles
          BY <1>3, <4>1 DEF Declaring
        <5> QED
          BY <5>1, HeadersFinite, FS_Subset
      <4>3. c \notin A
        BY <3>4, <4>1 DEF Declaring
      <4>4. B = IF c \in HeaderFiles /\ FunctionFirst(w.xml[c.refid].members, n) THEN A \cup {c} ELSE A
        BY <3>4, <4>1 DEF Declaring
      <4>5. Cardinality(A \cup {c}) = Cardinality(A) + 1 /\ Cardinality(A) \in Nat
        BY <4>2, <4>3, FS_AddElement, FS_CardinalityType
      <4>6. Occurs(s.top, Function(n)) = Cardinality(A)
        BY <1>3, <4>1 DEF Declared
      <4>7. Cardinality(Declaring(HeadersRead, n))' = Cardinality(B)
        BY <1>1, <4>1 DEF Declaring
      <4>8. Declared(n)' = Occurs(t.top, Function(n))
        BY <2>1 DEF Declared
      <4> QED
        BY <3>3, <3>5, <4>4, <4>5, <4>6, <4>7, <4>8
    <3> QED
      BY <3>6 DEF CountInv
  <2> QED
    BY <2>3, <2>4
<1> QED
  BY <1>4, <1>5

LEMMA CountNext == GenInv /\ ListInv /\ CountInv /\ [Next]_vars => CountInv'
<1> SUFFICES ASSUME GenInv, ListInv, CountInv, [Next]_vars PROVE CountInv'
  OBVIOUS
<1>1. CASE ClientIndex \/ Start
  BY <1>1, AskIndexCount DEF ClientIndex, Start
<1>2. CASE ClientCall \/ FindBlocks
  BY <1>2, CountTop
<1>3. CASE ParseIndex
  BY <1>3, ParseIndexCount
<1>4. CASE BlockEntries \/ FunctionEntries \/ ClassEntries
  <2>1. UNCHANGED <<w, s>> /\ pc # "index" /\ pc' # "index"
    BY <1>4 DEF BlockEntries, FunctionEntries, ClassEntries, Raise
  <2> QED
    BY <2>1, CountStays
<1>5. CASE UNCHANGED vars
  <2>1. UNCHANGED <<w, s, pc, left>>
    BY <1>5 DEF vars
  <2> QED
    BY <2>1 DEF CountInv, Declared, Declaring, HeadersRead, HeaderFiles, Compounds,
                IndexReadable, Good
<1> QED
  BY <1>1, <1>2, <1>3, <1>4, <1>5 DEF Next

LEMMA CountInit == Init => CountInv
  BY DEF Init, NewStore, CountInv

------------------------------------------------------------------------------
(* Every function has an entry for each header it is in: what is written     *)

\* The make functions of the blocks of B.
Makes(B) == {MakeName[b.name] : b \in B}

\* The entries a function, that is no make function, will still get: the blocks come
\* first, and then what is left of the functions.
ToCome(n) ==
  CASE pc = "entries"   -> Declared(n)
    [] pc = "functions" -> Occurs(left, Function(n))
    [] OTHER            -> 0

FunctionIn(n) ==
  IF n \in made THEN Occurs(out, EntriesOf("function", n)) = 1
  ELSE Occurs(out, EntriesOf("function", n)) + ToCome(n) = Declared(n)

\* Before the functions come there are make functions only.
DescriptionOf(e) ==
  e.of = "function" => /\ e.desc = IF e.name \in made THEN "block" ELSE "own"
                       /\ pc = "entries" => e.name \in made

FunctionsInv ==
  Writing => /\ made = Makes(IF pc = "entries" THEN ToSet(blocks) \ ToSet(left) ELSE ToSet(blocks))
             /\ \A n : n \notin Operators => FunctionIn(n)
             /\ \A e \in ToSet(out) : DescriptionOf(e)

LEMMA DeclaredType ==
  ASSUME GenInv, NEW n
  PROVE  Declared(n) \in Nat
  BY StoreTypes, OccursType DEF Declared

LEMMA NeverThere ==
  ASSUME NEW S, NEW q \in Seq(S), NEW X, Occurs(q, X) = 0
  PROVE  \A d \in ToSet(q) : d \notin X
<1>1. Places(q, X) = {}
  BY OccursType, FS_EmptySet DEF Occurs
<1> QED
  BY <1>1 DEF Places, ToSet

\* An entry that is no function's needs no description of one.
LEMMA NoFunction ==
  ASSUME NEW r, r \in Seq(EntryRec), \A n : Occurs(r, EntriesOf("function", n)) = 0
  PROVE  \A e \in ToSet(r) : e.of # "function"
<1> SUFFICES ASSUME NEW e \in ToSet(r), e.of = "function" PROVE FALSE
  OBVIOUS
<1>1. \A i \in DOMAIN r : r[i] \in EntryRec
  BY ElementOfSeq
<1>2. e \in EntriesOf("function", e.name)
  BY <1>1 DEF ToSet, EntriesOf
<1> QED
  BY <1>2, NeverThere

LEMMA BlocksFunctions ==
  ASSUME GenInv, ListInv, FindBlocks
  PROVE  FunctionsInv'
<1>1. pc = "blocks" /\ out = <<>> /\ made = {} /\ w' = w /\ out' = out /\ made' = made
  BY DEF FindBlocks, ListInv, LoopInv
<1>2. Writing' => pc' = "entries" /\ left' = blocks' /\ s' = s
  BY <1>1 DEF FindBlocks, Raise, Writing
<1>3. ToSet(<<>>) = {} /\ \A X : Occurs(<<>>, X) = 0
  <2>1. <<>> \in Seq(EntryRec) /\ ToSet(<<>>) = {}
    BY DEF ToSet
  <2> QED
    BY <2>1, OccursNever
<1>4. ASSUME Writing', NEW n PROVE FunctionIn(n)'
  <2>1. Declared(n)' = Declared(n) /\ Declared(n) \in Nat /\ ToCome(n)' = Declared(n)'
    BY <1>2, <1>4, DeclaredType DEF Declared, ToCome
  <2> QED
    BY <1>1, <1>3, <2>1 DEF FunctionIn
<1>5. Writing' => made' = Makes(ToSet(blocks') \ ToSet(left'))
  BY <1>1, <1>2 DEF Makes
<1> QED
  BY <1>1, <1>2, <1>3, <1>4, <1>5 DEF FunctionsInv

\* A step that writes nothing.
LEMMA NothingDescribed ==
  ASSUME FunctionsInv, UNCHANGED <<s, out, made, blocks>>, Writing' => Writing, pc' # "entries",
         pc = "entries" => ToSet(left) = {},
         \A n : n \notin Operators /\ n \notin made => ToCome(n)' = ToCome(n)
  PROVE  FunctionsInv'
<1> SUFFICES ASSUME Writing', Writing PROVE FunctionsInv'
  BY DEF FunctionsInv
<1>1. made = Makes(ToSet(blocks))
  <2>1. pc = "entries" => ToSet(blocks) \ ToSet(left) = ToSet(blocks)
    OBVIOUS
  <2> QED
    BY <2>1 DEF FunctionsInv
<1>2. \A n : n \notin Operators => FunctionIn(n)'
  BY DEF FunctionsInv, FunctionIn, Declared
<1>3. \A e \in ToSet(out) : DescriptionOf(e)'
  BY DEF FunctionsInv, DescriptionOf
<1> QED
  BY <1>1, <1>2, <1>3 DEF FunctionsInv, Makes

LEMMA BlockEntriesFunctions ==
  ASSUME GenInv, ListInv, WrittenInv, FunctionsInv, BlockEntries
  PROVE  FunctionsInv'
<1>1. /\ pc = "entries" /\ UNCHANGED <<w, s, back, blocks>> /\ back = "blocks"
      /\ left \in Seq(Def) /\ ToSet(left) \subseteq ToSet(blocks) /\ NoTwice(left)
  BY DEF BlockEntries, Raise, GenInv, SearchInv, ListInv, LoopInv
<1>2. Writing' => Writing
  BY <1>1, WorldStays DEF Writing
<1>3. CASE left = <<>>
  <2>1. pc' = "functions" /\ left' = OfKind(s.top, "function") /\ UNCHANGED <<out, made>>
    BY <1>3 DEF BlockEntries
  <2>2. ASSUME NEW n PROVE ToCome(n)' = ToCome(n)
    <3>1. {d \in Function(n) : d.kind = "function"} = Function(n)
      BY DEF Function
    <3>2. Occurs(OfKind(s.top, "function"), Function(n)) = Declared(n)
      BY <3>1, StoreTypes, OfKindOccurs DEF Declared
    <3> QED
      BY <1>1, <2>1, <3>2 DEF ToCome
  <2>3. ToSet(left) = {}
    BY <1>3 DEF ToSet
  <2> QED
    BY <1>1, <1>2, <2>1, <2>2, <2>3, NothingDescribed
<1>4. CASE left # <<>> /\ pc' = "crashed"
  BY <1>4 DEF FunctionsInv, Writing
<1>5. CASE left # <<>> /\ pc' # "crashed"
  <2> SUFFICES ASSUME Writing PROVE FunctionsInv'
    BY <1>2 DEF FunctionsInv
  <2>1. PICK c, m : c = Head(left) /\ m = MakeName[c.name]
    OBVIOUS
  <2>2. PICK p, q : p = ClassEntry(c, "block", BlockText(c)) /\ q = Entry("function", m, "block")
    OBVIOUS
  <2>3. pc' = pc /\ left' = Tail(left) /\ out' = (out \o p) \o q /\ made' = made \cup {m}
    BY <1>1, <1>5, <2>1, <2>2 DEF BlockEntries, Raise
  <2>4. \A d \in Compounds("class") : ClassRead(d)
    BY ClassesRead
  <2>5. /\ c \in ToSet(blocks) /\ c \in Compounds("class") /\ c.kind = "class"
        /\ ToSet(blocks) \subseteq Compounds("class")
        /\ c.refid \in DOMAIN s.members /\ m \in Names
        /\ \A b \in ToSet(blocks) : b.name \in DOMAIN MakeName
        /\ BlockText(c) <=> Told(c)
    <3>1. c \in ToSet(blocks)
      BY <1>1, <1>5, <2>1, HeadTailSet
    <3>2. c \in Compounds("class") /\ ToSet(blocks) \subseteq Compounds("class")
      BY <3>1, ClassesRead
    <3>3. BlockText(c) <=> Told(c)
      BY <3>1, BlockTold
    <3> QED
      BY <2>1, <2>4, <3>1, <3>2, <3>3 DEF ClassRead, GenInv, BlockInv, Names
  <2>6. /\ c \in ToSet(left) /\ ToSet(left) = {c} \cup ToSet(left') /\ c \notin ToSet(left')
    BY <1>1, <1>5, <2>1, <2>3, <2>5, HeadTailSet, TailOnce
  <2>7. made = Makes(ToSet(blocks) \ ToSet(left))
    BY <1>1 DEF FunctionsInv
  <2>8. made' = Makes(ToSet(blocks') \ ToSet(left'))
    <3>1. ToSet(blocks) \ ToSet(left') = (ToSet(blocks) \ ToSet(left)) \cup {c}
      BY <2>5, <2>6
    <3> QED
      BY <1>1, <2>1, <2>3, <2>7, <3>1 DEF Makes
  <2>9. m \notin made
    <3> SUFFICES ASSUME NEW b \in ToSet(blocks) \ ToSet(left), m = MakeName[b.name] PROVE FALSE
      BY <2>7 DEF Makes
    <3>1. b.name = c.name
      BY <2>1, <2>5, MakeNameAssumption
    <3>2. b = c
      BY <2>4, <2>5, <3>1 DEF ClassRead
    <3> QED
      BY <2>6, <3>2
  <2>10. /\ p \in Seq(EntryRec) /\ \A n : Occurs(p, EntriesOf("function", n)) = 0
    BY <2>2, <2>4, <2>5, ClassEntryWritten DEF HasEntries
  <2>11. IsEntry(q, "function", m, "block")
    BY <2>2, <2>5, EntryWritten
  <2>12. PICK r : r = out \o p
    OBVIOUS
  <2>13. /\ r \in Seq(EntryRec) /\ ToSet(r) = ToSet(out) \cup ToSet(p)
         /\ \A X : Occurs(r, X) = Occurs(out, X) + Occurs(p, X)
         /\ \A X : Occurs(out, X) \in Nat
    <3>1. out \in Seq(EntryRec)
      BY DEF WrittenInv, HasEntries
    <3> QED
      BY <2>10, <2>12, <3>1, ToSetConcat, OccursConcat, OccursType
  <2>14. /\ ToSet(out') = ToSet(r) \cup ToSet(q)
         /\ \A X : Occurs(out', X) = Occurs(r, X) + Occurs(q, X)
    <3>1. q \in Seq(EntryRec) /\ out' = r \o q
      BY <2>3, <2>11, <2>12 DEF IsEntry
    <3> QED
      BY <2>13, <3>1, ToSetConcat, OccursConcat
  <2>15. ASSUME NEW n, n \notin Operators PROVE FunctionIn(n)'
    <3>1. Occurs(out', EntriesOf("function", n)) =
            Occurs(out, EntriesOf("function", n)) + (IF n = m THEN 1 ELSE 0)
      BY <2>10, <2>11, <2>13, <2>14, <2>15 DEF IsEntry
    <3>2. FunctionIn(n) /\ ToCome(n) = Declared(n)
      BY <1>1, <2>15 DEF FunctionsInv, ToCome
    <3>3. Declared(n)' = Declared(n) /\ ToCome(n)' = ToCome(n) /\ Declared(n) \in Nat
      BY <1>1, <2>3, DeclaredType DEF Declared, ToCome
    <3>4. Occurs(out, EntriesOf("function", n)) \in Nat
      BY <2>13
    <3> QED
      BY <2>3, <2>9, <3>1, <3>2, <3>3, <3>4 DEF FunctionIn
  <2>16. ASSUME NEW e \in ToSet(out') PROVE DescriptionOf(e)'
    <3>1. CASE e \in ToSet(out)
      BY <1>1, <2>3, <3>1 DEF FunctionsInv, DescriptionOf
    <3>2. CASE e \in ToSet(p)
      BY <2>10, <3>2, NoFunction DEF DescriptionOf
    <3>3. CASE e \in ToSet(q)
      BY <2>3, <2>11, <3>3 DEF IsEntry, DescriptionOf
    <3> QED
      BY <2>13, <2>14, <3>1, <3>2, <3>3
  <2> QED
    BY <1>1, <2>3, <2>8, <2>15, <2>16 DEF FunctionsInv
<1> QED
  BY <1>3, <1>4, <1>5

LEMMA FunctionEntriesFunctions ==
  ASSUME GenInv, ListInv, WrittenInv, FunctionsInv, FunctionEntries
  PROVE  FunctionsInv'
<1>1. /\ pc = "functions" /\ UNCHANGED <<w, s, blocks, made>>
      /\ left \in Seq(Def) /\ \A d \in ToSet(left) : d.kind = "function"
  BY DEF FunctionEntries, GenInv, SearchInv
<1>2. Writing' => Writing
  BY <1>1, WorldStays DEF Writing
<1>3. CASE left = <<>>
  <2>1. pc' = "classes" /\ UNCHANGED out
    BY <1>3 DEF FunctionEntries
  <2>2. ASSUME NEW n PROVE ToCome(n)' = ToCome(n)
    <3>1. ToSet(left) = {}
      BY <1>3 DEF ToSet
    <3>2. Occurs(left, Function(n)) = 0
      BY <1>1, <3>1, OccursNever
    <3> QED
      BY <1>1, <2>1, <3>2 DEF ToCome
  <2> QED
    BY <1>1, <1>2, <2>1, <2>2, NothingDescribed
<1>4. CASE left # <<>>
  <2>1. PICK f, q : f = Head(left) /\ q = Entry("function", f.name, "own")
    OBVIOUS
  <2>2. /\ pc' = pc /\ left' = Tail(left)
        /\ out' = IF f.name \in made THEN out ELSE out \o q
    BY <1>4, <2>1 DEF FunctionEntries, DealtWith
  <2>3. f \in Def /\ f.kind = "function" /\ left' \in Seq(Def)
    <3>1. f \in ToSet(left)
      BY <1>1, <1>4, <2>1, HeadTailSet
    <3> QED
      BY <1>1, <1>4, <2>1, <2>2, <3>1
  <2>4. ASSUME NEW n
        PROVE  /\ ToCome(n) = (IF n = f.name THEN 1 ELSE 0) + ToCome(n)' /\ ToCome(n)' \in Nat
    <3>1. f \in Function(n) <=> n = f.name
      BY <2>3 DEF Function
    <3>2. Occurs(left, Function(n)) = (IF f \in Function(n) THEN 1 ELSE 0) + Occurs(left', Function(n))
      BY <1>1, <1>4, <2>1, <2>2, OccursTail
    <3>3. Occurs(left', Function(n)) \in Nat
      BY <2>3, OccursType
    <3> QED
      BY <1>1, <2>2, <3>1, <3>2, <3>3 DEF ToCome
  <2>5. CASE f.name \in made
    <3>1. \A n : n \notin made => ToCome(n)' = ToCome(n)
      BY <2>4, <2>5
    <3>2. out' = out /\ pc' # "entries" /\ pc # "entries"
      BY <1>1, <2>2, <2>5
    <3> QED
      BY <1>1, <1>2, <3>1, <3>2, NothingDescribed
  <2>6. CASE f.name \notin made
    <3> SUFFICES ASSUME Writing PROVE FunctionsInv'
      BY <1>2 DEF FunctionsInv
    <3>1. IsEntry(q, "function", f.name, "own")
      <4>1. f.name \in Names
        BY <2>3 DEF Def, Names
      <4> QED
        BY <2>1, <4>1, EntryWritten
    <3>2. /\ ToSet(out') = ToSet(out) \cup ToSet(q)
          /\ \A X : Occurs(out', X) = Occurs(out, X) + Occurs(q, X)
          /\ \A X : Occurs(out, X) \in Nat
      <4>1. out \in Seq(EntryRec) /\ q \in Seq(EntryRec) /\ out' = out \o q
        BY <2>2, <2>6, <3>1 DEF WrittenInv, HasEntries, IsEntry
      <4> QED
        BY <4>1, ToSetConcat, OccursConcat, OccursType
    <3>3. ASSUME NEW n, n \notin Operators PROVE FunctionIn(n)'
      <4>1. Occurs(out', EntriesOf("function", n)) =
              Occurs(out, EntriesOf("function", n)) + (IF n = f.name THEN 1 ELSE 0)
        BY <3>1, <3>2, <3>3 DEF IsEntry
      <4>2. FunctionIn(n) /\ Declared(n)' = Declared(n) /\ made' = made
        BY <1>1, <3>3 DEF FunctionsInv, Declared
      <4>3. Occurs(out, EntriesOf("function", n)) \in Nat
        BY <3>2
      <4> QED
        BY <2>4, <2>6, <4>1, <4>2, <4>3 DEF FunctionIn
    <3>4. ASSUME NEW e \in ToSet(out') PROVE DescriptionOf(e)'
      <4>1. CASE e \in ToSet(out)
        BY <1>1, <2>2, <4>1 DEF FunctionsInv, DescriptionOf
      <4>2. CASE e \in ToSet(q)
        BY <1>1, <2>2, <2>6, <3>1, <4>2 DEF IsEntry, DescriptionOf
      <4> QED
        BY <3>2, <4>1, <4>2
    <3> QED
      BY <1>1, <2>2, <3>3, <3>4 DEF FunctionsInv, Makes
  <2> QED
    BY <2>5, <2>6
<1> QED
  BY <1>3, <1>4

LEMMA ClassEntriesFunctions ==
  ASSUME GenInv, ListInv, WrittenInv, FunctionsInv, ClassEntries
  PROVE  FunctionsInv'
<1>1. /\ pc = "classes" /\ UNCHANGED <<w, s, blocks, made>> /\ back = "blocks"
      /\ left \in Seq(Def) /\ ToSet(left) \subseteq Classes /\ pc' # "entries" /\ pc' # "functions"
  BY DEF ClassEntries, Raise, GenInv, SearchInv, ListInv, LoopInv
<1>2. Writing' => Writing
  BY <1>1, WorldStays DEF Writing
<1>3. \A n : ToCome(n) = 0 /\ ToCome(n)' = 0
  BY <1>1 DEF ToCome
<1>4. CASE out' = out
  BY <1>1, <1>2, <1>3, <1>4, NothingDescribed
<1>5. CASE out' # out
  <2> SUFFICES ASSUME Writing PROVE FunctionsInv'
    BY <1>2 DEF FunctionsInv
  <2>1. PICK c : c = Head(left)
    OBVIOUS
  <2>2. PICK r : r = ClassEntry(c, "own", HasText("compound", c.refid))
    OBVIOUS
  <2>3. left # <<>> /\ out' = out \o r /\ ~Undescribed(c) /\ c.refid \notin s.failed
    BY <1>5, <2>1, <2>2 DEF ClassEntries
  <2>4. c \in Compounds("class") /\ c.refid \in DOMAIN s.members
    <3>1. c \in ToSet(left)
      BY <1>1, <2>1, <2>3, HeadTailSet
    <3> QED
      BY <1>1, <2>3, <3>1, ClassesRead DEF Undescribed
  <2>5. r \in Seq(EntryRec) /\ \A n : Occurs(r, EntriesOf("function", n)) = 0
    <3>1. ~InBlocks(c)
      BY <1>5, <2>1, <2>3 DEF ClassEntries
    <3>2. HasText("compound", c.refid) <=> Told(c)
      BY <3>1 DEF InBlocks, Told
    <3> QED
      BY <2>2, <2>4, <3>2, ClassesRead, ClassEntryWritten DEF HasEntries
  <2>6. /\ ToSet(out') = ToSet(out) \cup ToSet(r)
        /\ \A X : Occurs(out', X) = Occurs(out, X) + Occurs(r, X)
        /\ \A X : Occurs(out, X) \in Nat
    <3>1. out \in Seq(EntryRec)
      BY DEF WrittenInv, HasEntries
    <3> QED
      BY <2>3, <2>5, <3>1, ToSetConcat, OccursConcat, OccursType
  <2>7. ASSUME NEW n, n \notin Operators PROVE FunctionIn(n)'
    <3>1. Occurs(out', EntriesOf("function", n)) = Occurs(out, EntriesOf("function", n))
      BY <2>5, <2>6
    <3> QED
      BY <1>1, <1>3, <2>7, <3>1 DEF FunctionsInv, FunctionIn, Declared
  <2>8. ASSUME NEW e \in ToSet(out') PROVE DescriptionOf(e)'
    <3>1. CASE e \in ToSet(out)
      BY <1>1, <3>1 DEF FunctionsInv, DescriptionOf
    <3>2. CASE e \in ToSet(r)
      BY <2>5, <3>2, NoFunction DEF DescriptionOf
    <3> QED
      BY <2>6, <3>1, <3>2
  <2> QED
    BY <1>1, <2>7, <2>8 DEF FunctionsInv, Makes
<1> QED
  BY <1>4, <1>5

LEMMA FunctionsInit == Init => FunctionsInv
  BY DEF Init, FunctionsInv, Writing

LEMMA FunctionsNext ==
  GenInv /\ ListInv /\ WrittenInv /\ FunctionsInv /\ [Next]_vars => FunctionsInv'
<1> SUFFICES ASSUME GenInv, ListInv, WrittenInv, FunctionsInv, [Next]_vars PROVE FunctionsInv'
  OBVIOUS
<1>1. CASE ClientIndex \/ ClientCall \/ Start \/ ParseIndex
  <2>1. pc' \in {"client", "index", "blocks", "crashed"}
    BY <1>1 DEF ClientIndex, ClientCall, Start, ParseIndex, AskIndex, Raise, GenInv, ControlInv
  <2> QED
    BY <2>1 DEF FunctionsInv, Writing
<1>2. CASE FindBlocks
  BY <1>2, BlocksFunctions
<1>3. CASE BlockEntries \/ FunctionEntries \/ ClassEntries
  BY <1>3, BlockEntriesFunctions, FunctionEntriesFunctions, ClassEntriesFunctions
<1>4. CASE UNCHANGED vars
  <2>1. UNCHANGED <<w, s, pc, left, blocks, made, out>>
    BY <1>4 DEF vars
  <2>2. (Writing' <=> Writing) /\ \A n : Declared(n)' = Declared(n) /\ ToCome(n)' = ToCome(n)
    BY <2>1, WorldStays DEF Writing, Declared, ToCome
  <2> QED
    BY <2>1, <2>2 DEF FunctionsInv, FunctionIn, DescriptionOf, Makes
<1> QED
  BY <1>1, <1>2, <1>3, <1>4 DEF Next

\* A function has one entry for each header it is in, with its own description; the make
\* function of a block has one, with that of the block, however many headers have it and
\* in whatever order blocks and functions come (swig_doc.py:197-215).
THEOREM FunctionsWrittenOnce == Spec => []FunctionsOnce
<1>1. GenInv /\ ListInv /\ WrittenInv /\ CountInv /\ FunctionsInv => FunctionsOnce
  <2> SUFFICES ASSUME GenInv, ListInv, WrittenInv, CountInv, FunctionsInv,
                      pc = "done", calls = 0 \/ IndexReadable, NEW n, n \notin Operators
               PROVE  LET makes == {MakeName[b.name] : b \in ToSet(blocks)}
                          DeclaredIn(m) == {c \in HeaderFiles : FunctionFirst(w.xml[c.refid].members, m)}
                          es == Entries("function", n)
                      IN  /\ Cardinality(es) = IF n \in makes THEN 1 ELSE Cardinality(DeclaredIn(n))
                          /\ \A i \in es : out[i].desc = IF n \in makes THEN "block" ELSE "own"
    BY DEF FunctionsOnce
  <2>1. Writing /\ IndexReadable /\ "index" \in s.parsed /\ out \in Seq(EntryRec)
    BY DEF ListInv, SoundInv, TopListInv, Writing, WrittenInv, HasEntries
  <2>2. made = Makes(ToSet(blocks)) /\ FunctionIn(n) /\ ToCome(n) = 0
    BY <2>1 DEF FunctionsInv, ToCome
  <2>3. Declared(n) = Cardinality(Declaring(HeaderFiles, n))
    BY <2>1 DEF CountInv, HeadersRead
  <2>4. Cardinality(Entries("function", n)) = Occurs(out, EntriesOf("function", n))
    BY <2>1, EntriesCounted DEF Occurs
  <2>5. Occurs(out, EntriesOf("function", n)) \in Nat
    BY <2>1, OccursType
  <2>6. Cardinality(Entries("function", n)) =
          IF n \in Makes(ToSet(blocks)) THEN 1 ELSE Cardinality(Declaring(HeaderFiles, n))
    BY <2>2, <2>3, <2>4, <2>5 DEF FunctionIn
  <2>7. \A i \in Entries("function", n) :
           out[i].desc = IF n \in Makes(ToSet(blocks)) THEN "block" ELSE "own"
    BY <2>1, <2>2 DEF FunctionsInv, Entries, ToSet, DescriptionOf
  <2> QED
    BY <2>6, <2>7 DEF Makes, Declaring
<1> QED
  BY <1>1, GenInit, GenNext, ListInit, ListNext, WrittenInit, WrittenNext, CountInit, CountNext,
     FunctionsInit, FunctionsNext, PTL DEF Spec

=============================================================================
