------------------------ MODULE ConfigurationProofs -------------------------
(***************************************************************************)
(* Proofs about Configuration, for lists of any length: the preserved      *)
(* cgroups are made, lists come out of the environment as they went in,    *)
(* and to load a document twice is to load it once.                        *)
(***************************************************************************)
EXTENDS Configuration, ListProofs, SequenceTheorems

(* The paths of cgroups. *)
Cg == Seq(Part)

-----------------------------------------------------------------------------
(* What join2str() has made of a list so far. *)
Joining == [fields : Seq(Cg), open : BOOLEAN]

(* One string more. *)
JoinOne(j, cg, last) ==
  [fields |-> IF j.open THEN [j.fields EXCEPT ![Len(j.fields)] = @ \o cg]
              ELSE Append(j.fields, cg),
   open   |-> cg = last]

(* It takes lists of cgroups to lists of cgroups. *)
LEMMA JoinOneType ==
  ASSUME NEW j \in Joining, NEW cg \in Cg, NEW last
  PROVE  JoinOne(j, cg, last) \in Joining
<1>1. j.fields \in Seq(Cg) /\ j.open \in BOOLEAN
  BY DEF Joining
<1>2. Append(j.fields, cg) \in Seq(Cg)
  BY <1>1
<1>3. [j.fields EXCEPT ![Len(j.fields)] = @ \o cg] \in Seq(Cg)
  <2>1. CASE j.fields = <<>>
    <3>1. DOMAIN j.fields = {}
      BY <2>1
    <3>2. [j.fields EXCEPT ![Len(j.fields)] = @ \o cg] = j.fields
      BY <2>1, <3>1
    <3> QED
      BY <1>1, <3>2
  <2>2. CASE j.fields # <<>>
    <3>1. Len(j.fields) \in 1..Len(j.fields)
      BY <1>1, <2>2
    <3>2. j.fields[Len(j.fields)] \in Cg
      BY <1>1, <3>1
    <3>3. j.fields[Len(j.fields)] \o cg \in Cg
      BY <3>2 DEF Cg
    <3> QED
      BY <1>1, <3>1, <3>3
  <2> QED
    BY <2>1, <2>2
<1> QED
  BY <1>2, <1>3 DEF JoinOne, Joining

(* The recursion of JoinedUpTo() has a solution, which is what it is. *)
LEMMA JoinedDef ==
  ASSUME NEW list \in Seq(Cg)
  PROVE  LET J == JoinedUpTo(list)
         IN  /\ J \in [0..Len(list) -> Joining]
             /\ J[0] = [fields |-> <<>>, open |-> FALSE]
             /\ \A n \in 1..Len(list) :
                  J[n] = JoinOne(J[n - 1], list[n], Last(list))
<1> DEFINE N == Len(list)
           b == [fields |-> <<>>, open |-> FALSE]
           step == [v \in Joining \X (1..N) |->
                      JoinOne(v[1], list[v[2]], Last(list))]
           Body(f) == [n \in 0..N |-> IF n = 0 THEN b
                                      ELSE JoinOne(f[n - 1], list[n], Last(list))]
<1>1. N \in Nat /\ \A n \in 1..N : list[n] \in Cg
  OBVIOUS
<1>2. JoinedUpTo(list) = CHOOSE g : g = Body(g)
  BY DEF JoinedUpTo, JoinOne
<1> HIDE DEF N
<1>3. b \in Joining
  <2>1. <<>> \in Seq(Cg)
    OBVIOUS
  <2> QED
    BY <2>1 DEF Joining
<1>4. step \in [Joining \X (1..N) -> Joining]
  BY <1>1, JoinOneType
<1> HIDE DEF b
<1>5. PICK f : Iterates(N, Joining, b, step, f)
  <2> HIDE DEF step
  <2> QED
    BY <1>1, <1>3, <1>4, BoundedRecursion
<1>6. f \in [0..N -> Joining] /\ f[0] = b
  BY <1>5 DEF Iterates
<1>7. ASSUME NEW n \in 1..N
      PROVE  f[n] = JoinOne(f[n - 1], list[n], Last(list))
  <2>1. f[n] = step[<<f[n - 1], n>>]
    BY <1>5 DEF Iterates
  <2>2. n - 1 \in 0..N
    BY <1>1
  <2>3. f[n - 1] \in Joining
    BY <1>6, <2>2
  <2> QED
    BY <2>1, <2>3
<1>8. f = Body(f)
  <2>1. ASSUME NEW n \in 0..N PROVE f[n] = Body(f)[n]
    <3>1. CASE n = 0
      BY <1>6, <3>1
    <3>2. CASE n # 0
      <4>1. n \in 1..N
        BY <1>1, <3>2
      <4> QED
        BY <1>7, <3>2, <4>1
    <3> QED
      BY <3>1, <3>2
  <2>2. f = [n \in 0..N |-> f[n]]
    BY <1>6
  <2> QED
    BY <2>1, <2>2
<1> DEFINE J == JoinedUpTo(list)
<1>9. J = Body(J)
  BY <1>2, <1>8
<1>10. J[0] = b /\ J = [n \in 0..N |-> J[n]]
  BY <1>1, <1>9
<1>11. ASSUME NEW n \in 1..N PROVE J[n] = JoinOne(J[n - 1], list[n], Last(list))
  <2>1. n \in 0..N /\ n # 0
    BY <1>1
  <2>2. J[n] = Body(J)[n]
    BY <1>9
  <2> QED
    BY <2>1, <2>2
<1> HIDE DEF J
<1>12. ASSUME NEW n \in 1..N, J[n - 1] \in Joining
       PROVE  J[n] = step[<<J[n - 1], n>>]
  BY <1>11, <1>12
<1>13. \A n \in 0..N : J[n] \in Joining
  <2> HIDE DEF step
  <2> QED
    BY <1>1, <1>3, <1>4, <1>10, <1>12, RecursionStays
<1>14. J \in [0..N -> Joining]
  BY <1>10, <1>13
<1> QED
  BY <1>10, <1>11, <1>14 DEF N, J, b

(* A list in which the last cgroup stands only once is split again into    *)
(* what it was joined from.                                                *)
LEMMA JoinedExact ==
  ASSUME NEW list \in Seq(Cg),
         \A i \in 1..Len(list) : list[i] = Last(list) => i = Len(list)
  PROVE  Joined(list) = list
<1> DEFINE N == Len(list)
           J == JoinedUpTo(list)
           P(n) == SubSeq(list, 1, n)
           G == {n \in 0..N : J[n].fields = P(n) /\ (J[n].open => n = N)}
<1>1. N \in Nat /\ 0 \in 0..N
  OBVIOUS
<1>2. /\ J[0] = [fields |-> <<>>, open |-> FALSE]
      /\ \A n \in 1..N : J[n] = JoinOne(J[n - 1], list[n], Last(list))
  BY JoinedDef
<1>3. P(0) = <<>> /\ P(N) = list
  OBVIOUS
<1>4. \A n \in 1..N : P(n) = Append(P(n - 1), list[n])
  OBVIOUS
<1>5. \A n \in 1..N : list[n] = Last(list) => n = N
  OBVIOUS
<1> HIDE DEF N, J, P
<1>6. 0 \in G
  BY <1>1, <1>2, <1>3
<1>7. ASSUME NEW n \in 1..N, n - 1 \in G PROVE n \in G
  <2>1. n \in 0..N /\ J[n - 1].fields = P(n - 1) /\ ~J[n - 1].open
    BY <1>1, <1>7
  <2>j. J[n] = JoinOne(J[n - 1], list[n], Last(list))
    BY <1>2
  <2>2. J[n].fields = Append(P(n - 1), list[n])
    <3> DEFINE j == J[n - 1]
               k == J[n]
               c == list[n]
    <3>1. k = JoinOne(j, c, Last(list)) /\ ~j.open
      BY <2>1, <2>j
    <3> HIDE DEF j, k, c
    <3>2. k.fields = Append(j.fields, c)
      BY <3>1 DEF JoinOne
    <3> QED
      BY <2>1, <3>2 DEF j, k, c
  <2>3. J[n].open => list[n] = Last(list)
    <3> DEFINE k == J[n]
    <3>1. k = JoinOne(J[n - 1], list[n], Last(list))
      BY <2>j
    <3> HIDE DEF k
    <3>2. k.open = (list[n] = Last(list))
      BY <3>1 DEF JoinOne
    <3> QED
      BY <3>2 DEF k
  <2> QED
    BY <1>4, <1>5, <2>1, <2>2, <2>3
<1>8. \A n \in 0..N : n \in G
  <2> HIDE DEF G
  <2> QED
    BY <1>1, <1>6, <1>7, BoundedInduction
<1>9. J[N].fields = P(N)
  BY <1>1, <1>8
<1> QED
  BY <1>3, <1>9 DEF Joined, N, J

(* The first string stays a string of its own if no other equals it. *)
LEMMA JoinedFirst ==
  ASSUME NEW p \in Cg, NEW rest \in Seq(Cg),
         \A i \in 1..Len(rest) : rest[i] # p
  PROVE  Head(Joined(<<p>> \o rest)) = p
<1> DEFINE list == <<p>> \o rest
           N == Len(list)
           J == JoinedUpTo(list)
           Good(n) == /\ J[n].fields # <<>> /\ J[n].fields[1] = p
                      /\ J[n].open => n = N \/ Len(J[n].fields) >= 2
           G == {n \in 0..N : n = 0 \/ Good(n)}
<1>1. list \in Seq(Cg) /\ N \in Nat /\ N >= 1
  OBVIOUS
<1>2. list[1] = p /\ (N # 1 => Last(list) # p)
  <2>1. N = Len(rest) + 1 /\ list[1] = p
    OBVIOUS
  <2>2. ASSUME N # 1 PROVE Last(list) = rest[Len(rest)] /\ Len(rest) \in 1..Len(rest)
    BY <2>1, <2>2 DEF Last
  <2> QED
    BY <2>1, <2>2
<1> HIDE DEF list
<1>3. J \in [0..N -> Joining] /\ J[0] = [fields |-> <<>>, open |-> FALSE]
  BY <1>1, JoinedDef
<1>4. \A n \in 1..N : J[n] = JoinOne(J[n - 1], list[n], Last(list))
  BY <1>1, JoinedDef
<1>5. \A n \in 1..N : list[n] \in Cg
  BY <1>1
<1> HIDE DEF N, J
<1>6. 0 \in G
  BY <1>1
<1>7. ASSUME NEW n \in 1..N, n - 1 \in G PROVE n \in G
  <2>1. n \in 0..N /\ n - 1 \in 0..N
    BY <1>1
  <2>j. J[n] = JoinOne(J[n - 1], list[n], Last(list))
    BY <1>4
  <2>2. /\ J[n - 1].open => J[n].fields =
                [J[n - 1].fields EXCEPT ![Len(J[n - 1].fields)] = @ \o list[n]]
        /\ ~J[n - 1].open => J[n].fields = Append(J[n - 1].fields, list[n])
    <3> DEFINE j == J[n - 1]
               k == J[n]
               c == list[n]
    <3>1. k = JoinOne(j, c, Last(list))
      BY <2>j
    <3> HIDE DEF j, k, c
    <3>2. /\ j.open => k.fields = [j.fields EXCEPT ![Len(j.fields)] = @ \o c]
          /\ ~j.open => k.fields = Append(j.fields, c)
      BY <3>1 DEF JoinOne
    <3> QED
      BY <3>2 DEF j, k, c
  <2>3. J[n].open => list[n] = Last(list)
    <3> DEFINE k == J[n]
    <3>1. k = JoinOne(J[n - 1], list[n], Last(list))
      BY <2>j
    <3> HIDE DEF k
    <3>2. k.open = (list[n] = Last(list))
      BY <3>1 DEF JoinOne
    <3> QED
      BY <3>2 DEF k
  <2>4. Good(n)
    <3>1. CASE n = 1
      <4>1. J[n].fields = Append(<<>>, p)
        <5>1. J[n - 1].fields = <<>> /\ ~J[n - 1].open
          BY <1>3, <3>1
        <5> QED
          BY <1>2, <2>2, <3>1, <5>1
      <4>2. J[n].open => N = 1
        BY <1>2, <2>3, <3>1
      <4> QED
        BY <3>1, <4>1, <4>2
    <3>2. CASE n # 1
      <4> DEFINE fs == J[n - 1].fields
      <4>1. Good(n - 1)
        BY <1>7, <3>2
      <4>2. fs \in Seq(Cg) /\ fs # <<>> /\ fs[1] = p
        BY <1>3, <2>1, <4>1 DEF Joining
      <4>3. J[n - 1].open => Len(fs) >= 2
        BY <1>1, <4>1
      <4>4. CASE J[n - 1].open
        <5>1. J[n].fields = [fs EXCEPT ![Len(fs)] = @ \o list[n]]
          BY <2>2, <4>4
        <5> HIDE DEF fs
        <5>2. Len(fs) \in 1..Len(fs) /\ Len(fs) >= 2 /\ fs[Len(fs)] \in Cg
          BY <4>2, <4>3, <4>4
        <5>3. fs[Len(fs)] \o list[n] \in Cg
          BY <1>5, <5>2 DEF Cg
        <5>4. /\ J[n].fields \in Seq(Cg) /\ Len(J[n].fields) = Len(fs)
              /\ J[n].fields[1] = fs[1]
          <6> DEFINE c == fs[Len(fs)] \o list[n]
                     l == Len(fs)
          <6>1. J[n].fields = [fs EXCEPT ![l] = c]
            BY <5>1
          <6>2. l \in 1..Len(fs) /\ c \in Cg /\ l # 1 /\ 1 \in 1..Len(fs)
            BY <5>2, <5>3
          <6> HIDE DEF c, l
          <6> QED
            BY <4>2, <6>1, <6>2, ExceptSeq
        <5> QED
          BY <4>2, <5>2, <5>4
      <4>5. CASE ~J[n - 1].open
        <5>1. J[n].fields = Append(fs, list[n])
          BY <2>2, <4>5
        <5> HIDE DEF fs
        <5>2. /\ J[n].fields \in Seq(Cg) /\ Len(J[n].fields) >= 2
              /\ J[n].fields[1] = p
          BY <1>5, <4>2, <5>1
        <5> QED
          BY <5>2
      <4> QED
        BY <4>4, <4>5
    <3> QED
      BY <3>1, <3>2
  <2> QED
    BY <2>1, <2>4
<1>8. \A n \in 0..N : n \in G
  <2> HIDE DEF G
  <2> QED
    BY <1>1, <1>6, <1>7, BoundedInduction
<1>9. Good(N)
  BY <1>1, <1>8
<1>10. Head(J[N].fields) = p
  BY <1>1, <1>3, <1>9 DEF Joining
<1> QED
  BY <1>10 DEF Joined, N, J, list

-----------------------------------------------------------------------------
(* To merge a list that was merged before changes nothing. *)
LEMMA MergeIdempotent ==
  ASSUME NEW p \in Cg, NEW list \in Seq(Cg)
  PROVE  /\ Merge(list, p) \in Seq(Cg)
         /\ Merge(Merge(list, p), p) = Merge(list, p)
<1> DEFINE rest == Without(list, {p})
<1>1. rest \in Seq(Cg \ {p})
  BY WithoutClean
<1> HIDE DEF rest
<1>2. rest \in Seq(Cg) /\ \A i \in 1..Len(rest) : rest[i] # p
  BY <1>1
<1>3. Without(<<p>> \o rest, {p}) = rest
  BY <1>2, WithoutHead
<1>4. <<p>> \o rest \in Seq(Cg)
  BY <1>2
<1> QED
  BY <1>3, <1>4 DEF Merge, rest

(* Whatever list is merged and exported, the script finds the preserved    *)
(* cgroup first.                                                           *)
LEMMA MergedFirst ==
  ASSUME NEW p \in Cg, NEW list \in Seq(Cg)
  PROVE  Head(Joined(Merge(list, p))) = p
<1> DEFINE rest == Without(list, {p})
<1>1. rest \in Seq(Cg \ {p})
  BY WithoutClean
<1> HIDE DEF rest
<1>2. rest \in Seq(Cg) /\ \A i \in 1..Len(rest) : rest[i] # p
  BY <1>1
<1> QED
  BY <1>2, JoinedFirst DEF Merge, rest

(* The names that getRealExistPath() leaves as they are. *)
Fixed == {n \in Name : GetRealExistPath(n) = n}

(* What it finds is one of them. *)
LEMMA RealPathFixed ==
  ASSUME disk \in Disk, NEW n \in Name
  PROVE  GetRealExistPath(n) \in Fixed \cup {Missing}
BY DiskAssumption DEF GetRealExistPath, Fixed

(* So to resolve a list that was resolved before, with the same files,     *)
(* changes nothing.                                                        *)
LEMMA ResolveIdempotent ==
  ASSUME disk \in Disk, NEW list \in Seq(Name)
  PROVE  /\ ToRealProgramPath(list) \in Seq(Name)
         /\ ToRealProgramPath(ToRealProgramPath(list)) = ToRealProgramPath(list)
<1> DEFINE found == [i \in DOMAIN list |-> GetRealExistPath(list[i])]
           real == Without(found, {Missing})
<1>1. found \in Seq(Fixed \cup {Missing})
  <2>1. DOMAIN list = 1..Len(list) /\ Len(list) \in Nat
    OBVIOUS
  <2>2. \A i \in 1..Len(list) : GetRealExistPath(list[i]) \in Fixed \cup {Missing}
    BY RealPathFixed
  <2> QED
    BY <2>1, <2>2
<1> HIDE DEF found
<1>2. real \in Seq((Fixed \cup {Missing}) \ {Missing})
  BY <1>1, WithoutClean
<1> HIDE DEF real
<1>3. real \in Seq(Name) /\ \A i \in 1..Len(real) : real[i] # Missing
  BY <1>2 DEF Fixed
<1>4. [i \in DOMAIN real |-> GetRealExistPath(real[i])] = real
  <2>1. DOMAIN real = 1..Len(real)
    BY <1>2
  <2>2. \A i \in 1..Len(real) : GetRealExistPath(real[i]) = real[i]
    BY <1>2 DEF Fixed
  <2>3. real = [i \in DOMAIN real |-> real[i]]
    BY <1>2
  <2> QED
    BY <2>1, <2>2, <2>3
<1>5. Without(real, {Missing}) = real
  BY <1>3, WithoutNone
<1>6. ToRealProgramPath(list) = real
  BY DEF ToRealProgramPath, real, found
<1>7. ToRealProgramPath(real) = real
  BY <1>4, <1>5 DEF ToRealProgramPath
<1> QED
  BY <1>3, <1>6, <1>7

-----------------------------------------------------------------------------
(* The preserved cgroups are cgroups. *)
LEMMA PreservedCgroup ==
  ASSUME NEW k \in CgroupKey
  PROVE  PreservedOf(k) \in Cg
<1>1. <<"proxy.slice">> \in Seq(Part) /\ <<"noproxy.slice">> \in Seq(Part)
  BY DocumentAssumption
<1>2. /\ Preserved["proxy"] = <<"proxy.slice">>
      /\ Preserved["noproxy"] = <<"noproxy.slice">>
  BY DEF Preserved
<1> QED
  BY <1>1, <1>2 DEF PreservedOf, Cg

(* The lists of a configuration are lists of cgroups, and of names. *)
Listed(c) ==
  /\ \A k \in CgroupKey : c[k] \in Seq(Cg)
  /\ \A k \in ProgramKey : c[k] \in Seq(Name)

(* What a document gives for a list is one. *)
LEMMA AssignedLists ==
  ASSUME NEW c, Listed(c), NEW doc \in Document
  PROVE  Listed(TryAssign(c, doc))
<1> DEFINE a == TryAssign(c, doc)
<1>1. ASSUME NEW k \in CgroupKey PROVE a[k] \in Seq(Cg)
  <2>1. k \in Key /\ k \notin NumberKey \cup {"port"} \cup BoolKey
    BY DEF Key, CgroupKey, NumberKey, BoolKey
  <2>2. CASE k \in DOMAIN doc /\ Assignable(k, doc[k])
    <3>1. doc[k].kind = "list"
      BY <2>1, <2>2 DEF Assignable
    <3>2. doc[k].v \in Seq(Cg)
      BY <2>2, <3>1, DocumentAssumption DEF Cg
    <3>3. Converted(k, doc[k]) = doc[k].v
      BY <3>1 DEF Converted
    <3>4. a[k] = Converted(k, doc[k])
      BY <2>1, <2>2 DEF TryAssign
    <3> QED
      BY <3>2, <3>3, <3>4
  <2>3. CASE ~(k \in DOMAIN doc /\ Assignable(k, doc[k]))
    <3>1. a[k] = c[k]
      BY <2>1, <2>3 DEF TryAssign
    <3> QED
      BY <3>1 DEF Listed
  <2> QED
    BY <2>2, <2>3
<1>2. ASSUME NEW k \in ProgramKey PROVE a[k] \in Seq(Name)
  <2>1. k \in Key /\ k \notin NumberKey \cup {"port"} \cup BoolKey
    BY DEF Key, ProgramKey, NumberKey, BoolKey
  <2>2. CASE k \in DOMAIN doc /\ Assignable(k, doc[k])
    <3>1. doc[k].kind = "list"
      BY <2>1, <2>2 DEF Assignable
    <3>2. doc[k].v \in Seq(Name)
      BY <2>2, <3>1, DocumentAssumption
    <3>3. Converted(k, doc[k]) = doc[k].v
      BY <3>1 DEF Converted
    <3>4. a[k] = Converted(k, doc[k])
      BY <2>1, <2>2 DEF TryAssign
    <3> QED
      BY <3>2, <3>3, <3>4
  <2>3. CASE ~(k \in DOMAIN doc /\ Assignable(k, doc[k]))
    <3>1. a[k] = c[k]
      BY <2>1, <2>3 DEF TryAssign
    <3> QED
      BY <3>1 DEF Listed
  <2> QED
    BY <2>2, <2>3
<1> QED
  BY <1>1, <1>2 DEF Listed

(* Key by key, what is loaded. *)
LEMMA LoadedKeys ==
  ASSUME NEW c, NEW doc
  PROVE  LET a == TryAssign(c, doc)
             l == LoadFromJsonStr(c, doc)
         IN  /\ \A k \in ProgramKey : l[k] = ToRealProgramPath(a[k])
             /\ \A k \in CgroupKey : l[k] = Merge(a[k], PreservedOf(k))
             /\ \A k \in Key \ (ProgramKey \cup CgroupKey) : l[k] = a[k]
<1> DEFINE a == TryAssign(c, doc)
           l == LoadFromJsonStr(c, doc)
<1>1. l = [k \in Key |->
             IF k \in ProgramKey THEN ToRealProgramPath(a[k])
             ELSE IF k \in CgroupKey THEN Merge(a[k], PreservedOf(k))
             ELSE a[k]]
  BY DEF LoadFromJsonStr
<1>2. /\ ProgramKey \subseteq Key /\ CgroupKey \subseteq Key
      /\ \A k \in CgroupKey : k \notin ProgramKey
  BY DEF Key, ProgramKey, CgroupKey
<1> HIDE DEF a, l
<1>3. /\ \A k \in ProgramKey : l[k] = ToRealProgramPath(a[k])
      /\ \A k \in CgroupKey : l[k] = Merge(a[k], PreservedOf(k))
      /\ \A k \in Key \ (ProgramKey \cup CgroupKey) : l[k] = a[k]
  BY <1>1, <1>2
<1> QED
  BY <1>3 DEF a, l

(* The lists that are loaded are lists. *)
LEMMA LoadedLists ==
  ASSUME disk \in Disk, NEW c, Listed(c), NEW doc \in Document
  PROVE  Listed(LoadFromJsonStr(c, doc))
<1> DEFINE a == TryAssign(c, doc)
           l == LoadFromJsonStr(c, doc)
<1>1. Listed(a)
  BY AssignedLists
<1>2. /\ \A k \in ProgramKey : l[k] = ToRealProgramPath(a[k])
      /\ \A k \in CgroupKey : l[k] = Merge(a[k], PreservedOf(k))
  BY LoadedKeys
<1> HIDE DEF a, l
<1>3. ASSUME NEW k \in ProgramKey PROVE l[k] \in Seq(Name)
  <2>1. a[k] \in Seq(Name)
    BY <1>1 DEF Listed
  <2> QED
    BY <1>2, <2>1, ResolveIdempotent
<1>4. ASSUME NEW k \in CgroupKey PROVE l[k] \in Seq(Cg)
  <2>1. a[k] \in Seq(Cg)
    BY <1>1 DEF Listed
  <2> QED
    BY <1>2, <2>1, PreservedCgroup, MergeIdempotent
<1> QED
  BY <1>3, <1>4 DEF Listed, l

(* To load a document twice, with the same files, is to load it once. *)
LEMMA LoadTwice ==
  ASSUME disk \in Disk, NEW c, Listed(c), NEW doc \in Document
  PROVE  LoadFromJsonStr(LoadFromJsonStr(c, doc), doc) = LoadFromJsonStr(c, doc)
<1> DEFINE a == TryAssign(c, doc)
           l == LoadFromJsonStr(c, doc)
           b == TryAssign(l, doc)
           m == LoadFromJsonStr(l, doc)
<1>1. Listed(a) /\ l = [k \in Key |-> l[k]] /\ m = [k \in Key |-> m[k]]
  BY AssignedLists DEF LoadFromJsonStr
<1>2. \A k \in Key : b[k] = a[k] \/ b[k] = l[k]
  BY DEF TryAssign
<1>3. /\ \A k \in ProgramKey : l[k] = ToRealProgramPath(a[k])
      /\ \A k \in CgroupKey : l[k] = Merge(a[k], PreservedOf(k))
      /\ \A k \in Key \ (ProgramKey \cup CgroupKey) : l[k] = a[k]
  BY LoadedKeys
<1> HIDE DEF a, l
<1>4. /\ \A k \in ProgramKey : m[k] = ToRealProgramPath(b[k])
      /\ \A k \in CgroupKey : m[k] = Merge(b[k], PreservedOf(k))
      /\ \A k \in Key \ (ProgramKey \cup CgroupKey) : m[k] = b[k]
  BY LoadedKeys
<1> HIDE DEF b, m
<1>5. ASSUME NEW k \in Key PROVE m[k] = l[k]
  <2>1. CASE k \in ProgramKey
    <3>1. a[k] \in Seq(Name)
      BY <1>1, <2>1 DEF Listed
    <3>2. ToRealProgramPath(ToRealProgramPath(a[k])) = ToRealProgramPath(a[k])
      BY <3>1, ResolveIdempotent
    <3>3. m[k] = ToRealProgramPath(b[k]) /\ l[k] = ToRealProgramPath(a[k])
      BY <1>3, <1>4, <2>1
    <3> QED
      BY <1>2, <3>2, <3>3
  <2>2. CASE k \in CgroupKey
    <3> DEFINE p == PreservedOf(k)
    <3>1. a[k] \in Seq(Cg) /\ p \in Cg
      BY <1>1, <2>2, PreservedCgroup DEF Listed
    <3>2. m[k] = Merge(b[k], p) /\ l[k] = Merge(a[k], p)
      BY <1>3, <1>4, <2>2
    <3> HIDE DEF p
    <3>3. Merge(Merge(a[k], p), p) = Merge(a[k], p)
      BY <3>1, MergeIdempotent
    <3> QED
      BY <1>2, <3>2, <3>3
  <2>3. CASE k \notin ProgramKey \cup CgroupKey
    BY <1>2, <1>3, <1>4, <2>3
  <2> QED
    BY <2>1, <2>2, <2>3
<1> QED
  BY <1>1, <1>5 DEF l, m

-----------------------------------------------------------------------------
(* The inductive invariant: what is loaded are lists, and what is exported *)
(* is made of them, except before the first load.                          *)
ConfigurationInv ==
  /\ disk \in Disk
  /\ Listed(config)
  /\ config # Defaults => env = ToEnv(config)
  /\ PreservedMade

(* It holds from the start, and every step keeps it. *)
LEMMA ConfigurationInductive == Spec => []ConfigurationInv
<1>1. Init => ConfigurationInv
  <2> SUFFICES ASSUME Init PROVE ConfigurationInv
    OBVIOUS
  <2>1. disk \in Disk /\ config = Defaults
    BY DEF Init
  <2>2. Listed(Defaults)
    <3>1. /\ Defaults["cgroup_proxy"] = <<>>
          /\ Defaults["cgroup_noproxy"] = <<>>
          /\ Defaults["program_proxy"] = <<"/proxy.slice">>
          /\ Defaults["program_noproxy"] = <<"/noproxy.slice">>
      BY DEF Defaults, Key, CgroupKey, ProgramKey, BoolKey, NumberKey
    <3>2. \A k \in CgroupKey : Defaults[k] \in Seq(Cg)
      <4>1. <<>> \in Seq(Cg)
        OBVIOUS
      <4> QED
        BY <3>1, <4>1, Zenon DEF CgroupKey
    <3>3. "/proxy.slice" \in Name /\ "/noproxy.slice" \in Name
      BY DiskAssumption
    <3>4. \A k \in ProgramKey : Defaults[k] \in Seq(Name)
      <4>1. <<"/proxy.slice">> \in Seq(Name) /\ <<"/noproxy.slice">> \in Seq(Name)
        BY <3>3
      <4> QED
        BY <3>1, <4>1, Zenon DEF ProgramKey
    <3> QED
      BY <3>2, <3>4 DEF Listed
  <2>3. PreservedMade
    <3> SUFFICES ASSUME NEW k \in CgroupKey PROVE Head(env[k]) = PreservedOf(k)
      BY DEF PreservedMade
    <3>1. env[k] = <<PreservedOf(k)>>
      BY DEF Init
    <3> QED
      BY <3>1
  <2> QED
    BY <2>1, <2>2, <2>3 DEF ConfigurationInv
<1>2. ConfigurationInv /\ [Next]_vars => ConfigurationInv'
  <2> SUFFICES ASSUME ConfigurationInv, [Next]_vars PROVE ConfigurationInv'
    OBVIOUS
  <2>1. disk \in Disk /\ Listed(config)
    BY DEF ConfigurationInv
  <2>2. ASSUME UNCHANGED <<config, env>>, disk' \in Disk PROVE ConfigurationInv'
    BY <2>2 DEF ConfigurationInv, Listed, PreservedMade
  <2>3. ASSUME NEW doc \in Document, Load(doc) PROVE ConfigurationInv'
    <3>1. CASE ValidateJsonStr(doc)
      <4> DEFINE a == TryAssign(config, doc)
                 l == LoadFromJsonStr(config, doc)
      <4>1. config' = l /\ env' = ToEnv(config') /\ disk' = disk
        BY <2>3, <3>1 DEF Load
      <4>2. Listed(l)
        BY <2>1, LoadedLists
      <4>3. Listed(a) /\ \A k \in CgroupKey : l[k] = Merge(a[k], PreservedOf(k))
        BY <2>1, AssignedLists, LoadedKeys
      <4> HIDE DEF a, l
      <4>4. PreservedMade'
        <5> SUFFICES ASSUME NEW k \in CgroupKey
                     PROVE  Head(env'[k]) = PreservedOf(k)
          BY DEF PreservedMade
        <5>1. env'[k] = Joined(l[k])
          BY <4>1 DEF ToEnv
        <5>2. a[k] \in Seq(Cg) /\ PreservedOf(k) \in Cg
          BY <4>3, PreservedCgroup DEF Listed
        <5> QED
          BY <4>3, <5>1, <5>2, MergedFirst
      <4>5. Listed(config')
        BY <4>1, <4>2
      <4> QED
        BY <2>1, <4>1, <4>4, <4>5 DEF ConfigurationInv, Listed
    <3>2. CASE ~ValidateJsonStr(doc)
      BY <2>1, <2>2, <2>3, <3>2 DEF Load
    <3> QED
      BY <3>1, <3>2
  <2>4. CASE LoadNoFile
    BY <2>1, <2>2, <2>4 DEF LoadNoFile
  <2>5. CASE ChangeDisk
    BY <2>2, <2>5 DEF ChangeDisk
  <2>6. CASE UNCHANGED vars
    BY <2>1, <2>2, <2>6 DEF vars
  <2> QED
    BY <2>3, <2>4, <2>5, <2>6 DEF Next
<1> QED
  BY <1>1, <1>2, PTL DEF Spec

(* Whatever documents, with lists of any length, are loaded in any order   *)
(* while programs come and go, the first cgroup of each exported list is   *)
(* the preserved one, which the script makes and attach() moves to.        *)
THEOREM FirstIsPreserved == Spec => []PreservedMade
<1>1. ConfigurationInv => PreservedMade
  BY DEF ConfigurationInv
<1> QED
  BY <1>1, ConfigurationInductive, PTL

(* A list of any length comes out of join2str() and the splitting of the   *)
(* script as it went in, unless its last cgroup stands in it twice.        *)
THEOREM ExportExact == Spec => []ExportedAsGiven
<1>1. ConfigurationInv => ExportedAsGiven
  <2> SUFFICES ASSUME ConfigurationInv, config # Defaults, NEW k \in CgroupKey,
                      \A i \in DOMAIN config[k] :
                        config[k][i] = Last(config[k]) => i = Len(config[k])
               PROVE  env[k] = config[k]
    BY DEF ExportedAsGiven
  <2>1. config[k] \in Seq(Cg) /\ env[k] = Joined(config[k])
    BY DEF ConfigurationInv, Listed, ToEnv
  <2>2. DOMAIN config[k] = 1..Len(config[k])
    BY <2>1
  <2> QED
    BY <2>1, <2>2, JoinedExact
<1> QED
  BY <1>1, ConfigurationInductive, PTL

(* From every configuration that loads have left, to load a document a     *)
(* second time changes nothing: neither the resolving of the programs nor  *)
(* the merging of the preserved cgroups adds up.                           *)
THEOREM SecondLoadSame == Spec => []LoadIdempotent
<1>1. ConfigurationInv => LoadIdempotent
  BY LoadTwice DEF ConfigurationInv, LoadIdempotent
<1> QED
  BY <1>1, ConfigurationInductive, PTL
=============================================================================
