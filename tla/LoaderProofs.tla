----------------------------- MODULE LoaderProofs -----------------------------
(***************************************************************************)
(* What holds of Loader.tla for every image, every size of a pointer and   *)
(* of the named types, and every table of imports: virtual calls find the  *)
(* overriding method, fields lie apart, and attributes are given what the  *)
(* image writes.  All three rest on one invariant, that the domain has     *)
(* what the sections read so far describe.  A recursive function that is   *)
(* local to a definition is named here, and shown to exist and to be the   *)
(* only one, before anything is said of its values.                        *)
(***************************************************************************)
EXTENDS Loader, NumberFacts

-----------------------------------------------------------------------------
(* What has been read.                                                     *)

(* The sections that the loader has read.                                  *)
Read(kinds) == Before(position, kinds)

Distinct(s) == \A i, j \in DOMAIN s : s[i] = s[j] => i = j

(* The sections before place n whose entry in the table is set.            *)
Kept(n) == {j \in 1..(n - 1) : image[j].kind # "header"}

ReadInv ==
  /\ image \in Images
  /\ position \in 1..(Len(image) + 1)
  /\ loaded = {image[j].id : j \in Kept(position)}
  /\ Ready => position = Len(image) + 1

(* The domain as the image describes it.                                   *)
TypeAsWritten(t, s) ==
  /\ {"super", "is", "fields", "methods"} \subseteq DOMAIN t
  /\ t.super = s.super
  /\ t.is = s.is

FieldAsWritten(f, s) == f.owner = s.owner /\ f.declared = s.declared /\ f.is = s.is

MethodAsWritten(m, s) ==
  /\ {"owner", "name", "parameters"} \subseteq DOMAIN m
  /\ m.owner = s.owner
  /\ m.name = s.name
  /\ m.parameters = s.parameters

ListOf(list, parts, t) ==
  /\ list \in Seq(DOMAIN parts)
  /\ Range(list) = {p \in DOMAIN parts : parts[p].owner = t}
  /\ Distinct(list)

DomainInv ==
  /\ {"types", "fields", "methods"} \subseteq DOMAIN domain
  /\ DOMAIN domain.types = Read({"type"})
  /\ DOMAIN domain.fields = Read({"field"})
  /\ DOMAIN domain.methods = Read({"method"})
  /\ \A j \in 1..(position - 1) :
       /\ image[j].kind = "type" => TypeAsWritten(domain.types[image[j].id], image[j])
       /\ image[j].kind = "field" => FieldAsWritten(domain.fields[image[j].id], image[j])
       /\ image[j].kind = "method" => MethodAsWritten(domain.methods[image[j].id], image[j])
  /\ \A t \in DOMAIN domain.types :
       /\ ListOf(domain.types[t].fields, domain.fields, t)
       /\ ListOf(domain.types[t].methods, domain.methods, t)
  /\ order \in Seq(DOMAIN domain.types)
  /\ Range(order) = DOMAIN domain.types

(* The sections of an image are a sequence, with ids of their own.         *)
LEMMA ImageFacts ==
  ASSUME image \in Images
  PROVE  /\ image \in Seq(SectionKinds)
         /\ Len(image) \in Nat
         /\ DOMAIN image = 1..Len(image)
         /\ \A i \in 1..Len(image) : image[i].id # NoType
         /\ \A i, j \in 1..Len(image) : image[i].id = image[j].id => i = j
<1>1. image \in Seq(SectionKinds)
  BY ImagesAssumption
<1>2. DOMAIN image = 1..Len(image) /\ Len(image) \in Nat
  BY <1>1
<1> QED BY <1>1, <1>2, ImagesAssumption

(* After loading, what has been read is what the image holds.              *)
LEMMA AllRead ==
  ASSUME ReadInv, Ready, NEW kinds
  PROVE  Read(kinds) = {s.id : s \in {x \in Range(image) : x.kind \in kinds}}
<1>1. position - 1 = Len(image) /\ DOMAIN image = 1..Len(image)
  BY ImageFacts DEF ReadInv
<1> QED BY <1>1 DEF Read, Before, Range

(* The chain of a type.                                                    *)
Chain(s, t) ==
  /\ s \in Seq(DOMAIN domain.types)
  /\ s # <<>>
  /\ s[1] = t
  /\ \A i \in 1..(Len(s) - 1) : s[i + 1] = Super(domain, s[i])

Loadable == ReadInv /\ DomainInv /\ Ordered

(* The super type of a type that has been read was read before it.         *)
LEMMA SuperIsEarlier ==
  ASSUME Loadable, NEW j \in 1..(position - 1), image[j].kind = "type"
  PROVE  /\ image[j].id \in DOMAIN domain.types
         /\ Super(domain, image[j].id) = image[j].super
         /\ image[j].super # NoType =>
              \E k \in 1..(j - 1) : image[k].id = image[j].super /\ image[k].kind = "type"
<1>1. j \in DOMAIN image /\ image[j].id # NoType
  BY ImageFacts DEF Loadable, ReadInv
<1>2. image[j].id \in Read({"type"})
  BY DEF Read, Before
<1>3. Super(domain, image[j].id) = image[j].super
  BY DEF Loadable, DomainInv, TypeAsWritten, Super
<1>4. image[j].super \in Before(j, {"type"}) \union {NoType}
  BY <1>1 DEF Loadable, Ordered, RefersTo
<1> QED BY <1>2, <1>3, <1>4 DEF Loadable, DomainInv, Before

(* A type of the domain has a section.                                     *)
LEMMA TypeHasSection ==
  ASSUME Loadable, NEW t \in DOMAIN domain.types
  PROVE  \E j \in 1..(position - 1) : image[j].id = t /\ image[j].kind = "type"
BY DEF Loadable, DomainInv, Read, Before

Place(t) == CHOOSE j \in 1..(position - 1) : image[j].id = t /\ image[j].kind = "type"

(* The section of a type of the domain is where Place finds it.            *)
LEMMA PlaceOf ==
  ASSUME Loadable, NEW t \in DOMAIN domain.types
  PROVE  /\ Place(t) \in 1..(position - 1)
         /\ image[Place(t)].id = t
         /\ image[Place(t)].kind = "type"
BY TypeHasSection DEF Place

(* A super type comes before its sub types in the image.                   *)
LEMMA SuperPlace ==
  ASSUME Loadable, NEW t \in DOMAIN domain.types, Super(domain, t) # NoType
  PROVE  /\ Super(domain, t) \in DOMAIN domain.types
         /\ Place(Super(domain, t)) < Place(t)
<1> DEFINE j == Place(t)
<1>1. j \in 1..(position - 1) /\ image[j].id = t /\ image[j].kind = "type"
  BY PlaceOf
<1> HIDE DEF j
<1>2. PICK k \in 1..(j - 1) : image[k].id = Super(domain, t) /\ image[k].kind = "type"
  BY <1>1, SuperIsEarlier
<1>3. position - 1 <= Len(image) /\ position \in Int
  BY ImageFacts DEF Loadable, ReadInv
<1>4. k \in 1..(position - 1)
  BY <1>1, <1>3
<1>5. Super(domain, t) \in DOMAIN domain.types
  BY <1>2, <1>4, SuperIsEarlier
<1>6. /\ Place(Super(domain, t)) \in 1..(position - 1)
      /\ image[Place(Super(domain, t))].id = image[k].id
  BY <1>5, <1>2, PlaceOf
<1>7. Place(Super(domain, t)) = k
  BY <1>6, <1>4, <1>3, ImageFacts DEF Loadable, ReadInv
<1> QED BY <1>5, <1>7, <1>1 DEF j

(* The recursion of Lineage, without its CHOOSE.                           *)
LineBy(f, t) ==
  f = [n \in 0..Cardinality(DOMAIN domain.types) |->
         IF n = 0 THEN <<t>>
         ELSE IF Super(domain, Last(f[n - 1])) = NoType THEN f[n - 1]
              ELSE Append(f[n - 1], Super(domain, Last(f[n - 1])))]

Line(t) == CHOOSE f : LineBy(f, t)

(* Lineage, with its recursive function named.                             *)
LEMMA LineageIs ==
  ASSUME NEW t
  PROVE  Lineage(domain, t) = Line(t)[Cardinality(DOMAIN domain.types)]
BY DEF Lineage, Line, LineBy

(* The types of a domain are finitely many.                                *)
LEMMA TypesAreFinite ==
  ASSUME Loadable
  PROVE  /\ IsFiniteSet(DOMAIN domain.types)
         /\ Cardinality(DOMAIN domain.types) \in Nat
<1>1. DOMAIN domain.types = {image[j].id : j \in {k \in 1..(position - 1) : image[k].kind \in {"type"}}}
  BY DEF Loadable, DomainInv, Read, Before
<1>2. IsFiniteSet(1..(position - 1))
  <2>1. position - 1 \in Int /\ 1 \in Int
    BY ImageFacts DEF Loadable, ReadInv
  <2> QED BY <2>1, FS_Interval
<1>3. IsFiniteSet({k \in 1..(position - 1) : image[k].kind \in {"type"}})
  BY <1>2, FS_Subset
<1>4. IsFiniteSet(DOMAIN domain.types)
  <2> DEFINE K == {k \in 1..(position - 1) : image[k].kind \in {"type"}}
             g == [k \in K |-> image[k].id]
  <2>1. DOMAIN domain.types = {g[k] : k \in K}
    BY <1>1
  <2>2. IsFiniteSet(K)
    BY <1>3
  <2> HIDE DEF K, g
  <2> QED BY <2>1, <2>2, ImageIsFinite
<1> QED BY <1>4, FS_CardinalityType

(* Along a chain the places in the image fall, so no type occurs twice.    *)
LEMMA ChainFalls ==
  ASSUME Loadable, NEW t \in DOMAIN domain.types, NEW s, Chain(s, t),
         NEW i \in 1..Len(s)
  PROVE  \A k \in 1..(Len(s) - i) : Place(s[i + k]) + k <= Place(s[i])
<1> DEFINE P(k) == Place(s[i + k]) + k <= Place(s[i])
           T == {k \in 0..(Len(s) - i) : P(k)}
<1>0. Len(s) \in Nat /\ s \in Seq(DOMAIN domain.types) /\ position \in Int
  BY ImageFacts DEF Chain, Loadable, ReadInv
<1>a. \A k \in 1..Len(s) : s[k] \in DOMAIN domain.types /\ Place(s[k]) \in Int
  <2> SUFFICES ASSUME NEW k \in 1..Len(s) PROVE s[k] \in DOMAIN domain.types /\ Place(s[k]) \in Int
    OBVIOUS
  <2>1. s[k] \in DOMAIN domain.types
    BY <1>0
  <2> QED BY <2>1, PlaceOf, <1>0
<1>1. 0 \in T
  BY <1>a, <1>0
<1>2. ASSUME NEW k \in 0..(Len(s) - i - 1), k \in T
      PROVE  k + 1 \in T
  <2>1. /\ i + k \in 1..(Len(s) - 1) /\ i + k \in 1..Len(s)
        /\ i + k + 1 \in 1..Len(s) /\ k + 1 \in 0..(Len(s) - i) /\ k \in Int
    BY <1>0
  <2>2. s[i + k + 1] = Super(domain, s[i + k])
    BY <2>1 DEF Chain
  <2>3. s[i + k] \in DOMAIN domain.types /\ s[i + k + 1] \in DOMAIN domain.types
    BY <1>a, <2>1
  <2>4. s[i + k + 1] # NoType
    BY <2>3, PlaceOf, ImageFacts DEF Loadable, ReadInv
  <2>5. Place(s[i + k + 1]) < Place(s[i + k])
    BY <2>2, <2>3, <2>4, SuperPlace
  <2>6. Place(s[i + k]) + k <= Place(s[i])
    BY <1>2, <1>0
  <2>7. Place(s[i + k + 1]) \in Int /\ Place(s[i + k]) \in Int /\ Place(s[i]) \in Int
    BY <1>a, <2>1
  <2>8. i + (k + 1) = i + k + 1
    BY <1>0
  <2> HIDE DEF T
  <2>9. Place(s[i + (k + 1)]) + (k + 1) <= Place(s[i])
    BY <2>1, <2>5, <2>6, <2>7, <2>8
  <2> QED BY <2>1, <2>9 DEF T
<1> HIDE DEF T, P
<1>3. 0..(Len(s) - i) \subseteq T
  <2>1. Len(s) - i \in Nat
    BY <1>0
  <2> QED BY <1>1, <1>2, <2>1, UpTo
<1>4. \A k \in 1..(Len(s) - i) : P(k)
  <2>1. \A k \in 1..(Len(s) - i) : k \in 0..(Len(s) - i)
    BY <1>0
  <2> QED BY <1>3, <2>1 DEF T
<1> QED BY <1>4 DEF P

(* No type comes twice in a chain, which is therefore no longer than the   *)
(* domain has types.                                                       *)
LEMMA ChainInjective ==
  ASSUME Loadable, NEW t \in DOMAIN domain.types, NEW s, Chain(s, t)
  PROVE  /\ Distinct(s)
         /\ Len(s) <= Cardinality(DOMAIN domain.types)
<1>0. Len(s) \in Nat /\ s \in Seq(DOMAIN domain.types) /\ position \in Int
  BY ImageFacts DEF Chain, Loadable, ReadInv
<1>1. ASSUME NEW i \in 1..Len(s), NEW j \in 1..Len(s), i < j
      PROVE  s[i] # s[j]
  <2>1. j - i \in 1..(Len(s) - i) /\ i + (j - i) = j
    BY <1>0, <1>1
  <2>2. Place(s[j]) + (j - i) <= Place(s[i])
    BY <2>1, ChainFalls
  <2>3. s[i] \in DOMAIN domain.types
    BY <1>0
  <2>4. Place(s[i]) \in Int
    BY <2>3, PlaceOf, <1>0
  <2> QED BY <2>2, <2>4, <1>1
<1>2. Distinct(s)
  <2>1. DOMAIN s = 1..Len(s)
    BY <1>0
  <2> QED BY <1>1, <2>1, <1>0 DEF Distinct
<1>3. \A i, j \in 1..Len(s) : s[i] = s[j] => i = j
  <2>1. DOMAIN s = 1..Len(s)
    BY <1>0
  <2> QED BY <1>2, <2>1 DEF Distinct
<1>4. s \in [1..Len(s) -> DOMAIN domain.types]
  BY <1>0
<1>5. Len(s) <= Cardinality(DOMAIN domain.types)
  BY <1>0, <1>3, <1>4, TypesAreFinite, Pigeonhole
<1> QED BY <1>2, <1>5

(* A list of one element.                                                  *)
LEMMA OneElement ==
  ASSUME NEW S, NEW x \in S
  PROVE  /\ <<x>> \in Seq(S)
         /\ Len(<<x>>) = 1 /\ <<x>>[1] = x /\ <<x>> # <<>>
OBVIOUS

(* The chain of a type that is complete, or long enough to be so.          *)
LEMMA LineProperties ==
  ASSUME Loadable, NEW t \in DOMAIN domain.types
  PROVE  \A n \in 0..Cardinality(DOMAIN domain.types) :
           /\ Chain(Line(t)[n], t)
           /\ Super(domain, Last(Line(t)[n])) = NoType \/ Len(Line(t)[n]) = n + 1
<1> DEFINE N == Cardinality(DOMAIN domain.types)
           D == {s \in Seq(DOMAIN domain.types) : s # <<>>}
           up == [s \in D |-> IF Super(domain, Last(s)) = NoType THEN s
                              ELSE Append(s, Super(domain, Last(s)))]
           step == [n \in 1..N |-> up]
<1>1. N \in Nat
  BY TypesAreFinite
<1>2. <<t>> \in D
  BY OneElement
<1>3. up \in [D -> D]
  <2>a. SUFFICES \A s \in D : up[s] \in D
    <3> HIDE DEF D
    <3> QED OBVIOUS
  <2> SUFFICES ASSUME NEW s \in D PROVE up[s] \in D
    OBVIOUS
  <2>1. Last(s) \in DOMAIN domain.types
    BY DEF Last
  <2>2. CASE Super(domain, Last(s)) = NoType
    BY <2>2
  <2>3. CASE Super(domain, Last(s)) # NoType
    <3>1. Super(domain, Last(s)) \in DOMAIN domain.types
      BY <2>1, <2>3, SuperPlace
    <3>2. Append(s, Super(domain, Last(s))) \in D
      BY <3>1
    <3> QED BY <3>2, <2>3
  <2> QED BY <2>2, <2>3
<1> HIDE DEF N, D
<1>4. step \in [1..N -> [D -> D]]
  BY <1>3
<1>5. \E f : LineBy(f, t)
  <2>1. PICK f : Recursive(f, N, D, <<t>>, step)
    BY <1>1, <1>2, <1>4, RecursionExists
  <2>2. ASSUME NEW n \in 0..N
        PROVE  f[n] = IF n = 0 THEN <<t>>
                      ELSE IF Super(domain, Last(f[n - 1])) = NoType THEN f[n - 1]
                           ELSE Append(f[n - 1], Super(domain, Last(f[n - 1])))
    <3>1. CASE n = 0
      BY <2>1, <3>1 DEF Recursive
    <3>2. CASE n # 0
      <4>1. n \in 1..N /\ n - 1 \in 0..N
        BY <1>1, <3>2
      <4>2. f[n] = up[f[n - 1]] /\ f[n - 1] \in D
        BY <2>1, <4>1 DEF Recursive
      <4> QED BY <3>2, <4>2
    <3> QED BY <3>1, <3>2
  <2>3. f = [n \in 0..N |-> f[n]]
    BY <2>1 DEF Recursive
  <2> HIDE DEF up, step
  <2>4. LineBy(f, t)
    BY <2>2, <2>3 DEF LineBy, N
  <2> QED BY <2>4
<1>6. LineBy(Line(t), t)
  BY <1>5 DEF Line
<1> DEFINE L == Line(t)
           Good(n) == /\ Chain(L[n], t)
                      /\ Super(domain, Last(L[n])) = NoType \/ Len(L[n]) = n + 1
           T == {n \in 0..N : Good(n)}
<1>7. L[0] = <<t>>
  BY <1>1, <1>6 DEF LineBy, N
<1>8. \A n \in 0..(N - 1) : L[n + 1] = IF Super(domain, Last(L[n])) = NoType THEN L[n]
                                       ELSE Append(L[n], Super(domain, Last(L[n])))
  <2> SUFFICES ASSUME NEW n \in 0..(N - 1)
               PROVE  L[n + 1] = IF Super(domain, Last(L[n])) = NoType THEN L[n]
                                 ELSE Append(L[n], Super(domain, Last(L[n])))
    OBVIOUS
  <2>1. n + 1 \in 0..N /\ n + 1 # 0 /\ n + 1 - 1 = n
    BY <1>1
  <2> HIDE DEF L
  <2>2. LineBy(L, t)
    BY <1>6 DEF L
  <2>3. L[n + 1] = IF n + 1 = 0 THEN <<t>>
                   ELSE IF Super(domain, Last(L[n + 1 - 1])) = NoType THEN L[n + 1 - 1]
                        ELSE Append(L[n + 1 - 1], Super(domain, Last(L[n + 1 - 1])))
    <3>1. \A k \in 0..N : L[k] = IF k = 0 THEN <<t>>
                   ELSE IF Super(domain, Last(L[k - 1])) = NoType THEN L[k - 1]
                        ELSE Append(L[k - 1], Super(domain, Last(L[k - 1])))
      BY <2>2, Zenon DEF LineBy, N
    <3> HIDE DEF L
    <3>2. n + 1 \in 0..N
      BY <2>1
    <3> QED BY <3>1, <3>2
  <2> QED BY <2>1, <2>3
<1> HIDE DEF L, step, up
<1>9. 0 \in T
  <2>1. Len(<<t>>) = 1 /\ <<t>> \in Seq(DOMAIN domain.types) /\ <<t>>[1] = t /\ <<t>> # <<>>
    BY OneElement
  <2>2. \A i \in 1..(Len(<<t>>) - 1) : FALSE
    BY <2>1
  <2>3. Chain(<<t>>, t)
    BY <2>1, <2>2 DEF Chain
  <2> QED BY <1>1, <1>7, <2>1, <2>3
<1>10. ASSUME NEW n \in 0..(N - 1), n \in T
       PROVE  n + 1 \in T
  <2>1. Good(n) /\ n + 1 \in 0..N
    BY <1>1, <1>10
  <2>2. CASE Super(domain, Last(L[n])) = NoType
    <3>1. L[n + 1] = L[n]
      BY <1>8, <2>2
    <3> QED BY <2>1, <2>2, <3>1
  <2>3. CASE Super(domain, Last(L[n])) # NoType
    <3> DEFINE s == L[n]
               u == Super(domain, Last(L[n]))
    <3>1. L[n + 1] = Append(s, u)
      BY <1>8, <2>3
    <3>2. s \in Seq(DOMAIN domain.types) /\ s # <<>> /\ Len(s) = n + 1 /\ s[1] = t
      BY <2>1, <2>3 DEF Chain
    <3>3. Last(s) = s[Len(s)] /\ Last(s) \in DOMAIN domain.types
      BY <3>2 DEF Last
    <3>4. u \in DOMAIN domain.types
      BY <3>3, <2>3, SuperPlace
    <3>5. \A i \in 1..(Len(s) - 1) : s[i + 1] = Super(domain, s[i])
      BY <2>1 DEF Chain
    <3>6. u = Super(domain, s[Len(s)])
      BY <3>3
    <3> HIDE DEF s, u
    <3>7. Len(Append(s, u)) = n + 2 /\ Append(s, u) \in Seq(DOMAIN domain.types)
      BY <3>2, <3>4
    <3>8. Chain(Append(s, u), t)
      <4>1. ASSUME NEW i \in 1..(Len(Append(s, u)) - 1)
            PROVE  Append(s, u)[i + 1] = Super(domain, Append(s, u)[i])
        <5>1. i \in 1..Len(s) /\ Append(s, u)[i] = s[i]
          BY <3>2, <3>7
        <5>2. CASE i = Len(s)
          BY <5>1, <5>2, <3>2, <3>6
        <5>3. CASE i # Len(s)
          BY <5>1, <5>3, <3>2, <3>5
        <5> QED BY <5>2, <5>3
      <4>2. Append(s, u) # <<>> /\ Append(s, u)[1] = t
        BY <3>2, <3>7
      <4> QED BY <4>1, <4>2, <3>7 DEF Chain
    <3>9. Len(L[n + 1]) = (n + 1) + 1
      BY <3>1, <3>7
    <3> QED BY <3>1, <3>8, <3>9, <2>1
  <2> QED BY <2>2, <2>3
<1> HIDE DEF T
<1>11. 0..N \subseteq T
  BY <1>1, <1>9, <1>10, UpTo
<1> QED BY <1>11 DEF T, N, L

(* The lineage of a type is its chain to the one without a super.          *)
LEMMA LineageFacts ==
  ASSUME Loadable, NEW t \in DOMAIN domain.types
  PROVE  /\ Chain(Lineage(domain, t), t)
         /\ Super(domain, Last(Lineage(domain, t))) = NoType
<1> DEFINE N == Cardinality(DOMAIN domain.types)
           s == Line(t)[N]
<1>1. N \in Nat
  BY TypesAreFinite
<1>2. Chain(s, t) /\ (Super(domain, Last(s)) = NoType \/ Len(s) = N + 1)
  BY <1>1, LineProperties
<1>3. Lineage(domain, t) = s
  BY LineageIs
<1> HIDE DEF s
<1>4. Len(s) <= N
  BY <1>2, ChainInjective
<1> QED BY <1>1, <1>2, <1>3, <1>4

-----------------------------------------------------------------------------
(* The domain that is complete, and the ancestors of its types.            *)

(* What the properties say of the image, said of the domain.               *)
Complete == Loadable /\ Ready

(* A type of the domain is none of the NULLs.                              *)
LEMMA TypeHasId ==
  ASSUME Complete, NEW t \in DOMAIN domain.types
  PROVE  t # NoType
<1>1. PICK j \in 1..(position - 1) : image[j].id = t
  BY TypeHasSection DEF Complete
<1> QED BY <1>1, ImageFacts DEF Complete, Loadable, ReadInv

(* A type of the domain has the super type and the flags of the section    *)
(* that has its name.                                                      *)
LEMMA TypeInImage ==
  ASSUME Complete, NEW t \in DOMAIN domain.types
  PROVE  /\ TypeNamed(t) \in Sections("type")
         /\ TypeNamed(t).id = t
         /\ TypeNamed(t).super = Super(domain, t)
         /\ TypeNamed(t).is = domain.types[t].is
<1>1. PICK j \in 1..(position - 1) : image[j].id = t /\ image[j].kind = "type"
  BY TypeHasSection DEF Complete
<1>2. j \in DOMAIN image /\ DOMAIN image = 1..Len(image)
  BY ImageFacts DEF Complete, Loadable, ReadInv
<1>3. image[j] \in Sections("type")
  BY <1>1, <1>2 DEF Sections, Range
<1>4. TypeNamed(t) \in Sections("type") /\ TypeNamed(t).id = t
  BY <1>1, <1>3 DEF TypeNamed
<1>5. PICK k \in 1..Len(image) : TypeNamed(t) = image[k]
  BY <1>4, <1>2 DEF Sections, Range
<1>6. k = j
  BY <1>1, <1>2, <1>4, <1>5, ImageFacts DEF Complete, Loadable, ReadInv
<1>7. TypeAsWritten(domain.types[t], image[j])
  BY <1>1 DEF Complete, Loadable, DomainInv
<1> QED BY <1>4, <1>5, <1>6, <1>7 DEF TypeAsWritten, Super

AboveBy(f, t) ==
  f = [n \in 0..Len(image) |->
         IF n = 0 THEN {t}
         ELSE f[n - 1] \union ({TypeNamed(u).super : u \in f[n - 1]} \ {NoType})]

Above(t) == CHOOSE f : AboveBy(f, t)

(* Ancestors, with its recursive function named.                           *)
LEMMA AncestorsIs ==
  ASSUME NEW t
  PROVE  Ancestors(t) = Above(t)[Len(image)]
BY DEF Ancestors, Above, AboveBy

(* There is a function with that recursion.                                *)
LEMMA AboveExists ==
  ASSUME Complete, NEW t \in DOMAIN domain.types
  PROVE  AboveBy(Above(t), t)
<1> DEFINE N == Len(image)
           D == SUBSET DOMAIN domain.types
           up == [s \in D |-> s \union ({TypeNamed(u).super : u \in s} \ {NoType})]
           step == [n \in 1..N |-> up]
<1>1. N \in Nat
  BY ImageFacts DEF Complete, Loadable, ReadInv
<1>2. {t} \in D
  OBVIOUS
<1>3. up \in [D -> D]
  <2> SUFFICES ASSUME NEW s \in D PROVE up[s] \in D
    OBVIOUS
  <2>1. ASSUME NEW u \in s, TypeNamed(u).super # NoType
        PROVE  TypeNamed(u).super \in DOMAIN domain.types
    BY <2>1, TypeInImage, SuperPlace DEF Complete
  <2> QED BY <2>1
<1> HIDE DEF N, D
<1>4. step \in [1..N -> [D -> D]]
  BY <1>3
<1>5. PICK f : Recursive(f, N, D, {t}, step)
  BY <1>1, <1>2, <1>4, RecursionExists
<1>6. ASSUME NEW n \in 0..N
      PROVE  f[n] = IF n = 0 THEN {t}
                    ELSE f[n - 1] \union ({TypeNamed(u).super : u \in f[n - 1]} \ {NoType})
  <2>1. CASE n = 0
    BY <1>5, <2>1 DEF Recursive
  <2>2. CASE n # 0
    <3>1. n \in 1..N /\ n - 1 \in 0..N
      BY <1>1, <2>2
    <3>2. f[n] = up[f[n - 1]] /\ f[n - 1] \in D
      BY <1>5, <3>1 DEF Recursive
    <3> QED BY <2>2, <3>2
  <2> QED BY <2>1, <2>2
<1>7. f = [n \in 0..N |-> f[n]]
  BY <1>5 DEF Recursive
<1>8. AboveBy(f, t)
  <2> HIDE DEF up, step
  <2> QED BY <1>6, <1>7 DEF AboveBy, N
<1> QED BY <1>8 DEF Above

(* The ancestors of a type are the types of its lineage.                   *)
LEMMA AncestorsAreLineage ==
  ASSUME Complete, NEW t \in DOMAIN domain.types
  PROVE  Ancestors(t) = Range(Lineage(domain, t))
<1> DEFINE N == Len(image)
           A == Above(t)
           line == Lineage(domain, t)
<1>1. /\ N \in Nat
      /\ position \in Int /\ position - 1 = N
  BY ImageFacts DEF Complete, Loadable, ReadInv
<1>2. Chain(line, t) /\ Super(domain, Last(line)) = NoType
  BY LineageFacts DEF Complete
<1>3. /\ A[0] = {t}
      /\ \A n \in 1..N : A[n] = A[n - 1] \union ({TypeNamed(u).super : u \in A[n - 1]} \ {NoType})
  <2>1. \A n \in 0..N : A[n] = IF n = 0 THEN {t}
                   ELSE A[n - 1] \union ({TypeNamed(u).super : u \in A[n - 1]} \ {NoType})
    BY AboveExists, Zenon DEF AboveBy
  <2> HIDE DEF A
  <2>2. 0 \in 0..N /\ \A n \in 1..N : n \in 0..N /\ n # 0
    BY <1>1
  <2> QED BY <2>1, <2>2
<1>4. Ancestors(t) = A[N]
  BY AncestorsIs
<1> HIDE DEF A, line
<1>5. /\ Len(line) \in Nat \ {0} /\ DOMAIN line = 1..Len(line)
      /\ \A i \in 1..Len(line) : line[i] \in DOMAIN domain.types
      /\ Last(line) = line[Len(line)] /\ line[1] = t
      /\ \A i \in 1..(Len(line) - 1) : line[i + 1] = Super(domain, line[i])
  <2>1. line \in Seq(DOMAIN domain.types) /\ line # <<>>
    BY <1>2 DEF Chain
  <2>2. line[1] = t /\ \A i \in 1..(Len(line) - 1) : line[i + 1] = Super(domain, line[i])
    BY <1>2 DEF Chain
  <2> QED BY <2>1, <2>2 DEF Last
<1>6. Len(line) <= N
  <2>1. CASE Len(line) = 1
    <3>1. Place(t) \in 1..(position - 1)
      BY PlaceOf DEF Complete
    <3> QED BY <2>1, <3>1, <1>1
  <2>2. CASE Len(line) # 1
    <3>1. Len(line) - 1 \in 1..(Len(line) - 1) /\ 1 + (Len(line) - 1) = Len(line) /\ 1 \in 1..Len(line)
      BY <2>2, <1>5
    <3>2. Place(line[Len(line)]) + (Len(line) - 1) <= Place(line[1])
      BY <3>1, <1>2, ChainFalls DEF Complete
    <3>3. /\ Place(line[1]) \in 1..(position - 1)
          /\ Place(line[Len(line)]) \in 1..(position - 1)
      BY <1>5, PlaceOf DEF Complete
    <3> QED BY <3>2, <3>3, <1>1, <1>5
  <2> QED BY <2>1, <2>2
<1>7. A[N] \subseteq Range(line)
  <2> DEFINE T == {n \in 0..N : A[n] \subseteq Range(line)}
  <2>1. 0 \in T
    BY <1>1, <1>3, <1>5 DEF Range
  <2>2. ASSUME NEW n \in 0..(N - 1), n \in T
        PROVE  n + 1 \in T
    <3>1. n + 1 \in 1..N /\ n + 1 - 1 = n
      BY <1>1
    <3>2. A[n + 1] = A[n] \union ({TypeNamed(u).super : u \in A[n]} \ {NoType})
      BY <1>3, <3>1
    <3>3. ASSUME NEW u \in A[n], TypeNamed(u).super # NoType
          PROVE  TypeNamed(u).super \in Range(line)
      <4>1. PICK i \in 1..Len(line) : line[i] = u
        BY <2>2, <1>5 DEF Range
      <4>2. TypeNamed(u).super = Super(domain, u)
        BY <4>1, <1>5, TypeInImage
      <4>3. i # Len(line)
        BY <4>1, <4>2, <3>3, <1>2, <1>5, Zenon
      <4>4. i \in 1..(Len(line) - 1) /\ i + 1 \in 1..Len(line)
        <5>1. Len(line) \in Int
          BY <1>5
        <5> QED BY <4>3, <5>1
      <4> QED BY <4>1, <4>2, <4>4, <1>5 DEF Range
    <3>4. A[n + 1] \subseteq Range(line)
      BY <2>2, <3>2, <3>3
    <3>5. n + 1 \in 0..N
      BY <3>1
    <3> QED BY <3>4, <3>5
  <2> HIDE DEF T
  <2>3. 0..N \subseteq T
    BY <1>1, <2>1, <2>2, UpTo
  <2>4. N \in 0..N
    BY <1>1
  <2> QED BY <2>3, <2>4 DEF T
<1>8. Range(line) \subseteq A[N]
  <2> DEFINE P(n) == \A i \in 1..Len(line) : i <= n + 1 => line[i] \in A[n]
             T == {n \in 0..N : P(n)}
  <2>1. 0 \in T
    BY <1>1, <1>3, <1>5
  <2>2. ASSUME NEW n \in 0..(N - 1), n \in T
        PROVE  n + 1 \in T
    <3>1. n + 1 \in 1..N /\ n + 1 - 1 = n /\ n + 1 \in 0..N
      BY <1>1
    <3>2. A[n + 1] = A[n] \union ({TypeNamed(u).super : u \in A[n]} \ {NoType})
      BY <1>3, <3>1
    <3>3. P(n)
      BY <2>2
    <3>4. ASSUME NEW i \in 1..Len(line), i <= (n + 1) + 1
          PROVE  line[i] \in A[n + 1]
      <4>1. CASE i <= n + 1
        BY <4>1, <3>2, <3>3
      <4>2. CASE ~(i <= n + 1)
        <5>1. i - 1 \in 1..(Len(line) - 1) /\ i - 1 <= n + 1 /\ (i - 1) + 1 = i /\ i - 1 \in 1..Len(line)
          BY <4>2, <3>4, <1>5, <3>1
        <5>2. line[i - 1] \in A[n]
          BY <5>1, <3>3
        <5>3. line[i] = Super(domain, line[i - 1])
          BY <5>1, <1>5
        <5>4. Super(domain, line[i - 1]) = TypeNamed(line[i - 1]).super
          BY <5>1, <1>5, TypeInImage
        <5>5. line[i] # NoType
          <6>1. line[i] \in DOMAIN domain.types
            BY <1>5
          <6> QED BY <6>1, TypeHasId
        <5> QED BY <5>2, <5>3, <5>4, <5>5, <3>2
      <4> QED BY <4>1, <4>2
    <3>5. P(n + 1)
      BY <3>4
    <3> QED BY <3>1, <3>5
  <2> HIDE DEF T
  <2>3. 0..N \subseteq T
    BY <1>1, <2>1, <2>2, UpTo
  <2>4. N \in 0..N
    BY <1>1
  <2>5. P(N)
    BY <2>3, <2>4 DEF T
  <2> QED BY <2>5, <1>5, <1>6, <1>1 DEF Range
<1> QED BY <1>4, <1>7, <1>8 DEF line

-----------------------------------------------------------------------------
(* Virtual calls.                                                          *)

(* The method of a section is in the domain, as it is written.             *)
LEMMA MethodInImage ==
  ASSUME Complete, NEW m \in Sections("method")
  PROVE  /\ m.id \in DOMAIN domain.methods
         /\ MethodAsWritten(domain.methods[m.id], m)
<1>1. PICK j \in 1..Len(image) : image[j] = m
  BY ImageFacts DEF Sections, Range, Complete, Loadable, ReadInv
<1>2. m.kind = "method" /\ position - 1 = Len(image)
  BY ImageFacts DEF Sections, Complete, Loadable, ReadInv
<1>3. m.id \in Read({"method"})
  BY <1>1, <1>2 DEF Read, Before
<1> QED BY <1>1, <1>2, <1>3 DEF Complete, Loadable, DomainInv

(* A method of the domain has a section.                                   *)
LEMMA MethodHasSection ==
  ASSUME Complete, NEW e \in DOMAIN domain.methods
  PROVE  \E c \in Sections("method") : c.id = e
<1>1. PICK j \in 1..(position - 1) : image[j].id = e /\ image[j].kind = "method"
  BY DEF Complete, Loadable, DomainInv, Read, Before
<1>2. j \in DOMAIN image
  BY ImageFacts DEF Complete, Loadable, ReadInv
<1> QED BY <1>1, <1>2 DEF Sections, Range

(* The parameters of a method are a list of names.                         *)
LEMMA MethodParameters ==
  ASSUME Complete, NEW m \in Sections("method")
  PROVE  m.parameters \in Seq(STRING)
<1>1. m \in SectionKinds /\ m.kind = "method"
  <2>1. PICK j \in 1..Len(image) : image[j] = m
    BY ImageFacts DEF Sections, Range, Complete, Loadable, ReadInv
  <2>2. image \in Seq(SectionKinds)
    BY ImageFacts DEF Complete, Loadable, ReadInv
  <2> QED BY <2>1, <2>2 DEF Sections
<1> QED BY <1>1 DEF SectionKinds

(* Two methods have the same signature just when their sections agree, if  *)
(* one has a receiver.                                                     *)
LEMMA SignaturesAgree ==
  ASSUME Complete, NEW c \in Sections("method"), NEW m \in Sections("method"),
         m.parameters # <<>>
  PROVE  SameSignature(domain, c.id, m.id) <=> Agree(c, m)
<1>1. /\ domain.methods[c.id].name = c.name
      /\ domain.methods[m.id].name = m.name
      /\ domain.methods[c.id].parameters = c.parameters
      /\ domain.methods[m.id].parameters = m.parameters
  BY MethodInImage DEF MethodAsWritten
<1> DEFINE p == c.parameters
           q == m.parameters
<1>2. p \in Seq(STRING) /\ q \in Seq(STRING) /\ q # <<>>
  BY MethodParameters
<1>3. SameSignature(domain, c.id, m.id) <=>
        c.name = m.name /\ Len(p) = Len(q) /\ \A i \in 2..Len(p) : p[i] = q[i]
  BY <1>1 DEF SameSignature
<1>4. Agree(c, m) <=> c.name = m.name /\ Len(p) = Len(q) /\ Tail(p) = Tail(q)
  BY DEF Agree
<1> HIDE DEF p, q
<1>5. ASSUME Len(p) = Len(q)
      PROVE  Tail(p) = Tail(q) <=> \A i \in 2..Len(p) : p[i] = q[i]
  <2>1. Len(p) \in Nat \ {0} /\ p # <<>>
    BY <1>2, <1>5
  <2>2. Tail(p) \in Seq(STRING) /\ Tail(q) \in Seq(STRING) /\ Len(Tail(p)) = Len(p) - 1 /\ Len(Tail(q)) = Len(p) - 1
    BY <1>2, <1>5, <2>1
  <2>3. \A i \in 1..(Len(p) - 1) : Tail(p)[i] = p[i + 1] /\ Tail(q)[i] = q[i + 1]
    BY <1>2, <1>5, <2>1
  <2>4. ASSUME Tail(p) = Tail(q), NEW i \in 2..Len(p)
        PROVE  p[i] = q[i]
    <3>1. i - 1 \in 1..(Len(p) - 1) /\ (i - 1) + 1 = i
      BY <2>1
    <3>2. Tail(p)[i - 1] = p[i] /\ Tail(q)[i - 1] = q[i]
      BY <2>3, <3>1
    <3> QED BY <2>4, <3>2
  <2>5. ASSUME \A i \in 2..Len(p) : p[i] = q[i]
        PROVE  Tail(p) = Tail(q)
    <3>1. \A i \in 1..(Len(p) - 1) : i + 1 \in 2..Len(p)
      BY <2>1
    <3>2. \A i \in 1..(Len(p) - 1) : Tail(p)[i] = Tail(q)[i]
      BY <2>3, <2>5, <3>1
    <3> QED BY <2>2, <3>2
  <2> QED BY <2>4, <2>5
<1> QED BY <1>3, <1>4, <1>5

(* The least of some numbers.                                              *)
LEMMA LeastIndex ==
  ASSUME NEW S, S \subseteq Nat, S # {}
  PROVE  Min(S) \in S /\ \A i \in S : Min(S) <= i
<1>1. PICK x \in S : \A y \in S : x <= y
  BY LeastNumber
<1> QED BY <1>1 DEF Min

(* A lineage as a list of types.                                           *)
LEMMA LineageIndices ==
  ASSUME Complete, NEW t \in DOMAIN domain.types
  PROVE  LET line == Lineage(domain, t)
         IN /\ line \in Seq(DOMAIN domain.types)
            /\ Len(line) \in Nat \ {0}
            /\ DOMAIN line = 1..Len(line)
            /\ line[1] = t
            /\ \A i \in 1..Len(line) : line[i] \in DOMAIN domain.types
            /\ \A i \in 1..(Len(line) - 1) : line[i + 1] = Super(domain, line[i])
            /\ Super(domain, line[Len(line)]) = NoType
<1> DEFINE line == Lineage(domain, t)
<1>1. Chain(line, t) /\ Super(domain, Last(line)) = NoType
  BY LineageFacts DEF Complete
<1> HIDE DEF line
<1>2. line \in Seq(DOMAIN domain.types) /\ line # <<>> /\ line[1] = t
  BY <1>1 DEF Chain
<1>3. \A i \in 1..(Len(line) - 1) : line[i + 1] = Super(domain, line[i])
  BY <1>1 DEF Chain
<1>4. Super(domain, line[Len(line)]) = NoType
  BY <1>1 DEF Last
<1>5. /\ Len(line) \in Nat \ {0} /\ DOMAIN line = 1..Len(line)
      /\ \A i \in 1..Len(line) : line[i] \in DOMAIN domain.types
  BY <1>2
<1> QED BY <1>2, <1>3, <1>4, <1>5 DEF line

(* From any type of a lineage on it is the lineage of that type.           *)
LEMMA AncestorsAbove ==
  ASSUME Complete, NEW t \in DOMAIN domain.types,
         NEW k \in DOMAIN Lineage(domain, t), NEW l \in DOMAIN Lineage(domain, t), k <= l
  PROVE  Lineage(domain, t)[l] \in Ancestors(Lineage(domain, t)[k])
<1> DEFINE line == Lineage(domain, t)
           u == line[k]
           over == Lineage(domain, u)
<1>1. /\ Len(line) \in Nat \ {0}
      /\ DOMAIN line = 1..Len(line)
      /\ \A i \in 1..Len(line) : line[i] \in DOMAIN domain.types
      /\ \A i \in 1..(Len(line) - 1) : line[i + 1] = Super(domain, line[i])
  BY LineageIndices
<1>2. u \in DOMAIN domain.types
  BY <1>1
<1>3. /\ Len(over) \in Nat \ {0}
      /\ DOMAIN over = 1..Len(over)
      /\ over[1] = u
      /\ \A i \in 1..(Len(over) - 1) : over[i + 1] = Super(domain, over[i])
      /\ Super(domain, over[Len(over)]) = NoType
  BY <1>2, LineageIndices
<1>4. Ancestors(u) = Range(over)
  BY <1>2, AncestorsAreLineage
<1>5. k \in 1..Len(line) /\ l \in 1..Len(line)
  BY <1>1
<1> DEFINE N == Len(line) - k
           T == {n \in 0..N : line[k + n] \in Range(over)}
<1> HIDE DEF line, over
<1>6. N \in Nat /\ l - k \in 0..N /\ k + (l - k) = l
  BY <1>1, <1>5
<1>7. 0 \in T
  <2>1. k + 0 = k /\ 0 \in 0..N
    BY <1>5, <1>6
  <2>2. over[1] \in Range(over)
    BY <1>3 DEF Range
  <2> QED BY <2>1, <2>2, <1>3
<1>8. ASSUME NEW n \in 0..(N - 1), n \in T
      PROVE  n + 1 \in T
  <2>1. k + n \in 1..(Len(line) - 1) /\ (k + n) + 1 = k + (n + 1) /\ k + (n + 1) \in 1..Len(line)
        /\ n + 1 \in 0..N
    BY <1>1, <1>5
  <2>2. line[k + (n + 1)] = Super(domain, line[k + n])
    BY <1>1, <2>1
  <2>3. Super(domain, line[k + n]) # NoType
    BY <1>1, <2>1, <2>2, TypeHasId
  <2>4. PICK p \in 1..Len(over) : over[p] = line[k + n]
    BY <1>8, <1>3 DEF Range
  <2>5. p # Len(over)
    BY <2>3, <2>4, <1>3, Zenon
  <2>6. p \in 1..(Len(over) - 1) /\ p + 1 \in 1..Len(over)
    <3>1. Len(over) \in Int
      BY <1>3
    <3> QED BY <2>5, <3>1
  <2>7. over[p + 1] = line[k + (n + 1)]
    BY <2>2, <2>4, <2>6, <1>3
  <2>8. line[k + (n + 1)] \in Range(over)
    BY <2>6, <2>7, <1>3 DEF Range
  <2> QED BY <2>1, <2>8
<1> HIDE DEF T, N
<1>9. l - k \in T
  BY <1>6, <1>7, <1>8, UpTo
<1> QED BY <1>4, <1>6, <1>9 DEF T, line, over

(* A virtual call finds the nearest method.                                *)
LEMMA VirtualCall ==
  ASSUME Complete, NEW t \in DOMAIN domain.types, NEW m \in Sections("method"),
         m.parameters # <<>>, m.owner \in Ancestors(t)
  PROVE  \E c \in Candidates(t, m) :
           /\ LocateVirtual(domain, t, m.id) = c.id
           /\ \A other \in Candidates(t, m) : other.owner \in Ancestors(c.owner)
<1> DEFINE line == Lineage(domain, t)
           levels == {i \in DOMAIN line : Overriding(domain, line[i], m.id) # {}}
           k == Min(levels)
           near == line[k]
           rows == Overriding(domain, near, m.id)
           e == domain.types[near].methods[Min(rows)]
<1>1. /\ Len(line) \in Nat \ {0}
      /\ DOMAIN line = 1..Len(line)
      /\ \A i \in 1..Len(line) : line[i] \in DOMAIN domain.types
  BY LineageIndices
<1>2. Ancestors(t) = Range(line)
  BY AncestorsAreLineage
<1>3. LocateVirtual(domain, t, m.id) = IF levels = {} THEN NoMethod ELSE e
  BY DEF LocateVirtual
<1> HIDE DEF line
<1>4. ASSUME NEW c \in Candidates(t, m)
      PROVE  \E i \in levels : line[i] = c.owner
  <2>1. c \in Sections("method") /\ c.owner \in Range(line) /\ Agree(c, m)
    BY <1>2 DEF Candidates
  <2>2. PICK i \in 1..Len(line) : line[i] = c.owner
    BY <2>1, <1>1 DEF Range
  <2>3. c.id \in DOMAIN domain.methods /\ domain.methods[c.id].owner = c.owner
    BY <2>1, MethodInImage DEF MethodAsWritten
  <2>4. ListOf(domain.types[c.owner].methods, domain.methods, c.owner)
    BY <2>2, <1>1 DEF Complete, Loadable, DomainInv
  <2>5. PICK j \in DOMAIN domain.types[c.owner].methods : domain.types[c.owner].methods[j] = c.id
    BY <2>3, <2>4 DEF ListOf, Range
  <2>6. SameSignature(domain, c.id, m.id)
    BY <2>1, SignaturesAgree
  <2>7. j \in Overriding(domain, c.owner, m.id)
    BY <2>5, <2>6 DEF Overriding
  <2> QED BY <2>2, <2>7, <1>1
<1>5. m \in Candidates(t, m)
  BY DEF Candidates, Agree
<1>6. levels # {} /\ levels \subseteq Nat
  <2>1. levels \subseteq Nat
    BY <1>1
  <2> HIDE DEF levels
  <2>2. levels # {}
    BY <1>4, <1>5
  <2> QED BY <2>1, <2>2
<1> HIDE DEF levels
<1>7. k \in levels /\ \A i \in levels : k <= i
  BY <1>6, LeastIndex
<1>8. k \in 1..Len(line) /\ rows # {} /\ near \in DOMAIN domain.types
  BY <1>7, <1>1 DEF levels
<1> HIDE DEF k
<1>9. ListOf(domain.types[near].methods, domain.methods, near)
  BY <1>8 DEF Complete, Loadable, DomainInv
<1>10. rows \subseteq Nat /\ rows \subseteq DOMAIN domain.types[near].methods
  BY <1>9 DEF ListOf, Overriding
<1>11. Min(rows) \in rows
  BY <1>8, <1>10, LeastIndex
<1>12. /\ e \in DOMAIN domain.methods
       /\ domain.methods[e].owner = near
       /\ SameSignature(domain, e, m.id)
  <2>1. e \in Range(domain.types[near].methods)
    BY <1>10, <1>11 DEF Range
  <2>2. SameSignature(domain, e, m.id)
    BY <1>11 DEF Overriding
  <2> HIDE DEF e
  <2> QED BY <2>1, <2>2, <1>9 DEF ListOf
<1> HIDE DEF e, rows
<1>13. PICK c \in Sections("method") : c.id = e
  BY <1>12, MethodHasSection
<1>14. c.owner = near
  BY <1>12, <1>13, MethodInImage DEF MethodAsWritten
<1>15. c \in Candidates(t, m)
  <2>1. Agree(c, m)
    BY <1>12, <1>13, SignaturesAgree
  <2>2. near \in Range(line)
    BY <1>8, <1>1 DEF Range
  <2> QED BY <2>1, <2>2, <1>2, <1>14 DEF Candidates
<1>16. ASSUME NEW other \in Candidates(t, m)
       PROVE  other.owner \in Ancestors(c.owner)
  <2>1. PICK l \in levels : line[l] = other.owner
    BY <1>4
  <2>2. l \in DOMAIN line /\ k \in DOMAIN line /\ k <= l
    BY <2>1, <1>7, <1>8, <1>1 DEF levels
  <2>3. line[l] \in Ancestors(line[k])
    BY <2>2, AncestorsAbove DEF line
  <2> QED BY <2>1, <2>3, <1>14
<1> QED BY <1>3, <1>6, <1>13, <1>15, <1>16

-----------------------------------------------------------------------------
(* LdrLoadDomain, section by section.                                      *)

(* What a list is with one element more, which may lie outside of the set  *)
(* that the others are taken from.                                         *)
LEMMA AppendFacts ==
  ASSUME NEW S, NEW list \in Seq(S), NEW x, NEW R, S \subseteq R, x \in R
  PROVE  /\ Append(list, x) \in Seq(R)
         /\ Len(Append(list, x)) = Len(list) + 1
         /\ \A i \in 1..Len(list) : Append(list, x)[i] = list[i]
         /\ Append(list, x)[Len(list) + 1] = x
         /\ Range(Append(list, x)) = Range(list) \union {x}
<1>1. list \in Seq(R) /\ Len(list) \in Nat /\ DOMAIN list = 1..Len(list)
  OBVIOUS
<1> DEFINE new == Append(list, x)
<1>2. /\ new \in Seq(R)
      /\ Len(new) = Len(list) + 1
      /\ \A i \in 1..Len(list) : new[i] = list[i]
      /\ new[Len(list) + 1] = x
      /\ DOMAIN new = 1..(Len(list) + 1)
  BY <1>1
<1> HIDE DEF new
<1>3. Range(new) = Range(list) \union {x}
  <2>1. \A i \in 1..(Len(list) + 1) : i = Len(list) + 1 \/ i \in 1..Len(list)
    BY <1>1
  <2>2. 1..Len(list) \subseteq 1..(Len(list) + 1) /\ Len(list) + 1 \in 1..(Len(list) + 1)
    BY <1>1
  <2> QED BY <1>1, <1>2, <2>1, <2>2 DEF Range
<1> QED BY <1>2, <1>3 DEF new

(* The list of a type when there is one part more.                         *)
LEMMA ListGrows ==
  ASSUME NEW list, NEW parts, NEW t, NEW id, NEW part,
         ListOf(list, parts, t), id \notin DOMAIN parts
  PROVE  /\ part.owner = t => ListOf(Append(list, id), With(parts, id, part), t)
         /\ part.owner # t => ListOf(list, With(parts, id, part), t)
<1> DEFINE more == With(parts, id, part)
<1>1. /\ DOMAIN more = DOMAIN parts \union {id}
      /\ more[id] = part
      /\ \A y \in DOMAIN parts : more[y] = parts[y]
  BY DEF With
<1> HIDE DEF more
<1>2. /\ list \in Seq(DOMAIN parts)
      /\ Range(list) = {p \in DOMAIN parts : parts[p].owner = t}
      /\ Distinct(list)
  BY DEF ListOf
<1>3. ASSUME part.owner # t
      PROVE  ListOf(list, more, t)
  <2>1. list \in Seq(DOMAIN more)
    BY <1>1, <1>2
  <2>2. {p \in DOMAIN more : more[p].owner = t} = {p \in DOMAIN parts : parts[p].owner = t}
    BY <1>1, <1>3
  <2> QED BY <1>2, <2>1, <2>2 DEF ListOf
<1>4. ASSUME part.owner = t
      PROVE  ListOf(Append(list, id), more, t)
  <2> DEFINE new == Append(list, id)
  <2>1. /\ new \in Seq(DOMAIN more)
        /\ Len(new) = Len(list) + 1
        /\ \A i \in 1..Len(list) : new[i] = list[i]
        /\ new[Len(list) + 1] = id
        /\ Range(new) = Range(list) \union {id}
    <3>1. list \in Seq(DOMAIN parts) /\ DOMAIN parts \subseteq DOMAIN more /\ id \in DOMAIN more
      BY <1>1, <1>2
    <3> QED BY <3>1, AppendFacts
  <2> HIDE DEF new
  <2>2. {p \in DOMAIN more : more[p].owner = t} = {p \in DOMAIN parts : parts[p].owner = t} \union {id}
    BY <1>1, <1>4
  <2>3. Distinct(new)
    <3>1. Len(list) \in Nat /\ DOMAIN list = 1..Len(list) /\ DOMAIN new = 1..(Len(list) + 1)
      BY <1>2, <2>1
    <3>2. \A i \in 1..Len(list) : new[i] # id
      BY <1>2, <2>1
    <3>3. \A i \in 1..(Len(list) + 1) : i = Len(list) + 1 \/ i \in 1..Len(list)
      BY <3>1
    <3>4. \A i, j \in 1..Len(list) : new[i] = new[j] => i = j
      BY <1>2, <2>1, <3>1 DEF Distinct
    <3>5. \A i, j \in 1..(Len(list) + 1) : new[i] = new[j] => i = j
      BY <2>1, <3>2, <3>3, <3>4
    <3> QED BY <3>1, <3>5 DEF Distinct
  <2>4. ListOf(new, more, t)
    BY <1>2, <2>1, <2>2, <2>3 DEF ListOf
  <2> QED BY <2>4 DEF new
<1> QED BY <1>3, <1>4 DEF more

(* The section that is read next, in an image that is in order.            *)
LEMMA NextSection ==
  ASSUME ReadInv, Ordered, Loading
  PROVE  /\ position \in 1..Len(image)
         /\ Section \in SectionKinds
         /\ Section.id \notin loaded
         /\ Section.id # NoType
         /\ \A kinds : "header" \notin kinds => Read(kinds) \subseteq loaded
         /\ NoType \notin loaded
         /\ RefersTo(Section, Read({"type"}), Read({"method"}),
                     Read({"type", "field", "method"}), Read({"attribute"}))
<1>1. /\ image \in Seq(SectionKinds)
      /\ Len(image) \in Nat
      /\ DOMAIN image = 1..Len(image)
      /\ \A i \in 1..Len(image) : image[i].id # NoType
      /\ \A i, j \in 1..Len(image) : image[i].id = image[j].id => i = j
  BY ImageFacts DEF ReadInv
<1>2. position \in 1..Len(image)
  BY <1>1 DEF ReadInv, Loading
<1>3. loaded = {image[j].id : j \in Kept(position)}
  BY DEF ReadInv
<1>4. \A j \in 1..(position - 1) : j \in 1..Len(image) /\ j # position
  BY <1>1, <1>2
<1>5. RefersTo(Section, Read({"type"}), Read({"method"}),
               Read({"type", "field", "method"}), Read({"attribute"}))
  BY <1>1, <1>2 DEF Ordered, Section, Read
<1>6. \A kinds : "header" \notin kinds => Read(kinds) \subseteq loaded
  BY <1>3 DEF Read, Before, Kept
<1>7. \A id \in loaded : \E j \in 1..(position - 1) : image[j].id = id
  BY <1>3 DEF Kept
<1> QED BY <1>1, <1>2, <1>4, <1>5, <1>6, <1>7 DEF Section

(* A reference to a section that has been read is what it says, and so is  *)
(* one to none.                                                            *)
LEMMA ReferKnown ==
  ASSUME ReadInv, Ordered, Loading, NEW kinds, "header" \notin kinds, NEW id
  PROVE  id \in Read(kinds) \union {NoType} => Refer(id) = id
BY NextSection DEF Refer

(* What has been read when one section more has been.                      *)
LEMMA ReadGrows ==
  ASSUME ReadInv, Loading, Loaded
  PROVE  /\ ReadInv'
         /\ \A kinds : Read(kinds)' = IF Section.kind \in kinds
                                      THEN Read(kinds) \union {Section.id} ELSE Read(kinds)
         /\ image' = image
         /\ position' - 1 = position
<1>1. /\ Len(image) \in Nat
      /\ position \in 1..Len(image)
      /\ image' = image
      /\ position' = position + 1
      /\ loaded' = loaded \union (IF Section.kind = "header" THEN {} ELSE {Section.id})
      /\ phase' = phase /\ phase = "loading"
  BY ImageFacts DEF ReadInv, Loading, Loaded
<1>2. \A j : j \in 1..(position' - 1) <=> j \in 1..(position - 1) \/ j = position
  BY <1>1
<1>3. loaded' = {image'[j].id : j \in Kept(position)'}
  <2>1. \A j : j \in Kept(position)' <=>
               j \in Kept(position) \/ (j = position /\ Section.kind # "header")
    BY <1>1, <1>2 DEF Kept, Section
  <2>2. loaded = {image[j].id : j \in Kept(position)}
    BY DEF ReadInv
  <2> QED BY <1>1, <2>1, <2>2 DEF Section
<1>4. ReadInv'
  <2>1. position' \in 1..(Len(image) + 1)
    BY <1>1
  <2> QED BY <1>1, <1>3, <2>1 DEF ReadInv, Ready
<1>5. ASSUME NEW kinds
      PROVE  Read(kinds)' = IF Section.kind \in kinds
                            THEN Read(kinds) \union {Section.id} ELSE Read(kinds)
  <2>1. Read(kinds)' = {image[j].id : j \in {k \in 1..(position' - 1) : image[k].kind \in kinds}}
    BY <1>1 DEF Read, Before
  <2>2. Read(kinds) = {image[j].id : j \in {k \in 1..(position - 1) : image[k].kind \in kinds}}
    BY DEF Read, Before
  <2>3. CASE Section.kind \in kinds
    <3>1. {k \in 1..(position' - 1) : image[k].kind \in kinds} =
            {k \in 1..(position - 1) : image[k].kind \in kinds} \union {position}
      BY <1>2, <2>3 DEF Section
    <3> QED BY <2>1, <2>2, <2>3, <3>1 DEF Section
  <2>4. CASE Section.kind \notin kinds
    <3>1. {k \in 1..(position' - 1) : image[k].kind \in kinds} =
            {k \in 1..(position - 1) : image[k].kind \in kinds}
      BY <1>2, <2>4 DEF Section
    <3> QED BY <2>1, <2>2, <2>4, <3>1
  <2> QED BY <2>3, <2>4
<1> QED BY <1>1, <1>4, <1>5

SameMethod(a, b) ==
  /\ {"owner", "name", "parameters"} \subseteq DOMAIN b
  /\ a.owner = b.owner
  /\ a.name = b.name
  /\ a.parameters = b.parameters

(* Each method has an owner, a name and parameters.                        *)
LEMMA MethodFields ==
  ASSUME DomainInv, NEW m \in DOMAIN domain.methods
  PROVE  {"owner", "name", "parameters"} \subseteq DOMAIN domain.methods[m]
<1>1. PICK j \in 1..(position - 1) : image[j].id = m /\ image[j].kind = "method"
  BY DEF DomainInv, Read, Before
<1> QED BY <1>1 DEF DomainInv, MethodAsWritten

(* A list depends on the owners of the parts only.                         *)
LEMMA ListStays ==
  ASSUME NEW list, NEW parts, NEW others, NEW t, ListOf(list, parts, t),
         DOMAIN others = DOMAIN parts,
         \A p \in DOMAIN parts : others[p].owner = parts[p].owner
  PROVE  ListOf(list, others, t)
<1>1. {p \in DOMAIN others : others[p].owner = t} = {p \in DOMAIN parts : parts[p].owner = t}
  OBVIOUS
<1> QED BY <1>1 DEF ListOf

(* A section that is not of a type, a field or a method.                   *)
LEMMA PartsStay ==
  ASSUME ReadInv, DomainInv, Loading, Loaded,
         Section.kind \notin {"type", "field", "method"},
         DOMAIN domain' = DOMAIN domain,
         domain'.types = domain.types,
         domain'.fields = domain.fields,
         DOMAIN domain'.methods = DOMAIN domain.methods,
         \A m \in DOMAIN domain.methods : SameMethod(domain.methods[m], domain'.methods[m]),
         order' = order
  PROVE  DomainInv'
<1>1. /\ \A kinds : Read(kinds)' = IF Section.kind \in kinds
                                   THEN Read(kinds) \union {Section.id} ELSE Read(kinds)
      /\ image' = image
      /\ position' - 1 = position
  BY ReadGrows
<1>2. /\ Read({"type"})' = Read({"type"})
      /\ Read({"field"})' = Read({"field"})
      /\ Read({"method"})' = Read({"method"})
  BY <1>1
<1>3. /\ {"types", "fields", "methods"} \subseteq DOMAIN domain'
      /\ DOMAIN domain'.types = Read({"type"})'
      /\ DOMAIN domain'.fields = Read({"field"})'
      /\ DOMAIN domain'.methods = Read({"method"})'
  BY <1>2 DEF DomainInv
<1>4. ASSUME NEW j \in 1..(position' - 1)
      PROVE  /\ image[j].kind = "type" => TypeAsWritten(domain'.types[image[j].id], image[j])
             /\ image[j].kind = "field" => FieldAsWritten(domain'.fields[image[j].id], image[j])
             /\ image[j].kind = "method" => MethodAsWritten(domain'.methods[image[j].id], image[j])
  <2>1. position \in Int
    BY ImageFacts DEF ReadInv
  <2>2. CASE j = position
    BY <2>2 DEF Section
  <2>3. CASE j # position
    <3>1. j \in 1..(position - 1)
      BY <1>1, <2>1, <2>3
    <3>2. image[j].kind = "method" => image[j].id \in DOMAIN domain.methods
      BY <3>1 DEF DomainInv, Read, Before
    <3>3. image[j].kind = "method" => MethodAsWritten(domain.methods[image[j].id], image[j])
      BY <3>1 DEF DomainInv
    <3>4. image[j].kind = "method" => MethodAsWritten(domain'.methods[image[j].id], image[j])
      BY <3>2, <3>3 DEF SameMethod, MethodAsWritten
    <3>5. /\ image[j].kind = "type" => TypeAsWritten(domain.types[image[j].id], image[j])
          /\ image[j].kind = "field" => FieldAsWritten(domain.fields[image[j].id], image[j])
      BY <3>1 DEF DomainInv
    <3> QED BY <3>4, <3>5
  <2> QED BY <2>2, <2>3
<1>5. ASSUME NEW t \in DOMAIN domain.types
      PROVE  /\ ListOf(domain'.types[t].fields, domain'.fields, t)
             /\ ListOf(domain'.types[t].methods, domain'.methods, t)
  <2>1. /\ ListOf(domain.types[t].fields, domain.fields, t)
        /\ ListOf(domain.types[t].methods, domain.methods, t)
    BY DEF DomainInv
  <2>2. \A m \in DOMAIN domain.methods : domain'.methods[m].owner = domain.methods[m].owner
    BY DEF SameMethod
  <2> QED BY <2>1, <2>2, ListStays
<1>6. order' \in Seq(DOMAIN domain'.types) /\ Range(order') = DOMAIN domain'.types
  BY DEF DomainInv
<1> QED BY <1>1, <1>3, <1>4, <1>5, <1>6 DEF DomainInv

(* Headers, strings, attributes and arguments add nothing to the domain.   *)
LEMMA TablesLoaded ==
  ASSUME ReadInv, DomainInv, LoadTable \/ LoadAttribute \/ LoadArgument, position' # position
  PROVE  DomainInv'
<1>1. /\ Loading /\ Loaded
      /\ Section.kind \notin {"type", "field", "method"}
      /\ domain' = domain /\ order' = order
  BY DEF LoadTable, LoadAttribute, LoadArgument, Halt, Astray, End, reading
<1>2. \A m \in DOMAIN domain.methods : SameMethod(domain.methods[m], domain'.methods[m])
  BY <1>1, MethodFields DEF SameMethod
<1> QED BY <1>1, <1>2, PartsStay

(* Code and handlers change neither the owner nor the signature of a       *)
(* method.                                                                 *)
LEMMA ExecutableLoaded ==
  ASSUME ReadInv, DomainInv, LoadExecutable \/ LoadHandler, position' # position
  PROVE  DomainInv'
<1>1. /\ Loading /\ Loaded
      /\ Section.kind \notin {"type", "field", "method"}
      /\ order' = order
  BY DEF LoadExecutable, LoadHandler, Halt, Astray, End, reading
<1>2. /\ DOMAIN domain' = DOMAIN domain
      /\ domain'.types = domain.types
      /\ domain'.fields = domain.fields
      /\ DOMAIN domain'.methods = DOMAIN domain.methods
      /\ \A m \in DOMAIN domain.methods : SameMethod(domain.methods[m], domain'.methods[m])
  <2>0. "methods" \in DOMAIN domain
    BY DEF DomainInv
  <2>1. CASE LoadExecutable
    <3>1. domain' = [domain EXCEPT
               !.methods[Section.owner].variables = ReferAll(Section.variables),
               !.methods[Section.owner].code = Section.code]
      BY <2>1 DEF LoadExecutable, Astray, End, reading
    <3> DEFINE new == [domain.methods EXCEPT
               ![Section.owner].variables = ReferAll(Section.variables),
               ![Section.owner].code = Section.code]
    <3>2. /\ DOMAIN domain' = DOMAIN domain
          /\ domain'.types = domain.types
          /\ domain'.fields = domain.fields
          /\ domain'.methods = new
      BY <3>1, <2>0
    <3>3. DOMAIN new = DOMAIN domain.methods
      OBVIOUS
    <3>4. ASSUME NEW m \in DOMAIN domain.methods
          PROVE  SameMethod(domain.methods[m], new[m])
      <4>1. {"owner", "name", "parameters"} \subseteq DOMAIN domain.methods[m]
        BY MethodFields
      <4>2. new[m] = IF m = Section.owner
                     THEN [domain.methods[m] EXCEPT !.variables = ReferAll(Section.variables),
                                                    !.code = Section.code]
                     ELSE domain.methods[m]
        OBVIOUS
      <4> QED BY <4>1, <4>2 DEF SameMethod
    <3> QED BY <3>2, <3>3, <3>4
  <2>2. CASE LoadHandler
    <3> DEFINE row == [kind |-> Section.row,
                catch |-> IF Section.row = "finally" THEN NoType ELSE Refer(Section.catch)]
    <3> HIDE DEF row
    <3>1. domain' = [domain EXCEPT !.methods[Section.owner].handlers = Append(@, row)]
      BY <2>2 DEF LoadHandler, Astray, End, reading, row
    <3> DEFINE new == [domain.methods EXCEPT ![Section.owner].handlers = Append(@, row)]
    <3>2. /\ DOMAIN domain' = DOMAIN domain
          /\ domain'.types = domain.types
          /\ domain'.fields = domain.fields
          /\ domain'.methods = new
      BY <3>1, <2>0
    <3>3. DOMAIN new = DOMAIN domain.methods
      OBVIOUS
    <3>4. ASSUME NEW m \in DOMAIN domain.methods
          PROVE  SameMethod(domain.methods[m], new[m])
      <4>1. {"owner", "name", "parameters"} \subseteq DOMAIN domain.methods[m]
        BY MethodFields
      <4>2. new[m] = IF m = Section.owner
                     THEN [domain.methods[m] EXCEPT !.handlers = Append(@, row)]
                     ELSE domain.methods[m]
        OBVIOUS
      <4> QED BY <4>1, <4>2 DEF SameMethod
    <3> QED BY <3>2, <3>3, <3>4
  <2> QED BY <2>1, <2>2
<1> QED BY <1>1, <1>2, PartsStay

(* A type that is read is as written, and has no fields and methods yet.   *)
LEMMA TypeLoaded ==
  ASSUME ReadInv, DomainInv, Ordered, LoadType
  PROVE  DomainInv'
<1> DEFINE id == Section.id
           entry == [super |-> Refer(Section.super), is |-> Section.is,
                     fields |-> <<>>, methods |-> <<>>]
           types == With(domain.types, id, entry)
<1>1. /\ Loading /\ Loaded /\ Section.kind = "type"
      /\ order' = Append(order, id)
      /\ domain' = [domain EXCEPT !.types = types]
  BY DEF LoadType
<1>2. /\ position \in 1..Len(image)
      /\ id \notin loaded
      /\ Read({"type"}) \subseteq loaded
      /\ NoType \notin loaded
      /\ Section.super \in Read({"type"}) \union {NoType}
  BY <1>1, NextSection DEF RefersTo
<1>3. Refer(Section.super) = Section.super
  BY <1>1, <1>2, ReferKnown
<1>4. /\ \A kinds : Read(kinds)' = IF Section.kind \in kinds
                                   THEN Read(kinds) \union {Section.id} ELSE Read(kinds)
      /\ image' = image
      /\ position' - 1 = position
  BY <1>1, ReadGrows
<1>5. /\ Read({"type"})' = Read({"type"}) \union {id}
      /\ Read({"field"})' = Read({"field"})
      /\ Read({"method"})' = Read({"method"})
  BY <1>1, <1>4
<1>6. /\ DOMAIN types = DOMAIN domain.types \union {id}
      /\ types[id] = entry
      /\ \A t \in DOMAIN domain.types : t # id => types[t] = domain.types[t]
  <2> HIDE DEF entry, id
  <2> QED BY DEF With
<1>7. entry.super = Section.super /\ entry.is = Section.is /\ entry.fields = <<>> /\ entry.methods = <<>>
      /\ {"super", "is", "fields", "methods"} \subseteq DOMAIN entry
  BY <1>3
<1> HIDE DEF types, entry
<1>8. /\ DOMAIN domain' = DOMAIN domain
      /\ domain'.types = types /\ domain'.fields = domain.fields /\ domain'.methods = domain.methods
  BY <1>1 DEF DomainInv
<1>9. /\ DOMAIN domain.types = Read({"type"}) /\ DOMAIN domain.fields = Read({"field"})
      /\ DOMAIN domain.methods = Read({"method"})
      /\ {"types", "fields", "methods"} \subseteq DOMAIN domain
      /\ order \in Seq(DOMAIN domain.types) /\ Range(order) = DOMAIN domain.types
  BY DEF DomainInv
<1>10. id \notin DOMAIN domain.types
  BY <1>2, <1>9
<1>11. ASSUME NEW j \in 1..(position' - 1)
       PROVE  /\ image[j].kind = "type" => TypeAsWritten(types[image[j].id], image[j])
              /\ image[j].kind = "field" => FieldAsWritten(domain.fields[image[j].id], image[j])
              /\ image[j].kind = "method" => MethodAsWritten(domain.methods[image[j].id], image[j])
  <2>1. CASE j = position
    BY <2>1, <1>1, <1>6, <1>7 DEF Section, TypeAsWritten
  <2>2. CASE j # position
    <3>1. j \in 1..(position - 1)
      BY <1>2, <1>4, <2>2
    <3>2. /\ image[j].kind = "type" => TypeAsWritten(domain.types[image[j].id], image[j])
          /\ image[j].kind = "field" => FieldAsWritten(domain.fields[image[j].id], image[j])
          /\ image[j].kind = "method" => MethodAsWritten(domain.methods[image[j].id], image[j])
      BY <3>1 DEF DomainInv
    <3>3. image[j].kind = "type" => image[j].id \in DOMAIN domain.types
      BY <3>1, <1>9 DEF Read, Before
    <3>4. image[j].kind = "type" => types[image[j].id] = domain.types[image[j].id]
      BY <3>3, <1>6, <1>10
    <3> QED BY <3>2, <3>4
  <2> QED BY <2>1, <2>2
<1>12. ASSUME NEW t \in DOMAIN types
       PROVE  /\ ListOf(types[t].fields, domain.fields, t)
              /\ ListOf(types[t].methods, domain.methods, t)
  <2>1. CASE t \in DOMAIN domain.types
    <3>1. types[t] = domain.types[t]
      BY <2>1, <1>6, <1>10
    <3> QED BY <2>1, <3>1 DEF DomainInv
  <2>2. CASE t = id
    <3>1. ASSUME NEW f \in DOMAIN domain.fields
          PROVE  domain.fields[f].owner # id
      <4>1. PICK j \in 1..(position - 1) : image[j].id = f /\ image[j].kind = "field"
        BY <1>9 DEF Read, Before
      <4>2. domain.fields[f].owner = image[j].owner
        BY <4>1 DEF DomainInv, FieldAsWritten
      <4>3. j \in DOMAIN image /\ \A k \in 1..(j - 1) : k \in 1..(position - 1)
        BY <1>2, ImageFacts DEF ReadInv
      <4>4. image[j].owner \in Before(j, {"type"})
        BY <4>1, <4>3 DEF Ordered, RefersTo
      <4>5. image[j].owner \in Read({"type"})
        BY <4>3, <4>4 DEF Read, Before
      <4> QED BY <4>2, <4>5, <1>9, <1>10
    <3>2. ASSUME NEW m \in DOMAIN domain.methods
          PROVE  domain.methods[m].owner # id
      <4>1. PICK j \in 1..(position - 1) : image[j].id = m /\ image[j].kind = "method"
        BY <1>9 DEF Read, Before
      <4>2. domain.methods[m].owner = image[j].owner
        BY <4>1 DEF DomainInv, MethodAsWritten
      <4>3. j \in DOMAIN image /\ \A k \in 1..(j - 1) : k \in 1..(position - 1)
        BY <1>2, ImageFacts DEF ReadInv
      <4>4. image[j].owner \in Before(j, {"type"})
        BY <4>1, <4>3 DEF Ordered, RefersTo
      <4>5. image[j].owner \in Read({"type"})
        BY <4>3, <4>4 DEF Read, Before
      <4> QED BY <4>2, <4>5, <1>9, <1>10
    <3>3. types[t].fields = <<>> /\ types[t].methods = <<>>
      BY <2>2, <1>6, <1>7
    <3>4. <<>> \in Seq(DOMAIN domain.fields) /\ <<>> \in Seq(DOMAIN domain.methods)
          /\ Range(<<>>) = {} /\ Distinct(<<>>)
      BY DEF Range, Distinct
    <3> QED BY <2>2, <3>1, <3>2, <3>3, <3>4 DEF ListOf
  <2> QED BY <2>1, <2>2, <1>6
<1>13. order' \in Seq(DOMAIN types) /\ Range(order') = DOMAIN types
  <2>1. DOMAIN domain.types \subseteq DOMAIN types /\ id \in DOMAIN types
    BY <1>6
  <2>2. order' \in Seq(DOMAIN types) /\ Range(order') = Range(order) \union {id}
    BY <1>1, <1>9, <2>1, AppendFacts
  <2> QED BY <2>2, <1>6, <1>9
<1> HIDE DEF id
<1>14. /\ {"types", "fields", "methods"} \subseteq DOMAIN domain'
       /\ DOMAIN domain'.types = Read({"type"})'
       /\ DOMAIN domain'.fields = Read({"field"})'
       /\ DOMAIN domain'.methods = Read({"method"})'
  BY <1>5, <1>6, <1>8, <1>9
<1> QED BY <1>4, <1>8, <1>11, <1>12, <1>13, <1>14 DEF DomainInv

(* A part of a type: the types change in the list of its owner only.       *)
TypesBut(types, owner, list, id) ==
  /\ DOMAIN types = DOMAIN domain.types
  /\ \A t \in DOMAIN types :
       /\ {"super", "is", "fields", "methods"} \subseteq DOMAIN types[t]
       /\ types[t].super = domain.types[t].super
       /\ types[t].is = domain.types[t].is
       /\ \A l \in {"fields", "methods"} :
            types[t][l] = IF l = list /\ t = owner THEN Append(domain.types[t][l], id)
                          ELSE domain.types[t][l]

(* Each type has a super type, flags and lists of its fields and methods.  *)
LEMMA TypeFields ==
  ASSUME DomainInv, NEW t \in DOMAIN domain.types
  PROVE  {"super", "is", "fields", "methods"} \subseteq DOMAIN domain.types[t]
<1>1. PICK j \in 1..(position - 1) : image[j].id = t /\ image[j].kind = "type"
  BY DEF DomainInv, Read, Before
<1> QED BY <1>1 DEF DomainInv, TypeAsWritten

(* A field that is read is as written, and enters the list of its owner.   *)
LEMMA FieldLoaded ==
  ASSUME ReadInv, DomainInv, Ordered, LoadField, position' # position
  PROVE  DomainInv'
<1> DEFINE id == Section.id
           owner == Section.owner
           entry == [owner |-> Section.owner, declared |-> Refer(Section.declared),
                     is |-> Section.is, static |-> "static" \in Section.is]
           types == [domain.types EXCEPT ![owner].fields = Append(@, id)]
           fields == With(domain.fields, id, entry)
<1>1. /\ Loading /\ Loaded /\ Section.kind = "field"
      /\ order' = order
      /\ domain' = [domain EXCEPT !.types[owner].fields = Append(@, id), !.fields = fields]
  BY DEF LoadField, Astray, End, reading
<1>2. /\ position \in 1..Len(image)
      /\ id \notin loaded
      /\ Read({"field"}) \subseteq loaded
      /\ {Section.owner, Section.declared} \subseteq Read({"type"})
  BY <1>1, NextSection DEF RefersTo
<1>3. Refer(Section.declared) = Section.declared
  BY <1>1, <1>2, ReferKnown
<1>4. /\ \A kinds : Read(kinds)' = IF Section.kind \in kinds
                                   THEN Read(kinds) \union {Section.id} ELSE Read(kinds)
      /\ image' = image
      /\ position' - 1 = position
  BY <1>1, ReadGrows
<1>5. /\ Read({"type"})' = Read({"type"})
      /\ Read({"field"})' = Read({"field"}) \union {id}
      /\ Read({"method"})' = Read({"method"})
  BY <1>1, <1>4
<1>6. /\ DOMAIN fields = DOMAIN domain.fields \union {id}
      /\ fields[id] = entry
      /\ \A f \in DOMAIN domain.fields : f # id => fields[f] = domain.fields[f]
  <2> HIDE DEF entry, id
  <2> QED BY DEF With
<1>7. entry.owner = Section.owner /\ entry.declared = Section.declared /\ entry.is = Section.is
  BY <1>3
<1>8. /\ DOMAIN domain' = DOMAIN domain
      /\ domain'.types = types /\ domain'.fields = fields /\ domain'.methods = domain.methods
  <2>1. {"types", "fields", "methods"} \subseteq DOMAIN domain
    BY DEF DomainInv
  <2> HIDE DEF fields
  <2> QED BY <1>1, <2>1
<1>9. /\ DOMAIN domain.types = Read({"type"}) /\ DOMAIN domain.fields = Read({"field"})
      /\ DOMAIN domain.methods = Read({"method"})
      /\ {"types", "fields", "methods"} \subseteq DOMAIN domain
      /\ order \in Seq(DOMAIN domain.types) /\ Range(order) = DOMAIN domain.types
  BY DEF DomainInv
<1>10. id \notin DOMAIN domain.fields
  BY <1>2, <1>9
<1>11. TypesBut(types, owner, "fields", id)
  <2>1. DOMAIN types = DOMAIN domain.types
    OBVIOUS
  <2>2. ASSUME NEW t \in DOMAIN domain.types
        PROVE  types[t] = IF t = owner THEN [domain.types[t] EXCEPT !.fields = Append(@, id)]
                          ELSE domain.types[t]
    OBVIOUS
  <2> HIDE DEF types
  <2>3. ASSUME NEW t \in DOMAIN domain.types
        PROVE  /\ {"super", "is", "fields", "methods"} \subseteq DOMAIN types[t]
               /\ types[t].super = domain.types[t].super
               /\ types[t].is = domain.types[t].is
               /\ types[t].methods = domain.types[t].methods
               /\ types[t].fields = IF t = owner THEN Append(domain.types[t].fields, id)
                                    ELSE domain.types[t].fields
    BY <2>2, TypeFields
  <2> QED BY <2>1, <2>3 DEF TypesBut
<1> HIDE DEF types, entry, fields
<1>12. ASSUME NEW j \in 1..(position' - 1)
       PROVE  /\ image[j].kind = "type" => TypeAsWritten(types[image[j].id], image[j])
              /\ image[j].kind = "field" => FieldAsWritten(fields[image[j].id], image[j])
              /\ image[j].kind = "method" => MethodAsWritten(domain.methods[image[j].id], image[j])
  <2>1. CASE j = position
    BY <2>1, <1>1, <1>6, <1>7 DEF Section, FieldAsWritten
  <2>2. CASE j # position
    <3>1. j \in 1..(position - 1)
      BY <1>2, <1>4, <2>2
    <3>2. /\ image[j].kind = "type" => TypeAsWritten(domain.types[image[j].id], image[j])
          /\ image[j].kind = "field" => FieldAsWritten(domain.fields[image[j].id], image[j])
          /\ image[j].kind = "method" => MethodAsWritten(domain.methods[image[j].id], image[j])
      BY <3>1 DEF DomainInv
    <3>3. /\ image[j].kind = "type" => image[j].id \in DOMAIN domain.types
          /\ image[j].kind = "field" => image[j].id \in DOMAIN domain.fields
      BY <3>1, <1>9 DEF Read, Before
    <3>4. image[j].kind = "field" => fields[image[j].id] = domain.fields[image[j].id]
      BY <3>3, <1>6, <1>10
    <3>5. image[j].kind = "type" => TypeAsWritten(types[image[j].id], image[j])
      BY <3>2, <3>3, <1>11 DEF TypesBut, TypeAsWritten
    <3> QED BY <3>2, <3>4, <3>5
  <2> QED BY <2>1, <2>2
<1>13. ASSUME NEW t \in DOMAIN domain.types
       PROVE  /\ ListOf(types[t].fields, fields, t)
              /\ ListOf(types[t].methods, domain.methods, t)
  <2>1. /\ ListOf(domain.types[t].fields, domain.fields, t)
        /\ ListOf(domain.types[t].methods, domain.methods, t)
    BY DEF DomainInv
  <2>2. /\ types[t].methods = domain.types[t].methods
        /\ types[t].fields = IF t = owner THEN Append(domain.types[t].fields, id)
                             ELSE domain.types[t].fields
    BY <1>11 DEF TypesBut
  <2>3. /\ entry.owner = t => ListOf(Append(domain.types[t].fields, id), fields, t)
        /\ entry.owner # t => ListOf(domain.types[t].fields, fields, t)
    BY <2>1, <1>10, ListGrows DEF fields
  <2> QED BY <2>1, <2>2, <2>3, <1>7
<1>14. DOMAIN types = DOMAIN domain.types
  BY <1>11 DEF TypesBut
<1> HIDE DEF id, owner
<1>15. /\ {"types", "fields", "methods"} \subseteq DOMAIN domain'
       /\ DOMAIN domain'.types = Read({"type"})'
       /\ DOMAIN domain'.fields = Read({"field"})'
       /\ DOMAIN domain'.methods = Read({"method"})'
  BY <1>5, <1>6, <1>8, <1>9, <1>14
<1>16. order' \in Seq(DOMAIN types) /\ Range(order') = DOMAIN types
  BY <1>1, <1>9, <1>14
<1> QED BY <1>4, <1>8, <1>12, <1>13, <1>14, <1>15, <1>16 DEF DomainInv

(* A method that is read is as written, and enters the list of its owner.  *)
LEMMA MethodLoaded ==
  ASSUME ReadInv, DomainInv, Ordered, LoadMethod, position' # position
  PROVE  DomainInv'
<1> DEFINE id == Section.id
           owner == Section.owner
           entry == [owner |-> Section.owner, name |-> Section.name, is |-> Section.is,
                     parameters |-> ReferAll(Section.parameters), variables |-> <<>>,
                     returns |-> Section.returns # "System.Void", handlers |-> <<>>,
                     code |-> <<>>]
           types == [domain.types EXCEPT ![owner].methods = Append(@, id)]
           methods == With(domain.methods, id, entry)
<1>1. /\ Loading /\ Loaded /\ Section.kind = "method"
      /\ order' = order
      /\ domain' = [domain EXCEPT !.types[owner].methods = Append(@, id), !.methods = methods]
  BY DEF LoadMethod, Astray, End, reading
<1>2. /\ position \in 1..Len(image)
      /\ id \notin loaded
      /\ Read({"method"}) \subseteq loaded
      /\ {Section.owner} \union Range(Section.parameters) \subseteq Read({"type"})
  BY <1>1, NextSection DEF RefersTo
<1>3. ReferAll(Section.parameters) = Section.parameters
  <2>1. Section.parameters \in Seq(STRING)
    BY <1>1, NextSection DEF SectionKinds
  <2>2. \A i \in DOMAIN Section.parameters : Section.parameters[i] \in Read({"type"})
    BY <1>2 DEF Range
  <2>3. \A i \in DOMAIN Section.parameters : Refer(Section.parameters[i]) = Section.parameters[i]
    BY <1>1, <2>2, ReferKnown
  <2> QED BY <2>1, <2>3 DEF ReferAll
<1>4. /\ \A kinds : Read(kinds)' = IF Section.kind \in kinds
                                   THEN Read(kinds) \union {Section.id} ELSE Read(kinds)
      /\ image' = image
      /\ position' - 1 = position
  BY <1>1, ReadGrows
<1>5. /\ Read({"type"})' = Read({"type"})
      /\ Read({"field"})' = Read({"field"})
      /\ Read({"method"})' = Read({"method"}) \union {id}
  BY <1>1, <1>4
<1>6. /\ DOMAIN methods = DOMAIN domain.methods \union {id}
      /\ methods[id] = entry
      /\ \A m \in DOMAIN domain.methods : m # id => methods[m] = domain.methods[m]
  <2> HIDE DEF entry, id
  <2> QED BY DEF With
<1>7. /\ {"owner", "name", "parameters"} \subseteq DOMAIN entry
      /\ entry.owner = Section.owner /\ entry.name = Section.name
      /\ entry.parameters = Section.parameters
  BY <1>3
<1>8. /\ DOMAIN domain' = DOMAIN domain
      /\ domain'.types = types /\ domain'.fields = domain.fields /\ domain'.methods = methods
  <2>1. {"types", "fields", "methods"} \subseteq DOMAIN domain
    BY DEF DomainInv
  <2> HIDE DEF methods
  <2> QED BY <1>1, <2>1
<1>9. /\ DOMAIN domain.types = Read({"type"}) /\ DOMAIN domain.fields = Read({"field"})
      /\ DOMAIN domain.methods = Read({"method"})
      /\ {"types", "fields", "methods"} \subseteq DOMAIN domain
      /\ order \in Seq(DOMAIN domain.types) /\ Range(order) = DOMAIN domain.types
  BY DEF DomainInv
<1>10. id \notin DOMAIN domain.methods
  BY <1>2, <1>9
<1>11. TypesBut(types, owner, "methods", id)
  <2>1. DOMAIN types = DOMAIN domain.types
    OBVIOUS
  <2>2. ASSUME NEW t \in DOMAIN domain.types
        PROVE  types[t] = IF t = owner THEN [domain.types[t] EXCEPT !.methods = Append(@, id)]
                          ELSE domain.types[t]
    OBVIOUS
  <2> HIDE DEF types
  <2>3. ASSUME NEW t \in DOMAIN domain.types
        PROVE  /\ {"super", "is", "fields", "methods"} \subseteq DOMAIN types[t]
               /\ types[t].super = domain.types[t].super
               /\ types[t].is = domain.types[t].is
               /\ types[t].fields = domain.types[t].fields
               /\ types[t].methods = IF t = owner THEN Append(domain.types[t].methods, id)
                                     ELSE domain.types[t].methods
    BY <2>2, TypeFields
  <2> QED BY <2>1, <2>3 DEF TypesBut
<1> HIDE DEF types, entry, methods
<1>12. ASSUME NEW j \in 1..(position' - 1)
       PROVE  /\ image[j].kind = "type" => TypeAsWritten(types[image[j].id], image[j])
              /\ image[j].kind = "field" => FieldAsWritten(domain.fields[image[j].id], image[j])
              /\ image[j].kind = "method" => MethodAsWritten(methods[image[j].id], image[j])
  <2>1. CASE j = position
    BY <2>1, <1>1, <1>6, <1>7 DEF Section, MethodAsWritten
  <2>2. CASE j # position
    <3>1. j \in 1..(position - 1)
      BY <1>2, <1>4, <2>2
    <3>2. /\ image[j].kind = "type" => TypeAsWritten(domain.types[image[j].id], image[j])
          /\ image[j].kind = "field" => FieldAsWritten(domain.fields[image[j].id], image[j])
          /\ image[j].kind = "method" => MethodAsWritten(domain.methods[image[j].id], image[j])
      BY <3>1 DEF DomainInv
    <3>3. /\ image[j].kind = "type" => image[j].id \in DOMAIN domain.types
          /\ image[j].kind = "method" => image[j].id \in DOMAIN domain.methods
      BY <3>1, <1>9 DEF Read, Before
    <3>4. image[j].kind = "method" => methods[image[j].id] = domain.methods[image[j].id]
      BY <3>3, <1>6, <1>10
    <3>5. image[j].kind = "type" => TypeAsWritten(types[image[j].id], image[j])
      BY <3>2, <3>3, <1>11 DEF TypesBut, TypeAsWritten
    <3> QED BY <3>2, <3>4, <3>5
  <2> QED BY <2>1, <2>2
<1>13. ASSUME NEW t \in DOMAIN domain.types
       PROVE  /\ ListOf(types[t].fields, domain.fields, t)
              /\ ListOf(types[t].methods, methods, t)
  <2>1. /\ ListOf(domain.types[t].fields, domain.fields, t)
        /\ ListOf(domain.types[t].methods, domain.methods, t)
    BY DEF DomainInv
  <2>2. /\ types[t].fields = domain.types[t].fields
        /\ types[t].methods = IF t = owner THEN Append(domain.types[t].methods, id)
                              ELSE domain.types[t].methods
    BY <1>11 DEF TypesBut
  <2>3. /\ entry.owner = t => ListOf(Append(domain.types[t].methods, id), methods, t)
        /\ entry.owner # t => ListOf(domain.types[t].methods, methods, t)
    BY <2>1, <1>10, ListGrows DEF methods
  <2> QED BY <2>1, <2>2, <2>3, <1>7
<1>14. DOMAIN types = DOMAIN domain.types
  BY <1>11 DEF TypesBut
<1> HIDE DEF id, owner
<1>15. /\ {"types", "fields", "methods"} \subseteq DOMAIN domain'
       /\ DOMAIN domain'.types = Read({"type"})'
       /\ DOMAIN domain'.fields = Read({"field"})'
       /\ DOMAIN domain'.methods = Read({"method"})'
  BY <1>5, <1>6, <1>8, <1>9, <1>14
<1>16. order' \in Seq(DOMAIN types) /\ Range(order') = DOMAIN types
  BY <1>1, <1>9, <1>14
<1> QED BY <1>4, <1>8, <1>12, <1>13, <1>14, <1>15, <1>16 DEF DomainInv

-----------------------------------------------------------------------------
(* The domain is as written after each step.                               *)

LoadInv == ReadInv /\ (Ordered => DomainInv)

(* The image does not change, nor does its order.                          *)
LEMMA OrderedStays ==
  ASSUME image' = image
  PROVE  Ordered' <=> Ordered
BY DEF Ordered, Before

(* What leaves the table and the domain alone.                             *)
Rest == UNCHANGED <<image, position, loaded, order, domain>>

(* A step that leaves the table and the domain alone keeps the invariant.  *)
LEMMA RestStays ==
  ASSUME LoadInv, Rest, Ready' => Ready \/ position > Len(image)
  PROVE  LoadInv'
<1>1. /\ image' = image /\ position' = position /\ loaded' = loaded
      /\ order' = order /\ domain' = domain
  BY DEF Rest
<1>2. ReadInv'
  <2>1. Ready' => position = Len(image) + 1
    BY ImageFacts DEF LoadInv, ReadInv
  <2> QED BY <1>1, <2>1 DEF LoadInv, ReadInv, Kept
<1>3. ASSUME DomainInv
      PROVE  DomainInv'
  <2>1. \A kinds : Read(kinds)' = Read(kinds)
    BY <1>1 DEF Read, Before
  <2> QED BY <1>1, <1>3, <2>1 DEF DomainInv
<1> QED BY <1>1, <1>2, <1>3, OrderedStays DEF LoadInv

(* Actions after loading, and those that end the start-up.                 *)
LEMMA RestOfNext ==
  ASSUME Next, position' = position
  PROVE  Rest /\ (Ready' => Ready \/ position > Len(image))
<1>1. ASSUME NEW how, End(how), how \in {"halted", "astray"} \/ Ready
      PROVE  Rest /\ (Ready' => Ready \/ position > Len(image))
  BY <1>1 DEF End, Rest, Ready, reading
<1>2. ASSUME NEW m, NEW id, NEW raises, Execute(m, id, raises)
      PROVE  Rest /\ phase' = phase
  BY <1>2 DEF Execute, Rest, reading
<1>3. CASE \/ LoadTable \/ LoadUnknown \/ LoadType \/ LoadField \/ LoadMethod
           \/ LoadExecutable \/ LoadHandler \/ LoadAttribute \/ LoadArgument
  <2>1. ASSUME Loaded PROVE FALSE
    BY <2>1 DEF Loaded
  <2>2. Halt \/ Astray
    BY <1>3, <2>1 DEF LoadTable, LoadUnknown, LoadType, LoadField, LoadMethod,
         LoadExecutable, LoadHandler, LoadAttribute, LoadArgument
  <2> QED BY <1>1, <2>2 DEF Halt, Astray
<1>4. CASE LayOut
  BY <1>4, <1>1 DEF LayOut, Halt, Astray, Rest, Ready, reading
<1>5. CASE RunStaticConstructor
  <2>1. phase = "statics"
    BY <1>5 DEF RunStaticConstructor
  <2>2. Astray \/ \E m, id, raises : Execute(m, id, raises)
    BY <1>5 DEF RunStaticConstructor
  <2> QED BY <1>1, <1>2, <2>1, <2>2 DEF Astray, Ready
<1>6. CASE StaticsAreDone
  BY <1>6 DEF StaticsAreDone, Rest, Ready, reading
<1>7. CASE RunAttributeConstructor
  <2>1. phase = "attributes"
    BY <1>7 DEF RunAttributeConstructor
  <2>2. Halt \/ Astray \/ \E m, id, raises : Execute(m, id, raises)
    BY <1>7 DEF RunAttributeConstructor
  <2> QED BY <1>1, <1>2, <2>1, <2>2 DEF Halt, Astray, Ready
<1>8. CASE Link
  BY <1>8, <1>1 DEF Link, Astray, Rest, Ready, reading
<1>9. CASE RunInitializer
  BY <1>9, <1>1 DEF RunInitializer, Halt, Ready
<1>10. CASE Collect
  BY <1>10, <1>1 DEF Collect, Astray, Rest, Ready, reading
<1> QED BY <1>3, <1>4, <1>5, <1>6, <1>7, <1>8, <1>9, <1>10 DEF Next

(* A step of LdrLoadDomain keeps it too.                                   *)
LEMMA SectionLoaded ==
  ASSUME LoadInv, Next, position' # position
  PROVE  LoadInv'
<1>1. position' = position => FALSE
  OBVIOUS
<1>2. \/ LoadTable \/ LoadType \/ LoadField \/ LoadMethod
      \/ LoadExecutable \/ LoadHandler \/ LoadAttribute \/ LoadArgument
  BY DEF Next, LoadUnknown, LayOut, RunStaticConstructor, StaticsAreDone, Execute,
         RunAttributeConstructor, Link, RunInitializer, Collect, Halt, Astray, End, reading
<1>3. Loading /\ Loaded
  BY <1>2 DEF LoadTable, LoadType, LoadField, LoadMethod, LoadExecutable, LoadHandler,
              LoadAttribute, LoadArgument, Halt, Astray, End, reading
<1>4. ReadInv' /\ image' = image
  BY <1>3, ReadGrows DEF LoadInv
<1>5. ASSUME Ordered PROVE DomainInv'
  BY <1>2, <1>5, TablesLoaded, ExecutableLoaded, TypeLoaded, FieldLoaded, MethodLoaded DEF LoadInv
<1> QED BY <1>4, <1>5, OrderedStays DEF LoadInv

(* It holds before the first section,                                      *)
LEMMA LoadStart ==
  ASSUME Init
  PROVE  LoadInv
<1>1. /\ image \in Images /\ position = 1 /\ loaded = {} /\ order = <<>>
      /\ domain = [types |-> <<>>, fields |-> <<>>, methods |-> <<>>]
      /\ ~Ready
  BY DEF Init, Ready
<1>2. /\ DOMAIN domain = {"types", "fields", "methods"}
      /\ domain.types = <<>> /\ domain.fields = <<>> /\ domain.methods = <<>>
  BY <1>1
<1>3. Len(image) \in Nat /\ 1..(position - 1) = {}
  BY <1>1, ImageFacts
<1>4. ReadInv
  BY <1>1, <1>3 DEF ReadInv, Kept
<1>5. \A kinds : Read(kinds) = {}
  BY <1>3 DEF Read, Before
<1>6. DOMAIN <<>> = {} /\ <<>> \in Seq({}) /\ Range(<<>>) = {}
  BY DEF Range
<1>7. DomainInv
  BY <1>1, <1>2, <1>3, <1>5, <1>6 DEF DomainInv
<1> QED BY <1>4, <1>7 DEF LoadInv

(* and after each step.                                                    *)
LEMMA LoadStep ==
  ASSUME LoadInv, [Next]_vars
  PROVE  LoadInv'
<1>1. CASE Next /\ position' = position
  BY <1>1, RestOfNext, RestStays
<1>2. CASE Next /\ position' # position
  BY <1>2, SectionLoaded
<1>3. CASE UNCHANGED vars
  <2>1. Rest /\ (Ready' => Ready)
    BY <1>3 DEF vars, reading, Rest, Ready
  <2> QED BY <2>1, RestStays
<1> QED BY <1>1, <1>2, <1>3

(* LdrLoadDomain: however far an image that is in order has been read, the *)
(* domain has the types, fields and methods of the sections that have been *)
(* read, as they are written, and each type lists its own.                 *)
THEOREM DomainIsAsWritten == Spec => []LoadInv
BY LoadStart, LoadStep, PTL DEF Spec

(* ExVirtualCall: on an image that is in order, a virtual call reaches the *)
(* method of the type that is nearest to the object's, in whatever order   *)
(* types, methods and overloads are in the image.                          *)
THEOREM CallsFindOverrides == Spec => []OverridesAreFound
<1>1. ASSUME LoadInv
      PROVE  OverridesAreFound
  <2> SUFFICES ASSUME Ready, Ordered, NEW t \in LoadedTypes, NEW m \in Sections("method"),
                      m.parameters # <<>> /\ m.owner \in Ancestors(t)
               PROVE  \E c \in Candidates(t, m) :
                        /\ LocateVirtual(domain, t, m.id) = c.id
                        /\ \A other \in Candidates(t, m) : other.owner \in Ancestors(c.owner)
    BY DEF OverridesAreFound
  <2>1. Complete
    BY <1>1 DEF LoadInv, Complete, Loadable
  <2> QED BY <2>1, VirtualCall DEF LoadedTypes
<1> QED BY <1>1, DomainIsAsWritten, PTL

-----------------------------------------------------------------------------
(* The fields of a type, one behind the other.                             *)

(* Alignment never moves a field down.                                     *)
LEMMA AlignedUp ==
  ASSUME NEW at \in Nat, NEW n \in Nat \ {0}
  PROVE  Aligned(at, n) \in Nat /\ at <= Aligned(at, n)
<1>1. at + n - 1 \in Nat
  OBVIOUS
<1>2. (at + n - 1) \div n \in Nat /\ at <= ((at + n - 1) \div n) * n
  BY <1>1, DivBounds
<1> DEFINE q == (at + n - 1) \div n
<1> HIDE DEF q
<1>3. q \in Nat /\ at <= q * n /\ q * n \in Nat
  BY <1>2 DEF q
<1> QED BY <1>3 DEF Aligned, q

(* The fields of the domain.                                               *)
LEMMA FieldFacts ==
  ASSUME Complete, NEW t \in DOMAIN domain.types,
         NEW i \in 1..Len(domain.types[t].fields)
  PROVE  /\ domain.types[t].fields[i] \in DOMAIN domain.fields
         /\ domain.fields[domain.types[t].fields[i]].owner = t
<1>1. ListOf(domain.types[t].fields, domain.fields, t)
  BY DEF Complete, Loadable, DomainInv
<1>2. domain.types[t].fields[i] \in Range(domain.types[t].fields)
  BY <1>1 DEF ListOf, Range
<1> QED BY <1>1, <1>2 DEF ListOf

(* What is known of the sizes that a type asks for.                        *)
Answers(t, size) ==
  /\ Asks(t) \subseteq DOMAIN size
  /\ \A u \in DOMAIN size : size[u] \in Nat

FieldsOf(t) == domain.types[t].fields

(* With the sizes that its type asks for, a field has a size, and does not *)
(* lie below where it was to begin.                                        *)
LEMMA FieldSizeKnown ==
  ASSUME Complete, NEW t \in DOMAIN domain.types, NEW size, Answers(t, size),
         NEW i \in 1..Len(FieldsOf(t))
  PROVE  /\ FieldSize(FieldsOf(t)[i], size) \in Nat
         /\ \A at \in Nat : /\ OffsetOf(FieldsOf(t)[i], at, size) \in Nat
                            /\ at <= OffsetOf(FieldsOf(t)[i], at, size)
                            /\ Behind(FieldsOf(t)[i], at, size) \in Nat
                            /\ at <= Behind(FieldsOf(t)[i], at, size)
<1> DEFINE f == FieldsOf(t)[i]
<1>1. f \in Range(domain.types[t].fields)
  <2>1. FieldsOf(t) \in Seq(DOMAIN domain.fields)
    BY DEF Complete, Loadable, DomainInv, ListOf, FieldsOf
  <2> QED BY <2>1 DEF FieldsOf, Range
<1> HIDE DEF f
<1>2. FieldSize(f, size) \in Nat
  <2>1. CASE domain.fields[f].declared \in DOMAIN Widths
    BY <2>1, SizesAssumption DEF FieldSize
  <2>2. CASE Inline(f)
    <3>1. domain.fields[f].declared \in Asks(t)
      BY <1>1, <2>2 DEF Asks
    <3> QED BY <2>2, <3>1 DEF FieldSize, Inline, Answers
  <2>3. CASE domain.fields[f].declared \notin DOMAIN Widths /\ ~Inline(f)
    BY <2>3, SizesAssumption DEF FieldSize
  <2> QED BY <2>1, <2>2, <2>3
<1>3. ASSUME NEW at \in Nat
      PROVE  /\ OffsetOf(f, at, size) \in Nat
             /\ at <= OffsetOf(f, at, size)
             /\ Behind(f, at, size) \in Nat
             /\ at <= Behind(f, at, size)
  <2>1. OffsetOf(f, at, size) \in Nat /\ at <= OffsetOf(f, at, size)
    <3> DEFINE width == FieldSize(f, size)
               known == Is(domain, domain.fields[f].declared, "sequential") \/ width = 0
    <3>1. OffsetOf(f, at, size) = IF known THEN at ELSE Aligned(at, width)
      BY DEF OffsetOf
    <3>2. width \in Nat /\ (~known => width # 0)
      BY <1>2
    <3> HIDE DEF width, known
    <3>3. CASE known
      BY <3>1, <3>3
    <3>4. CASE ~known
      <4>1. width \in Nat \ {0}
        BY <3>2, <3>4
      <4> QED BY <3>1, <3>4, <4>1, AlignedUp
    <3> QED BY <3>3, <3>4
  <2> QED BY <1>2, <2>1 DEF Behind
<1> QED BY <1>2, <1>3 DEF f

EndBy(end, t, size) ==
  end = [i \in 0..Len(FieldsOf(t)) |->
           IF i = 0 THEN Base(t, size)
           ELSE IF FieldIs(FieldsOf(t)[i], "static") THEN end[i - 1]
           ELSE Behind(FieldsOf(t)[i], end[i - 1], size)]

(* Ends, with its recursive function named.                                *)
LEMMA EndsIs ==
  ASSUME NEW t, NEW size
  PROVE  Ends(t, size) = CHOOSE end : EndBy(end, t, size)
BY DEF Ends, EndBy, FieldsOf

(* The fields of a type begin at a number.                                 *)
LEMMA BaseKnown ==
  ASSUME Complete, NEW t \in DOMAIN domain.types, NEW size, Answers(t, size)
  PROVE  Base(t, size) \in Nat
<1>1. domain.types[t].super # NoType => domain.types[t].super \in Asks(t)
  BY DEF Asks
<1> QED BY <1>1 DEF Base, Answers

(* The ends of the fields of a type, if it has the sizes that it needs.    *)
LEMMA EndsFacts ==
  ASSUME Complete, NEW t \in DOMAIN domain.types, NEW size, Answers(t, size)
  PROVE  LET end == Ends(t, size)
             fields == FieldsOf(t)
         IN /\ end \in [0..Len(fields) -> Nat]
            /\ end[0] = Base(t, size)
            /\ \A i \in 1..Len(fields) :
                 end[i] = IF FieldIs(fields[i], "static") THEN end[i - 1]
                          ELSE Behind(fields[i], end[i - 1], size)
<1> DEFINE fields == FieldsOf(t)
           N == Len(fields)
           step == [i \in 1..N |-> [at \in Nat |->
                      IF FieldIs(fields[i], "static") THEN at ELSE Behind(fields[i], at, size)]]
<1>1. N \in Nat
  BY DEF Complete, Loadable, DomainInv, ListOf, FieldsOf
<1>2. Base(t, size) \in Nat
  BY BaseKnown
<1>3. step \in [1..N -> [Nat -> Nat]]
  <2> SUFFICES ASSUME NEW i \in 1..N, NEW at \in Nat
               PROVE  (IF FieldIs(fields[i], "static") THEN at ELSE Behind(fields[i], at, size)) \in Nat
    OBVIOUS
  <2> QED BY FieldSizeKnown
<1> HIDE DEF fields, N
<1>4. PICK f : Recursive(f, N, Nat, Base(t, size), step)
  BY <1>1, <1>2, <1>3, RecursionExists
<1>5. ASSUME NEW n \in 0..N
      PROVE  f[n] = IF n = 0 THEN Base(t, size)
                    ELSE IF FieldIs(fields[n], "static") THEN f[n - 1]
                    ELSE Behind(fields[n], f[n - 1], size)
  <2>1. CASE n = 0
    BY <1>4, <2>1 DEF Recursive
  <2>2. CASE n # 0
    <3>1. n \in 1..N /\ n - 1 \in 0..N
      BY <1>1, <2>2
    <3>2. f[n] = step[n][f[n - 1]] /\ f[n - 1] \in Nat
      BY <1>4, <3>1 DEF Recursive
    <3> QED BY <2>2, <3>1, <3>2
  <2> QED BY <2>1, <2>2
<1>6. f = [n \in 0..N |-> f[n]]
  BY <1>4 DEF Recursive
<1> HIDE DEF step
<1>7. EndBy(f, t, size)
  BY <1>5, <1>6 DEF EndBy, N, fields
<1> DEFINE end == Ends(t, size)
<1>8. EndBy(end, t, size)
  BY <1>7, EndsIs
<1> HIDE DEF end
<1>9. /\ end = [n \in 0..N |-> end[n]]
      /\ \A i \in 0..N : end[i] = IF i = 0 THEN Base(t, size)
                    ELSE IF FieldIs(fields[i], "static") THEN end[i - 1]
                    ELSE Behind(fields[i], end[i - 1], size)
  BY <1>8 DEF EndBy, N, fields
<1>10. 0 \in 0..N /\ \A i \in 1..N : i \in 0..N /\ i # 0 /\ i - 1 \in 0..N
  BY <1>1
<1>11. end[0] = Base(t, size) /\ f[0] = Base(t, size)
  BY <1>5, <1>9, <1>10
<1>12. \A n \in 1..N : f[n - 1] = end[n - 1] => f[n] = end[n]
  BY <1>5, <1>9, <1>10
<1>13. f = end
  <2>1. \A n \in 0..N : f[n] = end[n]
    BY <1>1, <1>11, <1>12, RecursionUnique
  <2> QED BY <1>6, <1>9, <2>1
<1>14. end \in [0..N -> Nat]
  BY <1>4, <1>13 DEF Recursive
<1> QED BY <1>9, <1>10, <1>11, <1>14 DEF end, N, fields

-----------------------------------------------------------------------------
(* The sizes of the types, round by round.                                 *)

(* The fields of a type are a list.                                        *)
LEMMA FieldList ==
  ASSUME Complete, NEW t \in DOMAIN domain.types
  PROVE  /\ Len(FieldsOf(t)) \in Nat
         /\ DOMAIN FieldsOf(t) = 1..Len(FieldsOf(t))
         /\ \A i \in 1..Len(FieldsOf(t)) : FieldsOf(t)[i] \in Range(domain.types[t].fields)
<1>1. FieldsOf(t) \in Seq(DOMAIN domain.fields)
  BY DEF Complete, Loadable, DomainInv, ListOf, FieldsOf
<1>2. Len(FieldsOf(t)) \in Nat /\ DOMAIN FieldsOf(t) = 1..Len(FieldsOf(t))
  BY <1>1
<1> QED BY <1>2 DEF FieldsOf, Range

(* The size of a type depends on the sizes that it asks for.               *)
LEMMA SizeOfDepends ==
  ASSUME Complete, NEW t \in DOMAIN domain.types, NEW size, NEW more,
         Answers(t, size), Answers(t, more), \A u \in Asks(t) : more[u] = size[u]
  PROVE  SizeOf(t, more) = SizeOf(t, size)
<1> DEFINE fields == FieldsOf(t)
           N == Len(fields)
           f == Ends(t, size)
           g == Ends(t, more)
<1>0. N \in Nat
  BY FieldList
<1>1. Base(t, size) = Base(t, more)
  BY DEF Base, Asks
<1>2. ASSUME NEW i \in 1..N, NEW at
      PROVE  Behind(fields[i], at, size) = Behind(fields[i], at, more)
  <2>1. fields[i] \in Range(domain.types[t].fields)
    BY FieldList
  <2> HIDE DEF fields
  <2>2. Inline(fields[i]) => domain.fields[fields[i]].declared \in Asks(t)
    BY <2>1 DEF Asks
  <2>3. FieldSize(fields[i], size) = FieldSize(fields[i], more)
    BY <2>2 DEF FieldSize
  <2> QED BY <2>3 DEF Behind, OffsetOf
<1>3. /\ f[0] = Base(t, size) /\ g[0] = Base(t, more)
      /\ \A i \in 1..N :
           f[i] = IF FieldIs(fields[i], "static") THEN f[i - 1] ELSE Behind(fields[i], f[i - 1], size)
      /\ \A i \in 1..N :
           g[i] = IF FieldIs(fields[i], "static") THEN g[i - 1] ELSE Behind(fields[i], g[i - 1], more)
  BY EndsFacts
<1> HIDE DEF f, g, fields, N
<1>4. \A n \in 0..N : f[n] = g[n]
  <2>1. \A n \in 1..N : f[n - 1] = g[n - 1] => f[n] = g[n]
    BY <1>2, <1>3
  <2>2. f[0] = g[0]
    BY <1>1, <1>3
  <2> QED BY <1>0, <2>1, <2>2, RecursionUnique
<1>5. N \in 0..N
  BY <1>0
<1> QED BY <1>4, <1>5 DEF SizeOf, f, g, N, fields, FieldsOf

(* Sizes, round by round.                                                  *)
Askable(known) == {u \in LoadedTypes : Asks(u) \subseteq DOMAIN known}

Round(known) == [t \in Askable(known) |-> SizeOf(t, known)]

SizesBy(sized) ==
  sized = [n \in 0..Len(order) |-> IF n = 0 THEN <<>> ELSE Round(sized[n - 1])]

Rounds == CHOOSE sized : SizesBy(sized)

(* Sizes, with its recursive function named.                               *)
LEMMA SizesIs == Sizes = Rounds[Len(order)]
BY DEF Sizes, Rounds, SizesBy, Round, Askable

SizeMaps == UNION {[S -> Nat] : S \in SUBSET LoadedTypes}

(* A round gives sizes to types that have the sizes they ask for.          *)
LEMMA RoundSizes ==
  ASSUME Complete, NEW known \in SizeMaps
  PROVE  /\ Round(known) \in SizeMaps
         /\ \A t \in Askable(known) : Answers(t, known)
<1>1. \A u \in DOMAIN known : known[u] \in Nat
  BY DEF SizeMaps
<1>2. \A t \in Askable(known) : Answers(t, known) /\ t \in DOMAIN domain.types
  BY <1>1 DEF Answers, Askable, LoadedTypes
<1>3. ASSUME NEW t \in Askable(known)
      PROVE  SizeOf(t, known) \in Nat
  <2>1. Ends(t, known) \in [0..Len(FieldsOf(t)) -> Nat]
    BY <1>2, EndsFacts
  <2>2. Len(FieldsOf(t)) \in 0..Len(FieldsOf(t))
    <3>1. Len(FieldsOf(t)) \in Nat
      BY <1>2, FieldList
    <3> QED BY <3>1
  <2> QED BY <2>1, <2>2 DEF SizeOf, FieldsOf
<1>4. Round(known) \in [Askable(known) -> Nat]
  BY <1>3 DEF Round
<1>5. Askable(known) \in SUBSET LoadedTypes
  BY DEF Askable
<1> QED BY <1>2, <1>4, <1>5 DEF SizeMaps

(* Each round is made of the one before.                                   *)
LEMMA RoundFacts ==
  ASSUME Complete
  PROVE  /\ Len(order) \in Nat
         /\ Rounds[0] = <<>>
         /\ \A n \in 1..Len(order) : Rounds[n] = Round(Rounds[n - 1])
         /\ \A n \in 0..Len(order) : Rounds[n] \in SizeMaps
<1> DEFINE N == Len(order)
           step == [n \in 1..N |-> [known \in SizeMaps |-> Round(known)]]
<1>1. N \in Nat
  BY DEF Complete, Loadable, DomainInv
<1>2. <<>> \in SizeMaps
  <2>1. <<>> \in [{} -> Nat]
    OBVIOUS
  <2>2. {} \in SUBSET LoadedTypes
    OBVIOUS
  <2> QED BY <2>1, <2>2 DEF SizeMaps
<1>3. step \in [1..N -> [SizeMaps -> SizeMaps]]
  BY RoundSizes
<1> HIDE DEF N
<1>4. PICK f : Recursive(f, N, SizeMaps, <<>>, step)
  BY <1>1, <1>2, <1>3, RecursionExists
<1>5. ASSUME NEW n \in 0..N
      PROVE  f[n] = IF n = 0 THEN <<>> ELSE Round(f[n - 1])
  <2>1. CASE n = 0
    BY <1>4, <2>1 DEF Recursive
  <2>2. CASE n # 0
    <3>1. n \in 1..N /\ n - 1 \in 0..N
      BY <1>1, <2>2
    <3>2. f[n] = step[n][f[n - 1]] /\ f[n - 1] \in SizeMaps
      BY <1>4, <3>1 DEF Recursive
    <3> QED BY <2>2, <3>1, <3>2
  <2> QED BY <2>1, <2>2
<1>6. f = [n \in 0..N |-> f[n]]
  BY <1>4 DEF Recursive
<1> HIDE DEF step
<1>7. SizesBy(f)
  BY <1>5, <1>6 DEF SizesBy, N
<1>8. SizesBy(Rounds)
  BY <1>7 DEF Rounds
<1>9. \A n \in 0..N : Rounds[n] = IF n = 0 THEN <<>> ELSE Round(Rounds[n - 1])
  BY <1>8, Zenon DEF SizesBy, N
<1>10. 0 \in 0..N /\ \A i \in 1..N : i \in 0..N /\ i # 0 /\ i - 1 \in 0..N
  BY <1>1
<1>11. Rounds[0] = <<>> /\ f[0] = <<>>
  BY <1>5, <1>9, <1>10
<1>12. \A n \in 1..N : Rounds[n] = Round(Rounds[n - 1]) /\ f[n] = Round(f[n - 1])
  BY <1>5, <1>9, <1>10
<1>13. \A n \in 1..N : f[n - 1] = Rounds[n - 1] => f[n] = Rounds[n]
  BY <1>12
<1>14. \A n \in 0..N : f[n] = Rounds[n]
  <2>1. f[0] = Rounds[0]
    BY <1>11
  <2> QED BY <1>1, <2>1, <1>13, RecursionUnique
<1>15. \A n \in 0..N : f[n] \in SizeMaps
  BY <1>4 DEF Recursive
<1> QED BY <1>1, <1>11, <1>12, <1>14, <1>15 DEF N

(* A size that is known stays what it is.                                  *)
LEMMA RoundsGrow ==
  ASSUME Complete
  PROVE  \A n \in 0..(Len(order) - 1) :
           /\ DOMAIN Rounds[n] \subseteq DOMAIN Rounds[n + 1]
           /\ \A t \in DOMAIN Rounds[n] : Rounds[n + 1][t] = Rounds[n][t]
<1> DEFINE N == Len(order)
           Good(n) == /\ DOMAIN Rounds[n] \subseteq DOMAIN Rounds[n + 1]
                      /\ \A t \in DOMAIN Rounds[n] : Rounds[n + 1][t] = Rounds[n][t]
           T == {n \in 0..(N - 1) : Good(n)}
<1>1. /\ N \in Nat
      /\ Rounds[0] = <<>>
      /\ \A n \in 1..N : Rounds[n] = Round(Rounds[n - 1])
      /\ \A n \in 0..N : Rounds[n] \in SizeMaps
  BY RoundFacts
<1> HIDE DEF N
<1>2. CASE N = 0
  <2>1. 0..(N - 1) = {}
    BY <1>2
  <2> QED BY <2>1 DEF N
<1>3. CASE N # 0
  <2>0. N - 1 \in Nat
    BY <1>1, <1>3
  <2>1. 0 \in T
    <3>1. DOMAIN Rounds[0] = {}
      BY <1>1
    <3> QED BY <2>0, <3>1
  <2>2. ASSUME NEW n \in 0..((N - 1) - 1), n \in T
        PROVE  n + 1 \in T
    <3>1. /\ n + 1 \in 1..N /\ (n + 1) - 1 = n /\ (n + 1) + 1 \in 1..N /\ ((n + 1) + 1) - 1 = n + 1
          /\ n \in 0..N /\ n + 1 \in 0..N /\ n + 1 \in 0..(N - 1)
      BY <1>1, <2>0
    <3> DEFINE a == Rounds[n]
               b == Rounds[n + 1]
               c == Rounds[(n + 1) + 1]
    <3>2. b = Round(a) /\ c = Round(b) /\ a \in SizeMaps /\ b \in SizeMaps
      BY <1>1, <3>1
    <3>3. DOMAIN a \subseteq DOMAIN b /\ \A t \in DOMAIN a : b[t] = a[t]
      BY <2>2
    <3> HIDE DEF a, b, c
    <3>4. ASSUME NEW t \in DOMAIN b
          PROVE  t \in DOMAIN c /\ c[t] = b[t]
      <4>1. t \in Askable(a) /\ b[t] = SizeOf(t, a)
        BY <3>2 DEF Round
      <4>2. t \in Askable(b)
        BY <3>3, <4>1 DEF Askable
      <4>3. t \in DOMAIN c /\ c[t] = SizeOf(t, b)
        BY <3>2, <4>2 DEF Round
      <4>4. Answers(t, a) /\ Answers(t, b)
        BY <3>2, <4>1, <4>2, RoundSizes
      <4>5. \A u \in Asks(t) : b[u] = a[u]
        BY <3>3, <4>4 DEF Answers
      <4>6. t \in DOMAIN domain.types
        BY <4>1 DEF Askable, LoadedTypes
      <4> QED BY <4>1, <4>3, <4>4, <4>5, <4>6, SizeOfDepends
    <3>5. Good(n + 1)
      BY <3>4 DEF b, c
    <3> HIDE DEF Good
    <3> QED BY <3>1, <3>5
  <2> HIDE DEF T
  <2>3. 0..(N - 1) \subseteq T
    BY <2>0, <2>1, <2>2, UpTo
  <2> QED BY <2>3 DEF T, N
<1> QED BY <1>1, <1>2, <1>3

(* The sizes are those that the types make of them.                        *)
LEMMA SizesFacts ==
  ASSUME Complete, NEW t \in DOMAIN Sizes
  PROVE  /\ t \in DOMAIN domain.types
         /\ Answers(t, Sizes)
         /\ Sizes[t] = SizeOf(t, Sizes)
<1> DEFINE N == Len(order)
<1>1. /\ N \in Nat
      /\ Rounds[0] = <<>>
      /\ \A n \in 1..N : Rounds[n] = Round(Rounds[n - 1])
      /\ \A n \in 0..N : Rounds[n] \in SizeMaps
  BY RoundFacts
<1>2. Sizes = Rounds[N]
  BY SizesIs
<1>3. \A n \in 0..(N - 1) :
           /\ DOMAIN Rounds[n] \subseteq DOMAIN Rounds[n + 1]
           /\ \A u \in DOMAIN Rounds[n] : Rounds[n + 1][u] = Rounds[n][u]
  BY RoundsGrow
<1> HIDE DEF N
<1>4. N # 0
  BY <1>1, <1>2
<1>5. N \in 1..N /\ N - 1 \in 0..(N - 1) /\ (N - 1) + 1 = N /\ N - 1 \in 0..N /\ N \in 0..N
  BY <1>1, <1>4
<1> DEFINE a == Rounds[N - 1]
           b == Rounds[N]
<1>6. b = Round(a) /\ a \in SizeMaps /\ b \in SizeMaps
  BY <1>1, <1>5
<1>7. DOMAIN a \subseteq DOMAIN b /\ \A u \in DOMAIN a : b[u] = a[u]
  <2>1. DOMAIN Rounds[N - 1] \subseteq DOMAIN Rounds[(N - 1) + 1]
        /\ \A u \in DOMAIN Rounds[N - 1] : Rounds[(N - 1) + 1][u] = Rounds[N - 1][u]
    BY <1>3, <1>5
  <2> QED BY <2>1, <1>5
<1> HIDE DEF a, b
<1>8. t \in DOMAIN b
  BY <1>2 DEF b
<1>9. t \in Askable(a) /\ b[t] = SizeOf(t, a)
  BY <1>6, <1>8 DEF Round
<1>10. t \in Askable(b)
  BY <1>7, <1>9 DEF Askable
<1>11. Answers(t, a) /\ Answers(t, b)
  BY <1>6, <1>9, <1>10, RoundSizes
<1>12. \A u \in Asks(t) : b[u] = a[u]
  BY <1>7, <1>11 DEF Answers
<1>13. t \in DOMAIN domain.types
  BY <1>9 DEF Askable, LoadedTypes
<1>14. SizeOf(t, b) = SizeOf(t, a)
  BY <1>11, <1>12, <1>13, SizeOfDepends
<1> QED BY <1>2, <1>9, <1>11, <1>13, <1>14 DEF b

-----------------------------------------------------------------------------
(* The layout of a domain.                                                 *)

(* The layout of a domain that is complete.                                *)
LaidOut == Complete /\ Settled /\ layout = Layout(Sizes)

(* The fields of a type lie between the size of its super type and its     *)
(* own.                                                                    *)
LEMMA TypeIsLaidOut ==
  ASSUME LaidOut, NEW t \in DOMAIN domain.types
  PROVE  LET end == Ends(t, Sizes)
             fields == FieldsOf(t)
         IN /\ Len(fields) \in Nat
            /\ end \in [0..Len(fields) -> Nat]
            /\ end[0] = Base(t, Sizes)
            /\ \A i \in 1..Len(fields) :
                 end[i] = IF FieldIs(fields[i], "static") THEN end[i - 1]
                          ELSE Behind(fields[i], end[i - 1], Sizes)
            /\ Sizes[t] = end[Len(fields)]
            /\ layout.size[t] = Sizes[t]
            /\ Sizes[t] \in Nat
            /\ Answers(t, Sizes)
<1>1. t \in DOMAIN Sizes
  BY DEF LaidOut, Settled, LoadedTypes
<1>2. Answers(t, Sizes) /\ Sizes[t] = SizeOf(t, Sizes)
  BY <1>1, SizesFacts DEF LaidOut
<1>3. Sizes[t] = Ends(t, Sizes)[Len(FieldsOf(t))]
  BY <1>2 DEF SizeOf, FieldsOf
<1>4. layout.size[t] = Sizes[t]
  BY DEF LaidOut, Layout
<1>5. Sizes[t] \in Nat
  BY <1>1, <1>2 DEF Answers
<1>6. Len(FieldsOf(t)) \in Nat
  BY FieldList DEF LaidOut
<1> QED BY <1>2, <1>3, <1>4, <1>5, <1>6, EndsFacts DEF LaidOut

(* The fields of a type follow each other.                                 *)
LEMMA EndsGrow ==
  ASSUME LaidOut, NEW t \in DOMAIN domain.types,
         NEW a \in 0..Len(FieldsOf(t)), NEW b \in 0..Len(FieldsOf(t)), a <= b
  PROVE  Ends(t, Sizes)[a] <= Ends(t, Sizes)[b]
<1> DEFINE end == Ends(t, Sizes)
           fields == FieldsOf(t)
           M == Len(fields)
           N == M - a
           T == {n \in 0..N : end[a] <= end[a + n]}
<1>1. /\ M \in Nat
      /\ end \in [0..M -> Nat]
      /\ \A i \in 1..M : end[i] = IF FieldIs(fields[i], "static") THEN end[i - 1]
                                  ELSE Behind(fields[i], end[i - 1], Sizes)
      /\ Answers(t, Sizes)
  BY TypeIsLaidOut
<1>2. \A i \in 1..M, at \in Nat : at <= Behind(fields[i], at, Sizes)
  BY <1>1, FieldSizeKnown DEF LaidOut
<1> HIDE DEF end, fields
<1>3. N \in Nat /\ a \in Nat /\ b - a \in 0..N /\ a + (b - a) = b /\ a + 0 = a
  BY <1>1 DEF fields
<1>4. a \in 0..M
  BY DEF fields
<1> HIDE DEF M
<1>5. 0 \in T
  BY <1>1, <1>3, <1>4
<1>6. ASSUME NEW n \in 0..(N - 1), n \in T
      PROVE  n + 1 \in T
  <2>1. /\ a + n \in 0..M /\ a + (n + 1) \in 1..M /\ a + (n + 1) \in 0..M
        /\ (a + (n + 1)) - 1 = a + n /\ n + 1 \in 0..N
    BY <1>1, <1>3
  <2>2. end[a + n] \in Nat /\ end[a + (n + 1)] \in Nat /\ end[a] \in Nat
    BY <1>1, <1>4, <2>1
  <2>3. end[a + n] <= end[a + (n + 1)]
    BY <1>1, <1>2, <2>1, <2>2
  <2>4. end[a] <= end[a + n]
    BY <1>6
  <2>5. end[a] <= end[a + (n + 1)]
    BY <2>2, <2>3, <2>4
  <2> QED BY <2>1, <2>5
<1> HIDE DEF T, N
<1>7. 0..N \subseteq T
  BY <1>3, <1>5, <1>6, UpTo
<1>8. end[a] <= end[a + (b - a)]
  BY <1>3, <1>7 DEF T
<1> QED BY <1>3, <1>8 DEF end

Past(f) == layout.offset[f] + layout.width[f]

(* A field of an instance lies between the end of the field before it and  *)
(* its own.                                                                *)
LEMMA FieldLies ==
  ASSUME LaidOut, NEW t \in DOMAIN domain.types, NEW f \in Instances(t)
  PROVE  LET end == Ends(t, Sizes)
             i == Index(f)
         IN /\ f \in DOMAIN domain.fields
            /\ i \in 1..Len(FieldsOf(t)) /\ FieldsOf(t)[i] = f
            /\ layout.offset[f] \in Nat
            /\ end[i - 1] <= layout.offset[f]
            /\ Past(f) = end[i]
            /\ layout.width[f] = FieldSize(f, Sizes)
<1> DEFINE end == Ends(t, Sizes)
           i == Index(f)
           fields == FieldsOf(t)
<1>1. f \in Range(fields) /\ ~FieldIs(f, "static")
  BY DEF Instances, FieldsOf
<1>2. ListOf(fields, domain.fields, t)
  BY DEF LaidOut, Complete, Loadable, DomainInv, FieldsOf
<1>3. f \in DOMAIN domain.fields /\ domain.fields[f].owner = t
  BY <1>1, <1>2 DEF ListOf
<1>4. /\ Len(fields) \in Nat
      /\ DOMAIN fields = 1..Len(fields)
      /\ end \in [0..Len(fields) -> Nat]
      /\ \A k \in 1..Len(fields) : end[k] = IF FieldIs(fields[k], "static") THEN end[k - 1]
                                  ELSE Behind(fields[k], end[k - 1], Sizes)
      /\ Answers(t, Sizes)
  BY TypeIsLaidOut, FieldList DEF LaidOut
<1>5. i \in 1..Len(fields) /\ fields[i] = f
  <2>1. \E k \in DOMAIN fields : fields[k] = f
    BY <1>1 DEF Range
  <2>2. i = CHOOSE k \in DOMAIN fields : fields[k] = f
    BY <1>3 DEF Index, FieldsOf
  <2> HIDE DEF i, fields
  <2> QED BY <2>1, <2>2, <1>4
<1>6. /\ layout.width[f] = FieldSize(f, Sizes)
      /\ layout.offset[f] = Offset(f, Sizes)
  BY <1>3 DEF LaidOut, Layout
<1>7. Offset(f, Sizes) = OffsetOf(f, end[i - 1], Sizes)
  BY <1>1, <1>3 DEF Offset
<1> HIDE DEF i, end, fields
<1>8. i - 1 \in 0..Len(fields) /\ end[i - 1] \in Nat
  <2>1. i - 1 \in 0..Len(fields)
    BY <1>4, <1>5
  <2> QED BY <2>1, <1>4
<1>9. /\ OffsetOf(fields[i], end[i - 1], Sizes) \in Nat
      /\ end[i - 1] <= OffsetOf(fields[i], end[i - 1], Sizes)
  BY <1>4, <1>5, <1>8, FieldSizeKnown DEF LaidOut, fields
<1>10. end[i] = Behind(f, end[i - 1], Sizes)
  BY <1>1, <1>4, <1>5
<1>11. Past(f) = end[i]
  BY <1>6, <1>7, <1>10 DEF Past, Behind
<1> QED BY <1>3, <1>5, <1>6, <1>7, <1>9, <1>11 DEF end, i, fields

(* Along a lineage the sizes fall.                                         *)
LEMMA SizesFall ==
  ASSUME LaidOut, NEW t \in DOMAIN domain.types,
         NEW k \in DOMAIN Lineage(domain, t), NEW l \in DOMAIN Lineage(domain, t), k <= l
  PROVE  Sizes[Lineage(domain, t)[l]] <= Sizes[Lineage(domain, t)[k]]
<1> DEFINE line == Lineage(domain, t)
           N == Len(line) - k
           T == {n \in 0..N : Sizes[line[k + n]] <= Sizes[line[k]]}
<1>1. /\ Len(line) \in Nat \ {0}
      /\ DOMAIN line = 1..Len(line)
      /\ \A i \in 1..Len(line) : line[i] \in DOMAIN domain.types
      /\ \A i \in 1..(Len(line) - 1) : line[i + 1] = Super(domain, line[i])
  BY LineageIndices DEF LaidOut
<1> HIDE DEF line
<1>2. /\ k \in 1..Len(line) /\ l \in 1..Len(line)
  BY <1>1 DEF line
<1>3. N \in Nat /\ l - k \in 0..N /\ k + (l - k) = l /\ k + 0 = k
  BY <1>1, <1>2
<1>a. Len(line) \in Nat /\ N = Len(line) - k /\ k \in Nat /\ 1 <= k
  BY <1>1, <1>2
<1> HIDE DEF N
<1>4. \A i \in 1..Len(line) : Sizes[line[i]] \in Nat
  BY <1>1, TypeIsLaidOut
<1>5. 0 \in T
  <2> DEFINE size == Sizes[line[k]]
  <2>1. size \in Nat
    BY <1>2, <1>4
  <2>2. 0 \in 0..N
    BY <1>3
  <2>3. Sizes[line[k + 0]] = size
    BY <1>3
  <2>4. size <= size
    <3> HIDE DEF size
    <3> QED BY <2>1
  <2> QED BY <2>2, <2>3, <2>4
<1>6. ASSUME NEW n \in 0..(N - 1), n \in T
      PROVE  n + 1 \in T
  <2>0. n \in Nat /\ n <= N - 1
    BY <1>a
  <2>1. /\ k + n \in 1..(Len(line) - 1) /\ k + n \in 1..Len(line) /\ (k + n) + 1 = k + (n + 1)
        /\ k + (n + 1) \in 1..Len(line) /\ n + 1 \in 0..N
    <3> HIDE DEF T
    <3> QED BY <1>a, <2>0
  <2> DEFINE u == line[k + n]
             v == line[k + (n + 1)]
  <2>2. u \in DOMAIN domain.types /\ v \in DOMAIN domain.types
    BY <1>1, <2>1
  <2>3. v = Super(domain, u)
    BY <1>1, <2>1
  <2>4. v # NoType
    BY <2>2, TypeHasId DEF LaidOut
  <2>5. Base(u, Sizes) = Sizes[v]
    BY <2>3, <2>4 DEF Base, Super
  <2>6. /\ Len(FieldsOf(u)) \in Nat
        /\ Ends(u, Sizes)[0] = Base(u, Sizes)
        /\ Sizes[u] = Ends(u, Sizes)[Len(FieldsOf(u))]
    BY <2>2, TypeIsLaidOut
  <2> HIDE DEF u, v
  <2>7. Ends(u, Sizes)[0] <= Ends(u, Sizes)[Len(FieldsOf(u))]
    <3>1. 0 \in 0..Len(FieldsOf(u)) /\ Len(FieldsOf(u)) \in 0..Len(FieldsOf(u)) /\ 0 <= Len(FieldsOf(u))
      BY <2>6
    <3> QED BY <2>2, <3>1, EndsGrow
  <2>8. Sizes[v] <= Sizes[u]
    BY <2>5, <2>6, <2>7
  <2>9. Sizes[v] \in Nat /\ Sizes[u] \in Nat /\ Sizes[line[k]] \in Nat
    BY <1>2, <1>4, <2>1 DEF u, v
  <2>10. Sizes[u] <= Sizes[line[k]]
    BY <1>6 DEF u
  <2>11. Sizes[v] <= Sizes[line[k]]
    BY <2>8, <2>9, <2>10
  <2> QED BY <2>1, <2>11 DEF v
<1> HIDE DEF T
<1>7. 0..N \subseteq T
  BY <1>3, <1>5, <1>6, UpTo
<1> QED BY <1>3, <1>7 DEF T, line

(* A field is as wide as what is copied.                                   *)
LEMMA WidthIsCopied ==
  ASSUME LaidOut, Flagged, NEW f \in DOMAIN domain.fields
  PROVE  FieldSize(f, Sizes) = Copied(domain.fields[f].declared)
<1> DEFINE t == domain.fields[f].declared
<1>1. PICK j \in 1..(position - 1) : image[j].id = f /\ image[j].kind = "field"
  BY DEF LaidOut, Complete, Loadable, DomainInv, Read, Before
<1>2. j \in DOMAIN image /\ DOMAIN image = 1..Len(image) /\ position - 1 = Len(image)
  BY ImageFacts DEF LaidOut, Complete, Loadable, ReadInv
<1>3. /\ image[j].declared = t /\ image[j].is = domain.fields[f].is
  BY <1>1 DEF LaidOut, Complete, Loadable, DomainInv, FieldAsWritten
<1>4. image[j] \in Sections("field")
  BY <1>1, <1>2 DEF Sections, Range
<1>5. t \in DOMAIN domain.types
  <2>1. t \in Before(j, {"type"})
    BY <1>1, <1>2, <1>3 DEF LaidOut, Complete, Loadable, Ordered, RefersTo
  <2>2. t \in Read({"type"})
    BY <2>1, <1>2 DEF Read, Before
  <2> QED BY <2>2 DEF LaidOut, Complete, Loadable, DomainInv
<1>6. ("struct" \in domain.fields[f].is) = ("struct" \in domain.types[t].is)
  <2>1. ("struct" \in image[j].is) = ("struct" \in TypeNamed(t).is)
    BY <1>3, <1>4 DEF Flagged
  <2>2. TypeNamed(t).is = domain.types[t].is
    BY <1>5, TypeInImage DEF LaidOut
  <2> QED BY <2>1, <2>2, <1>3
<1>7. layout.size[t] = Sizes[t]
  BY <1>5, TypeIsLaidOut
<1> HIDE DEF t
<1>8. FieldSize(f, Sizes) = IF t \in DOMAIN Widths THEN Widths[t]
                            ELSE IF "struct" \in domain.fields[f].is THEN Sizes[t] ELSE PointerSize
  BY DEF FieldSize, Inline, FieldIs, t
<1>9. Copied(t) = IF t \in DOMAIN Widths THEN Widths[t]
                  ELSE IF "struct" \in domain.types[t].is THEN layout.size[t] ELSE PointerSize
  BY DEF Copied, IsReference, Is
<1> QED BY <1>6, <1>7, <1>8, <1>9 DEF t

(* Two fields of a line of types do not meet, the one of the type that is  *)
(* further up lies below.                                                  *)
LEMMA FieldsApart ==
  ASSUME LaidOut, NEW t \in DOMAIN domain.types,
         NEW k \in DOMAIN Lineage(domain, t), NEW l \in DOMAIN Lineage(domain, t), k <= l,
         NEW f \in Instances(Lineage(domain, t)[k]), NEW g \in Instances(Lineage(domain, t)[l]),
         f # g
  PROVE  \/ Past(f) <= layout.offset[g]
         \/ Past(g) <= layout.offset[f]
<1> DEFINE line == Lineage(domain, t)
           u == line[k]
           v == line[l]
           i == Index(f)
           j == Index(g)
<1>1. /\ Len(line) \in Nat \ {0}
      /\ DOMAIN line = 1..Len(line)
      /\ \A n \in 1..Len(line) : line[n] \in DOMAIN domain.types
      /\ \A n \in 1..(Len(line) - 1) : line[n + 1] = Super(domain, line[n])
  BY LineageIndices DEF LaidOut
<1>2. u \in DOMAIN domain.types /\ v \in DOMAIN domain.types
  BY <1>1
<1>3. /\ i \in 1..Len(FieldsOf(u)) /\ FieldsOf(u)[i] = f
      /\ layout.offset[f] \in Nat
      /\ Ends(u, Sizes)[i - 1] <= layout.offset[f]
      /\ Past(f) = Ends(u, Sizes)[i]
  BY <1>2, FieldLies
<1>4. /\ j \in 1..Len(FieldsOf(v)) /\ FieldsOf(v)[j] = g
      /\ layout.offset[g] \in Nat
      /\ Ends(v, Sizes)[j - 1] <= layout.offset[g]
      /\ Past(g) = Ends(v, Sizes)[j]
  BY <1>2, FieldLies
<1>5. /\ Len(FieldsOf(u)) \in Nat /\ Len(FieldsOf(v)) \in Nat
      /\ Ends(u, Sizes) \in [0..Len(FieldsOf(u)) -> Nat]
      /\ Ends(v, Sizes) \in [0..Len(FieldsOf(v)) -> Nat]
      /\ Ends(u, Sizes)[0] = Base(u, Sizes)
      /\ Sizes[v] = Ends(v, Sizes)[Len(FieldsOf(v))]
  BY <1>2, TypeIsLaidOut
<1>6. k \in 1..Len(line) /\ l \in 1..Len(line)
  BY <1>1
<1>7. CASE k = l
  <2>1. u = v
    BY <1>7
  <2> HIDE DEF i, j, u, v, line
  <2>2. i # j
    BY <2>1, <1>3, <1>4
  <2>3. i - 1 \in 0..Len(FieldsOf(u)) /\ j - 1 \in 0..Len(FieldsOf(u))
        /\ i \in 0..Len(FieldsOf(u)) /\ j \in 0..Len(FieldsOf(u))
    BY <2>1, <1>3, <1>4, <1>5
  <2>4. /\ Ends(u, Sizes)[i - 1] \in Nat /\ Ends(u, Sizes)[j - 1] \in Nat
        /\ Ends(u, Sizes)[i] \in Nat /\ Ends(u, Sizes)[j] \in Nat
    BY <2>3, <1>5
  <2>5. CASE i < j
    <3>1. i <= j - 1
      BY <2>3, <2>5
    <3>2. Ends(u, Sizes)[i] <= Ends(u, Sizes)[j - 1]
      BY <1>2, <2>3, <3>1, EndsGrow
    <3> QED BY <2>1, <2>4, <3>2, <1>3, <1>4
  <2>6. CASE j < i
    <3>1. j <= i - 1
      BY <2>3, <2>6
    <3>2. Ends(u, Sizes)[j] <= Ends(u, Sizes)[i - 1]
      BY <1>2, <2>3, <3>1, EndsGrow
    <3> QED BY <2>1, <2>4, <3>2, <1>3, <1>4
  <2> QED BY <2>2, <2>3, <2>5, <2>6
<1>8. CASE k # l
  <2>1. k \in 1..(Len(line) - 1) /\ k + 1 \in 1..Len(line) /\ k + 1 <= l
    BY <1>1, <1>6, <1>8
  <2> DEFINE w == line[k + 1]
  <2>2. w = Super(domain, u) /\ w \in DOMAIN domain.types
    BY <2>1, <1>1
  <2>3. w # NoType
    BY <2>2, TypeHasId DEF LaidOut
  <2>4. Base(u, Sizes) = Sizes[w]
    BY <2>2, <2>3 DEF Base, Super
  <2>5. Sizes[v] <= Sizes[w]
    BY <2>1, <1>1, <1>6, SizesFall
  <2>6. Sizes[w] \in Nat /\ Sizes[v] \in Nat
    BY <2>2, <1>2, TypeIsLaidOut
  <2> HIDE DEF i, j, u, v, w, line
  <2>7. Ends(v, Sizes)[j] <= Ends(v, Sizes)[Len(FieldsOf(v))]
    <3>1. j \in 0..Len(FieldsOf(v)) /\ Len(FieldsOf(v)) \in 0..Len(FieldsOf(v)) /\ j <= Len(FieldsOf(v))
      BY <1>4, <1>5
    <3> QED BY <3>1, <1>2, EndsGrow
  <2>8. Ends(u, Sizes)[0] <= Ends(u, Sizes)[i - 1]
    <3>1. 0 \in 0..Len(FieldsOf(u)) /\ i - 1 \in 0..Len(FieldsOf(u)) /\ 0 <= i - 1
      BY <1>3, <1>5
    <3> QED BY <3>1, <1>2, EndsGrow
  <2>9. /\ Ends(v, Sizes)[j] \in Nat /\ Ends(u, Sizes)[i - 1] \in Nat
    <3>1. j \in 0..Len(FieldsOf(v)) /\ i - 1 \in 0..Len(FieldsOf(u))
      BY <1>3, <1>4, <1>5
    <3> QED BY <3>1, <1>5
  <2>10. Ends(v, Sizes)[j] <= Ends(u, Sizes)[i - 1]
    <3>1. Ends(v, Sizes)[j] <= Sizes[v]
      BY <2>7, <1>5
    <3>2. Sizes[w] <= Ends(u, Sizes)[i - 1]
      BY <2>4, <2>8, <1>5
    <3> QED BY <3>1, <3>2, <2>5, <2>6, <2>9
  <2> QED BY <2>9, <2>10, <1>3, <1>4
<1> QED BY <1>7, <1>8

LayoutInv == Ready => Settled /\ layout = Layout(Sizes)

(* Nothing changes the layout of a domain that is ready.                   *)
LEMMA LayoutStays ==
  ASSUME Ready, [Next]_vars
  PROVE  Rest /\ layout' = layout
<1>1. ASSUME NEW how, End(how)
      PROVE  Rest /\ layout' = layout
  BY <1>1 DEF End, Rest, reading
<1>2. ASSUME NEW m, NEW id, NEW raises, Execute(m, id, raises)
      PROVE  Rest /\ layout' = layout
  BY <1>2 DEF Execute, Rest, reading
<1>3. phase # "loading"
  BY DEF Ready
<1>4. CASE RunStaticConstructor
  <2>1. Astray \/ \E m, id, raises : Execute(m, id, raises)
    BY <1>4 DEF RunStaticConstructor
  <2> QED BY <1>1, <1>2, <2>1 DEF Astray
<1>5. CASE StaticsAreDone
  BY <1>5 DEF StaticsAreDone, Rest, reading
<1>6. CASE RunAttributeConstructor
  <2>1. Halt \/ Astray \/ \E m, id, raises : Execute(m, id, raises)
    BY <1>6 DEF RunAttributeConstructor
  <2> QED BY <1>1, <1>2, <2>1 DEF Halt, Astray
<1>7. CASE Link
  BY <1>7, <1>1 DEF Link, Astray, Rest, reading
<1>8. CASE RunInitializer
  BY <1>8, <1>1 DEF RunInitializer, Halt
<1>9. CASE Collect
  BY <1>9, <1>1 DEF Collect, Astray, Rest, reading
<1>10. CASE UNCHANGED vars
  BY <1>10 DEF vars, reading, Rest
<1> QED BY <1>3, <1>4, <1>5, <1>6, <1>7, <1>8, <1>9, <1>10
     DEF Next, LoadTable, LoadUnknown, LoadType, LoadField, LoadMethod, LoadExecutable,
         LoadHandler, LoadAttribute, LoadArgument, Loading, LayOut

(* Only LayOut makes a domain ready.                                       *)
LEMMA LayoutMade ==
  ASSUME ~Ready, [Next]_vars, Ready'
  PROVE  /\ LayOut /\ Rest
         /\ Settled /\ layout' = Layout(Sizes)
<1>1. ASSUME Loaded PROVE FALSE
  BY <1>1 DEF Loaded, Ready
<1>2. ASSUME Halt \/ Astray PROVE FALSE
  BY <1>2 DEF Halt, Astray, End, Ready
<1>3. /\ ~(UNCHANGED vars) /\ ~RunStaticConstructor /\ ~StaticsAreDone /\ ~RunAttributeConstructor
      /\ ~Link /\ ~RunInitializer
  BY DEF vars, Ready, RunStaticConstructor, StaticsAreDone, RunAttributeConstructor, Link,
         RunInitializer
<1>4. ~Collect
  BY <1>2 DEF Collect, Ready
<1>5. LayOut
  BY <1>1, <1>2, <1>3, <1>4
     DEF Next, LoadTable, LoadUnknown, LoadType, LoadField, LoadMethod, LoadExecutable,
         LoadHandler, LoadAttribute, LoadArgument
<1> QED BY <1>2, <1>5 DEF LayOut, Rest, reading

(* Each step keeps the layout, or makes it.                                *)
LEMMA LayoutStep ==
  ASSUME LayoutInv, [Next]_vars
  PROVE  LayoutInv'
<1>1. ASSUME Rest
      PROVE  Sizes' = Sizes /\ Settled' = Settled /\ Layout(Sizes)' = Layout(Sizes)
  <2>1. domain' = domain /\ order' = order
    BY <1>1 DEF Rest
  <2>2. Sizes' = Sizes
    BY <2>1 DEF Sizes, LoadedTypes, Asks, Inline, FieldIs, SizeOf, Ends, Base, Behind, OffsetOf,
                FieldSize, Is
  <2> QED BY <2>1, <2>2 DEF Settled, LoadedTypes, Layout, FieldSize, Offset, Inline, FieldIs,
                 OffsetOf, Ends, Base, Behind, Index, Is
<1>2. CASE Ready
  BY <1>1, <1>2, LayoutStays DEF LayoutInv
<1>3. CASE ~Ready
  BY <1>1, <1>3, LayoutMade DEF LayoutInv
<1> QED BY <1>2, <1>3

(* LdrCalculateTypeSizes: once it has run, each type has a size, and the   *)
(* sizes and offsets stay those that its computation gives.                *)
THEOREM LayoutIsComputed == Spec => []LayoutInv
<1>1. Init => LayoutInv
  BY DEF Init, LayoutInv, Ready
<1> QED BY <1>1, LayoutStep, PTL DEF Spec

(* LdrCalculateTypeSizes: no two fields of an object share a byte, all lie *)
(* within the size that OpNewObject allocates, and a field is as wide as   *)
(* what the opcodes copy, for every image in order, every pointer size and *)
(* all sizes of the named types.                                           *)
THEOREM FieldsLieApart == Spec => []LayoutsAreSound
<1>1. ASSUME LoadInv, LayoutInv
      PROVE  LayoutsAreSound
  <2> SUFFICES ASSUME Ready, Ordered, Flagged, NEW t \in LoadedTypes
               PROVE  LET line == Lineage(domain, t)
                          all == UNION {Instances(line[i]) : i \in DOMAIN line}
                      IN /\ \A f \in all : /\ layout.width[f] = Copied(domain.fields[f].declared)
                                           /\ Past(f) <= layout.size[t]
                         /\ \A f, g \in all : f # g => \/ Past(f) <= layout.offset[g]
                                                        \/ Past(g) <= layout.offset[f]
    BY DEF LayoutsAreSound, Past
  <2> DEFINE line == Lineage(domain, t)
             all == UNION {Instances(line[i]) : i \in DOMAIN line}
  <2>1. LaidOut
    BY <1>1 DEF LoadInv, LayoutInv, LaidOut, Complete, Loadable
  <2>2. /\ t \in DOMAIN domain.types
        /\ Len(line) \in Nat \ {0}
        /\ DOMAIN line = 1..Len(line)
        /\ line[1] = t
        /\ \A i \in 1..Len(line) : line[i] \in DOMAIN domain.types
    BY <2>1, LineageIndices DEF LaidOut, LoadedTypes
  <2>3. ASSUME NEW f \in all
        PROVE  /\ layout.width[f] = Copied(domain.fields[f].declared)
               /\ Past(f) <= layout.size[t]
    <3>1. PICK i \in DOMAIN line : f \in Instances(line[i])
      BY <2>3
    <3> DEFINE u == line[i]
               k == Index(f)
    <3>2. u \in DOMAIN domain.types
      BY <2>2
    <3>3. /\ f \in DOMAIN domain.fields
          /\ k \in 1..Len(FieldsOf(u))
          /\ Past(f) = Ends(u, Sizes)[k]
          /\ layout.width[f] = FieldSize(f, Sizes)
      BY <2>1, <3>1, <3>2, FieldLies
    <3>4. layout.width[f] = Copied(domain.fields[f].declared)
      BY <2>1, <3>3, WidthIsCopied
    <3>5. /\ Len(FieldsOf(u)) \in Nat
          /\ Ends(u, Sizes) \in [0..Len(FieldsOf(u)) -> Nat]
          /\ Sizes[u] = Ends(u, Sizes)[Len(FieldsOf(u))]
      BY <2>1, <3>2, TypeIsLaidOut
    <3>6. 1 \in DOMAIN line /\ 1 <= i
      BY <2>2
    <3>7. Sizes[u] <= Sizes[t]
      BY <2>1, <2>2, <3>6, SizesFall
    <3>8. layout.size[t] = Sizes[t] /\ Sizes[t] \in Nat
      BY <2>1, <2>2, TypeIsLaidOut
    <3> HIDE DEF u, k, line
    <3>9. k \in 0..Len(FieldsOf(u)) /\ Len(FieldsOf(u)) \in 0..Len(FieldsOf(u)) /\ k <= Len(FieldsOf(u))
      BY <3>3, <3>5
    <3>10. Ends(u, Sizes)[k] <= Ends(u, Sizes)[Len(FieldsOf(u))]
      BY <2>1, <3>2, <3>9, EndsGrow
    <3>11. Ends(u, Sizes)[k] \in Nat /\ Sizes[u] \in Nat
      BY <3>5, <3>9
    <3>12. Past(f) <= Sizes[t]
      BY <3>3, <3>5, <3>7, <3>8, <3>10, <3>11
    <3> QED BY <3>4, <3>8, <3>12
  <2>4. ASSUME NEW f \in all, NEW g \in all, f # g
        PROVE  Past(f) <= layout.offset[g] \/ Past(g) <= layout.offset[f]
    <3>1. PICK i \in DOMAIN line : f \in Instances(line[i])
      BY <2>4
    <3>2. PICK j \in DOMAIN line : g \in Instances(line[j])
      BY <2>4
    <3>3. i \in Nat /\ j \in Nat
      BY <2>2
    <3>4. CASE i <= j
      BY <2>1, <2>2, <2>4, <3>1, <3>2, <3>4, FieldsApart
    <3>5. CASE j <= i
      BY <2>1, <2>2, <2>4, <3>1, <3>2, <3>5, FieldsApart
    <3> QED BY <3>3, <3>4, <3>5
  <2> HIDE DEF all
  <2> QED BY <2>3, <2>4 DEF all
<1> QED BY <1>1, DomainIsAsWritten, LayoutIsComputed, PTL

-----------------------------------------------------------------------------
(* Lists of lists.                                                         *)

(* What lies in two lists, one after the other.                            *)
LEMMA ConcatFacts ==
  ASSUME NEW S, NEW s \in Seq(S), NEW t \in Seq(S)
  PROVE  /\ s \o t \in Seq(S)
         /\ Len(s \o t) = Len(s) + Len(t)
         /\ \A i \in 1..Len(s) : (s \o t)[i] = s[i]
         /\ \A i \in 1..Len(t) : (s \o t)[Len(s) + i] = t[i]
         /\ Range(s \o t) = Range(s) \union Range(t)
<1>1. /\ Len(s) \in Nat /\ DOMAIN s = 1..Len(s) /\ Len(t) \in Nat /\ DOMAIN t = 1..Len(t)
      /\ s \o t \in Seq(S) /\ Len(s \o t) = Len(s) + Len(t)
  OBVIOUS
<1>2. /\ DOMAIN (s \o t) = 1..(Len(s) + Len(t))
      /\ \A i \in 1..Len(s) : (s \o t)[i] = s[i]
      /\ \A i \in 1..Len(t) : (s \o t)[Len(s) + i] = t[i]
  OBVIOUS
<1> DEFINE u == s \o t
<1> HIDE DEF u
<1>3. Range(u) = Range(s) \union Range(t)
  <2>1. ASSUME NEW i \in 1..(Len(s) + Len(t))
        PROVE  u[i] \in Range(s) \union Range(t)
    <3>1. CASE i <= Len(s)
      BY <3>1, <1>1, <1>2 DEF u, Range
    <3>2. CASE ~(i <= Len(s))
      <4>1. i - Len(s) \in 1..Len(t) /\ Len(s) + (i - Len(s)) = i
        BY <3>2, <1>1
      <4>2. u[Len(s) + (i - Len(s))] = t[i - Len(s)]
        BY <4>1, <1>2 DEF u
      <4> QED BY <4>1, <4>2, <1>1 DEF Range
    <3> QED BY <3>1, <3>2
  <2>2. ASSUME NEW i \in 1..Len(s)
        PROVE  s[i] \in Range(u)
    <3>1. i \in 1..(Len(s) + Len(t))
      BY <1>1
    <3> QED BY <3>1, <1>2 DEF u, Range
  <2>3. ASSUME NEW i \in 1..Len(t)
        PROVE  t[i] \in Range(u)
    <3>1. Len(s) + i \in 1..(Len(s) + Len(t))
      BY <1>1
    <3> QED BY <3>1, <1>2 DEF u, Range
  <2>4. DOMAIN u = 1..(Len(s) + Len(t))
    BY <1>2 DEF u
  <2>5. Range(u) \subseteq Range(s) \union Range(t)
    BY <2>1, <2>4 DEF Range
  <2>6. Range(s) \subseteq Range(u) /\ Range(t) \subseteq Range(u)
    BY <2>2, <2>3, <1>1 DEF Range
  <2> QED BY <2>5, <2>6
<1> QED BY <1>1, <1>2, <1>3 DEF u

FlatBy(f, seqs) ==
  f = [i \in 1..Len(seqs) |-> IF i = 1 THEN seqs[i] ELSE f[i - 1] \o seqs[i]]

Flat(seqs) == CHOOSE f : FlatBy(f, seqs)

(* FlattenSeq, with its recursive function named.                          *)
LEMMA FlattenIs ==
  ASSUME NEW seqs
  PROVE  FlattenSeq(seqs) = IF Len(seqs) = 0 THEN seqs ELSE Flat(seqs)[Len(seqs)]
BY DEF FlattenSeq, Flat, FlatBy

(* What lies in a list of lists that has been flattened.                   *)
LEMMA FlattenFacts ==
  ASSUME NEW S, NEW seqs \in Seq(Seq(S))
  PROVE  /\ FlattenSeq(seqs) \in Seq(S)
         /\ Range(FlattenSeq(seqs)) = UNION {Range(seqs[i]) : i \in 1..Len(seqs)}
<1> DEFINE N == Len(seqs)
           L == Seq(S)
           step == [i \in 1..N |-> [s \in L |-> s \o seqs[i]]]
<1>1. N \in Nat /\ \A i \in 1..N : seqs[i] \in L
  OBVIOUS
<1>2. <<>> \in L
  OBVIOUS
<1>3. step \in [1..N -> [L -> L]]
  <2> SUFFICES ASSUME NEW i \in 1..N, NEW s \in L
               PROVE  s \o seqs[i] \in L
    OBVIOUS
  <2> QED BY <1>1
<1>4. PICK f : Recursive(f, N, L, <<>>, step)
  <2> HIDE DEF L, N, step
  <2> QED BY <1>1, <1>2, <1>3, RecursionExists
<1>5. ASSUME NEW n \in 1..N
      PROVE  f[n] = f[n - 1] \o seqs[n]
  <2>1. n - 1 \in 0..N
    BY <1>1
  <2> HIDE DEF L, N
  <2>2. f[n] = step[n][f[n - 1]] /\ f[n - 1] \in L
    BY <1>4, <2>1 DEF Recursive
  <2> QED BY <2>2
<1> HIDE DEF step
<1>6. f[0] = <<>> /\ \A n \in 0..N : f[n] \in L
  <2> HIDE DEF L, N
  <2> QED BY <1>4 DEF Recursive
<1> DEFINE g == [i \in 1..N |-> f[i]]
<1>7. FlatBy(g, seqs)
  <2>1. ASSUME NEW i \in 1..N
        PROVE  g[i] = IF i = 1 THEN seqs[i] ELSE g[i - 1] \o seqs[i]
    <3>1. CASE i = 1
      <4>1. f[1] = f[0] \o seqs[1] /\ 1 \in 1..N
        <5>1. 1 \in 1..N /\ 1 - 1 = 0
          BY <3>1
        <5>2. f[1] = f[1 - 1] \o seqs[1]
          BY <1>5, <5>1
        <5> QED BY <5>1, <5>2
      <4>2. seqs[1] \in L
        BY <1>1, <4>1
      <4>3. <<>> \o seqs[1] = seqs[1]
        BY <4>2
      <4> QED BY <3>1, <4>1, <4>3, <1>6
    <3>2. CASE i # 1
      <4>1. i - 1 \in 1..N
        BY <3>2, <1>1
      <4> QED BY <3>2, <4>1, <1>5
    <3> QED BY <3>1, <3>2
  <2>2. g = [i \in 1..N |-> g[i]]
    OBVIOUS
  <2> HIDE DEF g
  <2> QED BY <2>1, <2>2 DEF FlatBy
<1> HIDE DEF g
<1> DEFINE h == Flat(seqs)
<1>8. FlatBy(h, seqs)
  BY <1>7 DEF Flat
<1> HIDE DEF h
<1>9. \A i \in 1..N : h[i] = IF i = 1 THEN seqs[i] ELSE h[i - 1] \o seqs[i]
  BY <1>8, Zenon DEF FlatBy
<1> DEFINE Good(n) == /\ h[n] \in L
                      /\ Range(h[n]) = UNION {Range(seqs[i]) : i \in 1..n}
           T == {n \in 0..N : n = 0 \/ Good(n)}
<1> HIDE DEF N, L
<1>10. 0 \in T
  BY <1>1
<1>11. ASSUME NEW n \in 0..(N - 1), n \in T
       PROVE  n + 1 \in T
  <2>1. n + 1 \in 1..N /\ (n + 1) - 1 = n /\ n + 1 \in 0..N /\ n \in Nat
    BY <1>1
  <2>2. CASE n = 0
    <3>1. h[1] = seqs[1] /\ 1 \in 1..N
      BY <1>9, <2>1, <2>2
    <3>2. 1..1 = {1} /\ n + 1 = 1
      BY <2>2
    <3>3. Good(1)
      BY <1>1, <3>1, <3>2
    <3> HIDE DEF Good
    <3> QED BY <2>1, <3>2, <3>3
  <2>3. CASE n # 0
    <3>1. h[n + 1] = h[n] \o seqs[n + 1]
      <4>1. n + 1 # 1
        BY <2>1, <2>3
      <4>2. h[n + 1] = h[(n + 1) - 1] \o seqs[n + 1]
        BY <1>9, <2>1, <4>1
      <4> QED BY <2>1, <4>2
    <3>2. h[n] \in L /\ seqs[n + 1] \in L
      BY <1>1, <1>11, <2>1, <2>3
    <3>3. h[n + 1] \in L /\ Range(h[n + 1]) = Range(h[n]) \union Range(seqs[n + 1])
      BY <3>1, <3>2, ConcatFacts DEF L
    <3>4. \A i : i \in 1..(n + 1) <=> i \in 1..n \/ i = n + 1
      BY <2>1
    <3>5. Range(h[n]) = UNION {Range(seqs[i]) : i \in 1..n}
      BY <1>11, <2>3
    <3>6. UNION {Range(seqs[i]) : i \in 1..(n + 1)} =
            (UNION {Range(seqs[i]) : i \in 1..n}) \union Range(seqs[n + 1])
      BY <3>4
    <3>7. Good(n + 1)
      BY <3>3, <3>5, <3>6
    <3> HIDE DEF Good
    <3> QED BY <2>1, <3>7
  <2> QED BY <2>2, <2>3
<1> HIDE DEF T
<1>12. 0..N \subseteq T
  BY <1>1, <1>10, <1>11, UpTo
<1>13. CASE N = 0
  <2>1. seqs = <<>> /\ FlattenSeq(seqs) = seqs /\ 1..Len(seqs) = {}
    BY <1>13, FlattenIs DEF N
  <2>2. Range(<<>>) = {}
    BY DEF Range
  <2> QED BY <2>1, <2>2, <1>2 DEF L
<1>14. CASE N # 0
  <2>1. N \in 0..N
    BY <1>1
  <2>2. Good(N)
    BY <1>12, <1>14, <2>1 DEF T
  <2>3. FlattenSeq(seqs) = h[N]
    BY <1>14, FlattenIs DEF N, h
  <2> QED BY <2>2, <2>3 DEF N, L
<1> QED BY <1>13, <1>14

-----------------------------------------------------------------------------
(* The arguments of attributes.                                            *)

IsArgumentOf(i, a) == image[i].kind = "argument" /\ image[i].owner = a

OwnBy(own, a, n) ==
  own = [i \in 0..n |-> IF i = 0 THEN <<>>
                        ELSE IF IsArgumentOf(i, a) THEN Append(own[i - 1], image[i].values)
                        ELSE own[i - 1]]

Own(a, n) == CHOOSE own : OwnBy(own, a, n)

(* ArgumentsBefore, with its recursive function named.                     *)
LEMMA ArgumentsIs ==
  ASSUME NEW a, NEW n
  PROVE  ArgumentsBefore(a, n) = Own(a, n)[n]
BY DEF ArgumentsBefore, Own, OwnBy, IsArgumentOf

Values == Seq(Seq(STRING))

(* An argument has a list of values, a count and a type.                   *)
LEMMA ArgumentSection ==
  ASSUME image \in Images, NEW i \in 1..Len(image), image[i].kind = "argument"
  PROVE  /\ image[i].values \in Seq(STRING)
         /\ image[i].count \in Nat
         /\ image[i].declared \in STRING
<1>1. image[i] \in SectionKinds
  BY ImageFacts
<1> QED BY <1>1 DEF SectionKinds

(* That function takes the arguments of one attribute, section by section. *)
LEMMA OwnFacts ==
  ASSUME image \in Images, NEW a, NEW n \in 0..Len(image)
  PROVE  /\ Own(a, n)[0] = <<>>
         /\ \A i \in 1..n : Own(a, n)[i] =
              IF IsArgumentOf(i, a) THEN Append(Own(a, n)[i - 1], image[i].values)
              ELSE Own(a, n)[i - 1]
         /\ \A i \in 0..n : Own(a, n)[i] \in Values
<1> DEFINE step == [i \in 1..n |-> [s \in Values |->
                      IF IsArgumentOf(i, a) THEN Append(s, image[i].values) ELSE s]]
<1>1. n \in Nat /\ \A i \in 1..n : i \in 1..Len(image)
  BY ImageFacts
<1>2. <<>> \in Values
  BY DEF Values
<1>3. step \in [1..n -> [Values -> Values]]
  <2> SUFFICES ASSUME NEW i \in 1..n, NEW s \in Values
               PROVE  (IF IsArgumentOf(i, a) THEN Append(s, image[i].values) ELSE s) \in Values
    OBVIOUS
  <2>1. IsArgumentOf(i, a) => image[i].values \in Seq(STRING)
    BY <1>1, ArgumentSection DEF IsArgumentOf
  <2>2. IsArgumentOf(i, a) => Append(s, image[i].values) \in Values
    BY <2>1 DEF Values
  <2> QED BY <2>2
<1>4. PICK f : Recursive(f, n, Values, <<>>, step)
  <2> HIDE DEF step
  <2> QED BY <1>1, <1>2, <1>3, RecursionExists
<1>5. ASSUME NEW i \in 0..n
      PROVE  f[i] = IF i = 0 THEN <<>>
                    ELSE IF IsArgumentOf(i, a) THEN Append(f[i - 1], image[i].values)
                    ELSE f[i - 1]
  <2>1. CASE i = 0
    BY <1>4, <2>1 DEF Recursive
  <2>2. CASE i # 0
    <3>1. i \in 1..n /\ i - 1 \in 0..n
      BY <1>1, <2>2
    <3>2. f[i] = step[i][f[i - 1]] /\ f[i - 1] \in Values
      BY <1>4, <3>1 DEF Recursive
    <3> QED BY <2>2, <3>1, <3>2
  <2> QED BY <2>1, <2>2
<1>6. f = [i \in 0..n |-> f[i]] /\ \A i \in 0..n : f[i] \in Values
  BY <1>4 DEF Recursive
<1> HIDE DEF step
<1>7. OwnBy(f, a, n)
  BY <1>5, <1>6 DEF OwnBy
<1> DEFINE own == Own(a, n)
<1>8. OwnBy(own, a, n)
  BY <1>7 DEF Own
<1> HIDE DEF own
<1>9. \A i \in 0..n : own[i] = IF i = 0 THEN <<>>
                    ELSE IF IsArgumentOf(i, a) THEN Append(own[i - 1], image[i].values)
                    ELSE own[i - 1]
  BY <1>8, Zenon DEF OwnBy
<1>10. 0 \in 0..n /\ \A i \in 1..n : i \in 0..n /\ i # 0
  BY <1>1
<1>11. own[0] = <<>> /\ f[0] = <<>>
  BY <1>5, <1>9, <1>10
<1>12. \A i \in 1..n : own[i] = IF IsArgumentOf(i, a) THEN Append(own[i - 1], image[i].values)
                               ELSE own[i - 1]
  BY <1>9, <1>10
<1>13. \A i \in 1..n : f[i] = IF IsArgumentOf(i, a) THEN Append(f[i - 1], image[i].values)
                               ELSE f[i - 1]
  BY <1>5, <1>10
<1>14. \A i \in 0..n : f[i] = own[i]
  <2>1. f[0] = own[0]
    BY <1>11
  <2>2. \A i \in 1..n : f[i - 1] = own[i - 1] => f[i] = own[i]
    BY <1>12, <1>13
  <2> QED BY <1>1, <2>1, <2>2, RecursionUnique
<1> QED BY <1>6, <1>11, <1>12, <1>14 DEF own

(* The arguments of an attribute, section by section.                      *)
LEMMA ArgumentsNext ==
  ASSUME image \in Images, NEW a, NEW n \in 1..Len(image)
  PROVE  ArgumentsBefore(a, n) =
           IF IsArgumentOf(n, a) THEN Append(ArgumentsBefore(a, n - 1), image[n].values)
           ELSE ArgumentsBefore(a, n - 1)
<1>0. Len(image) \in Nat /\ n \in 0..Len(image) /\ n - 1 \in 0..Len(image) /\ n \in 1..n
      /\ n - 1 \in Nat /\ n - 1 \in 0..(n - 1)
  BY ImageFacts
<1> DEFINE f == Own(a, n)
           g == Own(a, n - 1)
<1>1. /\ f[0] = <<>>
      /\ \A i \in 1..n : f[i] = IF IsArgumentOf(i, a) THEN Append(f[i - 1], image[i].values)
                                ELSE f[i - 1]
  BY <1>0, OwnFacts
<1>2. /\ g[0] = <<>>
      /\ \A i \in 1..(n - 1) : g[i] = IF IsArgumentOf(i, a) THEN Append(g[i - 1], image[i].values)
                                      ELSE g[i - 1]
  BY <1>0, OwnFacts
<1> HIDE DEF f, g
<1>3. \A i \in 0..(n - 1) : f[i] = g[i]
  <2>1. \A i \in 1..(n - 1) : i \in 1..n
    BY <1>0
  <2>2. \A i \in 1..(n - 1) : f[i - 1] = g[i - 1] => f[i] = g[i]
    BY <1>1, <1>2, <2>1
  <2>3. f[0] = g[0]
    BY <1>1, <1>2
  <2> DEFINE M == n - 1
             T == {i \in 0..M : f[i] = g[i]}
  <2>4. M \in Nat
    BY <1>0
  <2>5. 0 \in T
    BY <2>3, <2>4
  <2>6. ASSUME NEW i \in 0..(M - 1), i \in T
        PROVE  i + 1 \in T
    <3>1. i + 1 \in 1..M /\ (i + 1) - 1 = i /\ i + 1 \in 0..M
      BY <2>4
    <3>2. f[(i + 1) - 1] = g[(i + 1) - 1]
      BY <2>6, <3>1
    <3>3. f[i + 1] = g[i + 1]
      BY <2>2, <3>1, <3>2
    <3> QED BY <3>1, <3>3
  <2> HIDE DEF M, T
  <2>7. 0..M \subseteq T
    BY <2>4, <2>5, <2>6, UpTo
  <2> QED BY <2>7 DEF M, T
<1>4. f[n - 1] = g[n - 1]
  BY <1>0, <1>3
<1>5. f[n] = IF IsArgumentOf(n, a) THEN Append(f[n - 1], image[n].values) ELSE f[n - 1]
  BY <1>0, <1>1
<1>6. ArgumentsBefore(a, n) = f[n] /\ ArgumentsBefore(a, n - 1) = g[n - 1]
  BY ArgumentsIs DEF f, g
<1> QED BY <1>4, <1>5, <1>6

(* The arguments of an attribute are lists of values.                      *)
LEMMA ArgumentsTyped ==
  ASSUME image \in Images, NEW a, NEW n \in 0..Len(image)
  PROVE  ArgumentsBefore(a, n) \in Values
<1>1. n \in 0..n
  BY ImageFacts
<1> QED BY <1>1, OwnFacts, ArgumentsIs

(* Before the first argument of an attribute there is none.                *)
LEMMA ArgumentsNone ==
  ASSUME image \in Images, NEW a, NEW n \in 0..Len(image),
         \A i \in 1..n : ~IsArgumentOf(i, a)
  PROVE  ArgumentsBefore(a, n) = <<>>
<1> DEFINE own == Own(a, n)
           T == {i \in 0..n : own[i] = <<>>}
<1>0. n \in Nat
  BY ImageFacts
<1>1. own[0] = <<>> /\ \A i \in 1..n : own[i] = own[i - 1]
  BY OwnFacts
<1> HIDE DEF own
<1>2. 0 \in T
  BY <1>0, <1>1
<1>3. ASSUME NEW i \in 0..(n - 1), i \in T
      PROVE  i + 1 \in T
  <2>1. i + 1 \in 1..n /\ (i + 1) - 1 = i /\ i + 1 \in 0..n
    BY <1>0
  <2>2. own[i + 1] = own[(i + 1) - 1]
    BY <1>1, <2>1
  <2> QED BY <1>3, <2>1, <2>2
<1> HIDE DEF T
<1>4. 0..n \subseteq T
  BY <1>0, <1>2, <1>3, UpTo
<1>5. n \in 0..n
  BY <1>0
<1>6. own[n] = <<>>
  BY <1>4, <1>5 DEF T
<1> QED BY <1>6, ArgumentsIs DEF own

(* Where a section is.                                                     *)
Spot(a) == CHOOSE j \in DOMAIN image : image[j].id = a

(* The id of a section says where it is.                                   *)
LEMMA SpotOf ==
  ASSUME image \in Images, NEW j \in 1..Len(image)
  PROVE  Spot(image[j].id) = j
BY ImageFacts DEF Spot

(* What LdrLoadArgument makes of an argument with one value.               *)
EntryKinds == [array : BOOLEAN, words : Seq(STRING)]

(* LdrLoadArgument makes one entry of an argument with one value, or of an *)
(* array, and loses nothing of it.                                         *)
LEMMA EntriesOfOne ==
  ASSUME image \in Images, Single, position \in 1..Len(image), Section.kind = "argument"
  PROVE  LET t == Section.declared
         IN /\ Entries(t) \in Seq(EntryKinds)
            /\ Len(Entries(t)) = 1
            /\ Entries(t)[1].words = Section.values
            /\ t # Int32Array => Len(Section.values) = 1
            /\ Section.values \in Seq(STRING)
            /\ t \in STRING
<1> DEFINE t == Section.declared
           values == Section.values
           count == Section.count
<1>1. values \in Seq(STRING) /\ count \in Nat /\ t \in STRING
  BY ArgumentSection DEF Section
<1>2. t # Int32Array => count = 1 /\ Len(values) = 1
  <2>1. Section \in Sections("argument")
    BY ImageFacts DEF Sections, Range, Section
  <2> QED BY <2>1 DEF Single
<1>3. Entries(t) = CASE t = String -> [i \in DOMAIN values |->
                        [array |-> FALSE, words |-> <<values[i]>>]]
    [] t = Int32Array -> << [array |-> TRUE, words |-> values] >>
    [] OTHER -> << [array |-> TRUE,
                    words |-> [i \in 1..count |->
                                 IF i = count THEN values[1] ELSE "0"]] >>
  BY DEF Entries
<1> HIDE DEF t, values, count
<1>4. String # Int32Array
  BY DEF String, Int32Array
<1>5. Len(values) = 1 => values = <<values[1]>> /\ values[1] \in STRING /\ DOMAIN values = {1}
  BY <1>1
<1>6. CASE t = String
  <2> DEFINE one == [array |-> FALSE, words |-> <<values[1]>>]
  <2>1. Len(values) = 1
    BY <1>2, <1>4, <1>6
  <2>2. Entries(t) = [i \in DOMAIN values |-> [array |-> FALSE, words |-> <<values[i]>>]]
    BY <1>3, <1>4, <1>6
  <2>3. Entries(t) = <<one>>
    <3>1. DOMAIN values = 1..1 /\ \A i \in 1..1 : i = 1
      BY <1>5, <2>1
    <3>2. [i \in DOMAIN values |-> [array |-> FALSE, words |-> <<values[i]>>]] = [i \in 1..1 |-> one]
      BY <3>1
    <3>3. [i \in 1..1 |-> one] = <<one>>
      <4> HIDE DEF one
      <4> QED OBVIOUS
    <3> QED BY <2>2, <3>2, <3>3
  <2>4. one \in EntryKinds
    BY <1>1, <1>5, <2>1 DEF EntryKinds
  <2>5. one.words = values
    BY <1>5, <2>1
  <2> HIDE DEF one
  <2> QED BY <1>1, <2>1, <2>3, <2>4, <2>5, OneElement DEF t, values
<1>7. CASE t = Int32Array
  <2> DEFINE one == [array |-> TRUE, words |-> values]
  <2>1. Entries(t) = <<one>>
    BY <1>3, <1>4, <1>7
  <2>2. one \in EntryKinds /\ one.words = values
    BY <1>1 DEF EntryKinds
  <2> HIDE DEF one
  <2> QED BY <1>1, <1>7, <2>1, <2>2, OneElement DEF t, values
<1>8. CASE t \notin {String, Int32Array}
  <2> DEFINE one == [array |-> TRUE,
                    words |-> [i \in 1..count |-> IF i = count THEN values[1] ELSE "0"]]
  <2>1. Entries(t) = <<one>>
    BY <1>3, <1>8
  <2>2. count = 1 /\ Len(values) = 1
    BY <1>2, <1>8
  <2>3. one.words = values
    <3>1. [i \in 1..1 |-> IF i = 1 THEN values[1] ELSE "0"] = [i \in 1..1 |-> values[1]]
      OBVIOUS
    <3>2. [i \in 1..1 |-> values[1]] = <<values[1]>>
      OBVIOUS
    <3> QED BY <1>5, <2>2, <3>1, <3>2
  <2>4. one \in EntryKinds
    <3>1. one = [array |-> TRUE, words |-> values]
      BY <2>3
    <3> HIDE DEF one
    <3> QED BY <3>1, <1>1 DEF EntryKinds
  <2> HIDE DEF one
  <2> QED BY <1>1, <2>1, <2>2, <2>3, <2>4, OneElement DEF t, values
<1> QED BY <1>6, <1>7, <1>8

-----------------------------------------------------------------------------
(* Attributes as the loader reads them.                                    *)

(* An attribute that has been given some of its arguments.                 *)
AsGiven(o, args) ==
  /\ {"declared", "ctor", "params", "list"} \subseteq DOMAIN o
  /\ o.params \in Seq(STRING) /\ o.list \in Seq(EntryKinds)
  /\ Len(o.params) = Len(args) /\ Len(o.list) = Len(args)
  /\ \A z \in 1..Len(args) : /\ o.list[z].words = args[z]
                             /\ o.params[z] # Int32Array => Len(args[z]) = 1

IsAttributeOf(j, e) == image[j].kind = "attribute" /\ image[j].owner = e

Attributed(e) == {image[j].id : j \in {k \in 1..(position - 1) : IsAttributeOf(k, e)}}

(* The vector of what attributes belong to: in the order of the image.     *)
Attached(list, e) ==
  /\ list \in Seq(DOMAIN objects)
  /\ Range(list) = Attributed(e)
  /\ \A i, j \in 1..Len(list) : i < j => Spot(list[i]) < Spot(list[j])

AttributeInv ==
  /\ DOMAIN objects = Read({"attribute"})
  /\ \A j \in 1..(position - 1) : image[j].kind = "attribute" =>
       /\ objects[image[j].id].declared = image[j].declared
       /\ AsGiven(objects[image[j].id], ArgumentsBefore(image[j].id, position - 1))
  /\ \A e : Attached(AttributesOf(e), e)

AttributesInv == Ordered /\ Single => AttributeInv

(* The image does not change, nor does what its arguments are.             *)
LEMMA SingleStays ==
  ASSUME image' = image
  PROVE  Single' <=> Single
BY DEF Single, Sections

(* Arguments of an attribute when one section more has been read.          *)
LEMMA ArgumentsGrow ==
  ASSUME ReadInv, Loading, Loaded, NEW a
  PROVE  ArgumentsBefore(a, position - 1)' =
           IF Section.kind = "argument" /\ Section.owner = a
           THEN Append(ArgumentsBefore(a, position - 1), Section.values)
           ELSE ArgumentsBefore(a, position - 1)
<1>1. position' - 1 = position /\ image' = image
  BY ReadGrows
<1>2. position \in 1..Len(image) /\ image \in Images
  BY ImageFacts DEF ReadInv, Loading
<1>3. ArgumentsBefore(a, position) = IF IsArgumentOf(position, a)
                                     THEN Append(ArgumentsBefore(a, position - 1), image[position].values)
                                     ELSE ArgumentsBefore(a, position - 1)
  BY <1>2, ArgumentsNext
<1>4. ArgumentsBefore(a, position - 1)' = ArgumentsBefore(a, position' - 1)
  BY <1>1 DEF ArgumentsBefore
<1> QED BY <1>1, <1>3, <1>4 DEF IsArgumentOf, Section

(* No argument of an attribute comes before it.                            *)
LEMMA NoArgumentYet ==
  ASSUME ReadInv, Ordered, Loading
  PROVE  ArgumentsBefore(Section.id, position - 1) = <<>>
<1>1. position \in 1..Len(image) /\ image \in Images /\ position - 1 \in 0..Len(image)
  BY ImageFacts DEF ReadInv, Loading
<1>2. ASSUME NEW i \in 1..(position - 1), IsArgumentOf(i, Section.id)
      PROVE  FALSE
  <2>1. i \in 1..Len(image) /\ i \in DOMAIN image
    BY <1>1, ImageFacts
  <2>2. Section.id \in Before(i, {"attribute"})
    BY <1>2, <2>1 DEF Ordered, RefersTo, IsArgumentOf
  <2>3. PICK j \in 1..(i - 1) : image[j].id = Section.id
    BY <2>2 DEF Before
  <2>4. j \in 1..Len(image) /\ j # position
    BY <1>1, <2>1, <2>3, ImageFacts
  <2> QED BY <1>1, <2>3, <2>4, ImageFacts DEF Section
<1> QED BY <1>1, <1>2, ArgumentsNone

(* A section that is neither an attribute nor an argument of one.          *)
LEMMA AttributesStay ==
  ASSUME ReadInv, AttributeInv, Loading, Loaded,
         Section.kind \notin {"attribute", "argument"},
         objects' = objects, attributes' = attributes
  PROVE  AttributeInv'
<1>1. /\ image' = image /\ position' - 1 = position
      /\ \A kinds : Read(kinds)' = IF Section.kind \in kinds
                                   THEN Read(kinds) \union {Section.id} ELSE Read(kinds)
  BY ReadGrows
<1>2. \A j : j \in 1..position <=> j \in 1..(position - 1) \/ j = position
  BY ImageFacts DEF ReadInv
<1>3. DOMAIN objects' = Read({"attribute"})'
  BY <1>1 DEF AttributeInv
<1>4. ASSUME NEW j \in 1..(position' - 1), image'[j].kind = "attribute"
      PROVE  /\ objects'[image'[j].id].declared = image'[j].declared
             /\ AsGiven(objects'[image'[j].id], ArgumentsBefore(image[j].id, position - 1)')
  <2>1. j \in 1..(position - 1) /\ image[j].kind = "attribute"
    BY <1>1, <1>2, <1>4 DEF Section
  <2>2. ArgumentsBefore(image[j].id, position - 1)' = ArgumentsBefore(image[j].id, position - 1)
    <3> DEFINE a == image[j].id
    <3>1. ArgumentsBefore(image[j].id, position - 1)' = ArgumentsBefore(a, position' - 1)
      BY <1>1 DEF ArgumentsBefore
    <3>2. ArgumentsBefore(a, position' - 1) = ArgumentsBefore(a, position)
      BY <1>1
    <3>3. ArgumentsBefore(a, position) = ArgumentsBefore(a, position - 1)
      BY ArgumentsNext, ImageFacts DEF IsArgumentOf, Section, ReadInv, Loading
    <3> QED BY <3>1, <3>2, <3>3
  <2> QED BY <1>1, <2>1, <2>2 DEF AttributeInv
<1>5. ASSUME NEW e
      PROVE  Attached(AttributesOf(e), e)'
  <2>1. AttributesOf(e)' = AttributesOf(e)
    BY DEF AttributesOf
  <2>2. Attributed(e)' = Attributed(e)
    BY <1>1, <1>2 DEF Attributed, IsAttributeOf, Section
  <2>3. \A x : Spot(x)' = Spot(x)
    BY <1>1 DEF Spot
  <2> QED BY <2>1, <2>2, <2>3 DEF Attached, AttributeInv
<1> QED BY <1>3, <1>4, <1>5 DEF AttributeInv

(* An attribute enters the vector of what it belongs to.                   *)
LEMMA AttachedGrows ==
  ASSUME ReadInv, Ordered, AttributeInv, Loading, Section.kind = "attribute", Loaded,
         attributes' = With(attributes, Section.owner,
                            Append(AttributesOf(Section.owner), Section.id)),
         DOMAIN objects' = DOMAIN objects \union {Section.id},
         NEW e
  PROVE  Attached(AttributesOf(e), e)'
<1> DEFINE id == Section.id
           list == AttributesOf(e)
<1>1. /\ image' = image /\ position' - 1 = position
      /\ position \in 1..Len(image) /\ image \in Images
  BY ReadGrows, NextSection, ImageFacts DEF ReadInv
<1>2. \A j : j \in 1..position <=> j \in 1..(position - 1) \/ j = position
  BY <1>1, ImageFacts
<1>3. \A x : Spot(x)' = Spot(x)
  BY <1>1 DEF Spot
<1>4. /\ list \in Seq(DOMAIN objects) /\ Range(list) = Attributed(e)
      /\ \A i, j \in 1..Len(list) : i < j => Spot(list[i]) < Spot(list[j])
  BY DEF AttributeInv, Attached
<1>5. CASE e # Section.owner
  <2>1. AttributesOf(e)' = list
    BY <1>5 DEF AttributesOf, With
  <2>2. Attributed(e)' = Attributed(e)
    BY <1>1, <1>2, <1>5 DEF Attributed, IsAttributeOf, Section
  <2>3. list \in Seq(DOMAIN objects')
    BY <1>4
  <2> HIDE DEF list
  <2> QED BY <1>3, <1>4, <2>1, <2>2, <2>3 DEF Attached
<1>6. CASE e = Section.owner
  <2> DEFINE new == Append(list, id)
  <2>1. AttributesOf(e)' = new
    BY <1>6 DEF AttributesOf, With
  <2>2. Attributed(e)' = Attributed(e) \union {id}
    <3>1. \A k \in 1..position : IsAttributeOf(k, e)' <=> IsAttributeOf(k, e)
      BY <1>1 DEF IsAttributeOf
    <3>2. IsAttributeOf(position, e)
      BY <1>6 DEF IsAttributeOf, Section
    <3>3. {k \in 1..(position - 1) : IsAttributeOf(k, e)}' =
             {k \in 1..(position - 1) : IsAttributeOf(k, e)} \union {position}
      BY <1>1, <1>2, <3>1, <3>2
    <3> QED BY <1>1, <3>3 DEF Attributed, Section
  <2>3. /\ new \in Seq(DOMAIN objects')
        /\ Len(new) = Len(list) + 1
        /\ \A i \in 1..Len(list) : new[i] = list[i]
        /\ new[Len(list) + 1] = id
        /\ Range(new) = Range(list) \union {id}
    <3> DEFINE R == DOMAIN objects'
               S == DOMAIN objects
    <3>1. S \subseteq R /\ id \in R
      OBVIOUS
    <3>2. list \in Seq(S)
      BY <1>4
    <3> HIDE DEF id, list, R, S
    <3>3. /\ Append(list, id) \in Seq(R)
          /\ Len(Append(list, id)) = Len(list) + 1
          /\ \A i \in 1..Len(list) : Append(list, id)[i] = list[i]
          /\ Append(list, id)[Len(list) + 1] = id
          /\ Range(Append(list, id)) = Range(list) \union {id}
      BY <3>1, <3>2, AppendFacts
    <3> QED BY <3>3 DEF R
  <2>4. Spot(id) = position
    BY <1>1, SpotOf DEF Section
  <2>5. ASSUME NEW i \in 1..Len(list)
        PROVE  Spot(list[i]) < position
    <3>1. list[i] \in Attributed(e)
      BY <1>4 DEF Range
    <3>2. PICK j \in 1..(position - 1) : image[j].id = list[i]
      BY <3>1 DEF Attributed
    <3>3. j \in 1..Len(image) /\ j < position
      BY <1>1, <3>2, ImageFacts
    <3> QED BY <1>1, <3>2, <3>3, SpotOf
  <2>6. Len(list) \in Nat
    BY <1>4
  <2> HIDE DEF new, list, id
  <2>7. ASSUME NEW i \in 1..Len(new), NEW j \in 1..Len(new), i < j
        PROVE  Spot(new[i]) < Spot(new[j])
    <3>1. i \in 1..Len(list)
      BY <2>3, <2>6, <2>7
    <3>2. CASE j \in 1..Len(list)
      BY <1>4, <2>3, <2>7, <3>1, <3>2
    <3>3. CASE j = Len(list) + 1
      BY <2>3, <2>4, <2>5, <3>1, <3>3
    <3> QED BY <2>3, <2>6, <3>2, <3>3
  <2> QED BY <1>3, <1>4, <2>1, <2>2, <2>3, <2>7 DEF Attached
<1> QED BY <1>5, <1>6

(* An attribute that is read has no arguments yet, and comes last in the   *)
(* vector of what it belongs to.                                           *)
LEMMA AttributeLoaded ==
  ASSUME ReadInv, Ordered, AttributeInv, LoadAttribute, position' # position
  PROVE  AttributeInv'
<1> DEFINE id == Section.id
           new == [declared |-> Refer(Section.declared), ctor |-> Refer(Section.ctor),
                   params |-> <<>>, list |-> <<>>]
<1>1. /\ Loading /\ Loaded /\ Section.kind = "attribute"
      /\ attributes' = With(attributes, Section.owner,
                            Append(AttributesOf(Section.owner), Section.id))
      /\ objects' = With(objects, id, new)
  BY DEF LoadAttribute, Halt, Astray, End, reading
<1>2. /\ image' = image /\ position' - 1 = position
      /\ \A kinds : Read(kinds)' = IF Section.kind \in kinds
                                   THEN Read(kinds) \union {Section.id} ELSE Read(kinds)
  BY <1>1, ReadGrows
<1>3. /\ position \in 1..Len(image) /\ image \in Images
      /\ id \notin DOMAIN objects
  BY <1>1, NextSection DEF ReadInv, AttributeInv
<1>4. /\ DOMAIN objects' = DOMAIN objects \union {id}
      /\ objects'[id] = new
      /\ \A a \in DOMAIN objects : objects'[a] = objects[a]
  BY <1>1, <1>3 DEF With
<1>5. DOMAIN objects' = Read({"attribute"})'
  BY <1>1, <1>2, <1>4 DEF AttributeInv
<1>6. ASSUME NEW e
      PROVE  Attached(AttributesOf(e), e)'
  BY <1>1, <1>4, AttachedGrows
<1>7. Section.declared = Refer(Section.declared)
  <2>1. Section.declared \in Read({"type"})
    BY <1>1, NextSection DEF RefersTo
  <2> QED BY <1>1, <2>1, ReferKnown
<1>8. AsGiven(new, <<>>)
  <2>1. Len(<<>>) = 0 /\ <<>> \in Seq(STRING) /\ <<>> \in Seq(EntryKinds)
    OBVIOUS
  <2> QED BY <2>1 DEF AsGiven
<1> HIDE DEF new
<1>9. ASSUME NEW j \in 1..(position' - 1), image'[j].kind = "attribute"
      PROVE  /\ objects'[image'[j].id].declared = image'[j].declared
             /\ AsGiven(objects'[image'[j].id], ArgumentsBefore(image[j].id, position - 1)')
  <2> DEFINE a == image[j].id
  <2>1. j \in 1..(position - 1) \/ j = position
    BY <1>2, <1>3, ImageFacts
  <2>2. ArgumentsBefore(image[j].id, position - 1)' = ArgumentsBefore(a, position - 1)
    <3>1. ArgumentsBefore(image[j].id, position - 1)' = ArgumentsBefore(a, position' - 1)
      BY <1>2 DEF ArgumentsBefore
    <3>2. ArgumentsBefore(a, position' - 1) = ArgumentsBefore(a, position)
      BY <1>2
    <3>3. ArgumentsBefore(a, position) = ArgumentsBefore(a, position - 1)
      BY <1>1, <1>3, ArgumentsNext DEF IsArgumentOf, Section
    <3> QED BY <3>1, <3>2, <3>3
  <2>3. CASE j \in 1..(position - 1)
    <3>1. image[j].kind = "attribute" /\ a \in DOMAIN objects
      BY <1>2, <1>9, <2>3 DEF AttributeInv, Read, Before
    <3> QED BY <1>2, <1>4, <2>2, <2>3, <3>1 DEF AttributeInv
  <2>4. CASE j = position
    <3>1. a = id /\ image[j].declared = Section.declared
      BY <2>4 DEF Section
    <3>2. ArgumentsBefore(a, position - 1) = <<>>
      BY <1>1, <3>1, NoArgumentYet
    <3>3. new.declared = Section.declared
      BY <1>7 DEF new
    <3> QED BY <1>2, <1>4, <1>8, <2>2, <3>1, <3>2, <3>3
  <2> QED BY <2>1, <2>3, <2>4
<1> QED BY <1>5, <1>6, <1>9 DEF AttributeInv

(* A list with one element more, which is a list itself.                   *)
LEMMA ConcatOne ==
  ASSUME NEW S, NEW s \in Seq(S), NEW t \in Seq(S), Len(t) = 1
  PROVE  /\ s \o t \in Seq(S)
         /\ Len(s \o t) = Len(s) + 1
         /\ \A i \in 1..Len(s) : (s \o t)[i] = s[i]
         /\ (s \o t)[Len(s) + 1] = t[1]
<1>1. 1 \in 1..Len(t) /\ Len(s) \in Nat /\ Len(s) + 1 \in 1..(Len(s) + Len(t))
  OBVIOUS
<1>2. (s \o t)[Len(s) + 1] = t[1]
  <2> DEFINE u == s \o t
  <2>1. \A i \in 1..Len(t) : u[Len(s) + i] = t[i]
    BY ONLY s \in Seq(S), t \in Seq(S), ConcatFacts
  <2> HIDE DEF u
  <2>2. u[Len(s) + 1] = t[1]
    BY <1>1, <2>1
  <2> QED BY <2>2 DEF u
<1>3. /\ s \o t \in Seq(S)
      /\ Len(s \o t) = Len(s) + Len(t)
      /\ \A i \in 1..Len(s) : (s \o t)[i] = s[i]
  BY ConcatFacts
<1> QED BY <1>2, <1>3

(* One argument more.                                                      *)
LEMMA GivenOneMore ==
  ASSUME NEW o, NEW args \in Values, AsGiven(o, args),
         NEW t \in STRING, NEW entries \in Seq(EntryKinds), NEW v \in Seq(STRING),
         Len(entries) = 1, entries[1].words = v, t # Int32Array => Len(v) = 1
  PROVE  AsGiven([o EXCEPT !.params = Append(@, t), !.list = @ \o entries], Append(args, v))
<1> DEFINE n == Len(args)
           new == [o EXCEPT !.params = Append(@, t), !.list = @ \o entries]
           params == o.params
           list == o.list
           all == Append(args, v)
<1>1. /\ {"declared", "ctor", "params", "list"} \subseteq DOMAIN o
      /\ params \in Seq(STRING) /\ list \in Seq(EntryKinds)
      /\ Len(params) = n /\ Len(list) = n /\ n \in Nat
      /\ \A z \in 1..n : /\ list[z].words = args[z]
                         /\ params[z] # Int32Array => Len(args[z]) = 1
  BY DEF AsGiven, Values
<1>2. /\ DOMAIN new = DOMAIN o
      /\ new.params = Append(params, t)
      /\ new.list = list \o entries
  BY <1>1
<1> HIDE DEF new, params, list, n
<1>3. /\ Append(params, t) \in Seq(STRING)
      /\ Len(Append(params, t)) = n + 1
      /\ \A i \in 1..n : Append(params, t)[i] = params[i]
      /\ Append(params, t)[n + 1] = t
  BY <1>1, AppendFacts
<1>4. /\ list \o entries \in Seq(EntryKinds)
      /\ Len(list \o entries) = n + 1
      /\ \A i \in 1..n : (list \o entries)[i] = list[i]
      /\ (list \o entries)[n + 1] = entries[1]
  <2> DEFINE S == EntryKinds
  <2>1. list \in Seq(S) /\ entries \in Seq(S)
    BY <1>1
  <2> HIDE DEF S
  <2>2. /\ list \o entries \in Seq(S)
        /\ Len(list \o entries) = Len(list) + 1
        /\ \A i \in 1..Len(list) : (list \o entries)[i] = list[i]
        /\ (list \o entries)[Len(list) + 1] = entries[1]
    BY <2>1, ConcatOne
  <2> QED BY <1>1, <2>2 DEF S
<1>5. /\ Len(all) = n + 1
      /\ \A i \in 1..n : all[i] = args[i]
      /\ all[n + 1] = v
  BY DEF Values, n
<1> HIDE DEF all
<1>6. \A z \in 1..(n + 1) : z \in 1..n \/ z = n + 1
  BY <1>1
<1>7. \A z \in 1..(n + 1) : /\ new.list[z].words = all[z]
                            /\ new.params[z] # Int32Array => Len(all[z]) = 1
  <2> SUFFICES ASSUME NEW z \in 1..(n + 1)
               PROVE  /\ new.list[z].words = all[z]
                      /\ new.params[z] # Int32Array => Len(all[z]) = 1
    OBVIOUS
  <2>1. CASE z \in 1..n
    <3>1. new.list[z] = list[z] /\ new.params[z] = params[z] /\ all[z] = args[z]
      BY <2>1, <1>2, <1>3, <1>4, <1>5
    <3> QED BY <3>1, <2>1, <1>1
  <2>2. CASE z = n + 1
    <3>1. new.list[z] = entries[1] /\ new.params[z] = t /\ all[z] = v
      BY <2>2, <1>2, <1>3, <1>4, <1>5
    <3> QED BY <3>1
  <2> QED BY <2>1, <2>2, <1>6
<1>8. AsGiven(new, all)
  BY <1>1, <1>2, <1>3, <1>4, <1>5, <1>7 DEF AsGiven
<1> QED BY <1>8 DEF new, all

(* An argument that is read comes last in its attribute, and no other is   *)
(* changed.                                                                *)
LEMMA ArgumentLoaded ==
  ASSUME ReadInv, Ordered, Single, AttributeInv, LoadArgument, position' # position
  PROVE  AttributeInv'
<1> DEFINE owner == Section.owner
           t == Section.declared
           values == Section.values
           new == [objects[owner] EXCEPT !.params = Append(@, t), !.list = @ \o Entries(t)]
<1>1. Loading /\ Section.kind = "argument"
  BY DEF LoadArgument
<1>2. Refer(owner) = owner /\ Refer(t) = t /\ owner \in Read({"attribute"})
  <2>1. owner \in Read({"attribute"}) /\ t \in Read({"type"})
    BY <1>1, NextSection DEF RefersTo
  <2> QED BY <1>1, <2>1, ReferKnown
<1>3. /\ Loaded /\ attributes' = attributes
      /\ objects' = [objects EXCEPT ![owner].params = Append(@, t),
                                    ![owner].list = @ \o Entries(t)]
  <2>1. position' = position => FALSE
    OBVIOUS
  <2>2. /\ Loaded /\ attributes' = attributes
        /\ objects' = [objects EXCEPT ![Refer(owner)].params = Append(@, Refer(t)),
                                      ![Refer(owner)].list = @ \o Entries(Refer(t))]
    BY DEF LoadArgument, Halt, Astray, End, reading
  <2> QED BY <1>2, <2>2
<1>4. /\ image' = image /\ position' - 1 = position
      /\ \A kinds : Read(kinds)' = IF Section.kind \in kinds
                                   THEN Read(kinds) \union {Section.id} ELSE Read(kinds)
  BY <1>1, <1>3, ReadGrows
<1>5. /\ position \in 1..Len(image) /\ image \in Images /\ position - 1 \in 0..Len(image)
      /\ owner \in DOMAIN objects
  BY <1>1, <1>2, NextSection, ImageFacts DEF ReadInv, AttributeInv
<1>6. PICK k \in 1..(position - 1) : image[k].id = owner /\ image[k].kind = "attribute"
  BY <1>2 DEF Read, Before
<1>7. AsGiven(objects[owner], ArgumentsBefore(owner, position - 1))
  BY <1>6 DEF AttributeInv
<1>8. AsGiven(new, Append(ArgumentsBefore(owner, position - 1), values))
  <2> DEFINE args == ArgumentsBefore(owner, position - 1)
             entries == Entries(t)
             o == objects[owner]
  <2>1. args \in Values
    BY <1>5, ArgumentsTyped
  <2>2. /\ entries \in Seq(EntryKinds)
        /\ Len(entries) = 1
        /\ entries[1].words = values
        /\ t # Int32Array => Len(values) = 1
        /\ values \in Seq(STRING)
        /\ t \in STRING
    BY <1>1, <1>5, EntriesOfOne
  <2>3. AsGiven(o, args)
    BY <1>7
  <2> DEFINE made == [o EXCEPT !.params = Append(@, t), !.list = @ \o entries]
  <2> HIDE DEF args, entries, o, t, values
  <2>4. AsGiven(made, Append(args, values))
    BY <2>1, <2>2, <2>3, GivenOneMore
  <2> QED BY <2>4 DEF args, entries, o
<1>9. /\ DOMAIN objects' = DOMAIN objects
      /\ objects'[owner] = new
      /\ \A a \in DOMAIN objects : a # owner => objects'[a] = objects[a]
  BY <1>3, <1>5
<1>10. new.declared = objects[owner].declared
  BY <1>7 DEF AsGiven
<1> HIDE DEF new
<1>11. DOMAIN objects' = Read({"attribute"})'
  BY <1>1, <1>4, <1>9 DEF AttributeInv
<1>12. ASSUME NEW e
       PROVE  Attached(AttributesOf(e), e)'
  <2>1. AttributesOf(e)' = AttributesOf(e)
    BY <1>3 DEF AttributesOf
  <2>2. Attributed(e)' = Attributed(e)
    <3>1. \A j : j \in 1..position <=> j \in 1..(position - 1) \/ j = position
      BY <1>5, ImageFacts
    <3> QED BY <1>1, <1>4, <3>1 DEF Attributed, IsAttributeOf, Section
  <2>3. \A x : Spot(x)' = Spot(x)
    BY <1>4 DEF Spot
  <2> QED BY <1>9, <2>1, <2>2, <2>3 DEF Attached, AttributeInv
<1>13. ASSUME NEW j \in 1..(position' - 1), image'[j].kind = "attribute"
       PROVE  /\ objects'[image'[j].id].declared = image'[j].declared
              /\ AsGiven(objects'[image'[j].id], ArgumentsBefore(image[j].id, position - 1)')
  <2> DEFINE a == image[j].id
  <2>1. j \in 1..(position - 1) /\ image[j].kind = "attribute"
    BY <1>1, <1>4, <1>5, <1>13, ImageFacts DEF Section
  <2>2. a \in DOMAIN objects
    BY <2>1 DEF AttributeInv, Read, Before
  <2>3. ArgumentsBefore(image[j].id, position - 1)' = ArgumentsBefore(a, position)
    <3>1. ArgumentsBefore(image[j].id, position - 1)' = ArgumentsBefore(a, position' - 1)
      BY <1>4 DEF ArgumentsBefore
    <3> QED BY <1>4, <3>1
  <2>4. ArgumentsBefore(a, position) =
          IF a = owner THEN Append(ArgumentsBefore(a, position - 1), values)
          ELSE ArgumentsBefore(a, position - 1)
    BY <1>1, <1>5, ArgumentsNext DEF IsArgumentOf, Section
  <2>5. /\ objects[a].declared = image[j].declared
        /\ AsGiven(objects[a], ArgumentsBefore(a, position - 1))
    BY <2>1 DEF AttributeInv
  <2> HIDE DEF a, owner, values
  <2>6. CASE a = owner
    <3>1. AsGiven(objects'[a], ArgumentsBefore(a, position))
      BY <1>8, <1>9, <2>4, <2>6
    <3>2. objects'[a].declared = image[j].declared
      BY <1>9, <1>10, <2>5, <2>6
    <3> QED BY <1>4, <2>3, <3>1, <3>2 DEF a
  <2>7. CASE a # owner
    <3>1. objects'[a] = objects[a] /\ ArgumentsBefore(a, position) = ArgumentsBefore(a, position - 1)
      BY <1>9, <2>2, <2>4, <2>7
    <3> QED BY <1>4, <2>3, <2>5, <3>1 DEF a
  <2> QED BY <2>6, <2>7
<1> QED BY <1>11, <1>12, <1>13 DEF AttributeInv

(* There are no attributes at first,                                       *)
LEMMA AttributesStart ==
  ASSUME Init
  PROVE  AttributesInv
<1>1. /\ image \in Images /\ position = 1 /\ attributes = <<>> /\ objects = <<>>
  BY DEF Init
<1>2. DOMAIN <<>> = {} /\ <<>> \in Seq({}) /\ Range(<<>>) = {} /\ Len(<<>>) = 0
  BY DEF Range
<1>3. 1..(position - 1) = {}
  BY <1>1
<1>4. \A e : Attached(AttributesOf(e), e)
  <2>1. \A e : AttributesOf(e) = <<>> /\ Attributed(e) = {}
    BY <1>1, <1>2, <1>3 DEF AttributesOf, Attributed
  <2>2. \A i, j \in 1..0 : i < j => Spot(<<>>[i]) < Spot(<<>>[j])
    OBVIOUS
  <2> QED BY <1>1, <1>2, <2>1, <2>2 DEF Attached
<1> QED BY <1>1, <1>2, <1>3, <1>4 DEF AttributesInv, AttributeInv, Read, Before

(* a step that reads nothing keeps them,                                   *)
LEMMA AttributesRest ==
  ASSUME AttributesInv, Rest, objects' = objects, attributes' = attributes
  PROVE  AttributesInv'
<1>1. image' = image /\ position' = position
  BY DEF Rest
<1>2. ASSUME AttributeInv
      PROVE  AttributeInv'
  <2>1. \A kinds : Read(kinds)' = Read(kinds)
    BY <1>1 DEF Read, Before
  <2>2. ASSUME NEW e PROVE Attached(AttributesOf(e), e)'
    <3>1. AttributesOf(e)' = AttributesOf(e)
      BY DEF AttributesOf
    <3>2. Attributed(e)' = Attributed(e)
      BY <1>1 DEF Attributed, IsAttributeOf
    <3>3. \A x : Spot(x)' = Spot(x)
      BY <1>1 DEF Spot
    <3>4. Attached(AttributesOf(e), e)
      BY <1>2 DEF AttributeInv
    <3> QED BY <3>1, <3>2, <3>3, <3>4 DEF Attached
  <2>3. ASSUME NEW j \in 1..(position' - 1), image'[j].kind = "attribute"
        PROVE  /\ objects'[image'[j].id].declared = image'[j].declared
               /\ AsGiven(objects'[image'[j].id], ArgumentsBefore(image[j].id, position - 1)')
    <3>1. ArgumentsBefore(image[j].id, position - 1)' = ArgumentsBefore(image[j].id, position - 1)
      BY <1>1 DEF ArgumentsBefore
    <3> QED BY <1>1, <1>2, <2>3, <3>1 DEF AttributeInv
  <2> QED BY <1>2, <2>1, <2>2, <2>3 DEF AttributeInv
<1> QED BY <1>1, <1>2, OrderedStays, SingleStays DEF AttributesInv

(* Only the loader touches attributes.                                     *)
LEMMA ObjectsRest ==
  ASSUME ReadInv, [Next]_vars, position' = position
  PROVE  Rest /\ objects' = objects /\ attributes' = attributes
<1>1. ASSUME Loaded PROVE position' = position + 1
  BY <1>1 DEF Loaded
<1>2. CASE UNCHANGED reading
  <2>1. objects' = objects /\ attributes' = attributes
    BY <1>2 DEF reading
  <2>2. CASE Next
    BY <2>1, <2>2, RestOfNext
  <2>3. CASE UNCHANGED vars
    BY <2>1, <2>3 DEF vars, reading, Rest
  <2> QED BY <2>1, <2>2, <2>3
<1>3. CASE ~ UNCHANGED reading
  <2>1. Loaded
    BY <1>3 DEF Next, vars, LoadTable, LoadUnknown, LoadType, LoadField, LoadMethod, LoadExecutable,
         LoadHandler, LoadAttribute, LoadArgument, LayOut, RunStaticConstructor, StaticsAreDone,
         RunAttributeConstructor, Link, RunInitializer, Collect, Execute, Halt, Astray, End
  <2>2. position \in Int
    BY ImageFacts DEF ReadInv
  <2> QED BY <1>1, <2>1, <2>2
<1> QED BY <1>2, <1>3

(* and so does each other one.                                             *)
LEMMA AttributesStep ==
  ASSUME LoadInv, AttributesInv, [Next]_vars
  PROVE  AttributesInv'
<1>1. CASE position' = position
  BY <1>1, ObjectsRest, AttributesRest DEF LoadInv
<1>2. CASE position' # position
  <2>1. position' = position => FALSE
    BY <1>2
  <2>2. \/ LoadTable \/ LoadType \/ LoadField \/ LoadMethod
        \/ LoadExecutable \/ LoadHandler \/ LoadAttribute \/ LoadArgument
    BY <2>1 DEF Next, vars, LoadUnknown, LayOut, RunStaticConstructor, StaticsAreDone, Execute,
           RunAttributeConstructor, Link, RunInitializer, Collect, Halt, Astray, End, reading
  <2>3. Loading /\ Loaded
    BY <2>1, <2>2 DEF LoadTable, LoadType, LoadField, LoadMethod, LoadExecutable, LoadHandler,
                LoadAttribute, LoadArgument, Halt, Astray, End, reading
  <2>4. image' = image
    BY <2>3 DEF Loaded
  <2>5. SUFFICES ASSUME Ordered, Single, AttributeInv
                 PROVE  AttributeInv'
    BY <2>4, OrderedStays, SingleStays DEF AttributesInv
  <2>6. CASE LoadAttribute
    BY <1>2, <2>5, <2>6, AttributeLoaded DEF LoadInv
  <2>7. CASE LoadArgument
    BY <1>2, <2>5, <2>7, ArgumentLoaded DEF LoadInv
  <2>8. CASE \/ LoadTable \/ LoadType \/ LoadField \/ LoadMethod \/ LoadExecutable \/ LoadHandler
    <3>1. /\ Section.kind \notin {"attribute", "argument"}
          /\ objects' = objects /\ attributes' = attributes
      BY <2>1, <2>8 DEF LoadTable, LoadType, LoadField, LoadMethod, LoadExecutable, LoadHandler,
                  Halt, Astray, End, reading
    <3> QED BY <2>3, <2>5, <3>1, AttributesStay DEF LoadInv
  <2> QED BY <2>2, <2>6, <2>7, <2>8
<1> QED BY <1>1, <1>2

(* LdrLoadAttribute and LdrLoadArgument: however far the image has been    *)
(* read, each attribute has the arguments that the image writes for it so  *)
(* far, and each type, field and method has its attributes in the order of *)
(* the image.                                                              *)
THEOREM AttributesAreRead == Spec => []AttributesInv
BY AttributesStart, AttributesStep, DomainIsAsWritten, PTL DEF Spec

-----------------------------------------------------------------------------
(* Their constructors, in the order in which they run.                     *)

(* The attributes of the members of a list.                                *)
LEMMA AttributesOfAll ==
  ASSUME AttributeInv, NEW S, NEW list \in Seq(S)
  PROVE  LET all == FlattenSeq([i \in DOMAIN list |-> AttributesOf(list[i])])
         IN /\ all \in Seq(DOMAIN objects)
            /\ \A e \in Range(list) : Range(AttributesOf(e)) \subseteq Range(all)
<1> DEFINE D == DOMAIN objects
           seqs == [i \in DOMAIN list |-> AttributesOf(list[i])]
<1>1. DOMAIN list = 1..Len(list) /\ Len(list) \in Nat
  OBVIOUS
<1>2. \A e : AttributesOf(e) \in Seq(D)
  BY DEF AttributeInv, Attached
<1> HIDE DEF D
<1>3. seqs \in Seq(Seq(D)) /\ Len(seqs) = Len(list) /\ \A i \in 1..Len(list) : seqs[i] = AttributesOf(list[i])
  BY <1>1, <1>2
<1> HIDE DEF seqs
<1>4. /\ FlattenSeq(seqs) \in Seq(D)
      /\ Range(FlattenSeq(seqs)) = UNION {Range(seqs[i]) : i \in 1..Len(seqs)}
  BY <1>3, FlattenFacts
<1>5. ASSUME NEW e \in Range(list)
      PROVE  Range(AttributesOf(e)) \subseteq Range(FlattenSeq(seqs))
  <2>1. PICK i \in 1..Len(list) : list[i] = e
    BY <1>1 DEF Range
  <2>2. seqs[i] = AttributesOf(e) /\ i \in 1..Len(seqs)
    BY <1>3, <2>1
  <2> QED BY <1>4, <2>2
<1> QED BY <1>4, <1>5 DEF seqs, D

(* Those of a type, its methods and its fields.                            *)
LEMMA AttributesInType ==
  ASSUME DomainInv, AttributeInv, NEW t \in DOMAIN domain.types
  PROVE  /\ AttributesIn(t) \in Seq(DOMAIN objects)
         /\ Range(AttributesOf(t)) \subseteq Range(AttributesIn(t))
         /\ \A m \in DOMAIN domain.methods : domain.methods[m].owner = t =>
              Range(AttributesOf(m)) \subseteq Range(AttributesIn(t))
         /\ \A f \in DOMAIN domain.fields : domain.fields[f].owner = t =>
              Range(AttributesOf(f)) \subseteq Range(AttributesIn(t))
<1> DEFINE D == DOMAIN objects
           own == AttributesOf(t)
           ofMethods == FlattenSeq([i \in DOMAIN MethodsOf(t) |-> AttributesOf(MethodsOf(t)[i])])
           ofFields == FlattenSeq([i \in DOMAIN domain.types[t].fields |->
                                     AttributesOf(domain.types[t].fields[i])])
<1>1. /\ MethodsOf(t) \in Seq(DOMAIN domain.methods)
      /\ Range(MethodsOf(t)) = {m \in DOMAIN domain.methods : domain.methods[m].owner = t}
      /\ domain.types[t].fields \in Seq(DOMAIN domain.fields)
      /\ Range(domain.types[t].fields) = {f \in DOMAIN domain.fields : domain.fields[f].owner = t}
  BY DEF DomainInv, ListOf, MethodsOf
<1>2. /\ ofMethods \in Seq(D)
      /\ \A e \in Range(MethodsOf(t)) : Range(AttributesOf(e)) \subseteq Range(ofMethods)
  <2> DEFINE list == MethodsOf(t)
             S == DOMAIN domain.methods
  <2>1. list \in Seq(S)
    BY <1>1
  <2> HIDE DEF list, S
  <2>2. LET all == FlattenSeq([i \in DOMAIN list |-> AttributesOf(list[i])])
        IN /\ all \in Seq(DOMAIN objects)
           /\ \A e \in Range(list) : Range(AttributesOf(e)) \subseteq Range(all)
    BY <2>1, AttributesOfAll
  <2> QED BY <2>2 DEF list
<1>3. /\ ofFields \in Seq(D)
      /\ \A e \in Range(domain.types[t].fields) : Range(AttributesOf(e)) \subseteq Range(ofFields)
  <2> DEFINE list == domain.types[t].fields
             S == DOMAIN domain.fields
  <2>1. list \in Seq(S)
    BY <1>1
  <2> HIDE DEF list, S
  <2>2. LET all == FlattenSeq([i \in DOMAIN list |-> AttributesOf(list[i])])
        IN /\ all \in Seq(DOMAIN objects)
           /\ \A e \in Range(list) : Range(AttributesOf(e)) \subseteq Range(all)
    BY <2>1, AttributesOfAll
  <2> QED BY <2>2 DEF list
<1>4. own \in Seq(D)
  BY DEF AttributeInv, Attached
<1>5. AttributesIn(t) = own \o ofMethods \o ofFields
  BY DEF AttributesIn
<1> HIDE DEF D, own, ofMethods, ofFields
<1>6. own \o ofMethods \in Seq(D) /\ Range(own \o ofMethods) = Range(own) \union Range(ofMethods)
  BY <1>2, <1>4, ConcatFacts
<1> DEFINE two == own \o ofMethods
<1>7. two \in Seq(D) /\ AttributesIn(t) = two \o ofFields /\ Range(two) = Range(own) \union Range(ofMethods)
  BY <1>5, <1>6
<1> HIDE DEF two
<1>8. two \o ofFields \in Seq(D) /\ Range(two \o ofFields) = Range(two) \union Range(ofFields)
  BY <1>3, <1>7, ConcatFacts
<1> QED BY <1>1, <1>2, <1>3, <1>7, <1>8 DEF own, D

(* LdrExecuteAttributesConstructors leaves no attribute out.               *)
LEMMA NoneLeftOut ==
  ASSUME LoadInv, AttributesInv, Ordered, Single
  PROVE  LET all == FlattenSeq([i \in DOMAIN order |-> AttributesIn(order[i])])
         IN /\ all \in Seq(DOMAIN objects)
            /\ DOMAIN objects \subseteq Range(all)
<1> DEFINE D == DOMAIN objects
           seqs == [i \in DOMAIN order |-> AttributesIn(order[i])]
           all == FlattenSeq(seqs)
<1>1. DomainInv /\ AttributeInv /\ ReadInv
  BY DEF LoadInv, AttributesInv
<1>2. /\ order \in Seq(DOMAIN domain.types) /\ Range(order) = DOMAIN domain.types
      /\ Len(order) \in Nat /\ DOMAIN order = 1..Len(order)
  BY <1>1 DEF DomainInv
<1>3. ASSUME NEW t \in DOMAIN domain.types
      PROVE  /\ AttributesIn(t) \in Seq(D)
             /\ Range(AttributesOf(t)) \subseteq Range(AttributesIn(t))
             /\ \A m \in DOMAIN domain.methods : domain.methods[m].owner = t =>
                  Range(AttributesOf(m)) \subseteq Range(AttributesIn(t))
             /\ \A f \in DOMAIN domain.fields : domain.fields[f].owner = t =>
                  Range(AttributesOf(f)) \subseteq Range(AttributesIn(t))
  BY <1>1, AttributesInType
<1> HIDE DEF D
<1>4. \A i \in 1..Len(order) : order[i] \in DOMAIN domain.types
  BY <1>2
<1>5. seqs \in Seq(Seq(D)) /\ Len(seqs) = Len(order) /\ \A i \in 1..Len(order) : seqs[i] = AttributesIn(order[i])
  BY <1>2, <1>3, <1>4
<1> HIDE DEF seqs
<1>6. all \in Seq(D) /\ Range(all) = UNION {Range(seqs[i]) : i \in 1..Len(seqs)}
  BY <1>5, FlattenFacts
<1>7. ASSUME NEW t \in DOMAIN domain.types
      PROVE  Range(AttributesIn(t)) \subseteq Range(all)
  <2>1. PICK i \in 1..Len(order) : order[i] = t
    BY <1>2 DEF Range
  <2>2. seqs[i] = AttributesIn(t) /\ i \in 1..Len(seqs)
    BY <1>5, <2>1
  <2> QED BY <1>6, <2>2
<1>8. ASSUME NEW a \in D
      PROVE  a \in Range(all)
  <2>1. PICK j \in 1..(position - 1) : image[j].id = a /\ image[j].kind = "attribute"
    BY <1>1 DEF AttributeInv, Read, Before, D
  <2> DEFINE e == image[j].owner
  <2>2. a \in Range(AttributesOf(e))
    <3>1. a \in Attributed(e)
      BY <2>1 DEF Attributed, IsAttributeOf
    <3> QED BY <1>1, <3>1 DEF AttributeInv, Attached
  <2>3. j \in DOMAIN image /\ j - 1 <= position - 1
    BY <1>1, ImageFacts DEF ReadInv
  <2>4. e \in Before(j, {"type", "field", "method"})
    BY <2>1, <2>3 DEF Ordered, RefersTo
  <2>5. PICK k \in 1..(j - 1) : image[k].id = e /\ image[k].kind \in {"type", "field", "method"}
    BY <2>4 DEF Before
  <2>6. k \in 1..(position - 1) /\ k \in DOMAIN image
    BY <1>1, <2>5, ImageFacts DEF ReadInv
  <2> HIDE DEF e, all
  <2>7. CASE image[k].kind = "type"
    <3>1. e \in DOMAIN domain.types
      BY <1>1, <2>5, <2>6, <2>7 DEF DomainInv, Read, Before
    <3> QED BY <1>3, <1>7, <2>2, <3>1
  <2>8. CASE image[k].kind = "field"
    <3> DEFINE t == image[k].owner
    <3>1. e \in DOMAIN domain.fields /\ domain.fields[e].owner = t
      BY <1>1, <2>5, <2>6, <2>8 DEF DomainInv, Read, Before, FieldAsWritten
    <3>2. t \in Before(k, {"type"})
      BY <2>6, <2>8 DEF Ordered, RefersTo
    <3>3. t \in DOMAIN domain.types
      <4>1. PICK l \in 1..(k - 1) : image[l].id = t /\ image[l].kind = "type"
        BY <3>2 DEF Before
      <4>2. l \in 1..(position - 1)
        BY <1>1, <2>6, <4>1, ImageFacts DEF ReadInv
      <4> QED BY <1>1, <4>1, <4>2 DEF DomainInv, Read, Before
    <3> HIDE DEF t
    <3> QED BY <1>3, <1>7, <2>2, <3>1, <3>3
  <2>9. CASE image[k].kind = "method"
    <3> DEFINE t == image[k].owner
    <3>1. e \in DOMAIN domain.methods /\ domain.methods[e].owner = t
      BY <1>1, <2>5, <2>6, <2>9 DEF DomainInv, Read, Before, MethodAsWritten
    <3>2. t \in Before(k, {"type"})
      BY <2>6, <2>9 DEF Ordered, RefersTo
    <3>3. t \in DOMAIN domain.types
      <4>1. PICK l \in 1..(k - 1) : image[l].id = t /\ image[l].kind = "type"
        BY <3>2 DEF Before
      <4>2. l \in 1..(position - 1)
        BY <1>1, <2>6, <4>1, ImageFacts DEF ReadInv
      <4> QED BY <1>1, <4>1, <4>2 DEF DomainInv, Read, Before
    <3> HIDE DEF t
    <3> QED BY <1>3, <1>7, <2>2, <3>1, <3>3
  <2> QED BY <2>5, <2>7, <2>8, <2>9
<1> QED BY <1>6, <1>8 DEF D, seqs

Finished == phase \in {"linked", "started", "dumped"}

(* What FarInitialize has linked, as the image has it.                     *)
LinkedAsWritten ==
  \A m \in Sections("method") :
    IF ImportsNamed(m.id) = {} THEN m.id \notin DOMAIN linked
    ELSE /\ m.id \in DOMAIN linked
         /\ linked[m.id] = ArgumentsOf(image[Max(ImportsNamed(m.id))].id)

GivenAsWritten ==
  /\ phase \in {"loading", "statics"} => given = <<>>
  /\ phase = "attributes" => /\ pending \in Seq(DOMAIN objects)
                             /\ DOMAIN objects \subseteq DOMAIN given \union Range(pending)
  /\ phase = "attributes" \/ Finished => \A a \in DOMAIN given : given[a] = ArgumentsOf(a)
  /\ Finished => DOMAIN objects \subseteq DOMAIN given /\ LinkedAsWritten

GivenInv == Ordered /\ Single => GivenAsWritten

(* A constructor is given what the image writes.                           *)
LEMMA ConstructorGiven ==
  ASSUME LoadInv, AttributesInv, Ordered, Single, Ready, NEW a \in DOMAIN objects
  PROVE  Parameters(a) = ArgumentsOf(a)
<1> DEFINE args == ArgumentsOf(a)
           o == objects[a]
<1>1. position - 1 = Len(image) /\ image \in Images /\ position - 1 \in 0..Len(image)
  BY ImageFacts DEF LoadInv, ReadInv
<1>2. args = ArgumentsBefore(a, position - 1)
  BY <1>1 DEF ArgumentsOf
<1>3. args \in Values
  BY <1>1, <1>2, ArgumentsTyped
<1>4. PICK j \in 1..(position - 1) : image[j].id = a /\ image[j].kind = "attribute"
  BY DEF AttributesInv, AttributeInv, Read, Before
<1>5. AsGiven(o, args)
  BY <1>2, <1>4 DEF AttributesInv, AttributeInv
<1> HIDE DEF args, o
<1>6. /\ o.params \in Seq(STRING) /\ o.list \in Seq(EntryKinds)
      /\ Len(o.params) = Len(args) /\ Len(o.list) = Len(args)
      /\ Len(args) \in Nat
      /\ DOMAIN o.params = 1..Len(args) /\ DOMAIN o.list = 1..Len(args)
      /\ \A z \in 1..Len(args) : /\ o.list[z].words = args[z]
                                 /\ o.params[z] # Int32Array => Len(args[z]) = 1
                                 /\ args[z] \in Seq(STRING)
  BY <1>3, <1>5 DEF AsGiven, Values
<1>7. ASSUME NEW z \in 1..Len(args)
      PROVE  Parameter(a, z) = args[z]
  <2>1. CASE IsNumber(o.params[z])
    <3>1. o.params[z] # Int32Array
      BY <2>1 DEF IsNumber, Int32, Int32Array, String
    <3>2. Len(args[z]) = 1 /\ args[z] \in Seq(STRING)
      BY <1>6, <3>1
    <3>3. args[z] = <<args[z][1]>>
      BY <3>2
    <3>4. Parameter(a, z) = <<o.list[z].words[1]>>
      BY <2>1 DEF Parameter, Entry, o
    <3> QED BY <1>6, <3>3, <3>4
  <2>2. CASE ~IsNumber(o.params[z])
    <3>1. Parameter(a, z) = o.list[z].words
      BY <2>2 DEF Parameter, Entry, o
    <3> QED BY <1>6, <3>1
  <2> QED BY <2>1, <2>2
<1>8. Parameters(a) = [z \in 1..Len(args) |-> args[z]]
  <2>1. Parameters(a) = [z \in 1..Len(args) |-> Parameter(a, z)]
    BY <1>6 DEF Parameters, o
  <2> QED BY <1>7, <2>1
<1>9. args = [z \in 1..Len(args) |-> args[z]]
  BY <1>3 DEF Values
<1> QED BY <1>8, <1>9 DEF args

(* The greatest of finitely many numbers.                                  *)
LEMMA GreatestIndex ==
  ASSUME NEW n \in Nat, NEW S, S \subseteq 1..n, S # {}
  PROVE  Max(S) \in S /\ \A i \in S : Max(S) >= i
<1> DEFINE T == {n - i : i \in S}
<1>0. \A i \in S : i \in 1..n /\ i \in Nat /\ n - i \in Nat
  OBVIOUS
<1>1. T \subseteq Nat /\ T # {}
  BY <1>0
<1>2. PICK x \in T : \A y \in T : x <= y
  <2> HIDE DEF T
  <2> QED BY <1>1, LeastNumber
<1>3. PICK k \in S : x = n - k
  OBVIOUS
<1>4. \A i \in S : n - i \in T
  OBVIOUS
<1>5. \A i \in S : k >= i
  <2> SUFFICES ASSUME NEW i \in S PROVE k >= i
    OBVIOUS
  <2>1. n - k <= n - i
    BY <1>2, <1>3, <1>4
  <2>2. k \in Nat /\ i \in Nat
    BY <1>0
  <2> QED BY <2>1, <2>2
<1> QED BY <1>5 DEF Max

(* A number that is the greatest is what Max gives.                        *)
LEMMA GreatestIs ==
  ASSUME NEW S, S \subseteq Nat, NEW x \in S, \A i \in S : x >= i
  PROVE  Max(S) = x
<1> DEFINE k == Max(S)
<1>1. k \in S /\ \A i \in S : k >= i
  BY DEF Max
<1> HIDE DEF k
<1>2. k >= x /\ x >= k /\ k \in Nat /\ x \in Nat
  BY <1>1
<1>3. k = x
  BY <1>2
<1> QED BY <1>3 DEF k

(* The last import that the attributes of a method name.                   *)
LEMMA LastImport ==
  ASSUME LoadInv, AttributesInv, Ordered, Single, Ready, NEW m,
         \A a \in DOMAIN objects : given[a] = ArgumentsOf(a)
  PROVE  LET known == {i \in FarCallsOf(m) : given[AttributesOf(m)[i]][1][1] \in Imports}
         IN /\ known = {} <=> ImportsNamed(m) = {}
            /\ known # {} => given[AttributesOf(m)[Max(known)]]
                               = ArgumentsOf(image[Max(ImportsNamed(m))].id)
<1> DEFINE list == AttributesOf(m)
           named == ImportsNamed(m)
           known == {i \in FarCallsOf(m) : given[list[i]][1][1] \in Imports}
           Names(a) == ArgumentsOf(a)[1][1] \in Imports
<1>1. AttributeInv /\ position - 1 = Len(image) /\ image \in Images
  BY ImageFacts DEF AttributesInv, LoadInv, ReadInv
<1>2. /\ list \in Seq(DOMAIN objects)
      /\ Range(list) = Attributed(m)
      /\ \A i, j \in 1..Len(list) : i < j => Spot(list[i]) < Spot(list[j])
  BY <1>1 DEF AttributeInv, Attached
<1>3. /\ Len(list) \in Nat /\ DOMAIN list = 1..Len(list)
      /\ \A i \in 1..Len(list) : list[i] \in DOMAIN objects
  BY <1>2
<1>4. known = {i \in 1..Len(list) : objects[list[i]].declared = FarCall /\ Names(list[i])}
  BY <1>3 DEF FarCallsOf
<1>5. named = {j \in 1..Len(image) : /\ IsAttributeOf(j, m)
                                     /\ image[j].declared = FarCall
                                     /\ Names(image[j].id)}
  BY <1>1, ImageFacts DEF ImportsNamed, IsAttributeOf
<1>6. \A j \in 1..Len(image) : image[j].kind = "attribute" =>
        objects[image[j].id].declared = image[j].declared
  BY <1>1 DEF AttributeInv
<1>7. ASSUME NEW i \in 1..Len(list)
      PROVE  /\ Spot(list[i]) \in 1..Len(image)
             /\ image[Spot(list[i])].id = list[i]
             /\ IsAttributeOf(Spot(list[i]), m)
  <2>1. list[i] \in Attributed(m)
    BY <1>2, <1>3 DEF Range
  <2>2. PICK j \in 1..Len(image) : image[j].id = list[i] /\ IsAttributeOf(j, m)
    BY <1>1, <2>1 DEF Attributed
  <2> QED BY <1>1, <2>2, SpotOf
<1>8. ASSUME NEW j \in 1..Len(image), IsAttributeOf(j, m)
      PROVE  \E i \in 1..Len(list) : list[i] = image[j].id /\ Spot(list[i]) = j
  <2>1. image[j].id \in Range(list)
    BY <1>1, <1>2, <1>8 DEF Attributed
  <2>2. PICK i \in 1..Len(list) : list[i] = image[j].id
    BY <1>3, <2>1 DEF Range
  <2> QED BY <1>1, <2>2, SpotOf
<1> HIDE DEF list, named, known, Names
<1>9. ASSUME NEW i \in known
      PROVE  Spot(list[i]) \in named
  BY <1>4, <1>5, <1>6, <1>7, <1>9 DEF IsAttributeOf
<1>10. ASSUME NEW j \in named
       PROVE  \E i \in known : Spot(list[i]) = j
  <2>1. PICK i \in 1..Len(list) : list[i] = image[j].id /\ Spot(list[i]) = j
    BY <1>5, <1>8
  <2> QED BY <1>4, <1>5, <1>6, <2>1 DEF IsAttributeOf
<1>11. known = {} <=> named = {}
  BY <1>9, <1>10
<1>12. ASSUME known # {}
       PROVE  given[list[Max(known)]] = ArgumentsOf(image[Max(named)].id)
  <2> DEFINE k == Max(known)
  <2>1. k \in known /\ \A i \in known : k >= i
    <3>1. known \subseteq 1..Len(list)
      BY <1>4
    <3> QED BY <1>3, <1>12, <3>1, GreatestIndex
  <2> HIDE DEF k
  <2>2. known \subseteq 1..Len(list)
    BY <1>4
  <2>3. \A i \in known : Spot(list[k]) >= Spot(list[i])
    <3> SUFFICES ASSUME NEW i \in known
                 PROVE  Spot(list[k]) >= Spot(list[i])
      OBVIOUS
    <3>1. i \in 1..Len(list) /\ k \in 1..Len(list) /\ k >= i
      BY <2>1, <2>2
    <3>2. Spot(list[i]) \in Int /\ Spot(list[k]) \in Int
      BY <1>1, <1>7, <3>1, ImageFacts
    <3> QED BY <1>2, <3>1, <3>2
  <2>4. \A j \in named : Spot(list[k]) >= j
    BY <1>10, <2>3
  <2>5. Max(named) = Spot(list[k])
    <3> DEFINE x == Spot(list[k])
    <3>1. x \in named /\ \A j \in named : x >= j
      BY <1>9, <2>1, <2>4
    <3>2. named \subseteq Nat
      BY <1>1, <1>5, ImageFacts
    <3> HIDE DEF x
    <3>3. Max(named) = x
      BY <3>1, <3>2, GreatestIs
    <3> QED BY <3>3 DEF x
  <2>6. image[Max(named)].id = list[k] /\ list[k] \in DOMAIN objects
    BY <1>3, <1>7, <2>1, <2>2, <2>5
  <2>7. given[list[k]] = ArgumentsOf(list[k])
    BY <2>6
  <2> QED BY <2>6, <2>7 DEF k
<1> QED BY <1>11, <1>12 DEF known, named, list

-----------------------------------------------------------------------------
(* Each step gives what is written, and links it.                          *)

(* What the conditions on an image say stays true of it.                   *)
LEMMA WrittenStays ==
  ASSUME image' = image
  PROVE  /\ \A a : ArgumentsOf(a)' = ArgumentsOf(a)
         /\ \A m : ImportsNamed(m)' = ImportsNamed(m)
         /\ Sections("method")' = Sections("method")
BY DEF ArgumentsOf, ArgumentsBefore, ImportsNamed, Sections

(* What has been linked stays linked.                                      *)
LEMMA LinkedStays ==
  ASSUME image' = image, linked' = linked, LinkedAsWritten
  PROVE  LinkedAsWritten'
<1>1. /\ Sections("method")' = Sections("method")
      /\ \A m : ImportsNamed(m)' = ImportsNamed(m)
  BY WrittenStays
<1>2. \A j : ArgumentsOf(image[j].id)' = ArgumentsOf(image[j].id)
  BY DEF ArgumentsOf, ArgumentsBefore
<1>3. ASSUME NEW m \in Sections("method")
      PROVE  IF ImportsNamed(m.id)' = {} THEN m.id \notin DOMAIN linked'
             ELSE /\ m.id \in DOMAIN linked'
                  /\ linked'[m.id] = ArgumentsOf(image[Max(ImportsNamed(m.id))].id)'
  <2>1. ImportsNamed(m.id)' = ImportsNamed(m.id)
    BY DEF ImportsNamed, ArgumentsOf, ArgumentsBefore
  <2>2. ArgumentsOf(image[Max(ImportsNamed(m.id))].id)' = ArgumentsOf(image[Max(ImportsNamed(m.id))].id)
    BY <2>1 DEF ArgumentsOf, ArgumentsBefore
  <2> QED BY <2>1, <2>2 DEF LinkedAsWritten
<1> QED BY <1>1, <1>3 DEF LinkedAsWritten

(* A step that leaves alone what constructors are given and what is linked.*)
LEMMA GivenStays ==
  ASSUME GivenAsWritten, image' = image, objects' = objects,
         given' = given, linked' = linked, pending' = pending,
         phase' = phase \/ (Finished /\ Finished') \/ phase' \in {"halted", "astray"}
  PROVE  GivenAsWritten'
<1>1. ASSUME phase' \in {"attributes", "linked", "started", "dumped"}
      PROVE  \A a \in DOMAIN given' : given'[a] = ArgumentsOf(a)'
  <2>1. \A a \in DOMAIN given : given[a] = ArgumentsOf(a)
    BY <1>1 DEF GivenAsWritten, Finished
  <2> QED BY <2>1, WrittenStays
<1>2. ASSUME Finished'
      PROVE  DOMAIN objects' \subseteq DOMAIN given' /\ LinkedAsWritten'
  BY <1>2, LinkedStays DEF GivenAsWritten, Finished
<1> QED BY <1>1, <1>2 DEF GivenAsWritten, Finished

(* The constructor of an attribute is run.                                 *)
LEMMA ConstructorStep ==
  ASSUME LoadInv, AttributesInv, Ordered, Single, GivenAsWritten, RunAttributeConstructor
  PROVE  GivenAsWritten'
<1> DEFINE a == Head(pending)
<1>1. CASE Halt \/ Astray
  BY <1>1, GivenStays DEF Halt, Astray, End, reading
<1>2. CASE \E raises \in BOOLEAN : /\ Execute(objects[a].ctor, a, raises)
                                   /\ given' = With(given, a, Parameters(a))
  <2>1. /\ phase = "attributes" /\ phase' = "attributes" /\ Ready
        /\ image' = image /\ objects' = objects
        /\ pending # <<>> /\ pending' = Tail(pending)
        /\ given' = With(given, a, Parameters(a))
    BY <1>2 DEF RunAttributeConstructor, Execute, reading, Ready
  <2>2. /\ pending \in Seq(DOMAIN objects)
        /\ DOMAIN objects \subseteq DOMAIN given \union Range(pending)
        /\ \A x \in DOMAIN given : given[x] = ArgumentsOf(x)
    BY <2>1 DEF GivenAsWritten
  <2>3. /\ a \in DOMAIN objects
        /\ pending' \in Seq(DOMAIN objects)
        /\ Range(pending) \subseteq {a} \union Range(pending')
    <3> DEFINE D == DOMAIN objects
    <3>1. pending \in Seq(D) /\ pending # <<>>
      BY <2>1, <2>2
    <3> HIDE DEF D
    <3>2. /\ Head(pending) \in D /\ Head(pending) = pending[1] /\ Tail(pending) \in Seq(D)
          /\ Len(pending) \in Nat /\ DOMAIN pending = 1..Len(pending)
          /\ DOMAIN Tail(pending) = 1..(Len(pending) - 1)
          /\ \A i \in 1..(Len(pending) - 1) : Tail(pending)[i] = pending[i + 1]
      BY <3>1
    <3>3. ASSUME NEW i \in 1..Len(pending), i # 1
          PROVE  pending[i] \in Range(Tail(pending))
      <4>1. i - 1 \in 1..(Len(pending) - 1) /\ (i - 1) + 1 = i
        BY <3>2, <3>3
      <4>2. Tail(pending)[i - 1] = pending[(i - 1) + 1]
        BY <3>2, <4>1
      <4> QED BY <3>2, <4>1, <4>2 DEF Range
    <3>4. Range(pending) \subseteq {Head(pending)} \union Range(Tail(pending))
      BY <3>2, <3>3 DEF Range
    <3> QED BY <2>1, <3>2, <3>4 DEF D
  <2>4. Parameters(a) = ArgumentsOf(a)
    BY <2>1, <2>3, ConstructorGiven
  <2> HIDE DEF a
  <2>5. /\ DOMAIN given' = DOMAIN given \union {a}
        /\ \A x \in DOMAIN given' : given'[x] = ArgumentsOf(x)
    BY <2>1, <2>2, <2>4 DEF With
  <2>6. \A x \in DOMAIN given' : given'[x] = ArgumentsOf(x)'
    BY <2>1, <2>5, WrittenStays
  <2>7. DOMAIN objects' \subseteq DOMAIN given' \union Range(pending')
    BY <2>1, <2>2, <2>3, <2>5
  <2>8. pending' \in Seq(DOMAIN objects')
    BY <2>1, <2>3
  <2> QED BY <2>1, <2>6, <2>7, <2>8 DEF GivenAsWritten, Finished
<1> QED BY <1>1, <1>2 DEF RunAttributeConstructor

(* LdrExecuteAttributesConstructors begins.                                *)
LEMMA StaticsStep ==
  ASSUME LoadInv, AttributesInv, Ordered, Single, GivenAsWritten, StaticsAreDone
  PROVE  GivenAsWritten'
<1>1. /\ phase = "statics" /\ phase' = "attributes"
      /\ given' = given /\ objects' = objects
      /\ pending' = FlattenSeq([i \in DOMAIN order |-> AttributesIn(order[i])])
  BY DEF StaticsAreDone, reading
<1>2. pending' \in Seq(DOMAIN objects) /\ DOMAIN objects \subseteq Range(pending')
  BY <1>1, NoneLeftOut
<1>3. given' = <<>> /\ DOMAIN <<>> = {}
  BY <1>1 DEF GivenAsWritten
<1>4. \A a \in DOMAIN given' : given'[a] = ArgumentsOf(a)'
  BY <1>3
<1> QED BY <1>1, <1>2, <1>4 DEF GivenAsWritten, Finished

(* FarInitialize links the native methods.                                 *)
LEMMA LinkStep ==
  ASSUME LoadInv, AttributesInv, Ordered, Single, GivenAsWritten, Link
  PROVE  GivenAsWritten'
<1> DEFINE known(m) == {i \in FarCallsOf(m) : given[AttributesOf(m)[i]][1][1] \in Imports}
           native == {m \in DOMAIN domain.methods : known(m) # {}}
<1>1. CASE Astray
  BY <1>1, GivenStays DEF Astray, End, reading
<1>2. CASE ~Astray
  <2>1. /\ phase = "attributes" /\ phase' = "linked" /\ Ready
        /\ linked' = [m \in native |-> given[AttributesOf(m)[Max(known(m))]]]
        /\ image' = image /\ objects' = objects /\ given' = given /\ pending = <<>>
    BY <1>2 DEF Link, reading, Ready
  <2>2. Range(<<>>) = {}
    BY DEF Range
  <2>3. /\ DOMAIN objects \subseteq DOMAIN given
        /\ \A a \in DOMAIN given : given[a] = ArgumentsOf(a)
    BY <2>1, <2>2 DEF GivenAsWritten
  <2>4. \A a \in DOMAIN objects : given[a] = ArgumentsOf(a)
    BY <2>3
  <2>5. ASSUME NEW s \in Sections("method")
        PROVE  IF ImportsNamed(s.id) = {} THEN s.id \notin DOMAIN linked'
               ELSE /\ s.id \in DOMAIN linked'
                    /\ linked'[s.id] = ArgumentsOf(image[Max(ImportsNamed(s.id))].id)
    <3> DEFINE m == s.id
    <3>1. m \in DOMAIN domain.methods
      <4>1. Complete
        BY <2>1 DEF LoadInv, Complete, Loadable
      <4> QED BY <4>1, MethodInImage
    <3>2. /\ known(m) = {} <=> ImportsNamed(m) = {}
          /\ known(m) # {} => given[AttributesOf(m)[Max(known(m))]]
                             = ArgumentsOf(image[Max(ImportsNamed(m))].id)
      BY <2>1, <2>4, LastImport
    <3> HIDE DEF known
    <3>3. DOMAIN linked' = native
      BY <2>1
    <3>4. m \in native <=> known(m) # {}
      BY <3>1
    <3>5. m \in native => linked'[m] = given[AttributesOf(m)[Max(known(m))]]
      BY <2>1
    <3> HIDE DEF native, m
    <3>6. CASE ImportsNamed(m) = {}
      BY <3>2, <3>3, <3>4, <3>6 DEF m
    <3>7. CASE ImportsNamed(m) # {}
      BY <3>2, <3>3, <3>4, <3>5, <3>7 DEF m
    <3> QED BY <3>6, <3>7
  <2>6. LinkedAsWritten'
    <3>1. Sections("method")' = Sections("method")
      BY <2>1, WrittenStays
    <3>2. ASSUME NEW s \in Sections("method")
          PROVE  IF ImportsNamed(s.id)' = {} THEN s.id \notin DOMAIN linked'
                 ELSE /\ s.id \in DOMAIN linked'
                      /\ linked'[s.id] = ArgumentsOf(image[Max(ImportsNamed(s.id))].id)'
      <4>1. ImportsNamed(s.id)' = ImportsNamed(s.id)
        BY <2>1 DEF ImportsNamed, ArgumentsOf, ArgumentsBefore
      <4>2. ArgumentsOf(image[Max(ImportsNamed(s.id))].id)' = ArgumentsOf(image[Max(ImportsNamed(s.id))].id)
        BY <2>1, <4>1 DEF ArgumentsOf, ArgumentsBefore
      <4> QED BY <2>5, <4>1, <4>2
    <3> QED BY <3>1, <3>2 DEF LinkedAsWritten
  <2>7. \A a \in DOMAIN given' : given'[a] = ArgumentsOf(a)'
    BY <2>1, <2>3, WrittenStays
  <2> QED BY <2>1, <2>3, <2>6, <2>7 DEF GivenAsWritten, Finished
<1> QED BY <1>1, <1>2

(* Each step keeps what the constructors were given.                       *)
LEMMA GivenStep ==
  ASSUME LoadInv, AttributesInv, GivenInv, [Next]_vars
  PROVE  GivenInv'
<1>1. image' = image
  BY DEF Next, vars, LoadTable, LoadUnknown, LoadType, LoadField, LoadMethod, LoadExecutable,
         LoadHandler, LoadAttribute, LoadArgument, LayOut, RunStaticConstructor, StaticsAreDone,
         RunAttributeConstructor, Link, RunInitializer, Collect, Execute, Loaded, Halt, Astray, End,
         reading
<1>2. SUFFICES ASSUME Ordered, Single, GivenAsWritten
               PROVE  GivenAsWritten'
  BY <1>1, OrderedStays, SingleStays DEF GivenInv
<1>3. ASSUME given' = given, phase \in {"loading", "statics"}, phase' \in {"loading", "statics"}
      PROVE  GivenAsWritten'
  BY <1>2, <1>3 DEF GivenAsWritten, Finished
<1>4. ASSUME Halt \/ Astray
      PROVE  GivenAsWritten'
  BY <1>2, <1>4, GivenStays DEF Halt, Astray, End, reading
<1>5. CASE \/ LoadTable \/ LoadUnknown \/ LoadType \/ LoadField \/ LoadMethod
           \/ LoadExecutable \/ LoadHandler \/ LoadAttribute \/ LoadArgument
  <2>1. ASSUME Loaded, Loading
        PROVE  GivenAsWritten'
    BY <1>3, <2>1 DEF Loaded, Loading
  <2>2. Loading /\ (Loaded \/ Halt \/ Astray)
    BY <1>5 DEF LoadTable, LoadUnknown, LoadType, LoadField, LoadMethod, LoadExecutable,
         LoadHandler, LoadAttribute, LoadArgument
  <2> QED BY <1>4, <2>1, <2>2
<1>6. CASE LayOut
  BY <1>3, <1>4, <1>6 DEF LayOut
<1>7. CASE RunStaticConstructor
  BY <1>3, <1>4, <1>7 DEF RunStaticConstructor, Execute
<1>8. CASE StaticsAreDone
  BY <1>2, <1>8, StaticsStep
<1>9. CASE RunAttributeConstructor
  BY <1>2, <1>9, ConstructorStep
<1>10. CASE Link
  BY <1>2, <1>10, LinkStep
<1>11. CASE RunInitializer
  <2>1. ASSUME NEW how, how \in {"halted", "dumped", "started"}, End(how), phase = "linked"
        PROVE  GivenAsWritten'
    BY <1>2, <2>1, GivenStays DEF End, reading, Finished
  <2> QED BY <1>11, <2>1 DEF RunInitializer, Halt
<1>12. CASE Collect
  <2>1. CASE Astray
    BY <1>4, <2>1
  <2>2. CASE UNCHANGED <<reading, given, linked, pending, phase>>
    BY <1>2, <2>2, GivenStays DEF reading
  <2> QED BY <1>12, <2>1, <2>2 DEF Collect
<1>13. CASE UNCHANGED vars
  BY <1>2, <1>13, GivenStays DEF vars, reading
<1> QED BY <1>5, <1>6, <1>7, <1>8, <1>9, <1>10, <1>11, <1>12, <1>13 DEF Next

(* LdrExecuteAttributesConstructors and FarInitialize: an attribute whose  *)
(* constructor has run was given what the image writes, each of the others *)
(* is still to come, and after the last one each native method is linked   *)
(* to the last import that its attributes name.                            *)
THEOREM ConstructorsAreGiven == Spec => []GivenInv
<1>1. Init => GivenInv
  BY DEF Init, GivenInv, GivenAsWritten, Finished
<1> QED BY <1>1, GivenStep, DomainIsAsWritten, AttributesAreRead, PTL DEF Spec

(* What MxStart promises of the attributes when the initializer starts,    *)
(* for every image in order whose arguments have one value each.           *)
THEOREM AttributesAreGiven == Spec => []AttributesAreAsWritten
<1>1. ASSUME LoadInv, AttributesInv, GivenInv
      PROVE  AttributesAreAsWritten
  <2>1. SUFFICES ASSUME Finished, Ordered, Single
                 PROVE  /\ \A a \in Sections("attribute") : given[a.id] = ArgumentsOf(a.id)
                        /\ LinkedAsWritten
    BY DEF AttributesAreAsWritten, Finished, LinkedAsWritten
  <2>2. /\ DOMAIN objects \subseteq DOMAIN given /\ LinkedAsWritten
        /\ \A a \in DOMAIN given : given[a] = ArgumentsOf(a)
    BY <1>1, <2>1 DEF GivenInv, GivenAsWritten
  <2>3. ASSUME NEW a \in Sections("attribute")
        PROVE  a.id \in DOMAIN objects
    <3>1. ReadInv /\ AttributeInv /\ Ready
      BY <1>1, <2>1 DEF LoadInv, AttributesInv, Finished, Ready
    <3>2. PICK j \in 1..Len(image) : image[j] = a /\ image[j].kind = "attribute"
      BY <3>1, ImageFacts DEF Sections, Range, ReadInv
    <3>3. j \in 1..(position - 1)
      BY <3>1, ImageFacts DEF ReadInv
    <3> QED BY <3>1, <3>2, <3>3 DEF AttributeInv, Read, Before
  <2> QED BY <2>2, <2>3
<1> QED BY <1>1, DomainIsAsWritten, AttributesAreRead, ConstructorsAreGiven, PTL

==============================================================================
