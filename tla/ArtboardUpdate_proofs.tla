----------------------- MODULE ArtboardUpdate_proofs ------------------------
(* Theorems about ArtboardUpdate, for any file: any number of nodes, any     *)
(* tree, any constraints without a cycle, any solos, with or without a       *)
(* joystick.                                                                 *)
(*   induction, folds, recursion     what the definitions below rest on      *)
(*   the dependency order            every component, before its dependents  *)
(*   marks and collapses             how far dirt and collapses spread       *)
(*   the invariant                   and the actions that keep it            *)
(*   the theorems about the runs' properties                                 *)
EXTENDS ArtboardUpdate, FiniteSetTheorems, SequenceTheorems, WellFoundedInduction, TLAPS

(***************************************************************************)
(* Induction and folds                                                       *)
(***************************************************************************)

\* The order of the natural numbers, for WFMin.
LEMMA LessIsWellFounded == IsWellFoundedOn({p \in Nat \X Nat : p[1] < p[2]}, Nat)
  BY NatLessThanWellFounded, Zenon DEF OpToRel

\* A nonempty set of natural numbers has a least member.
LEMMA LeastMember ==
    ASSUME NEW S \in SUBSET Nat, S # {}
    PROVE  \E n \in S : \A m \in S : n <= m
<1> DEFINE R == {p \in Nat \X Nat : p[1] < p[2]}
<1>1. IsWellFoundedOn(R, Nat)
  BY LessIsWellFounded
<1>2. S \subseteq Nat /\ S # {}
  OBVIOUS
<1> HIDE DEF R
<1>3. \E n \in S : \A m \in S : <<m, n>> \notin R
  BY <1>1, <1>2, WFMin, Zenon
<1>4. PICK n \in S : \A m \in S : <<m, n>> \notin R
  BY <1>3
<1>5. ASSUME NEW m \in S PROVE n <= m
  <2>1. ~ (m < n)
    BY <1>2, <1>4 DEF R
  <2>2. QED
    BY <1>2, <2>1
<1>6. QED
  BY <1>5

\* Induction over the natural numbers, for a set.
LEMMA SetInduction ==
    ASSUME NEW S \in SUBSET Nat, 0 \in S, \A n \in S : n + 1 \in S
    PROVE  S = Nat
<1> SUFFICES ASSUME Nat \ S # {} PROVE FALSE
  OBVIOUS
<1>1. PICK n \in Nat \ S : \A m \in Nat \ S : n <= m
  BY LeastMember
<1>2. n # 0 /\ n - 1 \in Nat /\ n - 1 < n /\ (n - 1) + 1 = n
  BY <1>1
<1>3. QED
  BY <1>1, <1>2

\* The largest of some of the first n positive numbers.
LEMMA MaxOfSome ==
    ASSUME NEW n \in Nat, NEW s \in SUBSET (1..n), s # {}
    PROVE  /\ Max(s) \in s
           /\ \A x \in s : x <= Max(s)
<1> DEFINE D == {n - x : x \in s}
<1>1. D \in SUBSET Nat /\ D # {}
  <2>1. \A x \in s : x \in Nat /\ x <= n /\ n - x \in Nat
    OBVIOUS
  <2>2. QED
    BY <2>1
<1>2. PICK d \in D : \A e \in D : d <= e
  BY <1>1, LeastMember
<1>3. PICK m \in s : d = n - m
  BY <1>2
<1>4. \A y \in s : m >= y
  BY <1>2, <1>3
<1>5. Max(s) \in s /\ \A y \in s : Max(s) >= y
  BY <1>4 DEF Max
<1>6. QED
  BY <1>5

\* Taking the greatest index from a set of indices leaves smaller ones.
LEMMA WithoutMax ==
    ASSUME NEW n \in Nat, NEW m \in Nat, m < n, NEW s \in SUBSET (1..(m + 1)), s # {}
    PROVE  /\ Max(s) \in 1..(m + 1)
           /\ s \ {Max(s)} \in SUBSET (1..m)
<1>1. /\ Max(s) \in s
      /\ \A x \in s : x <= Max(s)
  BY m + 1 \in Nat, MaxOfSome
<1>2. ASSUME NEW x \in s \ {Max(s)} PROVE x \in 1..m
  <2>1. x \in 1..(m + 1) /\ Max(s) \in 1..(m + 1) /\ x <= Max(s) /\ x # Max(s)
    BY <1>1
  <2>2. QED
    BY <2>1
<1>3. QED
  BY <1>1, <1>2

\* The largest of the first i positive numbers, and what is left without it.
LEMMA MaxOfPrefix ==
    ASSUME NEW i \in Nat, i > 0
    PROVE  /\ Max(1..i) = i
           /\ (1..i) \ {i} = 1..(i - 1)
           /\ 1..i # {}
<1>1. 1..i # {} /\ (1..i) \ {i} = 1..(i - 1)
  OBVIOUS
<1>2. /\ Max(1..i) \in 1..i
      /\ \A x \in 1..i : x <= Max(1..i)
  BY <1>1, MaxOfSome
<1>3. QED
  BY <1>1, <1>2

\* The recursive function of MapThenFoldSet, for FoldLeft: from an iteration I over
\* smaller sets of indices to the set s.
FoldStep(f, base, seq, I, s) ==
    IF s = {} THEN base ELSE f[seq[Max(s)]][I[s \ {Max(s)}]]

\* I is that function on the sets of the first m indices.
FoldFits(f, base, seq, I, m) ==
    \A s \in SUBSET (1..m) : I[s] = FoldStep(f, base, seq, I, s)

\* It extends by one index,
LEMMA FoldFitsOneMore ==
    ASSUME NEW f, NEW base, NEW seq, NEW n \in Nat, NEW m \in Nat, m < n,
           NEW I, FoldFits(f, base, seq, I, m)
    PROVE  \E J : J = [s \in SUBSET (1..n) |-> J[s]] /\ FoldFits(f, base, seq, J, m + 1)
<1> DEFINE J == [s \in SUBSET (1..n) |-> FoldStep(f, base, seq, I, s)]
<1>1. ASSUME NEW s \in SUBSET (1..(m + 1)) PROVE J[s] = FoldStep(f, base, seq, J, s)
  <2>1. J[s] = FoldStep(f, base, seq, I, s)
    OBVIOUS
  <2>2. CASE s = {}
    BY <2>1, <2>2 DEF FoldStep
  <2>3. CASE s # {}
    <3>1. s \ {Max(s)} \in SUBSET (1..m)
      BY <2>3, WithoutMax
    <3>2. s \ {Max(s)} \in SUBSET (1..n)
      BY <3>1
    <3>3. J[s \ {Max(s)}] = I[s \ {Max(s)}]
      BY <3>1, <3>2 DEF FoldFits
    <3>4. QED
      BY <2>1, <2>3, <3>3 DEF FoldStep
  <2>4. QED
    BY <2>2, <2>3
<1>2. J = [s \in SUBSET (1..n) |-> J[s]]
  OBVIOUS
<1> HIDE DEF J
<1>3. QED
  BY <1>1, <1>2 DEF FoldFits

\* so that it exists.
LEMMA FoldExists ==
    ASSUME NEW f, NEW base, NEW seq, NEW n \in Nat
    PROVE  \E I : I = [s \in SUBSET (1..n) |-> FoldStep(f, base, seq, I, s)]
<1> DEFINE Some(m) == \E I : I = [s \in SUBSET (1..n) |-> I[s]] /\ FoldFits(f, base, seq, I, m)
           P == {m \in Nat : m <= n => Some(m)}
<1>1. Some(0)
  <2> DEFINE I == [s \in SUBSET (1..n) |-> base]
  <2>1. \A s \in SUBSET (1..0) : s = {} /\ s \in SUBSET (1..n)
    OBVIOUS
  <2>2. FoldFits(f, base, seq, I, 0)
    BY <2>1 DEF FoldStep, FoldFits
  <2>3. I = [s \in SUBSET (1..n) |-> I[s]]
    OBVIOUS
  <2> HIDE DEF I
  <2>4. QED
    BY <2>2, <2>3
<1>2. ASSUME NEW m \in Nat, m < n, Some(m) PROVE Some(m + 1)
  BY <1>2, FoldFitsOneMore
<1> HIDE DEF Some
<1>3. \A m \in P : m + 1 \in P
  BY <1>2
<1>4. 0 \in P /\ P \in SUBSET Nat
  BY <1>1
<1> HIDE DEF P
<1>5. P = Nat
  BY <1>3, <1>4, SetInduction
<1>6. Some(n)
  BY <1>5 DEF P
<1>7. PICK I : I = [s \in SUBSET (1..n) |-> I[s]] /\ FoldFits(f, base, seq, I, n)
  BY <1>6 DEF Some
<1>8. I = [s \in SUBSET (1..n) |-> FoldStep(f, base, seq, I, s)]
  BY <1>7 DEF FoldFits
<1>9. QED
  BY <1>8

\* What Visit does with the dependents of a component.
VisitAll(f, base, seq) == FoldLeft(LAMBDA o, d : f[d][o], base, seq)

\* FoldLeft goes through a sequence from its first element to its last.
LEMMA FoldThrough ==
    ASSUME NEW f, NEW base, NEW S, NEW seq \in Seq(S)
    PROVE  \E put :
               /\ put[0] = base
               /\ \A i \in 1..Len(seq) : put[i] = f[seq[i]][put[i - 1]]
               /\ VisitAll(f, base, seq) = put[Len(seq)]
<1> DEFINE n == Len(seq)
           iter == CHOOSE I : I = [s \in SUBSET (1..n) |-> FoldStep(f, base, seq, I, s)]
           put == [i \in 0..n |-> iter[1..i]]
<1>1. n \in Nat /\ DOMAIN seq = 1..n
  OBVIOUS
<1>2. iter = [s \in SUBSET (1..n) |-> FoldStep(f, base, seq, iter, s)]
  BY <1>1, FoldExists
<1>3. VisitAll(f, base, seq) = iter[1..n]
  BY <1>1 DEF VisitAll, FoldLeft, MapThenFoldSet, FoldStep
<1> HIDE DEF iter, n
<1>4. put[0] = base
  <2>1. 1..0 = {} /\ 1..0 \in SUBSET (1..n) /\ 0 \in 0..n
    BY <1>1
  <2>2. QED
    BY <1>2, <2>1 DEF FoldStep
<1>5. ASSUME NEW i \in 1..n PROVE put[i] = f[seq[i]][put[i - 1]]
  <2>1. /\ 1..i # {} /\ Max(1..i) = i /\ (1..i) \ {i} = 1..(i - 1)
    <3>1. i \in Nat /\ i > 0
      BY <1>1
    <3>2. QED
      BY <3>1, MaxOfPrefix
  <2>2. 1..i \in SUBSET (1..n) /\ i \in 0..n /\ i - 1 \in 0..n
    BY <1>1
  <2>3. put[i] = iter[1..i] /\ put[i - 1] = iter[1..(i - 1)]
    BY <2>2
  <2>4. iter[1..i] = FoldStep(f, base, seq, iter, 1..i)
    BY <1>2, <2>2
  <2>5. QED
    BY <2>1, <2>3, <2>4 DEF FoldStep
<1>6. put[n] = iter[1..n]
  BY <1>1
<1>7. /\ put[0] = base
      /\ \A i \in 1..Len(seq) : put[i] = f[seq[i]][put[i - 1]]
      /\ VisitAll(f, base, seq) = put[Len(seq)]
  BY <1>3, <1>4, <1>5, <1>6 DEF n
<1>8. QED
  BY <1>7

(***************************************************************************)
(* Recursive functions of a number, and the order of the file                *)
(***************************************************************************)

\* R starts with base and goes on by the steps up to the n-th.
Steps(R, n, base, grow) ==
    R[0] = base /\ \A k \in 1..n : R[k] = grow[k][R[k - 1]]

\* Such a function exists.
LEMMA RecursionExists ==
    ASSUME NEW n \in Nat, NEW V, NEW base \in V, NEW grow \in [1..n -> [V -> V]]
    PROVE  \E R \in [0..n -> V] : Steps(R, n, base, grow)
<1> DEFINE Some(m) == \E R \in [0..n -> V] :
                          R[0] = base /\ \A k \in 1..m : R[k] = grow[k][R[k - 1]]
           P == {m \in Nat : m <= n => Some(m)}
<1>1. Some(0)
  <2>1. [k \in 0..n |-> base] \in [0..n -> V] /\ 0 \in 0..n
    OBVIOUS
  <2> DEFINE R == [k \in 0..n |-> base]
  <2>2. R \in [0..n -> V] /\ R[0] = base /\ \A k \in 1..0 : FALSE
    BY <2>1
  <2> HIDE DEF R
  <2>3. QED
    BY <2>2
<1>2. ASSUME NEW m \in Nat, m < n, Some(m) PROVE Some(m + 1)
  <2>1. PICK R \in [0..n -> V] :
           R[0] = base /\ \A k \in 1..m : R[k] = grow[k][R[k - 1]]
    BY <1>2
  <2>2. /\ m \in 0..n /\ m + 1 \in 1..n /\ m + 1 \in 0..n /\ (m + 1) - 1 = m
        /\ \A k \in 1..(m + 1) : k = m + 1 \/ k \in 1..m
        /\ \A k \in 1..m : k \in 0..n /\ k - 1 \in 0..n /\ k # m + 1 /\ k - 1 # m + 1
        /\ 0 # m + 1 /\ 0 \in 0..n /\ m # m + 1
    BY <1>2
  <2> DEFINE x == grow[m + 1][R[m]]
             J == [R EXCEPT ![m + 1] = x]
  <2>3. x \in V
    BY <2>1, <2>2
  <2> HIDE DEF x
  <2>4. J \in [0..n -> V] /\ J[m + 1] = x /\ \A k \in 0..n : k # m + 1 => J[k] = R[k]
    BY <2>1, <2>2, <2>3
  <2> HIDE DEF J
  <2>5. J[m + 1] = grow[m + 1][J[(m + 1) - 1]]
    BY <2>2, <2>4 DEF x
  <2>6. \A k \in 1..m : J[k] = grow[k][J[k - 1]]
    BY <2>1, <2>2, <2>4
  <2>7. J[0] = base
    BY <2>1, <2>2, <2>4
  <2>8. \A k \in 1..(m + 1) : J[k] = grow[k][J[k - 1]]
    BY <2>2, <2>5, <2>6
  <2>9. QED
    BY <2>4, <2>7, <2>8
<1> HIDE DEF Some
<1>3. \A m \in P : m + 1 \in P
  BY <1>2
<1>4. 0 \in P /\ P \in SUBSET Nat
  BY <1>1
<1> HIDE DEF P
<1>5. P = Nat
  BY <1>3, <1>4, SetInduction
<1>6. Some(n)
  BY <1>5 DEF P
<1>7. QED
  BY <1>6 DEF Some, Steps

\* Induction up to n.
LEMMA UpTo ==
    ASSUME NEW n \in Nat, NEW S, 0 \in S, \A k \in 1..n : k - 1 \in S => k \in S
    PROVE  0..n \subseteq S
<1> DEFINE P == {m \in Nat : m <= n => m \in S}
<1>1. ASSUME NEW m \in P PROVE m + 1 \in P
  <2>1. m \in Nat /\ (m <= n => m \in S)
    OBVIOUS
  <2>2. CASE m + 1 <= n
    <3>1. m + 1 \in 1..n /\ (m + 1) - 1 \in S
      BY <2>1, <2>2
    <3>2. QED
      BY <2>1, <3>1
  <2>3. QED
    BY <2>1, <2>2
<1>2. 0 \in P /\ P \in SUBSET Nat
  OBVIOUS
<1>3. P = Nat
  <2> HIDE DEF P
  <2>1. QED
    BY <1>1, <1>2, SetInduction
<1>4. QED
  BY <1>3

\* What is in a sequence after Append.
LEMMA RangeOfAppend ==
    ASSUME NEW S, NEW s \in Seq(S), NEW x \in S
    PROVE  Append(s, x) \in Seq(S) /\ Range(Append(s, x)) = Range(s) \cup {x}
<1>1. /\ Append(s, x) \in Seq(S) /\ Len(Append(s, x)) = Len(s) + 1
      /\ DOMAIN s = 1..Len(s) /\ DOMAIN Append(s, x) = 1..(Len(s) + 1)
      /\ Append(s, x)[Len(s) + 1] = x
      /\ \A i \in 1..Len(s) : Append(s, x)[i] = s[i]
      /\ Len(s) \in Nat
  OBVIOUS
<1> DEFINE t == Append(s, x)
<1> HIDE DEF t
<1>2. ASSUME NEW y \in Range(t) PROVE y \in Range(s) \cup {x}
  <2>1. PICK i \in 1..(Len(s) + 1) : y = t[i]
    BY <1>1 DEF Range, t
  <2>2. i \in 1..Len(s) \/ i = Len(s) + 1
    BY <1>1
  <2>3. QED
    BY <1>1, <2>1, <2>2 DEF Range, t
<1>3. ASSUME NEW y \in Range(s) \cup {x} PROVE y \in Range(t)
  <2>1. CASE y = x
    <3>1. Len(s) + 1 \in DOMAIN t /\ t[Len(s) + 1] = x
      BY <1>1 DEF t
    <3>2. QED
      BY <2>1, <3>1 DEF Range
  <2>2. CASE y \in Range(s)
    <3>1. PICK i \in 1..Len(s) : y = s[i]
      BY <1>1, <2>2 DEF Range
    <3>2. i \in DOMAIN t /\ t[i] = y
      BY <1>1, <3>1 DEF t
    <3>3. QED
      BY <3>2 DEF Range
  <2>3. QED
    BY <2>1, <2>2
<1>4. QED
  BY <1>1, <1>2, <1>3 DEF t

(***************************************************************************)
(* Dependencies                                                              *)
(***************************************************************************)

\* What is in two sequences one after the other.
LEMMA RangeOfConcat ==
    ASSUME NEW S, NEW s \in Seq(S), NEW t \in Seq(S)
    PROVE  s \o t \in Seq(S) /\ Range(s \o t) = Range(s) \cup Range(t)
<1> DEFINE u == s \o t
           m == Len(s)
           n == Len(t)
<1>1. /\ u \in Seq(S) /\ m \in Nat /\ n \in Nat
      /\ DOMAIN s = 1..m /\ DOMAIN t = 1..n /\ DOMAIN u = 1..(m + n)
      /\ \A i \in 1..m : u[i] = s[i]
      /\ \A i \in 1..n : u[m + i] = t[i]
  <2>1. u \in Seq(S) /\ Len(u) = m + n /\ m \in Nat /\ n \in Nat
    OBVIOUS
  <2>2. \A i \in 1..m : u[i] = s[i]
    OBVIOUS
  <2>3. ASSUME NEW i \in 1..n PROVE u[m + i] = t[i]
    <3>1. m + i \in 1..(m + n) /\ ~(m + i <= m) /\ (m + i) - m = i
      BY <2>1
    <3>2. QED
      BY <3>1
  <2>4. QED
    BY <2>1, <2>2, <2>3
<1> HIDE DEF u, m, n
<1>2. ASSUME NEW y \in Range(u) PROVE y \in Range(s) \cup Range(t)
  <2>1. PICK i \in 1..(m + n) : y = u[i]
    BY <1>1 DEF Range
  <2>2. CASE i \in 1..m
    BY <1>1, <2>1, <2>2 DEF Range
  <2>3. CASE i \notin 1..m
    <3>1. i - m \in 1..n /\ m + (i - m) = i
      BY <1>1, <2>3
    <3>2. QED
      BY <1>1, <2>1, <3>1 DEF Range
  <2>4. QED
    BY <2>2, <2>3
<1>3. ASSUME NEW y \in Range(s) \cup Range(t) PROVE y \in Range(u)
  <2>1. CASE y \in Range(s)
    <3>1. PICK i \in 1..m : y = s[i]
      BY <1>1, <2>1 DEF Range
    <3>2. i \in 1..(m + n) /\ u[i] = y
      BY <1>1, <3>1
    <3>3. QED
      BY <1>1, <3>2 DEF Range
  <2>2. CASE y \in Range(t)
    <3>1. PICK i \in 1..n : y = t[i]
      BY <1>1, <2>2 DEF Range
    <3>2. m + i \in 1..(m + n) /\ u[m + i] = y
      BY <1>1, <3>1
    <3>3. QED
      BY <1>1, <3>2 DEF Range
  <2>3. QED
    BY <2>1, <2>2
<1>4. QED
  BY <1>1, <1>2, <1>3 DEF u

\* The components a scene has.
Present(s) == Nodes \cup {Artboard} \cup (IF s.handle # None THEN {Joystick} ELSE {})

\* The dependents of a component, as a set.
DependentSet(s, c) ==
    {n \in Nodes : s.parent[n] = c \/ s.target[n] = c}
    \cup (IF s.handle # None /\ c \in {s.handle, Artboard} THEN {Joystick} ELSE {})

\* What an object of the file adds is a component of the scene, one that depends on
\* the other.
LEMMA ObjectFacts ==
    ASSUME NEW s, NEW c, NEW object \in ObjectType, AddsTo(s, object, c)
    PROVE  object.id \in Present(s) /\ object.id \in DependentSet(s, c)
<1>1. CASE object \in [type : {"node", "constraint"}, id : Nodes]
  <2>1. object.id \in Nodes /\ object.type # "joystick"
    BY <1>1
  <2>2. s.parent[object.id] = c \/ s.target[object.id] = c
    BY <2>1 DEF AddsTo
  <2>3. QED
    BY <2>1, <2>2 DEF Present, DependentSet
<1>2. CASE object = [type |-> "joystick", id |-> Joystick]
  <2>1. object.id = Joystick /\ object.type = "joystick"
    BY <1>2
  <2>2. s.handle # None /\ c \in {Artboard, s.handle}
    BY <2>1 DEF AddsTo
  <2>3. QED
    BY <2>1, <2>2 DEF Present, DependentSet
<1>3. QED
  BY <1>1, <1>2 DEF ObjectType

\* What depends on a component is added to it by an object that files hold.
LEMMA DependentsHaveObjects ==
    ASSUME NEW s, NEW c, NEW d \in DependentSet(s, c)
    PROVE  \E object \in ObjectType : AddsTo(s, object, c) /\ object.id = d
<1>1. CASE d \in Nodes /\ s.parent[d] = c
  <2> DEFINE object == [type |-> "node", id |-> d]
  <2>1. object \in ObjectType /\ object.type = "node" /\ object.id = d
    BY <1>1 DEF ObjectType
  <2> HIDE DEF object
  <2>2. QED
    BY <1>1, <2>1 DEF AddsTo
<1>2. CASE d \in Nodes /\ s.target[d] = c
  <2> DEFINE object == [type |-> "constraint", id |-> d]
  <2>1. object \in ObjectType /\ object.type = "constraint" /\ object.id = d
    BY <1>2 DEF ObjectType
  <2> HIDE DEF object
  <2>2. QED
    BY <1>2, <2>1 DEF AddsTo
<1>3. CASE d = Joystick /\ s.handle # None /\ c \in {s.handle, Artboard}
  <2> DEFINE object == [type |-> "joystick", id |-> Joystick]
  <2>1. object \in ObjectType /\ object.type = "joystick" /\ object.id = d
    BY <1>3 DEF ObjectType
  <2> HIDE DEF object
  <2>2. QED
    BY <1>3, <2>1 DEF AddsTo
<1>4. QED
  BY <1>1, <1>2, <1>3 DEF DependentSet

\* addDependent puts a component into the list, if it is not there.
LEMMA AddDependentFacts ==
    ASSUME NEW S, NEW list \in Seq(S), NEW x \in S
    PROVE  /\ AddDependent(list, x) \in Seq(S)
           /\ Range(AddDependent(list, x)) = Range(list) \cup {x}
<1>1. CASE x \in Range(list)
  BY <1>1 DEF AddDependent
<1>2. CASE x \notin Range(list)
  BY <1>2, RangeOfAppend DEF AddDependent
<1>3. QED
  BY <1>1, <1>2

\* The recursive function of Dependents: what one object does to the list,
Built(s, c, list, object) ==
    IF AddsTo(s, object, c) THEN AddDependent(list, object.id) ELSE list

\* the list after i objects,
BuiltStep(s, c, R, i) ==
    IF i = 0 THEN <<>>
    ELSE IF AddsTo(s, Objects[i], c) THEN AddDependent(R[i - 1], Objects[i].id)
    ELSE R[i - 1]

\* and what an object makes of a list of components.
LEMMA BuiltFacts ==
    ASSUME NEW s, NEW c, NEW list \in Seq(Present(s)), NEW object \in ObjectType
    PROVE  /\ Built(s, c, list, object) \in Seq(Present(s))
           /\ Range(Built(s, c, list, object))
                  = Range(list) \cup (IF AddsTo(s, object, c) THEN {object.id} ELSE {})
<1>1. CASE AddsTo(s, object, c)
  <2>1. object.id \in Present(s)
    BY <1>1, ObjectFacts
  <2>2. QED
    BY <1>1, <2>1, AddDependentFacts DEF Built
<1>2. CASE ~AddsTo(s, object, c)
  BY <1>2 DEF Built
<1>3. QED
  BY <1>1, <1>2

\* The function exists.
LEMMA BuiltExists ==
    ASSUME NEW s, NEW c
    PROVE  \E R : R = [i \in 0..Len(Objects) |-> BuiltStep(s, c, R, i)]
<1> DEFINE n == Len(Objects)
           V == Seq(Present(s))
           none == <<>>
           grow == [i \in 1..n |-> [list \in V |-> Built(s, c, list, Objects[i])]]
<1>1. n \in Nat /\ none \in V /\ \A i \in 1..n : Objects[i] \in ObjectType
  BY ArtboardUpdateAssumption
<1>2. \A i \in 1..n : \A list \in V : Built(s, c, list, Objects[i]) \in V
  BY <1>1, BuiltFacts
<1>3. grow \in [1..n -> [V -> V]]
  BY <1>2
<1>4. \A i \in 1..n : \A list \in V : grow[i][list] = Built(s, c, list, Objects[i])
  OBVIOUS
<1> HIDE DEF grow, n, V, none
<1>5. PICK R \in [0..n -> V] : R[0] = none /\ \A k \in 1..n : R[k] = grow[k][R[k - 1]]
  <2>1. \E R \in [0..n -> V] : Steps(R, n, none, grow)
    BY <1>1, <1>3, RecursionExists
  <2>2. QED
    BY <2>1 DEF Steps
<1>6. ASSUME NEW i \in 0..n PROVE R[i] = BuiltStep(s, c, R, i)
  <2>1. CASE i = 0
    BY <1>5, <2>1 DEF BuiltStep, none
  <2>2. CASE i # 0
    <3>1. i \in 1..n /\ i - 1 \in 0..n
      BY <1>1, <2>2
    <3>2. R[i - 1] \in V
      BY <1>5, <3>1
    <3>3. R[i] = Built(s, c, R[i - 1], Objects[i])
      BY <1>4, <1>5, <3>1, <3>2
    <3>4. QED
      BY <2>2, <3>3 DEF BuiltStep, Built
  <2>3. QED
    BY <2>1, <2>2
<1>7. R = [i \in 0..n |-> BuiltStep(s, c, R, i)]
  BY <1>5, <1>6
<1>8. QED
  BY <1>7 DEF n

\* m_Dependents holds what depends on a component and nothing else.
LEMMA DependentsFacts ==
    ASSUME NEW s \in Scenes, NEW c
    PROVE  /\ Dependents(s, c) \in Seq(Present(s))
           /\ Range(Dependents(s, c)) = DependentSet(s, c)
<1> DEFINE n == Len(Objects)
           built == CHOOSE R : R = [i \in 0..Len(Objects) |-> BuiltStep(s, c, R, i)]
<1>1. /\ n \in Nat
      /\ ObjectType = {Objects[i] : i \in 1..n}
      /\ \A i \in 1..n : Objects[i] \in ObjectType
  BY ArtboardUpdateAssumption
<1>2. built = [i \in 0..n |-> BuiltStep(s, c, built, i)]
  BY BuiltExists
<1>3. Dependents(s, c) = built[n]
  BY DEF Dependents, BuiltStep
<1> HIDE DEF built, n
<1> DEFINE Upto(k) == {d \in DependentSet(s, c) :
                           \E i \in 1..k : AddsTo(s, Objects[i], c) /\ Objects[i].id = d}
           S == {k \in 0..n : built[k] \in Seq(Present(s)) /\ Range(built[k]) = Upto(k)}
<1>4. 0 \in S
  <2>1. built[0] = <<>> /\ 0 \in 0..n /\ 1..0 = {} /\ <<>> \in Seq(Present(s))
    BY <1>1, <1>2 DEF BuiltStep
  <2>2. Range(<<>>) = {}
    BY DEF Range
  <2>3. Upto(0) = {}
    BY <2>1
  <2>4. QED
    BY <2>1, <2>2, <2>3
<1>5. ASSUME NEW k \in 1..n, k - 1 \in S PROVE k \in S
  <2>1. k \in 0..n /\ k # 0 /\ Objects[k] \in ObjectType
    BY <1>1
  <2>2. built[k - 1] \in Seq(Present(s)) /\ Range(built[k - 1]) = Upto(k - 1)
    BY <1>5
  <2>3. built[k] = Built(s, c, built[k - 1], Objects[k])
    BY <1>2, <2>1 DEF BuiltStep, Built
  <2>4. /\ built[k] \in Seq(Present(s))
        /\ Range(built[k]) = Upto(k - 1)
                \cup (IF AddsTo(s, Objects[k], c) THEN {Objects[k].id} ELSE {})
    <3> DEFINE list == built[k - 1]
               object == Objects[k]
    <3>1. list \in Seq(Present(s)) /\ object \in ObjectType
      BY <2>1, <2>2
    <3> HIDE DEF list, object, Upto
    <3>2. /\ Built(s, c, list, object) \in Seq(Present(s))
          /\ Range(Built(s, c, list, object))
                 = Range(list) \cup (IF AddsTo(s, object, c) THEN {object.id} ELSE {})
      BY <3>1, BuiltFacts
    <3>3. QED
      BY <2>2, <2>3, <3>2 DEF list, object
  <2>5. 1..k = (1..(k - 1)) \cup {k}
    BY <1>1
  <2>6. Upto(k) = Upto(k - 1) \cup (IF AddsTo(s, Objects[k], c) THEN {Objects[k].id} ELSE {})
    <3>1. AddsTo(s, Objects[k], c) => Objects[k].id \in DependentSet(s, c)
      BY <2>1, ObjectFacts
    <3>2. QED
      BY <2>5, <3>1
  <2>7. QED
    BY <2>1, <2>4, <2>6
<1>6. n \in S
  <2> HIDE DEF S
  <2>1. 0..n \subseteq S
    BY <1>1, <1>4, <1>5, UpTo
  <2>2. n \in 0..n
    BY <1>1
  <2>3. QED
    BY <2>1, <2>2
<1>7. Upto(n) = DependentSet(s, c)
  <2>1. ASSUME NEW d \in DependentSet(s, c)
        PROVE  \E i \in 1..n : AddsTo(s, Objects[i], c) /\ Objects[i].id = d
    <3>1. PICK object \in ObjectType : AddsTo(s, object, c) /\ object.id = d
      BY DependentsHaveObjects
    <3>2. PICK i \in 1..n : object = Objects[i]
      BY <1>1
    <3>3. QED
      BY <3>1, <3>2
  <2>2. QED
    BY <2>1
<1>8. QED
  BY <1>3, <1>6, <1>7

\* What a file may hold.
LEMMA SceneFacts ==
    ASSUME NEW s \in Scenes
    PROVE  /\ s.parent \in [Nodes -> Nodes \cup {Artboard}]
           /\ s.target \in [Nodes -> Nodes \cup {None}]
           /\ s.solos \subseteq Nodes
           /\ s.handle \in Nodes \cup {None}
           /\ s.driven \in Nodes \cup {None}
           /\ Acyclic(s)
  BY ArtboardUpdateAssumption DEF SceneType

\* A file holds finitely many nodes.
LEMMA NodesAreFinite == IsFiniteSet(Nodes) /\ Cardinality(Nodes) \in Nat
<1> DEFINE n == Len(Objects)
           Ids == {object.id : object \in ObjectType}
           id == [i \in 1..n |-> Objects[i].id]
<1>1. n \in Nat /\ ObjectType = {Objects[i] : i \in 1..n}
  BY ArtboardUpdateAssumption
<1>2. IsFiniteSet(1..n)
  BY <1>1, FS_Interval
<1>3. id \in Surjection(1..n, Ids)
  <2>1. \A i \in 1..n : Objects[i].id \in Ids
    BY <1>1
  <2>2. \A x \in Ids : \E i \in 1..n : Objects[i].id = x
    BY <1>1
  <2>3. QED
    BY <2>1, <2>2 DEF Surjection
<1>4. Nodes \subseteq Ids
  <2> SUFFICES ASSUME NEW x \in Nodes PROVE x \in Ids
    OBVIOUS
  <2> DEFINE object == [type |-> "node", id |-> x]
  <2>1. object \in ObjectType /\ object.id = x
    BY DEF ObjectType
  <2>2. QED
    BY <2>1
<1> HIDE DEF n, Ids, id
<1>5. IsFiniteSet(Ids)
  BY <1>2, <1>3, FS_Surjection
<1>6. IsFiniteSet(Nodes)
  BY <1>4, <1>5, FS_Subset
<1>7. QED
  BY <1>6, FS_CardinalityType

\* What depends on a node is deeper than the node.
Sinks(s, h, group) ==
    \A n \in group : /\ s.parent[n] \in Nodes => s.parent[n] \in group /\ h[s.parent[n]] < h[n]
                     /\ s.target[n] \in Nodes => s.target[n] \in group /\ h[s.target[n]] < h[n]

\* In a graph without cycles every node has a depth, greater than that of what it
\* is computed from: a largest group of nodes that have one holds them all.
LEMMA NodeDepths ==
    ASSUME NEW s \in Scenes
    PROVE  \E h \in [Nodes -> Nat] : \E b \in Nat :
               (\A n \in Nodes : h[n] < b) /\ Sinks(s, h, Nodes)
<1> DEFINE Deep(group) == \E h \in [Nodes -> Nat] : \E b \in Nat :
                             (\A n \in group : h[n] < b) /\ Sinks(s, h, group)
           D == {Cardinality(Nodes \ group) : group \in {g \in SUBSET Nodes : Deep(g)}}
<1>1. \A g \in SUBSET Nodes : /\ IsFiniteSet(Nodes \ g)
                              /\ Cardinality(Nodes \ g) \in Nat
  BY NodesAreFinite, FS_Subset, FS_CardinalityType
<1>2. D \in SUBSET Nat
  BY <1>1
<1>3. Deep({})
  <2>1. [n \in Nodes |-> 0] \in [Nodes -> Nat] /\ 0 \in Nat
    OBVIOUS
  <2>2. QED
    BY <2>1 DEF Sinks
<1>4. D # {}
  BY <1>3
<1>5. PICK d \in D : \A e \in D : d <= e
  BY <1>2, <1>4, LeastMember
<1>6. PICK group \in SUBSET Nodes : Deep(group) /\ d = Cardinality(Nodes \ group)
  BY <1>5
<1>7. SUFFICES ASSUME group # Nodes PROVE FALSE
  BY <1>6
<1>8. PICK n \in Nodes \ group : s.parent[n] \notin Nodes \ group /\ s.target[n] \notin Nodes \ group
  <2>1. Nodes \ group \in (SUBSET Nodes) \ {{}}
    BY <1>6, <1>7
  <2>2. QED
    BY <2>1, SceneFacts DEF Acyclic
<1>9. PICK h \in [Nodes -> Nat], b \in Nat :
          (\A m \in group : h[m] < b) /\ Sinks(s, h, group)
  BY <1>6
<1> DEFINE k == [h EXCEPT ![n] = b]
           more == group \cup {n}
<1>10. /\ k \in [Nodes -> Nat]
       /\ k[n] = b
       /\ \A m \in group : k[m] = h[m] /\ m # n /\ h[m] \in Nat
       /\ more \in SUBSET Nodes
  BY <1>6, <1>8, <1>9
<1> HIDE DEF k
<1>11. \A m \in more : k[m] < b + 1
  BY <1>9, <1>10
<1>12. Sinks(s, k, more)
  <2> SUFFICES ASSUME NEW m \in more,
                      NEW p \in {s.parent[m], s.target[m]}, p \in Nodes
               PROVE  p \in more /\ k[p] < k[m]
    BY DEF Sinks
  <2>1. CASE m = n
    <3>1. p \in group
      BY <1>8, <2>1
    <3>2. QED
      BY <1>9, <1>10, <2>1, <3>1
  <2>2. CASE m # n
    <3>1. m \in group /\ p \in group /\ h[p] < h[m]
      BY <1>9, <2>2 DEF Sinks
    <3>2. QED
      BY <1>10, <3>1
  <2>3. QED
    BY <2>1, <2>2
<1>13. Deep(more)
  BY <1>9, <1>10, <1>11, <1>12
<1>14. Cardinality(Nodes \ more) \in D
  BY <1>10, <1>13
<1>15. Cardinality(Nodes \ more) < d
  <2>1. Nodes \ more = (Nodes \ group) \ {n} /\ n \in Nodes \ group
    BY <1>8
  <2>2. Cardinality((Nodes \ group) \ {n}) = Cardinality(Nodes \ group) - 1
    BY <1>1, <1>6, <2>1, FS_RemoveElement
  <2>3. Cardinality(Nodes \ group) \in Nat /\ d = Cardinality(Nodes \ group)
    BY <1>1, <1>6
  <2>4. Cardinality(Nodes \ more) = d - 1
    BY <2>1, <2>2, <2>3
  <2>5. d \in Nat
    BY <2>3
  <2>6. QED
    BY <2>4, <2>5
<1>16. QED
  <2>1. d \in Nat /\ Cardinality(Nodes \ more) \in Nat
    BY <1>2, <1>5, <1>14
  <2>2. d <= Cardinality(Nodes \ more)
    BY <1>5, <1>14
  <2>3. QED
    BY <1>15, <2>1, <2>2

\* A component has the depth its place in the graph gives it.
DeeperDependents(s, depth, deepest) ==
    /\ depth \in [Components -> Nat]
    /\ deepest \in Nat
    /\ \A c \in Components : /\ depth[c] <= deepest
                             /\ \A d \in DependentSet(s, c) : depth[c] < depth[d]

\* So has every component.
LEMMA Depths ==
    ASSUME NEW s \in Scenes
    PROVE  \E depth, deepest : DeeperDependents(s, depth, deepest)
<1>1. PICK h \in [Nodes -> Nat], b \in Nat :
          (\A n \in Nodes : h[n] < b) /\ Sinks(s, h, Nodes)
  BY NodeDepths
<1> DEFINE depth == [c \in Components |-> IF c \in Nodes THEN h[c] + 1
                                          ELSE IF c = Artboard THEN 0 ELSE b + 1]
<1>2. /\ Artboard \notin Nodes /\ Joystick \notin Nodes /\ None \notin Components
      /\ Artboard # Joystick /\ Components = Nodes \cup {Artboard, Joystick}
  BY ArtboardUpdateAssumption DEF Components
<1>3. /\ depth \in [Components -> Nat]
      /\ \A n \in Nodes : depth[n] = h[n] + 1 /\ h[n] + 1 < b + 1 /\ h[n] \in Nat
      /\ depth[Artboard] = 0 /\ depth[Joystick] = b + 1
  BY <1>1, <1>2
<1> HIDE DEF depth
<1>4. ASSUME NEW c \in Components PROVE depth[c] <= b + 1
  BY <1>2, <1>3
<1>5. ASSUME NEW c \in Components, NEW d \in DependentSet(s, c) PROVE depth[c] < depth[d]
  <2>1. CASE d \in Nodes
    <3>1. s.parent[d] = c \/ s.target[d] = c
      BY <1>2, <2>1 DEF DependentSet
    <3>2. CASE c \in Nodes
      <4>1. h[c] < h[d]
        BY <1>1, <2>1, <3>1, <3>2 DEF Sinks
      <4>2. QED
        BY <1>3, <2>1, <3>2, <4>1
    <3>3. CASE c \notin Nodes
      <4>1. c = Artboard
        BY <1>2, <2>1, <3>1, <3>3, SceneFacts
      <4>2. QED
        BY <1>3, <2>1, <4>1
    <3>4. QED
      BY <3>2, <3>3
  <2>2. CASE d \notin Nodes
    <3>1. d = Joystick /\ c \in Nodes \cup {Artboard}
      BY <2>2, SceneFacts DEF DependentSet
    <3>2. QED
      BY <1>1, <1>3, <3>1
  <2>3. QED
    BY <2>1, <2>2
<1>6. DeeperDependents(s, depth, b + 1)
  BY <1>1, <1>3, <1>4, <1>5 DEF DeeperDependents
<1>7. QED
  BY <1>6

(***************************************************************************)
(* The dependency order                                                      *)
(***************************************************************************)

\* What a fold does depends on the functions of the elements only.
LEMMA SameFold ==
    ASSUME NEW f, NEW g, NEW base, NEW S, NEW seq \in Seq(S), \A d \in Range(seq) : f[d] = g[d]
    PROVE  VisitAll(f, base, seq) = VisitAll(g, base, seq)
<1> DEFINE n == Len(seq)
           Iter(h) == CHOOSE I : I = [s \in SUBSET (1..n) |-> FoldStep(h, base, seq, I, s)]
<1>1. n \in Nat /\ DOMAIN seq = 1..n
  OBVIOUS
<1>2. ASSUME NEW I, NEW s \in SUBSET (1..n)
      PROVE  FoldStep(f, base, seq, I, s) = FoldStep(g, base, seq, I, s)
  <2>1. CASE s = {}
    BY <2>1 DEF FoldStep
  <2>2. CASE s # {}
    <3>1. Max(s) \in 1..n
      BY <1>1, <2>2, MaxOfSome
    <3>2. f[seq[Max(s)]] = g[seq[Max(s)]]
      BY <1>1, <3>1 DEF Range
    <3>3. QED
      BY <2>2, <3>2 DEF FoldStep
  <2>3. QED
    BY <2>1, <2>2
<1>3. ASSUME NEW I
      PROVE  [s \in SUBSET (1..n) |-> FoldStep(f, base, seq, I, s)]
             = [s \in SUBSET (1..n) |-> FoldStep(g, base, seq, I, s)]
  BY <1>2
<1>4. Iter(f) = Iter(g)
  BY <1>3
<1>5. /\ VisitAll(f, base, seq) = Iter(f)[1..n]
      /\ VisitAll(g, base, seq) = Iter(g)[1..n]
  BY <1>1 DEF VisitAll, FoldLeft, MapThenFoldSet, FoldStep
<1>6. QED
  BY <1>4, <1>5

\* The body of Visit in Sorted, for one component.
VisitStep(s, f, c) ==
    [sorted \in Seq(Components) |->
        IF c \in Range(sorted) THEN sorted
        ELSE <<c>> \o VisitAll(f, sorted, Dependents(s, c))]

\* A visit depends on those to the dependents only.
LEMMA SameVisit ==
    ASSUME NEW s \in Scenes, NEW c, NEW f, NEW g,
           \A d \in DependentSet(s, c) : f[d] = g[d]
    PROVE  VisitStep(s, f, c) = VisitStep(s, g, c)
<1>1. Dependents(s, c) \in Seq(Present(s)) /\ Range(Dependents(s, c)) = DependentSet(s, c)
  BY DependentsFacts
<1> DEFINE ds == Dependents(s, c)
<1>2. \A base : VisitAll(f, base, ds) = VisitAll(g, base, ds)
  <2> HIDE DEF ds
  <2> TAKE base
  <2>1. ds \in Seq(Present(s)) /\ \A d \in Range(ds) : f[d] = g[d]
    BY <1>1 DEF ds
  <2>2. QED
    BY <2>1, SameFold
<1> HIDE DEF ds
<1>3. QED
  BY <1>2 DEF VisitStep, ds

\* Dependents take part in the order.
LEMMA DependentsAreComponents ==
    ASSUME NEW s \in Scenes, NEW c
    PROVE  DependentSet(s, c) \subseteq Present(s) /\ Present(s) \subseteq Components
  BY DEF DependentSet, Present, Components

\* The recursive function of Sorted exists, since the graph has no cycle.
LEMMA VisitExists ==
    ASSUME NEW s \in Scenes
    PROVE  \E f : f = [c \in Components |-> VisitStep(s, f, c)]
<1>1. PICK depth, deepest : DeeperDependents(s, depth, deepest)
  BY Depths
<1> DEFINE Fits(f, m) == \A c \in Components : depth[c] + m > deepest => f[c] = VisitStep(s, f, c)
           Some(m) == \E f : f = [c \in Components |-> f[c]] /\ Fits(f, m)
           P == {m \in Nat : Some(m)}
<1>2. /\ depth \in [Components -> Nat] /\ deepest \in Nat
      /\ \A c \in Components : depth[c] <= deepest
      /\ \A c \in Components : \A d \in DependentSet(s, c) :
             d \in Components /\ depth[c] < depth[d]
  BY <1>1, DependentsAreComponents DEF DeeperDependents
<1>3. Some(0)
  <2>1. \A c \in Components : ~(depth[c] + 0 > deepest)
    BY <1>2
  <2> DEFINE f == [c \in Components |-> 0]
  <2>2. f = [c \in Components |-> f[c]]
    OBVIOUS
  <2> HIDE DEF f
  <2>3. QED
    BY <2>1, <2>2
<1>4. ASSUME NEW m \in Nat, Some(m) PROVE Some(m + 1)
  <2>1. PICK f : Fits(f, m)
    BY <1>4
  <2> DEFINE g == [c \in Components |-> VisitStep(s, f, c)]
  <2>2. ASSUME NEW c \in Components, depth[c] + (m + 1) > deepest
        PROVE  g[c] = VisitStep(s, g, c)
    <3>1. ASSUME NEW d \in DependentSet(s, c) PROVE f[d] = g[d]
      <4>1. d \in Components /\ depth[d] + m > deepest
        BY <1>2, <2>2
      <4>2. f[d] = VisitStep(s, f, d)
        BY <2>1, <4>1
      <4>3. QED
        BY <4>1, <4>2
    <3> HIDE DEF g
    <3>2. VisitStep(s, f, c) = VisitStep(s, g, c)
      BY <3>1, SameVisit
    <3>3. QED
      BY <3>2 DEF g
  <2>3. g = [c \in Components |-> g[c]]
    OBVIOUS
  <2> HIDE DEF g
  <2>4. Fits(g, m + 1)
    BY <2>2
  <2>5. QED
    BY <2>3, <2>4
<1>5. Some(deepest + 1)
  <2> HIDE DEF Some
  <2>1. 0 \in P /\ P \in SUBSET Nat /\ \A m \in P : m + 1 \in P
    BY <1>3, <1>4
  <2> HIDE DEF P
  <2>2. P = Nat
    BY <2>1, SetInduction
  <2>3. deepest + 1 \in P
    BY <1>2, <2>2
  <2>4. QED
    BY <2>3 DEF P
<1>6. PICK f : f = [c \in Components |-> f[c]] /\ Fits(f, deepest + 1)
  BY <1>5
<1>7. \A c \in Components : f[c] = VisitStep(s, f, c)
  <2>1. \A c \in Components : depth[c] + (deepest + 1) > deepest
    BY <1>2
  <2>2. QED
    BY <1>6, <2>1
<1>8. QED
  BY <1>6, <1>7

\* No component twice, and each before its dependents.
Neat(s, o) ==
    \A i \in 1..Len(o) :
        /\ \A j \in 1..Len(o) : o[i] = o[j] => i = j
        /\ \A d \in DependentSet(s, o[i]) : \E j \in 1..Len(o) : i < j /\ o[j] = d

\* A component in front of its dependents.
LEMMA NeatInFront ==
    ASSUME NEW s, NEW S, NEW o \in Seq(S), NEW c \in S, Neat(s, o),
           c \notin Range(o), DependentSet(s, c) \subseteq Range(o)
    PROVE  /\ <<c>> \o o \in Seq(S)
           /\ Neat(s, <<c>> \o o)
           /\ Range(<<c>> \o o) = {c} \cup Range(o)
<1> DEFINE r == <<c>> \o o
           n == Len(o)
<1>1. <<c>> \in Seq(S) /\ Len(<<c>>) = 1 /\ <<c>>[1] = c /\ Range(<<c>>) = {c}
  <2>1. Range(<<c>>) = {c}
    BY DEF Range
  <2>2. QED
    BY <2>1
<1>2. r \in Seq(S) /\ Range(r) = {c} \cup Range(o)
  <2> DEFINE front == <<c>>
  <2>1. front \in Seq(S) /\ Range(front) = {c}
    BY <1>1
  <2> HIDE DEF front
  <2>2. front \o o \in Seq(S) /\ Range(front \o o) = Range(front) \cup Range(o)
    BY <2>1, RangeOfConcat
  <2>3. QED
    BY <2>1, <2>2 DEF front
<1>3. /\ n \in Nat /\ Len(r) = n + 1 /\ r[1] = c
      /\ \A i \in 1..n : r[i + 1] = o[i]
  OBVIOUS
<1>4. DOMAIN o = 1..n
  OBVIOUS
<1> HIDE DEF r, n
<1>5. \A i \in 1..(n + 1) : i = 1 \/ (i - 1 \in 1..n /\ (i - 1) + 1 = i /\ r[i] = o[i - 1])
  BY <1>3
<1>6. ASSUME NEW i \in 1..(n + 1), NEW j \in 1..(n + 1), r[i] = r[j] PROVE i = j
  <2>1. \A k \in 1..n : o[k] # c
    BY <1>4 DEF Range
  <2>2. CASE i = 1 \/ j = 1
    BY <1>3, <1>5, <1>6, <2>1, <2>2
  <2>3. CASE i # 1 /\ j # 1
    <3>1. i - 1 \in 1..n /\ j - 1 \in 1..n /\ o[i - 1] = o[j - 1]
      BY <1>5, <1>6, <2>3
    <3>2. i - 1 = j - 1
      BY <3>1 DEF Neat, n
    <3>3. QED
      BY <3>2
  <2>4. QED
    BY <2>2, <2>3
<1>7. ASSUME NEW i \in 1..(n + 1), NEW d \in DependentSet(s, r[i])
      PROVE  \E j \in 1..(n + 1) : i < j /\ r[j] = d
  <2>1. CASE i = 1
    <3>1. PICK k \in 1..n : o[k] = d
      BY <1>3, <1>4, <2>1 DEF Range
    <3>2. k + 1 \in 1..(n + 1) /\ 1 < k + 1 /\ r[k + 1] = d
      BY <1>3, <3>1
    <3>3. QED
      BY <2>1, <3>2
  <2>2. CASE i # 1
    <3>1. i - 1 \in 1..n /\ d \in DependentSet(s, o[i - 1])
      BY <1>5, <2>2
    <3>2. PICK k \in 1..n : i - 1 < k /\ o[k] = d
      BY <3>1 DEF Neat, n
    <3>3. k + 1 \in 1..(n + 1) /\ i < k + 1 /\ r[k + 1] = d
      BY <1>3, <3>1, <3>2
    <3>4. QED
      BY <3>3
  <2>3. QED
    BY <2>1, <2>2
<1>8. Neat(s, r)
  BY <1>3, <1>6, <1>7 DEF Neat
<1>9. QED
  BY <1>2, <1>8 DEF r

\* What a visit of c makes of o.
VisitedFrom(s, depth, c, o, r) ==
    /\ r \in Seq(Present(s))
    /\ Neat(s, r)
    /\ c \in Range(r)
    /\ Range(o) \subseteq Range(r)
    /\ \A x \in Range(r) : x \in Range(o) \/ depth[c] <= depth[x]

\* A visit does that whatever has been put in order before.
VisitsWell(s, depth, f, c) ==
    \A o \in Seq(Present(s)) : Neat(s, o) => VisitedFrom(s, depth, c, o, f[c][o])

\* After the first i dependents of c.
VisitedUpTo(s, depth, c, seq, o, i, r) ==
    /\ r \in Seq(Present(s))
    /\ Neat(s, r)
    /\ \A j \in 1..i : seq[j] \in Range(r)
    /\ Range(o) \subseteq Range(r)
    /\ \A x \in Range(r) : x \in Range(o) \/ depth[c] < depth[x]

\* The visits to the dependents of c one after the other do it for all of them.
LEMMA VisitDependents ==
    ASSUME NEW s \in Scenes, NEW depth, NEW deepest, DeeperDependents(s, depth, deepest),
           NEW f, NEW c \in Components, NEW seq \in Seq(Present(s)),
           Range(seq) = DependentSet(s, c),
           \A d \in DependentSet(s, c) : VisitsWell(s, depth, f, d),
           NEW o \in Seq(Present(s)), Neat(s, o)
    PROVE  VisitedUpTo(s, depth, c, seq, o, Len(seq), VisitAll(f, o, seq))
<1> DEFINE n == Len(seq)
<1>1. n \in Nat /\ DOMAIN seq = 1..n
  OBVIOUS
<1>2. PICK put : /\ put[0] = o
                 /\ \A i \in 1..Len(seq) : put[i] = f[seq[i]][put[i - 1]]
                 /\ VisitAll(f, o, seq) = put[Len(seq)]
  BY FoldThrough
<1> DEFINE S == {i \in 0..n : VisitedUpTo(s, depth, c, seq, o, i, put[i])}
<1>3. 0 \in S
  <2>1. 0 \in 0..n /\ 1..0 = {}
    BY <1>1
  <2>2. VisitedUpTo(s, depth, c, seq, o, 0, o)
    BY <2>1 DEF VisitedUpTo
  <2>3. QED
    BY <1>2, <2>1, <2>2
<1>4. ASSUME NEW i \in 1..n, i - 1 \in S PROVE i \in S
  <2> DEFINE p == put[i - 1]
             d == seq[i]
             r == put[i]
  <2>1. /\ p \in Seq(Present(s)) /\ Neat(s, p)
        /\ \A j \in 1..(i - 1) : seq[j] \in Range(p)
        /\ Range(o) \subseteq Range(p)
        /\ \A x \in Range(p) : x \in Range(o) \/ depth[c] < depth[x]
    BY <1>4 DEF VisitedUpTo
  <2>2. i \in 1..Len(seq) /\ i \in 0..n /\ d \in Range(seq) /\ d \in DependentSet(s, c)
    BY <1>1 DEF Range
  <2>3. r = f[d][p]
    BY <1>2, <2>2
  <2>4. depth[c] < depth[d] /\ depth \in [Components -> Nat] /\ d \in Components
    BY <2>2, DependentsAreComponents DEF DeeperDependents
  <2> HIDE DEF p, d, r
  <2>5. VisitedFrom(s, depth, d, p, r)
    BY <2>1, <2>2, <2>3 DEF VisitsWell
  <2>6. ASSUME NEW j \in 1..i PROVE seq[j] \in Range(r)
    <3>1. CASE j = i
      BY <2>5, <3>1 DEF VisitedFrom, d
    <3>2. CASE j # i
      <4>1. j \in 1..(i - 1)
        BY <2>2, <3>2
      <4>2. QED
        BY <2>1, <2>5, <4>1 DEF VisitedFrom
    <3>3. QED
      BY <3>1, <3>2
  <2>7. ASSUME NEW x \in Range(r) PROVE x \in Range(o) \/ depth[c] < depth[x]
    <3>1. CASE x \in Range(p)
      BY <2>1, <3>1
    <3>2. CASE x \notin Range(p)
      <4>1. depth[d] <= depth[x]
        BY <2>5, <3>2 DEF VisitedFrom
      <4>2. x \in Components
        <5>1. r \in Seq(Present(s)) /\ Present(s) \subseteq Components
          BY <2>5, DependentsAreComponents DEF VisitedFrom
        <5>2. QED
          BY <5>1 DEF Range
      <4>3. depth[c] \in Nat /\ depth[d] \in Nat /\ depth[x] \in Nat
        BY <2>4, <4>2
      <4>4. QED
        BY <2>4, <4>1, <4>3
    <3>3. QED
      BY <3>1, <3>2
  <2>8. VisitedUpTo(s, depth, c, seq, o, i, r)
    BY <2>1, <2>5, <2>6, <2>7 DEF VisitedUpTo, VisitedFrom
  <2>9. QED
    BY <2>2, <2>8 DEF r
<1>5. n \in S
  <2> HIDE DEF S, n
  <2>1. n \in 0..n
    BY <1>1
  <2>2. 0 \in S /\ \A k \in 1..n : k - 1 \in S => k \in S
    BY <1>3, <1>4
  <2>3. 0..n \subseteq S
    BY <1>1, <2>2, UpTo
  <2>4. QED
    BY <2>1, <2>3
<1>6. QED
  BY <1>2, <1>5

\* A visit does it when those to the dependents do.
LEMMA VisitOne ==
    ASSUME NEW s \in Scenes, NEW depth, NEW deepest, DeeperDependents(s, depth, deepest),
           NEW f, NEW c \in Present(s), f[c] = VisitStep(s, f, c),
           \A d \in DependentSet(s, c) : VisitsWell(s, depth, f, d)
    PROVE  VisitsWell(s, depth, f, c)
<1>1. Present(s) \subseteq Components /\ c \in Components
  BY DependentsAreComponents
<1> SUFFICES ASSUME NEW o \in Seq(Present(s)), Neat(s, o)
             PROVE  VisitedFrom(s, depth, c, o, f[c][o])
  BY DEF VisitsWell
<1>2. o \in Seq(Components)
  BY <1>1
<1> DEFINE seq == Dependents(s, c)
<1>3. seq \in Seq(Present(s)) /\ Range(seq) = DependentSet(s, c)
  BY DependentsFacts
<1> DEFINE t == VisitAll(f, o, seq)
<1>4. f[c][o] = IF c \in Range(o) THEN o ELSE <<c>> \o t
  BY <1>2 DEF VisitStep
<1> HIDE DEF seq, t
<1>5. depth \in [Components -> Nat]
  BY DEF DeeperDependents
<1>6. CASE c \in Range(o)
  BY <1>4, <1>6 DEF VisitedFrom
<1>7. CASE c \notin Range(o)
  <2>1. VisitedUpTo(s, depth, c, seq, o, Len(seq), t)
    BY <1>1, <1>3, VisitDependents DEF t
  <2>2. /\ t \in Seq(Present(s)) /\ Neat(s, t)
        /\ \A j \in 1..Len(seq) : seq[j] \in Range(t)
        /\ Range(o) \subseteq Range(t)
        /\ \A x \in Range(t) : x \in Range(o) \/ depth[c] < depth[x]
    BY <2>1 DEF VisitedUpTo
  <2>3. DependentSet(s, c) \subseteq Range(t)
    BY <1>3, <2>2 DEF Range
  <2>4. c \notin Range(t)
    BY <1>1, <1>5, <1>7, <2>2
  <2>5. /\ <<c>> \o t \in Seq(Present(s))
        /\ Neat(s, <<c>> \o t)
        /\ Range(<<c>> \o t) = {c} \cup Range(t)
    <3> DEFINE Q == Present(s)
    <3>1. t \in Seq(Q) /\ c \in Q
      BY <2>2
    <3> HIDE DEF Q
    <3>2. /\ <<c>> \o t \in Seq(Q)
          /\ Neat(s, <<c>> \o t)
          /\ Range(<<c>> \o t) = {c} \cup Range(t)
      BY <2>2, <2>3, <2>4, <3>1, NeatInFront
    <3>3. QED
      BY <3>2 DEF Q
  <2> DEFINE r == <<c>> \o t
  <2>6. f[c][o] = r
    BY <1>4, <1>7
  <2>7. r \in Seq(Present(s)) /\ Neat(s, r) /\ Range(r) = {c} \cup Range(t)
    BY <2>5
  <2> HIDE DEF r
  <2>8. ASSUME NEW x \in Range(r) PROVE x \in Range(o) \/ depth[c] <= depth[x]
    <3>1. Range(t) \subseteq Components
      BY <1>1, <2>2 DEF Range
    <3>2. QED
      BY <1>1, <1>5, <2>2, <2>7, <3>1
  <2>9. VisitedFrom(s, depth, c, o, r)
    BY <2>2, <2>7, <2>8 DEF VisitedFrom
  <2>10. QED
    BY <2>6, <2>9
<1>8. QED
  BY <1>6, <1>7

\* So every visit does, the deepest components first.
LEMMA VisitEach ==
    ASSUME NEW s \in Scenes, NEW depth, NEW deepest, DeeperDependents(s, depth, deepest),
           NEW f, \A c \in Components : f[c] = VisitStep(s, f, c)
    PROVE  \A c \in Present(s) : VisitsWell(s, depth, f, c)
<1>1. /\ depth \in [Components -> Nat] /\ deepest \in Nat
      /\ Present(s) \subseteq Components
      /\ \A c \in Components : depth[c] <= deepest
      /\ \A c \in Components : \A d \in DependentSet(s, c) :
             d \in Present(s) /\ depth[c] < depth[d]
  BY DependentsAreComponents DEF DeeperDependents
<1> DEFINE Good(m) == \A c \in Present(s) : depth[c] + m > deepest => VisitsWell(s, depth, f, c)
           P == {m \in Nat : Good(m)}
<1>2. Good(0)
  <2>1. \A c \in Present(s) : ~(depth[c] + 0 > deepest)
    BY <1>1
  <2>2. QED
    BY <2>1
<1>3. ASSUME NEW m \in Nat, Good(m) PROVE Good(m + 1)
  <2> SUFFICES ASSUME NEW c \in Present(s), depth[c] + (m + 1) > deepest
               PROVE  VisitsWell(s, depth, f, c)
    OBVIOUS
  <2>1. ASSUME NEW d \in DependentSet(s, c) PROVE VisitsWell(s, depth, f, d)
    <3>1. c \in Components /\ d \in Present(s) /\ d \in Components
      BY <1>1
    <3>2. depth[c] < depth[d] /\ depth[c] \in Nat /\ depth[d] \in Nat
      BY <1>1, <3>1
    <3>3. depth[d] + m > deepest
      BY <1>1, <3>2
    <3>4. QED
      BY <1>3, <3>1, <3>3
  <2>2. c \in Components
    BY <1>1
  <2>3. QED
    BY <2>1, <2>2, VisitOne
<1> HIDE DEF Good
<1>4. 0 \in P /\ P \in SUBSET Nat /\ \A m \in P : m + 1 \in P
  BY <1>2, <1>3
<1> HIDE DEF P
<1>5. P = Nat
  BY <1>4, SetInduction
<1>6. Good(deepest + 1)
  BY <1>1, <1>5 DEF P
<1>7. \A c \in Present(s) : depth[c] + (deepest + 1) > deepest
  BY <1>1
<1>8. QED
  BY <1>6, <1>7 DEF Good

\* The order holds the components of the scene, each once and after what it is
\* computed from.
InOrder(s, o) ==
    /\ o \in Seq(Components)
    /\ Len(o) > 0
    /\ o[1] = Artboard
    /\ Range(o) = Present(s)
    /\ Neat(s, o)

\* DependencySorter::sort puts every component of a graph without cycles into the
\* order once, the artboard first, and before everything that depends on it.
THEOREM ComponentsAreSorted ==
    ASSUME NEW s \in Scenes
    PROVE  InOrder(s, Sorted(s))
<1>1. PICK depth, deepest : DeeperDependents(s, depth, deepest)
  BY Depths
<1> DEFINE Visit == CHOOSE f : f = [c \in Components |-> VisitStep(s, f, c)]
           o == Sorted(s)
<1>2. Visit = [c \in Components |-> VisitStep(s, Visit, c)]
  BY VisitExists
<1>3. o = Visit[Artboard][<<>>]
  BY DEF Sorted, VisitStep, VisitAll
<1> HIDE DEF Visit, o
<1>4. \A c \in Components : Visit[c] = VisitStep(s, Visit, c)
  BY <1>2
<1>5. Artboard \in Present(s) /\ Artboard \in Components
  BY DEF Present, Components
<1>6. VisitsWell(s, depth, Visit, Artboard)
  BY <1>1, <1>4, <1>5, VisitEach
<1>7. <<>> \in Seq(Present(s)) /\ Neat(s, <<>>) /\ Range(<<>>) = {}
  BY DEF Neat, Range
<1>8. VisitedFrom(s, depth, Artboard, <<>>, o)
  BY <1>3, <1>6, <1>7 DEF VisitsWell
<1>9. o \in Seq(Present(s)) /\ Neat(s, o) /\ Artboard \in Range(o) /\ Range(o) \subseteq Present(s)
  BY <1>8 DEF VisitedFrom, Range
<1>10. ASSUME NEW c \in Range(o), NEW d \in DependentSet(s, c) PROVE d \in Range(o)
  <2>1. PICK i \in 1..Len(o) : o[i] = c
    BY <1>9 DEF Range
  <2>2. PICK j \in 1..Len(o) : o[j] = d
    BY <1>9, <2>1 DEF Neat
  <2>3. QED
    BY <1>9, <2>2 DEF Range
<1>11. Nodes \subseteq Range(o)
  <2> SUFFICES ASSUME Nodes \ Range(o) # {} PROVE FALSE
    OBVIOUS
  <2> DEFINE D == {depth[n] : n \in Nodes \ Range(o)}
  <2>1. depth \in [Components -> Nat] /\ Nodes \subseteq Components
    BY <1>1 DEF DeeperDependents, Components
  <2>2. D \in SUBSET Nat /\ D # {}
    BY <2>1
  <2>3. PICK k \in D : \A e \in D : k <= e
    BY <2>2, LeastMember
  <2>4. PICK n \in Nodes \ Range(o) : k = depth[n]
    BY <2>3
  <2>5. n \in DependentSet(s, s.parent[n]) /\ s.parent[n] \in Nodes \cup {Artboard}
    BY SceneFacts DEF DependentSet
  <2>6. s.parent[n] \notin Range(o)
    BY <1>10, <2>4, <2>5
  <2>7. s.parent[n] \in Nodes \ Range(o)
    BY <1>9, <2>5, <2>6
  <2>8. depth[s.parent[n]] < depth[n]
    BY <1>1, <2>1, <2>5, <2>7 DEF DeeperDependents
  <2>9. depth[n] <= depth[s.parent[n]] /\ depth[n] \in Nat /\ depth[s.parent[n]] \in Nat
    BY <2>1, <2>3, <2>4, <2>7
  <2>10. QED
    BY <2>8, <2>9
<1>12. Range(o) = Present(s)
  <2>1. CASE s.handle # None
    <3>1. Joystick \in DependentSet(s, Artboard)
      BY <2>1 DEF DependentSet
    <3>2. Joystick \in Range(o)
      BY <1>9, <1>10, <3>1
    <3>3. QED
      BY <1>9, <1>11, <3>2 DEF Present
  <2>2. CASE s.handle = None
    BY <1>9, <1>11, <2>2 DEF Present
  <2>3. QED
    BY <2>1, <2>2
<1>13. Len(o) > 0 /\ o[1] = Artboard
  <2> DEFINE t == VisitAll(Visit, <<>>, Dependents(s, Artboard))
             none == <<>>
  <2>1. none \in Seq(Components) /\ Artboard \notin Range(none)
    BY DEF Range
  <2>2. VisitStep(s, Visit, Artboard)[none] = <<Artboard>> \o t
    BY <2>1 DEF VisitStep
  <2>3. o = <<Artboard>> \o t
    BY <1>3, <1>4, <1>5, <2>2
  <2>4. t \in Seq(Present(s))
    <3>1. \A d \in DependentSet(s, Artboard) : VisitsWell(s, depth, Visit, d)
      BY <1>1, <1>4, VisitEach, DependentsAreComponents
    <3>2. /\ Dependents(s, Artboard) \in Seq(Present(s))
          /\ Range(Dependents(s, Artboard)) = DependentSet(s, Artboard)
      BY DependentsFacts
    <3>3. VisitedUpTo(s, depth, Artboard, Dependents(s, Artboard), <<>>,
                      Len(Dependents(s, Artboard)), t)
      BY <1>1, <1>5, <1>7, <3>1, <3>2, VisitDependents
    <3>4. QED
      BY <3>3 DEF VisitedUpTo
  <2> HIDE DEF t
  <2>5. QED
    BY <1>5, <2>3, <2>4
<1>14. o \in Seq(Components)
  BY <1>9, DependentsAreComponents
<1>15. InOrder(s, o)
  BY <1>9, <1>12, <1>13, <1>14 DEF InOrder
<1>16. QED
  BY <1>15 DEF o

(***************************************************************************)
(* Functions that grow until nothing is left                                 *)
(***************************************************************************)

\* The first n values of a recursive function are determined.
LEMMA StepsAgree ==
    ASSUME NEW grow, NEW R, NEW Q, NEW n \in Nat, R[0] = Q[0],
           \A k \in 1..n : R[k] = grow[R[k - 1]] /\ Q[k] = grow[Q[k - 1]]
    PROVE  R[n] = Q[n]
<1> DEFINE S == {k \in 0..n : R[k] = Q[k]}
<1>1. 0 \in S /\ n \in 0..n
  OBVIOUS
<1>2. ASSUME NEW k \in 1..n, k - 1 \in S PROVE k \in S
  BY <1>2
<1> HIDE DEF S
<1>3. 0..n \subseteq S
  BY <1>1, <1>2, UpTo
<1>4. QED
  BY <1>1, <1>3 DEF S

\* A recursive function on the natural numbers exists.
LEMMA NatRecursionExists ==
    ASSUME NEW V, NEW base \in V, NEW grow \in [V -> V]
    PROVE  \E F \in [Nat -> V] :
               F[0] = base /\ \A k \in Nat \ {0} : F[k] = grow[F[k - 1]]
<1> DEFINE Same(n) == [k \in 1..n |-> grow]
           H(n) == CHOOSE R : R \in [0..n -> V] /\ Steps(R, n, base, Same(n))
           F == [n \in Nat |-> H(n)[n]]
<1>1. ASSUME NEW n \in Nat PROVE H(n) \in [0..n -> V] /\ Steps(H(n), n, base, Same(n))
  <2> DEFINE steps == Same(n)
  <2>1. steps \in [1..n -> [V -> V]]
    OBVIOUS
  <2> HIDE DEF steps
  <2>2. \E R : R \in [0..n -> V] /\ Steps(R, n, base, steps)
    BY <2>1, RecursionExists
  <2>3. \E R : R \in [0..n -> V] /\ Steps(R, n, base, Same(n))
    BY <2>2 DEF steps
  <2>4. QED
    BY <2>3
<1> HIDE DEF H
<1>2. F \in [Nat -> V]
  <2>1. \A n \in Nat : n \in 0..n
    OBVIOUS
  <2>2. QED
    BY <1>1, <2>1
<1>3. F[0] = base
  BY <1>1 DEF Steps
<1>4. ASSUME NEW k \in Nat \ {0} PROVE F[k] = grow[F[k - 1]]
  <2>1. k \in Nat /\ k - 1 \in Nat /\ k - 1 <= k /\ k \in 1..k
    OBVIOUS
  <2>2. Steps(H(k), k, base, Same(k)) /\ Steps(H(k - 1), k - 1, base, Same(k - 1))
    BY <1>1, <2>1
  <2>3. H(k - 1)[k - 1] = H(k)[k - 1]
    <3> DEFINE a == H(k - 1)
               b == H(k)
    <3>1. a[0] = b[0] /\ \A j \in 1..(k - 1) : a[j] = grow[a[j - 1]] /\ b[j] = grow[b[j - 1]]
      <4>1. \A j \in 1..(k - 1) : j \in 1..k
        BY <2>1
      <4>2. QED
        BY <2>1, <2>2, <4>1 DEF Steps
    <3> HIDE DEF a, b
    <3>2. a[k - 1] = b[k - 1]
      BY <2>1, <3>1, StepsAgree
    <3>3. QED
      BY <3>2 DEF a, b
  <2>4. H(k)[k] = grow[H(k)[k - 1]]
    BY <2>1, <2>2 DEF Steps
  <2>5. F[k] = H(k)[k] /\ F[k - 1] = H(k - 1)[k - 1]
    BY <2>1
  <2>6. QED
    BY <2>3, <2>4, <2>5
<1>5. QED
  BY <1>2, <1>3, <1>4

\* F grows within U by the same step.
Grows(F, U, grow) ==
    /\ grow \in [SUBSET U -> SUBSET U]
    /\ \A X \in SUBSET U : X \subseteq grow[X]
    /\ F \in [Nat -> SUBSET U]
    /\ \A k \in Nat \ {0} : F[k] = grow[F[k - 1]]

\* After as many steps as U has members it has stopped.
LEMMA GrowsNoMore ==
    ASSUME NEW U, IsFiniteSet(U), NEW grow, NEW F, Grows(F, U, grow),
           NEW n \in Nat, Cardinality(U) <= n
    PROVE  grow[F[n]] = F[n]
<1> USE DEF Grows
<1> DEFINE P == {k \in Nat : grow[F[k]] = F[k] \/ k <= Cardinality(F[k])}
<1>1. \A X \in SUBSET U : /\ IsFiniteSet(X) /\ Cardinality(X) \in Nat
                          /\ Cardinality(X) <= Cardinality(U)
  BY FS_Subset, FS_CardinalityType
<1>2. 0 \in P
  BY <1>1
<1>3. ASSUME NEW k \in P PROVE k + 1 \in P
  <2>1. k + 1 \in Nat \ {0} /\ (k + 1) - 1 = k /\ k \in Nat
    OBVIOUS
  <2>2. F[k + 1] = grow[F[k]] /\ F[k] \in SUBSET U /\ F[k + 1] \in SUBSET U
    BY <2>1
  <2>3. CASE grow[F[k]] = F[k]
    BY <2>1, <2>2, <2>3
  <2>4. CASE grow[F[k]] # F[k]
    <3>1. PICK x \in F[k + 1] : x \notin F[k]
      BY <2>2, <2>4
    <3>2. F[k] \subseteq F[k + 1] \ {x}
      BY <2>2, <3>1
    <3>3. Cardinality(F[k]) <= Cardinality(F[k + 1] \ {x})
      BY <1>1, <2>2, <3>2, FS_Subset
    <3>4. Cardinality(F[k + 1] \ {x}) = Cardinality(F[k + 1]) - 1
      BY <1>1, <2>2, <3>1, FS_RemoveElement
    <3>5. k <= Cardinality(F[k])
      BY <2>4
    <3>6. Cardinality(F[k]) \in Nat /\ Cardinality(F[k + 1]) \in Nat
      BY <1>1, <2>2
    <3>7. k + 1 <= Cardinality(F[k + 1])
      BY <2>1, <3>3, <3>4, <3>5, <3>6
    <3>8. QED
      BY <2>1, <3>7
  <2>5. QED
    BY <2>3, <2>4
<1>4. P \in SUBSET Nat
  OBVIOUS
<1>5. P = Nat
  <2> HIDE DEF P
  <2>1. QED
    BY <1>2, <1>3, <1>4, SetInduction
<1>6. SUFFICES ASSUME grow[F[n]] # F[n] PROVE FALSE
  OBVIOUS
<1>7. n <= Cardinality(F[n]) /\ F[n] \in SUBSET U
  BY <1>5, <1>6
<1>8. Cardinality(U) \in Nat
  BY FS_CardinalityType
<1>9. Cardinality(F[n]) = Cardinality(U)
  BY <1>1, <1>7, <1>8
<1>10. F[n] = U
  BY <1>7, <1>9, FS_Subset
<1>11. QED
  BY <1>6, <1>7, <1>10

(***************************************************************************)
(* How far dirt spreads                                                      *)
(***************************************************************************)

\* The scene and what has been derived from it.
Graph ==
    /\ scene \in Scenes
    /\ dependents = [c \in Components |-> Dependents(scene, c)]
    /\ InOrder(scene, order)

\* There are finitely many components.
LEMMA ComponentsAreFinite == IsFiniteSet(Components)
<1>1. IsFiniteSet(Nodes \cup {Artboard})
  BY NodesAreFinite, FS_AddElement
<1>2. IsFiniteSet((Nodes \cup {Artboard}) \cup {Joystick})
  BY <1>1, FS_AddElement
<1>3. Components = (Nodes \cup {Artboard}) \cup {Joystick}
  BY DEF Components
<1>4. QED
  BY <1>2, <1>3

\* The dependents of a component, as a set.
LEMMA GraphDependents ==
    ASSUME Graph
    PROVE  \A c \in Components : Range(dependents[c]) = DependentSet(scene, c)
  BY DependentsFacts DEF Graph

\* The recursive function of Spread.
SpreadStep(X, clean) ==
    X \cup {c \in clean : \E d \in X : c \in Range(dependents[d])}

\* F is the recursive function of Spread.
SpreadReaches(F, roots, clean) ==
    F = [k \in Nat |-> IF k = 0 THEN roots \cap clean ELSE SpreadStep(F[k - 1], clean)]

\* It exists.
LEMMA SpreadExists ==
    ASSUME NEW roots, NEW clean
    PROVE  \E F : SpreadReaches(F, roots, clean)
<1> DEFINE V == SUBSET clean
           grow == [X \in V |-> SpreadStep(X, clean)]
           base == roots \cap clean
<1>1. base \in V /\ grow \in [V -> V]
  BY DEF SpreadStep
<1>2. \A X \in V : grow[X] = SpreadStep(X, clean)
  OBVIOUS
<1> HIDE DEF V, grow, base
<1>3. PICK F \in [Nat -> V] : F[0] = base /\ \A k \in Nat \ {0} : F[k] = grow[F[k - 1]]
  BY <1>1, NatRecursionExists
<1>4. ASSUME NEW k \in Nat
      PROVE  F[k] = IF k = 0 THEN base ELSE SpreadStep(F[k - 1], clean)
  <2>1. CASE k = 0
    BY <1>3, <2>1
  <2>2. CASE k # 0
    <3>1. k - 1 \in Nat /\ k \in Nat \ {0}
      BY <2>2
    <3>2. F[k - 1] \in V
      BY <1>3, <3>1
    <3>3. QED
      BY <1>2, <1>3, <2>2, <3>1, <3>2
  <2>3. QED
    BY <2>1, <2>2
<1>5. F = [k \in Nat |-> IF k = 0 THEN base ELSE SpreadStep(F[k - 1], clean)]
  BY <1>3, <1>4
<1>6. SpreadReaches(F, roots, clean)
  BY <1>5 DEF SpreadReaches, base
<1>7. QED
  BY <1>6

\* What a spread reaches: what was asked for and had not the flag, with all that
\* depends on it, as far as it had not the flag either.
SpreadsTo(S, roots, flag, from) ==
    /\ S \subseteq Components
    /\ \A c \in S : flag \notin from[c]
    /\ \A c \in roots : flag \in from[c] \/ c \in S
    /\ \A c \in S : c \in roots \/ \E d \in Components : c \in DependentSet(scene, d)
    /\ \A d \in S : \A c \in DependentSet(scene, d) : flag \in from[c] \/ c \in S

\* Spread goes that far: it grows by at least one component in every step that
\* reaches anything.
LEMMA SpreadFacts ==
    ASSUME Graph, NEW roots \in SUBSET Components, NEW flag, NEW from
    PROVE  SpreadsTo(Spread(roots, flag, from), roots, flag, from)
<1> DEFINE clean == {c \in Components : flag \notin from[c]}
           F == CHOOSE R : SpreadReaches(R, roots, clean)
           n == Cardinality(clean)
           grow == [X \in SUBSET clean |-> SpreadStep(X, clean)]
<1>1. clean \subseteq Components /\ IsFiniteSet(clean) /\ n \in Nat
  BY ComponentsAreFinite, FS_Subset, FS_CardinalityType
<1>2. SpreadReaches(F, roots, clean)
  BY SpreadExists
<1>3. Spread(roots, flag, from) = F[n]
  BY DEF Spread, SpreadReaches, SpreadStep
<1>4. \A c \in clean : c \in Components /\ flag \notin from[c]
  OBVIOUS
<1>5. \A c \in Components : flag \notin from[c] => c \in clean
  OBVIOUS
<1>6. grow \in [SUBSET clean -> SUBSET clean] /\ \A X \in SUBSET clean : X \subseteq grow[X]
  BY DEF SpreadStep
<1>7. \A X \in SUBSET clean : grow[X] = SpreadStep(X, clean)
  OBVIOUS
<1> HIDE DEF clean, F, n, grow
<1>8. /\ F[0] = roots \cap clean
      /\ \A k \in Nat \ {0} : F[k] = SpreadStep(F[k - 1], clean)
      /\ F = [k \in Nat |-> F[k]]
  BY <1>2 DEF SpreadReaches
<1> DEFINE Fine(X) == /\ X \subseteq clean
                      /\ roots \cap clean \subseteq X
                      /\ \A c \in X : c \in roots \/ \E d \in Components : c \in DependentSet(scene, d)
           P == {k \in Nat : Fine(F[k])}
<1>9. 0 \in P
  BY <1>8
<1>10. ASSUME NEW k \in P PROVE k + 1 \in P
  <2>1. k + 1 \in Nat \ {0} /\ (k + 1) - 1 = k
    OBVIOUS
  <2>2. F[k + 1] = SpreadStep(F[k], clean)
    BY <1>8, <2>1
  <2> DEFINE X == F[k]
             Y == F[k + 1]
  <2>3. Fine(X)
    OBVIOUS
  <2>4. Y = X \cup {c \in clean : \E d \in X : c \in Range(dependents[d])}
    BY <2>2 DEF SpreadStep
  <2> HIDE DEF X, Y
  <2>5. Fine(Y)
    <3>1. X \subseteq Components
      BY <1>1, <2>3
    <3>2. ASSUME NEW c \in Y PROVE c \in roots \/ \E d \in Components : c \in DependentSet(scene, d)
      <4>1. CASE c \in X
        BY <2>3, <4>1
      <4>2. CASE c \notin X
        BY <2>4, <3>1, <4>2, GraphDependents
      <4>3. QED
        BY <4>1, <4>2
    <3>3. QED
      BY <2>3, <2>4, <3>2
  <2>6. QED
    BY <2>1, <2>5 DEF Y
<1>11. P \in SUBSET Nat
  OBVIOUS
<1>12. P = Nat
  <2> HIDE DEF P
  <2>1. QED
    BY <1>9, <1>10, <1>11, SetInduction
<1>13. Fine(F[n]) /\ \A k \in Nat : F[k] \subseteq clean
  BY <1>1, <1>12
<1>14. grow[F[n]] = F[n]
  <2>1. F \in [Nat -> SUBSET clean]
    BY <1>8, <1>13
  <2>2. \A k \in Nat \ {0} : F[k] = grow[F[k - 1]]
    <3> TAKE k \in Nat \ {0}
    <3>1. k - 1 \in Nat
      OBVIOUS
    <3>2. QED
      BY <1>7, <1>8, <1>13, <3>1
  <2>3. Cardinality(clean) <= n
    BY <1>1 DEF n
  <2>4. Grows(F, clean, grow)
    BY <1>6, <2>1, <2>2 DEF Grows
  <2>5. QED
    BY <1>1, <2>3, <2>4, GrowsNoMore
<1> DEFINE S == F[n]
<1>15. /\ Fine(S)
       /\ S = S \cup {c \in clean : \E d \in S : c \in Range(dependents[d])}
  BY <1>1, <1>7, <1>13, <1>14 DEF SpreadStep
<1> HIDE DEF S
<1>16. \A d \in S : \A c \in DependentSet(scene, d) : flag \in from[c] \/ c \in S
  <2> TAKE d \in S
  <2> TAKE c \in DependentSet(scene, d)
  <2>1. d \in Components /\ c \in Components
    BY <1>1, <1>15, DependentsAreComponents DEF Graph
  <2>2. c \in Range(dependents[d])
    BY <2>1, GraphDependents
  <2>3. QED
    BY <1>5, <1>15, <2>1, <2>2
<1>17. SpreadsTo(S, roots, flag, from)
  BY <1>1, <1>4, <1>5, <1>15, <1>16 DEF SpreadsTo
<1>18. QED
  BY <1>3, <1>17 DEF S

(***************************************************************************)
(* Collapsed and marked components                                           *)
(***************************************************************************)

\* The recursive function of CollapsedBy.
Switched(s, choice) == {n \in Nodes : s.parent[n] \in s.solos /\ choice[s.parent[n]] # n}

\* The nodes that are in a container of X.
Children(s, X) == {n \in Nodes : s.parent[n] \in X}

\* F is the recursive function of CollapsedBy.
Descends(F, s, choice) ==
    F = [k \in Nat |-> IF k = 0 THEN Switched(s, choice)
                       ELSE F[k - 1] \cup Children(s, F[k - 1])]

\* It exists.
LEMMA DescendsExists ==
    ASSUME NEW s, NEW choice
    PROVE  \E F : Descends(F, s, choice)
<1> DEFINE V == SUBSET Nodes
           grow == [X \in V |-> X \cup Children(s, X)]
           base == Switched(s, choice)
<1>1. base \in V /\ grow \in [V -> V]
  BY DEF Switched, Children
<1>2. \A X \in V : grow[X] = X \cup Children(s, X)
  OBVIOUS
<1> HIDE DEF V, grow, base
<1>3. PICK F \in [Nat -> V] : F[0] = base /\ \A k \in Nat \ {0} : F[k] = grow[F[k - 1]]
  BY <1>1, NatRecursionExists
<1>4. ASSUME NEW k \in Nat
      PROVE  F[k] = IF k = 0 THEN base ELSE F[k - 1] \cup Children(s, F[k - 1])
  <2>1. CASE k = 0
    BY <1>3, <2>1
  <2>2. CASE k # 0
    <3>1. k - 1 \in Nat /\ k \in Nat \ {0}
      BY <2>2
    <3>2. F[k - 1] \in V
      BY <1>3, <3>1
    <3>3. QED
      BY <1>2, <1>3, <2>2, <3>1, <3>2
  <2>3. QED
    BY <2>1, <2>2
<1>5. F = [k \in Nat |-> IF k = 0 THEN base ELSE F[k - 1] \cup Children(s, F[k - 1])]
  BY <1>3, <1>4
<1>6. Descends(F, s, choice)
  BY <1>5 DEF Descends, base
<1>7. QED
  BY <1>6

\* What is collapsed: what a solo has not chosen, and what is under such a node.
CollapsesTo(S, s, choice) ==
    /\ S \subseteq Nodes
    /\ \A n \in Nodes : s.parent[n] \in S => n \in S
    /\ \A n \in Switched(s, choice) : n \in S
    /\ \A T \in SUBSET Nodes :
           /\ T \cap Switched(s, choice) = {}
           /\ \A n \in T : s.parent[n] \in Nodes => s.parent[n] \in T
           => S \cap T = {}

\* CollapsedBy is all of that and no more.
LEMMA CollapsedFacts ==
    ASSUME NEW s, NEW choice
    PROVE  CollapsesTo(CollapsedBy(s, choice), s, choice)
<1> DEFINE F == CHOOSE R : Descends(R, s, choice)
           n == Cardinality(Nodes)
           grow == [X \in SUBSET Nodes |-> X \cup Children(s, X)]
           start == Switched(s, choice)
<1>1. Descends(F, s, choice)
  BY DescendsExists
<1>2. CollapsedBy(s, choice) = F[n]
  BY DEF CollapsedBy, Descends, Switched, Children
<1>3. /\ n \in Nat /\ IsFiniteSet(Nodes) /\ Cardinality(Nodes) <= n
  BY NodesAreFinite
<1>4. grow \in [SUBSET Nodes -> SUBSET Nodes] /\ \A X \in SUBSET Nodes : X \subseteq grow[X]
  BY DEF Children
<1>5. \A X \in SUBSET Nodes : grow[X] = X \cup Children(s, X)
  OBVIOUS
<1> HIDE DEF F, n, grow
<1>6. /\ F[0] = start
      /\ \A k \in Nat \ {0} : F[k] = F[k - 1] \cup Children(s, F[k - 1])
      /\ F = [k \in Nat |-> F[k]]
  BY <1>1 DEF Descends
<1> DEFINE Apart(X) ==
             \A T \in SUBSET Nodes :
                 /\ T \cap start = {}
                 /\ \A m \in T : s.parent[m] \in Nodes => s.parent[m] \in T
                 => X \cap T = {}
           Fine(X) == X \subseteq Nodes /\ start \subseteq X /\ Apart(X)
           P == {k \in Nat : Fine(F[k])}
<1>7. 0 \in P
  BY <1>6 DEF Switched
<1>8. ASSUME NEW k \in P PROVE k + 1 \in P
  <2>1. k + 1 \in Nat \ {0} /\ (k + 1) - 1 = k
    OBVIOUS
  <2> DEFINE X == F[k]
             Y == F[k + 1]
  <2>2. Y = X \cup Children(s, X)
    BY <1>6, <2>1
  <2>3. X \subseteq Nodes /\ start \subseteq X
    OBVIOUS
  <2>4. Apart(X)
    OBVIOUS
  <2> HIDE DEF X, Y
  <2>5. Y \subseteq Nodes /\ start \subseteq Y
    BY <2>2, <2>3 DEF Children
  <2>6. Apart(Y)
    <3> SUFFICES ASSUME NEW T \in SUBSET Nodes, T \cap start = {},
                        \A m \in T : s.parent[m] \in Nodes => s.parent[m] \in T
                 PROVE  Y \cap T = {}
      OBVIOUS
    <3>1. X \cap T = {}
      BY <2>4
    <3>2. Children(s, X) \cap T = {}
      BY <2>3, <3>1 DEF Children
    <3>3. QED
      BY <2>2, <3>1, <3>2
  <2>7. QED
    BY <2>1, <2>5, <2>6 DEF Y
<1>9. P \in SUBSET Nat
  OBVIOUS
<1>10. P = Nat
  <2> HIDE DEF P
  <2>1. QED
    BY <1>7, <1>8, <1>9, SetInduction
<1>11. Fine(F[n]) /\ \A k \in Nat : F[k] \subseteq Nodes
  BY <1>3, <1>10
<1>12. grow[F[n]] = F[n]
  <2>1. F \in [Nat -> SUBSET Nodes]
    BY <1>6, <1>11
  <2>2. \A k \in Nat \ {0} : F[k] = grow[F[k - 1]]
    <3> TAKE k \in Nat \ {0}
    <3>1. k - 1 \in Nat
      OBVIOUS
    <3>2. QED
      BY <1>5, <1>6, <1>11, <3>1
  <2>3. Grows(F, Nodes, grow)
    BY <1>4, <2>1, <2>2 DEF Grows
  <2>4. QED
    BY <1>3, <2>3, GrowsNoMore
<1> DEFINE S == F[n]
<1>13. Fine(S) /\ S = S \cup Children(s, S)
  BY <1>3, <1>5, <1>11, <1>12
<1> HIDE DEF S
<1>14. \A m \in Nodes : s.parent[m] \in S => m \in S
  BY <1>13 DEF Children
<1>15. CollapsesTo(S, s, choice)
  BY <1>13, <1>14 DEF CollapsesTo
<1>16. QED
  BY <1>2, <1>15 DEF S

\* What has become of the dirt when moved have been marked, and more for their
\* world transforms.
Marks(to, from, moved, more) ==
    /\ to \in [Components -> SUBSET Flags]
    /\ \A c \in Components :
           /\ from[c] \subseteq to[c]
           /\ "Collapsed" \in to[c] => "Collapsed" \in from[c]
           /\ "Transform" \in to[c] => "Transform" \in from[c] \/ c \in moved
           /\ to[c] # from[c] => c \in Present(scene)
           /\ "WorldTransform" \in to[c]
                  => \/ "WorldTransform" \in from[c]
                     \/ \A d \in DependentSet(scene, c) : "WorldTransform" \in to[d]
    /\ \A n \in moved : /\ "Transform" \in to[n]
                        /\ "Transform" \in from[n] \/ "WorldTransform" \in to[n]
    /\ \A n \in more : "WorldTransform" \in to[n]

\* Marked does that.
LEMMA MarkedFacts ==
    ASSUME Graph, NEW from \in [Components -> SUBSET Flags],
           NEW moved \in SUBSET Nodes, NEW more \in SUBSET Nodes
    PROVE  Marks(Marked(from, moved, more), from, moved, more)
<1> DEFINE fresh == {n \in moved : "Transform" \notin from[n]}
           roots == fresh \cup more
           S == Spread(roots, "WorldTransform", from)
           to == Marked(from, moved, more)
<1>1. /\ fresh \subseteq moved /\ roots \subseteq Nodes /\ Nodes \subseteq Components
      /\ \A n \in moved : "Transform" \in from[n] \/ n \in fresh
  BY DEF Components
<1>2. SpreadsTo(S, roots, "WorldTransform", from)
  <2>1. roots \in SUBSET Components
    BY <1>1
  <2> HIDE DEF roots
  <2>2. QED
    BY <2>1, SpreadFacts
<1>3. to = [c \in Components |->
              from[c] \cup (IF c \in fresh THEN {"Transform"} ELSE {})
                      \cup (IF c \in S THEN {"WorldTransform"} ELSE {})]
  <2> DEFINE first == WithFlag(from, fresh, "Transform")
  <2>1. \A c \in Components : first[c] = from[c] \cup (IF c \in fresh THEN {"Transform"} ELSE {})
    BY DEF WithFlag
  <2>2. to = WithFlag(first, S, "WorldTransform")
    BY DEF Marked
  <2> HIDE DEF first, S
  <2>3. QED
    BY <2>1, <2>2 DEF WithFlag
<1> HIDE DEF S, to, roots, fresh
<1>4. /\ S \subseteq Components
      /\ \A c \in S : c \in Present(scene)
      /\ \A c \in roots : "WorldTransform" \in from[c] \/ c \in S
      /\ \A d \in S : \A c \in DependentSet(scene, d) : "WorldTransform" \in from[c] \/ c \in S
  <2>1. Nodes \subseteq Present(scene)
    BY DEF Present
  <2>2. QED
    BY <1>1, <1>2, <2>1, DependentsAreComponents DEF SpreadsTo, Graph
<1>5. \A c \in Components :
          /\ to[c] = from[c] \cup (IF c \in fresh THEN {"Transform"} ELSE {})
                             \cup (IF c \in S THEN {"WorldTransform"} ELSE {})
          /\ to[c] \in SUBSET Flags
  <2>1. {"Transform", "WorldTransform"} \subseteq Flags
    BY DEF Flags
  <2>2. QED
    BY <1>3, <2>1
<1>6. to \in [Components -> SUBSET Flags]
  BY <1>3, <1>5
<1>7. ASSUME NEW c \in Components
      PROVE  /\ from[c] \subseteq to[c]
             /\ "Collapsed" \in to[c] => "Collapsed" \in from[c]
             /\ "Transform" \in to[c] => "Transform" \in from[c] \/ c \in moved
             /\ to[c] # from[c] => c \in Present(scene)
  <2>1. fresh \subseteq Present(scene)
    BY <1>1 DEF Present
  <2>2. to[c] = from[c] \cup (IF c \in fresh THEN {"Transform"} ELSE {})
                       \cup (IF c \in S THEN {"WorldTransform"} ELSE {})
    BY <1>5
  <2>3. from[c] \subseteq to[c]
    BY <2>2
  <2>4. "Collapsed" \in to[c] => "Collapsed" \in from[c]
    BY <2>2
  <2>5. "Transform" \in to[c] => "Transform" \in from[c] \/ c \in moved
    BY <1>1, <2>2
  <2>6. to[c] # from[c] => c \in Present(scene)
    BY <1>4, <2>1, <2>2
  <2>7. QED
    BY <2>3, <2>4, <2>5, <2>6
<1>8. ASSUME NEW c \in Components, "WorldTransform" \in to[c], "WorldTransform" \notin from[c],
             NEW d \in DependentSet(scene, c)
      PROVE  "WorldTransform" \in to[d]
  <2>1. c \in S
    BY <1>5, <1>8
  <2>2. d \in Components
    BY DependentsAreComponents DEF Graph
  <2>3. QED
    BY <1>4, <1>5, <2>1, <2>2
<1>9. ASSUME NEW n \in moved
      PROVE  /\ "Transform" \in to[n]
             /\ "Transform" \in from[n] \/ "WorldTransform" \in to[n]
  BY <1>1, <1>4, <1>5 DEF roots
<1>10. ASSUME NEW n \in more PROVE "WorldTransform" \in to[n]
  BY <1>1, <1>4, <1>5 DEF roots
<1>11. Marks(to, from, moved, more)
  BY <1>6, <1>7, <1>8, <1>9, <1>10 DEF Marks
<1>12. QED
  BY <1>11 DEF to

\* onComponentDirty keeps m_DirtDepth an index into the order.
LEMMA NotifyFacts ==
    ASSUME Graph, dirty \in BOOLEAN, dirtDepth \in 1..Len(order),
           NEW cs \in SUBSET Present(scene), Notify(cs)
    PROVE  /\ dirty' \in BOOLEAN
           /\ dirtDepth' \in 1..Len(order)
           /\ dirty' <=> dirty \/ cs # {}
<1> DEFINE depths == {GraphOrder(c) : c \in cs} \cup {dirtDepth}
<1>1. order \in Seq(Components) /\ Len(order) \in Nat /\ Range(order) = Present(scene)
  BY DEF Graph, InOrder
<1>2. ASSUME NEW c \in cs PROVE GraphOrder(c) \in 1..Len(order)
  <2>1. \E i \in DOMAIN order : order[i] = c
    BY <1>1 DEF Range
  <2>2. GraphOrder(c) \in DOMAIN order
    BY <2>1 DEF GraphOrder
  <2>3. QED
    BY <1>1, <2>2
<1>3. depths \subseteq 1..Len(order) /\ depths # {}
  BY <1>2
<1>4. dirtDepth' = CHOOSE d \in depths : \A e \in depths : d <= e
  BY DEF Notify
<1> HIDE DEF depths
<1>5. depths \in SUBSET Nat
  BY <1>1, <1>3
<1>6. \E d \in depths : \A e \in depths : d <= e
  BY <1>3, <1>5, LeastMember
<1>7. dirtDepth' \in depths
  BY <1>4, <1>6
<1>8. QED
  BY <1>3, <1>7 DEF Notify

(***************************************************************************)
(* The invariant                                                             *)
(***************************************************************************)

\* The update loop passes the component by.
Clean(c) == dirt[c] = {} \/ Collapsed(c)

\* The components that are collapsed are those that the solos ask for.
CollapseFollows ==
    \A c \in Components : Collapsed(c) <=> c \in CollapsedBy(scene, active)

\* No component waits for its own transform alone: markTransformDirty marks both.
WorldFollows ==
    \A c \in Components : "Transform" \in dirt[c] => "WorldTransform" \in dirt[c]

\* What is computed from a component that waits for its world transform waits, too,
\* unless it is constrained to it and the component is collapsed or a solo.
DirtIsClosed ==
    \A c \in Components : "WorldTransform" \in dirt[c] =>
        \A n \in Nodes :
            /\ scene.parent[n] = c => "WorldTransform" \in dirt[n]
            /\ scene.target[n] = c => \/ "WorldTransform" \in dirt[n]
                                      \/ Collapsed(c) \/ c \in scene.solos

\* What the for loop has behind it is clean.
VisitedAreClean ==
    pc = "visit" => \A j \in 1..(index - 1) : Clean(order[j])

\* When the artboard is not dirty, nothing is.
AllAreClean ==
    pc # "visit" /\ ~dirty => \A c \in Present(scene) : Clean(c)

\* The for loop runs in a step that maxSteps allows.
VisitsAreCounted == pc = "visit" => step < MaxSteps

\* The inductive invariant: nothing of UpdatedAfterDependencies, NeverCutOff and
\* NothingStale could be shown without DirtIsClosed, since addDirt stops at what is
\* dirty already.
IInv ==
    /\ TypeOK
    /\ Graph
    /\ CollapseFollows
    /\ WorldFollows
    /\ DirtIsClosed
    /\ VisitedAreClean
    /\ AllAreClean
    /\ VisitsAreCounted

\* What no step changes stays a scene.
LEMMA GraphStays ==
    ASSUME Graph, UNCHANGED fileVars
    PROVE  Graph' /\ Present(scene)' = Present(scene)
  BY DEF Graph, fileVars, Present, InOrder, Neat, DependentSet

\* m_DependencyOrder begins with the artboard and holds what takes part in it.
LEMMA OrderFacts ==
    ASSUME Graph
    PROVE  /\ order \in Seq(Components) /\ Len(order) \in Nat \ {0}
           /\ order[1] = Artboard
           /\ \A i \in 1..Len(order) : order[i] \in Present(scene) /\ order[i] \in Components
           /\ \A c \in Present(scene) : c \in Components /\ \E i \in 1..Len(order) : order[i] = c
<1>1. /\ order \in Seq(Components) /\ Len(order) \in Nat /\ Len(order) > 0
      /\ order[1] = Artboard /\ Range(order) = Present(scene) /\ DOMAIN order = 1..Len(order)
  BY DEF Graph, InOrder
<1>2. Present(scene) \subseteq Components
  BY DependentsAreComponents DEF Graph
<1>3. QED
  BY <1>1, <1>2 DEF Range

\* What a component is computed from comes before it.
LEMMA ComesEarlier ==
    ASSUME Graph, NEW i \in 1..Len(order), NEW d \in Dependencies(order[i])
    PROVE  d \in Present(scene) /\ \E j \in 1..(i - 1) : order[j] = d
<1> DEFINE c == order[i]
<1>1. c \in Present(scene) /\ Len(order) \in Nat
  BY OrderFacts
<1>2. Artboard \notin Nodes /\ Joystick \notin Nodes /\ None \notin Components /\ Artboard # Joystick
  BY ArtboardUpdateAssumption
<1>3. d \in Nodes \cup {Artboard} /\ c \in DependentSet(scene, d)
  <2>1. CASE c = Joystick
    <3>1. scene.handle # None /\ d = scene.handle
      BY <1>1, <1>2, <2>1 DEF Present, Dependencies
    <3>2. QED
      BY <2>1, <3>1, SceneFacts DEF Graph, DependentSet
  <2>2. CASE c \in Nodes
    <3>1. d \in {scene.parent[c], scene.target[c]} \ {None}
      BY <1>2, <2>2 DEF Dependencies
    <3>2. QED
      BY <2>2, <3>1, SceneFacts DEF Graph, DependentSet
  <2>3. CASE c = Artboard
    BY <1>2, <2>3 DEF Dependencies
  <2>4. QED
    BY <1>1, <2>1, <2>2, <2>3 DEF Present
<1>4. d \in Present(scene)
  BY <1>3 DEF Present
<1>5. PICK j \in 1..Len(order) : order[j] = d
  BY <1>4, OrderFacts
<1>6. PICK k \in 1..Len(order) : j < k /\ order[k] = c
  BY <1>3, <1>5 DEF Graph, InOrder, Neat
<1>7. k = i
  BY <1>6 DEF Graph, InOrder, Neat
<1>8. j \in 1..(i - 1)
  BY <1>1, <1>5, <1>6, <1>7
<1>9. QED
  BY <1>4, <1>5, <1>8

\* Nothing shown is under what is collapsed, and nothing but nodes is collapsed.
LEMMA CollapsedDown ==
    ASSUME CollapseFollows
    PROVE  /\ \A n \in Nodes : scene.parent[n] \in Nodes /\ Collapsed(scene.parent[n]) => Collapsed(n)
           /\ \A c \in Components : Collapsed(c) => c \in Nodes
<1>1. CollapsesTo(CollapsedBy(scene, active), scene, active)
  BY CollapsedFacts
<1>2. Nodes \subseteq Components
  BY DEF Components
<1>3. QED
  BY <1>1, <1>2 DEF CollapsesTo, CollapseFollows

\* The component at index is updated, or it need not be.
Visited(c) ==
    /\ dirt' = [dirt EXCEPT ![c] = {}]
    /\ dirt[c] # {} /\ ~Collapsed(c)

\* It leaves nothing behind that waits for it: what it is computed from comes
\* before it, and has been visited.
LEMMA UpdateKeeps ==
    ASSUME IInv, pc = "visit", NEW c, c = order[index], Visited(c),
           UNCHANGED <<fileVars, active>>
    PROVE  /\ dirt' \in [Components -> SUBSET Flags]
           /\ CollapseFollows'
           /\ WorldFollows'
           /\ DirtIsClosed'
           /\ \A j \in 1..index : Clean(order[j])'
<1>1. /\ Graph /\ index \in 1..Len(order) /\ dirt \in [Components -> SUBSET Flags]
      /\ c \in Components /\ CollapseFollows
  BY OrderFacts DEF IInv, TypeOK
<1>2. /\ dirt' \in [Components -> SUBSET Flags]
      /\ dirt'[c] = {}
      /\ \A d \in Components : d # c => dirt'[d] = dirt[d]
  BY <1>1 DEF Visited
<1>3. \A d \in Components : Collapsed(d)' <=> Collapsed(d)
  BY <1>1, <1>2 DEF Visited, Collapsed
<1>4. CollapseFollows'
  <2>1. CollapsedBy(scene, active)' = CollapsedBy(scene, active)
    BY DEF fileVars, CollapsedBy
  <2>2. QED
    BY <1>1, <1>3, <2>1 DEF CollapseFollows
<1>5. WorldFollows'
  BY <1>2 DEF IInv, WorldFollows
<1>6. DirtIsClosed'
  <2> SUFFICES ASSUME NEW d \in Components, "WorldTransform" \in dirt'[d], NEW n \in Nodes
               PROVE  /\ scene.parent[n] = d => "WorldTransform" \in dirt'[n]
                      /\ scene.target[n] = d => \/ "WorldTransform" \in dirt'[n]
                                                \/ Collapsed(d)' \/ d \in scene.solos
    BY DEF DirtIsClosed, fileVars
  <2>1. d # c /\ "WorldTransform" \in dirt[d]
    BY <1>2
  <2>2. n \in Components
    BY DEF Components
  <2>3. CASE n # c
    BY <1>2, <1>3, <2>1, <2>2, <2>3 DEF IInv, DirtIsClosed
  <2>4. CASE n = c
    <3>1. ASSUME d \in {scene.parent[n], scene.target[n]} PROVE Collapsed(d)
      <4>1. n # Joystick /\ n # Artboard /\ d # None
        BY ArtboardUpdateAssumption
      <4>2. d \in Dependencies(order[index])
        BY <2>4, <3>1, <4>1 DEF Dependencies
      <4>3. PICK j \in 1..(index - 1) : order[j] = d
        BY <1>1, <4>2, ComesEarlier
      <4>4. Clean(order[j])
        BY DEF IInv, VisitedAreClean
      <4>5. QED
        BY <2>1, <4>3, <4>4 DEF Clean
    <3>2. scene.parent[n] # d
      <4>1. ~Collapsed(n)
        BY <2>4 DEF Visited
      <4>2. QED
        BY <1>1, <3>1, <4>1, CollapsedDown
    <3>3. QED
      BY <1>3, <3>1, <3>2
  <2>5. QED
    BY <2>3, <2>4
<1>7. ASSUME NEW j \in 1..index PROVE Clean(order[j])'
  <2>1. j \in 1..Len(order) /\ order[j] \in Components /\ order' = order
    BY <1>1, OrderFacts DEF fileVars
  <2>2. CASE j = index
    BY <1>2, <2>1, <2>2 DEF Clean
  <2>3. CASE j # index
    <3>1. j \in 1..(index - 1)
      BY <1>1, <2>3
    <3>2. Clean(order[j])
      BY <3>1 DEF IInv, VisitedAreClean
    <3>3. QED
      BY <1>2, <1>3, <2>1, <3>2 DEF Clean
  <2>4. QED
    BY <2>2, <2>3
<1>8. QED
  BY <1>2, <1>4, <1>5, <1>6, <1>7

\* A component skipped stays clean.
LEMMA SkipKeeps ==
    ASSUME IInv, pc = "visit", Clean(order[index]), UNCHANGED <<fileVars, active, dirt>>
    PROVE  /\ CollapseFollows'
           /\ WorldFollows'
           /\ DirtIsClosed'
           /\ \A j \in 1..index : Clean(order[j])'
<1>1. CollapseFollows' /\ WorldFollows' /\ DirtIsClosed'
  BY DEF IInv, CollapseFollows, WorldFollows, DirtIsClosed, fileVars, Collapsed, CollapsedBy
<1>2. ASSUME NEW j \in 1..index PROVE Clean(order[j])'
  <2>1. index \in 1..Len(order) /\ Len(order) \in Nat
    BY OrderFacts DEF IInv, TypeOK
  <2>2. j = index \/ j \in 1..(index - 1)
    BY <2>1
  <2>3. Clean(order[j])
    BY <2>2 DEF IInv, VisitedAreClean
  <2>4. QED
    BY <2>3 DEF Clean, Collapsed, fileVars
<1>3. QED
  BY <1>1, <1>2

\* The loop goes on behind what is clean, or ends: with everything clean, or
\* because there is more to do.
LEMMA AdvanceKeeps ==
    ASSUME IInv, pc = "visit", NEW depth \in 1..index, Advance(depth),
           depth < index => dirty',
           UNCHANGED fileVars, \A j \in 1..index : Clean(order[j])'
    PROVE  /\ pc' \in {"visit", "loop"} /\ index' \in 1..Len(order) /\ step' \in 0..MaxSteps
           /\ VisitedAreClean' /\ AllAreClean' /\ VisitsAreCounted'
<1>1. /\ Graph /\ index \in 1..Len(order) /\ step \in 0..MaxSteps /\ step < MaxSteps
      /\ Len(order) \in Nat /\ MaxSteps \in Nat /\ order' = order
  BY OrderFacts, ArtboardUpdateAssumption DEF IInv, TypeOK, VisitsAreCounted, fileVars
<1>2. CASE index < Len(order) /\ ~(depth < index)
  <2>1. index' = index + 1 /\ pc' = "visit" /\ step' = step
    BY <1>2 DEF Advance
  <2>2. 1..(index' - 1) = 1..index
    BY <1>1, <2>1
  <2>3. VisitedAreClean'
    BY <2>2 DEF VisitedAreClean
  <2>4. QED
    BY <1>1, <1>2, <2>1, <2>3 DEF AllAreClean, VisitsAreCounted
<1>3. CASE ~(index < Len(order) /\ ~(depth < index))
  <2>1. index' = index /\ pc' = "loop" /\ step' = step + 1
    BY <1>3 DEF Advance
  <2>2. ASSUME ~dirty', NEW c \in Present(scene)' PROVE Clean(c)'
    <3>1. index = Len(order)
      BY <1>1, <1>3, <2>2
    <3>2. c \in Present(scene)
      BY <1>1, <2>2, GraphStays
    <3>3. PICK j \in 1..Len(order) : order[j] = c
      BY <1>1, <3>2, OrderFacts
    <3>4. Clean(order[j])'
      BY <3>1
    <3>5. QED
      BY <1>1, <3>3, <3>4 DEF Clean, Collapsed
  <2>3. AllAreClean'
    BY <2>2 DEF AllAreClean
  <2>4. QED
    BY <1>1, <2>1, <2>3 DEF VisitedAreClean, VisitsAreCounted
<1>4. QED
  BY <1>2, <1>3

(***************************************************************************)
(* Initial states, and components marked                                     *)
(***************************************************************************)

\* A file just loaded: everything is dirty.
LEMMA InitIsGood ==
    ASSUME Init
    PROVE  IInv
<1>1. scene \in Scenes /\ pc = "idle" /\ dirty = TRUE /\ order = Sorted(scene)
  BY DEF Init
<1>2. InOrder(scene, order)
  BY <1>1, ComponentsAreSorted
<1>3. Graph
  BY <1>1, <1>2 DEF Graph, Init
<1>4. CollapsesTo(CollapsedBy(scene, active), scene, active)
  BY CollapsedFacts
<1>5. \A c \in Components :
          /\ dirt[c] \in SUBSET Flags
          /\ "WorldTransform" \in dirt[c]
          /\ "Collapsed" \in dirt[c] <=> c \in CollapsedBy(scene, active)
  BY DEF Init, WithCollapsed, Filthy, Flags
<1>6. dirt \in [Components -> SUBSET Flags]
  BY <1>5 DEF Init, WithCollapsed
<1>7. TypeOK
  <2>1. /\ order \in Seq(Components) /\ 1 \in 1..Len(order)
    BY <1>3, OrderFacts
  <2>2. dependents \in [Components -> Seq(Components)]
    <3>1. \A c \in Components : Dependents(scene, c) \in Seq(Components)
      BY <1>1, DependentsFacts, DependentsAreComponents
    <3>2. QED
      BY <3>1 DEF Init
  <2>3. 0 \in 0..MaxSteps
    BY ArtboardUpdateAssumption
  <2>4. /\ active \in [Nodes -> Nodes \cup {None}] /\ pose \in 0..1 /\ 0 \in 0..1
        /\ local \in [Nodes -> 0..1] /\ transform \in [Nodes -> 0..1] /\ world \in [Nodes -> 0..1]
    BY DEF Init
  <2>5. dirty \in BOOLEAN /\ pc = "idle" /\ phase \in 1..3 /\ step = 0 /\ index = 1 /\ dirtDepth = 1
    BY DEF Init
  <2>6. QED
    BY <1>1, <1>6, <2>1, <2>2, <2>3, <2>4, <2>5 DEF TypeOK
<1>8. CollapseFollows /\ WorldFollows
  BY <1>5 DEF CollapseFollows, WorldFollows, Collapsed
<1>9. DirtIsClosed
  BY <1>5 DEF DirtIsClosed, Components
<1>10. VisitedAreClean /\ AllAreClean /\ VisitsAreCounted
  BY <1>1 DEF VisitedAreClean, AllAreClean, VisitsAreCounted
<1>11. QED
  BY <1>3, <1>7, <1>8, <1>9, <1>10 DEF IInv

\* The dirt with the nodes collapsed that the solos ask for.
Flipped(from, choice) ==
    /\ from \in [Components -> SUBSET Flags]
    /\ \A c \in Components :
           /\ \A flag \in Filthy : flag \in from[c] <=> flag \in dirt[c]
           /\ "Collapsed" \in from[c] <=> c \in CollapsedBy(scene, choice)

\* What is constrained to a node that is shown again.
Uncovers(from, more) ==
    \A c \in Components : \A n \in Nodes :
        /\ scene.target[n] = c /\ c \notin scene.solos
        /\ "Collapsed" \in dirt[c] /\ "Collapsed" \notin from[c]
        => n \in more

\* Marks keep the invariant, also those that go with collapsing and showing nodes.
LEMMA MarkKeeps ==
    ASSUME IInv, pc # "visit", pc' # "visit", UNCHANGED fileVars,
           NEW from, NEW choice, active' = choice, Flipped(from, choice),
           NEW moved \in SUBSET Nodes, NEW more \in SUBSET Nodes,
           Uncovers(from, more), dirt' = Marked(from, moved, more),
           Notify({c \in Components : dirt'[c] # dirt[c]})
    PROVE  /\ dirt' \in [Components -> SUBSET Flags] /\ dirty' \in BOOLEAN
           /\ dirtDepth' \in 1..Len(order)
           /\ CollapseFollows'
           /\ WorldFollows'
           /\ DirtIsClosed'
           /\ VisitedAreClean'
           /\ AllAreClean'
           /\ VisitsAreCounted'
<1> DEFINE cs == {c \in Components : dirt'[c] # dirt[c]}
<1>1. /\ Graph /\ dirt \in [Components -> SUBSET Flags] /\ CollapseFollows
      /\ dirty \in BOOLEAN /\ dirtDepth \in 1..Len(order)
  BY DEF IInv, TypeOK
<1>2. PICK to : to = dirt'
  OBVIOUS
<1>3. Marks(to, from, moved, more)
  BY <1>1, <1>2, MarkedFacts DEF Flipped
<1>4. /\ to \in [Components -> SUBSET Flags]
      /\ \A c \in Components :
           /\ from[c] \subseteq to[c]
           /\ "Collapsed" \in to[c] => "Collapsed" \in from[c]
           /\ "Transform" \in to[c] => "Transform" \in from[c] \/ c \in moved
           /\ to[c] # from[c] => c \in Present(scene)
  BY <1>3 DEF Marks
<1>5. \A c \in Components : \A d \in DependentSet(scene, c) :
           "WorldTransform" \in to[c] =>
               "WorldTransform" \in from[c] \/ "WorldTransform" \in to[d]
  BY <1>3 DEF Marks
<1>6. /\ \A n \in moved : "Transform" \in from[n] \/ "WorldTransform" \in to[n]
      /\ \A n \in more : "WorldTransform" \in to[n]
  BY <1>3 DEF Marks
<1>7. \A c \in Components :
           /\ "Transform" \in from[c] <=> "Transform" \in dirt[c]
           /\ "WorldTransform" \in from[c] <=> "WorldTransform" \in dirt[c]
           /\ "Collapsed" \in from[c] <=> c \in CollapsedBy(scene, choice)
  BY DEF Flipped, Filthy, Flags
<1>8. CollapseFollows'
  <2>1. CollapsedBy(scene, active)' = CollapsedBy(scene, choice)
    BY DEF fileVars, CollapsedBy
  <2>2. \A c \in Components : "Collapsed" \in to[c] <=> c \in CollapsedBy(scene, choice)
    BY <1>4, <1>7
  <2>3. QED
    BY <1>2, <2>1, <2>2 DEF CollapseFollows, Collapsed
<1>9. WorldFollows'
  <2>1. ASSUME NEW c \in Components, "Transform" \in to[c] PROVE "WorldTransform" \in to[c]
    <3>1. CASE "Transform" \in from[c]
      BY <1>4, <1>7, <3>1 DEF IInv, WorldFollows
    <3>2. CASE "Transform" \notin from[c]
      BY <1>4, <1>6, <2>1, <3>2
    <3>3. QED
      BY <3>1, <3>2
  <2>2. QED
    BY <1>2, <2>1 DEF WorldFollows
<1>10. DirtIsClosed'
  <2> SUFFICES ASSUME NEW d \in Components, "WorldTransform" \in to[d], NEW n \in Nodes
               PROVE  /\ scene.parent[n] = d => "WorldTransform" \in to[n]
                      /\ scene.target[n] = d => \/ "WorldTransform" \in to[n]
                                                \/ "Collapsed" \in to[d] \/ d \in scene.solos
    BY <1>2 DEF DirtIsClosed, fileVars, Collapsed
  <2>1. n \in Components
    BY DEF Components
  <2>2. CASE "WorldTransform" \in from[d]
    <3>1. "WorldTransform" \in dirt[d]
      BY <1>7, <2>2
    <3>2. ASSUME "WorldTransform" \in dirt[n] PROVE "WorldTransform" \in to[n]
      BY <1>4, <1>7, <2>1, <3>2
    <3>3. scene.parent[n] = d => "WorldTransform" \in dirt[n]
      BY <3>1 DEF IInv, DirtIsClosed
    <3>4. scene.target[n] = d => \/ "WorldTransform" \in dirt[n]
                                 \/ "Collapsed" \in dirt[d] \/ d \in scene.solos
      BY <3>1 DEF IInv, DirtIsClosed, Collapsed
    <3>5. ASSUME scene.target[n] = d, d \notin scene.solos, "Collapsed" \in dirt[d]
          PROVE  "WorldTransform" \in to[n] \/ "Collapsed" \in to[d]
      <4>1. CASE "Collapsed" \in from[d]
        BY <1>4, <4>1
      <4>2. CASE "Collapsed" \notin from[d]
        <5>1. n \in more
          BY <3>5, <4>2 DEF Uncovers
        <5>2. QED
          BY <1>6, <5>1
      <4>3. QED
        BY <4>1, <4>2
    <3>6. QED
      BY <3>2, <3>3, <3>4, <3>5
  <2>3. CASE "WorldTransform" \notin from[d]
    <3>1. ASSUME n \in DependentSet(scene, d) PROVE "WorldTransform" \in to[n]
      BY <1>5, <2>3, <3>1
    <3>2. QED
      BY <3>1 DEF DependentSet
  <2>4. QED
    BY <2>2, <2>3
<1>11. cs \subseteq Present(scene)
  <2> SUFFICES ASSUME NEW c \in Components, to[c] # dirt[c], c \notin Present(scene)
               PROVE  FALSE
    BY <1>2
  <2>1. to[c] = from[c]
    BY <1>4
  <2>2. c \notin Nodes
    BY DEF Present
  <2>3. "Collapsed" \notin from[c]
    <3>1. CollapsesTo(CollapsedBy(scene, choice), scene, choice)
      BY CollapsedFacts
    <3>2. QED
      BY <1>7, <2>2, <3>1 DEF CollapsesTo
  <2>4. "Collapsed" \notin dirt[c]
    BY <1>1, <2>2, CollapsedDown DEF Collapsed
  <2>5. from[c] \in SUBSET Flags /\ dirt[c] \in SUBSET Flags
    BY <1>1 DEF Flipped
  <2>6. from[c] = dirt[c]
    <3>1. \A flag \in Flags : flag \in from[c] <=> flag \in dirt[c]
      BY <1>7, <2>3, <2>4 DEF Flags
    <3>2. ASSUME NEW A \in SUBSET Flags, NEW B \in SUBSET Flags,
                 \A flag \in Flags : flag \in A <=> flag \in B
          PROVE  A = B
      BY <3>2
    <3>3. QED
      BY <2>5, <3>1, <3>2
  <2>7. QED
    BY <2>1, <2>6
<1>12. /\ dirty' \in BOOLEAN /\ dirtDepth' \in 1..Len(order)
       /\ dirty' <=> dirty \/ cs # {}
  <2>1. Notify(cs)
    OBVIOUS
  <2> HIDE DEF cs
  <2>2. QED
    BY <1>1, <1>11, <2>1, NotifyFacts
<1>13. AllAreClean'
  <2> SUFFICES ASSUME ~dirty', NEW c \in Present(scene)' PROVE Clean(c)'
    BY DEF AllAreClean
  <2>1. ~dirty /\ cs = {}
    BY <1>12
  <2>2. c \in Present(scene) /\ c \in Components
    BY <1>1, GraphStays, OrderFacts
  <2>3. Clean(c)
    BY <2>1, <2>2 DEF IInv, AllAreClean
  <2>4. dirt'[c] = dirt[c]
    BY <2>1, <2>2
  <2>5. QED
    BY <2>3, <2>4 DEF Clean, Collapsed
<1>14. VisitedAreClean' /\ VisitsAreCounted'
  BY DEF VisitedAreClean, VisitsAreCounted
<1>15. QED
  BY <1>2, <1>4, <1>8, <1>9, <1>10, <1>12, <1>13, <1>14

(***************************************************************************)
(* Every action                                                              *)
(***************************************************************************)

\* The dirt as it is, when nothing is collapsed or shown.
LEMMA FlippedNot ==
    ASSUME IInv, NEW more
    PROVE  Flipped(dirt, active) /\ Uncovers(dirt, more)
  BY DEF IInv, TypeOK, CollapseFollows, Collapsed, Flipped, Uncovers

\* A property of a node is set.
LEMMA SetTransformKeeps ==
    ASSUME IInv, NEW n \in Nodes, SetTransform(n)
    PROVE  IInv'
<1>1. /\ pc = "idle" /\ pc' = "idle" /\ local' = [local EXCEPT ![n] = 1 - @]
      /\ UNCHANGED <<fileVars, active, transform, world, pose, loopVars>>
      /\ UNCHANGED fileVars /\ active' = active
  BY DEF SetTransform, loopVars
<1>2. /\ dirt' \in [Components -> SUBSET Flags] /\ dirty' \in BOOLEAN
      /\ dirtDepth' \in 1..Len(order)
      /\ CollapseFollows' /\ WorldFollows' /\ DirtIsClosed'
      /\ VisitedAreClean' /\ AllAreClean' /\ VisitsAreCounted'
  <2>1. /\ dirt' = Marked(dirt, {n}, {})
        /\ Notify({c \in Components : dirt'[c] # dirt[c]})
    BY DEF SetTransform
  <2>2. {n} \in SUBSET Nodes /\ {} \in SUBSET Nodes /\ pc # "visit" /\ pc' # "visit"
    BY <1>1
  <2>3. Flipped(dirt, active) /\ Uncovers(dirt, {})
    BY FlippedNot
  <2>4. QED
    BY <1>1, <2>1, <2>2, <2>3, MarkKeeps
<1>3. Graph'
  BY <1>1, GraphStays DEF IInv
<1>4. TypeOK'
  <2>1. local' \in [Nodes -> 0..1]
    <3>1. local \in [Nodes -> 0..1]
      BY DEF IInv, TypeOK
    <3>2. local[n] \in 0..1
      BY <3>1
    <3>3. 1 - local[n] \in 0..1
      BY <3>2
    <3>4. QED
      BY <1>1, <3>1, <3>3
  <2>2. QED
    BY <1>1, <1>2, <2>1 DEF IInv, TypeOK, fileVars, loopVars
<1>5. QED
  BY <1>2, <1>3, <1>4 DEF IInv

\* The joystick is applied.
LEMMA ApplyKeeps ==
    ASSUME IInv, Apply
    PROVE  IInv'
<1> DEFINE n == scene.driven
<1>1. /\ pc = "apply" /\ pc' = "loop"
      /\ UNCHANGED <<fileVars, active, transform, world, pose, phase, step>>
      /\ UNCHANGED index
      /\ UNCHANGED fileVars /\ active' = active
  BY DEF Apply
<1>2. Graph' /\ scene \in Scenes
  BY <1>1, GraphStays DEF IInv, Graph
<1>3. CASE n # None /\ local[n] # pose
  <2>1. n \in Nodes
    BY <1>2, <1>3, SceneFacts
  <2>2. /\ local' = [local EXCEPT ![n] = pose]
        /\ dirt' = Marked(dirt, {n}, {})
        /\ Notify({c \in Components : dirt'[c] # dirt[c]})
    BY <1>3 DEF Apply
  <2>3. {n} \in SUBSET Nodes /\ {} \in SUBSET Nodes /\ pc # "visit" /\ pc' # "visit"
    BY <1>1, <2>1
  <2>4. Flipped(dirt, active) /\ Uncovers(dirt, {})
    BY FlippedNot
  <2>5. /\ dirt' \in [Components -> SUBSET Flags] /\ dirty' \in BOOLEAN
        /\ dirtDepth' \in 1..Len(order)
        /\ CollapseFollows' /\ WorldFollows' /\ DirtIsClosed'
        /\ VisitedAreClean' /\ AllAreClean' /\ VisitsAreCounted'
    BY <1>1, <2>2, <2>3, <2>4, MarkKeeps
  <2>6. local' \in [Nodes -> 0..1]
    BY <2>1, <2>2 DEF IInv, TypeOK
  <2>7. TypeOK'
    BY <1>1, <2>5, <2>6 DEF IInv, TypeOK, fileVars
  <2>8. QED
    BY <1>2, <2>5, <2>7 DEF IInv
<1>4. CASE ~(n # None /\ local[n] # pose)
  <2>1. UNCHANGED <<local, dirt, dirty, dirtDepth>>
    BY <1>4 DEF Apply
  <2>2. TypeOK'
    BY <1>1, <2>1 DEF IInv, TypeOK, fileVars
  <2>3. CollapseFollows' /\ WorldFollows' /\ DirtIsClosed'
    BY <1>1, <2>1 DEF IInv, CollapseFollows, WorldFollows, DirtIsClosed, fileVars, Collapsed, CollapsedBy
  <2>4. VisitedAreClean' /\ VisitsAreCounted'
    BY <1>1 DEF VisitedAreClean, VisitsAreCounted
  <2>5. AllAreClean'
    BY <1>1, <2>1 DEF IInv, AllAreClean, Clean, Collapsed, Present, fileVars
  <2>6. QED
    BY <1>2, <2>2, <2>3, <2>4, <2>5 DEF IInv
<1>5. QED
  BY <1>3, <1>4

\* What is constrained to a node that a solo shows or collapses is marked.
LEMMA ActivateMarks ==
    ASSUME IInv, NEW s, NEW n, Activate(s, n)
    PROVE  \E from, choice, moved, more :
               /\ active' = choice /\ Flipped(from, choice)
               /\ moved = {m \in Nodes : from[m] # dirt[m] /\ Constrained(m)}
               /\ more \in SUBSET Nodes
               /\ dirt' = Marked(from, moved, more)
               /\ \A c \in Nodes \ scene.solos : from[c] # dirt[c] =>
                      \A m \in Nodes : scene.target[m] = c => m \in more
<1> DEFINE from == WithCollapsed(dirt, CollapsedBy(scene, active'))
           changed == {m \in Nodes : from[m] # dirt[m]}
           dependent == UNION {Range(dependents[m]) : m \in changed \ scene.solos}
           moved == {m \in changed : Constrained(m)}
           more == {m \in dependent \cap Nodes : Constrained(m)}
<1>1. dirt' = Marked(from, moved, more)
  BY DEF Activate
<1>2. PICK choice : choice = active'
  OBVIOUS
<1>3. Flipped(from, choice)
  <2>1. CollapsedBy(scene, active') = CollapsedBy(scene, choice)
    BY <1>2
  <2>2. PICK S : S = CollapsedBy(scene, choice)
    OBVIOUS
  <2>3. from = [c \in Components |-> IF c \in S THEN dirt[c] \cup {"Collapsed"}
                                     ELSE dirt[c] \ {"Collapsed"}]
    BY <2>1, <2>2 DEF WithCollapsed
  <2>4. dirt \in [Components -> SUBSET Flags]
    BY DEF IInv, TypeOK
  <2> HIDE DEF from
  <2>5. from \in [Components -> SUBSET Flags]
    BY <2>3, <2>4 DEF Flags
  <2>6. \A c \in Components : \A flag \in Filthy : flag \in from[c] <=> flag \in dirt[c]
    BY <2>3 DEF Filthy
  <2>7. \A c \in Components : "Collapsed" \in from[c] <=> c \in S
    BY <2>3
  <2>8. QED
    BY <2>2, <2>5, <2>6, <2>7 DEF Flipped
<1> HIDE DEF from
<1>4. ASSUME NEW c \in Nodes \ scene.solos, from[c] # dirt[c],
             NEW m \in Nodes, scene.target[m] = c
      PROVE  m \in more
  <2>1. c \in changed /\ c \in Components
    BY <1>4 DEF Components
  <2>2. m \in Range(dependents[c])
    BY <1>4, <2>1, GraphDependents DEF IInv, DependentSet
  <2>3. Constrained(m)
    BY <1>4, ArtboardUpdateAssumption DEF Constrained, Components
  <2>4. QED
    BY <1>4, <2>1, <2>2, <2>3
<1>5. moved = {m \in Nodes : from[m] # dirt[m] /\ Constrained(m)}
  OBVIOUS
<1>6. more \in SUBSET Nodes
  OBVIOUS
<1> HIDE DEF moved, more
<1>7. QED
  BY <1>1, <1>2, <1>3, <1>4, <1>5, <1>6

\* A solo makes another child active.
LEMMA ActivateKeeps ==
    ASSUME IInv, NEW s \in Nodes, NEW n \in Nodes \cup {None}, Activate(s, n)
    PROVE  IInv'
<1>1. PICK from, choice, moved, more :
               /\ active' = choice /\ Flipped(from, choice)
               /\ moved = {m \in Nodes : from[m] # dirt[m] /\ Constrained(m)}
               /\ more \in SUBSET Nodes
               /\ dirt' = Marked(from, moved, more)
               /\ \A c \in Nodes \ scene.solos : from[c] # dirt[c] =>
                      \A m \in Nodes : scene.target[m] = c => m \in more
  BY ActivateMarks
<1>2. /\ pc = "idle" /\ pc' = "idle" /\ active' = [active EXCEPT ![s] = n]
      /\ UNCHANGED <<fileVars, local, transform, world, pose, loopVars>>
      /\ UNCHANGED fileVars
      /\ Notify({c \in Components : dirt'[c] # dirt[c]})
  BY DEF Activate, loopVars
<1>3. moved \in SUBSET Nodes /\ pc # "visit" /\ pc' # "visit"
  BY <1>1, <1>2
<1>4. Uncovers(from, more)
  <2> SUFFICES ASSUME NEW c \in Components, NEW m \in Nodes,
                      scene.target[m] = c, c \notin scene.solos,
                      "Collapsed" \in dirt[c], "Collapsed" \notin from[c]
               PROVE  m \in more
    BY DEF Uncovers
  <2>1. c \in Nodes
    <3>1. scene \in Scenes
      BY DEF IInv, TypeOK
    <3>2. scene.target[m] \in Nodes \cup {None}
      BY <3>1, SceneFacts
    <3>3. QED
      BY <3>2, ArtboardUpdateAssumption
  <2>2. QED
    BY <1>1, <2>1
<1>5. /\ dirt' \in [Components -> SUBSET Flags] /\ dirty' \in BOOLEAN
      /\ dirtDepth' \in 1..Len(order)
      /\ CollapseFollows' /\ WorldFollows' /\ DirtIsClosed'
      /\ VisitedAreClean' /\ AllAreClean' /\ VisitsAreCounted'
  BY <1>1, <1>2, <1>3, <1>4, MarkKeeps
<1>6. Graph'
  BY <1>2, GraphStays DEF IInv
<1>7. TypeOK'
  <2>1. active' \in [Nodes -> Nodes \cup {None}]
    BY <1>2 DEF IInv, TypeOK
  <2>2. QED
    BY <1>2, <1>5, <2>1 DEF IInv, TypeOK, fileVars, loopVars
<1>8. QED
  BY <1>5, <1>6, <1>7 DEF IInv

\* The steps of the loop that leave the dirt alone.
LEMMA QuietKeeps ==
    ASSUME IInv, UpdatePass \/ NextStep \/ EndComponents \/ UNCHANGED vars
    PROVE  IInv'
<1>1. UNCHANGED <<fileVars, valueVars, dirt, dirtDepth>> /\ UNCHANGED fileVars
  BY DEF UpdatePass, NextStep, EndComponents, vars
<1>2. Graph' /\ Present(scene)' = Present(scene)
  BY <1>1, GraphStays DEF IInv
<1>3. CollapseFollows' /\ WorldFollows' /\ DirtIsClosed'
  BY <1>1 DEF IInv, CollapseFollows, WorldFollows, DirtIsClosed, fileVars, valueVars, Collapsed, CollapsedBy
<1>4. TypeOK'
  <2>1. 1 \in 1..Len(order) /\ 0 \in 0..MaxSteps
    BY OrderFacts, ArtboardUpdateAssumption DEF IInv
  <2>2. dirty' \in BOOLEAN
    BY DEF IInv, TypeOK, UpdatePass, NextStep, EndComponents, vars
  <2>3. /\ pc' \in {"idle", "loop", "visit", "apply"}
        /\ phase' \in 1..3 /\ step' \in 0..MaxSteps /\ index' \in 1..Len(order)
    <3>1. CASE UpdatePass
      BY <2>1, <3>1 DEF IInv, TypeOK, UpdatePass
    <3>2. CASE NextStep
      BY <2>1, <3>2 DEF IInv, TypeOK, NextStep
    <3>3. CASE EndComponents
      BY <2>1, <3>3 DEF IInv, TypeOK, EndComponents
    <3>4. CASE UNCHANGED vars
      BY <3>4 DEF IInv, TypeOK, vars, loopVars
    <3>5. QED
      BY <3>1, <3>2, <3>3, <3>4
  <2>4. QED
    BY <1>1, <2>2, <2>3 DEF IInv, TypeOK, fileVars, valueVars
<1>5. ASSUME NEW c PROVE Clean(c)' <=> Clean(c)
  BY <1>1 DEF Clean, Collapsed
<1>6. VisitedAreClean' /\ AllAreClean' /\ VisitsAreCounted'
  <2>1. CASE UpdatePass
    BY <1>2, <1>5, <2>1 DEF UpdatePass, IInv, VisitedAreClean, AllAreClean, VisitsAreCounted
  <2>2. CASE NextStep
    BY <2>2 DEF NextStep, VisitedAreClean, AllAreClean, VisitsAreCounted
  <2>3. CASE EndComponents
    <3>1. pc # "visit" /\ pc' # "visit" /\ dirty' = dirty
      BY <2>3 DEF EndComponents
    <3>2. QED
      BY <1>2, <1>5, <3>1 DEF IInv, VisitedAreClean, AllAreClean, VisitsAreCounted
  <2>4. CASE UNCHANGED vars
    BY <1>2, <1>5, <2>4 DEF vars, fileVars, loopVars, IInv, VisitedAreClean, AllAreClean, VisitsAreCounted
  <2>5. QED
    BY <2>1, <2>2, <2>3, <2>4
<1>7. QED
  BY <1>2, <1>3, <1>4, <1>6 DEF IInv

\* The loop passes a component by.
LEMMA SkipStepKeeps ==
    ASSUME IInv, Skip
    PROVE  IInv'
<1>1. /\ pc = "visit" /\ Clean(order[index]) /\ dirtDepth' = index /\ Advance(index)
      /\ UNCHANGED <<fileVars, valueVars, dirt, dirty, phase>>
      /\ UNCHANGED <<fileVars, active, dirt>> /\ UNCHANGED fileVars
  BY DEF Skip, Clean, valueVars
<1>2. /\ CollapseFollows' /\ WorldFollows' /\ DirtIsClosed'
      /\ \A j \in 1..index : Clean(order[j])'
  BY <1>1, SkipKeeps
<1>3. index \in 1..index /\ index \in 1..Len(order)
  BY OrderFacts DEF IInv, TypeOK
<1>4. index < index => dirty'
  BY <1>3
<1>5. /\ pc' \in {"visit", "loop"} /\ index' \in 1..Len(order) /\ step' \in 0..MaxSteps
      /\ VisitedAreClean' /\ AllAreClean' /\ VisitsAreCounted'
  BY <1>1, <1>2, <1>3, <1>4, AdvanceKeeps
<1>6. Graph'
  BY <1>1, GraphStays DEF IInv
<1>7. TypeOK'
  BY <1>1, <1>3, <1>5 DEF IInv, TypeOK, fileVars, valueVars
<1>8. QED
  BY <1>2, <1>5, <1>6, <1>7 DEF IInv

\* What a component's world transform comes to is a bit.
LEMMA WorldIsBit ==
    ASSUME IInv, NEW n \in Nodes, NEW own \in 0..1
    PROVE  WorldTransform(n, own) \in 0..1
<1>1. world \in [Nodes -> 0..1] /\ scene \in Scenes
  BY DEF IInv, TypeOK
<1>2. scene.parent[n] \in Nodes \cup {Artboard} /\ scene.target[n] \in Nodes \cup {None}
  BY <1>1, SceneFacts
<1> DEFINE composed == own + IF scene.parent[n] = Artboard THEN 0 ELSE world[scene.parent[n]]
<1>3. composed \in Nat
  BY <1>1, <1>2
<1>4. composed % 2 \in 0..1
  BY <1>3
<1>5. ASSUME scene.target[n] # None
      PROVE  (composed + world[scene.target[n]] + 1) % 2 \in 0..1
  <2>1. world[scene.target[n]] \in Nat
    BY <1>1, <1>2, <1>5
  <2>2. QED
    BY <1>3, <2>1
<1> HIDE DEF composed
<1>6. WorldTransform(n, own) = IF scene.target[n] # None /\ ~Collapsed(scene.target[n])
                               THEN (composed + world[scene.target[n]] + 1) % 2
                               ELSE composed % 2
  BY DEF WorldTransform, composed
<1>7. QED
  BY <1>4, <1>5, <1>6

\* A node is updated.
LEMMA UpdateNodeKeeps ==
    ASSUME IInv, UpdateNode
    PROVE  IInv'
<1> DEFINE n == order[index]
           own == IF "Transform" \in dirt[n] THEN local[n] ELSE transform[n]
<1>1. /\ pc = "visit" /\ n \in Nodes /\ Visited(n) /\ dirtDepth' = index /\ Advance(index)
      /\ transform' = [transform EXCEPT ![n] = own]
      /\ world' = IF "WorldTransform" \in dirt[n]
                  THEN [world EXCEPT ![n] = WorldTransform(n, own)]
                  ELSE world
      /\ UNCHANGED <<fileVars, active, local, pose, dirty, phase>>
      /\ UNCHANGED <<fileVars, active>> /\ UNCHANGED fileVars
  BY DEF UpdateNode, Visited
<1>2. /\ dirt' \in [Components -> SUBSET Flags]
      /\ CollapseFollows' /\ WorldFollows' /\ DirtIsClosed'
      /\ \A j \in 1..index : Clean(order[j])'
  BY <1>1, UpdateKeeps
<1>3. index \in 1..index /\ index \in 1..Len(order)
  BY OrderFacts DEF IInv, TypeOK
<1>4. index < index => dirty'
  BY <1>3
<1>5. /\ pc' \in {"visit", "loop"} /\ index' \in 1..Len(order) /\ step' \in 0..MaxSteps
      /\ VisitedAreClean' /\ AllAreClean' /\ VisitsAreCounted'
  BY <1>1, <1>2, <1>3, <1>4, AdvanceKeeps
<1>6. Graph'
  BY <1>1, GraphStays DEF IInv
<1>7. TypeOK'
  <2>1. own \in 0..1
    BY <1>1 DEF IInv, TypeOK
  <2>2. WorldTransform(n, own) \in 0..1
    BY <1>1, <2>1, WorldIsBit
  <2> HIDE DEF own
  <2>3. transform' \in [Nodes -> 0..1]
    BY <1>1, <2>1 DEF IInv, TypeOK
  <2>4. world' \in [Nodes -> 0..1]
    BY <1>1, <2>2 DEF IInv, TypeOK
  <2>5. QED
    BY <1>1, <1>2, <1>3, <1>5, <2>3, <2>4 DEF IInv, TypeOK, fileVars
<1>8. QED
  BY <1>2, <1>5, <1>6, <1>7 DEF IInv

\* The artboard is updated.
LEMMA UpdateArtboardKeeps ==
    ASSUME IInv, UpdateArtboard
    PROVE  IInv'
<1>1. ~Collapsed(Artboard)
  BY CollapsedDown, ArtboardUpdateAssumption DEF IInv, Components
<1>2. /\ pc = "visit" /\ order[index] = Artboard /\ Visited(order[index])
      /\ dirtDepth' = index /\ Advance(index)
      /\ UNCHANGED <<fileVars, valueVars, dirty, phase>>
      /\ UNCHANGED <<fileVars, active>> /\ UNCHANGED fileVars
  BY <1>1 DEF UpdateArtboard, Visited, valueVars
<1>3. /\ dirt' \in [Components -> SUBSET Flags]
      /\ CollapseFollows' /\ WorldFollows' /\ DirtIsClosed'
      /\ \A j \in 1..index : Clean(order[j])'
  BY <1>2, UpdateKeeps
<1>4. index \in 1..index /\ index \in 1..Len(order)
  BY OrderFacts DEF IInv, TypeOK
<1>5. index < index => dirty'
  BY <1>4
<1>6. /\ pc' \in {"visit", "loop"} /\ index' \in 1..Len(order) /\ step' \in 0..MaxSteps
      /\ VisitedAreClean' /\ AllAreClean' /\ VisitsAreCounted'
  BY <1>2, <1>3, <1>4, <1>5, AdvanceKeeps
<1>7. Graph'
  BY <1>2, GraphStays DEF IInv
<1>8. TypeOK'
  BY <1>2, <1>3, <1>4, <1>6 DEF IInv, TypeOK, fileVars, valueVars
<1>9. QED
  BY <1>3, <1>6, <1>7, <1>8 DEF IInv

\* What the joystick is among the components visited.
LEMMA JoystickFacts ==
    ASSUME IInv, order[index] = Joystick
    PROVE  /\ scene.handle \in Nodes
           /\ ~Collapsed(Joystick)
<1>1. order[index] \in Present(scene)
  BY OrderFacts DEF IInv, TypeOK
<1>2. scene.handle # None
  BY <1>1, ArtboardUpdateAssumption DEF Present
<1>3. QED
  BY <1>2, SceneFacts, CollapsedDown, ArtboardUpdateAssumption DEF IInv, Graph, Components

\* The joystick is updated; when it has moved it starts the loop again.
LEMMA UpdateJoystickKeeps ==
    ASSUME IInv, UpdateJoystick
    PROVE  IInv'
<1> DEFINE moved == pose # world[scene.handle]
           depth == IF moved /\ ~dirty THEN 1 ELSE index
<1>1. scene.handle \in Nodes /\ ~Collapsed(Joystick)
  BY JoystickFacts DEF UpdateJoystick
<1>2. /\ pc = "visit" /\ order[index] = Joystick /\ Visited(order[index])
      /\ dirtDepth' = depth /\ Advance(depth)
      /\ pose' = world[scene.handle] /\ dirty' = (dirty \/ moved)
      /\ UNCHANGED <<fileVars, active, local, transform, world, phase>>
      /\ UNCHANGED <<fileVars, active>> /\ UNCHANGED fileVars
  BY <1>1 DEF UpdateJoystick, Visited
<1>3. /\ dirt' \in [Components -> SUBSET Flags]
      /\ CollapseFollows' /\ WorldFollows' /\ DirtIsClosed'
      /\ \A j \in 1..index : Clean(order[j])'
  BY <1>2, UpdateKeeps
<1>4. depth \in 1..index /\ depth \in 1..Len(order) /\ (depth < index => dirty')
  <2>1. index \in 1..Len(order) /\ Len(order) \in Nat
    BY OrderFacts DEF IInv, TypeOK
  <2>2. CASE moved /\ ~dirty
    <3>1. dirty' = TRUE
      BY <1>2, <2>2
    <3>2. depth = 1
      BY <2>2
    <3>3. QED
      BY <2>1, <3>1, <3>2
  <2>3. CASE ~(moved /\ ~dirty)
    BY <2>1, <2>3
  <2>4. QED
    BY <2>2, <2>3
<1> HIDE DEF depth
<1>5. /\ pc' \in {"visit", "loop"} /\ index' \in 1..Len(order) /\ step' \in 0..MaxSteps
      /\ VisitedAreClean' /\ AllAreClean' /\ VisitsAreCounted'
  BY <1>2, <1>3, <1>4, AdvanceKeeps
<1>6. Graph'
  BY <1>2, GraphStays DEF IInv
<1>7. TypeOK'
  <2>1. pose' \in 0..1 /\ dirty' \in BOOLEAN
    BY <1>1, <1>2 DEF IInv, TypeOK
  <2>2. QED
    BY <1>2, <1>3, <1>4, <1>5, <2>1 DEF IInv, TypeOK, fileVars
<1>8. QED
  BY <1>3, <1>5, <1>6, <1>7 DEF IInv

\* So does every step.
LEMMA StepKeeps ==
    ASSUME IInv, [Next]_vars
    PROVE  IInv'
<1>1. CASE \E n \in Nodes : SetTransform(n)
  BY <1>1, SetTransformKeeps
<1>2. CASE \E s \in Nodes, n \in Nodes \cup {None} : Activate(s, n)
  BY <1>2, ActivateKeeps
<1>3. CASE UpdatePass \/ NextStep \/ EndComponents \/ UNCHANGED vars
  BY <1>3, QuietKeeps
<1>4. CASE Apply
  BY <1>4, ApplyKeeps
<1>5. CASE Skip
  BY <1>5, SkipStepKeeps
<1>6. CASE UpdateNode
  BY <1>6, UpdateNodeKeeps
<1>7. CASE UpdateArtboard
  BY <1>7, UpdateArtboardKeeps
<1>8. CASE UpdateJoystick
  BY <1>8, UpdateJoystickKeeps
<1>9. QED
  BY <1>1, <1>2, <1>3, <1>4, <1>5, <1>6, <1>7, <1>8 DEF Next

\* In every reachable state the dirt is where it has to be: closed under the
\* dependencies (addDirt, markTransformDirty) and never behind the index of the
\* update loop (updateComponents).
THEOREM ArtboardInvariant == Spec => []IInv
<1>1. Init => IInv
  BY InitIsGood
<1>2. IInv /\ [Next]_vars => IInv'
  BY StepKeeps
<1>3. QED
  BY <1>1, <1>2, PTL DEF Spec

\* Every variable holds a value the code can store in it, among them m_DirtDepth and
\* the index of the update loop, which stay within m_DependencyOrder.
THEOREM TypeCorrectness == Spec => []TypeOK
<1>1. IInv => TypeOK
  BY DEF IInv
<1>2. QED
  BY <1>1, ArtboardInvariant, PTL

(***************************************************************************)
(* In the order of the dependencies, and in time                             *)
(***************************************************************************)

\* What the component is computed from is clean when it becomes clean.
UpdatedInTurn(c) ==
    dirt[c] # {} /\ dirt'[c] = {} => \A d \in Dependencies(c) : Clean(d)

\* Marks take nothing away.
LEMMA MarksAdd ==
    ASSUME IInv, NEW c \in Components, NEW m \in Nodes, dirt' = Marked(dirt, {m}, {})
    PROVE  dirt[c] \subseteq dirt'[c]
<1>1. Graph /\ dirt \in [Components -> SUBSET Flags] /\ {m} \in SUBSET Nodes /\ {} \in SUBSET Nodes
  BY DEF IInv, TypeOK
<1>2. Marks(Marked(dirt, {m}, {}), dirt, {m}, {})
  BY <1>1, MarkedFacts
<1>3. PICK to : to = Marked(dirt, {m}, {})
  OBVIOUS
<1>4. dirt[c] \subseteq to[c]
  BY <1>2, <1>3 DEF Marks
<1>5. QED
  BY <1>3, <1>4

\* A node that becomes clean because it is shown again: its parent, marked in the
\* meantime, would have marked it.
LEMMA ActivateInTurn ==
    ASSUME IInv, NEW s, NEW n, Activate(s, n), NEW c \in Components
    PROVE  UpdatedInTurn(c)
<1> SUFFICES ASSUME dirt[c] # {}, dirt'[c] = {}, NEW d \in Dependencies(c), ~Clean(d)
             PROVE  FALSE
  BY DEF UpdatedInTurn
<1>1. /\ Graph /\ scene \in Scenes /\ dirt \in [Components -> SUBSET Flags]
      /\ CollapseFollows /\ WorldFollows /\ DirtIsClosed
  BY DEF IInv, TypeOK
<1>2. PICK from, choice, moved, more :
               /\ active' = choice /\ Flipped(from, choice)
               /\ moved = {m \in Nodes : from[m] # dirt[m] /\ Constrained(m)}
               /\ more \in SUBSET Nodes
               /\ dirt' = Marked(from, moved, more)
  BY ActivateMarks
<1>3. PICK to : to = dirt'
  OBVIOUS
<1>4. Marks(to, from, moved, more)
  <2>1. moved \in SUBSET Nodes /\ from \in [Components -> SUBSET Flags]
    BY <1>2 DEF Flipped
  <2>2. QED
    BY <1>1, <1>2, <1>3, <2>1, MarkedFacts
<1>5. from[c] = {} /\ c \notin moved
  <2>1. from[c] \subseteq to[c]
    BY <1>4 DEF Marks
  <2>2. c \in moved => "Transform" \in to[c]
    BY <1>4 DEF Marks
  <2>3. QED
    BY <1>3, <2>1, <2>2
<1>6. "Transform" \notin dirt[c] /\ "WorldTransform" \notin dirt[c]
  BY <1>2, <1>5 DEF Flipped, Filthy, Flags
<1>7. Collapsed(c)
  <2>1. dirt[c] \in SUBSET Flags
    BY <1>1
  <2>2. QED
    BY <1>6, <2>1 DEF Flags, Collapsed
<1>8. c \in Nodes
  BY <1>1, <1>7, CollapsedDown
<1>9. scene.target[c] = None
  BY <1>2, <1>5, <1>7, <1>8 DEF Collapsed, Constrained
<1>10. d = scene.parent[c] /\ d \in Components
  <2>1. c # Joystick /\ c # Artboard
    BY <1>8, ArtboardUpdateAssumption
  <2>2. d \in {scene.parent[c], scene.target[c]} \ {None}
    BY <2>1 DEF Dependencies
  <2>3. scene.parent[c] \in Nodes \cup {Artboard}
    BY <1>1, <1>8, SceneFacts
  <2>4. QED
    BY <1>9, <2>2, <2>3 DEF Components
<1>11. "WorldTransform" \in dirt[d]
  <2>1. dirt[d] \in SUBSET Flags /\ dirt[d] # {} /\ "Collapsed" \notin dirt[d]
    BY <1>1, <1>10 DEF Clean, Collapsed
  <2>2. "Transform" \in dirt[d] \/ "WorldTransform" \in dirt[d]
    BY <2>1 DEF Flags
  <2>3. QED
    BY <1>1, <1>10, <2>2 DEF WorldFollows
<1>12. "WorldTransform" \in dirt[c]
  BY <1>1, <1>8, <1>10, <1>11 DEF DirtIsClosed
<1>13. QED
  BY <1>6, <1>12

\* A component that the loop updates.
LEMMA VisitInTurn ==
    ASSUME IInv, pc = "visit", NEW c \in Components,
           dirt' = [dirt EXCEPT ![order[index]] = {}]
    PROVE  UpdatedInTurn(c)
<1> SUFFICES ASSUME dirt[c] # {}, dirt'[c] = {}, NEW d \in Dependencies(c)
             PROVE  Clean(d)
  BY DEF UpdatedInTurn
<1>1. Graph /\ index \in 1..Len(order) /\ dirt \in [Components -> SUBSET Flags]
  BY DEF IInv, TypeOK
<1>2. c = order[index]
  BY <1>1
<1>3. PICK j \in 1..(index - 1) : order[j] = d
  BY <1>1, <1>2, ComesEarlier
<1>4. QED
  BY <1>3 DEF IInv, VisitedAreClean

\* So does every step.
LEMMA StepInTurn ==
    ASSUME IInv, [Next]_vars, NEW c \in Components
    PROVE  UpdatedInTurn(c)
<1>1. ASSUME NEW n \in Nodes, SetTransform(n) PROVE UpdatedInTurn(c)
  <2>1. dirt[c] \subseteq dirt'[c]
    BY <1>1, MarksAdd DEF SetTransform
  <2>2. QED
    BY <2>1 DEF UpdatedInTurn
<1>2. ASSUME NEW s \in Nodes, NEW n \in Nodes \cup {None}, Activate(s, n) PROVE UpdatedInTurn(c)
  BY <1>2, ActivateInTurn
<1>3. CASE UpdatePass \/ NextStep \/ EndComponents \/ Skip \/ UNCHANGED vars
  <2>1. dirt' = dirt
    BY <1>3 DEF UpdatePass, NextStep, EndComponents, Skip, vars
  <2>2. QED
    BY <2>1 DEF UpdatedInTurn
<1>4. CASE Apply
  <2>1. CASE scene.driven # None /\ local[scene.driven] # pose
    <3>1. scene.driven \in Nodes
      BY <2>1, SceneFacts DEF IInv, TypeOK
    <3>2. dirt' = Marked(dirt, {scene.driven}, {})
      BY <1>4, <2>1 DEF Apply
    <3>3. dirt[c] \subseteq dirt'[c]
      BY <3>1, <3>2, MarksAdd
    <3>4. QED
      BY <3>3 DEF UpdatedInTurn
  <2>2. CASE ~(scene.driven # None /\ local[scene.driven] # pose)
    <3>1. dirt' = dirt
      BY <1>4, <2>2 DEF Apply
    <3>2. QED
      BY <3>1 DEF UpdatedInTurn
  <2>3. QED
    BY <2>1, <2>2
<1>5. CASE UpdateNode
  BY <1>5, VisitInTurn DEF UpdateNode
<1>6. CASE UpdateArtboard
  BY <1>6, VisitInTurn DEF UpdateArtboard
<1>7. CASE UpdateJoystick
  BY <1>7, VisitInTurn DEF UpdateJoystick
<1>8. QED
  BY <1>1, <1>2, <1>3, <1>4, <1>5, <1>6, <1>7 DEF Next

\* A component is updated only when everything it is computed from has been, of any
\* file and whatever became dirty in the course of the pass (DependencySorter,
\* updateComponents).
THEOREM ComponentsUpdateInTurn == Spec => UpdatedAfterDependencies
<1>1. IInv /\ [Next]_vars =>
          [\A c \in Components :
               dirt[c] # {} /\ dirt'[c] = {}
                   => \A d \in Dependencies(c) : dirt[d] = {} \/ Collapsed(d)]_vars
  BY StepInTurn DEF UpdatedInTurn, Clean
<1>2. QED
  BY <1>1, ArtboardInvariant, PTL DEF Spec, UpdatedAfterDependencies

\* A second step is needed when the joystick has followed its handle, and it
\* is not dirty again in that one.
JoystickSettles ==
    /\ pc \in {"idle", "apply"} => step = 0
    /\ pc = "loop" /\ dirty /\ step > 0 => step = 1 /\ dirt[Joystick] = {}
    /\ pc = "visit" => \/ step = 0 /\ (dirty => dirt[Joystick] = {})
                       \/ step = 1 /\ ~dirty /\ dirt[Joystick] = {}

\* The loop over the components.
LEMMA VisitSettles ==
    ASSUME IInv, JoystickSettles, pc = "visit", NEW depth, Advance(depth),
           \/ dirty' = dirty /\ dirt'[Joystick] = dirt[Joystick]
           \/ dirt[Joystick] # {} /\ dirt'[Joystick] = {}
    PROVE  JoystickSettles'
<1>1. \/ pc' = "visit" /\ step' = step
      \/ pc' = "loop" /\ step' = step + 1
  BY DEF Advance
<1>2. \/ step = 0 /\ (dirty' => dirt'[Joystick] = {})
      \/ step = 1 /\ ~dirty' /\ dirt'[Joystick] = {}
  BY DEF JoystickSettles
<1>3. QED
  BY <1>1, <1>2 DEF JoystickSettles

\* Every step.
LEMMA StepSettles ==
    ASSUME IInv, JoystickSettles, [Next]_vars
    PROVE  JoystickSettles'
<1>1. /\ Joystick \in Components /\ Joystick \notin Nodes /\ Joystick # Artboard
      /\ dirt \in [Components -> SUBSET Flags]
  BY ArtboardUpdateAssumption DEF IInv, TypeOK, Components
<1>2. CASE \E n \in Nodes : SetTransform(n)
  BY <1>2 DEF SetTransform, loopVars, JoystickSettles
<1>3. CASE \E s \in Nodes, n \in Nodes \cup {None} : Activate(s, n)
  <2>1. pc' = "idle" /\ pc = "idle" /\ step' = step
    BY <1>3 DEF Activate, loopVars
  <2>2. QED
    BY <2>1 DEF JoystickSettles
<1>4. CASE UpdatePass
  BY <1>4 DEF UpdatePass, JoystickSettles
<1>5. CASE NextStep
  <2>1. step \in Nat
    BY ArtboardUpdateAssumption DEF IInv, TypeOK
  <2>2. QED
    BY <1>5, <2>1 DEF NextStep, JoystickSettles
<1>6. CASE EndComponents
  BY <1>6 DEF EndComponents, JoystickSettles
<1>7. CASE Apply
  BY <1>7 DEF Apply, JoystickSettles
<1>8. CASE Skip
  BY <1>8, VisitSettles DEF Skip
<1>9. CASE UpdateNode
  <2>1. dirt'[Joystick] = dirt[Joystick] /\ dirty' = dirty
    BY <1>1, <1>9 DEF UpdateNode
  <2>2. QED
    BY <1>9, <2>1, VisitSettles DEF UpdateNode
<1>10. CASE UpdateArtboard
  <2>1. dirt'[Joystick] = dirt[Joystick] /\ dirty' = dirty
    BY <1>1, <1>10 DEF UpdateArtboard
  <2>2. QED
    BY <1>10, <2>1, VisitSettles DEF UpdateArtboard
<1>11. CASE UpdateJoystick
  <2>1. dirt'[Joystick] = {} /\ dirt[Joystick] # {}
    BY <1>1, <1>11 DEF UpdateJoystick
  <2>2. PICK depth : Advance(depth)
    BY <1>11 DEF UpdateJoystick
  <2>3. QED
    BY <1>11, <2>1, <2>2, VisitSettles DEF UpdateJoystick
<1>12. CASE UNCHANGED vars
  BY <1>12 DEF vars, loopVars, JoystickSettles
<1>13. QED
  BY <1>2, <1>3, <1>4, <1>5, <1>6, <1>7, <1>8, <1>9, <1>10, <1>11, <1>12 DEF Next

\* updateComponents is done before maxSteps, 100 in the code, cuts it off: a second
\* step is needed when the joystick has moved, and a third one never.
THEOREM UpdatesEndInTime ==
    ASSUME MaxSteps > 1
    PROVE  Spec => []NeverCutOff
<1>1. Init => JoystickSettles
  BY DEF Init, JoystickSettles
<1>2. IInv /\ JoystickSettles /\ [Next]_vars => JoystickSettles'
  BY StepSettles
<1>3. IInv /\ JoystickSettles => NeverCutOff
  BY ArtboardUpdateAssumption DEF IInv, TypeOK, JoystickSettles, NeverCutOff
<1>4. QED
  BY <1>1, <1>2, <1>3, ArtboardInvariant, PTL DEF Spec

(***************************************************************************)
(* Nothing stale                                                             *)
(***************************************************************************)

\* A transform that is not marked is the one last set.
TransformKept ==
    \A n \in Nodes : "Transform" \notin dirt[n] => transform[n] = local[n]

\* A world transform that is not marked is up to date with what it is computed from,
\* be that marked or not.
WorldKept ==
    \A n \in Nodes :
        "WorldTransform" \notin dirt[n] /\ scene.target[n] \notin scene.solos
            => world[n] = WorldTransform(n, transform[n])

\* What the handle and its ancestors are collapsed by.
\* The pose is that of the handle, or the joystick waits, and it waits with the handle.
PoseKept ==
    scene.handle # None /\ AlwaysShown(scene.handle) =>
        /\ "WorldTransform" \in dirt[scene.handle] => "WorldTransform" \in dirt[Joystick]
        /\ dirt[Joystick] = {} => pose = world[scene.handle]

\* What makes NothingStale hold once nothing is marked.
Kept == TransformKept /\ WorldKept /\ PoseKept

\* The recursive function of AlwaysShown.
Ascends(F, n) ==
    F = [k \in Nat |-> IF k = 0 THEN {n}
                       ELSE F[k - 1] \cup {scene.parent[m] : m \in F[k - 1] \cap Nodes}]

\* It exists.
LEMMA AscendsExists ==
    ASSUME scene \in Scenes, NEW n \in Nodes
    PROVE  \E F : Ascends(F, n)
<1> DEFINE V == SUBSET (Nodes \cup {Artboard})
           grow == [X \in V |-> X \cup {scene.parent[m] : m \in X \cap Nodes}]
           base == {n}
<1>1. base \in V /\ grow \in [V -> V]
  <2>1. \A m \in Nodes : scene.parent[m] \in Nodes \cup {Artboard}
    BY SceneFacts
  <2>2. QED
    BY <2>1
<1>2. \A X \in V : grow[X] = X \cup {scene.parent[m] : m \in X \cap Nodes}
  OBVIOUS
<1> HIDE DEF V, grow, base
<1>3. PICK F \in [Nat -> V] : F[0] = base /\ \A k \in Nat \ {0} : F[k] = grow[F[k - 1]]
  BY <1>1, NatRecursionExists
<1>4. ASSUME NEW k \in Nat
      PROVE  F[k] = IF k = 0 THEN base
                    ELSE F[k - 1] \cup {scene.parent[m] : m \in F[k - 1] \cap Nodes}
  <2>1. CASE k = 0
    BY <1>3, <2>1
  <2>2. CASE k # 0
    <3>1. k - 1 \in Nat /\ k \in Nat \ {0}
      BY <2>2
    <3>2. F[k - 1] \in V
      BY <1>3, <3>1
    <3>3. F[k] = grow[F[k - 1]]
      BY <1>3, <3>1
    <3>4. QED
      BY <1>2, <2>2, <3>2, <3>3
  <2>3. QED
    BY <2>1, <2>2
<1>5. F = [k \in Nat |-> IF k = 0 THEN base
                         ELSE F[k - 1] \cup {scene.parent[m] : m \in F[k - 1] \cap Nodes}]
  BY <1>3, <1>4
<1>6. Ascends(F, n)
  BY <1>5 DEF Ascends, base
<1>7. QED
  BY <1>6

\* What AlwaysShown looks at: the ancestors, all of them.
Ancestry(A, n) ==
    /\ A \subseteq Nodes
    /\ n \in A
    /\ \A m \in A : scene.parent[m] \in Nodes => scene.parent[m] \in A
    /\ AlwaysShown(n) <=> A \cap scene.solos \subseteq {n}
    /\ \A m \in A : scene.parent[m] # n

\* There is such a set: the recursive function has stopped after as many steps as the
\* file has nodes, and what is above a node is less deep.
LEMMA AncestryExists ==
    ASSUME scene \in Scenes, NEW n \in Nodes
    PROVE  \E A : Ancestry(A, n)
<1> DEFINE F == CHOOSE R : Ascends(R, n)
           len == Cardinality(Nodes)
           G == [k \in Nat |-> F[k] \cap Nodes]
           grow == [X \in SUBSET Nodes |-> X \cup ({scene.parent[m] : m \in X} \cap Nodes)]
<1>1. Ascends(F, n)
  BY AscendsExists
<1>2. AlwaysShown(n) <=> F[len] \cap scene.solos \subseteq {n}
  BY DEF AlwaysShown, Ascends
<1>3. /\ len \in Nat /\ IsFiniteSet(Nodes) /\ Cardinality(Nodes) <= len
  BY NodesAreFinite
<1>4. scene.solos \subseteq Nodes /\ \A m \in Nodes : scene.parent[m] \in Nodes \cup {Artboard}
  BY SceneFacts
<1>5. PICK h \in [Nodes -> Nat] : Sinks(scene, h, Nodes)
  BY NodeDepths
<1>6. grow \in [SUBSET Nodes -> SUBSET Nodes] /\ \A X \in SUBSET Nodes : X \subseteq grow[X]
  OBVIOUS
<1>7. \A X \in SUBSET Nodes : grow[X] = X \cup ({scene.parent[m] : m \in X} \cap Nodes)
  OBVIOUS
<1>8. G \in [Nat -> SUBSET Nodes] /\ \A k \in Nat : G[k] = F[k] \cap Nodes
  OBVIOUS
<1> HIDE DEF F, len, grow, G
<1>9. /\ F[0] = {n}
      /\ \A k \in Nat \ {0} : F[k] = F[k - 1] \cup {scene.parent[m] : m \in F[k - 1] \cap Nodes}
  BY <1>1 DEF Ascends
<1>10. \A k \in Nat \ {0} : G[k] = grow[G[k - 1]]
  <2> TAKE k \in Nat \ {0}
  <2>1. k - 1 \in Nat /\ k \in Nat
    OBVIOUS
  <2> DEFINE X == F[k - 1] \cap Nodes
  <2>2. G[k - 1] = X /\ X \in SUBSET Nodes
    BY <1>8, <2>1
  <2>3. grow[X] = X \cup ({scene.parent[m] : m \in X} \cap Nodes)
    BY <1>7, <2>2
  <2>4. F[k] \cap Nodes = X \cup ({scene.parent[m] : m \in X} \cap Nodes)
    BY <1>9
  <2>5. QED
    BY <1>8, <2>1, <2>2, <2>3, <2>4
<1>11. grow[G[len]] = G[len]
  <2>1. Grows(G, Nodes, grow)
    BY <1>6, <1>8, <1>10 DEF Grows
  <2>2. QED
    BY <1>3, <2>1, GrowsNoMore
<1> DEFINE Fine(X) == n \in X /\ \A m \in X : h[m] <= h[n]
           P == {k \in Nat : Fine(G[k])}
<1>12. 0 \in P
  <2>1. G[0] = {n}
    BY <1>8, <1>9
  <2>2. QED
    BY <2>1
<1>13. ASSUME NEW k \in P PROVE k + 1 \in P
  <2>1. k + 1 \in Nat \ {0} /\ (k + 1) - 1 = k /\ k \in Nat
    OBVIOUS
  <2>2. G[k + 1] = grow[G[k]] /\ G[k] \in SUBSET Nodes
    BY <1>8, <1>10, <2>1
  <2>3. G[k + 1] = G[k] \cup ({scene.parent[m] : m \in G[k]} \cap Nodes)
    BY <1>7, <2>2
  <2>4. Fine(G[k])
    OBVIOUS
  <2>5. ASSUME NEW m \in G[k], scene.parent[m] \in Nodes PROVE h[scene.parent[m]] <= h[n]
    <3>1. m \in Nodes
      BY <2>2
    <3>2. h[scene.parent[m]] < h[m] /\ h[m] <= h[n]
      BY <1>5, <2>4, <2>5, <3>1 DEF Sinks
    <3>3. h[scene.parent[m]] \in Nat /\ h[m] \in Nat /\ h[n] \in Nat
      BY <2>5, <3>1
    <3>4. QED
      BY <3>2, <3>3
  <2>6. Fine(G[k + 1])
    BY <2>3, <2>4, <2>5
  <2>7. QED
    BY <2>1, <2>6
<1>14. P = Nat
  <2>1. P \in SUBSET Nat
    OBVIOUS
  <2> HIDE DEF P
  <2>2. QED
    BY <1>12, <1>13, <2>1, SetInduction
<1> DEFINE A == G[len]
<1>15. A \in SUBSET Nodes /\ Fine(A)
  BY <1>3, <1>8, <1>14
<1>16. A = A \cup ({scene.parent[m] : m \in A} \cap Nodes)
  BY <1>7, <1>11, <1>15
<1>17. AlwaysShown(n) <=> A \cap scene.solos \subseteq {n}
  BY <1>2, <1>3, <1>4, <1>8
<1>18. ASSUME NEW m \in A, scene.parent[m] = n PROVE FALSE
  <2>1. h[n] < h[m] /\ h[m] <= h[n]
    BY <1>5, <1>15, <1>18 DEF Sinks
  <2>2. h[n] \in Nat /\ h[m] \in Nat
    BY <1>15
  <2>3. QED
    BY <2>1, <2>2
<1>19. Ancestry(A, n)
  BY <1>15, <1>16, <1>17, <1>18 DEF Ancestry
<1>20. QED
  BY <1>19

\* So nothing collapses it.
LEMMA ShownIsNotCollapsed ==
    ASSUME IInv, scene.handle # None, AlwaysShown(scene.handle)
    PROVE  ~Collapsed(scene.handle)
<1>1. scene \in Scenes /\ CollapseFollows
  BY DEF IInv, TypeOK
<1>2. scene.handle \in Nodes
  BY <1>1, SceneFacts
<1>3. PICK A : Ancestry(A, scene.handle)
  BY <1>1, <1>2, AncestryExists
<1>4. CollapsesTo(CollapsedBy(scene, active), scene, active)
  BY CollapsedFacts
<1>5. A \cap Switched(scene, active) = {}
  <2> SUFFICES ASSUME NEW m \in A, m \in Switched(scene, active) PROVE FALSE
    OBVIOUS
  <2>1. scene.parent[m] \in scene.solos /\ scene.parent[m] \in Nodes
    BY <1>1, SceneFacts DEF Switched
  <2>2. scene.parent[m] \in A
    BY <1>3, <2>1 DEF Ancestry
  <2>3. scene.parent[m] = scene.handle
    BY <1>3, <2>1, <2>2 DEF Ancestry
  <2>4. QED
    BY <1>3, <2>3 DEF Ancestry
<1>6. A \in SUBSET Nodes /\ \A m \in A : scene.parent[m] \in Nodes => scene.parent[m] \in A
  BY <1>3 DEF Ancestry
<1>7. CollapsedBy(scene, active) \cap A = {}
  <2>1. PICK S : S = CollapsedBy(scene, active)
    OBVIOUS
  <2>2. S \cap A = {}
    BY <1>4, <1>5, <1>6, <2>1 DEF CollapsesTo
  <2>3. QED
    BY <2>1, <2>2
<1>8. scene.handle \in A /\ scene.handle \in Components
  BY <1>2, <1>3 DEF Ancestry, Components
<1>9. QED
  BY <1>1, <1>7, <1>8 DEF CollapseFollows

\* The world transform of a node, of any state.
Composed(s, w, d, n, own) ==
    LET sum == own + IF s.parent[n] = Artboard THEN 0 ELSE w[s.parent[n]]
    IN IF s.target[n] # None /\ "Collapsed" \notin d[s.target[n]]
       THEN (sum + w[s.target[n]] + 1) % 2
       ELSE sum % 2

\* WorldKept of one node, of any state.
Follows(s, w, d, t, n) ==
    "WorldTransform" \notin d[n] /\ s.target[n] \notin s.solos
        => w[n] = Composed(s, w, d, n, t[n])

\* WorldKept is that, now and after a step.
LEMMA WorldIsKept ==
    /\ WorldKept <=> \A n \in Nodes : Follows(scene, world, dirt, transform, n)
    /\ WorldKept' <=> \A n \in Nodes : Follows(scene', world', dirt', transform', n)
  BY DEF WorldKept, Follows, Composed, WorldTransform, Collapsed

\* A world transform is what it was when nothing it is computed from has
\* changed.
LEMMA SameComposed ==
    ASSUME NEW s \in Scenes, NEW n \in Nodes, NEW own, NEW w, NEW d, NEW w2, NEW d2,
           s.parent[n] \in Nodes => w2[s.parent[n]] = w[s.parent[n]],
           s.target[n] \in Nodes =>
               /\ w2[s.target[n]] = w[s.target[n]]
               /\ "Collapsed" \in d2[s.target[n]] <=> "Collapsed" \in d[s.target[n]]
    PROVE  Composed(s, w2, d2, n, own) = Composed(s, w, d, n, own)
<1>1. s.parent[n] \in Nodes \cup {Artboard} /\ s.target[n] \in Nodes \cup {None}
  BY SceneFacts
<1>2. (IF s.parent[n] = Artboard THEN 0 ELSE w2[s.parent[n]])
          = (IF s.parent[n] = Artboard THEN 0 ELSE w[s.parent[n]])
  BY <1>1
<1> DEFINE sum == own + IF s.parent[n] = Artboard THEN 0 ELSE w[s.parent[n]]
<1>3. /\ Composed(s, w, d, n, own) =
             IF s.target[n] # None /\ "Collapsed" \notin d[s.target[n]]
             THEN (sum + w[s.target[n]] + 1) % 2 ELSE sum % 2
      /\ Composed(s, w2, d2, n, own) =
             IF s.target[n] # None /\ "Collapsed" \notin d2[s.target[n]]
             THEN (sum + w2[s.target[n]] + 1) % 2 ELSE sum % 2
  BY <1>2 DEF Composed
<1> HIDE DEF sum
<1>4. CASE s.target[n] \in Nodes
  BY <1>3, <1>4
<1>5. CASE s.target[n] = None
  BY <1>3, <1>5
<1>6. QED
  BY <1>1, <1>4, <1>5

\* And what was up to date stays so.
LEMMA WorldStays ==
    ASSUME NEW s \in Scenes, NEW n \in Nodes, NEW w, NEW d, NEW t, NEW w2, NEW d2, NEW t2,
           Follows(s, w, d, t, n),
           "WorldTransform" \in d[n] => "WorldTransform" \in d2[n],
           w2[n] = w[n], t2[n] = t[n],
           s.parent[n] \in Nodes => w2[s.parent[n]] = w[s.parent[n]],
           s.target[n] \in Nodes =>
               /\ w2[s.target[n]] = w[s.target[n]]
               /\ "Collapsed" \in d2[s.target[n]] <=> "Collapsed" \in d[s.target[n]]
    PROVE  Follows(s, w2, d2, t2, n)
<1>1. Composed(s, w2, d2, n, t[n]) = Composed(s, w, d, n, t[n])
  BY SameComposed
<1>2. QED
  BY <1>1 DEF Follows

\* What no step changes.
LEMMA SceneStays ==
    ASSUME [Next]_vars
    PROVE  UNCHANGED fileVars
  BY DEF Next, vars, SetTransform, Activate, UpdatePass, NextStep, EndComponents, Apply, Skip,
         UpdateNode, UpdateArtboard, UpdateJoystick

\* The solos above the handle never change.
LEMMA SameShown ==
    ASSUME UNCHANGED fileVars
    PROVE  /\ scene' = scene
           /\ AlwaysShown(scene.handle)' <=> AlwaysShown(scene.handle)
  BY DEF fileVars, AlwaysShown

\* Marks keep the transforms, and marks of what is shown or collapsed do.
LEMMA MarksKeep ==
    ASSUME IInv, Kept, UNCHANGED <<fileVars, transform, world, pose>>, UNCHANGED fileVars,
           NEW from, NEW choice, Flipped(from, choice),
           NEW moved \in SUBSET Nodes, NEW more \in SUBSET Nodes,
           dirt' = Marked(from, moved, more),
           \A n \in Nodes : local'[n] = local[n] \/ n \in moved,
           \A n \in Nodes : \A c \in Nodes \ scene.solos :
               from[c] # dirt[c] /\ scene.target[n] = c => n \in more
    PROVE  Kept'
<1>1. Graph /\ scene \in Scenes /\ dirt \in [Components -> SUBSET Flags] /\ CollapseFollows
  BY DEF IInv, TypeOK
<1>2. PICK to : to = dirt'
  OBVIOUS
<1>3. Marks(to, from, moved, more)
  BY <1>1, <1>2, MarkedFacts DEF Flipped
<1>4. \A c \in Components :
           /\ from[c] \subseteq to[c]
           /\ "Collapsed" \in to[c] <=> "Collapsed" \in from[c]
  BY <1>3 DEF Marks
<1>5. /\ \A n \in moved : "Transform" \in to[n]
      /\ \A n \in more : "WorldTransform" \in to[n]
  BY <1>3 DEF Marks
<1>6. \A c \in Components :
           /\ "Transform" \in from[c] <=> "Transform" \in dirt[c]
           /\ "WorldTransform" \in from[c] <=> "WorldTransform" \in dirt[c]
  BY DEF Flipped, Filthy, Flags
<1>7. Nodes \subseteq Components /\ Joystick \in Components /\ Joystick \notin Nodes
  BY ArtboardUpdateAssumption DEF Components
<1>8. TransformKept'
  <2> SUFFICES ASSUME NEW n \in Nodes, "Transform" \notin to[n] PROVE transform[n] = local'[n]
    BY <1>2 DEF TransformKept
  <2>1. n \notin moved /\ "Transform" \notin dirt[n]
    BY <1>4, <1>5, <1>6, <1>7
  <2>2. QED
    BY <2>1 DEF Kept, TransformKept
<1>9. WorldKept'
  <2> SUFFICES ASSUME NEW n \in Nodes PROVE Follows(scene, world, to, transform, n)
    BY <1>2, WorldIsKept DEF fileVars
  <2>1. Follows(scene, world, dirt, transform, n)
    BY WorldIsKept DEF Kept
  <2>2. CASE "WorldTransform" \in to[n] \/ scene.target[n] \in scene.solos
    BY <2>2 DEF Follows
  <2>3. CASE "WorldTransform" \notin to[n] /\ scene.target[n] \notin scene.solos
    <3>1. "WorldTransform" \in dirt[n] => "WorldTransform" \in to[n]
      BY <1>4, <1>6, <1>7
    <3>2. ASSUME scene.target[n] \in Nodes
          PROVE  "Collapsed" \in to[scene.target[n]] <=> "Collapsed" \in dirt[scene.target[n]]
      <4>1. from[scene.target[n]] = dirt[scene.target[n]]
        BY <1>5, <2>3, <3>2
      <4>2. QED
        BY <1>4, <1>7, <3>2, <4>1
    <3>3. QED
      BY <1>1, <2>1, <3>1, <3>2, WorldStays
  <2>4. QED
    BY <2>2, <2>3
<1>10. PoseKept'
  <2> SUFFICES ASSUME scene.handle # None, AlwaysShown(scene.handle)
               PROVE  /\ "WorldTransform" \in to[scene.handle] => "WorldTransform" \in to[Joystick]
                      /\ to[Joystick] = {} => pose = world[scene.handle]
    BY <1>2, SameShown DEF PoseKept
  <2>1. scene.handle \in Nodes /\ scene.handle \in Components
    BY <1>1, <1>7, SceneFacts
  <2>2. /\ "WorldTransform" \in dirt[scene.handle] => "WorldTransform" \in dirt[Joystick]
        /\ dirt[Joystick] = {} => pose = world[scene.handle]
    BY DEF Kept, PoseKept
  <2>3. ASSUME "WorldTransform" \in to[scene.handle] PROVE "WorldTransform" \in to[Joystick]
    <3>1. CASE "WorldTransform" \in from[scene.handle]
      BY <1>4, <1>6, <1>7, <2>1, <2>2, <3>1
    <3>2. CASE "WorldTransform" \notin from[scene.handle]
      <4>1. \A c \in DependentSet(scene, scene.handle) : "WorldTransform" \in to[c]
        BY <1>3, <2>1, <2>3, <3>2 DEF Marks
      <4>2. QED
        BY <4>1 DEF DependentSet
    <3>3. QED
      BY <3>1, <3>2
  <2>4. ASSUME to[Joystick] = {} PROVE dirt[Joystick] = {}
    <3>1. from[Joystick] = {}
      BY <1>4, <1>7, <2>4
    <3>2. "Transform" \notin dirt[Joystick] /\ "WorldTransform" \notin dirt[Joystick]
      BY <1>6, <1>7, <3>1
    <3>3. "Collapsed" \notin dirt[Joystick]
      BY <1>1, <1>7, CollapsedDown DEF Collapsed
    <3>4. dirt[Joystick] \in SUBSET Flags
      BY <1>1, <1>7
    <3>5. QED
      BY <3>2, <3>3, <3>4 DEF Flags
  <2>5. QED
    BY <2>2, <2>3, <2>4
<1>11. QED
  BY <1>8, <1>9, <1>10 DEF Kept

\* A file just loaded.
LEMMA StartsKept ==
    ASSUME Init
    PROVE  Kept
<1>1. \A c \in Components : "Transform" \in dirt[c] /\ "WorldTransform" \in dirt[c]
  BY DEF Init, WithCollapsed, Filthy, Flags
<1>2. Nodes \subseteq Components /\ Joystick \in Components
  BY DEF Components
<1>3. QED
  BY <1>1, <1>2 DEF Kept, TransformKept, WorldKept, PoseKept

\* A step that touches neither the transforms nor the dirt of nodes and joystick.
LEMMA KeptAsItIs ==
    ASSUME Kept, UNCHANGED <<fileVars, local, transform, world, pose, dirt>>
    PROVE  Kept'
<1>1. UNCHANGED fileVars
  OBVIOUS
<1>2. Kept'
  BY <1>1, SameShown, WorldIsKept DEF Kept, TransformKept, PoseKept, fileVars
<1>3. QED
  BY <1>2

\* A property of a node is set.
LEMMA SetTransformKept ==
    ASSUME IInv, Kept, NEW n \in Nodes, SetTransform(n)
    PROVE  Kept'
<1>1. UNCHANGED <<fileVars, transform, world, pose>> /\ UNCHANGED fileVars
  BY DEF SetTransform
<1>2. Flipped(dirt, active) /\ dirt' = Marked(dirt, {n}, {}) /\ {n} \in SUBSET Nodes
  BY FlippedNot DEF SetTransform
<1>3. local \in [Nodes -> 0..1]
  BY DEF IInv, TypeOK
<1>4. \A m \in Nodes : local'[m] = local[m] \/ m \in {n}
  BY <1>3 DEF SetTransform
<1>5. \A m \in Nodes : \A c \in Nodes \ scene.solos :
          dirt[c] # dirt[c] /\ scene.target[m] = c => m \in {}
  OBVIOUS
<1>6. QED
  BY <1>1, <1>2, <1>4, <1>5, MarksKeep

\* The joystick is applied.
LEMMA ApplyKept ==
    ASSUME IInv, Kept, Apply
    PROVE  Kept'
<1> DEFINE n == scene.driven
<1>1. UNCHANGED <<fileVars, transform, world, pose>> /\ UNCHANGED fileVars
  BY DEF Apply
<1>2. CASE n # None /\ local[n] # pose
  <2>1. n \in Nodes
    BY <1>2, SceneFacts DEF IInv, TypeOK
  <2>2. Flipped(dirt, active) /\ dirt' = Marked(dirt, {n}, {}) /\ {n} \in SUBSET Nodes
    BY <1>2, <2>1, FlippedNot DEF Apply
  <2>3. local \in [Nodes -> 0..1]
    BY DEF IInv, TypeOK
  <2>4. \A m \in Nodes : local'[m] = local[m] \/ m \in {n}
    BY <1>2, <2>3 DEF Apply
  <2>5. \A m \in Nodes : \A c \in Nodes \ scene.solos :
            dirt[c] # dirt[c] /\ scene.target[m] = c => m \in {}
    OBVIOUS
  <2> HIDE DEF n
  <2>6. QED
    BY <1>1, <2>2, <2>4, <2>5, MarksKeep
<1>3. CASE ~(n # None /\ local[n] # pose)
  BY <1>1, <1>3, KeptAsItIs DEF Apply
<1>4. QED
  BY <1>2, <1>3

\* A solo makes another child active.
LEMMA ActivateKept ==
    ASSUME IInv, Kept, NEW s, NEW n, Activate(s, n)
    PROVE  Kept'
<1>1. PICK from, choice, moved, more :
               /\ active' = choice /\ Flipped(from, choice)
               /\ moved = {m \in Nodes : from[m] # dirt[m] /\ Constrained(m)}
               /\ more \in SUBSET Nodes
               /\ dirt' = Marked(from, moved, more)
               /\ \A c \in Nodes \ scene.solos : from[c] # dirt[c] =>
                      \A m \in Nodes : scene.target[m] = c => m \in more
  BY ActivateMarks
<1>2. /\ UNCHANGED <<fileVars, transform, world, pose>> /\ UNCHANGED fileVars
      /\ local' = local
  BY DEF Activate
<1>3. moved \in SUBSET Nodes
  BY <1>1
<1>4. QED
  BY <1>1, <1>2, <1>3, MarksKeep

\* A node that is updated leaves the others as they are: what is computed from
\* it waits for its own turn.
LEMMA NodeKept ==
    ASSUME IInv, Kept, UpdateNode
    PROVE  Kept'
<1> DEFINE m == order[index]
           own == IF "Transform" \in dirt[m] THEN local[m] ELSE transform[m]
<1>1. /\ pc = "visit" /\ m \in Nodes /\ ~Collapsed(m)
      /\ dirt' = [dirt EXCEPT ![m] = {}]
      /\ transform' = [transform EXCEPT ![m] = own]
      /\ world' = IF "WorldTransform" \in dirt[m]
                  THEN [world EXCEPT ![m] = WorldTransform(m, own)]
                  ELSE world
      /\ UNCHANGED <<fileVars, local, pose>> /\ UNCHANGED fileVars
  BY DEF UpdateNode
<1> HIDE DEF m, own
<1>2. /\ scene \in Scenes /\ dirt \in [Components -> SUBSET Flags] /\ Graph
      /\ transform \in [Nodes -> 0..1] /\ world \in [Nodes -> 0..1]
  BY DEF IInv, TypeOK
<1>3. /\ m \in Components /\ Nodes \subseteq Components
      /\ Joystick \in Components /\ Joystick \notin Nodes
  BY <1>1, ArtboardUpdateAssumption DEF Components
<1>4. PICK d2, t2, w2 : d2 = dirt' /\ t2 = transform' /\ w2 = world'
  OBVIOUS
<1>5. /\ d2[m] = {} /\ \A c \in Components : c # m => d2[c] = dirt[c]
      /\ t2[m] = own /\ \A n \in Nodes : n # m => t2[n] = transform[n]
      /\ \A n \in Nodes : n # m => w2[n] = world[n]
  BY <1>1, <1>2, <1>3, <1>4
<1>6. "Transform" \notin dirt[m] => own = transform[m] /\ own = local[m]
  BY <1>1 DEF Kept, TransformKept, own
<1>7. "Transform" \in dirt[m] => own = local[m] /\ "WorldTransform" \in dirt[m]
  BY <1>3 DEF IInv, WorldFollows, own
<1>8. /\ "WorldTransform" \in dirt[m] => w2[m] = WorldTransform(m, own)
      /\ "WorldTransform" \notin dirt[m] => w2 = world
  BY <1>1, <1>2, <1>4
<1>9. TransformKept'
  <2> SUFFICES ASSUME NEW n \in Nodes, "Transform" \notin d2[n] PROVE t2[n] = local[n]
    BY <1>1, <1>4 DEF TransformKept
  <2>1. CASE n = m
    BY <1>5, <1>6, <1>7, <2>1
  <2>2. CASE n # m
    BY <1>3, <1>5, <2>2 DEF Kept, TransformKept
  <2>3. QED
    BY <2>1, <2>2
<1>10. \A c \in Components : "Collapsed" \in d2[c] <=> "Collapsed" \in dirt[c]
  BY <1>1, <1>5 DEF Collapsed
<1>11. PICK h \in [Nodes -> Nat] : Sinks(scene, h, Nodes)
  BY <1>2, NodeDepths
<1>12. ASSUME NEW n \in Nodes PROVE scene.parent[n] # n /\ scene.target[n] # n
  <2>1. ~(h[n] < h[n])
    OBVIOUS
  <2>2. QED
    BY <1>11, <2>1 DEF Sinks
<1>13. WorldKept'
  <2> SUFFICES ASSUME NEW n \in Nodes PROVE Follows(scene, w2, d2, t2, n)
    BY <1>1, <1>4, WorldIsKept DEF fileVars
  <2>1. Follows(scene, world, dirt, transform, n)
    BY WorldIsKept DEF Kept
  <2>2. CASE n = m /\ "WorldTransform" \in dirt[m]
    <3>1. w2[m] = Composed(scene, world, dirt, m, own)
      BY <1>8, <2>2 DEF WorldTransform, Composed, Collapsed
    <3>2. scene.parent[m] \in Nodes => w2[scene.parent[m]] = world[scene.parent[m]]
      BY <1>1, <1>5, <1>12
    <3>3. scene.target[m] \in Nodes =>
               /\ w2[scene.target[m]] = world[scene.target[m]]
               /\ "Collapsed" \in d2[scene.target[m]] <=> "Collapsed" \in dirt[scene.target[m]]
      BY <1>1, <1>3, <1>5, <1>10, <1>12
    <3>4. Composed(scene, w2, d2, m, own) = Composed(scene, world, dirt, m, own)
      BY <1>1, <1>2, <3>2, <3>3, SameComposed
    <3>5. QED
      BY <1>5, <2>2, <3>1, <3>4 DEF Follows
  <2>3. CASE n = m /\ "WorldTransform" \notin dirt[m]
    <3>1. w2 = world /\ t2[n] = transform[n]
      BY <1>5, <1>6, <1>7, <1>8, <2>3
    <3>2. scene.target[n] \in Nodes =>
              ("Collapsed" \in d2[scene.target[n]] <=> "Collapsed" \in dirt[scene.target[n]])
      BY <1>3, <1>10
    <3>3. QED
      BY <1>2, <2>1, <2>3, <3>1, <3>2, WorldStays
  <2>4. CASE n # m /\ ("WorldTransform" \in d2[n] \/ scene.target[n] \in scene.solos)
    BY <2>4 DEF Follows
  <2>5. CASE n # m /\ "WorldTransform" \notin d2[n] /\ scene.target[n] \notin scene.solos
    <3>1. "WorldTransform" \notin dirt[n] /\ w2[n] = world[n] /\ t2[n] = transform[n]
      BY <1>3, <1>5, <2>5
    <3>2. ASSUME "WorldTransform" \in dirt[m] PROVE scene.parent[n] # m /\ scene.target[n] # m
      BY <1>1, <1>3, <2>5, <3>1, <3>2 DEF IInv, DirtIsClosed
    <3>3. scene.parent[n] \in Nodes => w2[scene.parent[n]] = world[scene.parent[n]]
      BY <1>5, <1>8, <3>2
    <3>4. scene.target[n] \in Nodes =>
               /\ w2[scene.target[n]] = world[scene.target[n]]
               /\ "Collapsed" \in d2[scene.target[n]] <=> "Collapsed" \in dirt[scene.target[n]]
      BY <1>3, <1>5, <1>8, <1>10, <3>2
    <3>5. QED
      BY <1>2, <2>1, <3>1, <3>3, <3>4, WorldStays
  <2>6. QED
    BY <2>2, <2>3, <2>4, <2>5
<1>14. PoseKept'
  <2> SUFFICES ASSUME scene.handle # None, AlwaysShown(scene.handle)
               PROVE  /\ "WorldTransform" \in d2[scene.handle] => "WorldTransform" \in d2[Joystick]
                      /\ d2[Joystick] = {} => pose = w2[scene.handle]
    BY <1>1, <1>4, SameShown DEF PoseKept
  <2>1. scene.handle \in Nodes /\ scene.handle \in Components
    BY <1>2, <1>3, SceneFacts
  <2>2. d2[Joystick] = dirt[Joystick]
    BY <1>1, <1>3, <1>5
  <2>3. /\ "WorldTransform" \in dirt[scene.handle] => "WorldTransform" \in dirt[Joystick]
        /\ dirt[Joystick] = {} => pose = world[scene.handle]
    BY DEF Kept, PoseKept
  <2>4. ASSUME dirt[Joystick] = {} PROVE w2[scene.handle] = world[scene.handle]
    <3>1. "WorldTransform" \notin dirt[scene.handle]
      BY <2>3, <2>4
    <3>2. QED
      BY <1>5, <1>8, <2>1, <3>1
  <2>5. QED
    BY <1>5, <2>1, <2>2, <2>3, <2>4
<1>15. QED
  BY <1>9, <1>13, <1>14 DEF Kept

\* The artboard and the joystick are computed into no node.
LEMMA OthersKept ==
    ASSUME IInv, Kept, UpdateArtboard \/ UpdateJoystick
    PROVE  Kept'
<1>1. /\ pc = "visit" /\ UNCHANGED <<fileVars, local, transform, world>> /\ UNCHANGED fileVars
      /\ dirt' = [dirt EXCEPT ![order[index]] = {}]
      /\ order[index] \in {Artboard, Joystick}
  BY DEF UpdateArtboard, UpdateJoystick, valueVars
<1>2. /\ scene \in Scenes /\ dirt \in [Components -> SUBSET Flags] /\ Graph
      /\ index \in 1..Len(order)
  BY DEF IInv, TypeOK
<1>3. /\ Nodes \subseteq Components /\ Artboard \notin Nodes
      /\ Joystick \in Components /\ Joystick \notin Nodes /\ Joystick # Artboard
  BY ArtboardUpdateAssumption DEF Components
<1>4. PICK d2 : d2 = dirt'
  OBVIOUS
<1>5. \A c \in Components : c # order[index] => d2[c] = dirt[c]
  BY <1>1, <1>2, <1>4
<1>6. \A n \in Nodes : d2[n] = dirt[n]
  BY <1>1, <1>3, <1>5
<1>7. TransformKept'
  BY <1>1, <1>4, <1>6 DEF Kept, TransformKept
<1>8. WorldKept'
  <2> SUFFICES ASSUME NEW n \in Nodes PROVE Follows(scene, world, d2, transform, n)
    BY <1>1, <1>4, WorldIsKept DEF fileVars
  <2>1. Follows(scene, world, dirt, transform, n)
    BY WorldIsKept DEF Kept
  <2>2. scene.target[n] \in Nodes =>
            ("Collapsed" \in d2[scene.target[n]] <=> "Collapsed" \in dirt[scene.target[n]])
    BY <1>6
  <2>3. QED
    BY <1>2, <1>6, <2>1, <2>2, WorldStays
<1>9. PoseKept'
  <2> SUFFICES ASSUME scene.handle # None, AlwaysShown(scene.handle)
               PROVE  /\ "WorldTransform" \in d2[scene.handle] => "WorldTransform" \in d2[Joystick]
                      /\ d2[Joystick] = {} => pose' = world[scene.handle]
    BY <1>1, <1>4, SameShown DEF PoseKept
  <2>1. scene.handle \in Nodes
    BY <1>2, SceneFacts
  <2>2. CASE UpdateArtboard
    <3>1. pose' = pose /\ d2[Joystick] = dirt[Joystick]
      BY <1>3, <1>5, <2>2 DEF UpdateArtboard, valueVars
    <3>2. QED
      BY <1>6, <2>1, <3>1 DEF Kept, PoseKept
  <2>3. CASE UpdateJoystick
    <3>1. pose' = world[scene.handle] /\ order[index] = Joystick
      BY <2>3 DEF UpdateJoystick
    <3>2. scene.handle \in Dependencies(order[index])
      BY <3>1 DEF Dependencies
    <3>3. PICK j \in 1..(index - 1) : order[j] = scene.handle
      BY <1>2, <3>2, ComesEarlier
    <3>4. Clean(scene.handle)
      BY <1>1, <3>3 DEF IInv, VisitedAreClean
    <3>5. dirt[scene.handle] = {}
      BY <3>4, ShownIsNotCollapsed DEF Clean
    <3>6. QED
      BY <1>6, <2>1, <3>1, <3>5
  <2>4. QED
    BY <2>2, <2>3
<1>10. QED
  BY <1>7, <1>8, <1>9 DEF Kept

\* So does every step.
LEMMA StepIsKept ==
    ASSUME IInv, Kept, [Next]_vars
    PROVE  Kept'
<1>1. CASE \E n \in Nodes : SetTransform(n)
  BY <1>1, SetTransformKept
<1>2. CASE \E s \in Nodes, n \in Nodes \cup {None} : Activate(s, n)
  BY <1>2, ActivateKept
<1>3. CASE UpdatePass \/ NextStep \/ EndComponents \/ Skip \/ UNCHANGED vars
  <2>1. UNCHANGED <<fileVars, local, transform, world, pose, dirt>>
    BY <1>3 DEF UpdatePass, NextStep, EndComponents, Skip, vars, valueVars
  <2>2. QED
    BY <2>1, KeptAsItIs
<1>4. CASE Apply
  BY <1>4, ApplyKept
<1>5. CASE UpdateNode
  BY <1>5, NodeKept
<1>6. CASE UpdateArtboard \/ UpdateJoystick
  BY <1>6, OthersKept
<1>7. QED
  BY <1>1, <1>2, <1>3, <1>4, <1>5, <1>6 DEF Next

\* With nothing marked everything is up to date.
LEMMA SettledIsUpToDate ==
    ASSUME IInv, Kept
    PROVE  NothingStale
<1> SUFFICES ASSUME Settled
             PROVE  /\ \A n \in Nodes : \/ Collapsed(n)
                                        \/ scene.target[n] \in scene.solos
                                        \/ UpToDate(n)
                    /\ scene.handle # None /\ AlwaysShown(scene.handle)
                           => pose = world[scene.handle]
  BY DEF NothingStale
<1>1. \A c \in Present(scene) : Clean(c)
  BY DEF IInv, AllAreClean, Settled
<1>2. ASSUME NEW n \in Nodes, ~Collapsed(n), scene.target[n] \notin scene.solos
      PROVE  UpToDate(n)
  <2>1. dirt[n] = {}
    BY <1>1, <1>2 DEF Present, Clean
  <2>2. QED
    BY <1>2, <2>1 DEF Kept, TransformKept, WorldKept, UpToDate
<1>3. ASSUME scene.handle # None, AlwaysShown(scene.handle)
      PROVE  pose = world[scene.handle]
  <2>1. ~Collapsed(Joystick)
    BY CollapsedDown, ArtboardUpdateAssumption DEF IInv, Components
  <2>2. dirt[Joystick] = {}
    BY <1>1, <1>3, <2>1 DEF Present, Clean
  <2>3. QED
    BY <1>3, <2>2 DEF Kept, PoseKept
<1>4. QED
  BY <1>2, <1>3

\* After a pass a node that is shown and not constrained to a solo is up to date with
\* what it is computed from, and the joystick with a handle that no solo can collapse;
\* of any file without cycles and after any moves, collapses and passes (addDirt, which
\* stops at what is dirty already, TransformComponent::collapse, updateComponents).
\* Of a node constrained to a solo it is false: Solo::collapse does not mark it.
THEOREM NothingShownIsStale == Spec => []NothingStale
<1>1. Init => Kept
  BY StartsKept
<1>2. IInv /\ Kept /\ [Next]_vars => Kept'
  BY StepIsKept
<1>3. IInv /\ Kept => NothingStale
  BY SettledIsUpToDate
<1>4. QED
  BY <1>1, <1>2, <1>3, ArtboardInvariant, PTL DEF Spec

=============================================================================
