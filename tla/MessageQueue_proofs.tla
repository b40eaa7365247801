-------------------------- MODULE MessageQueue_proofs --------------------------
(* Theorems about MessageQueue, for any number of listeners, handles and     *)
(* nested calls and for messages of any kind and shape:                      *)
(*   the listener map                what ListenerInvariant says             *)
(*   the format of the messages      what is written is what is read         *)
(*   the streams                     a concatenation of what was written     *)
(*   the calls of processMessages    one marker for each                     *)
EXTENDS MessageQueue, FiniteSetTheorems, SequenceTheorems, NaturalsInduction,
        WellFoundedInduction, TLAPS

(***************************************************************************)
(* The listener map                                                        *)
(***************************************************************************)

\* The part of the type invariant that is about listeners.
ListenerTypes ==
    /\ handleIdx \in Nat
    /\ alive \subseteq Listeners
    /\ owning \subseteq alive
    /\ handleOf \in [Listeners -> Nat]
    /\ \A l \in Listeners : handleOf[l] <= handleIdx
    /\ DOMAIN registry \subseteq 1 .. handleIdx
    /\ registry = [h \in DOMAIN registry |-> registry[h]]

\* The listeners' half of the invariant on its own: the map is the inverse of
\* m_handle on the listeners that own a registration.
RegistryInverse ==
    /\ \A h \in DOMAIN registry : registry[h] \in owning /\ handleOf[registry[h]] = h
    /\ \A l \in owning : handleOf[l] \in DOMAIN registry /\ registry[handleOf[l]] = l

\* A listener without a handle owns no registration: without it a listener could
\* be given a second handle while it is registered at the first.
NoHandleNoQueue == \A l \in owning : handleOf[l] # NullHandle

ListenerInvariant == ListenerTypes /\ RegistryInverse /\ NoHandleNoQueue

\* The listener map is empty at first.
LEMMA InitListeners == Init => ListenerInvariant
  BY DEF Init, ListenerInvariant, ListenerTypes, RegistryInverse, NoHandleNoQueue, NullHandle

\* Steps that leave the listeners alone.
LEMMA ListenersUnchanged ==
    ASSUME ListenerInvariant, UNCHANGED listenerVars
    PROVE  ListenerInvariant'
  BY DEF ListenerInvariant, ListenerTypes, RegistryInverse, NoHandleNoQueue, listenerVars

\* A listener constructed at an address that was free.
LEMMA ConstructKeeps ==
    ASSUME ListenerInvariant, NEW l \in Listeners, Construct(l)
    PROVE  ListenerInvariant'
<1>1. l \notin owning
  BY DEF ListenerInvariant, ListenerTypes, Construct
<1>2. handleOf' \in [Listeners -> Nat] /\ \A k \in Listeners \ {l} : handleOf'[k] = handleOf[k]
  BY DEF ListenerInvariant, ListenerTypes, Construct, NullHandle
<1>3. handleOf'[l] = 0
  BY DEF ListenerInvariant, ListenerTypes, Construct, NullHandle
<1>4. ListenerTypes'
  BY <1>2, <1>3 DEF ListenerInvariant, ListenerTypes, Construct
<1>5. RegistryInverse'
  BY <1>1, <1>2 DEF ListenerInvariant, ListenerTypes, RegistryInverse, Construct
<1>6. NoHandleNoQueue'
  BY <1>1, <1>2 DEF ListenerInvariant, ListenerTypes, NoHandleNoQueue, Construct
<1> QED BY <1>4, <1>5, <1>6 DEF ListenerInvariant

\* A listener registered at a new handle.
LEMMA InstantiateKeeps ==
    ASSUME ListenerInvariant, NEW l \in Listeners, Instantiate(l)
    PROVE  ListenerInvariant'
<1> DEFINE h == handleIdx + 1
<1>1. l \notin owning
  BY DEF ListenerInvariant, NoHandleNoQueue, Instantiate
<1>2. h \notin DOMAIN registry /\ h # 0 /\ h \in Nat /\ handleIdx' = h
  BY DEF ListenerInvariant, ListenerTypes, Instantiate
<1>3. /\ handleOf' \in [Listeners -> Nat]
      /\ \A k \in Listeners \ {l} : handleOf'[k] = handleOf[k]
      /\ handleOf'[l] = h
  BY <1>2 DEF ListenerInvariant, ListenerTypes, Instantiate
<1>4. /\ DOMAIN registry' = DOMAIN registry \cup {h}
      /\ registry' = [k \in DOMAIN registry' |-> registry'[k]]
      /\ registry'[h] = l
      /\ \A k \in DOMAIN registry : registry'[k] = registry[k]
  BY <1>2 DEF Instantiate, Registered
<1>5. ListenerTypes'
  <2>1. \A k \in Listeners : handleOf'[k] <= handleIdx'
    BY <1>2, <1>3 DEF ListenerInvariant, ListenerTypes
  <2>2. DOMAIN registry' \subseteq 1 .. handleIdx'
    BY <1>2, <1>4 DEF ListenerInvariant, ListenerTypes
  <2>3. owning' \subseteq alive' /\ alive' \subseteq Listeners
    BY DEF ListenerInvariant, ListenerTypes, Instantiate
  <2> QED BY <1>2, <1>3, <1>4, <2>1, <2>2, <2>3 DEF ListenerTypes
<1>6. owning' = owning \cup {l} /\ owning \subseteq Listeners
  BY DEF ListenerInvariant, ListenerTypes, Instantiate
<1>7. RegistryInverse'
  BY <1>1, <1>2, <1>3, <1>4, <1>6 DEF ListenerInvariant, RegistryInverse
<1>8. NoHandleNoQueue'
  BY <1>2, <1>3, <1>6 DEF ListenerInvariant, NoHandleNoQueue, NullHandle
<1> QED BY <1>5, <1>7, <1>8 DEF ListenerInvariant

\* A listener moved, with its registration if it has one.
LEMMA MoveKeeps ==
    ASSUME ListenerInvariant, NEW other \in Listeners, NEW l \in Listeners, Move(other, l)
    PROVE  ListenerInvariant'
<1>1. l \notin owning /\ l # other
  BY DEF ListenerInvariant, ListenerTypes, Move
<1>2. /\ handleOf' \in [Listeners -> Nat]
      /\ \A k \in Listeners \ {l} : handleOf'[k] = handleOf[k]
      /\ handleOf'[l] = handleOf[other]
  BY DEF ListenerInvariant, ListenerTypes, Move
<1>3. owning \subseteq Listeners
  BY DEF ListenerInvariant, ListenerTypes
<1>4. CASE other \notin owning
  <2>1. owning' = owning /\ registry' = registry /\ handleIdx' = handleIdx
    BY <1>4 DEF Move
  <2>2. ListenerTypes'
    BY <1>2, <2>1 DEF ListenerInvariant, ListenerTypes, Move
  <2>3. RegistryInverse' /\ NoHandleNoQueue'
    BY <1>1, <1>2, <1>3, <2>1 DEF ListenerInvariant, RegistryInverse, NoHandleNoQueue
  <2> QED BY <2>2, <2>3 DEF ListenerInvariant
<1>5. CASE other \in owning
  <2> DEFINE h == handleOf[other]
  <2>1. owning' = (owning \ {other}) \cup {l} /\ handleIdx' = handleIdx
    BY <1>5 DEF Move
  <2>2. h \in DOMAIN registry /\ registry[h] = other
    BY <1>5 DEF ListenerInvariant, RegistryInverse
  <2>3. /\ DOMAIN registry' = DOMAIN registry
        /\ registry' = [k \in DOMAIN registry' |-> registry'[k]]
        /\ registry'[h] = l
        /\ \A k \in DOMAIN registry \ {h} : registry'[k] = registry[k]
    BY <1>5, <2>2 DEF Move, Registered
  <2>4. ListenerTypes'
    BY <1>2, <1>5, <2>1, <2>3 DEF ListenerInvariant, ListenerTypes, Move
  <2>5. RegistryInverse'
    BY <1>1, <1>2, <1>3, <2>1, <2>2, <2>3 DEF ListenerInvariant, RegistryInverse
  <2>6. NoHandleNoQueue'
    BY <1>1, <1>2, <1>3, <1>5, <2>1 DEF ListenerInvariant, NoHandleNoQueue, NullHandle
  <2> QED BY <2>4, <2>5, <2>6 DEF ListenerInvariant
<1> QED BY <1>4, <1>5

\* A listener destroyed, with its registration if it has one.
LEMMA DestroyKeeps ==
    ASSUME ListenerInvariant, NEW l \in Listeners, Destroy(l)
    PROVE  ListenerInvariant'
<1>1. owning' = owning \ {l} /\ handleOf' = handleOf /\ handleIdx' = handleIdx
  BY DEF Destroy
<1>2. CASE l \notin owning
  BY <1>1, <1>2 DEF ListenerInvariant, ListenerTypes, RegistryInverse, NoHandleNoQueue, Destroy
<1>3. CASE l \in owning
  <2> DEFINE h == handleOf[l]
  <2>1. /\ DOMAIN registry' = DOMAIN registry \ {h}
        /\ registry' = [k \in DOMAIN registry' |-> registry'[k]]
        /\ \A k \in DOMAIN registry' : registry'[k] = registry[k]
    BY <1>3 DEF Destroy, Unregistered
  <2>2. h \in DOMAIN registry /\ registry[h] = l
    BY <1>3 DEF ListenerInvariant, RegistryInverse
  <2>3. ListenerTypes'
    BY <1>1, <2>1 DEF ListenerInvariant, ListenerTypes, Destroy
  <2>4. RegistryInverse'
    BY <1>1, <2>1, <2>2 DEF ListenerInvariant, RegistryInverse
  <2>5. NoHandleNoQueue'
    BY <1>1 DEF ListenerInvariant, NoHandleNoQueue
  <2> QED BY <2>3, <2>4, <2>5 DEF ListenerInvariant
<1> QED BY <1>2, <1>3

\* A handle given out without a listener.
LEMMA UnheardKeeps ==
    ASSUME ListenerInvariant, InstantiateUnheard
    PROVE  ListenerInvariant'
  BY DEF ListenerInvariant, ListenerTypes, RegistryInverse, NoHandleNoQueue, InstantiateUnheard

\* Every step of a client that never calls referenceListViewModelInstance.
LEMMA NextKeepsListeners ==
    ASSUME ~ListReferences, ListenerInvariant, [Next]_vars
    PROVE  ListenerInvariant'
<1>1. CASE ServerNext
  BY <1>1, ListenersUnchanged DEF ServerNext, ServerWrites, ServerFinishes
<1>2. CASE ProcessNext
  BY <1>2, ListenersUnchanged DEF ProcessNext, ProcessMessages, Pop,
     ReturnFromGlobal, ReturnFromListener, Relock
<1>3. CASE ListenerNext
  <2>1. CASE InstantiateUnheard
    BY <2>1, UnheardKeeps
  <2>2. ASSUME NEW l \in Listeners, Construct(l) PROVE ListenerInvariant'
    BY <2>2, ConstructKeeps
  <2>3. ASSUME NEW l \in Listeners, Instantiate(l) PROVE ListenerInvariant'
    BY <2>3, InstantiateKeeps
  <2>4. ASSUME NEW l \in Listeners, Destroy(l) PROVE ListenerInvariant'
    BY <2>4, DestroyKeeps
  <2>5. ASSUME NEW l \in Listeners, NEW other \in Listeners, Move(other, l)
        PROVE  ListenerInvariant'
    BY <2>5, MoveKeeps
  <2>6. ASSUME NEW l \in Listeners, ReferenceListViewModelInstance(l)
        PROVE  ListenerInvariant'
    BY <2>6 DEF ReferenceListViewModelInstance
  <2> QED BY <1>3, <2>1, <2>2, <2>3, <2>4, <2>5, <2>6 DEF ListenerNext
<1>4. CASE UNCHANGED vars
  BY <1>4, ListenersUnchanged DEF vars, listenerVars
<1> QED BY <1>1, <1>2, <1>3, <1>4 DEF Next

\* As long as the client never calls referenceListViewModelInstance, no pointer
\* in the listener map dangles and no live registration is lost, whatever is
\* created, moved or destroyed, in callbacks or outside.
THEOREM ListenersSafe == ~ListReferences => (Spec => []ListenersAreRegisteredOnce)
<1>1. ListenerInvariant => ListenersAreRegisteredOnce
  BY DEF ListenerInvariant, RegistryInverse, ListenersAreRegisteredOnce
<1>2. ASSUME ~ListReferences PROVE ListenerInvariant /\ [Next]_vars => ListenerInvariant'
  BY <1>2, NextKeepsListeners
<1>3. ASSUME ~ListReferences PROVE Spec => []ListenersAreRegisteredOnce
  <2>1. ListenerInvariant /\ [Next]_vars => ListenerInvariant'
    BY <1>2, <1>3
  <2> QED BY <1>1, <2>1, InitListeners, PTL DEF Spec
<1> QED BY <1>3

(***************************************************************************)
(* Fields and their names                                                  *)
(***************************************************************************)

\* Induction over the natural numbers for a set of them: every nonempty set of
\* naturals has a least member.
LEMMA LessIsWellFounded == IsWellFoundedOn({p \in Nat \X Nat : p[1] < p[2]}, Nat)
  BY NatLessThanWellFounded, Zenon DEF OpToRel

\* A set of natural numbers that is not empty has a least member ...
LEMMA LeastMember ==
    ASSUME NEW S \in SUBSET Nat, S # {}
    PROVE  \E n \in S : \A m \in S : ~ (m < n)
<1> DEFINE R == {p \in Nat \X Nat : p[1] < p[2]}
<1>1. IsWellFoundedOn(R, Nat)
  BY LessIsWellFounded
<1>2. S \subseteq Nat /\ S # {}
  OBVIOUS
<1> HIDE DEF R
<1>3. \E n \in S : \A m \in S : <<m, n>> \notin R
  BY <1>1, <1>2, WFMin, Zenon
<1>4. QED
  BY <1>2, <1>3 DEF R

\* ... so a set that holds 0 and every successor holds them all.
LEMMA SetInduction ==
    ASSUME NEW S \in SUBSET Nat, 0 \in S, \A n \in S : n + 1 \in S
    PROVE  S = Nat
<1> SUFFICES ASSUME Nat \ S # {} PROVE FALSE
  OBVIOUS
<1>1. PICK n \in Nat \ S : \A m \in Nat \ S : ~ (m < n)
  BY LeastMember
<1>2. n # 0 /\ n - 1 \in Nat /\ n - 1 < n /\ (n - 1) + 1 = n
  BY <1>1
<1>3. QED
  BY <1>1, <1>2

\* FlattenSeq is defined by recursion on the number of sequences: f is its
\* recursive function up to the n-th.
FlattenUpTo(f, seqs, n) ==
    f = [i \in 1..n |-> IF i = 1 THEN seqs[i] ELSE f[i-1] \o seqs[i]]

\* What the recursive function of FlattenSeq is at each index.
LEMMA PrefixValues ==
    ASSUME NEW f, NEW seqs, NEW n \in Nat, FlattenUpTo(f, seqs, n)
    PROVE  \A i \in 1..n : f[i] = IF i = 1 THEN seqs[i] ELSE f[i-1] \o seqs[i]
  BY DEF FlattenUpTo

\* It can be continued by one sequence ...
LEMMA PrefixExtends ==
    ASSUME NEW f, NEW seqs, NEW n \in Nat, FlattenUpTo(f, seqs, n)
    PROVE  \E g : FlattenUpTo(g, seqs, n + 1)
<1> DEFINE value == IF n = 0 THEN seqs[1] ELSE f[n] \o seqs[n + 1]
           g == [i \in 1..(n + 1) |-> IF i = n + 1 THEN value ELSE f[i]]
<1> HIDE DEF value
<1>1. /\ g = [i \in 1..(n + 1) |-> g[i]]
      /\ \A i \in 1..n : g[i] = f[i]
      /\ g[n + 1] = value
  BY n + 1 \in 1..(n + 1), \A i \in 1..n : i \in 1..(n + 1) /\ i # n + 1
<1> HIDE DEF g
<1>2. ASSUME NEW i \in 1..(n + 1)
      PROVE  g[i] = IF i = 1 THEN seqs[i] ELSE g[i-1] \o seqs[i]
  <2>1. CASE i = n + 1
    <3>1. CASE n = 0
      BY <1>1, <2>1, <3>1 DEF value
    <3>2. CASE n # 0
      <4>1. i # 1 /\ i - 1 = n /\ n \in 1..n
        BY <2>1, <3>2
      <4>2. QED
        BY <1>1, <2>1, <3>2, <4>1 DEF value
    <3>3. QED
      BY <3>1, <3>2
  <2>2. CASE i # n + 1
    <3>1. i \in 1..n /\ (i # 1 => i - 1 \in 1..n)
      BY <2>2
    <3>2. g[i] = f[i] /\ (i # 1 => g[i - 1] = f[i - 1])
      BY <1>1, <3>1
    <3>3. f[i] = IF i = 1 THEN seqs[i] ELSE f[i-1] \o seqs[i]
      BY <3>1, PrefixValues
    <3>4. QED
      BY <3>2, <3>3
  <2>3. QED
    BY <2>1, <2>2
<1>3. g = [i \in 1..(n + 1) |-> IF i = 1 THEN seqs[i] ELSE g[i-1] \o seqs[i]]
  BY <1>1, <1>2
<1>4. QED
  BY <1>3 DEF FlattenUpTo

\* ... hence exists for any number of them.
LEMMA PrefixExists ==
    ASSUME NEW seqs, NEW n \in Nat
    PROVE  \E f : FlattenUpTo(f, seqs, n)
<1> DEFINE P == {m \in Nat : \E f : FlattenUpTo(f, seqs, m)}
<1>1. 0 \in P
  <2>1. FlattenUpTo([i \in 1..0 |-> 0], seqs, 0)
    BY DEF FlattenUpTo
  <2>2. QED
    BY <2>1
<1>2. \A m \in P : m + 1 \in P
  BY PrefixExtends
<1>3. P \in SUBSET Nat
  OBVIOUS
<1> HIDE DEF P
<1>4. P = Nat
  BY <1>1, <1>2, <1>3, SetInduction
<1>5. QED
  BY <1>4 DEF P


\* What a field holds.
Values == Nat \cup {LoopBreak.kind} \cup {m.kind : m \in Messages} \cup DataTypes

\* What the fields are.
Labels == {"message", "handle", "requestId", "type", "size", "value", "count",
           "error", "enum", "enumerant", "property", "metaData", "viewModel",
           "instance", "path", "name", "string"}

Tokens == [field : Labels, value : Values]

\* What may wait for the client: messages and the markers of its calls.
Queued == {LoopBreak} \cup
    {[kind |-> m.kind, handle |-> h, shape |-> m.shape] : m \in Messages, h \in Handles}

\* A field has the name and the value it was given.
LEMMA FieldFacts ==
    ASSUME NEW v \in Values, NEW name \in Labels
    PROVE  /\ Field(name, v) \in Tokens
           /\ Field(name, v).field = name
           /\ Field(name, v).value = v
  BY DEF Field, Tokens

\* The names of the fields are as many as the fields.
LEMMA FieldNamesFacts ==
    ASSUME NEW s \in Seq(Tokens)
    PROVE  /\ FieldNames(s) \in Seq(Labels)
           /\ Len(FieldNames(s)) = Len(s)
           /\ \A i \in 1..Len(s) : FieldNames(s)[i] = s[i].field
<1>1. DOMAIN s = 1..Len(s) /\ Len(s) \in Nat /\ \A i \in 1..Len(s) : s[i] \in Tokens
  OBVIOUS
<1>2. \A x \in Tokens : x.field \in Labels
  BY DEF Tokens
<1>3. QED
  BY <1>1, <1>2 DEF FieldNames

\* Sequences of one length with the same elements are the same.
LEMMA SameSequence ==
    ASSUME NEW S, NEW T, NEW s \in Seq(S), NEW t \in Seq(T), Len(s) = Len(t),
           \A i \in 1..Len(s) : s[i] = t[i]
    PROVE  s = t
  OBVIOUS

\* The names of two runs of fields, one after the other.
LEMMA FieldNamesConcat ==
    ASSUME NEW s \in Seq(Tokens), NEW t \in Seq(Tokens)
    PROVE  FieldNames(s \o t) = FieldNames(s) \o FieldNames(t)
<1>1. s \o t \in Seq(Tokens) /\ Len(s \o t) = Len(s) + Len(t)
  OBVIOUS
<1>2. /\ FieldNames(s \o t) \in Seq(Labels) /\ Len(FieldNames(s \o t)) = Len(s) + Len(t)
      /\ FieldNames(s) \in Seq(Labels) /\ Len(FieldNames(s)) = Len(s)
      /\ FieldNames(t) \in Seq(Labels) /\ Len(FieldNames(t)) = Len(t)
      /\ \A i \in 1..Len(s) : FieldNames(s)[i] = s[i].field
      /\ \A i \in 1..Len(t) : FieldNames(t)[i] = t[i].field
      /\ \A i \in 1..(Len(s) + Len(t)) : FieldNames(s \o t)[i] = (s \o t)[i].field
  BY <1>1, FieldNamesFacts
<1>3. ASSUME NEW i \in 1..(Len(s) + Len(t))
      PROVE  (s \o t)[i].field = (FieldNames(s) \o FieldNames(t))[i]
  <2>1. CASE i \in 1..Len(s)
    BY <1>2, <2>1
  <2>2. CASE i \notin 1..Len(s)
    <3>1. i - Len(s) \in 1..Len(t)
      BY <2>2
    <3>2. (s \o t)[i] = t[i - Len(s)]
      BY <2>2
    <3>3. (FieldNames(s) \o FieldNames(t))[i] = FieldNames(t)[i - Len(s)]
      BY <1>2, <2>2
    <3>4. QED
      BY <1>2, <3>1, <3>2, <3>3
  <2>3. QED
    BY <2>1, <2>2
<1>4. FieldNames(s) \o FieldNames(t) \in Seq(Labels)
      /\ Len(FieldNames(s) \o FieldNames(t)) = Len(s) + Len(t)
  BY <1>2
<1> DEFINE u == FieldNames(s \o t)
           v == FieldNames(s) \o FieldNames(t)
<1>5. u \in Seq(Labels) /\ v \in Seq(Labels) /\ Len(u) = Len(v)
      /\ \A i \in 1..Len(u) : u[i] = v[i]
  BY <1>2, <1>3, <1>4
<1> HIDE DEF u, v
<1>6. u = v
  BY <1>5, SameSequence
<1>7. QED
  BY <1>6 DEF u, v

\* No fields have no names.
LEMMA EmptyNames == FieldNames(<<>>) = <<>> /\ <<>> \in Seq(Tokens) /\ Len(<<>>) = 0
  BY DEF FieldNames

\* The name of one field.
LEMMA OneName == ASSUME NEW a \in Tokens PROVE FieldNames(<<a>>) = <<a.field>>
  BY DEF FieldNames

\* The names of two fields.
LEMMA TwoNames ==
    ASSUME NEW a \in Tokens, NEW b \in Tokens
    PROVE  FieldNames(<<a, b>>) = <<a.field, b.field>>
  BY DEF FieldNames

\* The names of all fields of a list of runs: FlattenSeq and FieldNames commute.
LEMMA FlattenFields ==
    ASSUME NEW a \in Seq(Seq(Tokens)), NEW b \in Seq(Seq(Labels)), Len(b) = Len(a),
           \A i \in 1..Len(a) : b[i] = FieldNames(a[i])
    PROVE  FlattenSeq(a) \in Seq(Tokens) /\ FlattenSeq(b) = FieldNames(FlattenSeq(a))
<1> DEFINE N == Len(a)
<1>1. N \in Nat /\ N = Len(b)
  OBVIOUS
<1>2. CASE N = 0
  <2>1. FlattenSeq(a) = <<>> /\ FlattenSeq(b) = <<>>
    BY <1>2 DEF FlattenSeq
  <2>2. QED
    BY <2>1, EmptyNames
<1>3. CASE N # 0
  <2> DEFINE f == CHOOSE f : FlattenUpTo(f, a, N)
             g == CHOOSE g : FlattenUpTo(g, b, N)
  <2>1. FlattenUpTo(f, a, N) /\ FlattenUpTo(g, b, N)
    BY <1>1, PrefixExists
  <2>2. FlattenSeq(a) = f[N] /\ FlattenSeq(b) = g[N]
    BY <1>3, <1>1 DEF FlattenSeq, FlattenUpTo
  <2> HIDE DEF f, g
  <2>3. \A i \in 1..N : f[i] = IF i = 1 THEN a[i] ELSE f[i-1] \o a[i]
    BY <1>1, <2>1, PrefixValues
  <2>4. \A i \in 1..N : g[i] = IF i = 1 THEN b[i] ELSE g[i-1] \o b[i]
    BY <1>1, <2>1, PrefixValues
  <2>5. /\ \A i \in 1..N : f[i] = IF i = 1 THEN a[i] ELSE f[i-1] \o a[i]
        /\ \A i \in 1..N : g[i] = IF i = 1 THEN b[i] ELSE g[i-1] \o b[i]
    BY <2>3, <2>4
  <2> DEFINE Same(i) == f[i] \in Seq(Tokens) /\ g[i] = FieldNames(f[i])
             P == {n \in Nat : n + 1 \in 1..N => Same(n + 1)}
  <2>6. 0 \in P
    <3> SUFFICES ASSUME 1 \in 1..N PROVE Same(1)
      OBVIOUS
    <3>1. f[1] = a[1] /\ g[1] = b[1]
      BY <2>5
    <3>2. a[1] \in Seq(Tokens) /\ b[1] = FieldNames(a[1])
      OBVIOUS
    <3>3. QED
      BY <3>1, <3>2
  <2>7. ASSUME NEW n \in P PROVE n + 1 \in P
    <3> SUFFICES ASSUME (n + 1) + 1 \in 1..N PROVE Same((n + 1) + 1)
      OBVIOUS
    <3> DEFINE m == n + 1
    <3>1. m \in Nat /\ m \in 1..N /\ m + 1 # 1 /\ (m + 1) - 1 = m /\ m + 1 \in 1..N
      BY <1>1
    <3>2. f[m] \in Seq(Tokens) /\ g[m] = FieldNames(f[m])
      BY <3>1
    <3>3. f[m + 1] = f[m] \o a[m + 1] /\ g[m + 1] = g[m] \o b[m + 1]
      BY <2>5, <3>1
    <3>4. a[m + 1] \in Seq(Tokens) /\ b[m + 1] = FieldNames(a[m + 1])
      BY <3>1
    <3> HIDE DEF m
    <3> DEFINE u == f[m]
               w == a[m + 1]
    <3>5. u \in Seq(Tokens) /\ w \in Seq(Tokens)
      BY <3>2, <3>4
    <3> HIDE DEF u, w
    <3>6. u \o w \in Seq(Tokens)
      BY <3>5
    <3>7. FieldNames(u \o w) = FieldNames(u) \o FieldNames(w)
      BY <3>5, FieldNamesConcat, Zenon
    <3>8. u \o w \in Seq(Tokens) /\ FieldNames(u \o w) = FieldNames(u) \o FieldNames(w)
      BY <3>6, <3>7
    <3>9. f[m] \o a[m + 1] \in Seq(Tokens)
          /\ FieldNames(f[m] \o a[m + 1]) = FieldNames(f[m]) \o FieldNames(a[m + 1])
      BY <3>8 DEF u, w
    <3>10. f[m + 1] \in Seq(Tokens) /\ g[m + 1] = FieldNames(f[m + 1])
      BY <3>2, <3>3, <3>4, <3>9
    <3>11. QED
      BY <3>10 DEF m
  <2>8. P \in SUBSET Nat
    OBVIOUS
  <2>9. P = Nat
    <3> HIDE DEF P
    <3>1. QED
      BY <2>6, <2>7, <2>8, SetInduction
  <2>10. N - 1 \in Nat /\ (N - 1) + 1 = N /\ N \in 1..N
    BY <1>1, <1>3
  <2>11. Same((N - 1) + 1)
    BY <2>9, <2>10
  <2>12. QED
    BY <2>2, <2>10, <2>11
<1>4. QED
  BY <1>2, <1>3

\* The names the server writes for a message, none for a marker.
NamesOf(m) == IF IsMarker(m) THEN <<>> ELSE WriteNames(m)

\* The sequence s starts with the sequence w.
Starts(s, w) == Len(w) <= Len(s) /\ \A i \in 1..Len(w) : s[i] = w[i]

\* What waits is a marker or a message of the server with a handle.
LEMMA QueuedFacts ==
    ASSUME NEW q \in Queued
    PROVE  /\ q.kind \in Values
           /\ ~IsMarker(q) => /\ HasLayout(q)
                              /\ q.handle \in Handles /\ q.handle \in Values
                              /\ q.kind # "messageLoopBreak"
<1>1. CASE q = LoopBreak
  BY <1>1 DEF LoopBreak, IsMarker, Values
<1>2. ASSUME NEW m \in Messages, NEW h \in Handles,
             q = [kind |-> m.kind, handle |-> h, shape |-> m.shape]
      PROVE  /\ q.kind \in Values
             /\ HasLayout(q)
             /\ q.handle \in Handles /\ q.handle \in Values
             /\ q.kind # "messageLoopBreak"
  <2>1. q.kind = m.kind /\ q.handle = h /\ q.shape = m.shape
    BY <1>2
  <2>2. HasLayout(m)
    BY MessageQueueAssumption
  <2>3. HasLayout(q)
    BY <2>1, <2>2 DEF HasLayout
  <2>4. h \in Nat
    BY MessageQueueAssumption DEF Handles
  <2>5. q.kind # "messageLoopBreak"
    BY <2>3 DEF HasLayout
  <2>6. QED
    BY <2>1, <2>3, <2>4, <2>5 DEF Values
<1>3. QED
  BY <1>1, <1>2, q \in Queued DEF Queued

\* What a concatenation holds.
LEMMA ConcatFacts ==
    ASSUME NEW S, NEW s \in Seq(S), NEW t \in Seq(S)
    PROVE  /\ s \o t \in Seq(S)
           /\ Len(s \o t) = Len(s) + Len(t)
           /\ Len(s) \in Nat /\ Len(t) \in Nat
           /\ \A i \in 1..Len(s) : (s \o t)[i] = s[i]
           /\ \A i \in 1..Len(t) :
                 Len(s) + i \in 1..Len(s \o t) /\ (s \o t)[Len(s) + i] = t[i]
  OBVIOUS

\* Fields in the groups the program writes them in.
Joined(a, b, c, d, y) == <<a, b>> \o <<c, d>> \o y
JoinedTwo(a, b, c, d) == <<a, b>> \o <<c, d>>
JoinedOne(a, b, c) == <<a, b>> \o <<c>>

\* w is so many fields, of these names, the first two being a and b ...
Begins(w, a, b, len, names) ==
    /\ w \in Seq(Tokens)
    /\ Len(w) = len
    /\ w[1] = a
    /\ w[2] = b
    /\ FieldNames(w) = names

\* ... and goes on with c, d and the fields of y.
GoesOn(w, c, d, y) ==
    /\ w[3] = c
    /\ w[4] = d
    /\ \A i \in 1..Len(y) : 4 + i \in 1..Len(w) /\ w[4 + i] = y[i]

\* Two fields, two fields and more.
LEMMA FourAndMore ==
    ASSUME NEW a \in Tokens, NEW b \in Tokens, NEW c \in Tokens, NEW d \in Tokens,
           NEW y \in Seq(Tokens)
    PROVE  /\ Begins(Joined(a, b, c, d, y), a, b, 4 + Len(y),
                     Joined(a.field, b.field, c.field, d.field, FieldNames(y)))
           /\ GoesOn(Joined(a, b, c, d, y), c, d, y)
<1> DEFINE x == <<a, b>> \o <<c, d>>
           w == Joined(a, b, c, d, y)
<1>1. <<a, b>> \in Seq(Tokens) /\ <<c, d>> \in Seq(Tokens)
  OBVIOUS
<1>2. /\ x \in Seq(Tokens) /\ Len(x) = 4
      /\ x[1] = a /\ x[2] = b /\ x[3] = c /\ x[4] = d
  OBVIOUS
<1>3. FieldNames(x) = <<a.field, b.field>> \o <<c.field, d.field>>
  BY <1>1, TwoNames, FieldNamesConcat
<1>4. w = x \o y
  BY DEF Joined
<1> HIDE DEF x, w
<1>5. x \in Seq(Tokens)
  BY <1>2
<1>6. FieldNames(w) = FieldNames(x) \o FieldNames(y)
  BY <1>4, <1>5, FieldNamesConcat, Zenon
<1>7. Len(x) = 4
  BY <1>2
<1>8. w \in Seq(Tokens)
  BY <1>4, <1>5
<1>9. Len(w) = Len(x) + Len(y)
  BY <1>4, <1>5
<1>10. Len(y) \in Nat
  OBVIOUS
<1>11. w \in Seq(Tokens) /\ Len(w) = 4 + Len(y) /\ Len(y) \in Nat
  BY <1>7, <1>8, <1>9, <1>10
<1>12. \A i \in 1..Len(x) : w[i] = x[i]
  BY <1>4, <1>5
<1>13. \A i \in 1..Len(y) : w[Len(x) + i] = y[i]
  BY <1>4, <1>5
<1>14. /\ w[1] = a /\ w[2] = b /\ w[3] = c /\ w[4] = d
       /\ \A i \in 1..Len(y) : 4 + i \in 1..Len(w) /\ w[4 + i] = y[i]
  BY <1>2, <1>11, <1>12, <1>13
<1>15. FieldNames(w) = Joined(a.field, b.field, c.field, d.field, FieldNames(y))
  BY <1>3, <1>6 DEF Joined
<1>16. QED
  BY <1>11, <1>14, <1>15 DEF Begins, GoesOn, w

\* Two fields and two fields.
LEMMA FourFields ==
    ASSUME NEW a \in Tokens, NEW b \in Tokens, NEW c \in Tokens, NEW d \in Tokens
    PROVE  /\ Begins(JoinedTwo(a, b, c, d), a, b, 4,
                     JoinedTwo(a.field, b.field, c.field, d.field))
           /\ GoesOn(JoinedTwo(a, b, c, d), c, d, <<>>)
<1>1. <<a, b>> \in Seq(Tokens) /\ <<c, d>> \in Seq(Tokens)
  OBVIOUS
<1>2. FieldNames(<<a, b>> \o <<c, d>>) = <<a.field, b.field>> \o <<c.field, d.field>>
  BY <1>1, TwoNames, FieldNamesConcat
<1>3. QED
  BY <1>2 DEF JoinedTwo, Begins, GoesOn

\* Two fields and one.
LEMMA ThreeFields ==
    ASSUME NEW a \in Tokens, NEW b \in Tokens, NEW c \in Tokens
    PROVE  Begins(JoinedOne(a, b, c), a, b, 3, JoinedOne(a.field, b.field, c.field))
<1>1. <<a, b>> \in Seq(Tokens) /\ <<c>> \in Seq(Tokens)
  OBVIOUS
<1>2. FieldNames(<<a, b>> \o <<c>>) = <<a.field, b.field>> \o <<c.field>>
  BY <1>1, OneName, TwoNames, FieldNamesConcat
<1>3. QED
  BY <1>2 DEF JoinedOne, Begins

(***************************************************************************)
(* The fields of a message                                                 *)
(***************************************************************************)

\* The kinds whose messages carry a list in m_messageStream, and those that are not
\* written like most.
HasList == {"viewModelEnumsListed", "viewModelPropertiesListed"}
Special == {"messageLoopBreak", "viewModelPropertyValueReceived", "viewModelListSizeReceived"} \cup HasList

\* The header and the fields every message may have, in tokens.
LEMMA HeaderTokens ==
    ASSUME NEW q \in Queued, ~IsMarker(q)
    PROVE  /\ Field("message", q.kind) \in Tokens /\ Field("handle", q.handle) \in Tokens
           /\ Field("message", q.kind).field = "message"
           /\ Field("handle", q.handle).field = "handle"
<1>1. q.kind \in Values /\ q.handle \in Values
  BY QueuedFacts
<1>2. "message" \in Labels /\ "handle" \in Labels
  BY DEF Labels
<1>3. Field("message", q.kind) \in Tokens /\ Field("message", q.kind).field = "message"
  BY <1>1, <1>2, FieldFacts
<1>4. Field("handle", q.handle) \in Tokens /\ Field("handle", q.handle).field = "handle"
  BY <1>1, <1>2, FieldFacts
<1>5. QED
  BY <1>3, <1>4

\* A header and the fields after it.
OneField(q, a) == Header(q) \o <<a>>
TwoFields(q, a, b) == Header(q) \o <<a, b>>
AndMore(q, a, b, y) == Header(q) \o <<a, b>> \o y

\* A sequence that begins with the header of q.
Headed(w, q, len, names) ==
    Begins(w, Field("message", q.kind), Field("handle", q.handle), len, names)

\* A header and one field.
LEMMA HeaderAndOne ==
    ASSUME NEW q \in Queued, ~IsMarker(q), NEW n \in Labels, NEW v \in Values
    PROVE  Headed(OneField(q, Field(n, v)), q, 3, JoinedOne("message", "handle", n))
<1> DEFINE a == Field("message", q.kind)
           b == Field("handle", q.handle)
           c == Field(n, v)
<1>1. a \in Tokens /\ b \in Tokens /\ a.field = "message" /\ b.field = "handle"
  BY HeaderTokens
<1>2. c \in Tokens /\ c.field = n
  BY FieldFacts
<1>3. OneField(q, Field(n, v)) = JoinedOne(a, b, c)
  BY DEF Header, OneField, JoinedOne
<1> HIDE DEF a, b, c
<1>4. Begins(JoinedOne(a, b, c), a, b, 3, JoinedOne(a.field, b.field, c.field))
  BY <1>1, <1>2, ThreeFields
<1>5. QED
  BY <1>1, <1>2, <1>3, <1>4 DEF a, b, Headed

\* A header and two fields.
LEMMA HeaderAndTwo ==
    ASSUME NEW q \in Queued, ~IsMarker(q), NEW n \in Labels, NEW v \in Values,
           NEW p \in Labels, NEW u \in Values
    PROVE  /\ Headed(TwoFields(q, Field(n, v), Field(p, u)), q, 4,
                     JoinedTwo("message", "handle", n, p))
           /\ GoesOn(TwoFields(q, Field(n, v), Field(p, u)),
                     Field(n, v), Field(p, u), <<>>)
<1> DEFINE a == Field("message", q.kind)
           b == Field("handle", q.handle)
           c == Field(n, v)
           d == Field(p, u)
<1>1. a \in Tokens /\ b \in Tokens /\ a.field = "message" /\ b.field = "handle"
  BY HeaderTokens
<1>2. c \in Tokens /\ c.field = n
  BY FieldFacts
<1>3. d \in Tokens /\ d.field = p
  BY FieldFacts
<1>4. TwoFields(q, Field(n, v), Field(p, u)) = JoinedTwo(a, b, c, d)
  BY DEF Header, TwoFields, JoinedTwo
<1> HIDE DEF a, b, c, d
<1>5. /\ Begins(JoinedTwo(a, b, c, d), a, b, 4,
                JoinedTwo(a.field, b.field, c.field, d.field))
      /\ GoesOn(JoinedTwo(a, b, c, d), c, d, <<>>)
  BY <1>1, <1>2, <1>3, FourFields
<1>6. QED
  BY <1>1, <1>2, <1>4, <1>5, <1>3 DEF a, b, c, d, Headed

\* A header, two fields and more.
LEMMA HeaderAndMore ==
    ASSUME NEW q \in Queued, ~IsMarker(q), NEW n \in Labels, NEW v \in Values,
           NEW p \in Labels, NEW u \in Values, NEW y \in Seq(Tokens)
    PROVE  /\ Headed(AndMore(q, Field(n, v), Field(p, u), y), q, 4 + Len(y),
                     Joined("message", "handle", n, p, FieldNames(y)))
           /\ GoesOn(AndMore(q, Field(n, v), Field(p, u), y),
                     Field(n, v), Field(p, u), y)
<1> DEFINE a == Field("message", q.kind)
           b == Field("handle", q.handle)
           c == Field(n, v)
           d == Field(p, u)
<1>1. a \in Tokens /\ b \in Tokens /\ a.field = "message" /\ b.field = "handle"
  BY HeaderTokens
<1>2. c \in Tokens /\ c.field = n
  BY FieldFacts
<1>3. d \in Tokens /\ d.field = p
  BY FieldFacts
<1>4. AndMore(q, Field(n, v), Field(p, u), y) = Joined(a, b, c, d, y)
  BY DEF Header, AndMore, Joined
<1> HIDE DEF a, b, c, d
<1>5. /\ Begins(Joined(a, b, c, d, y), a, b, 4 + Len(y),
                Joined(a.field, b.field, c.field, d.field, FieldNames(y)))
      /\ GoesOn(Joined(a, b, c, d, y), c, d, y)
  BY <1>1, <1>2, <1>3, FourAndMore
<1>6. QED
  BY <1>1, <1>2, <1>4, <1>5, <1>3 DEF a, b, c, d, Headed

\* The kind is read off the first field.
LEMMA KindRead ==
    ASSUME NEW s \in Seq(Tokens), NEW v, s[1] = Field("message", v)
    PROVE  KindAt(s) = v
  BY DEF KindAt, Field

\* The shape of a message holds what its kind needs, and it can be a field's value.
LEMMA ShapeFacts ==
    ASSUME NEW q \in Queued, ~IsMarker(q)
    PROVE  /\ q.kind = "viewModelPropertyValueReceived" =>
                 q.shape[1] \in DataTypes /\ q.shape[1] \in Values
           /\ q.kind # "viewModelPropertyValueReceived" =>
                 /\ q.shape \in Seq(Values) /\ Len(q.shape) \in Nat
                 /\ Len(q.shape) \in Values
                 /\ DOMAIN q.shape = 1..Len(q.shape)
                 /\ \A i \in 1..Len(q.shape) : q.shape[i] \in Values
           /\ q.kind = "viewModelEnumsListed" => q.shape \in Seq(Nat)
<1>1. HasLayout(q)
  BY QueuedFacts
<1>2. Nat \subseteq Values /\ DataTypes \subseteq Values
  BY DEF Values
<1>3. q.kind = "viewModelPropertyValueReceived" => q.shape[1] \in DataTypes
  BY <1>1 DEF HasLayout
<1>4. q.kind # "viewModelPropertyValueReceived" => q.shape \in Seq(Nat) \/ q.shape \in Seq(DataTypes)
  BY <1>1 DEF HasLayout
<1>5. q.kind # "viewModelPropertyValueReceived" => q.shape \in Seq(Values)
  BY <1>2, <1>4
<1>6. q.kind = "viewModelEnumsListed" => q.shape \in Seq(Nat)
  BY <1>1 DEF HasLayout
<1>7. QED
  BY <1>2, <1>3, <1>5, <1>6

\* What is said of a message q that is written as w: it is made of fields, the
\* kind and the handle come first, and a stream that starts with it is read so.
ReadBack(q, w) ==
    /\ w \in Seq(Tokens)
    /\ Len(w) >= 3
    /\ w[1] = Field("message", q.kind)
    /\ w[2] = Field("handle", q.handle)
    /\ \A s \in Seq(Tokens) : Starts(s, w) => ReadPODs(s) = FieldNames(w)

\* A sequence with the header of q is read as the kind of q, and what it holds
\* after that is read as it was written.
LEMMA HeadedRead ==
    ASSUME NEW q \in Queued, NEW w, NEW len \in Nat, len >= 3, NEW names,
           Headed(w, q, len, names),
           NEW s \in Seq(Tokens), Starts(s, w)
    PROVE  KindAt(s) = q.kind
<1>1. s[1] = Field("message", q.kind)
  BY DEF Headed, Begins, Starts
<1>2. QED
  BY <1>1, KindRead

\* A message is read back if its header and the names of its fields are.
LEMMA HeadedReadBack ==
    ASSUME NEW q, NEW w, NEW len \in Nat, len >= 3, NEW names,
           Headed(w, q, len, names),
           \A s \in Seq(Tokens) : Starts(s, w) => ReadPODs(s) = names
    PROVE  ReadBack(q, w)
  BY DEF Headed, Begins, ReadBack

\* The kinds with a header and a request.
LEMMA PlainReadBack ==
    ASSUME NEW q \in Queued, ~IsMarker(q), q.kind \notin Special \cup ListKinds
    PROVE  ReadBack(q, WritePODs(q))
<1> DEFINE w == OneField(q, Field("requestId", 0))
           names == JoinedOne("message", "handle", "requestId")
<1>1. /\ q.kind # "messageLoopBreak"
      /\ q.kind # "viewModelPropertyValueReceived" /\ q.kind # "viewModelListSizeReceived"
      /\ q.kind # "viewModelEnumsListed" /\ q.kind # "viewModelPropertiesListed"
      /\ q.kind \notin ListKinds
  BY DEF Special, HasList
<1>2. WritePODs(q) = w
  BY <1>1, Zenon DEF WritePODs, OneField
<1>3. 0 \in Values
  BY DEF Values
<1>4. "requestId" \in Labels /\ "size" \in Labels /\ "count" \in Labels
  BY DEF Labels
<1>5. Headed(w, q, 3, names)
  BY <1>3, <1>4, HeaderAndOne
<1> HIDE DEF w
<1>6. ASSUME NEW s \in Seq(Tokens), Starts(s, w)
      PROVE  ReadPODs(s) = names
  <2>1. KindAt(s) = q.kind
    BY <1>5, <1>6, HeadedRead
  <2>2. QED
    BY <1>1, <2>1, Zenon DEF ReadPODs, JoinedOne
<1>7. ReadBack(q, w)
  BY <1>5, <1>6, HeadedReadBack
<1>8. QED
  BY <1>2, <1>7

\* viewModelListSizeReceived.
LEMMA SizeReadBack ==
    ASSUME NEW q \in Queued, ~IsMarker(q), q.kind = "viewModelListSizeReceived"
    PROVE  ReadBack(q, WritePODs(q))
<1> DEFINE w == TwoFields(q, Field("size", 0), Field("requestId", 0))
           names == JoinedTwo("message", "handle", "size", "requestId")
<1>1. q.kind # "messageLoopBreak" /\ q.kind # "viewModelPropertyValueReceived"
      /\ q.kind # "viewModelEnumsListed" /\ q.kind # "viewModelPropertiesListed"
      /\ q.kind \notin ListKinds
  BY DEF ListKinds
<1>2. WritePODs(q) = w
  BY <1>1, Zenon DEF WritePODs, TwoFields
<1>3. 0 \in Values
  BY DEF Values
<1>4. "requestId" \in Labels /\ "size" \in Labels /\ "count" \in Labels
  BY DEF Labels
<1>5. Headed(w, q, 4, names)
  BY <1>3, <1>4, HeaderAndTwo
<1> HIDE DEF w
<1>6. ASSUME NEW s \in Seq(Tokens), Starts(s, w)
      PROVE  ReadPODs(s) = names
  <2>1. KindAt(s) = q.kind
    BY <1>5, <1>6, HeadedRead
  <2>2. QED
    BY <1>1, <2>1, Zenon DEF ReadPODs, JoinedTwo
<1>7. ReadBack(q, w)
  BY <1>5, <1>6, HeadedReadBack
<1>8. QED
  BY <1>2, <1>7

\* The reader finds the number, or the type, that was written.
LEMMA CountRead ==
    ASSUME NEW s \in Seq(Tokens), NEW i \in 1..Len(s), NEW v, s[i] = Field("count", v)
    PROVE  CountAt(s, i) = v
<1>1. i \in DOMAIN s
  OBVIOUS
<1>2. s[i].field = "count" /\ s[i].value = v
  BY DEF Field
<1>3. QED
  BY <1>1, <1>2, Zenon DEF CountAt

\* A data type is read where it was written.
LEMMA TypeRead ==
    ASSUME NEW s \in Seq(Tokens), NEW i \in 1..Len(s), NEW v, s[i] = Field("type", v)
    PROVE  TypeAt(s, i) = v
<1>1. i \in DOMAIN s
  OBVIOUS
<1>2. s[i].field = "type" /\ s[i].value = v
  BY DEF Field
<1>3. QED
  BY <1>1, <1>2, Zenon DEF TypeAt

\* The stream s holds a message of this kind with these fields after its header.
IsReadAs(s, kind, c, d, y) ==
    /\ KindAt(s) = kind
    /\ 3 \in 1..Len(s) /\ s[3] = c
    /\ 4 \in 1..Len(s) /\ s[4] = d
    /\ \A i \in 1..Len(y) : 4 + i \in 1..Len(s) /\ s[4 + i] = y[i]

\* A stream that starts with a long message has its fourth field and those of
\* the list after it where they were written.
LEMMA HeadedGoesOn ==
    ASSUME NEW q \in Queued, NEW w, NEW y \in Seq(Tokens), NEW names, NEW c, NEW d,
           NEW len, len = 4 + Len(y), Headed(w, q, len, names), GoesOn(w, c, d, y),
           NEW s \in Seq(Tokens), Starts(s, w)
    PROVE  IsReadAs(s, q.kind, c, d, y)
<1>1. Len(w) = 4 + Len(y) /\ Len(y) \in Nat /\ Len(s) \in Nat /\ Len(w) <= Len(s)
  BY DEF Headed, Begins, Starts
<1>2. \A i \in 1..Len(w) : i \in 1..Len(s) /\ s[i] = w[i]
  BY <1>1 DEF Starts
<1>3. 3 \in 1..Len(w) /\ 4 \in 1..Len(w)
  BY <1>1
<1>4. KindAt(s) = q.kind
  <2>1. s[1] = Field("message", q.kind)
    BY <1>1 DEF Headed, Begins, Starts
  <2>2. QED
    BY <2>1, KindRead
<1>5. QED
  BY <1>2, <1>3, <1>4 DEF GoesOn, IsReadAs

\* What follows the header of a value: the value itself, if it is plain data.
ValueField(q) == IF q.shape[1] \in PODTypes THEN <<Field("value", 0)>> ELSE <<>>

\* viewModelPropertyValueReceived: the value is there if its type is plain data.
LEMMA ValueWritten ==
    ASSUME NEW q \in Queued, ~IsMarker(q), q.kind = "viewModelPropertyValueReceived"
    PROVE  /\ Headed(WritePODs(q), q, 4 + Len(ValueField(q)),
                     Joined("message", "handle", "type", "requestId",
                            ReadValue(q.shape[1])))
           /\ GoesOn(WritePODs(q), Field("type", q.shape[1]), Field("requestId", 0),
                     ValueField(q))
           /\ ValueField(q) \in Seq(Tokens) /\ Len(ValueField(q)) \in Nat
<1> DEFINE t == q.shape[1]
           y == ValueField(q)
           w == AndMore(q, Field("type", t), Field("requestId", 0), y)
<1>1. /\ q.kind # "messageLoopBreak"
      /\ q.kind # "viewModelListSizeReceived"
      /\ q.kind # "viewModelEnumsListed"
      /\ q.kind # "viewModelPropertiesListed"
      /\ q.kind \notin ListKinds
  BY DEF ListKinds
<1>2. WritePODs(q) = w
  BY <1>1, Zenon DEF WritePODs, PropertyValuePODs, AndMore, ValueField
<1>3. 0 \in Values /\ t \in Values
  BY ShapeFacts DEF Values
<1>4. "requestId" \in Labels /\ "type" \in Labels /\ "value" \in Labels
  BY DEF Labels
<1>5. Field("value", 0) \in Tokens /\ Field("value", 0).field = "value"
  BY <1>3, <1>4, FieldFacts
<1>6. y \in Seq(Tokens) /\ Len(y) \in Nat
  BY <1>5 DEF ValueField
<1>7. FieldNames(y) = ReadValue(t)
  <2>1. CASE t \in PODTypes
    <3>1. FieldNames(<<Field("value", 0)>>) = <<"value">>
      BY <1>5, OneName
    <3>2. QED
      BY <2>1, <3>1 DEF ReadValue, ValueField
  <2>2. CASE t \notin PODTypes
    BY <2>2, EmptyNames DEF ReadValue, ValueField
  <2>3. QED
    BY <2>1, <2>2
<1> HIDE DEF t, y
<1>8. /\ Headed(w, q, 4 + Len(y), Joined("message", "handle", "type", "requestId", FieldNames(y)))
      /\ GoesOn(w, Field("type", t), Field("requestId", 0), y)
  BY <1>3, <1>4, <1>6, HeaderAndMore
<1> HIDE DEF w
<1>9. QED
  BY <1>2, <1>6, <1>7, <1>8 DEF t, y

\* The client reads the type before it decides whether to read a value.
LEMMA ValueReadBack ==
    ASSUME NEW q \in Queued, ~IsMarker(q), q.kind = "viewModelPropertyValueReceived"
    PROVE  /\ ReadBack(q, WritePODs(q))
           /\ \A s \in Seq(Tokens) : Starts(s, WritePODs(q)) =>
                 KindAt(s) = q.kind /\ TypeAt(s, 3) = q.shape[1]
<1> DEFINE t == q.shape[1]
           y == ValueField(q)
           w == WritePODs(q)
           names == Joined("message", "handle", "type", "requestId", ReadValue(t))
<1>1. /\ q.kind # "messageLoopBreak"
      /\ q.kind # "viewModelListSizeReceived"
      /\ q.kind # "viewModelEnumsListed"
      /\ q.kind # "viewModelPropertiesListed"
      /\ q.kind \notin ListKinds
  BY DEF ListKinds
<1>2. /\ Headed(w, q, 4 + Len(y), names)
      /\ GoesOn(w, Field("type", t), Field("requestId", 0), y)
      /\ y \in Seq(Tokens) /\ Len(y) \in Nat
  BY ValueWritten
<1> HIDE DEF w, t, y
<1>3. ASSUME NEW s \in Seq(Tokens), Starts(s, w)
      PROVE  ReadPODs(s) = names /\ KindAt(s) = q.kind /\ TypeAt(s, 3) = t
  <2>1. KindAt(s) = q.kind /\ 3 \in 1..Len(s) /\ s[3] = Field("type", t)
    <3> DEFINE len == 4 + Len(y)
    <3>1. len = 4 + Len(y) /\ Headed(w, q, len, names)
      BY <1>2
    <3> HIDE DEF len
    <3>2. IsReadAs(s, q.kind, Field("type", t), Field("requestId", 0), y)
      BY <1>2, <1>3, <3>1, HeadedGoesOn
    <3>3. QED
      BY <3>2 DEF IsReadAs
  <2>2. TypeAt(s, 3) = t
    BY <2>1, TypeRead
  <2>3. ReadPODs(s) = names
    BY <1>1, <2>1, <2>2, Zenon DEF ReadPODs, Joined
  <2>4. QED
    BY <2>1, <2>2, <2>3
<1>4. ReadBack(q, w)
  <2> DEFINE len == 4 + Len(y)
  <2>1. len \in Nat /\ len >= 3 /\ Headed(w, q, len, names)
    BY <1>2
  <2> HIDE DEF len, names
  <2>2. QED
    BY <1>3, <2>1, HeadedReadBack
<1>5. QED
  BY <1>3, <1>4 DEF w, t

\* The enums of a file: one number of enumerants for each.
LEMMA EnumsWritten ==
    ASSUME NEW q \in Queued, ~IsMarker(q), q.kind = "viewModelEnumsListed"
    PROVE  LET y == EnumCounts(q.shape)
           IN  /\ Headed(WritePODs(q), q, 4 + Len(y),
                         Joined("message", "handle", "requestId", "count",
                                [i \in 1..Len(q.shape) |-> "count"]))
               /\ GoesOn(WritePODs(q), Field("requestId", 0),
                         Field("count", Len(q.shape)), y)
               /\ y \in Seq(Tokens) /\ Len(y) = Len(q.shape) /\ Len(y) \in Nat
               /\ \A i \in 1..Len(y) : y[i] = Field("count", q.shape[i])
<1> DEFINE n == Len(q.shape)
           y == EnumCounts(q.shape)
           w == AndMore(q, Field("requestId", 0), Field("count", n), y)
<1>1. /\ q.kind # "messageLoopBreak"
      /\ q.kind # "viewModelPropertyValueReceived"
      /\ q.kind # "viewModelListSizeReceived"
      /\ q.kind # "viewModelPropertiesListed"
      /\ q.kind \notin ListKinds
  BY DEF ListKinds
<1>2. WritePODs(q) = w
  BY <1>1, Zenon DEF WritePODs, AndMore
<1>3. 0 \in Values /\ n \in Values /\ n \in Nat /\ DOMAIN q.shape = 1..n
      /\ \A i \in 1..n : q.shape[i] \in Values
  BY <1>1, ShapeFacts DEF Values
<1>4. "requestId" \in Labels /\ "count" \in Labels /\ "type" \in Labels
  BY DEF Labels
<1>5. \A i \in 1..n : Field("count", q.shape[i]) \in Tokens
                      /\ Field("count", q.shape[i]).field = "count"
  BY <1>3, <1>4, FieldFacts
<1>6. y \in Seq(Tokens) /\ Len(y) = n
      /\ \A i \in 1..n : y[i] = Field("count", q.shape[i])
  BY <1>3, <1>5 DEF EnumCounts
<1>7. FieldNames(y) = [i \in 1..n |-> "count"]
  BY <1>3, <1>5, <1>6 DEF FieldNames
<1> HIDE DEF n, y
<1>8. /\ Headed(w, q, 4 + Len(y), Joined("message", "handle", "requestId", "count",
                                         FieldNames(y)))
      /\ GoesOn(w, Field("requestId", 0), Field("count", n), y)
  BY <1>3, <1>4, <1>6, HeaderAndMore
<1> HIDE DEF w
<1>9. QED
  BY <1>2, <1>3, <1>6, <1>7, <1>8 DEF n, y

\* They are read as they were written.
LEMMA EnumsReadBack ==
    ASSUME NEW q \in Queued, ~IsMarker(q), q.kind = "viewModelEnumsListed"
    PROVE  /\ ReadBack(q, WritePODs(q))
           /\ \A s \in Seq(Tokens) : Starts(s, WritePODs(q)) =>
                 /\ KindAt(s) = q.kind
                 /\ CountAt(s, 4) = Len(q.shape)
                 /\ \A i \in 1..Len(q.shape) : CountAt(s, 4 + i) = q.shape[i]
<1> DEFINE n == Len(q.shape)
           y == EnumCounts(q.shape)
           w == WritePODs(q)
           names == Joined("message", "handle", "requestId", "count",
                           [i \in 1..n |-> "count"])
<1>1. /\ q.kind # "messageLoopBreak"
      /\ q.kind # "viewModelPropertyValueReceived"
      /\ q.kind # "viewModelListSizeReceived"
      /\ q.kind # "viewModelPropertiesListed"
      /\ q.kind \notin ListKinds
  BY DEF ListKinds
<1>2. /\ Headed(w, q, 4 + Len(y), names)
      /\ GoesOn(w, Field("requestId", 0), Field("count", n), y)
      /\ y \in Seq(Tokens) /\ Len(y) = n /\ Len(y) \in Nat
      /\ \A i \in 1..n : y[i] = Field("count", q.shape[i])
  BY EnumsWritten
<1> HIDE DEF w, n, y
<1>3. ASSUME NEW s \in Seq(Tokens), Starts(s, w)
      PROVE  /\ ReadPODs(s) = names /\ KindAt(s) = q.kind /\ CountAt(s, 4) = n
             /\ \A i \in 1..n : CountAt(s, 4 + i) = q.shape[i]
  <2>1. /\ KindAt(s) = q.kind /\ 4 \in 1..Len(s) /\ s[4] = Field("count", n)
        /\ \A i \in 1..Len(y) : 4 + i \in 1..Len(s) /\ s[4 + i] = y[i]
    <3> DEFINE len == 4 + Len(y)
    <3>1. len = 4 + Len(y) /\ Headed(w, q, len, names)
      BY <1>2
    <3> HIDE DEF len
    <3>2. IsReadAs(s, q.kind, Field("requestId", 0), Field("count", n), y)
      BY <1>2, <1>3, <3>1, HeadedGoesOn
    <3>3. QED
      BY <3>2 DEF IsReadAs
  <2>2. CountAt(s, 4) = n
    BY <2>1, CountRead
  <2>3. ReadPODs(s) = names
    BY <1>1, <2>1, <2>2, Zenon DEF ReadPODs, Joined
  <2>4. ASSUME NEW i \in 1..n PROVE CountAt(s, 4 + i) = q.shape[i]
    <3>1. 4 + i \in 1..Len(s) /\ s[4 + i] = Field("count", q.shape[i])
      BY <1>2, <2>1
    <3>2. QED
      BY <3>1, CountRead
  <2>5. QED
    BY <2>1, <2>2, <2>3, <2>4
<1>4. ReadBack(q, w)
  <2> DEFINE len == 4 + Len(y)
  <2>1. len \in Nat /\ len >= 3 /\ Headed(w, q, len, names)
    BY <1>2
  <2> HIDE DEF len, names
  <2>2. QED
    BY <1>3, <2>1, HeadedReadBack
<1>5. QED
  BY <1>3, <1>4 DEF w, n

\* The properties of a view model: one type for each.
LEMMA PropertiesWritten ==
    ASSUME NEW q \in Queued, ~IsMarker(q), q.kind = "viewModelPropertiesListed"
    PROVE  LET y == PropertyTypes(q.shape)
           IN  /\ Headed(WritePODs(q), q, 4 + Len(y),
                         Joined("message", "handle", "requestId", "count",
                                [i \in 1..Len(q.shape) |-> "type"]))
               /\ GoesOn(WritePODs(q), Field("requestId", 0),
                         Field("count", Len(q.shape)), y)
               /\ y \in Seq(Tokens) /\ Len(y) = Len(q.shape) /\ Len(y) \in Nat
               /\ \A i \in 1..Len(y) : y[i] = Field("type", q.shape[i])
<1> DEFINE n == Len(q.shape)
           y == PropertyTypes(q.shape)
           w == AndMore(q, Field("requestId", 0), Field("count", n), y)
<1>1. /\ q.kind # "messageLoopBreak"
      /\ q.kind # "viewModelPropertyValueReceived"
      /\ q.kind # "viewModelListSizeReceived"
      /\ q.kind # "viewModelEnumsListed"
      /\ q.kind \notin ListKinds
  BY DEF ListKinds
<1>2. WritePODs(q) = w
  BY <1>1, Zenon DEF WritePODs, AndMore
<1>3. 0 \in Values /\ n \in Values /\ n \in Nat /\ DOMAIN q.shape = 1..n
      /\ \A i \in 1..n : q.shape[i] \in Values
  BY <1>1, ShapeFacts DEF Values
<1>4. "requestId" \in Labels /\ "count" \in Labels /\ "type" \in Labels
  BY DEF Labels
<1>5. \A i \in 1..n : Field("type", q.shape[i]) \in Tokens
                      /\ Field("type", q.shape[i]).field = "type"
  BY <1>3, <1>4, FieldFacts
<1>6. y \in Seq(Tokens) /\ Len(y) = n
      /\ \A i \in 1..n : y[i] = Field("type", q.shape[i])
  BY <1>3, <1>5 DEF PropertyTypes
<1>7. FieldNames(y) = [i \in 1..n |-> "type"]
  BY <1>3, <1>5, <1>6 DEF FieldNames
<1> HIDE DEF n, y
<1>8. /\ Headed(w, q, 4 + Len(y), Joined("message", "handle", "requestId", "count",
                                         FieldNames(y)))
      /\ GoesOn(w, Field("requestId", 0), Field("count", n), y)
  BY <1>3, <1>4, <1>6, HeaderAndMore
<1> HIDE DEF w
<1>9. QED
  BY <1>2, <1>3, <1>6, <1>7, <1>8 DEF n, y

\* They are read as they were written.
LEMMA PropertiesReadBack ==
    ASSUME NEW q \in Queued, ~IsMarker(q), q.kind = "viewModelPropertiesListed"
    PROVE  /\ ReadBack(q, WritePODs(q))
           /\ \A s \in Seq(Tokens) : Starts(s, WritePODs(q)) =>
                 /\ KindAt(s) = q.kind
                 /\ CountAt(s, 4) = Len(q.shape)
                 /\ \A i \in 1..Len(q.shape) : TypeAt(s, 4 + i) = q.shape[i]
<1> DEFINE n == Len(q.shape)
           y == PropertyTypes(q.shape)
           w == WritePODs(q)
           names == Joined("message", "handle", "requestId", "count",
                           [i \in 1..n |-> "type"])
<1>1. /\ q.kind # "messageLoopBreak"
      /\ q.kind # "viewModelPropertyValueReceived"
      /\ q.kind # "viewModelListSizeReceived"
      /\ q.kind # "viewModelEnumsListed"
      /\ q.kind \notin ListKinds
  BY DEF ListKinds
<1>2. /\ Headed(w, q, 4 + Len(y), names)
      /\ GoesOn(w, Field("requestId", 0), Field("count", n), y)
      /\ y \in Seq(Tokens) /\ Len(y) = n /\ Len(y) \in Nat
      /\ \A i \in 1..n : y[i] = Field("type", q.shape[i])
  BY PropertiesWritten
<1> HIDE DEF w, n, y
<1>3. ASSUME NEW s \in Seq(Tokens), Starts(s, w)
      PROVE  /\ ReadPODs(s) = names /\ KindAt(s) = q.kind /\ CountAt(s, 4) = n
             /\ \A i \in 1..n : TypeAt(s, 4 + i) = q.shape[i]
  <2>1. /\ KindAt(s) = q.kind /\ 4 \in 1..Len(s) /\ s[4] = Field("count", n)
        /\ \A i \in 1..Len(y) : 4 + i \in 1..Len(s) /\ s[4 + i] = y[i]
    <3> DEFINE len == 4 + Len(y)
    <3>1. len = 4 + Len(y) /\ Headed(w, q, len, names)
      BY <1>2
    <3> HIDE DEF len
    <3>2. IsReadAs(s, q.kind, Field("requestId", 0), Field("count", n), y)
      BY <1>2, <1>3, <3>1, HeadedGoesOn
    <3>3. QED
      BY <3>2 DEF IsReadAs
  <2>2. CountAt(s, 4) = n
    BY <2>1, CountRead
  <2>3. ReadPODs(s) = names
    BY <1>1, <2>1, <2>2, Zenon DEF ReadPODs, Joined
  <2>4. ASSUME NEW i \in 1..n PROVE TypeAt(s, 4 + i) = q.shape[i]
    <3>1. 4 + i \in 1..Len(s) /\ s[4 + i] = Field("type", q.shape[i])
      BY <1>2, <2>1
    <3>2. QED
      BY <3>1, TypeRead
  <2>5. QED
    BY <2>1, <2>2, <2>3, <2>4
<1>4. ReadBack(q, w)
  <2> DEFINE len == 4 + Len(y)
  <2>1. len \in Nat /\ len >= 3 /\ Headed(w, q, len, names)
    BY <1>2
  <2> HIDE DEF len, names
  <2>2. QED
    BY <1>3, <2>1, HeadedReadBack
<1>5. QED
  BY <1>3, <1>4 DEF w, n

\* A list of names: its length.
LEMMA ListReadBack ==
    ASSUME NEW q \in Queued, ~IsMarker(q), q.kind \in ListKinds
    PROVE  /\ ReadBack(q, WritePODs(q))
           /\ \A s \in Seq(Tokens) : Starts(s, WritePODs(q)) =>
                 KindAt(s) = q.kind /\ CountAt(s, 4) = Len(q.shape)
<1> DEFINE n == Len(q.shape)
           w == TwoFields(q, Field("requestId", 0), Field("count", n))
           names == JoinedTwo("message", "handle", "requestId", "count")
<1>1. q.kind # "messageLoopBreak" /\ q.kind # "viewModelPropertyValueReceived"
      /\ q.kind # "viewModelListSizeReceived"
      /\ q.kind # "viewModelEnumsListed" /\ q.kind # "viewModelPropertiesListed"
  BY DEF ListKinds
<1>2. WritePODs(q) = w
  BY <1>1, Zenon DEF WritePODs, TwoFields
<1>3. 0 \in Values /\ n \in Values
  BY <1>1, ShapeFacts DEF Values
<1> HIDE DEF n
<1>4. "requestId" \in Labels /\ "size" \in Labels /\ "count" \in Labels
  BY DEF Labels
<1>5. <<>> \in Seq(Tokens) /\ 4 + Len(<<>>) = 4
  OBVIOUS
<1>6. /\ Headed(w, q, 4, names)
      /\ GoesOn(w, Field("requestId", 0), Field("count", n), <<>>)
  BY <1>3, <1>4, HeaderAndTwo
<1> HIDE DEF w
<1>7. Headed(w, q, 4 + Len(<<>>), names)
  BY <1>6, <1>5
<1>8. ASSUME NEW s \in Seq(Tokens), Starts(s, w)
      PROVE  ReadPODs(s) = names /\ KindAt(s) = q.kind /\ CountAt(s, 4) = n
  <2>1. KindAt(s) = q.kind /\ 4 \in 1..Len(s) /\ s[4] = Field("count", n)
    <3> DEFINE len == 4 + Len(<<>>)
    <3>1. len = 4 + Len(<<>>) /\ Headed(w, q, len, names) /\ <<>> \in Seq(Tokens)
      BY <1>5, <1>7
    <3> HIDE DEF len
    <3>2. IsReadAs(s, q.kind, Field("requestId", 0), Field("count", n), <<>>)
      BY <1>6, <1>8, <3>1, HeadedGoesOn
    <3>3. QED
      BY <3>2 DEF IsReadAs
  <2>2. CountAt(s, 4) = n
    BY <2>1, CountRead
  <2>3. ReadPODs(s) = names
    BY <1>1, <2>1, Zenon DEF ReadPODs, JoinedTwo
  <2>4. QED
    BY <2>1, <2>2, <2>3
<1>9. ReadBack(q, w)
  <2> DEFINE len == 4
  <2>1. len \in Nat /\ len >= 3 /\ Headed(w, q, len, names)
    BY <1>6
  <2> HIDE DEF len, names
  <2>2. QED
    BY <1>8, <2>1, HeadedReadBack
<1>10. QED
  BY <1>2, <1>8, <1>9 DEF n

\* Whatever the message, the client extracts the fields the server wrote.
LEMMA MessageReadBack ==
    ASSUME NEW q \in Queued, ~IsMarker(q)
    PROVE  ReadBack(q, Written(q))
<1>1. Written(q) = WritePODs(q)
  BY DEF Written
<1>2. q.kind # "messageLoopBreak"
  BY QueuedFacts
<1>3. ReadBack(q, WritePODs(q))
  BY <1>2, PlainReadBack, SizeReadBack, ListReadBack, ValueReadBack, EnumsReadBack,
     PropertiesReadBack DEF Special, HasList
<1>4. QED
  BY <1>1, <1>3

\* A marker is one field, and it is read as one.
LEMMA MarkerReadBack ==
    /\ LoopBreak \in Queued /\ IsMarker(LoopBreak)
    /\ \A q \in Queued : IsMarker(q) => q = LoopBreak
    /\ Written(LoopBreak) = <<Field("message", LoopBreak.kind)>>
    /\ Written(LoopBreak) \in Seq(Tokens) /\ Len(Written(LoopBreak)) = 1
    /\ \A s \in Seq(Tokens) : Starts(s, Written(LoopBreak)) =>
          /\ KindAt(s) = LoopBreak.kind
          /\ ReadPODs(s) = FieldNames(Written(LoopBreak))
<1>1. LoopBreak \in Queued /\ IsMarker(LoopBreak) /\ LoopBreak.kind = "messageLoopBreak"
  BY DEF Queued, IsMarker, LoopBreak
<1>2. \A q \in Queued : IsMarker(q) => q = LoopBreak
  <2>1. ASSUME NEW q \in Queued, q.kind = "messageLoopBreak", q # LoopBreak PROVE FALSE
    <3>1. PICK m \in Messages, h \in Handles :
             q = [kind |-> m.kind, handle |-> h, shape |-> m.shape]
      BY <2>1 DEF Queued
    <3>2. m.kind = "messageLoopBreak"
      BY <2>1, <3>1
    <3>3. HasLayout(m)
      BY MessageQueueAssumption
    <3>4. QED
      BY <3>2, <3>3 DEF HasLayout
  <2>2. QED
    BY <1>1, <2>1 DEF IsMarker
<1>3. Written(LoopBreak) = <<Field("message", LoopBreak.kind)>>
  BY <1>1 DEF Written
<1>4. "message" \in Labels /\ LoopBreak.kind \in Values
  BY DEF Labels, Values
<1>5. Field("message", LoopBreak.kind) \in Tokens
      /\ Field("message", LoopBreak.kind).field = "message"
  BY <1>4, FieldFacts
<1>6. FieldNames(Written(LoopBreak)) = <<"message">>
  BY <1>3, <1>5, OneName
<1>7. ASSUME NEW s \in Seq(Tokens), Starts(s, Written(LoopBreak))
      PROVE  KindAt(s) = LoopBreak.kind /\ ReadPODs(s) = FieldNames(Written(LoopBreak))
  <2>1. s[1] = Field("message", LoopBreak.kind)
    BY <1>3, <1>7 DEF Starts
  <2>2. KindAt(s) = LoopBreak.kind
    BY <2>1, KindRead
  <2>3. ReadPODs(s) = <<"message">>
    <3>1. KindAt(s) = "messageLoopBreak"
          /\ KindAt(s) # "viewModelPropertyValueReceived"
          /\ KindAt(s) # "viewModelListSizeReceived"
          /\ KindAt(s) # "viewModelEnumsListed"
          /\ KindAt(s) # "viewModelPropertiesListed"
          /\ KindAt(s) \notin ListKinds
      BY <1>1, <2>2 DEF ListKinds
    <3>2. QED
      BY <3>1, Zenon DEF ReadPODs
  <2>4. QED
    BY <1>6, <2>2, <2>3
<1>8. Written(LoopBreak) \in Seq(Tokens) /\ Len(Written(LoopBreak)) = 1
  BY <1>3, <1>5
<1>9. QED
  BY <1>1, <1>2, <1>3, <1>7, <1>8

(***************************************************************************)
(* The names of a message                                                  *)
(***************************************************************************)

\* What is said of the names of a message: they are fields, and a client that
\* has the message at the head of the first stream takes just these.
NamesReadBack(q) ==
    /\ WriteNames(q) \in Seq(Tokens)
    /\ \A s \in Seq(Tokens) : Starts(s, WritePODs(q)) =>
          ReadNames(s) = FieldNames(WriteNames(q))

\* The fields of the names that stand alone.
LEMMA NameTokens ==
    /\ \A n \in {"error", "viewModel", "instance", "property", "string", "path",
                 "enum", "metaData"} :
          Field(n, 0) \in Tokens /\ Field(n, 0).field = n
    /\ \A i \in Nat : /\ Field("name", i) \in Tokens /\ Field("name", i).field = "name"
                      /\ Field("enumerant", i) \in Tokens
                      /\ Field("enumerant", i).field = "enumerant"
<1>1. Nat \subseteq Values /\ 0 \in Nat
  BY DEF Values
<1>2. \A n \in {"error", "viewModel", "instance", "property", "string", "path",
                "enum", "metaData"} : n \in Labels
  BY DEF Labels
<1>3. "name" \in Labels /\ "enumerant" \in Labels
  BY DEF Labels
<1>4. QED
  BY <1>1, <1>2, <1>3, FieldFacts

\* So many fields of one name.
LEMMA RepeatedNames ==
    ASSUME NEW n \in Nat, NEW name \in {"name", "enumerant"}
    PROVE  /\ Repeated(name, n) \in Seq(Tokens)
           /\ FieldNames(Repeated(name, n)) = [i \in 1..n |-> name]
<1>1. \A i \in 1..n : Field(name, i) \in Tokens /\ Field(name, i).field = name
  BY NameTokens
<1>2. Repeated(name, n) = [i \in 1..n |-> Field(name, i)]
  BY DEF Repeated
<1>3. Repeated(name, n) \in Seq(Tokens)
  BY <1>1, <1>2
<1>4. DOMAIN Repeated(name, n) = 1..n
  BY <1>2
<1>5. \A i \in 1..n : Repeated(name, n)[i].field = name
  BY <1>1, <1>2
<1>6. QED
  BY <1>3, <1>4, <1>5 DEF FieldNames

\* One name, and one name and more.
LEMMA OneAndMore ==
    ASSUME NEW a \in Tokens, NEW y \in Seq(Tokens)
    PROVE  <<a>> \o y \in Seq(Tokens) /\ FieldNames(<<a>> \o y) = <<a.field>> \o FieldNames(y)
<1>1. <<a>> \in Seq(Tokens)
  OBVIOUS
<1>2. FieldNames(<<a>> \o y) = FieldNames(<<a>>) \o FieldNames(y)
  BY <1>1, FieldNamesConcat
<1>3. FieldNames(<<a>>) = <<a.field>>
  BY OneName
<1>4. <<a>> \o y \in Seq(Tokens)
  BY <1>1
<1>5. QED
  BY <1>2, <1>3, <1>4

\* The names of an enum are its own and one for every enumerant.
LEMMA EnumNamesRead ==
    ASSUME NEW n \in Nat
    PROVE  EnumNames(n) \in Seq(Tokens) /\ FieldNames(EnumNames(n)) = ReadEnum(n)
           /\ ReadEnum(n) \in Seq(Labels)
<1>1. Field("enum", 0) \in Tokens /\ Field("enum", 0).field = "enum"
  BY NameTokens
<1>2. /\ Repeated("enumerant", n) \in Seq(Tokens)
      /\ FieldNames(Repeated("enumerant", n)) = [i \in 1..n |-> "enumerant"]
  BY RepeatedNames
<1>3. EnumNames(n) \in Seq(Tokens) /\ FieldNames(EnumNames(n)) = ReadEnum(n)
  BY <1>1, <1>2, OneAndMore DEF EnumNames, ReadEnum
<1>4. QED
  BY <1>3, FieldNamesFacts

\* Two names one after the other, and a name with nothing after it.
LEMMA SmallConcats ==
    ASSUME NEW a \in Labels, NEW b \in Labels
    PROVE  <<a>> \o <<b>> = <<a, b>> /\ <<a>> \o <<>> = <<a>>
<1> DEFINE u == <<a>> \o <<b>>
           v == <<a, b>>
           z == <<a>> \o <<>>
           y == <<a>>
<1>1. u \in Seq(Labels) /\ Len(u) = 2 /\ u[1] = a /\ u[2] = b
  OBVIOUS
<1>2. v \in Seq(Labels) /\ Len(v) = 2 /\ v[1] = a /\ v[2] = b
  OBVIOUS
<1>3. z \in Seq(Labels) /\ Len(z) = 1 /\ z[1] = a
  OBVIOUS
<1>4. y \in Seq(Labels) /\ Len(y) = 1 /\ y[1] = a
  OBVIOUS
<1>5. 1..2 = {1, 2} /\ 1..1 = {1}
  OBVIOUS
<1> HIDE DEF u, v, y, z
<1>6. \A i \in 1..Len(u) : u[i] = v[i]
  BY <1>1, <1>2, <1>5
<1>7. u = v
  BY <1>1, <1>2, <1>6, SameSequence
<1>8. \A i \in 1..Len(z) : z[i] = y[i]
  BY <1>3, <1>4, <1>5
<1>9. z = y
  BY <1>3, <1>4, <1>8, SameSequence
<1>10. QED
  BY <1>7, <1>9 DEF u, v, y, z

\* The names of a property are its own and its enum's if it is of that type.
LEMMA PropertyNamesRead ==
    ASSUME NEW type
    PROVE  /\ PropertyNames(type) \in Seq(Tokens)
           /\ FieldNames(PropertyNames(type)) = ReadProperty(type)
           /\ ReadProperty(type) \in Seq(Labels)
<1>1. /\ Field("property", 0) \in Tokens /\ Field("property", 0).field = "property"
      /\ Field("metaData", 0) \in Tokens /\ Field("metaData", 0).field = "metaData"
  BY NameTokens
<1>2. CASE type = "enumType"
  <2>1. PropertyNames(type) = <<Field("property", 0)>> \o <<Field("metaData", 0)>>
    BY <1>2 DEF PropertyNames
  <2>2. /\ <<Field("metaData", 0)>> \in Seq(Tokens)
        /\ FieldNames(<<Field("metaData", 0)>>) = <<"metaData">>
    BY <1>1, OneName
  <2>3. /\ PropertyNames(type) \in Seq(Tokens)
        /\ FieldNames(PropertyNames(type)) = <<"property">> \o <<"metaData">>
    BY <1>1, <2>1, <2>2, OneAndMore
  <2>4. <<"property">> \o <<"metaData">> = <<"property", "metaData">>
    BY "property" \in Labels, "metaData" \in Labels, SmallConcats DEF Labels
  <2>5. QED
    BY <1>2, <2>3, <2>4, FieldNamesFacts DEF ReadProperty
<1>3. CASE type # "enumType"
  <2>1. PropertyNames(type) = <<Field("property", 0)>> \o <<>>
    BY <1>3 DEF PropertyNames
  <2>2. /\ PropertyNames(type) \in Seq(Tokens)
        /\ FieldNames(PropertyNames(type)) = <<"property">> \o FieldNames(<<>>)
    BY <1>1, <2>1, EmptyNames, OneAndMore
  <2>3. <<"property">> \o FieldNames(<<>>) = <<"property">>
    BY "property" \in Labels, EmptyNames, SmallConcats DEF Labels
  <2>4. QED
    BY <1>3, <2>2, <2>3, FieldNamesFacts DEF ReadProperty
<1>4. QED
  BY <1>2, <1>3

\* The kinds that have names, apart from lists and errors.
NamedKinds ==
    {"defaultViewModelReceived", "viewModelPropertyValueReceived",
     "viewModelListSizeReceived", "viewModelEnumsListed",
     "viewModelPropertiesListed", "viewModelInstanceNamesListed"}

\* The kind of a message is at the head of its fields, whatever the kind.
LEMMA KindReadBack ==
    ASSUME NEW q \in Queued, ~IsMarker(q), NEW s \in Seq(Tokens), Starts(s, WritePODs(q))
    PROVE  KindAt(s) = q.kind
<1>1. ReadBack(q, WritePODs(q))
  BY MessageReadBack DEF Written
<1>2. s[1] = Field("message", q.kind)
  BY <1>1 DEF ReadBack, Starts
<1>3. QED
  BY <1>2, KindRead

\* The errors: one name.
LEMMA ErrorNames ==
    ASSUME NEW q \in Queued, ~IsMarker(q), q.kind \in ErrorKinds
    PROVE  NamesReadBack(q)
<1>1. /\ q.kind # "defaultViewModelReceived" /\ q.kind # "viewModelPropertyValueReceived"
      /\ q.kind # "viewModelListSizeReceived" /\ q.kind # "viewModelEnumsListed"
      /\ q.kind # "viewModelPropertiesListed" /\ q.kind # "viewModelInstanceNamesListed"
      /\ q.kind \notin NameListKinds
  BY DEF ErrorKinds, ListKinds, NameListKinds
<1>2. WriteNames(q) = <<Field("error", 0)>>
  BY <1>1, Zenon DEF WriteNames
<1>3. Field("error", 0) \in Tokens /\ Field("error", 0).field = "error"
  BY NameTokens
<1>4. WriteNames(q) \in Seq(Tokens) /\ FieldNames(WriteNames(q)) = <<"error">>
  BY <1>2, <1>3, OneName
<1>5. ASSUME NEW s \in Seq(Tokens), Starts(s, WritePODs(q)) PROVE ReadNames(s) = <<"error">>
  <2>1. KindAt(s) = q.kind
    BY <1>5, KindReadBack
  <2>2. QED
    BY <1>1, <2>1, Zenon DEF ReadNames
<1>6. QED
  BY <1>4, <1>5 DEF NamesReadBack

\* defaultViewModelReceived: two names.
LEMMA DefaultNames ==
    ASSUME NEW q \in Queued, ~IsMarker(q), q.kind = "defaultViewModelReceived"
    PROVE  NamesReadBack(q)
<1>1. /\ q.kind \notin ErrorKinds /\ q.kind # "viewModelPropertyValueReceived"
      /\ q.kind # "viewModelListSizeReceived" /\ q.kind # "viewModelEnumsListed"
      /\ q.kind # "viewModelPropertiesListed" /\ q.kind # "viewModelInstanceNamesListed"
      /\ q.kind \notin NameListKinds
  BY DEF ErrorKinds, ListKinds, NameListKinds
<1>2. WriteNames(q) = <<Field("viewModel", 0), Field("instance", 0)>>
  BY <1>1, Zenon DEF WriteNames
<1>3. /\ Field("viewModel", 0) \in Tokens /\ Field("viewModel", 0).field = "viewModel"
      /\ Field("instance", 0) \in Tokens /\ Field("instance", 0).field = "instance"
  BY NameTokens
<1>4. WriteNames(q) \in Seq(Tokens) /\ FieldNames(WriteNames(q)) = <<"viewModel", "instance">>
  BY <1>2, <1>3, TwoNames
<1>5. ASSUME NEW s \in Seq(Tokens), Starts(s, WritePODs(q))
      PROVE  ReadNames(s) = <<"viewModel", "instance">>
  <2>1. KindAt(s) = q.kind
    BY <1>5, KindReadBack
  <2>2. QED
    BY <1>1, <2>1, Zenon DEF ReadNames
<1>6. QED
  BY <1>4, <1>5 DEF NamesReadBack

\* viewModelPropertyValueReceived: one name more if the value is a string.
LEMMA ValueNames ==
    ASSUME NEW q \in Queued, ~IsMarker(q), q.kind = "viewModelPropertyValueReceived"
    PROVE  NamesReadBack(q)
<1> DEFINE t == q.shape[1]
           rest == IF t \in NameTypes THEN <<Field("string", 0)>> ELSE <<>>
           read == IF t \in NameTypes THEN <<"string">> ELSE <<>>
<1>1. /\ q.kind \notin ErrorKinds /\ q.kind # "defaultViewModelReceived"
      /\ q.kind # "viewModelListSizeReceived" /\ q.kind # "viewModelEnumsListed"
      /\ q.kind # "viewModelPropertiesListed" /\ q.kind # "viewModelInstanceNamesListed"
      /\ q.kind \notin NameListKinds
  BY DEF ErrorKinds, ListKinds, NameListKinds
<1>2. WriteNames(q) = <<Field("property", 0)>> \o rest
  BY <1>1, Zenon DEF WriteNames
<1>3. /\ Field("property", 0) \in Tokens /\ Field("property", 0).field = "property"
      /\ Field("string", 0) \in Tokens /\ Field("string", 0).field = "string"
  BY NameTokens
<1>4. rest \in Seq(Tokens) /\ FieldNames(rest) = read
  <2>1. CASE t \in NameTypes
    <3>1. <<Field("string", 0)>> \in Seq(Tokens) /\ FieldNames(<<Field("string", 0)>>) = <<"string">>
      BY <1>3, OneName
    <3>2. QED
      BY <2>1, <3>1
  <2>2. CASE t \notin NameTypes
    BY <2>2, EmptyNames
  <2>3. QED
    BY <2>1, <2>2
<1> HIDE DEF rest
<1>5. WriteNames(q) \in Seq(Tokens) /\ FieldNames(WriteNames(q)) = <<"property">> \o read
  BY <1>2, <1>3, <1>4, OneAndMore
<1>6. ASSUME NEW s \in Seq(Tokens), Starts(s, WritePODs(q))
      PROVE  ReadNames(s) = <<"property">> \o read
  <2>1. KindAt(s) = q.kind /\ TypeAt(s, 3) = t
    BY <1>6, ValueReadBack
  <2>2. QED
    BY <1>1, <2>1, Zenon DEF ReadNames
<1>7. QED
  BY <1>5, <1>6 DEF NamesReadBack

\* viewModelListSizeReceived: the path.
LEMMA SizeNames ==
    ASSUME NEW q \in Queued, ~IsMarker(q), q.kind = "viewModelListSizeReceived"
    PROVE  NamesReadBack(q)
<1>1. /\ q.kind \notin ErrorKinds /\ q.kind # "defaultViewModelReceived"
      /\ q.kind # "viewModelPropertyValueReceived" /\ q.kind # "viewModelEnumsListed"
      /\ q.kind # "viewModelPropertiesListed" /\ q.kind # "viewModelInstanceNamesListed"
      /\ q.kind \notin NameListKinds
  BY DEF ErrorKinds, ListKinds, NameListKinds
<1>2. WriteNames(q) = <<Field("path", 0)>>
  BY <1>1, Zenon DEF WriteNames
<1>3. Field("path", 0) \in Tokens /\ Field("path", 0).field = "path"
  BY NameTokens
<1>4. WriteNames(q) \in Seq(Tokens) /\ FieldNames(WriteNames(q)) = <<"path">>
  BY <1>2, <1>3, OneName
<1>5. ASSUME NEW s \in Seq(Tokens), Starts(s, WritePODs(q)) PROVE ReadNames(s) = <<"path">>
  <2>1. KindAt(s) = q.kind
    BY <1>5, KindReadBack
  <2>2. QED
    BY <1>1, <2>1, Zenon DEF ReadNames
<1>6. QED
  BY <1>4, <1>5 DEF NamesReadBack

\* The names of every enum and of its enumerants, as many as were counted.
LEMMA EnumsNames ==
    ASSUME NEW q \in Queued, ~IsMarker(q), q.kind = "viewModelEnumsListed"
    PROVE  NamesReadBack(q)
<1> DEFINE n == Len(q.shape)
           a == [i \in 1..n |-> EnumNames(q.shape[i])]
           b == [i \in 1..n |-> ReadEnum(q.shape[i])]
<1>1. /\ q.kind \notin ErrorKinds /\ q.kind # "defaultViewModelReceived"
      /\ q.kind # "viewModelPropertyValueReceived" /\ q.kind # "viewModelListSizeReceived"
      /\ q.kind # "viewModelPropertiesListed" /\ q.kind # "viewModelInstanceNamesListed"
      /\ q.kind \notin NameListKinds
  BY DEF ErrorKinds, ListKinds, NameListKinds
<1>2. n \in Nat /\ DOMAIN q.shape = 1..n /\ \A i \in 1..n : q.shape[i] \in Nat
  <2>1. q.shape \in Seq(Nat)
    BY ShapeFacts
  <2>2. QED
    BY <2>1
<1>3. WriteNames(q) = FlattenSeq(a)
  <2>1. WriteNames(q) = FlattenSeq([i \in DOMAIN q.shape |-> EnumNames(q.shape[i])])
    BY <1>1, Zenon DEF WriteNames
  <2>2. QED
    BY <1>2, <2>1
<1>4. \A i \in 1..n : /\ EnumNames(q.shape[i]) \in Seq(Tokens)
                      /\ FieldNames(EnumNames(q.shape[i])) = ReadEnum(q.shape[i])
                      /\ ReadEnum(q.shape[i]) \in Seq(Labels)
  BY <1>2, EnumNamesRead
<1>5. /\ a \in Seq(Seq(Tokens)) /\ b \in Seq(Seq(Labels)) /\ Len(a) = n /\ Len(b) = n
      /\ \A i \in 1..n : b[i] = FieldNames(a[i])
  BY <1>2, <1>4
<1> HIDE DEF n, a
<1>6. ASSUME NEW s \in Seq(Tokens), Starts(s, WritePODs(q))
      PROVE  ReadNames(s) = FlattenSeq(b)
  <2>1. /\ KindAt(s) = q.kind /\ CountAt(s, 4) = n
        /\ \A i \in 1..n : CountAt(s, 4 + i) = q.shape[i]
    BY <1>6, EnumsReadBack DEF n
  <2>2. ReadNames(s) = FlattenSeq([i \in 1..n |-> ReadEnum(CountAt(s, 4 + i))])
    BY <1>1, <2>1, Zenon DEF ReadNames
  <2>3. [i \in 1..n |-> ReadEnum(CountAt(s, 4 + i))] = b
    BY <2>1
  <2>4. QED
    BY <2>2, <2>3
<1> HIDE DEF b
<1>7. FlattenSeq(a) \in Seq(Tokens) /\ FlattenSeq(b) = FieldNames(FlattenSeq(a))
  BY <1>5, FlattenFields
<1>8. QED
  BY <1>3, <1>6, <1>7 DEF NamesReadBack

\* The name of the view model, then of every property, with the name of its enum
\* if its type is one.
LEMMA PropertiesNames ==
    ASSUME NEW q \in Queued, ~IsMarker(q), q.kind = "viewModelPropertiesListed"
    PROVE  NamesReadBack(q)
<1> DEFINE n == Len(q.shape)
           a == [i \in 1..n |-> PropertyNames(q.shape[i])]
           b == [i \in 1..n |-> ReadProperty(q.shape[i])]
           first == Field("viewModel", 0)
<1>1. /\ q.kind \notin ErrorKinds /\ q.kind # "defaultViewModelReceived"
      /\ q.kind # "viewModelPropertyValueReceived" /\ q.kind # "viewModelListSizeReceived"
      /\ q.kind # "viewModelEnumsListed" /\ q.kind # "viewModelInstanceNamesListed"
      /\ q.kind \notin NameListKinds
  BY DEF ErrorKinds, ListKinds, NameListKinds
<1>2. n \in Nat /\ DOMAIN q.shape = 1..n
  BY ShapeFacts
<1>3. WriteNames(q) = <<first>> \o FlattenSeq(a)
  <2>1. WriteNames(q) =
          <<first>> \o FlattenSeq([i \in DOMAIN q.shape |-> PropertyNames(q.shape[i])])
    BY <1>1, Zenon DEF WriteNames
  <2>2. QED
    BY <1>2, <2>1
<1>4. \A i \in 1..n : /\ PropertyNames(q.shape[i]) \in Seq(Tokens)
                      /\ FieldNames(PropertyNames(q.shape[i])) = ReadProperty(q.shape[i])
                      /\ ReadProperty(q.shape[i]) \in Seq(Labels)
  BY PropertyNamesRead
<1>5. /\ a \in Seq(Seq(Tokens)) /\ b \in Seq(Seq(Labels)) /\ Len(a) = n /\ Len(b) = n
      /\ \A i \in 1..n : b[i] = FieldNames(a[i])
  BY <1>2, <1>4
<1>6. first \in Tokens /\ first.field = "viewModel"
  BY NameTokens
<1> HIDE DEF n, a, first
<1>7. ASSUME NEW s \in Seq(Tokens), Starts(s, WritePODs(q))
      PROVE  ReadNames(s) = <<"viewModel">> \o FlattenSeq(b)
  <2>1. /\ KindAt(s) = q.kind /\ CountAt(s, 4) = n
        /\ \A i \in 1..n : TypeAt(s, 4 + i) = q.shape[i]
    BY <1>7, PropertiesReadBack DEF n
  <2>2. ReadNames(s) =
          <<"viewModel">> \o FlattenSeq([i \in 1..n |-> ReadProperty(TypeAt(s, 4 + i))])
    BY <1>1, <2>1, Zenon DEF ReadNames
  <2>3. [i \in 1..n |-> ReadProperty(TypeAt(s, 4 + i))] = b
    BY <2>1
  <2>4. QED
    BY <2>2, <2>3
<1> HIDE DEF b
<1>8. FlattenSeq(a) \in Seq(Tokens) /\ FlattenSeq(b) = FieldNames(FlattenSeq(a))
  BY <1>5, FlattenFields
<1>9. /\ <<first>> \o FlattenSeq(a) \in Seq(Tokens)
       /\ FieldNames(<<first>> \o FlattenSeq(a)) = <<"viewModel">> \o FlattenSeq(b)
  BY <1>8, <1>6, OneAndMore
<1>10. QED
  BY <1>3, <1>7, <1>9 DEF NamesReadBack

\* The names of the instances of a view model, after its own.
LEMMA InstanceNames ==
    ASSUME NEW q \in Queued, ~IsMarker(q), q.kind = "viewModelInstanceNamesListed"
    PROVE  NamesReadBack(q)
<1> DEFINE n == Len(q.shape)
           first == Field("viewModel", 0)
           y == Repeated("name", n)
<1>1. /\ q.kind \notin ErrorKinds /\ q.kind # "defaultViewModelReceived"
      /\ q.kind # "viewModelPropertyValueReceived" /\ q.kind # "viewModelListSizeReceived"
      /\ q.kind # "viewModelEnumsListed" /\ q.kind # "viewModelPropertiesListed"
      /\ q.kind \notin NameListKinds /\ q.kind \in ListKinds
  BY DEF ErrorKinds, ListKinds, NameListKinds
<1>2. WriteNames(q) = <<first>> \o y
  BY <1>1, Zenon DEF WriteNames
<1>3. n \in Nat
  BY <1>1, ShapeFacts
<1>4. first \in Tokens /\ first.field = "viewModel"
  BY NameTokens
<1>5. y \in Seq(Tokens) /\ FieldNames(y) = [i \in 1..n |-> "name"]
  BY <1>3, RepeatedNames
<1> HIDE DEF n, first, y
<1>6. /\ <<first>> \o y \in Seq(Tokens)
      /\ FieldNames(<<first>> \o y) = <<"viewModel">> \o [i \in 1..n |-> "name"]
  BY <1>4, <1>5, OneAndMore
<1>7. ASSUME NEW s \in Seq(Tokens), Starts(s, WritePODs(q))
      PROVE  ReadNames(s) = <<"viewModel">> \o [i \in 1..n |-> "name"]
  <2>1. KindAt(s) = q.kind /\ CountAt(s, 4) = n
    BY <1>1, <1>7, ListReadBack DEF n
  <2>2. QED
    BY <1>1, <2>1, Zenon DEF ReadNames
<1>8. QED
  BY <1>2, <1>6, <1>7 DEF NamesReadBack

\* The lists of names: as many as were counted.
LEMMA ListNames ==
    ASSUME NEW q \in Queued, ~IsMarker(q), q.kind \in NameListKinds
    PROVE  NamesReadBack(q)
<1> DEFINE n == Len(q.shape)
           y == Repeated("name", n)
<1>1. /\ q.kind \notin ErrorKinds /\ q.kind # "defaultViewModelReceived"
      /\ q.kind # "viewModelPropertyValueReceived" /\ q.kind # "viewModelListSizeReceived"
      /\ q.kind # "viewModelEnumsListed" /\ q.kind # "viewModelPropertiesListed"
      /\ q.kind # "viewModelInstanceNamesListed" /\ q.kind \in ListKinds
  BY DEF ErrorKinds, ListKinds, NameListKinds
<1>2. WriteNames(q) = y
  BY <1>1, Zenon DEF WriteNames
<1>3. n \in Nat
  BY <1>1, ShapeFacts
<1>4. y \in Seq(Tokens) /\ FieldNames(y) = [i \in 1..n |-> "name"]
  BY <1>3, RepeatedNames
<1> HIDE DEF n, y
<1>5. ASSUME NEW s \in Seq(Tokens), Starts(s, WritePODs(q))
      PROVE  ReadNames(s) = [i \in 1..n |-> "name"]
  <2>1. KindAt(s) = q.kind /\ CountAt(s, 4) = n
    BY <1>1, <1>5, ListReadBack DEF n
  <2>2. QED
    BY <1>1, <2>1, Zenon DEF ReadNames
<1>6. QED
  BY <1>2, <1>4, <1>5 DEF NamesReadBack

\* The other messages have no names.
LEMMA NoNames ==
    ASSUME NEW q \in Queued, ~IsMarker(q),
           q.kind \notin NamedKinds \cup ErrorKinds \cup NameListKinds
    PROVE  NamesReadBack(q)
<1>1. /\ q.kind \notin ErrorKinds /\ q.kind # "defaultViewModelReceived"
      /\ q.kind # "viewModelPropertyValueReceived" /\ q.kind # "viewModelListSizeReceived"
      /\ q.kind # "viewModelEnumsListed" /\ q.kind # "viewModelPropertiesListed"
      /\ q.kind # "viewModelInstanceNamesListed" /\ q.kind \notin NameListKinds
  BY DEF NamedKinds
<1>2. WriteNames(q) = <<>>
  BY <1>1, Zenon DEF WriteNames
<1>3. ASSUME NEW s \in Seq(Tokens), Starts(s, WritePODs(q))
      PROVE  ReadNames(s) = <<>>
  <2>1. KindAt(s) = q.kind
    BY <1>3, KindReadBack
  <2>2. QED
    BY <1>1, <2>1, Zenon DEF ReadNames
<1>4. QED
  BY <1>2, <1>3, EmptyNames DEF NamesReadBack

\* Whatever the message, the client extracts the names the server wrote.
LEMMA MessageNamesReadBack ==
    ASSUME NEW q \in Queued, ~IsMarker(q)
    PROVE  NamesReadBack(q)
<1>1. CASE q.kind \in NamedKinds
  BY <1>1, DefaultNames, ValueNames, SizeNames, EnumsNames, PropertiesNames,
     InstanceNames DEF NamedKinds
<1>2. CASE q.kind \notin NamedKinds
  BY <1>2, ErrorNames, ListNames, NoNames
<1>3. QED
  BY <1>1, <1>2

\* And none for a marker.
LEMMA MarkerNames ==
    ASSUME NEW s \in Seq(Tokens), Starts(s, Written(LoopBreak))
    PROVE  ReadNames(s) = <<>>
<1>1. KindAt(s) = "messageLoopBreak"
  BY MarkerReadBack DEF LoopBreak
<1>2. /\ KindAt(s) \notin ErrorKinds /\ KindAt(s) # "defaultViewModelReceived"
      /\ KindAt(s) # "viewModelPropertyValueReceived"
      /\ KindAt(s) # "viewModelListSizeReceived"
      /\ KindAt(s) # "viewModelEnumsListed" /\ KindAt(s) # "viewModelPropertiesListed"
      /\ KindAt(s) # "viewModelInstanceNamesListed" /\ KindAt(s) \notin NameListKinds
  BY <1>1 DEF ErrorKinds, ListKinds, NameListKinds
<1>3. QED
  BY <1>2, Zenon DEF ReadNames

\* The client's reading and the server's writing of a message agree for every
\* kind and shape: from whatever follows the message in the streams it takes the
\* fields of the message, no more and no fewer, in the order they were written.
THEOREM FormatsAgree ==
    \A q \in Queued : ~IsMarker(q) =>
        \A s \in Seq(Tokens) : Starts(s, WritePODs(q)) =>
            /\ ReadPODs(s) = FieldNames(WritePODs(q))
            /\ ReadNames(s) = FieldNames(WriteNames(q))
<1> SUFFICES ASSUME NEW q \in Queued, ~IsMarker(q), NEW s \in Seq(Tokens),
                    Starts(s, WritePODs(q))
             PROVE  /\ ReadPODs(s) = FieldNames(WritePODs(q))
                    /\ ReadNames(s) = FieldNames(WriteNames(q))
  OBVIOUS
<1>1. ReadBack(q, WritePODs(q))
  BY MessageReadBack DEF Written
<1>2. NamesReadBack(q)
  BY MessageNamesReadBack
<1>3. QED
  BY <1>1, <1>2 DEF ReadBack, NamesReadBack

(***************************************************************************)
(* Concatenations                                                          *)
(***************************************************************************)

\* The sequence s is cut into the pieces at the offsets c, the first piece
\* between c[0] and c[1].
CutAt(s, pieces, c) ==
    /\ c \in [0..Len(pieces) -> 0..Len(s)]
    /\ c[0] = 0
    /\ c[Len(pieces)] = Len(s)
    /\ \A i \in 1..Len(pieces) :
        /\ c[i] = c[i-1] + Len(pieces[i])
        /\ \A k \in 1..Len(pieces[i]) : s[c[i-1] + k] = pieces[i][k]

\* s is the concatenation of the pieces.
IsConcat(s, pieces) == \E c : CutAt(s, pieces, c)

\* Nothing is the concatenation of no pieces.
LEMMA ConcatOfNone == IsConcat(<<>>, <<>>)
<1>1. CutAt(<<>>, <<>>, [i \in 0..0 |-> 0])
  BY DEF CutAt
<1>2. QED
  BY <1>1 DEF IsConcat

\* A piece is appended.
LEMMA ConcatAppend ==
    ASSUME NEW T, NEW s \in Seq(T), NEW pieces \in Seq(Seq(T)), NEW w \in Seq(T),
           IsConcat(s, pieces)
    PROVE  IsConcat(s \o w, Append(pieces, w))
<1> DEFINE n == Len(pieces)
           u == s \o w
           more == Append(pieces, w)
<1>1. PICK c : CutAt(s, pieces, c)
  BY DEF IsConcat
<1> DEFINE d == [i \in 0..(n + 1) |-> IF i = n + 1 THEN Len(u) ELSE c[i]]
<1>2. /\ Len(u) = Len(s) + Len(w) /\ Len(s) \in Nat /\ Len(w) \in Nat
      /\ \A i \in 1..Len(s) : u[i] = s[i]
      /\ \A i \in 1..Len(w) : u[Len(s) + i] = w[i]
  BY ConcatFacts
<1>3. /\ n \in Nat /\ Len(more) = n + 1 /\ more[n + 1] = w
      /\ \A i \in 1..n : more[i] = pieces[i] /\ pieces[i] \in Seq(T) /\ Len(pieces[i]) \in Nat
  OBVIOUS
<1>4. /\ c \in [0..n -> 0..Len(s)] /\ c[0] = 0 /\ c[n] = Len(s)
      /\ \A i \in 1..n : c[i] = c[i-1] + Len(pieces[i])
      /\ \A i \in 1..n : \A k \in 1..Len(pieces[i]) : s[c[i-1] + k] = pieces[i][k]
  BY <1>1 DEF CutAt
<1> HIDE DEF u, more, n
<1>5. /\ \A i \in 0..n : d[i] = c[i] /\ c[i] \in 0..Len(s)
      /\ d[n + 1] = Len(u)
  BY <1>3, <1>4
<1>6. d \in [0..(n + 1) -> 0..Len(u)]
  BY <1>2, <1>3, <1>4
<1> HIDE DEF d
<1>7. ASSUME NEW i \in 1..(n + 1)
      PROVE  /\ d[i] = d[i-1] + Len(more[i])
             /\ \A k \in 1..Len(more[i]) : u[d[i-1] + k] = more[i][k]
  <2>1. CASE i = n + 1
    <3>1. i - 1 = n /\ n \in 0..n
      BY <1>3, <2>1
    <3>2. d[i] = Len(u) /\ d[i - 1] = Len(s) /\ more[i] = w
      BY <1>3, <1>4, <1>5, <2>1, <3>1
    <3>3. QED
      BY <1>2, <3>2
  <2>2. CASE i # n + 1
    <3>1. i \in 1..n /\ i \in 0..n /\ i - 1 \in 0..n
      BY <1>3, <2>2
    <3>2. d[i] = c[i] /\ d[i - 1] = c[i - 1] /\ more[i] = pieces[i]
      BY <1>3, <1>5, <3>1
    <3>3. c[i] = c[i-1] + Len(pieces[i]) /\ c[i] \in 0..Len(s) /\ c[i-1] \in 0..Len(s)
          /\ Len(pieces[i]) \in Nat
      BY <1>3, <1>4, <1>5, <3>1
    <3>4. ASSUME NEW k \in 1..Len(pieces[i]) PROVE u[c[i-1] + k] = pieces[i][k]
      <4>1. c[i-1] + k \in 1..Len(s)
        BY <1>2, <3>3
      <4>2. s[c[i-1] + k] = pieces[i][k]
        BY <1>4, <3>1
      <4>3. QED
        BY <1>2, <4>1, <4>2
    <3>5. QED
      BY <3>2, <3>3, <3>4
  <2>3. QED
    BY <2>1, <2>2
<1>8. d[0] = 0 /\ d[n + 1] = Len(u)
  BY <1>3, <1>4, <1>5
<1>9. CutAt(u, more, d)
  BY <1>3, <1>6, <1>7, <1>8 DEF CutAt
<1>10. QED
  BY <1>9 DEF IsConcat, u, more

\* It starts with its first piece.
LEMMA ConcatHead ==
    ASSUME NEW T, NEW s \in Seq(T), NEW pieces \in Seq(Seq(T)), pieces # <<>>,
           IsConcat(s, pieces)
    PROVE  Starts(s, pieces[1])
<1>1. PICK c : CutAt(s, pieces, c)
  BY DEF IsConcat
<1>2. 1 \in 1..Len(pieces) /\ 1 \in 0..Len(pieces) /\ pieces[1] \in Seq(T)
      /\ Len(pieces[1]) \in Nat /\ Len(s) \in Nat
  OBVIOUS
<1>3. c[0] = 0 /\ c[1] = c[1 - 1] + Len(pieces[1]) /\ c[1] \in 0..Len(s)
  BY <1>1, <1>2 DEF CutAt
<1>4. \A k \in 1..Len(pieces[1]) : s[c[1 - 1] + k] = pieces[1][k]
  BY <1>1, <1>2 DEF CutAt
<1>5. QED
  BY <1>2, <1>3, <1>4 DEF Starts

\* What is left of a sequence when k elements are taken from its head.
LEMMA SuffixFacts ==
    ASSUME NEW T, NEW s \in Seq(T), NEW k \in Nat, k <= Len(s)
    PROVE  /\ SubSeq(s, k + 1, Len(s)) \in Seq(T)
           /\ Len(SubSeq(s, k + 1, Len(s))) = Len(s) - k
           /\ \A i \in 1..(Len(s) - k) : SubSeq(s, k + 1, Len(s))[i] = s[k + i]
<1>1. \A i \in (k + 1)..Len(s) : s[i] \in T
  OBVIOUS
<1> DEFINE m == k + 1
           n == Len(s)
           u == SubSeq(s, m, n)
<1>2. m \in Int /\ n \in Int /\ \A i \in m..n : s[i] \in T
  BY <1>1
<1>3. (IF m <= n THEN n - m + 1 ELSE 0) = n - k
  OBVIOUS
<1>4. \A i \in 1..(n - k) : i \in 1..(n - m + 1) /\ m + i - 1 = k + i
  OBVIOUS
<1> HIDE DEF m, n
<1>5. /\ u \in Seq(T)
      /\ Len(u) = IF m <= n THEN n - m + 1 ELSE 0
      /\ \A i \in 1..(n - m + 1) : u[i] = s[m + i - 1]
  BY <1>2, SubSeqProperties
<1> HIDE DEF u
<1>6. u \in Seq(T) /\ Len(u) = n - k /\ \A i \in 1..(n - k) : u[i] = s[k + i]
  BY <1>3, <1>4, <1>5
<1>7. QED
  BY <1>6 DEF m, n, u

\* Without its first piece it is the concatenation of the others.
LEMMA ConcatTail ==
    ASSUME NEW T, NEW s \in Seq(T), NEW pieces \in Seq(Seq(T)), pieces # <<>>,
           IsConcat(s, pieces), NEW len, len = Len(pieces[1])
    PROVE  /\ SubSeq(s, len + 1, Len(s)) \in Seq(T)
           /\ IsConcat(SubSeq(s, len + 1, Len(s)), Tail(pieces))
<1> DEFINE n == Len(pieces)
           u == SubSeq(s, len + 1, Len(s))
           rest == Tail(pieces)
<1>1. PICK c : CutAt(s, pieces, c)
  BY DEF IsConcat
<1>2. /\ n \in Nat /\ n >= 1 /\ rest \in Seq(Seq(T)) /\ Len(rest) = n - 1
      /\ \A i \in 1..(n - 1) : rest[i] = pieces[i + 1]
      /\ \A i \in 1..n : pieces[i] \in Seq(T) /\ Len(pieces[i]) \in Nat
      /\ Len(s) \in Nat
  OBVIOUS
<1>3. Starts(s, pieces[1])
  BY ConcatHead
<1>4. len \in Nat /\ len <= Len(s)
  BY <1>2, <1>3 DEF Starts
<1>5. /\ u \in Seq(T) /\ Len(u) = Len(s) - len
      /\ \A k \in 1..(Len(s) - len) : u[k] = s[len + k]
  BY <1>4, SuffixFacts
<1>6. /\ c \in [0..n -> 0..Len(s)] /\ c[0] = 0 /\ c[n] = Len(s)
      /\ \A i \in 1..n : c[i] = c[i-1] + Len(pieces[i])
      /\ \A i \in 1..n : \A k \in 1..Len(pieces[i]) : s[c[i-1] + k] = pieces[i][k]
  BY <1>1 DEF CutAt
<1>7. c[1] = len
  <2>1. 1 \in 1..n /\ 1 - 1 = 0
    BY <1>2
  <2>2. c[1] = c[1 - 1] + Len(pieces[1])
    BY <1>6, <2>1
  <2>3. QED
    BY <1>4, <1>6, <2>1, <2>2
<1> HIDE DEF u, rest, n
\* Every later offset is behind the first piece.
<1>8. \A i \in 1..n : c[i] >= len
  <2> DEFINE P == {m \in Nat : m + 1 \in 1..n => c[m + 1] >= len}
  <2>1. 0 \in P
    BY <1>4, <1>7
  <2>2. ASSUME NEW m \in P PROVE m + 1 \in P
    <3> SUFFICES ASSUME (m + 1) + 1 \in 1..n PROVE c[(m + 1) + 1] >= len
      OBVIOUS
    <3>1. m + 1 \in 1..n /\ ((m + 1) + 1) - 1 = m + 1 /\ (m + 1) + 1 \in 0..n /\ m + 1 \in 0..n
      BY <1>2
    <3>2. c[m + 1] >= len
      BY <3>1
    <3>3. c[(m + 1) + 1] = c[((m + 1) + 1) - 1] + Len(pieces[(m + 1) + 1])
      BY <1>6
    <3>4. Len(pieces[(m + 1) + 1]) \in Nat
      BY <1>2
    <3>5. c[m + 1] \in Nat /\ c[(m + 1) + 1] \in Nat
      BY <1>2, <1>6, <3>1
    <3>6. QED
      BY <1>4, <3>1, <3>2, <3>3, <3>4, <3>5
  <2>3. P \in SUBSET Nat
    OBVIOUS
  <2> HIDE DEF P
  <2>4. P = Nat
    BY <2>1, <2>2, <2>3, SetInduction
  <2>5. ASSUME NEW i \in 1..n PROVE c[i] >= len
    <3>1. i - 1 \in Nat /\ (i - 1) + 1 = i
      BY <1>2
    <3>2. i - 1 \in P
      BY <2>4, <3>1
    <3>3. QED
      BY <3>1, <3>2 DEF P
  <2>6. QED
    BY <2>5
<1> DEFINE d == [i \in 0..(n - 1) |-> c[i + 1] - len]
<1>9. \A i \in 0..(n - 1) :
         /\ d[i] = c[i + 1] - len
         /\ i + 1 \in 1..n
         /\ c[i + 1] \in 0..Len(s) /\ c[i + 1] >= len
  BY <1>2, <1>6, <1>8
<1>10. d \in [0..(n - 1) -> 0..Len(u)]
  BY <1>2, <1>4, <1>5, <1>9
<1> HIDE DEF d
<1>11. d[0] = 0 /\ d[n - 1] = Len(u)
  <2>1. 0 \in 0..(n - 1) /\ n - 1 \in 0..(n - 1) /\ (n - 1) + 1 = n /\ 0 + 1 = 1
    BY <1>2
  <2>2. d[0] = c[1] - len /\ d[n - 1] = c[n] - len
    BY <1>9, <2>1
  <2>3. QED
    BY <1>4, <1>5, <1>6, <1>7, <2>2
<1>12. ASSUME NEW i \in 1..(n - 1)
       PROVE  /\ d[i] = d[i-1] + Len(rest[i])
              /\ \A k \in 1..Len(rest[i]) : u[d[i-1] + k] = rest[i][k]
  <2>1. i \in 0..(n - 1) /\ i - 1 \in 0..(n - 1) /\ (i - 1) + 1 = i /\ i + 1 \in 1..n
        /\ (i + 1) - 1 = i /\ i \in 1..n /\ i \in 0..n /\ i + 1 \in 0..n
    BY <1>2
  <2>2. rest[i] = pieces[i + 1] /\ Len(pieces[i + 1]) \in Nat
    BY <1>2, <2>1
  <2>3. d[i] = c[i + 1] - len /\ d[i - 1] = c[i] - len
    BY <1>9, <2>1
  <2>4. c[i + 1] = c[(i + 1) - 1] + Len(pieces[i + 1])
    BY <1>6, <2>1
  <2>5. c[i] \in 0..Len(s) /\ c[i + 1] \in 0..Len(s) /\ c[i] >= len /\ c[i + 1] >= len
    BY <1>6, <1>8, <2>1
  <2>6. ASSUME NEW k \in 1..Len(rest[i]) PROVE u[d[i-1] + k] = rest[i][k]
    <3>1. s[c[(i + 1) - 1] + k] = pieces[i + 1][k]
      BY <1>6, <2>1, <2>2
    <3> DEFINE a == c[i]
               L == Len(pieces[i + 1])
    <3>2. a \in Nat /\ a >= len /\ L \in Nat /\ a + L <= Len(s) /\ k \in 1..L
      BY <1>2, <2>1, <2>2, <2>4, <2>5
    <3>3. d[i-1] = a - len
      BY <2>3
    <3> HIDE DEF a, L
    <3>4. len \in Nat /\ Len(s) \in Nat
      BY <1>2, <1>4
    <3>5. k \in Nat /\ k >= 1 /\ k <= L
      BY <3>2
    <3>6. (a - len) + k \in 1..(Len(s) - len) /\ len + ((a - len) + k) = a + k
      BY <3>2, <3>4, <3>5
    <3>7. d[i-1] + k \in 1..(Len(s) - len) /\ len + (d[i-1] + k) = c[i] + k
      BY <3>3, <3>6 DEF a
    <3>8. u[d[i-1] + k] = s[len + (d[i-1] + k)]
      BY <1>5, <3>7
    <3>9. QED
      BY <2>1, <2>2, <3>1, <3>7, <3>8
  <2>7. d[i] = d[i-1] + Len(rest[i])
    <3> DEFINE a == c[i]
               L == Len(pieces[i + 1])
    <3>1. a \in Nat /\ L \in Nat /\ Len(rest[i]) = L
      BY <1>2, <2>1, <2>2, <2>5
    <3>2. d[i] = (a + L) - len /\ d[i-1] = a - len
      BY <2>1, <2>3, <2>4
    <3> HIDE DEF a, L
    <3>3. QED
      BY <1>4, <3>1, <3>2
  <2>8. QED
    BY <2>6, <2>7
<1>13. CutAt(u, rest, d)
  BY <1>2, <1>10, <1>11, <1>12 DEF CutAt
<1>14. QED
  BY <1>5, <1>13 DEF IsConcat, u, rest

\* It is empty only if there are no pieces, provided no piece is empty.
LEMMA ConcatEmpty ==
    ASSUME NEW T, NEW s \in Seq(T), NEW pieces \in Seq(Seq(T)), IsConcat(s, pieces),
           \A i \in 1..Len(pieces) : Len(pieces[i]) >= 1
    PROVE  (s = <<>>) <=> (pieces = <<>>)
<1>1. ASSUME pieces # <<>> PROVE s # <<>>
  <2>1. Starts(s, pieces[1])
    BY <1>1, ConcatHead
  <2>2. 1 \in 1..Len(pieces) /\ Len(pieces[1]) \in Nat
    BY <1>1
  <2>3. QED
    BY <2>1, <2>2 DEF Starts
<1>2. ASSUME pieces = <<>> PROVE s = <<>>
  <2>1. PICK c : CutAt(s, pieces, c)
    BY DEF IsConcat
  <2>2. Len(pieces) = 0
    BY <1>2
  <2>3. Len(s) = 0
    BY <2>1, <2>2 DEF CutAt
  <2>4. QED
    BY <2>3
<1>3. QED
  BY <1>1, <1>2

\* The pieces of either stream, one for each message or marker of a queue.
Fields(queue) == [i \in DOMAIN queue |-> Written(queue[i])]
Names(queue) == [i \in DOMAIN queue |-> NamesOf(queue[i])]

\* What a message or a marker is written as: some fields, any number of names.
LEMMA WrittenFacts ==
    ASSUME NEW q \in Queued
    PROVE  /\ Written(q) \in Seq(Tokens) /\ Len(Written(q)) \in Nat /\ Len(Written(q)) >= 1
           /\ NamesOf(q) \in Seq(Tokens)
<1>1. CASE IsMarker(q)
  <2>1. q = LoopBreak
    BY <1>1, MarkerReadBack
  <2>2. NamesOf(q) = <<>>
    BY <1>1 DEF NamesOf
  <2>3. QED
    BY <2>1, <2>2, MarkerReadBack
<1>2. CASE ~IsMarker(q)
  <2>1. ReadBack(q, Written(q))
    BY <1>2, MessageReadBack
  <2>2. NamesReadBack(q)
    BY <1>2, MessageNamesReadBack
  <2>3. Written(q) \in Seq(Tokens) /\ Len(Written(q)) >= 3
    BY <2>1 DEF ReadBack
  <2>4. NamesOf(q) \in Seq(Tokens)
    BY <1>2, <2>2 DEF NamesReadBack, NamesOf
  <2>5. QED
    BY <2>3, <2>4
<1>3. QED
  BY <1>1, <1>2

\* The pieces are sequences of fields and none of the fields' is empty.
LEMMA PiecesFacts ==
    ASSUME NEW queue \in Seq(Queued)
    PROVE  /\ Fields(queue) \in Seq(Seq(Tokens)) /\ Len(Fields(queue)) = Len(queue)
           /\ Names(queue) \in Seq(Seq(Tokens)) /\ Len(Names(queue)) = Len(queue)
           /\ \A i \in 1..Len(queue) : /\ Fields(queue)[i] = Written(queue[i])
                                       /\ Names(queue)[i] = NamesOf(queue[i])
           /\ \A i \in 1..Len(queue) : Len(Fields(queue)[i]) >= 1
<1>1. Len(queue) \in Nat /\ DOMAIN queue = 1..Len(queue) /\ \A i \in 1..Len(queue) : queue[i] \in Queued
  OBVIOUS
<1>2. \A i \in 1..Len(queue) :
         /\ Written(queue[i]) \in Seq(Tokens) /\ Len(Written(queue[i])) >= 1
         /\ NamesOf(queue[i]) \in Seq(Tokens)
  BY <1>1, WrittenFacts
<1>3. Fields(queue) = [i \in 1..Len(queue) |-> Written(queue[i])]
      /\ Names(queue) = [i \in 1..Len(queue) |-> NamesOf(queue[i])]
  BY <1>1 DEF Fields, Names
<1>4. Fields(queue) \in Seq(Seq(Tokens)) /\ Len(Fields(queue)) = Len(queue)
  BY <1>1, <1>2, <1>3
<1>5. Names(queue) \in Seq(Seq(Tokens)) /\ Len(Names(queue)) = Len(queue)
  BY <1>1, <1>2, <1>3
<1>6. QED
  BY <1>2, <1>3, <1>4, <1>5

\* One more in the queue is one more piece.
LEMMA PiecesAppend ==
    ASSUME NEW queue \in Seq(Queued), NEW q \in Queued
    PROVE  /\ Append(queue, q) \in Seq(Queued)
           /\ Fields(Append(queue, q)) = Append(Fields(queue), Written(q))
           /\ Names(Append(queue, q)) = Append(Names(queue), NamesOf(q))
<1> DEFINE more == Append(queue, q)
           n == Len(queue)
<1>1. /\ more \in Seq(Queued) /\ Len(more) = n + 1 /\ n \in Nat /\ more[n + 1] = q
      /\ \A i \in 1..n : more[i] = queue[i]
  OBVIOUS
<1> HIDE DEF more
<1>2. /\ Fields(more) \in Seq(Seq(Tokens)) /\ Len(Fields(more)) = n + 1
      /\ Names(more) \in Seq(Seq(Tokens)) /\ Len(Names(more)) = n + 1
      /\ \A i \in 1..(n + 1) : /\ Fields(more)[i] = Written(more[i])
                               /\ Names(more)[i] = NamesOf(more[i])
  BY <1>1, PiecesFacts
<1>3. /\ Fields(queue) \in Seq(Seq(Tokens)) /\ Len(Fields(queue)) = n
      /\ Names(queue) \in Seq(Seq(Tokens)) /\ Len(Names(queue)) = n
      /\ \A i \in 1..n : /\ Fields(queue)[i] = Written(queue[i])
                         /\ Names(queue)[i] = NamesOf(queue[i])
  BY PiecesFacts
<1>4. Written(q) \in Seq(Tokens) /\ NamesOf(q) \in Seq(Tokens)
  BY WrittenFacts
<1> HIDE DEF n
<1> DEFINE f == Append(Fields(queue), Written(q))
           g == Append(Names(queue), NamesOf(q))
<1>5. f \in Seq(Seq(Tokens)) /\ Len(f) = n + 1 /\ f[n + 1] = Written(q)
      /\ \A i \in 1..n : f[i] = Fields(queue)[i]
  BY <1>3, <1>4
<1>6. g \in Seq(Seq(Tokens)) /\ Len(g) = n + 1 /\ g[n + 1] = NamesOf(q)
      /\ \A i \in 1..n : g[i] = Names(queue)[i]
  BY <1>3, <1>4
<1> HIDE DEF f, g
<1>7. ASSUME NEW i \in 1..(n + 1) PROVE Fields(more)[i] = f[i] /\ Names(more)[i] = g[i]
  <2>1. Fields(more)[i] = Written(more[i]) /\ Names(more)[i] = NamesOf(more[i])
    BY <1>2
  <2>2. CASE i = n + 1
    BY <1>1, <1>5, <1>6, <2>1, <2>2
  <2>3. CASE i # n + 1
    <3>1. i \in 1..n
      BY <1>1, <2>3
    <3>2. QED
      BY <1>1, <1>3, <1>5, <1>6, <2>1, <3>1
  <2>4. QED
    BY <2>2, <2>3
<1>8. Fields(more) = f
  BY <1>2, <1>5, <1>7, SameSequence
<1>9. Names(more) = g
  BY <1>2, <1>6, <1>7, SameSequence
<1>10. QED
  BY <1>1, <1>8, <1>9 DEF f, g, more

\* The oldest of the queue is the first piece.
LEMMA PiecesTail ==
    ASSUME NEW queue \in Seq(Queued), queue # <<>>
    PROVE  /\ Tail(queue) \in Seq(Queued)
           /\ Fields(queue) # <<>> /\ Fields(queue)[1] = Written(queue[1])
           /\ Names(queue) # <<>> /\ Names(queue)[1] = NamesOf(queue[1])
           /\ Fields(Tail(queue)) = Tail(Fields(queue))
           /\ Names(Tail(queue)) = Tail(Names(queue))
<1> DEFINE rest == Tail(queue)
           n == Len(queue)
<1>1. /\ rest \in Seq(Queued) /\ Len(rest) = n - 1 /\ n \in Nat /\ n >= 1
      /\ \A i \in 1..(n - 1) : rest[i] = queue[i + 1]
  OBVIOUS
<1> HIDE DEF rest
<1>2. /\ Fields(rest) \in Seq(Seq(Tokens)) /\ Len(Fields(rest)) = n - 1
      /\ Names(rest) \in Seq(Seq(Tokens)) /\ Len(Names(rest)) = n - 1
      /\ \A i \in 1..(n - 1) : /\ Fields(rest)[i] = Written(rest[i])
                               /\ Names(rest)[i] = NamesOf(rest[i])
  BY <1>1, PiecesFacts
<1>3. /\ Fields(queue) \in Seq(Seq(Tokens)) /\ Len(Fields(queue)) = n
      /\ Names(queue) \in Seq(Seq(Tokens)) /\ Len(Names(queue)) = n
      /\ \A i \in 1..n : /\ Fields(queue)[i] = Written(queue[i])
                         /\ Names(queue)[i] = NamesOf(queue[i])
  BY PiecesFacts
<1> HIDE DEF n
<1>4. Fields(queue) # <<>> /\ Names(queue) # <<>> /\ 1 \in 1..n
  BY <1>1, <1>3
<1> DEFINE F == Fields(queue)
           G == Names(queue)
           f == Tail(F)
           g == Tail(G)
<1>5. F \in Seq(Seq(Tokens)) /\ Len(F) = n /\ F # <<>>
       /\ G \in Seq(Seq(Tokens)) /\ Len(G) = n /\ G # <<>>
  BY <1>3, <1>4
<1> HIDE DEF F, G
<1>6. f \in Seq(Seq(Tokens)) /\ Len(f) = n - 1 /\ \A i \in 1..(n - 1) : f[i] = F[i + 1]
  BY <1>1, <1>5
<1>7. g \in Seq(Seq(Tokens)) /\ Len(g) = n - 1 /\ \A i \in 1..(n - 1) : g[i] = G[i + 1]
  BY <1>1, <1>5
<1> HIDE DEF f, g
<1>8. ASSUME NEW i \in 1..(n - 1) PROVE Fields(rest)[i] = f[i] /\ Names(rest)[i] = g[i]
  <2>1. i + 1 \in 1..n
    BY <1>1
  <2>2. Fields(rest)[i] = Written(queue[i + 1]) /\ Names(rest)[i] = NamesOf(queue[i + 1])
    BY <1>1, <1>2
  <2>3. f[i] = Written(queue[i + 1]) /\ g[i] = NamesOf(queue[i + 1])
    BY <1>3, <1>6, <1>7, <2>1 DEF F, G
  <2>4. QED
    BY <2>2, <2>3
<1>9. Fields(rest) = f
  BY <1>2, <1>6, <1>8, SameSequence
<1>10. Names(rest) = g
  BY <1>2, <1>7, <1>8, SameSequence
<1>11. QED
  BY <1>1, <1>3, <1>4, <1>9, <1>10 DEF f, g, F, G, rest

\* The messages waiting in a queue are finitely many.
LEMMA UnreadFinite ==
    ASSUME NEW queue \in Seq(Queued)
    PROVE  IsFiniteSet(Unread(queue)) /\ Cardinality(Unread(queue)) \in Nat
<1>1. Len(queue) \in Nat /\ DOMAIN queue = 1..Len(queue)
  OBVIOUS
<1>2. IsFiniteSet(1..Len(queue))
  BY <1>1, FS_Interval
<1>3. Unread(queue) \in SUBSET (1..Len(queue))
  BY <1>1 DEF Unread
<1>4. QED
  BY <1>2, <1>3, FS_Subset, FS_CardinalityType

(***************************************************************************)
(* The streams                                                             *)
(***************************************************************************)

CallTypes ==
    [at : CallPoints, handle : Handles \cup {NullHandle},
     callee : Listeners \cup {NoListener}, owed : Nat]

\* Who holds the mutex and where the calls of processMessages are.
CallsTyped ==
    /\ messageMutex \in {"none", "server", "client"}
    /\ (messageMutex = "server") <=> (sending # <<>>)
    /\ (messageMutex = "client") <=> (calls # <<>> /\ Current.at = "pop")
    /\ \A i \in 1 .. Depth - 1 : calls[i].at \in {"global", "listener"}
    /\ calls \in Seq(CallTypes)

\* The server is between the fields and the names of the message it writes.
HalfWritten(q, earlier) ==
    /\ ~IsMarker(q)
    /\ sending = <<q>>
    /\ waiting = Append(earlier, q)
    /\ IsConcat(messageNames, Names(earlier))

\* What lies in the streams is what was written for what waits, and nothing else.
StreamsHoldWaiting ==
    /\ waiting \in Seq(Queued)
    /\ messageStream \in Seq(Tokens)
    /\ messageNames \in Seq(Tokens)
    /\ IsConcat(messageStream, Fields(waiting))
    /\ sending = <<>> => IsConcat(messageNames, Names(waiting))
    /\ sending # <<>> => \E q \in Queued : \E earlier \in Seq(Queued) : HalfWritten(q, earlier)
    /\ messageMutex = "client" => messageStream # <<>>

\* The types of the listener map, and a listener that has a registration has a
\* handle.
RegistryTyped ==
    /\ handleIdx \in 0 .. MaxHandles
    /\ alive \subseteq Listeners
    /\ owning \subseteq alive
    /\ handleOf \in [Listeners -> 0 .. handleIdx]
    /\ \A l \in owning : handleOf[l] # NullHandle
    /\ DOMAIN registry \subseteq 1 .. handleIdx
    /\ \A h \in DOMAIN registry : registry[h] \in Listeners

QueueInvariant == CallsTyped /\ StreamsHoldWaiting /\ RegistryTyped

\* Nothing waits at first.
LEMMA InitQueue == Init => QueueInvariant
<1> SUFFICES ASSUME Init PROVE QueueInvariant
  OBVIOUS
<1>1. CallsTyped
  BY DEF Init, CallsTyped, Depth, Current
<1>2. RegistryTyped
  BY MessageQueueAssumption DEF Init, RegistryTyped, NullHandle
<1>3. Fields(<<>>) = <<>> /\ Names(<<>>) = <<>>
  BY DEF Fields, Names
<1>4. StreamsHoldWaiting
  BY <1>3, ConcatOfNone DEF Init, StreamsHoldWaiting
<1>5. QED
  BY <1>1, <1>2, <1>4 DEF QueueInvariant

\* The client finds what was written for the oldest of what waits at the head
\* of either stream, and reads all of it and no more.
LEMMA HeadIsRead ==
    ASSUME StreamsHoldWaiting, sending = <<>>, waiting # <<>>, NEW q, q = waiting[1]
    PROVE  /\ q \in Queued
           /\ Starts(messageStream, Written(q)) /\ Starts(messageNames, NamesOf(q))
           /\ ReadPODs(messageStream) = FieldNames(Written(q))
           /\ ReadNames(messageStream) = FieldNames(NamesOf(q))
           /\ KindAt(messageStream) = LoopBreak.kind <=> IsMarker(q)
           /\ ~IsMarker(q) => messageStream[2].value \in Handles
<1>1. /\ waiting \in Seq(Queued) /\ messageStream \in Seq(Tokens) /\ messageNames \in Seq(Tokens)
      /\ IsConcat(messageStream, Fields(waiting))
      /\ IsConcat(messageNames, Names(waiting))
  BY DEF StreamsHoldWaiting
<1>2. q \in Queued
  BY <1>1
<1>3. /\ Fields(waiting) # <<>> /\ Fields(waiting)[1] = Written(q)
      /\ Names(waiting) # <<>> /\ Names(waiting)[1] = NamesOf(q)
  BY <1>1, PiecesTail
<1>4. Fields(waiting) \in Seq(Seq(Tokens)) /\ Names(waiting) \in Seq(Seq(Tokens))
  BY <1>1, PiecesFacts
<1>5. Starts(messageStream, Written(q))
  BY <1>1, <1>3, <1>4, ConcatHead
<1>6. Starts(messageNames, NamesOf(q))
  BY <1>1, <1>3, <1>4, ConcatHead
<1>7. CASE IsMarker(q)
  <2>1. q = LoopBreak
    BY <1>2, <1>7, MarkerReadBack
  <2>2. /\ KindAt(messageStream) = LoopBreak.kind
        /\ ReadPODs(messageStream) = FieldNames(Written(q))
    BY <1>1, <1>5, <2>1, MarkerReadBack
  <2>3. ReadNames(messageStream) = <<>>
    BY <1>1, <1>5, <2>1, MarkerNames
  <2>4. NamesOf(q) = <<>> /\ FieldNames(<<>>) = <<>>
    BY <1>7, EmptyNames DEF NamesOf
  <2>5. QED
    BY <1>2, <1>5, <1>6, <1>7, <2>2, <2>3, <2>4
<1>8. CASE ~IsMarker(q)
  <2>1. ReadBack(q, Written(q))
    BY <1>2, <1>8, MessageReadBack
  <2>2. NamesReadBack(q)
    BY <1>2, <1>8, MessageNamesReadBack
  <2>3. Written(q) = WritePODs(q) /\ NamesOf(q) = WriteNames(q)
    BY <1>8 DEF Written, NamesOf
  <2>4. ReadPODs(messageStream) = FieldNames(Written(q))
    BY <1>1, <1>5, <2>1 DEF ReadBack
  <2>5. ReadNames(messageStream) = FieldNames(NamesOf(q))
    BY <1>1, <1>5, <2>2, <2>3 DEF NamesReadBack
  <2>6. KindAt(messageStream) = q.kind
    BY <1>1, <1>2, <1>5, <1>8, <2>3, KindReadBack
  <2>7. q.kind # "messageLoopBreak" /\ LoopBreak.kind = "messageLoopBreak" /\ q.handle \in Handles
    BY <1>2, <1>8, QueuedFacts DEF LoopBreak
  <2>8. messageStream[2] = Field("handle", q.handle)
    BY <1>5, <2>1 DEF ReadBack, Starts
  <2>9. messageStream[2].value \in Handles
    BY <2>7, <2>8 DEF Field
  <2>10. QED
    BY <1>2, <1>5, <1>6, <1>8, <2>4, <2>5, <2>6, <2>7, <2>9
<1>9. QED
  BY <1>7, <1>8

\* The streams are empty only when nothing waits.
LEMMA EmptyStream ==
    ASSUME StreamsHoldWaiting
    PROVE  (messageStream = <<>>) <=> (waiting = <<>>)
<1>1. /\ waiting \in Seq(Queued) /\ messageStream \in Seq(Tokens)
      /\ IsConcat(messageStream, Fields(waiting))
  BY DEF StreamsHoldWaiting
<1>2. /\ Fields(waiting) \in Seq(Seq(Tokens)) /\ Len(Fields(waiting)) = Len(waiting)
      /\ \A i \in 1..Len(Fields(waiting)) : Len(Fields(waiting)[i]) >= 1
  BY <1>1, PiecesFacts
<1>3. (messageStream = <<>>) <=> (Fields(waiting) = <<>>)
  BY <1>1, <1>2, ConcatEmpty
<1>4. (Fields(waiting) = <<>>) <=> (waiting = <<>>)
  BY <1>1, <1>2
<1>5. QED
  BY <1>3, <1>4

\* When the oldest is taken from both streams, the rest is in step again.
LEMMA HeadIsTaken ==
    ASSUME StreamsHoldWaiting, sending = <<>>, waiting # <<>>,
           NEW s, s = SubSeq(messageStream, Len(ReadPODs(messageStream)) + 1, Len(messageStream)),
           NEW t, t = SubSeq(messageNames, Len(ReadNames(messageStream)) + 1, Len(messageNames))
    PROVE  /\ Tail(waiting) \in Seq(Queued)
           /\ s \in Seq(Tokens) /\ IsConcat(s, Fields(Tail(waiting)))
           /\ t \in Seq(Tokens) /\ IsConcat(t, Names(Tail(waiting)))
<1> DEFINE q == waiting[1]
           F == Fields(waiting)
           G == Names(waiting)
<1>1. /\ waiting \in Seq(Queued) /\ messageStream \in Seq(Tokens) /\ messageNames \in Seq(Tokens)
      /\ IsConcat(messageStream, F)
      /\ IsConcat(messageNames, G)
  BY DEF StreamsHoldWaiting
<1>2. /\ q \in Queued
      /\ ReadPODs(messageStream) = FieldNames(Written(q))
      /\ ReadNames(messageStream) = FieldNames(NamesOf(q))
  BY HeadIsRead
<1>3. Written(q) \in Seq(Tokens) /\ NamesOf(q) \in Seq(Tokens)
  BY <1>2, WrittenFacts
<1>4. Len(ReadPODs(messageStream)) = Len(Written(q))
  BY <1>2, <1>3, FieldNamesFacts
<1>5. Len(ReadNames(messageStream)) = Len(NamesOf(q))
  BY <1>2, <1>3, FieldNamesFacts
<1>6. /\ Tail(waiting) \in Seq(Queued)
      /\ F # <<>> /\ F[1] = Written(q) /\ Fields(Tail(waiting)) = Tail(F)
      /\ G # <<>> /\ G[1] = NamesOf(q) /\ Names(Tail(waiting)) = Tail(G)
  BY <1>1, PiecesTail
<1>7. F \in Seq(Seq(Tokens)) /\ G \in Seq(Seq(Tokens))
  BY <1>1, PiecesFacts
<1> HIDE DEF q, F, G
<1> DEFINE len == Len(ReadPODs(messageStream))
<1>8. len = Len(F[1])
  BY <1>4, <1>6
<1>9. s = SubSeq(messageStream, len + 1, Len(messageStream))
  OBVIOUS
<1> HIDE DEF len
<1>10. s \in Seq(Tokens) /\ IsConcat(s, Tail(F))
  BY <1>1, <1>6, <1>7, <1>8, <1>9, ConcatTail
<1> DEFINE wid == Len(ReadNames(messageStream))
<1>11. wid = Len(G[1])
  BY <1>5, <1>6
<1>12. t = SubSeq(messageNames, wid + 1, Len(messageNames))
  OBVIOUS
<1> HIDE DEF wid
<1>13. t \in Seq(Tokens) /\ IsConcat(t, Tail(G))
  BY <1>1, <1>6, <1>7, <1>11, <1>12, ConcatTail
<1>14. QED
  BY <1>6, <1>10, <1>13

\* Calls of processMessages inside one another: all but the innermost are in a
\* callback.
CallsNested(cs) ==
    /\ cs \in Seq(CallTypes)
    /\ \A i \in 1 .. Len(cs) - 1 : cs[i].at \in {"global", "listener"}

\* The innermost is in the streams.
Extracting(cs) == cs # <<>> /\ cs[Len(cs)].at = "pop"

\* A call is made, from a callback or from outside.
LEMMA NestedCall ==
    ASSUME NEW cs, CallsNested(cs), NEW c \in CallTypes,
           cs # <<>> => cs[Len(cs)].at \in {"global", "listener"}
    PROVE  CallsNested(Append(cs, c)) /\ (Extracting(Append(cs, c)) <=> c.at = "pop")
<1> DEFINE n == Len(cs)
           ds == Append(cs, c)
<1>1. cs \in Seq(CallTypes) /\ \A i \in 1 .. n - 1 : cs[i].at \in {"global", "listener"}
  BY DEF CallsNested
<1>2. /\ n \in Nat /\ ds \in Seq(CallTypes) /\ Len(ds) = n + 1 /\ ds[n + 1] = c
      /\ \A i \in 1..n : ds[i] = cs[i]
      /\ n # 0 => cs # <<>>
  BY <1>1
<1> HIDE DEF ds, n
<1>3. ASSUME NEW i \in 1..Len(ds) - 1 PROVE ds[i].at \in {"global", "listener"}
  <2>1. i \in 1..n /\ ds[i] = cs[i]
    BY <1>2
  <2>2. CASE i = n
    BY <1>2, <2>1, <2>2 DEF n
  <2>3. CASE i # n
    <3>1. i \in 1..n - 1
      BY <1>2, <2>1, <2>3
    <3>2. QED
      BY <1>1, <2>1, <3>1
  <2>4. QED
    BY <2>2, <2>3
<1>4. ds # <<>>
  BY <1>2
<1>5. CallsNested(ds) /\ (Extracting(ds) <=> c.at = "pop")
  BY <1>2, <1>3, <1>4 DEF CallsNested, Extracting
<1>6. QED
  BY <1>5 DEF ds

\* A sequence without its last element.
LEMMA FrontFacts ==
    ASSUME NEW T, NEW s \in Seq(T), NEW k \in Nat, k <= Len(s)
    PROVE  /\ SubSeq(s, 1, k) \in Seq(T) /\ Len(SubSeq(s, 1, k)) = k
           /\ \A i \in 1..k : SubSeq(s, 1, k)[i] = s[i]
<1> DEFINE m == 1
           u == SubSeq(s, m, k)
<1>1. m \in Int /\ k \in Int /\ \A i \in m..k : s[i] \in T
  OBVIOUS
<1>2. (IF m <= k THEN k - m + 1 ELSE 0) = k
  OBVIOUS
<1>3. \A i \in 1..k : i \in 1..(k - m + 1) /\ m + i - 1 = i
  OBVIOUS
<1> HIDE DEF m
<1>4. /\ u \in Seq(T)
      /\ Len(u) = IF m <= k THEN k - m + 1 ELSE 0
      /\ \A i \in 1..(k - m + 1) : u[i] = s[m + i - 1]
  BY <1>1, SubSeqProperties
<1> HIDE DEF u
<1>5. u \in Seq(T) /\ Len(u) = k /\ \A i \in 1..k : u[i] = s[i]
  BY <1>2, <1>3, <1>4
<1>6. QED
  BY <1>5 DEF m, u

\* The innermost call returns into the callback it was made from.
LEMMA NestedReturn ==
    ASSUME NEW cs, CallsNested(cs), cs # <<>>
    PROVE  /\ CallsNested(SubSeq(cs, 1, Len(cs) - 1))
           /\ ~Extracting(SubSeq(cs, 1, Len(cs) - 1))
           /\ Len(SubSeq(cs, 1, Len(cs) - 1)) = Len(cs) - 1
           /\ \A i \in 1..Len(cs) - 1 : SubSeq(cs, 1, Len(cs) - 1)[i] = cs[i]
<1> DEFINE n == Len(cs)
           ds == SubSeq(cs, 1, n - 1)
<1>1. cs \in Seq(CallTypes) /\ \A i \in 1 .. n - 1 : cs[i].at \in {"global", "listener"}
  BY DEF CallsNested
<1>2. n \in Nat /\ n >= 1
  BY <1>1
<1>3. /\ ds \in Seq(CallTypes) /\ Len(ds) = n - 1
      /\ \A i \in 1..n - 1 : ds[i] = cs[i]
  BY <1>1, <1>2, n - 1 \in Nat, n - 1 <= n, FrontFacts
<1> HIDE DEF ds, n
<1>4. \A i \in 1..n - 1 : ds[i].at \in {"global", "listener"}
  BY <1>1, <1>3
<1>5. \A i \in 1..Len(ds) - 1 : i \in 1..n - 1
  BY <1>2, <1>3
<1>6. CallsNested(ds)
  BY <1>3, <1>4, <1>5 DEF CallsNested
<1>7. ds # <<>> => Len(ds) \in 1..n - 1
  BY <1>2, <1>3
<1>8. ~Extracting(ds)
  BY <1>4, <1>7 DEF Extracting
<1>9. QED
  BY <1>3, <1>6, <1>8 DEF ds, n

\* The innermost call goes on.
LEMMA NestedStep ==
    ASSUME NEW cs, CallsNested(cs), cs # <<>>, NEW c \in CallTypes
    PROVE  /\ CallsNested([cs EXCEPT ![Len(cs)] = c])
           /\ (Extracting([cs EXCEPT ![Len(cs)] = c]) <=> c.at = "pop")
           /\ Len([cs EXCEPT ![Len(cs)] = c]) = Len(cs)
           /\ [cs EXCEPT ![Len(cs)] = c][Len(cs)] = c
           /\ \A i \in 1..Len(cs) - 1 : [cs EXCEPT ![Len(cs)] = c][i] = cs[i]
<1> DEFINE n == Len(cs)
           ds == [cs EXCEPT ![n] = c]
<1>1. cs \in Seq(CallTypes) /\ \A i \in 1 .. n - 1 : cs[i].at \in {"global", "listener"}
  BY DEF CallsNested
<1>2. n \in Nat /\ n >= 1
  BY <1>1
<1>3. /\ ds \in Seq(CallTypes) /\ Len(ds) = n /\ ds[n] = c
      /\ \A i \in 1..n - 1 : ds[i] = cs[i]
  BY <1>1, <1>2
<1> HIDE DEF ds, n
<1>4. ds # <<>>
  BY <1>2, <1>3
<1>5. CallsNested(ds)
  BY <1>1, <1>3 DEF CallsNested
<1>6. Extracting(ds) <=> c.at = "pop"
  BY <1>3, <1>4 DEF Extracting
<1>7. QED
  BY <1>3, <1>5, <1>6 DEF ds, n

\* A call that is paid for a message is where it was.
LEMMA PaidCall ==
    ASSUME NEW c \in CallTypes
    PROVE  /\ Paid(c) \in CallTypes
           /\ Paid(c).at = c.at /\ Paid(c).handle = c.handle /\ Paid(c).callee = c.callee
           /\ Paid(c).owed = IF c.owed = 0 THEN 0 ELSE c.owed - 1
<1>1. c.owed \in Nat
  BY DEF CallTypes
<1> DEFINE o == IF c.owed = 0 THEN 0 ELSE c.owed - 1
<1>2. o \in Nat
  BY <1>1
<1>3. Paid(c) = [c EXCEPT !.owed = o]
  BY DEF Paid
<1> HIDE DEF o
<1>4. Paid(c) \in CallTypes
      /\ Paid(c).at = c.at /\ Paid(c).handle = c.handle /\ Paid(c).callee = c.callee
      /\ Paid(c).owed = o
  BY <1>2, <1>3 DEF CallTypes
<1>5. QED
  BY <1>4 DEF o

\* So all calls are where they were.
LEMMA NestedPaid ==
    ASSUME NEW cs, CallsNested(cs)
    PROVE  /\ CallsNested([i \in DOMAIN cs |-> Paid(cs[i])])
           /\ Len([i \in DOMAIN cs |-> Paid(cs[i])]) = Len(cs)
           /\ \A i \in 1..Len(cs) : [k \in DOMAIN cs |-> Paid(cs[k])][i] = Paid(cs[i])
<1> DEFINE n == Len(cs)
           ds == [i \in DOMAIN cs |-> Paid(cs[i])]
<1>1. cs \in Seq(CallTypes) /\ \A i \in 1 .. n - 1 : cs[i].at \in {"global", "listener"}
  BY DEF CallsNested
<1>2. n \in Nat /\ DOMAIN cs = 1..n /\ \A i \in 1..n : cs[i] \in CallTypes
  BY <1>1
<1>3. \A i \in 1..n : Paid(cs[i]) \in CallTypes /\ Paid(cs[i]).at = cs[i].at
  BY <1>2, PaidCall
<1>4. ds = [i \in 1..n |-> Paid(cs[i])]
  BY <1>2
<1>5. ds \in Seq(CallTypes) /\ Len(ds) = n /\ \A i \in 1..n : ds[i] = Paid(cs[i])
  BY <1>2, <1>3, <1>4
<1> HIDE DEF ds, n
<1>6. \A i \in 1..n - 1 : ds[i].at = cs[i].at
  BY <1>2, <1>3, <1>5
<1>7. CallsNested(ds)
  BY <1>1, <1>5, <1>6 DEF CallsNested
<1>8. QED
  BY <1>5, <1>7 DEF ds, n

\* What the lookup in the listener map makes of a call.
LEMMA ListenerCalled ==
    ASSUME RegistryTyped, NEW c \in CallTypes
    PROVE  /\ CallListener(c) \in CallTypes
           /\ CallListener(c).at \in {"listener", "lock"}
           /\ CallListener(c).handle = c.handle /\ CallListener(c).owed = c.owed
           /\ CallListener(c).at = "listener" =>
                 c.handle \in DOMAIN registry /\ CallListener(c).callee = registry[c.handle]
<1>1. CASE c.handle \in DOMAIN registry
  <2> DEFINE l == registry[c.handle]
  <2>1. l \in Listeners \cup {NoListener}
    BY <1>1 DEF RegistryTyped
  <2>2. CallListener(c) = [c EXCEPT !.at = "listener", !.callee = l]
    BY <1>1 DEF CallListener
  <2> HIDE DEF l
  <2>3. "listener" \in CallPoints
    BY DEF CallPoints
  <2>4. QED
    BY <1>1, <2>1, <2>2, <2>3 DEF CallTypes, l
<1>2. CASE c.handle \notin DOMAIN registry
  <2>1. CallListener(c) = [c EXCEPT !.at = "lock"]
    BY <1>2 DEF CallListener
  <2>2. "lock" \in CallPoints
    BY DEF CallPoints
  <2>3. QED
    BY <2>1, <2>2 DEF CallTypes
<1>3. QED
  BY <1>1, <1>2

\* The invariant on the calls in terms of what is known of nested calls.
LEMMA CallsRestated ==
    CallsTyped <=>
        /\ messageMutex \in {"none", "server", "client"}
        /\ (messageMutex = "server") <=> (sending # <<>>)
        /\ (messageMutex = "client") <=> Extracting(calls)
        /\ CallsNested(calls)
  BY DEF CallsTyped, CallsNested, Extracting, Depth, Current

\* The server appends the fields of a message.
LEMMA ServerWritesKeeps ==
    ASSUME QueueInvariant, ServerWrites
    PROVE  QueueInvariant'
<1>1. CallsTyped /\ StreamsHoldWaiting /\ RegistryTyped
  BY DEF QueueInvariant
<1>2. PICK m \in Messages, h \in 1 .. handleIdx :
         LET message == [kind |-> m.kind, handle |-> h, shape |-> m.shape]
         IN  /\ sending' = <<message>>
             /\ waiting' = Append(waiting, message)
             /\ messageStream' = messageStream \o WritePODs(message)
  BY DEF ServerWrites
<1>3. /\ messageMutex = "none" /\ messageMutex' = "server"
      /\ UNCHANGED <<messageNames, calls, listenerVars>>
  BY DEF ServerWrites
<1> DEFINE q == [kind |-> m.kind, handle |-> h, shape |-> m.shape]
<1>4. sending' = <<q>> /\ waiting' = Append(waiting, q) /\ messageStream' = messageStream \o WritePODs(q)
  BY <1>2
<1>5. h \in Handles
  BY <1>1, MessageQueueAssumption DEF RegistryTyped, Handles
<1>6. q \in Queued
  BY <1>5 DEF Queued
<1>7. ~IsMarker(q)
  <2>1. HasLayout(m) /\ q.kind = m.kind
    BY MessageQueueAssumption
  <2>2. QED
    BY <2>1 DEF HasLayout, IsMarker
<1> HIDE DEF q
<1>8. sending = <<>>
  BY <1>1, <1>3 DEF CallsTyped
<1>9. CallsTyped'
  BY <1>1, <1>3, <1>4 DEF CallsTyped, Depth, Current
<1>10. RegistryTyped'
  BY <1>1, <1>3 DEF RegistryTyped, listenerVars
<1>11. /\ waiting \in Seq(Queued) /\ messageStream \in Seq(Tokens) /\ messageNames \in Seq(Tokens)
       /\ IsConcat(messageStream, Fields(waiting)) /\ IsConcat(messageNames, Names(waiting))
  BY <1>1, <1>8 DEF StreamsHoldWaiting
<1>12. Written(q) = WritePODs(q) /\ Written(q) \in Seq(Tokens)
  BY <1>6, <1>7, WrittenFacts DEF Written
<1>13. /\ Append(waiting, q) \in Seq(Queued)
       /\ Fields(Append(waiting, q)) = Append(Fields(waiting), Written(q))
  BY <1>6, <1>11, PiecesAppend
<1>14. Fields(waiting) \in Seq(Seq(Tokens))
  BY <1>11, PiecesFacts
<1> DEFINE w == Written(q)
           F == Fields(waiting)
<1>15. w \in Seq(Tokens) /\ F \in Seq(Seq(Tokens)) /\ IsConcat(messageStream, F)
       /\ messageStream \in Seq(Tokens)
  BY <1>11, <1>12, <1>14
<1> HIDE DEF w, F
<1>16. IsConcat(messageStream \o w, Append(F, w))
  BY <1>15, ConcatAppend
<1>17. messageStream \o w \in Seq(Tokens)
  BY <1>15
<1>18. messageStream' \in Seq(Tokens) /\ IsConcat(messageStream', Fields(waiting'))
  BY <1>4, <1>12, <1>13, <1>16, <1>17 DEF w, F
<1>19. PICK earlier : earlier = waiting
  OBVIOUS
<1>20. HalfWritten(q, earlier)'
  BY <1>3, <1>4, <1>7, <1>11, <1>19 DEF HalfWritten, IsMarker
<1>21. StreamsHoldWaiting'
  BY <1>3, <1>4, <1>6, <1>11, <1>13, <1>18, <1>20, <1>19 DEF StreamsHoldWaiting
<1>22. QED
  BY <1>9, <1>10, <1>21 DEF QueueInvariant

\* The server appends its names.
LEMMA ServerFinishesKeeps ==
    ASSUME QueueInvariant, ServerFinishes
    PROVE  QueueInvariant'
<1>1. CallsTyped /\ StreamsHoldWaiting /\ RegistryTyped
  BY DEF QueueInvariant
<1>2. /\ sending # <<>> /\ messageNames' = messageNames \o WriteNames(sending[1])
      /\ sending' = <<>> /\ messageMutex' = "none"
      /\ UNCHANGED <<messageStream, waiting, calls, listenerVars>>
  BY DEF ServerFinishes
<1>3. PICK q \in Queued, earlier \in Seq(Queued) : HalfWritten(q, earlier)
  BY <1>1, <1>2 DEF StreamsHoldWaiting
<1>4. /\ ~IsMarker(q) /\ sending[1] = q /\ waiting = Append(earlier, q)
      /\ IsConcat(messageNames, Names(earlier))
  BY <1>3 DEF HalfWritten
<1>5. messageNames' = messageNames \o NamesOf(q)
  BY <1>2, <1>4 DEF NamesOf
<1>6. CallsTyped'
  BY <1>1, <1>2 DEF CallsTyped, Depth, Current
<1>7. RegistryTyped'
  BY <1>1, <1>2 DEF RegistryTyped, listenerVars
<1> DEFINE w == NamesOf(q)
           G == Names(earlier)
<1>8. w \in Seq(Tokens) /\ G \in Seq(Seq(Tokens)) /\ IsConcat(messageNames, G)
      /\ messageNames \in Seq(Tokens)
  BY <1>1, <1>4, WrittenFacts, PiecesFacts DEF StreamsHoldWaiting
<1>9. Names(waiting) = Append(G, w)
  BY <1>4, PiecesAppend
<1> HIDE DEF w, G
<1>10. IsConcat(messageNames \o w, Append(G, w))
  BY <1>8, ConcatAppend
<1>11. messageNames \o w \in Seq(Tokens)
  BY <1>8
<1>12. messageNames' \in Seq(Tokens) /\ IsConcat(messageNames', Names(waiting'))
  BY <1>2, <1>5, <1>9, <1>10, <1>11 DEF w
<1>13. StreamsHoldWaiting'
  BY <1>1, <1>2, <1>12 DEF StreamsHoldWaiting
<1>14. QED
  BY <1>6, <1>7, <1>13 DEF QueueInvariant

\* A call of processMessages appends its marker.
LEMMA ProcessMessagesKeeps ==
    ASSUME QueueInvariant, ProcessMessages
    PROVE  QueueInvariant'
<1>1. CallsTyped /\ StreamsHoldWaiting /\ RegistryTyped
  BY DEF QueueInvariant
<1>2. /\ InClientCode /\ messageMutex = "none" /\ messageMutex' = "client"
      /\ messageStream' = Append(messageStream, Field("message", LoopBreak.kind))
      /\ waiting' = Append(waiting, LoopBreak)
      /\ calls' = Append(calls, NewCall)
      /\ UNCHANGED <<messageNames, sending, listenerVars>>
  BY DEF ProcessMessages
<1>3. sending = <<>>
  BY <1>1, <1>2 DEF CallsTyped
<1>4. /\ waiting \in Seq(Queued) /\ messageStream \in Seq(Tokens) /\ messageNames \in Seq(Tokens)
      /\ IsConcat(messageStream, Fields(waiting)) /\ IsConcat(messageNames, Names(waiting))
  BY <1>1, <1>3 DEF StreamsHoldWaiting
<1>5. NewCall \in CallTypes /\ NewCall.at = "pop"
  <2>1. Cardinality(Unread(waiting)) \in Nat
    BY <1>4, UnreadFinite
  <2>2. "pop" \in CallPoints
    BY DEF CallPoints
  <2>3. QED
    BY <2>1, <2>2 DEF NewCall, CallTypes
<1>6. calls # <<>> => calls[Len(calls)].at \in {"global", "listener"}
  BY <1>2 DEF InClientCode, Current, Depth
<1>7. CallsNested(Append(calls, NewCall)) /\ Extracting(Append(calls, NewCall))
  <2>1. CallsNested(calls)
    BY <1>1, CallsRestated
  <2> DEFINE c == NewCall
  <2>2. c \in CallTypes /\ c.at = "pop"
    BY <1>5
  <2> HIDE DEF c
  <2>3. CallsNested(Append(calls, c)) /\ (Extracting(Append(calls, c)) <=> c.at = "pop")
    BY <1>6, <2>1, <2>2, NestedCall
  <2>4. QED
    BY <2>2, <2>3 DEF c
<1>8. CallsTyped'
  <2>1. CallsNested(calls') /\ Extracting(calls')
    BY <1>2, <1>7
  <2>2. CallsNested(calls)' /\ Extracting(calls)'
    BY <2>1 DEF CallsNested, Extracting
  <2>3. QED
    BY <1>2, <1>3, <2>2 DEF CallsTyped, CallsNested, Extracting, Depth, Current
<1>9. RegistryTyped'
  BY <1>1, <1>2 DEF RegistryTyped, listenerVars
<1> DEFINE w == Written(LoopBreak)
           v == NamesOf(LoopBreak)
           F == Fields(waiting)
           G == Names(waiting)
<1>10. LoopBreak \in Queued /\ w = <<Field("message", LoopBreak.kind)>> /\ v = <<>>
       /\ w \in Seq(Tokens)
  BY MarkerReadBack DEF NamesOf
<1>11. /\ Append(waiting, LoopBreak) \in Seq(Queued)
       /\ Fields(Append(waiting, LoopBreak)) = Append(F, w)
       /\ Names(Append(waiting, LoopBreak)) = Append(G, v)
  BY <1>4, <1>10, PiecesAppend
<1>12. F \in Seq(Seq(Tokens)) /\ G \in Seq(Seq(Tokens))
  BY <1>4, PiecesFacts
<1>13. IsConcat(messageStream, F) /\ IsConcat(messageNames, G)
  BY <1>4
<1>14. v \in Seq(Tokens)
  BY <1>10
<1> HIDE DEF w, v, F, G
<1>15. messageStream \o w \in Seq(Tokens)
  BY <1>4, <1>10
<1>16. IsConcat(messageStream \o w, Append(F, w))
  BY <1>4, <1>10, <1>12, <1>13, ConcatAppend
<1>17. IsConcat(messageNames \o v, Append(G, v))
  BY <1>4, <1>12, <1>13, <1>14, ConcatAppend
<1>18. messageNames \o v = messageNames
  BY <1>4, <1>10
<1>19. messageStream' = messageStream \o w
  <2>1. w[1] = Field("message", LoopBreak.kind) /\ Len(w) = 1 /\ w[1] \in Tokens
    BY <1>10
  <2>2. messageStream' = Append(messageStream, w[1])
    BY <1>2, <2>1
  <2>3. Append(messageStream, w[1]) = messageStream \o w
    BY <1>4, <1>10, <2>1
  <2>4. QED
    BY <2>2, <2>3
<1>20. /\ messageStream' \in Seq(Tokens) /\ IsConcat(messageStream', Fields(waiting'))
       /\ IsConcat(messageNames', Names(waiting'))
  BY <1>2, <1>11, <1>16, <1>17, <1>18, <1>19, <1>15
<1>21. messageStream' # <<>>
  BY <1>2, <1>4
<1>22. StreamsHoldWaiting'
  BY <1>2, <1>3, <1>4, <1>11, <1>20, <1>21 DEF StreamsHoldWaiting
<1>23. QED
  BY <1>8, <1>9, <1>22 DEF QueueInvariant

\* What the client takes out of the streams: the oldest of what waits.
LEMMA PopTakesHead ==
    ASSUME QueueInvariant, Pop
    PROVE  /\ sending = <<>> /\ waiting # <<>>
           /\ waiting[1] \in Queued
           /\ IsMarker(waiting[1]) => Return
           /\ ~IsMarker(waiting[1]) =>
                \E c \in CallTypes :
                    /\ calls' = [[i \in DOMAIN calls |-> Paid(calls[i])] EXCEPT ![Depth] = c]
                    /\ c.at \in {"global", "listener", "lock"}
                    /\ c.owed = Paid(calls[Depth]).owed
                    /\ c.at = "listener" => /\ c.handle \in DOMAIN registry
                                            /\ c.callee = registry[c.handle]
<1>1. CallsTyped /\ StreamsHoldWaiting /\ RegistryTyped
  BY DEF QueueInvariant
<1>2. calls # <<>> /\ Current.at = "pop"
  BY DEF Pop
<1>3. messageMutex = "client" /\ sending = <<>> /\ messageStream # <<>>
  BY <1>1, <1>2 DEF CallsTyped, StreamsHoldWaiting
<1>4. waiting # <<>>
  BY <1>1, <1>3, EmptyStream
<1> DEFINE q == waiting[1]
<1>5. /\ q \in Queued
      /\ KindAt(messageStream) = LoopBreak.kind <=> IsMarker(q)
      /\ ~IsMarker(q) => messageStream[2].value \in Handles
  BY <1>1, <1>3, <1>4, HeadIsRead
<1> HIDE DEF q
<1>6. IsMarker(q) => Return
  BY <1>5 DEF Pop
<1>7. ASSUME ~IsMarker(q)
      PROVE  \E c \in CallTypes :
                    /\ calls' = [[i \in DOMAIN calls |-> Paid(calls[i])] EXCEPT ![Depth] = c]
                    /\ c.at \in {"global", "listener", "lock"}
                    /\ c.owed = Paid(calls[Depth]).owed
                    /\ c.at = "listener" => /\ c.handle \in DOMAIN registry
                                            /\ c.callee = registry[c.handle]
  <2> DEFINE read == [i \in DOMAIN calls |-> Paid(calls[i])]
             h == messageStream[2].value
             top == Paid(calls[Depth])
             call == [top EXCEPT !.handle = h]
             global == [call EXCEPT !.at = "global"]
             next == IF GlobalListener THEN global ELSE CallListener(call)
  <2>1. Depth \in DOMAIN calls /\ calls[Depth] \in CallTypes
    BY <1>1, <1>2 DEF CallsTyped, Depth
  <2>2. read[Depth] = top
    BY <2>1
  <2>3. calls' = [read EXCEPT ![Depth] = next]
    BY <1>5, <1>7, <2>2 DEF Pop
  <2>4. top \in CallTypes
    BY <2>1, PaidCall
  <2>5. h \in Handles
    BY <1>5, <1>7
  <2> HIDE DEF top, h
  <2>6. call \in CallTypes /\ call.owed = top.owed
    BY <2>4, <2>5 DEF CallTypes
  <2> HIDE DEF call
  <2>7. "global" \in CallPoints
    BY DEF CallPoints
  <2>8. global \in CallTypes /\ global.at = "global" /\ global.owed = call.owed
    BY <2>6, <2>7 DEF CallTypes
  <2> HIDE DEF global
  <2>9. /\ CallListener(call) \in CallTypes
        /\ CallListener(call).at \in {"listener", "lock"}
        /\ CallListener(call).handle = call.handle /\ CallListener(call).owed = call.owed
        /\ CallListener(call).at = "listener" =>
              call.handle \in DOMAIN registry /\ CallListener(call).callee = registry[call.handle]
    BY <1>1, <2>6, ListenerCalled
  <2>10. /\ next \in CallTypes /\ next.at \in {"global", "listener", "lock"}
         /\ next.owed = top.owed
         /\ next.at = "listener" => /\ next.handle \in DOMAIN registry
                                    /\ next.callee = registry[next.handle]
    <3>1. CASE GlobalListener
      <4>1. next = global
        BY <3>1
      <4>2. QED
        BY <2>6, <2>8, <4>1
    <3>2. CASE ~GlobalListener
      <4>1. next = CallListener(call)
        BY <3>2
      <4>2. QED
        BY <2>6, <2>9, <4>1
    <3>3. QED
      BY <3>1, <3>2
  <2> HIDE DEF next, read
  <2>11. /\ calls' = [read EXCEPT ![Depth] = next]
         /\ next.owed = Paid(calls[Depth]).owed
    BY <2>3, <2>10 DEF top
  <2>12. QED
    BY <2>10, <2>11 DEF read
<1>8. QED
  BY <1>3, <1>4, <1>5, <1>6, <1>7 DEF q

\* The oldest message or marker is taken out of both streams.
LEMMA PopKeeps ==
    ASSUME QueueInvariant, Pop
    PROVE  QueueInvariant'
<1>1. CallsTyped /\ StreamsHoldWaiting /\ RegistryTyped
  BY DEF QueueInvariant
<1>2. /\ messageMutex' = "none" /\ waiting' = Tail(waiting) /\ sending' = sending
      /\ messageStream' = SubSeq(messageStream, Len(ReadPODs(messageStream)) + 1, Len(messageStream))
      /\ messageNames' = SubSeq(messageNames, Len(ReadNames(messageStream)) + 1, Len(messageNames))
      /\ UNCHANGED listenerVars
      /\ calls # <<>>
  BY DEF Pop
<1>3. sending = <<>> /\ waiting # <<>>
  BY PopTakesHead
<1>4. CallsNested(calls)
  BY <1>1, CallsRestated
<1>5. CallsNested(calls') /\ ~Extracting(calls')
  <2>1. CASE IsMarker(waiting[1])
    <3>1. calls' = SubSeq(calls, 1, Len(calls) - 1)
      BY <2>1, PopTakesHead DEF Return, Depth
    <3>2. QED
      BY <1>2, <1>4, <3>1, NestedReturn
  <2>2. CASE ~IsMarker(waiting[1])
    <3> DEFINE read == [i \in DOMAIN calls |-> Paid(calls[i])]
    <3>1. PICK c \in CallTypes :
            /\ calls' = [read EXCEPT ![Depth] = c]
            /\ c.at \in {"global", "listener", "lock"}
      BY <2>2, PopTakesHead
    <3>2. CallsNested(read) /\ Len(read) = Len(calls)
      BY <1>4, NestedPaid
    <3> HIDE DEF read
    <3>3. read # <<>>
      BY <1>2, <1>4, <3>2 DEF CallsNested
    <3>4. calls' = [read EXCEPT ![Len(read)] = c]
      BY <3>1, <3>2 DEF Depth
    <3>5. /\ CallsNested([read EXCEPT ![Len(read)] = c])
          /\ Extracting([read EXCEPT ![Len(read)] = c]) <=> c.at = "pop"
      BY <3>2, <3>3, NestedStep
    <3>6. c.at # "pop"
      BY <3>1
    <3>7. QED
      BY <3>4, <3>5, <3>6
  <2>3. QED
    BY <2>1, <2>2
<1>6. CallsTyped'
  <2>1. CallsNested(calls)' /\ ~Extracting(calls)'
    BY <1>5 DEF CallsNested, Extracting
  <2>2. QED
    BY <1>2, <1>3, <2>1 DEF CallsTyped, CallsNested, Extracting, Depth, Current
<1>7. RegistryTyped'
  BY <1>1, <1>2 DEF RegistryTyped, listenerVars
<1>8. PICK s : s = messageStream'
  OBVIOUS
<1>9. PICK t : t = messageNames'
  OBVIOUS
<1>10. /\ Tail(waiting) \in Seq(Queued)
       /\ s \in Seq(Tokens) /\ IsConcat(s, Fields(Tail(waiting)))
       /\ t \in Seq(Tokens) /\ IsConcat(t, Names(Tail(waiting)))
  BY <1>1, <1>2, <1>3, <1>8, <1>9, HeadIsTaken
<1>11. StreamsHoldWaiting'
  BY <1>2, <1>3, <1>8, <1>9, <1>10 DEF StreamsHoldWaiting
<1>12. QED
  BY <1>6, <1>7, <1>11 DEF QueueInvariant

\* A step of the innermost call that leaves the streams alone.
LEMMA StepKeeps ==
    ASSUME QueueInvariant, calls # <<>>, NEW c \in CallTypes, Goto(c),
           UNCHANGED <<messageStream, messageNames, sending, waiting, listenerVars>>,
           \/ c.at # "pop" /\ Current.at # "pop" /\ messageMutex' = messageMutex
           \/ c.at = "pop" /\ messageMutex = "none" /\ messageMutex' = "client"
              /\ messageStream # <<>>
    PROVE  QueueInvariant'
<1>1. CallsTyped /\ StreamsHoldWaiting /\ RegistryTyped
  BY DEF QueueInvariant
<1>2. CallsNested(calls)
  BY <1>1, CallsRestated
<1>3. calls' = [calls EXCEPT ![Len(calls)] = c]
  BY DEF Goto, Depth
<1>4. CallsNested(calls') /\ (Extracting(calls') <=> c.at = "pop")
  BY <1>2, <1>3, NestedStep
<1>5. CallsNested(calls)' /\ (Extracting(calls)' <=> c.at = "pop")
  BY <1>4 DEF CallsNested, Extracting
<1>6. Extracting(calls) <=> Current.at = "pop"
  BY DEF Extracting, Current, Depth
<1>7. /\ messageMutex \in {"none", "server", "client"}
      /\ (messageMutex = "server") <=> (sending # <<>>)
      /\ (messageMutex = "client") <=> Extracting(calls)
  BY <1>1, CallsRestated
<1>8. /\ messageMutex' \in {"none", "server", "client"}
      /\ (messageMutex' = "server") <=> (sending' # <<>>)
      /\ (messageMutex' = "client") <=> c.at = "pop"
  BY <1>6, <1>7
<1>9. CallsTyped'
  BY <1>5, <1>8 DEF CallsTyped, CallsNested, Extracting, Depth, Current
<1>10. RegistryTyped'
  BY <1>1 DEF RegistryTyped, listenerVars
<1>11. messageMutex' = "client" => messageStream # <<>>
  BY <1>1, <1>7 DEF StreamsHoldWaiting
<1>12. StreamsHoldWaiting'
  BY <1>1, <1>11 DEF StreamsHoldWaiting, HalfWritten
<1>13. QED
  BY <1>9, <1>10, <1>12 DEF QueueInvariant

\* The innermost call is a call.
LEMMA CurrentTyped ==
    ASSUME QueueInvariant, calls # <<>>
    PROVE  Current \in CallTypes
  BY DEF QueueInvariant, CallsTyped, Current, Depth

\* The global listener returns and the handle's listener is looked up.
LEMMA ReturnFromGlobalKeeps ==
    ASSUME QueueInvariant, ReturnFromGlobal
    PROVE  QueueInvariant'
<1> DEFINE c == CallListener(Current)
<1>1. /\ calls # <<>> /\ Current.at = "global" /\ Goto(c)
      /\ UNCHANGED <<streamVars, listenerVars>>
  BY DEF ReturnFromGlobal
<1>2. c \in CallTypes /\ c.at # "pop"
  <2>1. Current \in CallTypes /\ RegistryTyped
    BY <1>1, CurrentTyped DEF QueueInvariant
  <2>2. QED
    BY <2>1, ListenerCalled
<1> HIDE DEF c
<1>3. QED
  BY <1>1, <1>2, StepKeeps DEF streamVars

\* The handle's listener returns.
LEMMA ReturnFromListenerKeeps ==
    ASSUME QueueInvariant, ReturnFromListener
    PROVE  QueueInvariant'
<1> DEFINE c == [Current EXCEPT !.at = "lock", !.callee = NoListener]
<1>1. /\ calls # <<>> /\ Current.at = "listener" /\ Goto(c)
      /\ UNCHANGED <<streamVars, listenerVars>>
  BY DEF ReturnFromListener
<1>2. Current \in CallTypes /\ "lock" \in CallPoints
  BY <1>1, CurrentTyped DEF CallPoints
<1>3. c \in CallTypes /\ c.at # "pop"
  BY <1>2 DEF CallTypes
<1> HIDE DEF c
<1>4. QED
  BY <1>1, <1>3, StepKeeps DEF streamVars

\* The mutex is taken again for the next message.
LEMMA RelockKeeps ==
    ASSUME QueueInvariant, Relock
    PROVE  QueueInvariant'
<1>1. CallsTyped /\ StreamsHoldWaiting /\ RegistryTyped
  BY DEF QueueInvariant
<1>2. /\ calls # <<>> /\ Current.at = "lock" /\ messageMutex = "none"
      /\ UNCHANGED <<messageStream, messageNames, sending, waiting, listenerVars>>
  BY DEF Relock
<1>3. CASE messageStream = <<>>
  <2>1. calls' = SubSeq(calls, 1, Len(calls) - 1) /\ messageMutex' = messageMutex
    BY <1>3 DEF Relock, Return, Depth
  <2>2. CallsNested(calls)
    BY <1>1, CallsRestated
  <2>3. CallsNested(calls') /\ ~Extracting(calls')
    BY <1>2, <2>1, <2>2, NestedReturn
  <2>4. CallsNested(calls)' /\ ~Extracting(calls)'
    BY <2>3 DEF CallsNested, Extracting
  <2>5. CallsTyped'
    BY <1>1, <1>2, <2>1, <2>4 DEF CallsTyped, CallsNested, Extracting, Depth, Current
  <2>6. RegistryTyped'
    BY <1>1, <1>2 DEF RegistryTyped, listenerVars
  <2>7. StreamsHoldWaiting'
    BY <1>1, <1>2, <2>1 DEF StreamsHoldWaiting, HalfWritten
  <2>8. QED
    BY <2>5, <2>6, <2>7 DEF QueueInvariant
<1>4. CASE messageStream # <<>>
  <2> DEFINE c == [Current EXCEPT !.at = "pop"]
  <2>1. Goto(c) /\ messageMutex' = "client"
    BY <1>4 DEF Relock
  <2>2. Current \in CallTypes /\ "pop" \in CallPoints
    BY <1>2, CurrentTyped DEF CallPoints
  <2>3. c \in CallTypes /\ c.at = "pop"
    BY <2>2 DEF CallTypes
  <2> HIDE DEF c
  <2>4. QED
    BY <1>2, <1>4, <2>1, <2>3, StepKeeps
<1>5. QED
  BY <1>3, <1>4

(***************************************************************************)
(* The client's listeners, and the theorems about the streams              *)
(***************************************************************************)

\* A step of the client on its listeners leaves the messages alone.
LEMMA ClientStepKeeps ==
    ASSUME QueueInvariant, UNCHANGED <<streamVars, calls>>, RegistryTyped'
    PROVE  QueueInvariant'
<1>1. CallsTyped'
  BY DEF QueueInvariant, CallsTyped, streamVars, Depth, Current
<1>2. StreamsHoldWaiting'
  BY DEF QueueInvariant, StreamsHoldWaiting, HalfWritten, streamVars
<1>3. QED
  BY <1>1, <1>2 DEF QueueInvariant

\* The listener given a new handle, which may not be the one it is known by.
LEMMA RegisteredTyped ==
    ASSUME RegistryTyped, NEW l \in alive, NEW handle \in 1 .. handleIdx + 1,
           handleIdx < MaxHandles, handleIdx' = handleIdx + 1,
           handleOf' = [handleOf EXCEPT ![l] = handle],
           owning' = owning \cup {l},
           registry' = Registered(handleIdx + 1, l), alive' = alive
    PROVE  RegistryTyped'
<1>1. /\ handleIdx \in Nat /\ MaxHandles \in Nat /\ l \in Listeners
      /\ handleOf \in [Listeners -> 0 .. handleIdx]
  BY MessageQueueAssumption DEF RegistryTyped
<1>2. handleIdx' \in 0 .. MaxHandles
  BY <1>1
<1>3. handleOf' \in [Listeners -> 0 .. handleIdx']
  BY <1>1
<1>4. \A k \in owning' : handleOf'[k] # NullHandle
  BY <1>1 DEF RegistryTyped, NullHandle
<1>5. /\ DOMAIN registry' = DOMAIN registry \cup {handleIdx + 1}
      /\ \A h \in DOMAIN registry' : registry'[h] = IF h = handleIdx + 1 THEN l ELSE registry[h]
  BY DEF Registered
<1>6. DOMAIN registry' \subseteq 1 .. handleIdx'
  BY <1>1, <1>5 DEF RegistryTyped
<1>7. \A h \in DOMAIN registry' : registry'[h] \in Listeners
  BY <1>1, <1>5 DEF RegistryTyped
<1>8. QED
  BY <1>2, <1>3, <1>4, <1>6, <1>7 DEF RegistryTyped

\* A move keeps the types of the listener map.
LEMMA MoveTyped ==
    ASSUME RegistryTyped, NEW other \in Listeners, NEW l \in Listeners, Move(other, l)
    PROVE  RegistryTyped'
<1>1. /\ other \in alive /\ l \notin alive /\ alive' = alive \cup {l} /\ handleIdx' = handleIdx
      /\ handleOf' = [handleOf EXCEPT ![l] = handleOf[other]]
      /\ owning' = IF other \in owning THEN (owning \ {other}) \cup {l} ELSE owning
      /\ registry' = IF other \in owning THEN Registered(handleOf[other], l) ELSE registry
  BY DEF Move
<1>2. /\ handleIdx \in Nat /\ handleOf \in [Listeners -> 0 .. handleIdx]
      /\ owning \subseteq alive /\ alive \subseteq Listeners
      /\ \A k \in owning : handleOf[k] # NullHandle
      /\ DOMAIN registry \subseteq 1 .. handleIdx
      /\ \A h \in DOMAIN registry : registry[h] \in Listeners
      /\ handleIdx \in 0 .. MaxHandles
  BY MessageQueueAssumption DEF RegistryTyped
<1>3. /\ handleOf' \in [Listeners -> 0 .. handleIdx] /\ handleOf'[l] = handleOf[other]
      /\ \A k \in Listeners \ {l} : handleOf'[k] = handleOf[k]
  BY <1>1, <1>2
<1>4. CASE other \in owning
  <2> DEFINE n == handleOf[other]
  <2>1. n \in 1 .. handleIdx
    BY <1>2, <1>4 DEF NullHandle
  <2>2. /\ DOMAIN registry' = DOMAIN registry \cup {n}
        /\ \A h \in DOMAIN registry' : registry'[h] = IF h = n THEN l ELSE registry[h]
    BY <1>1, <1>4 DEF Registered
  <2>3. owning' = (owning \ {other}) \cup {l}
    BY <1>1, <1>4
  <2>4. \A k \in owning' : handleOf'[k] # NullHandle
    BY <1>1, <1>2, <1>3, <1>4, <2>3
  <2>5. QED
    BY <1>1, <1>2, <1>3, <2>1, <2>2, <2>3, <2>4 DEF RegistryTyped
<1>5. CASE other \notin owning
  <2>1. owning' = owning /\ registry' = registry
    BY <1>1, <1>5
  <2>2. \A k \in owning' : handleOf'[k] # NullHandle
    BY <1>1, <1>2, <1>3, <2>1
  <2>3. QED
    BY <1>1, <1>2, <1>3, <2>1, <2>2 DEF RegistryTyped
<1>6. QED
  BY <1>4, <1>5

\* So does a destruction ...
LEMMA DestroyTyped ==
    ASSUME RegistryTyped, NEW l \in Listeners, Destroy(l)
    PROVE  RegistryTyped'
<1>1. /\ alive' = alive \ {l} /\ owning' = owning \ {l} /\ handleOf' = handleOf
      /\ handleIdx' = handleIdx
      /\ registry' = IF l \in owning THEN Unregistered(handleOf[l]) ELSE registry
  BY DEF Destroy
<1>2. DOMAIN registry' \subseteq DOMAIN registry
      /\ \A h \in DOMAIN registry' : registry'[h] = registry[h]
  BY <1>1 DEF Unregistered
<1>3. QED
  BY <1>1, <1>2 DEF RegistryTyped

\* ... and a construction.
LEMMA ConstructTyped ==
    ASSUME RegistryTyped, NEW l \in Listeners, Construct(l)
    PROVE  RegistryTyped'
<1>1. /\ l \notin alive /\ alive' = alive \cup {l} /\ owning' = owning
      /\ handleOf' = [handleOf EXCEPT ![l] = NullHandle]
      /\ handleIdx' = handleIdx /\ registry' = registry
  BY DEF Construct
<1>2. /\ handleIdx \in Nat /\ handleOf \in [Listeners -> 0 .. handleIdx] /\ owning \subseteq alive
      /\ alive \subseteq Listeners
  BY MessageQueueAssumption DEF RegistryTyped
<1>3. handleOf' \in [Listeners -> 0 .. handleIdx] /\ \A k \in Listeners \ {l} : handleOf'[k] = handleOf[k]
  BY <1>1, <1>2 DEF NullHandle
<1>4. \A k \in owning' : handleOf'[k] # NullHandle
  BY <1>1, <1>2, <1>3 DEF RegistryTyped
<1>5. QED
  BY <1>1, <1>3, <1>4 DEF RegistryTyped

\* No step on the listeners disturbs the messages.
LEMMA ListenerNextKeeps ==
    ASSUME QueueInvariant, ListenerNext
    PROVE  QueueInvariant'
<1>1. RegistryTyped
  BY DEF QueueInvariant
<1>2. UNCHANGED <<streamVars, calls>>
  BY DEF ListenerNext, InstantiateUnheard, Construct, Instantiate,
     ReferenceListViewModelInstance, Destroy, Move
<1>3. ASSUME InstantiateUnheard PROVE RegistryTyped'
  <2>1. /\ handleIdx < MaxHandles /\ handleIdx' = handleIdx + 1
        /\ UNCHANGED <<registry, alive, owning, handleOf>>
    BY <1>3 DEF InstantiateUnheard
  <2>2. handleIdx \in 0 .. MaxHandles /\ MaxHandles \in Nat
        /\ handleOf \in [Listeners -> 0 .. handleIdx]
    BY <1>1, MessageQueueAssumption DEF RegistryTyped
  <2>3. handleIdx + 1 \in 0 .. MaxHandles /\ handleOf \in [Listeners -> 0 .. handleIdx + 1]
    BY <2>1, <2>2
  <2>4. 1 .. handleIdx \subseteq 1 .. handleIdx + 1
    BY <2>2
  <2>5. QED
    BY <1>1, <2>1, <2>3, <2>4 DEF RegistryTyped
<1>4. ASSUME NEW l \in Listeners, Instantiate(l) PROVE RegistryTyped'
  <2>1. handleIdx + 1 \in 1 .. handleIdx + 1
    BY <1>1, MessageQueueAssumption DEF RegistryTyped
  <2>2. /\ l \in alive /\ handleIdx < MaxHandles /\ handleIdx' = handleIdx + 1
        /\ handleOf' = [handleOf EXCEPT ![l] = handleIdx + 1]
        /\ owning' = owning \cup {l}
        /\ registry' = Registered(handleIdx + 1, l) /\ alive' = alive
    BY <1>4 DEF Instantiate
  <2>3. QED
    BY <1>1, <2>1, <2>2, RegisteredTyped
<1>5. ASSUME NEW l \in Listeners, ReferenceListViewModelInstance(l) PROVE RegistryTyped'
  <2>1. PICK handle \in 1 .. handleIdx : handleOf' = [handleOf EXCEPT ![l] = handle]
    BY <1>5 DEF ReferenceListViewModelInstance
  <2>2. handle \in 1 .. handleIdx + 1
    BY <1>1, MessageQueueAssumption DEF RegistryTyped
  <2>3. /\ l \in alive /\ handleIdx < MaxHandles /\ handleIdx' = handleIdx + 1
        /\ owning' = owning \cup {l}
        /\ registry' = Registered(handleIdx + 1, l) /\ alive' = alive
    BY <1>5 DEF ReferenceListViewModelInstance
  <2>4. QED
    BY <1>1, <2>1, <2>2, <2>3, RegisteredTyped
<1>6. ASSUME NEW l \in Listeners, Construct(l) PROVE RegistryTyped'
  BY <1>1, <1>6, ConstructTyped
<1>7. ASSUME NEW l \in Listeners, Destroy(l) PROVE RegistryTyped'
  BY <1>1, <1>7, DestroyTyped
<1>8. ASSUME NEW l \in Listeners, NEW other \in Listeners, Move(other, l)
      PROVE  RegistryTyped'
  BY <1>1, <1>8, MoveTyped
<1>9. RegistryTyped'
  BY <1>3, <1>4, <1>5, <1>6, <1>7, <1>8 DEF ListenerNext
<1>10. QED
  BY <1>2, <1>9, ClientStepKeeps

\* Every step keeps the invariant of the messages.
LEMMA NextKeepsQueue ==
    ASSUME QueueInvariant, [Next]_vars
    PROVE  QueueInvariant'
<1>1. CASE ServerNext
  BY <1>1, ServerWritesKeeps, ServerFinishesKeeps DEF ServerNext
<1>2. CASE ProcessNext
  BY <1>2, ProcessMessagesKeeps, PopKeeps, ReturnFromGlobalKeeps, ReturnFromListenerKeeps,
     RelockKeeps DEF ProcessNext
<1>3. CASE ListenerNext
  BY <1>3, ListenerNextKeeps
<1>4. CASE UNCHANGED vars
  <2>1. UNCHANGED <<streamVars, calls>> /\ RegistryTyped'
    BY <1>4 DEF vars, streamVars, QueueInvariant, RegistryTyped
  <2>2. QED
    BY <2>1, ClientStepKeeps
<1>5. QED
  BY <1>1, <1>2, <1>3, <1>4 DEF Next

\* The invariant of the messages holds in every behaviour, also if the client
\* calls referenceListViewModelInstance.
THEOREM QueueSafe == Spec => []QueueInvariant
<1>1. QueueInvariant /\ [Next]_vars => QueueInvariant'
  BY NextKeepsQueue
<1>2. QED
  BY <1>1, InitQueue, PTL DEF Spec

\* The type invariant: the mutex is held by whoever is in the streams.
THEOREM TypeCorrectness == Spec => []TypeOK
<1>1. QueueInvariant => TypeOK
  <2> SUFFICES ASSUME QueueInvariant PROVE TypeOK
    OBVIOUS
  <2>1. CallsTyped /\ RegistryTyped
    BY DEF QueueInvariant
  <2>2. \A i \in DOMAIN calls :
          /\ calls[i].at \in CallPoints
          /\ calls[i].handle \in Handles \cup {NullHandle}
          /\ calls[i].callee \in Listeners \cup {NoListener}
          /\ calls[i].owed \in Nat
    <3>1. \A i \in DOMAIN calls : calls[i] \in CallTypes
      BY <2>1 DEF CallsTyped
    <3>2. QED
      BY <3>1 DEF CallTypes
  <2>3. QED
    BY <2>1, <2>2 DEF TypeOK, CallsTyped, RegistryTyped
<1>2. QED
  BY <1>1, QueueSafe, PTL

\* A sequence that starts with another has it as a prefix.
LEMMA StartsIsPrefix ==
    ASSUME NEW T, NEW s \in Seq(T), NEW w \in Seq(T), Starts(s, w)
    PROVE  IsPrefixOf(w, s)
<1> DEFINE k == Len(w)
           u == SubSeq(s, 1, k)
<1>1. k \in Nat /\ k <= Len(s) /\ \A i \in 1..k : s[i] = w[i]
  BY DEF Starts
<1>2. u \in Seq(T) /\ Len(u) = k /\ \A i \in 1..k : u[i] = s[i]
  BY <1>1, FrontFacts
<1>3. u = w
  <2> HIDE DEF u
  <2>1. \A i \in 1..Len(u) : u[i] = w[i]
    BY <1>1, <1>2
  <2>2. Len(u) = Len(w)
    BY <1>2
  <2>3. QED
    BY <1>2, <2>1, <2>2, SameSequence
<1>4. QED
  BY <1>1, <1>3 DEF IsPrefixOf

\* The streams never get out of step: whatever messages of whatever kinds and
\* shapes the server sends, however calls of processMessages are nested, the
\* client takes out of either stream what was written for the oldest message.
THEOREM StreamsStayInStep == Spec => []ReadsWhatWasWritten
<1>1. QueueInvariant => ReadsWhatWasWritten
  <2> SUFFICES ASSUME QueueInvariant, messageMutex # "server", messageStream # <<>>
               PROVE  LET m == Head(waiting)
                          names == ReadNames(messageStream)
                      IN  /\ ReadPODs(messageStream) = FieldNames(Written(m))
                          /\ IsPrefixOf(Written(m), messageStream)
                          /\ names = (IF IsMarker(m) THEN <<>> ELSE FieldNames(WriteNames(m)))
                          /\ IsPrefixOf(names, FieldNames(messageNames))
    BY DEF ReadsWhatWasWritten
  <2>1. CallsTyped /\ StreamsHoldWaiting
    BY DEF QueueInvariant
  <2>2. sending = <<>> /\ waiting # <<>>
    BY <2>1, EmptyStream DEF CallsTyped
  <2> DEFINE q == waiting[1]
  <2>3. Head(waiting) = q
    BY <2>1, <2>2 DEF StreamsHoldWaiting
  <2>4. /\ q \in Queued
        /\ Starts(messageStream, Written(q)) /\ Starts(messageNames, NamesOf(q))
        /\ ReadPODs(messageStream) = FieldNames(Written(q))
        /\ ReadNames(messageStream) = FieldNames(NamesOf(q))
    BY <2>1, <2>2, HeadIsRead
  <2> HIDE DEF q
  <2>5. /\ messageStream \in Seq(Tokens) /\ messageNames \in Seq(Tokens)
        /\ Written(q) \in Seq(Tokens) /\ NamesOf(q) \in Seq(Tokens)
    BY <2>1, <2>4, WrittenFacts DEF StreamsHoldWaiting
  <2>6. IsPrefixOf(Written(q), messageStream)
    BY <2>4, <2>5, StartsIsPrefix
  <2>7. FieldNames(NamesOf(q)) = IF IsMarker(q) THEN <<>> ELSE FieldNames(WriteNames(q))
    BY EmptyNames DEF NamesOf
  <2> DEFINE w == NamesOf(q)
  <2>8. IsPrefixOf(FieldNames(w), FieldNames(messageNames))
    <3>1. /\ FieldNames(w) \in Seq(Labels) /\ Len(FieldNames(w)) = Len(w)
          /\ \A i \in 1..Len(w) : FieldNames(w)[i] = w[i].field
      BY <2>5, FieldNamesFacts
    <3>2. /\ FieldNames(messageNames) \in Seq(Labels)
          /\ Len(FieldNames(messageNames)) = Len(messageNames)
          /\ \A i \in 1..Len(messageNames) : FieldNames(messageNames)[i] = messageNames[i].field
      BY <2>5, FieldNamesFacts
    <3>3. Len(w) <= Len(messageNames) /\ Len(w) \in Nat /\ Len(messageNames) \in Nat
          /\ \A i \in 1..Len(w) : messageNames[i] = w[i]
      BY <2>4, <2>5 DEF Starts
    <3> HIDE DEF w
    <3>4. Starts(FieldNames(messageNames), FieldNames(w))
      BY <3>1, <3>2, <3>3 DEF Starts
    <3>5. QED
      BY <3>1, <3>2, <3>4, StartsIsPrefix
  <2>9. QED
    BY <2>3, <2>4, <2>6, <2>7, <2>8
<1>2. QED
  BY <1>1, QueueSafe, PTL

(***************************************************************************)
(* Markers                                                                 *)
(***************************************************************************)

\* The places of the markers in a queue of messages and markers ...
Markers(queue) == {i \in DOMAIN queue : IsMarker(queue[i])}

\* ... and of the messages before one of them.
Before(queue, p) == {i \in Unread(queue) : i < p}

\* The places, seen from behind the first place.
Shifted(S) == {i \in Nat \ {0} : i + 1 \in S}

\* Taking the head moves every place by one and gives up the first.
LEMMA ShiftedCount ==
    ASSUME NEW S \in SUBSET (Nat \ {0}), IsFiniteSet(S)
    PROVE  /\ Cardinality(S) \in Nat
           /\ Cardinality(Shifted(S)) = IF 1 \in S THEN Cardinality(S) - 1 ELSE Cardinality(S)
<1> DEFINE T == Shifted(S)
           R == S \ {1}
           f == [i \in R |-> i - 1]
<1>1. IsFiniteSet(R) /\ Cardinality(R) = IF 1 \in S THEN Cardinality(S) - 1 ELSE Cardinality(S)
  BY FS_RemoveElement
<1>2. \A i \in R : i - 1 \in T
  BY DEF Shifted
<1>3. \A i, j \in R : i - 1 = j - 1 => i = j
  OBVIOUS
<1>4. \A i \in T : i + 1 \in R /\ (i + 1) - 1 = i
  BY DEF Shifted
<1> HIDE DEF T, R
<1>5. f \in [R -> T] /\ \A i \in R : f[i] = i - 1
  BY <1>2
<1>6. f \in Bijection(R, T)
  <2>1. f \in Injection(R, T)
    BY <1>3, <1>5 DEF Injection, IsInjective
  <2>2. \A t \in T : \E s \in R : f[s] = t
    BY <1>4, <1>5
  <2>3. f \in Surjection(R, T)
    BY <1>5, <2>2 DEF Surjection
  <2>4. QED
    BY <2>1, <2>3 DEF Bijection
<1>7. ExistsBijection(R, T)
  BY <1>6, Zenon DEF ExistsBijection
<1>8. Cardinality(T) = Cardinality(R)
  BY <1>1, <1>7, FS_Bijection
<1>9. Cardinality(S) \in Nat
  BY FS_CardinalityType
<1>10. QED
  BY <1>1, <1>8, <1>9 DEF T

\* The places are finitely many and not 0.
LEMMA PlacesFacts ==
    ASSUME NEW queue \in Seq(Queued)
    PROVE  /\ Markers(queue) \in SUBSET (1..Len(queue)) /\ IsFiniteSet(Markers(queue))
           /\ Unread(queue) \in SUBSET (1..Len(queue)) /\ IsFiniteSet(Unread(queue))
           /\ \A p : Before(queue, p) \in SUBSET Unread(queue) /\ IsFiniteSet(Before(queue, p))
           /\ Len(queue) \in Nat
<1>1. Len(queue) \in Nat /\ DOMAIN queue = 1..Len(queue)
  OBVIOUS
<1>2. IsFiniteSet(1..Len(queue))
  BY <1>1, FS_Interval
<1>3. Markers(queue) \in SUBSET (1..Len(queue)) /\ Unread(queue) \in SUBSET (1..Len(queue))
      /\ \A p : Before(queue, p) \in SUBSET Unread(queue)
  BY <1>1 DEF Markers, Unread, Before
<1>4. IsFiniteSet(Markers(queue))
  BY <1>2, <1>3, FS_Subset
<1>5. IsFiniteSet(Unread(queue))
  BY <1>2, <1>3, FS_Subset
<1>6. \A p : IsFiniteSet(Before(queue, p))
  BY <1>3, <1>5, FS_Subset
<1>7. QED
  BY <1>1, <1>3, <1>4, <1>5, <1>6

\* What is appended is behind all markers and all messages before them.
LEMMA PlacesAppend ==
    ASSUME NEW queue \in Seq(Queued), NEW q \in Queued
    PROVE  /\ IsMarker(q) => Markers(Append(queue, q)) = Markers(queue) \cup {Len(queue) + 1}
           /\ ~IsMarker(q) => Markers(Append(queue, q)) = Markers(queue)
           /\ Len(queue) + 1 \notin Markers(queue)
           /\ \A p \in 1..Len(queue) : Before(Append(queue, q), p) = Before(queue, p)
           /\ Before(Append(queue, q), Len(queue) + 1) = Unread(queue)
<1> DEFINE more == Append(queue, q)
           n == Len(queue)
<1>1. /\ n \in Nat /\ DOMAIN queue = 1..n /\ DOMAIN more = 1..(n + 1) /\ more[n + 1] = q
      /\ \A i \in 1..n : more[i] = queue[i]
  OBVIOUS
<1>2. \A i : i \in 1..(n + 1) <=> i \in 1..n \/ i = n + 1
  BY <1>1
<1>3. n + 1 \notin 1..n /\ \A i \in 1..n : i < n + 1
  BY <1>1
<1>4. \A p \in 1..n : ~ (n + 1 < p)
  BY <1>1
<1> HIDE DEF more, n
<1>5. /\ IsMarker(q) => Markers(more) = Markers(queue) \cup {n + 1}
      /\ ~IsMarker(q) => Markers(more) = Markers(queue)
      /\ n + 1 \notin Markers(queue)
  BY <1>1, <1>2, <1>3 DEF Markers
<1>6. Unread(more) \subseteq Unread(queue) \cup {n + 1} /\ Unread(queue) \subseteq Unread(more)
      /\ Unread(queue) \subseteq 1..n
  BY <1>1, <1>2, <1>3 DEF Unread
<1>7. \A p \in 1..n : Before(more, p) = Before(queue, p)
  BY <1>4, <1>6 DEF Before
<1>8. ~ (n + 1 < n + 1)
  BY <1>1
<1>9. Before(more, n + 1) = Unread(queue)
  BY <1>3, <1>6, <1>8 DEF Before
<1>10. QED
  BY <1>5, <1>7, <1>9 DEF more, n

\* Behind the head the places are one less.
LEMMA PlacesTail ==
    ASSUME NEW queue \in Seq(Queued), queue # <<>>
    PROVE  /\ Markers(Tail(queue)) = Shifted(Markers(queue))
           /\ \A p \in Nat : Before(Tail(queue), p) = Shifted(Before(queue, p + 1))
<1> DEFINE rest == Tail(queue)
           n == Len(queue)
<1>1. /\ n \in Nat /\ n >= 1 /\ DOMAIN queue = 1..n /\ DOMAIN rest = 1..(n - 1)
      /\ \A i \in 1..(n - 1) : rest[i] = queue[i + 1]
  OBVIOUS
<1> HIDE DEF rest, n
<1>2. \A i : i \in 1..(n - 1) <=> i \in Nat \ {0} /\ i + 1 \in 1..n
  <2>1. \A i \in 1..(n - 1) : i \in Nat \ {0} /\ i + 1 \in 1..n
    BY <1>1
  <2>2. \A i \in Nat \ {0} : i + 1 \in 1..n => i \in 1..(n - 1)
    BY <1>1
  <2>3. QED
    BY <2>1, <2>2
<1>3. Markers(rest) = Shifted(Markers(queue))
  BY <1>1, <1>2 DEF Markers, Shifted
<1>4. Unread(rest) = Shifted(Unread(queue))
  BY <1>1, <1>2 DEF Unread, Shifted
<1>5. ASSUME NEW p \in Nat PROVE Before(rest, p) = Shifted(Before(queue, p + 1))
  <2>1. \A i \in Nat \ {0} : (i < p) <=> (i + 1 < p + 1)
    OBVIOUS
  <2>2. QED
    BY <1>4, <2>1 DEF Before, Shifted
<1>6. QED
  BY <1>3, <1>5 DEF rest

\* So many messages at least are before one of the markers.
Owes(owed, queue) ==
    \E p \in Markers(queue) : owed <= Cardinality(Before(queue, p))

\* How many markers there are after an append, and what is before one of them.
LEMMA OwesAppend ==
    ASSUME NEW queue \in Seq(Queued), NEW q \in Queued
    PROVE  /\ Cardinality(Markers(queue)) \in Nat
           /\ Cardinality(Markers(Append(queue, q))) =
                 IF IsMarker(q) THEN Cardinality(Markers(queue)) + 1
                 ELSE Cardinality(Markers(queue))
           /\ \A owed : Owes(owed, queue) => Owes(owed, Append(queue, q))
           /\ IsMarker(q) => Owes(Cardinality(Unread(queue)), Append(queue, q))
<1> DEFINE more == Append(queue, q)
           n == Len(queue)
<1>1. /\ IsMarker(q) => Markers(more) = Markers(queue) \cup {n + 1}
      /\ ~IsMarker(q) => Markers(more) = Markers(queue)
      /\ n + 1 \notin Markers(queue)
      /\ \A p \in 1..n : Before(more, p) = Before(queue, p)
      /\ Before(more, n + 1) = Unread(queue)
  BY PlacesAppend
<1>2. /\ Markers(queue) \in SUBSET (1..n) /\ IsFiniteSet(Markers(queue))
      /\ IsFiniteSet(Unread(queue))
  BY PlacesFacts
<1> HIDE DEF more, n
<1>3. Cardinality(Markers(queue)) \in Nat /\ Cardinality(Unread(queue)) \in Nat
  BY <1>2, FS_CardinalityType
<1>4. Cardinality(Markers(more)) =
                 IF IsMarker(q) THEN Cardinality(Markers(queue)) + 1
                 ELSE Cardinality(Markers(queue))
  BY <1>1, <1>2, FS_AddElement
<1>5. \A owed : Owes(owed, queue) => Owes(owed, more)
  BY <1>1, <1>2 DEF Owes
<1>6. IsMarker(q) => Owes(Cardinality(Unread(queue)), more)
  BY <1>1, <1>3 DEF Owes
<1>7. QED
  BY <1>3, <1>4, <1>5, <1>6 DEF more

\* The head is a message: it is paid off by whoever is owed one.
LEMMA OwesMessage ==
    ASSUME NEW queue \in Seq(Queued), queue # <<>>, ~IsMarker(queue[1])
    PROVE  /\ Cardinality(Markers(Tail(queue))) = Cardinality(Markers(queue))
           /\ \A owed \in Nat : Owes(owed, queue) =>
                 Owes(IF owed = 0 THEN 0 ELSE owed - 1, Tail(queue))
<1>1. /\ Markers(Tail(queue)) = Shifted(Markers(queue))
      /\ \A p \in Nat : Before(Tail(queue), p) = Shifted(Before(queue, p + 1))
  BY PlacesTail
<1>2. /\ Markers(queue) \in SUBSET (1..Len(queue)) /\ IsFiniteSet(Markers(queue))
      /\ Unread(queue) \in SUBSET (1..Len(queue))
      /\ \A p : Before(queue, p) \in SUBSET Unread(queue) /\ IsFiniteSet(Before(queue, p))
      /\ Len(queue) \in Nat
  BY PlacesFacts
<1>3. 1 \notin Markers(queue) /\ 1 \in Unread(queue)
  BY DEF Markers, Unread
<1>4. Markers(queue) \in SUBSET (Nat \ {0}) /\ \A p : Before(queue, p) \in SUBSET (Nat \ {0})
  BY <1>2
<1>5. Cardinality(Shifted(Markers(queue))) = Cardinality(Markers(queue))
  BY <1>2, <1>3, <1>4, ShiftedCount
<1>6. ASSUME NEW owed \in Nat, Owes(owed, queue)
      PROVE  Owes(IF owed = 0 THEN 0 ELSE owed - 1, Tail(queue))
  <2>1. PICK p \in Markers(queue) : owed <= Cardinality(Before(queue, p))
    BY <1>6 DEF Owes
  <2>2. p \in Nat /\ p > 1 /\ p - 1 \in Nat \ {0} /\ (p - 1) + 1 = p
    BY <1>2, <1>3, <2>1
  <2>3. p - 1 \in Markers(Tail(queue))
    BY <1>1, <2>1, <2>2 DEF Shifted
  <2>4. Before(Tail(queue), p - 1) = Shifted(Before(queue, p))
    BY <1>1, <2>2
  <2>5. 1 \in Before(queue, p)
    BY <1>3, <2>2 DEF Before
  <2> DEFINE B == Before(queue, p)
  <2>6. B \in SUBSET (Nat \ {0}) /\ IsFiniteSet(B) /\ 1 \in B
    BY <1>2, <1>4, <2>5
  <2> HIDE DEF B
  <2>7. Cardinality(B) \in Nat /\ Cardinality(Shifted(B)) = Cardinality(B) - 1
    BY <2>6, ShiftedCount
  <2>8. B # {}
    BY <2>6
  <2>9. Cardinality(B) # 0
    BY <2>6, <2>8, FS_EmptySet
  <2>10. (IF owed = 0 THEN 0 ELSE owed - 1) <= Cardinality(Before(Tail(queue), p - 1))
    BY <2>1, <2>4, <2>7, <2>9 DEF B
  <2>11. QED
    BY <2>3, <2>10 DEF Owes
<1>7. QED
  BY <1>1, <1>5, <1>6

\* The head is a marker: it goes, and what is owed is before another one.
LEMMA OwesMarker ==
    ASSUME NEW queue \in Seq(Queued), queue # <<>>, IsMarker(queue[1])
    PROVE  /\ Cardinality(Markers(Tail(queue))) = Cardinality(Markers(queue)) - 1
           /\ Cardinality(Markers(queue)) \in Nat
           /\ \A owed \in Nat : Owes(owed, queue) =>
                 IF Cardinality(Markers(queue)) = 1 THEN owed = 0 ELSE Owes(owed, Tail(queue))
<1>1. /\ Markers(Tail(queue)) = Shifted(Markers(queue))
      /\ \A p \in Nat : Before(Tail(queue), p) = Shifted(Before(queue, p + 1))
  BY PlacesTail
<1>2. /\ Markers(queue) \in SUBSET (1..Len(queue)) /\ IsFiniteSet(Markers(queue))
      /\ Unread(queue) \in SUBSET (1..Len(queue))
      /\ \A p : Before(queue, p) \in SUBSET Unread(queue) /\ IsFiniteSet(Before(queue, p))
      /\ Len(queue) \in Nat
  BY PlacesFacts
<1>3. 1 \in Markers(queue) /\ 1 \notin Unread(queue)
  BY DEF Markers, Unread
<1>4. Markers(queue) \in SUBSET (Nat \ {0}) /\ \A p : Before(queue, p) \in SUBSET (Nat \ {0})
  BY <1>2
<1>5. /\ Cardinality(Shifted(Markers(queue))) = Cardinality(Markers(queue)) - 1
      /\ Cardinality(Markers(queue)) \in Nat
  BY <1>2, <1>3, <1>4, ShiftedCount
<1>6. Before(queue, 1) = {}
  BY <1>2 DEF Before
<1>7. Cardinality(Before(queue, 1)) = 0
  BY <1>6, FS_EmptySet, Zenon
<1>8. ASSUME NEW owed \in Nat, Owes(owed, queue)
      PROVE  IF Cardinality(Markers(queue)) = 1 THEN owed = 0 ELSE Owes(owed, Tail(queue))
  <2>1. PICK p \in Markers(queue) : owed <= Cardinality(Before(queue, p))
    BY <1>8 DEF Owes
  <2>2. p = 1 => owed = 0
    BY <1>7, <2>1
  <2>3. CASE Cardinality(Markers(queue)) = 1
    <3>1. p = 1
      <4>1. PICK x : Markers(queue) = {x}
        BY <1>2, <2>3, FS_Singleton
      <4>2. QED
        BY <1>3, <2>1, <4>1
    <3>2. QED
      BY <2>2, <2>3, <3>1
  <2>4. CASE Cardinality(Markers(queue)) # 1
    <3>1. \E x \in Markers(queue) : x # 1
      <4> SUFFICES ASSUME \A x \in Markers(queue) : x = 1 PROVE FALSE
        OBVIOUS
      <4>1. Markers(queue) = {1}
        BY <1>3
      <4>2. QED
        BY <2>4, <4>1, FS_Singleton
    <3>2. PICK x \in Markers(queue) : x # 1 /\ (p # 1 => x = p)
      BY <2>1, <3>1
    <3>3. x \in Nat /\ x > 1 /\ x - 1 \in Nat \ {0} /\ (x - 1) + 1 = x
      BY <1>2, <3>2
    <3>4. x - 1 \in Markers(Tail(queue))
      BY <1>1, <3>2, <3>3 DEF Shifted
    <3>5. Before(Tail(queue), x - 1) = Shifted(Before(queue, x))
      BY <1>1, <3>3
    <3> DEFINE B == Before(queue, x)
    <3>6. B \in SUBSET (Nat \ {0}) /\ IsFiniteSet(B) /\ 1 \notin B
      BY <1>2, <1>3, <1>4 DEF Before
    <3> HIDE DEF B
    <3>7. Cardinality(B) \in Nat /\ Cardinality(Shifted(B)) = Cardinality(B)
      BY <3>6, ShiftedCount
    <3>8. owed <= Cardinality(B)
      BY <2>1, <2>2, <3>2, <3>7 DEF B
    <3>9. owed <= Cardinality(Before(Tail(queue), x - 1))
      BY <3>5, <3>7, <3>8 DEF B
    <3>10. Owes(owed, Tail(queue))
      BY <3>4, <3>9 DEF Owes
    <3>11. QED
      BY <2>4, <3>10
  <2>5. QED
    BY <2>3, <2>4
<1>9. QED
  BY <1>1, <1>5, <1>8

\* Every call in progress has a marker waiting, and what the outermost call is
\* owed is before one of them.  The markers do not belong to a call: one made in
\* a callback takes the marker of the call around it.
CallsMarked ==
    /\ Cardinality(Markers(waiting)) = Depth
    /\ calls # <<>> => Owes(calls[1].owed, waiting)

MarkedInvariant == QueueInvariant /\ CallsMarked

\* No call is in progress at first and no marker waits.
LEMMA InitMarked == Init => MarkedInvariant
<1> SUFFICES ASSUME Init PROVE MarkedInvariant
  OBVIOUS
<1>1. Markers(<<>>) = {}
  BY DEF Markers
<1>2. Cardinality({}) = 0
  BY FS_EmptySet
<1>3. CallsMarked
  BY <1>1, <1>2 DEF Init, CallsMarked, Depth
<1>4. QED
  BY <1>3, InitQueue DEF MarkedInvariant

\* When a call ends at the loop's condition the stream is empty: it never is,
\* because the marker of the call still waits.
LEMMA MarkerStillWaits ==
    ASSUME MarkedInvariant, calls # <<>>
    PROVE  messageStream # <<>> /\ Depth \in Nat /\ Depth >= 1
<1>1. StreamsHoldWaiting /\ calls \in Seq(CallTypes)
  BY DEF MarkedInvariant, QueueInvariant, CallsTyped
<1>2. Depth \in Nat /\ Depth >= 1
  BY <1>1 DEF Depth
<1>3. waiting # <<>>
  <2> SUFFICES ASSUME waiting = <<>> PROVE FALSE
    OBVIOUS
  <2>1. Markers(waiting) = {}
    BY DEF Markers
  <2>2. Cardinality({}) = 0
    BY FS_EmptySet
  <2>3. QED
    BY <1>2, <2>1, <2>2 DEF MarkedInvariant, CallsMarked
<1>4. QED
  BY <1>1, <1>2, <1>3, EmptyStream

\* The innermost call goes on and owes what it owed.
LEMMA StepMarked ==
    ASSUME MarkedInvariant, calls # <<>>, NEW c \in CallTypes, Goto(c),
           c.owed = Current.owed, UNCHANGED waiting
    PROVE  CallsMarked'
<1>1. CallsNested(calls)
  BY CallsRestated DEF MarkedInvariant, QueueInvariant
<1>2. calls' = [calls EXCEPT ![Len(calls)] = c]
  BY DEF Goto, Depth
<1>3. /\ Len(calls') = Len(calls) /\ calls'[Len(calls)] = c
      /\ \A i \in 1..Len(calls) - 1 : calls'[i] = calls[i]
  BY <1>1, <1>2, NestedStep
<1>4. Len(calls) \in Nat /\ Len(calls) >= 1
  BY MarkerStillWaits DEF Depth
<1>5. calls'[1].owed = calls[1].owed
  <2>1. CASE Len(calls) = 1
    BY <1>3, <2>1 DEF Current, Depth
  <2>2. CASE Len(calls) # 1
    BY <1>3, <1>4, <2>2
  <2>3. QED
    BY <2>1, <2>2
<1>6. QED
  BY <1>3, <1>5 DEF CallsMarked, MarkedInvariant, Depth

\* A new message is behind every marker.
LEMMA ServerMarked ==
    ASSUME MarkedInvariant, ServerWrites
    PROVE  CallsMarked'
<1>1. CallsTyped /\ StreamsHoldWaiting /\ RegistryTyped
  BY DEF MarkedInvariant, QueueInvariant
<1>2. PICK m \in Messages, h \in 1 .. handleIdx :
         LET message == [kind |-> m.kind, handle |-> h, shape |-> m.shape]
         IN  /\ sending' = <<message>>
             /\ waiting' = Append(waiting, message)
             /\ messageStream' = messageStream \o WritePODs(message)
  BY DEF ServerWrites
<1> DEFINE q == [kind |-> m.kind, handle |-> h, shape |-> m.shape]
<1>3. waiting' = Append(waiting, q) /\ calls' = calls
  BY <1>2 DEF ServerWrites
<1>4. h \in Handles
  BY <1>1, MessageQueueAssumption DEF RegistryTyped, Handles
<1>5. q \in Queued
  BY <1>4 DEF Queued
<1>6. ~IsMarker(q)
  <2>1. HasLayout(m) /\ q.kind = m.kind
    BY MessageQueueAssumption
  <2>2. QED
    BY <2>1 DEF HasLayout, IsMarker
<1> HIDE DEF q
<1>7. waiting \in Seq(Queued)
  BY <1>1 DEF StreamsHoldWaiting
<1>8. /\ Cardinality(Markers(Append(waiting, q))) = Cardinality(Markers(waiting))
      /\ \A owed : Owes(owed, waiting) => Owes(owed, Append(waiting, q))
  BY <1>5, <1>6, <1>7, OwesAppend
<1>9. /\ Cardinality(Markers(waiting')) = Cardinality(Markers(waiting))
      /\ \A owed : Owes(owed, waiting) => Owes(owed, waiting')
  BY <1>3, <1>8
<1>10. QED
  BY <1>3, <1>9 DEF CallsMarked, MarkedInvariant, Depth

\* A new marker is behind every message its call is owed.
LEMMA ProcessMarked ==
    ASSUME MarkedInvariant, ProcessMessages
    PROVE  CallsMarked'
<1>1. CallsTyped /\ StreamsHoldWaiting
  BY DEF MarkedInvariant, QueueInvariant
<1>2. waiting' = Append(waiting, LoopBreak) /\ calls' = Append(calls, NewCall)
  BY DEF ProcessMessages
<1>3. LoopBreak \in Queued /\ IsMarker(LoopBreak) /\ waiting \in Seq(Queued)
  BY <1>1, MarkerReadBack DEF StreamsHoldWaiting
<1>4. /\ Cardinality(Markers(waiting')) = Cardinality(Markers(waiting)) + 1
      /\ \A owed : Owes(owed, waiting) => Owes(owed, waiting')
      /\ Owes(Cardinality(Unread(waiting)), waiting')
  <2>1. /\ Cardinality(Markers(Append(waiting, LoopBreak))) = Cardinality(Markers(waiting)) + 1
        /\ \A owed : Owes(owed, waiting) => Owes(owed, Append(waiting, LoopBreak))
        /\ Owes(Cardinality(Unread(waiting)), Append(waiting, LoopBreak))
    BY <1>3, OwesAppend
  <2>2. QED
    BY <1>2, <2>1
<1>5. /\ Len(calls) \in Nat /\ Len(calls') = Len(calls) + 1
      /\ calls = <<>> => calls'[1] = NewCall
      /\ calls # <<>> => calls'[1] = calls[1]
  BY <1>1, <1>2 DEF CallsTyped
<1>6. NewCall.owed = Cardinality(Unread(waiting))
  BY DEF NewCall
<1>7. Owes(calls'[1].owed, waiting')
  BY <1>4, <1>5, <1>6 DEF MarkedInvariant, CallsMarked
<1>8. QED
  BY <1>4, <1>5, <1>7 DEF CallsMarked, MarkedInvariant, Depth

\* A message pays every call; a marker ends the innermost, and when it ends the
\* outermost nothing is owed to it any more.
LEMMA PopMarked ==
    ASSUME MarkedInvariant, Pop
    PROVE  /\ CallsMarked'
           /\ (Depth = 1 /\ Depth' = 0) => Current.owed = 0
<1>1. CallsTyped /\ StreamsHoldWaiting /\ calls # <<>>
  BY DEF MarkedInvariant, QueueInvariant, Pop
<1>2. waiting # <<>> /\ waiting' = Tail(waiting)
  BY PopTakesHead DEF MarkedInvariant, Pop
<1>3. waiting \in Seq(Queued) /\ calls \in Seq(CallTypes) /\ CallsNested(calls)
  BY <1>1, CallsRestated DEF StreamsHoldWaiting, CallsTyped
<1>4. Len(calls) \in Nat /\ Len(calls) >= 1 /\ calls[1] \in CallTypes
  BY <1>1, <1>3
<1>5. \A c \in CallTypes : c.owed \in Nat
  BY DEF CallTypes
<1>6. Len(calls) \in Nat /\ Len(calls) >= 1 /\ calls[1] \in CallTypes /\ calls[1].owed \in Nat
  BY <1>4, <1>5
<1>7. Cardinality(Markers(waiting)) = Len(calls) /\ Owes(calls[1].owed, waiting)
  BY <1>1 DEF MarkedInvariant, CallsMarked, Depth
<1>8. CASE IsMarker(waiting[1])
  <2>1. calls' = SubSeq(calls, 1, Len(calls) - 1)
    BY <1>8, PopTakesHead DEF Return, Depth, MarkedInvariant
  <2>2. /\ Len(calls') = Len(calls) - 1
        /\ \A i \in 1..Len(calls) - 1 : calls'[i] = calls[i]
    BY <1>1, <1>3, <2>1, NestedReturn
  <2>3. /\ Cardinality(Markers(Tail(waiting))) = Cardinality(Markers(waiting)) - 1
        /\ IF Cardinality(Markers(waiting)) = 1 THEN calls[1].owed = 0
           ELSE Owes(calls[1].owed, Tail(waiting))
    BY <1>2, <1>3, <1>6, <1>7, <1>8, OwesMarker
  <2>4. Cardinality(Markers(waiting')) = Len(calls')
    BY <1>2, <1>7, <2>2, <2>3
  <2>5. calls' # <<>> => Owes(calls'[1].owed, waiting')
    <3> SUFFICES ASSUME calls' # <<>> PROVE Owes(calls'[1].owed, waiting')
      OBVIOUS
    <3>1. Len(calls') # 0
      BY <1>3, <1>6, <2>1
    <3>2. 1 \in 1..Len(calls) - 1 /\ Cardinality(Markers(waiting)) # 1
      BY <1>6, <1>7, <2>2, <3>1
    <3>3. QED
      BY <1>2, <2>2, <2>3, <3>2
  <2>6. CallsMarked'
    BY <2>4, <2>5 DEF CallsMarked, Depth
  <2>7. (Depth = 1 /\ Depth' = 0) => Current.owed = 0
    BY <1>7, <2>3 DEF Depth, Current
  <2>8. QED
    BY <2>6, <2>7
<1>9. CASE ~IsMarker(waiting[1])
  <2> DEFINE read == [i \in DOMAIN calls |-> Paid(calls[i])]
  <2>1. PICK c \in CallTypes :
          /\ calls' = [read EXCEPT ![Depth] = c]
          /\ c.owed = Paid(calls[Depth]).owed
    BY <1>9, PopTakesHead DEF MarkedInvariant
  <2>2. /\ CallsNested(read) /\ Len(read) = Len(calls)
        /\ \A i \in 1..Len(calls) : read[i] = Paid(calls[i])
    BY <1>3, NestedPaid
  <2> HIDE DEF read
  <2>3. read # <<>>
    BY <1>6, <2>2 DEF CallsNested
  <2>4. calls' = [read EXCEPT ![Len(read)] = c]
    BY <2>1, <2>2 DEF Depth
  <2>5. /\ Len(calls') = Len(read) /\ calls'[Len(read)] = c
        /\ \A i \in 1..Len(read) - 1 : calls'[i] = read[i]
    BY <2>2, <2>3, <2>4, NestedStep
  <2>6. calls'[1].owed = Paid(calls[1]).owed
    <3>1. CASE Len(calls) = 1
      BY <2>1, <2>2, <2>5, <3>1 DEF Depth
    <3>2. CASE Len(calls) # 1
      <4>1. 1 \in 1..Len(read) - 1 /\ 1 \in 1..Len(calls)
        BY <1>6, <2>2, <3>2
      <4>2. QED
        BY <2>2, <2>5, <4>1
    <3>3. QED
      BY <3>1, <3>2
  <2>7. Paid(calls[1]).owed = IF calls[1].owed = 0 THEN 0 ELSE calls[1].owed - 1
    BY <1>6, PaidCall
  <2>8. /\ Cardinality(Markers(Tail(waiting))) = Cardinality(Markers(waiting))
        /\ Owes(IF calls[1].owed = 0 THEN 0 ELSE calls[1].owed - 1, Tail(waiting))
    BY <1>2, <1>3, <1>6, <1>7, <1>9, OwesMessage
  <2>9. Cardinality(Markers(waiting')) = Len(calls') /\ Owes(calls'[1].owed, waiting')
    BY <1>2, <1>7, <2>2, <2>5, <2>6, <2>7, <2>8
  <2>10. CallsMarked'
    BY <2>9 DEF CallsMarked, Depth
  <2>11. Depth' = Depth
    BY <2>2, <2>5 DEF Depth
  <2>12. QED
    BY <2>10, <2>11
<1>10. QED
  BY <1>8, <1>9

\* The loop's condition ends no call.
LEMMA RelockMarked ==
    ASSUME MarkedInvariant, Relock
    PROVE  CallsMarked' /\ Depth' = Depth
<1>1. calls # <<>> /\ messageStream # <<>>
  BY MarkerStillWaits DEF Relock
<1> DEFINE c == [Current EXCEPT !.at = "pop"]
<1>2. Goto(c) /\ UNCHANGED waiting
  BY <1>1 DEF Relock
<1>3. Current \in CallTypes /\ "pop" \in CallPoints
  BY <1>1, CurrentTyped DEF CallPoints, MarkedInvariant
<1>4. c \in CallTypes /\ c.owed = Current.owed
  BY <1>3 DEF CallTypes
<1> HIDE DEF c
<1>5. CallsMarked'
  BY <1>1, <1>2, <1>4, StepMarked
<1>6. CallsNested(calls)
  BY CallsRestated DEF MarkedInvariant, QueueInvariant
<1>7. Len(calls') = Len(calls)
  BY <1>1, <1>2, <1>4, <1>6, NestedStep DEF Goto, Depth
<1>8. QED
  BY <1>5, <1>7 DEF Depth

\* A callback that returns ends no call.
LEMMA ReturnMarked ==
    ASSUME MarkedInvariant, ReturnFromGlobal \/ ReturnFromListener
    PROVE  CallsMarked' /\ Depth' = Depth
<1>1. calls # <<>> /\ UNCHANGED waiting
  BY DEF ReturnFromGlobal, ReturnFromListener, streamVars
<1>2. Current \in CallTypes /\ RegistryTyped /\ CallsNested(calls)
  BY <1>1, CurrentTyped, CallsRestated DEF MarkedInvariant, QueueInvariant
<1>3. PICK c \in CallTypes : Goto(c) /\ c.owed = Current.owed
  <2>1. CASE ReturnFromGlobal
    <3>1. CallListener(Current) \in CallTypes /\ CallListener(Current).owed = Current.owed
      BY <1>2, ListenerCalled
    <3>2. Goto(CallListener(Current))
      BY <2>1 DEF ReturnFromGlobal
    <3>3. QED
      BY <3>1, <3>2
  <2>2. CASE ReturnFromListener
    <3> DEFINE d == [Current EXCEPT !.at = "lock", !.callee = NoListener]
    <3>1. "lock" \in CallPoints
      BY DEF CallPoints
    <3>2. d \in CallTypes /\ d.owed = Current.owed
      BY <1>2, <3>1 DEF CallTypes
    <3>3. Goto(d)
      BY <2>2 DEF ReturnFromListener
    <3>4. QED
      BY <3>2, <3>3
  <2>3. QED
    BY <2>1, <2>2
<1>4. CallsMarked'
  BY <1>1, <1>3, StepMarked
<1>5. Len(calls') = Len(calls)
  BY <1>1, <1>2, <1>3, NestedStep DEF Goto, Depth
<1>6. QED
  BY <1>4, <1>5 DEF Depth

\* Every step keeps the markers, and none ends the outermost call too early.
LEMMA NextKeepsMarked ==
    ASSUME MarkedInvariant, [Next]_vars
    PROVE  /\ MarkedInvariant'
           /\ (Depth = 1 /\ Depth' = 0) => Current.owed = 0
<1>1. QueueInvariant'
  BY NextKeepsQueue DEF MarkedInvariant
<1>2. ASSUME UNCHANGED <<waiting, calls>> PROVE CallsMarked' /\ Depth' = Depth
  BY <1>2 DEF MarkedInvariant, CallsMarked, Depth
<1>3. CASE ServerWrites
  <2>1. Depth' = Depth
    BY <1>3 DEF ServerWrites, Depth
  <2>2. QED
    BY <1>1, <1>3, <2>1, ServerMarked DEF MarkedInvariant
<1>4. CASE ServerFinishes
  BY <1>1, <1>2, <1>4 DEF ServerFinishes, MarkedInvariant
<1>5. CASE ProcessMessages
  <2>1. Depth' = Depth + 1 /\ Depth \in Nat
    BY <1>5 DEF ProcessMessages, Depth, MarkedInvariant, QueueInvariant, CallsTyped
  <2>2. QED
    BY <1>1, <1>5, <2>1, ProcessMarked DEF MarkedInvariant
<1>6. CASE Pop
  BY <1>1, <1>6, PopMarked DEF MarkedInvariant
<1>7. CASE ReturnFromGlobal \/ ReturnFromListener
  BY <1>1, <1>7, ReturnMarked DEF MarkedInvariant
<1>8. CASE Relock
  BY <1>1, <1>8, RelockMarked DEF MarkedInvariant
<1>9. CASE ListenerNext
  <2>1. UNCHANGED <<waiting, calls>>
    BY <1>9 DEF ListenerNext, InstantiateUnheard, Construct, Instantiate,
       ReferenceListViewModelInstance, Destroy, Move, streamVars
  <2>2. QED
    BY <1>1, <1>2, <2>1 DEF MarkedInvariant
<1>10. CASE UNCHANGED vars
  BY <1>1, <1>2, <1>10 DEF MarkedInvariant, vars
<1>11. ServerWrites \/ ServerFinishes \/ ProcessMessages \/ Pop \/ ReturnFromGlobal
       \/ ReturnFromListener \/ Relock \/ ListenerNext \/ UNCHANGED vars
  BY DEF Next, ServerNext, ProcessNext
<1>12. QED
  BY <1>3, <1>4, <1>5, <1>6, <1>7, <1>8, <1>9, <1>10, <1>11

\* There are as many markers waiting as calls in progress.
THEOREM EveryCallIsMarked == Spec => []MarkedInvariant
<1>1. MarkedInvariant /\ [Next]_vars => MarkedInvariant'
  BY NextKeepsMarked
<1>2. QED
  BY <1>1, InitMarked, PTL DEF Spec

\* The outermost call of processMessages consumes every message that was
\* waiting when it was made, whatever its callbacks do.
THEOREM OutermostCallConsumesAll == Spec => ConsumesAllReceived
<1>1. MarkedInvariant /\ [Next]_vars => ((Depth = 1 /\ Depth' = 0) => Current.owed = 0)
  BY NextKeepsMarked
<1>2. MarkedInvariant /\ [Next]_vars => [(Depth = 1 /\ Depth' = 0) => Current.owed = 0]_vars
  BY <1>1
<1>3. QED
  BY <1>2, EveryCallIsMarked, PTL DEF Spec, ConsumesAllReceived

\* The condition of the loop in processMessages never ends a call, for the
\* marker of one still waits: every call ends at a marker.
THEOREM EveryCallEndsAtMarker == Spec => [][Relock => Depth' = Depth]_vars
<1>1. MarkedInvariant /\ [Next]_vars => [Relock => Depth' = Depth]_vars
  BY RelockMarked
<1>2. QED
  BY <1>1, EveryCallIsMarked, PTL DEF Spec

(***************************************************************************)
(* Live listeners                                                          *)
(***************************************************************************)

\* The listener found in the map is the one that is called, and it is alive.
CalledFromMap(c) ==
    /\ c.handle \in DOMAIN registry
    /\ c.callee = registry[c.handle]
    /\ c.callee \in alive

\* A listener is called where none was.
NewlyCalled(i) ==
    calls'[i].at = "listener" /\ (i \notin DOMAIN calls \/ calls[i].at # "listener")

\* What the map holds is alive.
LEMMA MapIsAlive ==
    ASSUME QueueInvariant, ListenersAreRegisteredOnce, NEW h \in DOMAIN registry
    PROVE  registry[h] \in alive
  BY DEF QueueInvariant, RegistryTyped, ListenersAreRegisteredOnce

\* Only the innermost call of processMessages can have called a listener.
LEMMA OnlyTopCalls ==
    ASSUME NEW n \in Nat, Len(calls) = n, calls' \in Seq(CallTypes), calls \in Seq(CallTypes),
           Len(calls') <= n,
           \A i \in 1..n - 1 : i \in DOMAIN calls' => calls'[i].at = calls[i].at,
           n \in DOMAIN calls' /\ calls'[n].at = "listener" => CalledFromMap(calls'[n])
    PROVE  \A i \in DOMAIN calls' : NewlyCalled(i) => CalledFromMap(calls'[i])
<1> SUFFICES ASSUME NEW i \in DOMAIN calls', NewlyCalled(i) PROVE CalledFromMap(calls'[i])
  OBVIOUS
<1>1. DOMAIN calls = 1..n /\ DOMAIN calls' = 1..Len(calls') /\ Len(calls') \in Nat
  OBVIOUS
<1>2. i \in 1..n
  BY <1>1
<1>3. CASE i = n
  BY <1>3 DEF NewlyCalled
<1>4. CASE i # n
  <2>1. i \in 1..n - 1
    BY <1>2, <1>4
  <2>2. calls'[i].at = calls[i].at /\ i \in DOMAIN calls
    BY <1>1, <1>2, <2>1
  <2>3. QED
    BY <2>2 DEF NewlyCalled
<1>5. QED
  BY <1>3, <1>4

\* A step of the innermost call to a listener that is in the map.
LEMMA GotoCalls ==
    ASSUME QueueInvariant, calls # <<>>, NEW c \in CallTypes, Goto(c),
           c.at = "listener" => CalledFromMap(c)
    PROVE  \A i \in DOMAIN calls' : NewlyCalled(i) => CalledFromMap(calls'[i])
<1>1. CallsNested(calls) /\ calls \in Seq(CallTypes) /\ Len(calls) \in Nat
  BY CallsRestated DEF QueueInvariant, CallsNested
<1> DEFINE n == Len(calls)
<1>2. calls' = [calls EXCEPT ![n] = c]
  BY DEF Goto, Depth
<1>3. CallsNested(calls')
  BY <1>1, <1>2, NestedStep
<1>4. /\ Len(calls') = n /\ calls'[n] = c
       /\ \A i \in 1..n - 1 : calls'[i] = calls[i]
  BY <1>1, <1>2, NestedStep
<1>5. /\ CallsNested(calls') /\ Len(calls') = n /\ calls'[n] = c
      /\ \A i \in 1..n - 1 : calls'[i] = calls[i]
  BY <1>3, <1>4
<1>6. calls' \in Seq(CallTypes)
  BY <1>5 DEF CallsNested
<1> HIDE DEF n
<1>7. n \in Nat /\ Len(calls) = n /\ Len(calls') <= n
  BY <1>1, <1>5 DEF n
<1>8. \A i \in 1..n - 1 : i \in DOMAIN calls' => calls'[i].at = calls[i].at
  BY <1>5
<1>9. calls'[n].at = "listener" => CalledFromMap(calls'[n])
  BY <1>5
<1>10. QED
  BY <1>1, <1>6, <1>7, <1>8, <1>9, OnlyTopCalls

\* A return calls no listener.
LEMMA ReturnCalls ==
    ASSUME QueueInvariant, calls # <<>>, Return
    PROVE  \A i \in DOMAIN calls' : NewlyCalled(i) => CalledFromMap(calls'[i])
<1>1. CallsNested(calls) /\ calls \in Seq(CallTypes) /\ Len(calls) \in Nat
  BY CallsRestated DEF QueueInvariant, CallsNested
<1> DEFINE n == Len(calls)
<1>2. calls' = SubSeq(calls, 1, n - 1)
  BY DEF Return, Depth
<1>3. /\ CallsNested(calls') /\ Len(calls') = n - 1
      /\ \A i \in 1..n - 1 : calls'[i] = calls[i]
  BY <1>1, <1>2, NestedReturn
<1>4. calls' \in Seq(CallTypes)
  BY <1>3 DEF CallsNested
<1> HIDE DEF n
<1>5. n \in Nat /\ Len(calls) = n /\ Len(calls') <= n /\ n \notin DOMAIN calls'
  BY <1>1, <1>3, <1>4 DEF n
<1>6. \A i \in 1..n - 1 : i \in DOMAIN calls' => calls'[i].at = calls[i].at
  BY <1>3
<1>7. QED
  BY <1>1, <1>4, <1>5, <1>6, OnlyTopCalls

\* What is in the map may be called.
LEMMA LookupCalls ==
    ASSUME QueueInvariant, ListenersAreRegisteredOnce, NEW c, c.at = "listener",
           c.handle \in DOMAIN registry, c.callee = registry[c.handle]
    PROVE  CalledFromMap(c)
  BY MapIsAlive DEF CalledFromMap

\* Without a global listener the handle's listener is called at once.
LEMMA PopCalls ==
    ASSUME QueueInvariant, ListenersAreRegisteredOnce, Pop
    PROVE  \A i \in DOMAIN calls' : NewlyCalled(i) => CalledFromMap(calls'[i])
<1>1. calls # <<>>
  BY DEF Pop
<1>2. CASE IsMarker(waiting[1])
  BY <1>1, <1>2, PopTakesHead, ReturnCalls
<1>3. CASE ~IsMarker(waiting[1])
  <2> DEFINE read == [i \in DOMAIN calls |-> Paid(calls[i])]
             n == Len(calls)
  <2>1. PICK c \in CallTypes :
          /\ calls' = [read EXCEPT ![Depth] = c]
          /\ c.at = "listener" => c.handle \in DOMAIN registry /\ c.callee = registry[c.handle]
    BY <1>3, PopTakesHead
  <2>2. CallsNested(calls) /\ calls \in Seq(CallTypes) /\ n \in Nat /\ n >= 1
    BY <1>1, CallsRestated DEF QueueInvariant, CallsNested
  <2>3. /\ CallsNested(read) /\ Len(read) = n
        /\ \A i \in 1..n : read[i] = Paid(calls[i])
    BY <2>2, NestedPaid
  <2>4. \A i \in 1..n : Paid(calls[i]).at = calls[i].at
    BY <2>2, PaidCall
  <2> HIDE DEF read
  <2>5. read # <<>>
    BY <2>2, <2>3 DEF CallsNested
  <2>6. calls' = [read EXCEPT ![Len(read)] = c]
    BY <2>1, <2>3 DEF Depth
  <2>7. CallsNested(calls')
    BY <2>3, <2>5, <2>6, NestedStep
  <2>8. /\ Len(calls') = Len(read) /\ calls'[Len(read)] = c
         /\ \A i \in 1..Len(read) - 1 : calls'[i] = read[i]
    BY <2>3, <2>5, <2>6, NestedStep
  <2>9. /\ CallsNested(calls') /\ Len(calls') = Len(read) /\ calls'[Len(read)] = c
        /\ \A i \in 1..Len(read) - 1 : calls'[i] = read[i]
    BY <2>7, <2>8
  <2>10. calls' \in Seq(CallTypes) /\ Len(calls') <= n
    BY <2>2, <2>3, <2>9 DEF CallsNested
  <2>11. calls'[n].at = "listener" => CalledFromMap(calls'[n])
    BY <2>1, <2>3, <2>9, LookupCalls
  <2> HIDE DEF n
  <2>12. \A i \in 1..n - 1 : calls'[i].at = calls[i].at
    BY <2>2, <2>3, <2>4, <2>9
  <2>13. Len(calls) = n
    BY DEF n
  <2>14. QED
    BY <2>2, <2>10, <2>11, <2>12, <2>13, OnlyTopCalls
<1>4. QED
  BY <1>2, <1>3

\* Every step calls only what is in the map.
LEMMA NextCallsLive ==
    ASSUME QueueInvariant, ListenersAreRegisteredOnce, Next
    PROVE  \A i \in DOMAIN calls' : NewlyCalled(i) => CalledFromMap(calls'[i])
<1>1. ASSUME UNCHANGED calls
      PROVE  \A i \in DOMAIN calls' : NewlyCalled(i) => CalledFromMap(calls'[i])
  BY <1>1 DEF NewlyCalled
<1>2. CASE ServerNext \/ ListenerNext
  <2>1. UNCHANGED calls
    BY <1>2 DEF ServerNext, ServerWrites, ServerFinishes, ListenerNext, InstantiateUnheard,
       Construct, Instantiate, ReferenceListViewModelInstance, Destroy, Move
  <2>2. QED
    BY <1>1, <2>1
<1>3. CASE ProcessMessages
  <2>1. calls' = Append(calls, NewCall) /\ calls \in Seq(CallTypes)
    BY <1>3 DEF ProcessMessages, QueueInvariant, CallsTyped
  <2>2. NewCall.at = "pop"
    BY DEF NewCall
  <2> DEFINE c == NewCall
             n == Len(calls)
  <2> HIDE DEF c
  <2>3. /\ n \in Nat /\ DOMAIN calls = 1..n /\ DOMAIN calls' = 1..(n + 1)
        /\ calls'[n + 1] = c /\ \A i \in 1..n : calls'[i] = calls[i]
    BY <2>1 DEF c
  <2> HIDE DEF n
  <2>4. \A i \in 1..(n + 1) : i \in 1..n \/ i = n + 1
    BY <2>3
  <2>5. QED
    BY <2>2, <2>3, <2>4 DEF NewlyCalled, c
<1>4. CASE Pop
  BY <1>4, PopCalls
<1>5. CASE ReturnFromGlobal
  <2> DEFINE c == CallListener(Current)
  <2>1. calls # <<>> /\ Goto(c)
    BY <1>5 DEF ReturnFromGlobal
  <2>2. Current \in CallTypes /\ RegistryTyped
    BY <2>1, CurrentTyped DEF QueueInvariant
  <2>3. /\ c \in CallTypes /\ c.handle = Current.handle
        /\ c.at = "listener" => Current.handle \in DOMAIN registry /\ c.callee = registry[Current.handle]
    BY <2>2, ListenerCalled
  <2> HIDE DEF c
  <2>4. c.at = "listener" => CalledFromMap(c)
    BY <2>3, LookupCalls
  <2>5. QED
    BY <2>1, <2>3, <2>4, GotoCalls
<1>6. CASE ReturnFromListener
  <2> DEFINE c == [Current EXCEPT !.at = "lock", !.callee = NoListener]
  <2>1. calls # <<>> /\ Goto(c)
    BY <1>6 DEF ReturnFromListener
  <2>2. Current \in CallTypes /\ "lock" \in CallPoints
    BY <2>1, CurrentTyped DEF CallPoints
  <2>3. c \in CallTypes /\ c.at # "listener"
    BY <2>2 DEF CallTypes
  <2> HIDE DEF c
  <2>4. QED
    BY <2>1, <2>3, GotoCalls
<1>7. CASE Relock
  <2>1. CASE messageStream = <<>>
    <3>1. Return /\ calls # <<>>
      BY <1>7, <2>1 DEF Relock
    <3>2. QED
      BY <3>1, ReturnCalls
  <2>2. CASE messageStream # <<>>
    <3> DEFINE c == [Current EXCEPT !.at = "pop"]
    <3>1. calls # <<>> /\ Goto(c)
      BY <1>7, <2>2 DEF Relock
    <3>2. Current \in CallTypes /\ "pop" \in CallPoints
      BY <3>1, CurrentTyped DEF CallPoints
    <3>3. c \in CallTypes /\ c.at # "listener"
      BY <3>2 DEF CallTypes
    <3> HIDE DEF c
    <3>4. QED
      BY <3>1, <3>3, GotoCalls
  <2>3. QED
    BY <2>1, <2>2
<1>8. QED
  BY <1>2, <1>3, <1>4, <1>5, <1>6, <1>7 DEF Next, ProcessNext

\* As long as the client never calls referenceListViewModelInstance, what
\* processMessages calls is in the listener map and alive, even if the global
\* listener destroyed or moved listeners for the same message just before.
THEOREM OnlyLiveListenersCalled == ~ListReferences => (Spec => CallsLiveListener)
<1>1. ASSUME QueueInvariant, ListenersAreRegisteredOnce, Next
      PROVE  \A i \in DOMAIN calls' :
                (calls'[i].at = "listener" /\ (i \notin DOMAIN calls \/ calls[i].at # "listener"))
                    => /\ calls'[i].handle \in DOMAIN registry
                       /\ calls'[i].callee = registry[calls'[i].handle]
                       /\ calls'[i].callee \in alive
  BY <1>1, NextCallsLive DEF NewlyCalled, CalledFromMap
<1>2. QueueInvariant /\ ListenersAreRegisteredOnce /\ [Next]_vars =>
        [\A i \in DOMAIN calls' :
            (calls'[i].at = "listener" /\ (i \notin DOMAIN calls \/ calls[i].at # "listener"))
                => /\ calls'[i].handle \in DOMAIN registry
                   /\ calls'[i].callee = registry[calls'[i].handle]
                   /\ calls'[i].callee \in alive]_vars
  BY <1>1
<1>3. ASSUME ~ListReferences PROVE Spec => CallsLiveListener
  <2>1. Spec => []ListenersAreRegisteredOnce
    BY <1>3, ListenersSafe
  <2>2. QED
    BY <1>2, <2>1, QueueSafe, PTL DEF Spec, CallsLiveListener
<1>4. QED
  BY <1>3
==============================================================================
